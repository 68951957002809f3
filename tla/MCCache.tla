------------------------------ MODULE MCCache -------------------------------
(***************************************************************************)
(* Instances of Cache: jobs a and c on one data set, b on another.         *)
(***************************************************************************)
EXTENDS Cache

CONSTANTS a, b, c

ThreeJobs == {a, b, c}
TwoDatasets == {"k", "m"}
DatasetOf == [j \in ThreeJobs |-> IF j = b THEN "m" ELSE "k"]
=============================================================================
