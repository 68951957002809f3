----------------------------- MODULE MCHitlGate -----------------------------
(***************************************************************************)
(* Instances of HitlGate: two jobs, a and b.                               *)
(***************************************************************************)
EXTENDS HitlGate

CONSTANTS a, b

TwoJobs == {a, b}
TableKeys == {"ka", "kb", "u", "ja", "jb"}

\* Every job has a dataset of its own, or both work on the same one.
OwnUuid == [j \in TwoJobs |-> IF j = a THEN "ka" ELSE "kb"]
SharedUuid == [j \in TwoJobs |-> "u"]

\* The pages look for job ids, as the shipped page does.
PageKey == [j \in TwoJobs |-> IF j = a THEN "ja" ELSE "jb"]

\* The page of a does, the page of b uses the key of b's gate: without such a page
\* nobody could ever click, and with it a must still not be answered.
MixedKey == [PageKey EXCEPT ![b] = OwnUuid[b]]
=============================================================================
