----------------------------- MODULE MCPipeline -----------------------------
(***************************************************************************)
(* Instances of Pipeline for TLC: tables of three columns a, a_b and b, of  *)
(* kinds on both sides of the thresholds that decide what is done to them.  *)
(***************************************************************************)
EXTENDS Pipeline

Kind(dtype, card, gap, length, skew, narrow) ==
  [dtype |-> dtype, card |-> card, gap |-> gap, length |-> length, skew |-> skew,
   narrow |-> narrow, gaps |-> "plain"]

Kinds ==
  { Kind("object", 5, 0, 8, "none", FALSE),        \* one-hot encoding
    Kind("bool", 2, 0, 0, "none", FALSE),          \* label encoding
    Kind("object", 1900, 0, 12, "none", FALSE),    \* feature hashing, composite id
    Kind("object", 1500, 0, 120, "none", FALSE),   \* long text
    Kind("int", 1, 0, 0, "low", TRUE),             \* constant: drop
    Kind("float", 900, 40, 0, "low", FALSE),       \* moderately missing: impute
    Kind("float", 1, 80, 0, "low", TRUE),          \* constant and mostly missing
    Kind("float", 400, 90, 0, "low", FALSE),       \* mostly missing
    Kind("object", 5, 40, 8, "none", FALSE),       \* impute and encode
    Kind("float", 900, 0, 0, "high", TRUE) }       \* skewed, within a tiny range

Names == << << "a" >>, << "a", "b" >>, << "b" >> >>

Table(kinds) ==
  Canonical([i \in DOMAIN kinds |->
    [name |-> Names[i], dtype |-> kinds[i].dtype, card |-> kinds[i].card, gap |-> kinds[i].gap,
     length |-> kinds[i].length, skew |-> kinds[i].skew, narrow |-> kinds[i].narrow,
     gaps |-> kinds[i].gaps]])

Facts ==
  [dup |-> 0, other |-> 0, strong |-> 0, moderate |-> 0, hub |-> FALSE, image |-> FALSE,
   flat |-> {}, heavy |-> FALSE, low |-> FALSE]

\* One thing out of the ordinary at a time. A hub would take four numbers.
Circumstances ==
  { Facts,
    [Facts EXCEPT !.dup = 30],
    [Facts EXCEPT !.other = 98],
    [Facts EXCEPT !.other = 98, !.flat = {<< "a" >>, << "a", "b" >>, << "b" >>}],
    [Facts EXCEPT !.strong = 1],
    [Facts EXCEPT !.moderate = 1],
    [Facts EXCEPT !.image = TRUE],
    [Facts EXCEPT !.heavy = TRUE],
    [Facts EXCEPT !.low = TRUE] }

\* Only numbers that vary correlate.
Possible(kinds, f) ==
  f.strong + f.moderate > 0 =>
    \E i, j \in DOMAIN kinds : /\ i # j
                             /\ \A k \in {i, j} : kinds[k].dtype = "float" /\ kinds[k].card > 1

Job(kinds, f) ==
  [table |-> Table(kinds), target |-> Names[1], dup |-> f.dup, other |-> f.other,
   strong |-> f.strong, moderate |-> f.moderate, hub |-> f.hub, image |-> f.image,
   flat |-> f.flat, heavy |-> f.heavy, low |-> f.low]

\* Every table of three columns in every circumstance it can be in; the first is the target.
AllJobs ==
  {Job(p[1], p[2]) : p \in {q \in [1 .. 3 -> Kinds] \X Circumstances : Possible(q[1], q[2])}}

FewJobs == {Job(k, Facts) : k \in [1 .. 2 -> Kinds]}
=============================================================================
