------------------------ MODULE ModelRotation_proofs -------------------------
(* Proofs about ModelRotation, for any pool and any limit of rejections.       *)
EXTENDS ModelRotation, TLAPS

\* The model that is steps places after i in the pool.
After(i, steps) == IF i + steps < PoolSize THEN i + steps ELSE i + steps - PoolSize

\* A call asks the models in the order of the pool, from the first it asked on.
InPoolOrder == \A i \in DOMAIN asked : asked[i] = After(asked[1], i - 1)

\* Where the index and the counter stand in that order, by the state of the call.
Position ==
  /\ Len(asked) <= PoolSize
  /\ pc \in {"asking", "sleeping"} => Len(asked) = attempts + 1
  /\ pc = "asking" => index = asked[Len(asked)]
  /\ pc = "sleeping" => index = After(asked[Len(asked)], 1)
  /\ pc = "exhausted" => Len(asked) = PoolSize
  /\ pc = "approved" => index = winner
  /\ pc # "failed" => review_iterations < MaxReviews

IInv == TypeOK /\ InPoolOrder /\ Position /\ WinnerIsAskedFirst

LEMMA RotatedIsNext ==
  ASSUME NEW i \in Models
  PROVE  /\ Rotated(i) \in Models
         /\ Rotated(i) = After(i, 1)
<1>1. CASE i + 1 < PoolSize BY <1>1, RotationAssumption DEF Rotated, After, Models
<1>2. CASE i + 1 = PoolSize BY <1>2, RotationAssumption DEF Rotated, After, Models
<1> QED BY <1>1, <1>2, RotationAssumption DEF Models

LEMMA InitIInv == Init => IInv
<1> SUFFICES ASSUME Init PROVE IInv OBVIOUS
<1>1. asked = <<>> /\ Len(asked) = 0 /\ asked \in Seq(Models) BY DEF Init
<1>2. 0 \in Models /\ 0 \in 0 .. PoolSize /\ 0 \in 0 .. MaxReviews
  BY RotationAssumption DEF Models
<1>3. TypeOK BY <1>1, <1>2 DEF Init, TypeOK
<1>4. InPoolOrder BY <1>1 DEF InPoolOrder
<1>5. Position BY <1>1, RotationAssumption DEF Init, Position
<1>6. WinnerIsAskedFirst BY DEF Init, WinnerIsAskedFirst
<1> QED BY <1>3, <1>4, <1>5, <1>6 DEF IInv

\* The head of the loop, entered with the index on the model next in turn.
LEMMA TryKeepsOrder ==
  ASSUME TypeOK, InPoolOrder, index' \in Models,
         NEW n \in 0 .. PoolSize, NEW before \in Seq(Models),
         Len(before) = n,
         \A i \in DOMAIN before : before[i] = After(before[1], i - 1),
         n > 0 => index' = After(before[n], 1),
         Try(n, before)
  PROVE  /\ pc' \in {"asking", "exhausted"}
         /\ attempts' = n
         /\ asked' \in Seq(Models)
         /\ InPoolOrder'
         /\ pc' = "asking" => Len(asked') = n + 1 /\ n < PoolSize /\ asked'[n + 1] = index'
         /\ pc' = "exhausted" => asked' = before /\ n = PoolSize
         /\ n > 0 => asked'[1] = before[1]
<1>1. CASE n < PoolSize
  <2>1. pc' = "asking" /\ attempts' = n /\ asked' = Append(before, index') BY <1>1 DEF Try
  <2>2. asked' \in Seq(Models) /\ Len(asked') = n + 1 /\ asked'[n + 1] = index' BY <2>1
  <2>3. \A i \in 1 .. n : asked'[i] = before[i] BY <2>1
  <2>4. \A i \in DOMAIN asked' : asked'[i] = After(asked'[1], i - 1)
    <3> SUFFICES ASSUME NEW i \in 1 .. n + 1 PROVE asked'[i] = After(asked'[1], i - 1) BY <2>2
    <3>1. CASE n = 0 BY <3>1, <2>2, RotationAssumption DEF After, Models
    <3>2. CASE n > 0 /\ i <= n BY <3>2, <2>3
    <3>3. CASE n > 0 /\ i = n + 1
      <4>1. before[n] = After(before[1], n - 1) /\ before[1] \in Models BY <3>3
      <4>2. index' = After(After(before[1], n - 1), 1) BY <4>1, <3>3
      <4>3. After(After(before[1], n - 1), 1) = After(before[1], n)
        BY <4>1, <1>1, <3>3, RotationAssumption DEF After, Models
      <4> QED BY <4>2, <4>3, <2>2, <2>3, <3>3
    <3> QED BY <3>1, <3>2, <3>3
  <2> QED BY <2>1, <2>2, <2>3, <2>4, <1>1 DEF InPoolOrder
<1>2. CASE n = PoolSize BY <1>2 DEF Try, InPoolOrder
<1> QED BY <1>1, <1>2, RotationAssumption

LEMMA NextIInv == IInv /\ [Next]_vars => IInv'
<1> SUFFICES ASSUME IInv, [Next]_vars PROVE IInv' OBVIOUS
<1> USE RotationAssumption DEF IInv
<1>1. CASE Call
  <2>1. index' \in Models /\ Try(0, <<>>) /\ pc = "ready" /\ index' = index /\ UNCHANGED dialogue
    BY <1>1 DEF Call, TypeOK
  <2>2. /\ pc' \in {"asking", "exhausted"} /\ attempts' = 0 /\ asked' \in Seq(Models)
        /\ InPoolOrder'
        /\ pc' = "asking" => Len(asked') = 1 /\ asked'[1] = index'
        /\ pc' # "exhausted"
    <3> HIDE DEF IInv
    <3>1. TypeOK /\ InPoolOrder BY DEF IInv
    <3>2. <<>> \in Seq(Models) /\ Len(<<>>) = 0 /\ 0 \in 0 .. PoolSize
          /\ \A i \in DOMAIN <<>> : <<>>[i] = After(<<>>[1], i - 1)
      BY RotationAssumption
    <3> DEFINE none == <<>>
    <3>3. /\ pc' \in {"asking", "exhausted"} /\ attempts' = 0 /\ asked' \in Seq(Models)
          /\ InPoolOrder'
          /\ pc' = "asking" => Len(asked') = 0 + 1 /\ asked'[0 + 1] = index'
          /\ pc' = "exhausted" => 0 = PoolSize
      <4>1. none \in Seq(Models) /\ Len(none) = 0 /\ Try(0, none)
            /\ \A i \in DOMAIN none : none[i] = After(none[1], i - 1)
        BY <2>1, <3>2
      <4>2. 0 > 0 => index' = After(none[0], 1) OBVIOUS
      <4> HIDE DEF none
      <4> QED BY <2>1, <3>1, <3>2, <4>1, <4>2, TryKeepsOrder
    <3> QED BY <3>3, RotationAssumption
  <2> QED BY <2>1, <2>2 DEF TypeOK, Position, WinnerIsAskedFirst, dialogue
<1>2. CASE Refuse
  <2>1. index' = After(index, 1) /\ index' \in Models BY <1>2, RotatedIsNext DEF Refuse, TypeOK
  <2> QED BY <1>2, <2>1 DEF Refuse, TypeOK, InPoolOrder, Position, WinnerIsAskedFirst, dialogue
<1>3. CASE Wake
  <2>1. /\ pc = "sleeping" /\ index' = index /\ Try(attempts + 1, asked) /\ UNCHANGED dialogue
        /\ index' \in Models /\ attempts \in Nat
        /\ asked \in Seq(Models) /\ Len(asked) = attempts + 1 /\ Len(asked) <= PoolSize
        /\ index' = After(asked[attempts + 1], 1)
    BY <1>3 DEF Wake, TypeOK, Position
  <2>2. attempts + 1 \in 0 .. PoolSize BY <2>1
  <2>3. /\ pc' \in {"asking", "exhausted"} /\ attempts' = attempts + 1 /\ asked' \in Seq(Models)
        /\ InPoolOrder'
        /\ pc' = "asking" => /\ Len(asked') = attempts + 2 /\ attempts + 1 < PoolSize
                             /\ asked'[attempts + 2] = index'
        /\ pc' = "exhausted" => asked' = asked /\ attempts + 1 = PoolSize
        /\ asked'[1] = asked[1]
    <3> HIDE DEF IInv
    <3>1. TypeOK /\ InPoolOrder BY DEF IInv
    <3> QED BY <2>1, <2>2, <3>1, TryKeepsOrder DEF InPoolOrder
  <2> QED BY <2>1, <2>2, <2>3 DEF TypeOK, Position, WinnerIsAskedFirst, dialogue
<1>4. CASE Break
  BY <1>4 DEF Break, TypeOK, InPoolOrder, Position, WinnerIsAskedFirst, dialogue
<1>5. CASE Answer
  <2>1. winner' = index /\ UNCHANGED <<index, attempts, asked, escalated>>
    BY <1>5 DEF Answer, Position
  <2>2. CASE Planned
    BY <1>5, <2>1, <2>2 DEF Answer, Planned, TypeOK, InPoolOrder, Position, WinnerIsAskedFirst
  <2>3. CASE Approved
    BY <1>5, <2>1, <2>3 DEF Answer, Approved, TypeOK, InPoolOrder, Position, WinnerIsAskedFirst
  <2>4. CASE Rejected
    BY <1>5, <2>1, <2>4 DEF Answer, Rejected, TypeOK, InPoolOrder, Position, WinnerIsAskedFirst
  <2> QED BY <1>5, <2>2, <2>3, <2>4 DEF Answer
<1>6. CASE Reconsider
  BY <1>6 DEF Reconsider, TypeOK, InPoolOrder, Position, WinnerIsAskedFirst
<1>7. CASE Cancel
  BY <1>7 DEF Cancel, TypeOK, InPoolOrder, Position, WinnerIsAskedFirst, dialogue
<1>8. CASE UNCHANGED vars
  BY <1>8 DEF vars, dialogue, TypeOK, InPoolOrder, Position, WinnerIsAskedFirst
<1> QED BY <1>1, <1>2, <1>3, <1>4, <1>5, <1>6, <1>7, <1>8 DEF Next

LEMMA AlwaysIInv == Spec => []IInv
  BY InitIInv, NextIInv, PTL DEF Spec

\* The index is always a model of the pool and no counter passes its limit.
THEOREM TypeCorrect == Spec => []TypeOK
<1>1. IInv => TypeOK BY DEF IInv
<1> QED BY <1>1, AlwaysIInv, PTL

\* After a refusal the next call never begins with the model that refused: the one that
\* answered comes first, however planner and reviewer take turns.
THEOREM WinnersComeFirst == Spec => []WinnerIsAskedFirst
<1>1. IInv => WinnerIsAskedFirst BY DEF IInv
<1> QED BY <1>1, AlwaysIInv, PTL

\* A call asks each model of the pool at most once and fails only when all have refused,
\* for a pool of any size and wherever the index stands when it begins.
THEOREM EachModelOnce == Spec => []EveryModelOncePerCall
<1>1. IInv => EveryModelOncePerCall
  <2> SUFFICES ASSUME IInv PROVE EveryModelOncePerCall OBVIOUS
  <2>1. /\ asked \in Seq(Models) /\ Len(asked) <= PoolSize
        /\ \A i \in 1 .. Len(asked) : asked[i] = After(asked[1], i - 1)
    BY DEF IInv, TypeOK, InPoolOrder, Position
  <2>2. \A i, j \in DOMAIN asked : asked[i] = asked[j] => i = j
    <3> SUFFICES ASSUME NEW i \in 1 .. Len(asked), NEW j \in 1 .. Len(asked),
                        asked[i] = asked[j]
                 PROVE  i = j
      BY <2>1
    <3> DEFINE first == asked[1]
    <3>1. /\ first \in Models /\ Len(asked) \in Nat
          /\ i \in 1 .. PoolSize /\ j \in 1 .. PoolSize
      BY <2>1, RotationAssumption
    <3>2. After(first, i - 1) = After(first, j - 1) BY <2>1
    <3> HIDE DEF first
    <3> QED BY <3>1, <3>2, RotationAssumption DEF After, Models
  <2>3. ASSUME pc = "exhausted", NEW x \in Models PROVE \E i \in DOMAIN asked : asked[i] = x
    <3>1. Len(asked) = PoolSize BY <2>3 DEF IInv, Position
    <3>2. asked[1] \in Models BY <2>1, <3>1, RotationAssumption
    <3> DEFINE k == IF x >= asked[1] THEN x - asked[1] + 1 ELSE x - asked[1] + PoolSize + 1
    <3>3. k \in 1 .. PoolSize /\ After(asked[1], k - 1) = x
      BY <3>2, RotationAssumption DEF After, Models
    <3> HIDE DEF k
    <3>4. asked[k] = x BY <2>1, <3>1, <3>3
    <3> QED BY <2>1, <3>1, <3>3, <3>4
  <2> QED BY <2>2, <2>3 DEF EveryModelOncePerCall
<1> QED BY <1>1, AlwaysIInv, PTL
=============================================================================
