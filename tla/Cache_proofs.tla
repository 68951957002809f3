---------------------------- MODULE Cache_proofs ----------------------------
(***************************************************************************)
(* Theorems about Cache for any jobs and keys and any amount of damage.    *)
(* All of them come down to one fact: a thread that is about to purge a    *)
(* file, or finds it gone after it was there, does so over a key that has  *)
(* been damaged.                                                           *)
(***************************************************************************)
EXTENDS Cache, TLAPS

\* Only damage makes a file unreadable, and only such a file is opened by a thread
\* that will purge it or is removed behind a thread's back.
OnlyDamageBreaks ==
  /\ \A k \in Keys : file[k] = "bad" => k \in damaged
  /\ \A j \in Jobs : pc[j] = "open" => file[key[j]] # "none" \/ key[j] \in damaged
  /\ \A j \in Jobs : pc[j] = "remove" => key[j] \in damaged

\* find_one comes first and reads the job's own key.
Phases ==
  \A j \in Jobs :
    /\ ~todo[j].many => key[j] = Uuid[j]
    /\ pc[j] \in {"scan", "running", "done"} \cup Saving => todo[j].many

IInv ==
  /\ TypeOK
  /\ OnlyDamageBreaks
  /\ Phases
  /\ SavedRecordsStay
  /\ LookupFailsOnlyOnDamage
  /\ TmpOnlyWhileWriting

-----------------------------------------------------------------------------
(* Typing.                                                                  *)

LEMMA TypeInit == Init => TypeOK
  BY CacheAssumption DEF Init, TypeOK, FindOne, CacheAssumption

Phase == LookingUp \cup Saving \cup {"submitted", "running", "done", "failed", "lost"}

\* However read ends, the thread is next at a place it can be at.
LEMMA ReadEnds ==
  ASSUME TypeOK, NEW j \in Jobs, Returned(j) \/ Raised(j) \/ Goto(j, "open")
  PROVE  pc' \in [Jobs -> Phase]
<1>1. PICK l \in Phase : pc' = [pc EXCEPT ![j] = l]
  BY DEF Returned, Raised, Goto, Phase, LookingUp, Reading
<1> QED
  BY <1>1 DEF TypeOK, Phase

\* Every step keeps the types.
LEMMA TypeStep == ASSUME TypeOK, [Next]_vars PROVE TypeOK'
<1> USE CacheAssumption DEF CacheAssumption, TypeOK, Goto, Returned, Raised, LookingUp,
        Reading, Saving, disk, history
<1>1. ASSUME NEW j \in Jobs, lookup(j) PROVE TypeOK'
  BY <1>1 DEF lookup
<1>2. ASSUME NEW j \in Jobs, exists(j) PROVE TypeOK'
  <2>1. pc' \in [Jobs -> Phase]
    BY <1>2, ReadEnds DEF exists
  <2> QED
    BY <1>2, <2>1 DEF exists, Phase
<1>3. ASSUME NEW j \in Jobs, open(j) PROVE TypeOK'
  BY <1>3 DEF open
<1>4. ASSUME NEW j \in Jobs, remove(j) PROVE TypeOK'
  <2>1. pc' \in [Jobs -> Phase]
    BY <1>4, ReadEnds DEF remove
  <2>2. file' \in [Keys -> Jobs \cup {"none", "bad"}]
    BY <1>4 DEF remove
  <2> QED
    BY <1>4, <2>1, <2>2 DEF remove, Phase
<1>5. ASSUME NEW j \in Jobs, listdir(j) PROVE TypeOK'
  BY <1>5 DEF listdir, FindMany
<1>6. ASSUME NEW j \in Jobs, find_many(j) PROVE TypeOK'
  <2>1. CASE \E k \in todo[j].rest :
               /\ key' = [key EXCEPT ![j] = k]
               /\ todo' = [todo EXCEPT ![j] = FindMany(@.rest \ {k})]
               /\ Goto(j, "exists")
    <3>1. PICK k \in todo[j].rest :
               /\ key' = [key EXCEPT ![j] = k]
               /\ todo' = [todo EXCEPT ![j] = FindMany(@.rest \ {k})]
               /\ Goto(j, "exists")
      BY <2>1
    <3>2. key' \in [Jobs -> Keys]
      BY <3>1
    <3>3. FindMany(todo[j].rest \ {k}) \in [many : BOOLEAN, rest : SUBSET Keys]
      BY DEF FindMany
    <3>4. todo' \in [Jobs -> [many : BOOLEAN, rest : SUBSET Keys]]
      BY <3>1, <3>3
    <3> QED
      BY <1>6, <3>1, <3>2, <3>4 DEF find_many
  <2>2. CASE todo[j].rest = {} /\ Goto(j, "running") /\ UNCHANGED <<key, todo>>
    BY <1>6, <2>2 DEF find_many
  <2> QED
    BY <1>6, <2>1, <2>2 DEF find_many
<1>7. ASSUME NEW j \in Jobs, save(j) PROVE TypeOK'
  BY <1>7 DEF save
<1>8. ASSUME NEW j \in Jobs, dump(j) PROVE TypeOK'
  BY <1>8 DEF dump
<1>9. ASSUME NEW j \in Jobs, replace(j) PROVE TypeOK'
  BY <1>9 DEF replace
<1>10. ASSUME NEW k \in Keys, Damage(k) PROVE TypeOK'
  BY <1>10 DEF Damage
<1>11. CASE Crash
  BY <1>11 DEF Crash
<1>12. CASE UNCHANGED vars
  BY <1>12 DEF vars
<1> QED
  BY <1>1, <1>2, <1>3, <1>4, <1>5, <1>6, <1>7, <1>8, <1>9, <1>10, <1>11, <1>12
     DEF Next, LookupStep

\* Files, threads and the rest of the directory to read keep their types.
THEOREM TypeCorrect == Spec => []TypeOK
  BY TypeInit, TypeStep, PTL DEF Spec

-----------------------------------------------------------------------------
(* The invariant.                                                           *)

LEMMA InvInit == Init => IInv
  BY TypeInit DEF Init, IInv, OnlyDamageBreaks, Phases, SavedRecordsStay, FindOne,
     LookupFailsOnlyOnDamage, TmpOnlyWhileWriting, Saving

\* Every step keeps the invariant.
LEMMA InvStep == ASSUME IInv, [Next]_vars PROVE IInv'
<1>0. TypeOK'
  BY TypeStep DEF IInv
<1> USE <1>0, CacheAssumption DEF CacheAssumption, IInv, TypeOK, OnlyDamageBreaks, Phases,
        SavedRecordsStay, LookupFailsOnlyOnDamage, TmpOnlyWhileWriting,
        Goto, Returned, Raised, Saving, disk, history
<1>1. ASSUME NEW j \in Jobs, lookup(j) PROVE IInv'
  BY <1>1 DEF lookup
<1>2. ASSUME NEW j \in Jobs, exists(j) PROVE IInv'
  BY <1>2 DEF exists
<1>3. ASSUME NEW j \in Jobs, open(j) PROVE IInv'
  BY <1>3 DEF open
<1>4. ASSUME NEW j \in Jobs, remove(j) PROVE IInv'
  BY <1>4 DEF remove
<1>5. ASSUME NEW j \in Jobs, listdir(j) PROVE IInv'
  BY <1>5 DEF listdir, FindMany
<1>6. ASSUME NEW j \in Jobs, find_many(j) PROVE IInv'
  <2>1. CASE \E k \in todo[j].rest :
               /\ key' = [key EXCEPT ![j] = k]
               /\ todo' = [todo EXCEPT ![j] = FindMany(@.rest \ {k})]
               /\ Goto(j, "exists")
    <3>1. todo'[j].many /\ pc'[j] = "exists"
      BY <2>1 DEF FindMany
    <3>2. \A i \in Jobs \ {j} : todo'[i] = todo[i] /\ key'[i] = key[i] /\ pc'[i] = pc[i]
      BY <2>1
    <3>3. UNCHANGED <<file, tmp, damage, damaged, saved>>
      BY <1>6 DEF find_many
    <3>4. pc[j] = "scan"
      BY <1>6 DEF find_many
    <3> QED
      BY <3>1, <3>2, <3>3, <3>4
  <2>2. CASE todo[j].rest = {} /\ Goto(j, "running") /\ UNCHANGED <<key, todo>>
    BY <1>6, <2>2 DEF find_many
  <2> QED
    BY <1>6, <2>1, <2>2 DEF find_many
<1>7. ASSUME NEW j \in Jobs, save(j) PROVE IInv'
  BY <1>7 DEF save
<1>8. ASSUME NEW j \in Jobs, dump(j) PROVE IInv'
  BY <1>8 DEF dump
<1>9. ASSUME NEW j \in Jobs, replace(j) PROVE IInv'
  BY <1>9 DEF replace
<1>10. ASSUME NEW k \in Keys, Damage(k) PROVE IInv'
  BY <1>10 DEF Damage
<1>11. CASE Crash
  BY <1>11 DEF Crash, LookingUp, Reading
<1>12. CASE UNCHANGED vars
  BY <1>12 DEF vars
<1> QED
  BY <1>1, <1>2, <1>3, <1>4, <1>5, <1>6, <1>7, <1>8, <1>9, <1>10, <1>11, <1>12
     DEF Next, LookupStep

LEMMA Invariance == Spec => []IInv
  BY InvInit, InvStep, PTL DEF Spec

-----------------------------------------------------------------------------
(* The theorems.                                                            *)

\* A saved record stays readable unless it was damaged from outside.
THEOREM RecordsSurvive == Spec => []SavedRecordsStay
<1>1. IInv => SavedRecordsStay
  BY DEF IInv
<1> QED
  BY <1>1, Invariance, PTL

\* A lookup fails its job only over a damaged file.
THEOREM LookupsFailOnlyOnDamage == Spec => []LookupFailsOnlyOnDamage
<1>1. IInv => LookupFailsOnlyOnDamage
  BY DEF IInv
<1> QED
  BY <1>1, Invariance, PTL

\* A temporary file outlives its write only if the process died.
THEOREM TmpFilesAreTransient == Spec => []TmpOnlyWhileWriting
<1>1. IInv => TmpOnlyWhileWriting
  BY DEF IInv
<1> QED
  BY <1>1, Invariance, PTL
=============================================================================
