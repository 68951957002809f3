--------------------------- MODULE HitlGate_proofs --------------------------
(***************************************************************************)
(* Proofs about HitlGate for any number of jobs, rows, polls and rounds.   *)
(* TypeCorrect, NoLeftovers and AnswersComeByKey hold whatever the keys     *)
(* are.  Two others need OwnKeys, and show that it is all they need: what    *)
(* two jobs on one dataset break is exactly that.  NoGateIsAnswered is about *)
(* the keys the program uses.                                               *)
(***************************************************************************)
EXTENDS HitlGate, TLAPS

\* No two jobs have the same state_uuid.
OwnKeys == \A i, j \in Jobs : Uuid[i] = Uuid[j] => i = j

-----------------------------------------------------------------------------
(* Types.                                                                   *)

LEMMA PlanTyped == ASSUME TypeOK, NEW j \in Jobs PROVE PlanOf(j) \in Plan
  BY DEF TypeOK, PlanOf, Plan

\* A gate that still polls has not reached its timeout: without this the count of
\* polls is not bounded by the type invariant alone.
PollsInTime == \A j \in Jobs : pc[j] \in {"writing", "polling"} => elapsed[j] < Timeout

TInv == TypeOK /\ PollsInTime

Row == [plan : Plan, status : {"ABSENT", "PENDING"} \cup Decisions]

\* An UPDATE changes at most the status of the row with its key.
LEMMA ResolveTyped ==
  ASSUME TypeOK, NEW k \in Keys, NEW d \in Decisions
  PROVE  /\ Resolve(k, d) \in [Keys -> Row]
         /\ \A i \in Keys : Resolve(k, d)[i].plan = row[i].plan
         /\ \A i \in Keys : Resolve(k, d)[i].status = "ABSENT" <=> row[i].status = "ABSENT"
         /\ \A i \in Keys : i # k => Resolve(k, d)[i] = row[i]
         /\ row[k].status # "ABSENT" => Resolve(k, d)[k].status = d
<1> DEFINE r == [row[k] EXCEPT !.status = d]
<1>1. row \in [Keys -> Row]
  BY DEF TypeOK, Row
<1>2. r \in Row /\ r.plan = row[k].plan /\ r.status = d
  BY <1>1 DEF Row
<1>3. d # "ABSENT"
  BY DEF Decisions
<1>4. Resolve(k, d) = IF row[k].status = "ABSENT" THEN row ELSE [row EXCEPT ![k] = r]
  BY DEF Resolve
<1> HIDE DEF r
<1> QED
  BY <1>1, <1>2, <1>3, <1>4

LEMMA TypeInit == Init => TInv
  BY HitlAssumption
     DEF Init, TInv, PollsInTime, TypeOK, Plan, NoPlan, NoRow, Blank, Asking, Decisions

LEMMA TypeStep == TInv /\ [Next]_vars => TInv'
<1> SUFFICES ASSUME TInv, [Next]_vars PROVE TInv'
  OBVIOUS
<1> USE DEF TInv
<1>1. ASSUME NEW j \in Jobs, request_approval(j) PROVE TInv'
  <2>1. TypeOK'
    BY <1>1, HitlAssumption DEF TypeOK, request_approval, Asking
  <2> QED
    BY <1>1, <2>1, HitlAssumption DEF TypeOK, PollsInTime, request_approval
<1>2. ASSUME NEW j \in Jobs, write_request(j) PROVE TInv'
  <2>1. row' \in [Keys -> [plan : Plan, status : {"ABSENT", "PENDING"} \cup Decisions]]
    BY <1>2, HitlAssumption, PlanTyped DEF TypeOK, write_request
  <2>2. TypeOK'
    BY <1>2, <2>1 DEF TypeOK, write_request, Asking
  <2> QED
    BY <1>2, <2>2 DEF TypeOK, PollsInTime, write_request
<1>3. ASSUME NEW j \in Jobs, poll(j) PROVE TInv'
  <2> DEFINE status == row[Uuid[j]].status
  <2>1. elapsed' = [elapsed EXCEPT ![j] = @ + 1] /\ elapsed[j] < Timeout /\ pc[j] = "polling"
    BY <1>3 DEF PollsInTime, poll
  <2>2. elapsed' \in [Jobs -> 0..Timeout]
    BY <2>1, HitlAssumption DEF TypeOK
  <2>3. pc' = pc \/ pc' = [pc EXCEPT ![j] = "raised"] \/ pc' = [pc EXCEPT ![j] = "clearing"]
    BY <1>3 DEF poll
  <2>4. answer' \in [Jobs -> {"none", "TIMEOUT"} \cup Decisions]
    BY <1>3 DEF TypeOK, poll
  <2>5. TypeOK'
    BY <1>3, <2>2, <2>3, <2>4 DEF TypeOK, poll, Asking
  <2>6. pc'[j] \in {"writing", "polling"} => elapsed'[j] < Timeout
    BY <1>3, <2>1 DEF TypeOK, poll
  <2> QED
    BY <2>1, <2>3, <2>5, <2>6 DEF TypeOK, PollsInTime
<1>4. ASSUME NEW j \in Jobs, clear(j) PROVE TInv'
  <2>1. AfterAnswer(answer[j]) \in {"idle", "timedOut"}
    BY DEF AfterAnswer
  <2>2. NoRow \in [plan : Plan, status : {"ABSENT", "PENDING"} \cup Decisions]
    BY HitlAssumption DEF NoRow, NoPlan, Plan
  <2> HIDE DEF TInv
  <2>3. TypeOK'
    BY <1>4, <2>1, <2>2, HitlAssumption DEF TInv, TypeOK, clear, Asking
  <2>4. PollsInTime'
    BY <1>4, <2>1 DEF TInv, TypeOK, PollsInTime, clear
  <2> QED
    BY <2>3, <2>4 DEF TInv
<1>5. ASSUME NEW j \in Jobs, Cancel(j) PROVE TInv'
  BY <1>5 DEF TypeOK, PollsInTime, Cancel, Asking
<1>6. ASSUME NEW j \in Jobs, Open(j) PROVE TInv'
  BY <1>6, HitlAssumption DEF TypeOK, PollsInTime, Open, get_hitl_payload, gate
<1>7. ASSUME NEW j \in Jobs, Click(j) PROVE TInv'
  <2>1. \A s \in [plan : Plan, clicked : BOOLEAN] :
          [s EXCEPT !.clicked = TRUE] \in [plan : Plan, clicked : BOOLEAN]
    OBVIOUS
  <2>2. Blank \in [plan : Plan, clicked : BOOLEAN]
    BY HitlAssumption DEF Blank, NoPlan, Plan
  <2>3. view' \in [Jobs -> [plan : Plan, clicked : BOOLEAN]]
    BY <1>7, <2>1, <2>2 DEF TypeOK, Click
  <2> QED
    BY <1>7, <2>3 DEF TypeOK, PollsInTime, Click, gate
<1>8. ASSUME NEW j \in Jobs, write_decision(j) PROVE TInv'
  <2>1. row' \in [Keys -> [plan : Plan, status : {"ABSENT", "PENDING"} \cup Decisions]]
    BY <1>8, HitlAssumption, ResolveTyped DEF TInv, write_decision, Row
  <2>2. view' \in [Jobs -> [plan : Plan, clicked : BOOLEAN]]
    BY <1>8, HitlAssumption DEF TypeOK, write_decision, Blank, NoPlan, Plan
  <2> QED
    BY <1>8, <2>1, <2>2 DEF TypeOK, PollsInTime, write_decision, gate
<1>9. CASE UNCHANGED vars
  BY <1>9 DEF TypeOK, PollsInTime, vars, gate
<1> QED
  BY <1>1, <1>2, <1>3, <1>4, <1>5, <1>6, <1>7, <1>8, <1>9 DEF Next, GateStep

LEMMA Typing == Spec => []TInv
  BY TypeInit, TypeStep, PTL DEF Spec

\* Rows, gates and screens keep their types: a row never gets a status outside
\* the four the code knows, and no gate counts a poll beyond its timeout.
THEOREM TypeCorrect == Spec => []TypeOK
<1>1. TInv => TypeOK
  BY DEF TInv
<1> QED
  BY <1>1, Typing, PTL

-----------------------------------------------------------------------------
(* Rows and gates, when every job has a key of its own.                     *)

\* The row with a job's key is about the job's current plan, and it is there only
\* from write_request to clear, or because the gate was cancelled.
RowsOwned ==
  \A j \in Jobs : row[Uuid[j]].status # "ABSENT" =>
    /\ row[Uuid[j]].plan = PlanOf(j)
    /\ pc[j] \notin {"idle", "writing", "lateWriting", "timedOut"}

RowsPresent == \A j \in Jobs : pc[j] = "polling" => row[Uuid[j]].status # "ABSENT"

GInv == TInv /\ RowsOwned /\ RowsPresent /\ RowStaysWhilePolling

LEMMA GateInit == Init => GInv
<1> SUFFICES ASSUME Init PROVE GInv
  OBVIOUS
<1>1. TInv
  BY TypeInit
<1> QED
  BY <1>1, HitlAssumption DEF Init, GInv, RowsOwned, RowsPresent, RowStaysWhilePolling, NoRow

LEMMA GateStepKeeps == OwnKeys /\ GInv /\ [Next]_vars => GInv'
<1> SUFFICES ASSUME OwnKeys, GInv, [Next]_vars PROVE GInv'
  OBVIOUS
<1>0. TInv' /\ TypeOK
  BY TypeStep DEF GInv, TInv
<1> USE DEF GInv
<1>1. ASSUME NEW j \in Jobs, request_approval(j) PROVE GInv'
  BY <1>0, <1>1 DEF TypeOK, request_approval, RowsOwned, RowsPresent,
     RowStaysWhilePolling, PlanOf
<1>2. ASSUME NEW j \in Jobs, write_request(j) PROVE GInv'
  <2>1. row'[Uuid[j]] = [plan |-> PlanOf(j), status |-> "PENDING"]
    BY <1>0, <1>2, HitlAssumption DEF TypeOK, write_request
  <2>2. \A i \in Jobs : i # j => row'[Uuid[i]] = row[Uuid[i]] /\ pc'[i] = pc[i]
    BY <1>0, <1>2, HitlAssumption DEF TypeOK, write_request, OwnKeys
  <2>3. pc'[j] \in {"polling", "cancelled"} /\ \A i \in Jobs : PlanOf(i)' = PlanOf(i)
    BY <1>0, <1>2 DEF TypeOK, write_request, PlanOf
  <2> QED
    BY <1>0, <2>1, <2>2, <2>3 DEF RowsOwned, RowsPresent, RowStaysWhilePolling
<1>3. ASSUME NEW j \in Jobs, poll(j) PROVE GInv'
  <2>1. pc[j] = "polling" /\ row[Uuid[j]].status # "ABSENT"
    BY <1>3 DEF poll, RowsPresent
  <2>2. pc' = pc \/ pc' = [pc EXCEPT ![j] = "clearing"]
    BY <1>3, <2>1 DEF poll
  <2> QED
    BY <1>0, <1>3, <2>1, <2>2
       DEF TypeOK, poll, RowsOwned, RowsPresent, RowStaysWhilePolling, PlanOf
<1>4. ASSUME NEW j \in Jobs, clear(j) PROVE GInv'
  <2>1. row'[Uuid[j]].status = "ABSENT"
    BY <1>0, <1>4, HitlAssumption DEF TypeOK, clear, NoRow
  <2>2. \A i \in Jobs : i # j => row'[Uuid[i]] = row[Uuid[i]] /\ pc'[i] = pc[i]
    BY <1>0, <1>4, HitlAssumption DEF TypeOK, clear, OwnKeys
  <2>3. pc'[j] \in {"idle", "timedOut", "cancelled"} /\ \A i \in Jobs : PlanOf(i)' = PlanOf(i)
    BY <1>0, <1>4 DEF TypeOK, clear, AfterAnswer, PlanOf
  <2> QED
    BY <1>0, <2>1, <2>2, <2>3 DEF RowsOwned, RowsPresent, RowStaysWhilePolling
<1>5. ASSUME NEW j \in Jobs, Cancel(j) PROVE GInv'
  BY <1>0, <1>5 DEF TypeOK, Cancel, RowsOwned, RowsPresent, RowStaysWhilePolling,
     PlanOf, Asking
<1>6. ASSUME UNCHANGED <<row, gate>> PROVE GInv'
  BY <1>0, <1>6 DEF gate, RowsOwned, RowsPresent, RowStaysWhilePolling, PlanOf
<1>7. ASSUME NEW j \in Jobs, write_decision(j) PROVE GInv'
  <2>1. \A k \in Keys : /\ row'[k].plan = row[k].plan
                        /\ row'[k].status = "ABSENT" <=> row[k].status = "ABSENT"
    BY <1>0, <1>7, ResolveTyped, HitlAssumption DEF write_decision
  <2>2. UNCHANGED gate
    BY <1>7 DEF write_decision
  <2> QED
    BY <1>0, <2>1, <2>2, HitlAssumption
       DEF gate, RowsOwned, RowsPresent, RowStaysWhilePolling, PlanOf
<1> QED
  BY <1>1, <1>2, <1>3, <1>4, <1>5, <1>6, <1>7
     DEF Next, GateStep, Open, Click, vars

LEMMA GateInvariance == ASSUME OwnKeys PROVE Spec => []GInv
<1>1. GInv /\ [Next]_vars => GInv'
  BY GateStepKeeps
<1> QED
  BY <1>1, GateInit, PTL DEF Spec

\* With a key per job, what a gate polls is the row of the plan it asks about: an
\* answer to an earlier plan, or to another job's, can never resolve it.
THEOREM GatesPollTheirOwnRow == ASSUME OwnKeys PROVE Spec => []PollsOwnRow
<1>1. GInv => PollsOwnRow
  BY DEF GInv, RowsOwned, RowsPresent, PollsOwnRow
<1> QED
  BY <1>1, GateInvariance, PTL

\* With a key per job the RuntimeError "disappeared mid-poll" of hitl.py:134 is
\* never raised: the finding about shared datasets is its only source.
THEOREM RowsNeverDisappear == ASSUME OwnKeys PROVE Spec => []RowStaysWhilePolling
<1>1. GInv => RowStaysWhilePolling
  BY DEF GInv
<1> QED
  BY <1>1, GateInvariance, PTL

-----------------------------------------------------------------------------
(* The table, whatever the keys are.                                        *)

LEMMA LeftoverStep == TInv /\ LeftoverOnlyIfCancelled /\ [Next]_vars => LeftoverOnlyIfCancelled'
<1> DEFINE Owner == Asking \cup {"cancelled", "lateWriting", "lateClearing"}
<1> SUFFICES ASSUME TypeOK, LeftoverOnlyIfCancelled, [Next]_vars,
                    NEW k \in Keys, row'[k].status # "ABSENT"
             PROVE  \E i \in Jobs : Uuid[i] = k /\ pc'[i] \in Owner
  BY DEF LeftoverOnlyIfCancelled, TInv
<1>1. ASSUME NEW j \in Jobs, request_approval(j) PROVE \E i \in Jobs : Uuid[i] = k /\ pc'[i] \in Owner
  BY <1>1 DEF TypeOK, LeftoverOnlyIfCancelled, request_approval, Asking
<1>2. ASSUME NEW j \in Jobs, write_request(j) PROVE \E i \in Jobs : Uuid[i] = k /\ pc'[i] \in Owner
  <2>1. pc'[j] \in Owner /\ \A i \in Jobs : i # j => pc'[i] = pc[i]
    BY <1>2 DEF TypeOK, write_request, Asking
  <2>2. k # Uuid[j] => row'[k] = row[k]
    BY <1>2, HitlAssumption DEF TypeOK, write_request
  <2> QED
    BY <2>1, <2>2 DEF LeftoverOnlyIfCancelled
<1>3. ASSUME NEW j \in Jobs, poll(j) PROVE \E i \in Jobs : Uuid[i] = k /\ pc'[i] \in Owner
  <2>1. row' = row /\ \A i \in Jobs : i # j => pc'[i] = pc[i]
    BY <1>3 DEF TypeOK, poll
  <2>2. Uuid[j] = k => pc'[j] \in Owner
    BY <1>3, <2>1 DEF TypeOK, poll, Asking
  <2> QED
    BY <2>1, <2>2 DEF LeftoverOnlyIfCancelled
<1>4. ASSUME NEW j \in Jobs, clear(j) PROVE \E i \in Jobs : Uuid[i] = k /\ pc'[i] \in Owner
  <2>1. Uuid[j] # k /\ row'[k] = row[k]
    BY <1>4, HitlAssumption DEF TypeOK, clear, NoRow
  <2>2. \A i \in Jobs : i # j => pc'[i] = pc[i]
    BY <1>4 DEF TypeOK, clear
  <2> QED
    BY <2>1, <2>2 DEF LeftoverOnlyIfCancelled
<1>5. ASSUME NEW j \in Jobs, Cancel(j) PROVE \E i \in Jobs : Uuid[i] = k /\ pc'[i] \in Owner
  <2>1. row' = row /\ pc'[j] \in Owner /\ \A i \in Jobs : i # j => pc'[i] = pc[i]
    BY <1>5 DEF TypeOK, Cancel, Asking
  <2> QED
    BY <2>1 DEF LeftoverOnlyIfCancelled
<1>6. ASSUME UNCHANGED <<row, gate>> PROVE \E i \in Jobs : Uuid[i] = k /\ pc'[i] \in Owner
  BY <1>6 DEF gate, LeftoverOnlyIfCancelled
<1>7. ASSUME NEW j \in Jobs, write_decision(j) PROVE \E i \in Jobs : Uuid[i] = k /\ pc'[i] \in Owner
  <2>1. row[k].status # "ABSENT"
    BY <1>7, ResolveTyped, HitlAssumption DEF write_decision
  <2> QED
    BY <1>7, <2>1 DEF gate, LeftoverOnlyIfCancelled, write_decision
<1> QED
  BY <1>1, <1>2, <1>3, <1>4, <1>5, <1>6, <1>7 DEF Next, GateStep, Open, Click, vars

\* Rows never outlive the gates of their key except after a cancellation, even when
\* jobs share a key: no answer, timeout or late click leaves or brings back a row.
THEOREM NoLeftovers == Spec => []LeftoverOnlyIfCancelled
<1>1. Init => LeftoverOnlyIfCancelled
  BY DEF Init, LeftoverOnlyIfCancelled, NoRow
<1> QED
  BY <1>1, LeftoverStep, Typing, PTL DEF Spec

-----------------------------------------------------------------------------
(* Decisions, whatever the keys are.                                        *)

\* Some page looks rows up by the key k.
Paged(k) == \E v \in Jobs : JobKey[v] = k

\* A decision is in a row only if some page looks for that row.
DecisionsPaged == \A k \in Keys : row[k].status \in Decisions => Paged(k)

KInv == DecisionsPaged /\ DecisionsComeByKey

LEMMA DecisionStep == TypeOK /\ KInv /\ [Next]_vars => KInv'
<1> SUFFICES ASSUME TypeOK, KInv, [Next]_vars PROVE KInv'
  OBVIOUS
<1> USE DEF KInv, DecisionsPaged, DecisionsComeByKey, Paged
<1>1. ASSUME NEW j \in Jobs, request_approval(j) PROVE KInv'
  BY <1>1 DEF TypeOK, request_approval, Decisions
<1>2. ASSUME NEW j \in Jobs, write_request(j) PROVE KInv'
  <2>1. \A k \in Keys : row'[k] = row[k] \/ row'[k].status = "PENDING"
    BY <1>2 DEF TypeOK, write_request
  <2> QED
    BY <1>2, <2>1 DEF write_request, Decisions
<1>3. ASSUME NEW j \in Jobs, poll(j) PROVE KInv'
  <2>1. row' = row /\ \A i \in Jobs : i # j => answer'[i] = answer[i]
    BY <1>3 DEF TypeOK, poll
  <2>2. answer'[j] \in {answer[j], "TIMEOUT"} \/ answer'[j] = row[Uuid[j]].status
    BY <1>3 DEF TypeOK, poll
  <2>3. Uuid[j] \in Keys
    BY HitlAssumption
  <2> QED
    BY <2>1, <2>2, <2>3 DEF Decisions
<1>4. ASSUME NEW j \in Jobs, clear(j) PROVE KInv'
  <2>1. \A k \in Keys : row'[k] = row[k] \/ row'[k].status = "ABSENT"
    BY <1>4 DEF TypeOK, clear, NoRow
  <2> QED
    BY <1>4, <2>1 DEF clear, Decisions
<1>5. ASSUME NEW j \in Jobs, Cancel(j) PROVE KInv'
  BY <1>5 DEF Cancel
<1>6. ASSUME UNCHANGED <<row, gate>> PROVE KInv'
  BY <1>6 DEF gate
<1>7. ASSUME NEW j \in Jobs, write_decision(j) PROVE KInv'
  <2>1. JobKey[j] \in Keys
    BY HitlAssumption
  <2>2. \A k \in Keys : k # JobKey[j] => row'[k] = row[k]
    BY <1>7, <2>1, ResolveTyped DEF write_decision
  <2> QED
    BY <1>7, <2>2 DEF write_decision, gate
<1> QED
  BY <1>1, <1>2, <1>3, <1>4, <1>5, <1>6, <1>7 DEF Next, GateStep, Open, Click, vars

\* Whatever the keys are, a gate gets a decision only from a page that looks for the
\* gate's key: clicks on other rows, late or not, never decide about its request.
THEOREM AnswersComeByKey == Spec => []DecisionsComeByKey
<1>1. Init => KInv
  BY DEF Init, KInv, DecisionsPaged, DecisionsComeByKey, NoRow, Decisions
<1>2. KInv => DecisionsComeByKey
  BY DEF KInv
<1> QED
  BY <1>1, <1>2, DecisionStep, TypeCorrect, PTL DEF Spec

\* The program's own keys: pages look for a job's uuid4, gates file under the data
\* set's state_uuid (3_hitl_review:45, hitl.py:113), and the two are never equal.
PagesUseJobIds == \A j, v \in Jobs : JobKey[v] # Uuid[j]

\* With these keys no decision ever reaches a gate: a request can only time out, be
\* cancelled, or lose its row to another job on the same data set.
THEOREM NoGateIsAnswered ==
  ASSUME PagesUseJobIds PROVE Spec => [](\A j \in Jobs : answer[j] \notin Decisions)
<1>1. DecisionsComeByKey => \A j \in Jobs : answer[j] \notin Decisions
  BY DEF PagesUseJobIds, DecisionsComeByKey
<1> QED
  BY <1>1, AnswersComeByKey, PTL
=============================================================================
