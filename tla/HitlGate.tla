------------------------------ MODULE HitlGate ------------------------------
(***************************************************************************)
(* core/hitl/hitl.py and hitl_store.py with the review page's side of      *)
(* app/utils/api_client.py: jobs that wait for a human, the SQLite table    *)
(* they share, and the people who decide.  A job's page is in the browser   *)
(* session that submitted it (st.session_state.job_id), so a job has one    *)
(* viewer and view is indexed by jobs.  Each statement on the table is     *)
(* atomic (hitl_store._LOCK and one transaction); everything between two    *)
(* statements interleaves.  A cancelled coroutine cannot stop the worker    *)
(* thread that runs its statement.                                          *)
(***************************************************************************)
EXTENDS Naturals

CONSTANTS
  Jobs,
  Keys,        \* values of the table's primary key
  Uuid,        \* Uuid[j]: the state_uuid of j's dataset, the gate's key
  JobKey,      \* JobKey[j]: the review page's key, j's job_id (a uuid4, never a Uuid)
  Timeout,     \* BOUND: HITL_TIMEOUT_SECONDS in polls
  MaxRounds,   \* BOUND: how often one job asks again after a rejection
  NoJob

ASSUME HitlAssumption ==
  /\ Uuid \in [Jobs -> Keys]
  /\ JobKey \in [Jobs -> Keys]
  /\ Timeout \in Nat \ {0}
  /\ MaxRounds \in Nat \ {0}
  /\ NoJob \notin Jobs

VARIABLES
  row,       \* row[k]: the row of hitl_requests with key k
  pc,        \* where job j's request_approval is
  round,     \* how many plans j has asked about
  elapsed,   \* polls of the current request
  answer,    \* what request_approval is about to return or raise
  view       \* what the session of job j has on the screen

gate == <<pc, round, elapsed, answer>>
vars == <<row, gate, view>>

Plan == [job : Jobs \cup {NoJob}, round : 0..MaxRounds]
NoPlan == [job |-> NoJob, round |-> 0]
NoRow == [plan |-> NoPlan, status |-> "ABSENT"]
Blank == [plan |-> NoPlan, clicked |-> FALSE]
Decisions == {"APPROVED", "REJECTED"}

Asking == {"writing", "polling", "clearing"}

PlanOf(j) == [job |-> j, round |-> round[j]]

Init ==
  /\ row = [k \in Keys |-> NoRow]
  /\ pc = [j \in Jobs |-> "idle"]
  /\ round = [j \in Jobs |-> 0]
  /\ elapsed = [j \in Jobs |-> 0]
  /\ answer = [j \in Jobs |-> "none"]
  /\ view = [j \in Jobs |-> Blank]

-----------------------------------------------------------------------------
(* HITLGate.request_approval.                                               *)

request_approval(j) ==
  /\ pc[j] = "idle"
  /\ round[j] < MaxRounds
  /\ round' = [round EXCEPT ![j] = @ + 1]
  /\ elapsed' = [elapsed EXCEPT ![j] = 0]
  /\ answer' = [answer EXCEPT ![j] = "none"]
  /\ pc' = [pc EXCEPT ![j] = "writing"]
  /\ UNCHANGED <<row, view>>

\* INSERT OR REPLACE.
write_request(j) ==
  /\ pc[j] \in {"writing", "lateWriting"}
  /\ row' = [row EXCEPT ![Uuid[j]] = [plan |-> PlanOf(j), status |-> "PENDING"]]
  /\ pc' = [pc EXCEPT ![j] = IF @ = "writing" THEN "polling" ELSE "cancelled"]
  /\ UNCHANGED <<round, elapsed, answer, view>>

poll_NoCount(j) ==
  LET status == row[Uuid[j]].status IN
  /\ pc[j] = "polling"
  /\ \/ status \in Decisions
     \/ status = "ABSENT"
  /\ answer' = [answer EXCEPT ![j] = status]
  /\ pc' = [pc EXCEPT ![j] = IF status = "ABSENT" THEN "raised" ELSE "clearing"]
  /\ UNCHANGED <<row, round, elapsed, view>>

poll_OneTooMany(j) ==
  LET status == row[Uuid[j]].status IN
  /\ pc[j] = "polling"
  /\ elapsed' = [elapsed EXCEPT ![j] = @ + 1]
  /\ \/ /\ status = "PENDING"
        /\ elapsed[j] < Timeout
        /\ UNCHANGED <<pc, answer>>
     \/ /\ status # "PENDING" \/ elapsed[j] >= Timeout
        /\ answer' = [answer EXCEPT ![j] = IF status = "PENDING" THEN "TIMEOUT" ELSE status]
        /\ pc' = [pc EXCEPT ![j] = IF status = "ABSENT" THEN "raised" ELSE "clearing"]
  /\ UNCHANGED <<row, round, view>>

\* One turn of the loop: sleep, read_request, act on the row.
poll(j) ==
  LET status == row[Uuid[j]].status IN
  /\ pc[j] = "polling"
  /\ elapsed' = [elapsed EXCEPT ![j] = @ + 1]
  /\ \/ /\ status = "ABSENT"
        /\ pc' = [pc EXCEPT ![j] = "raised"]
        /\ UNCHANGED answer
     \/ /\ status \in Decisions
        /\ answer' = [answer EXCEPT ![j] = status]
        /\ pc' = [pc EXCEPT ![j] = "clearing"]
     \/ /\ status = "PENDING"
        /\ elapsed'[j] < Timeout
        /\ UNCHANGED <<pc, answer>>
     \/ /\ status = "PENDING"
        /\ elapsed'[j] >= Timeout
        /\ answer' = [answer EXCEPT ![j] = "TIMEOUT"]
        /\ pc' = [pc EXCEPT ![j] = "clearing"]
  /\ UNCHANGED <<row, round, view>>

\* Where MetaAgent._review goes with the answer: a rejected plan is replaced, an
\* approved one may be when the reviewer rejects it or the simulation is anomalous.
AfterAnswer(a) == IF a = "TIMEOUT" THEN "timedOut" ELSE "idle"

clear_Resolved(j) ==
  /\ pc[j] \in {"clearing", "lateClearing"}
  /\ row' = IF answer[j] = "TIMEOUT" THEN row ELSE [row EXCEPT ![Uuid[j]] = NoRow]
  /\ pc' = [pc EXCEPT ![j] = IF @ = "clearing" THEN AfterAnswer(answer[j]) ELSE "cancelled"]
  /\ UNCHANGED <<round, elapsed, answer, view>>

clear_All(j) ==
  /\ pc[j] \in {"clearing", "lateClearing"}
  /\ row' = [k \in Keys |-> NoRow]
  /\ pc' = [pc EXCEPT ![j] = IF @ = "clearing" THEN AfterAnswer(answer[j]) ELSE "cancelled"]
  /\ UNCHANGED <<round, elapsed, answer, view>>

clear(j) ==
  /\ pc[j] \in {"clearing", "lateClearing"}
  /\ row' = [row EXCEPT ![Uuid[j]] = NoRow]
  /\ pc' = [pc EXCEPT ![j] = IF @ = "clearing" THEN AfterAnswer(answer[j]) ELSE "cancelled"]
  /\ UNCHANGED <<round, elapsed, answer, view>>

\* cancel_job, the job's timeout, or the wait_for around the gate in _review, whose
\* 1800 s of wall clock are over before 600 polls of 3 s have been counted.
Cancel(j) ==
  /\ pc[j] \in Asking
  /\ pc' = [pc EXCEPT ![j] = CASE @ = "writing"  -> "lateWriting"
                               [] @ = "polling"  -> "cancelled"
                               [] @ = "clearing" -> "lateClearing"]
  /\ UNCHANGED <<row, round, elapsed, answer, view>>

-----------------------------------------------------------------------------
(* The review page.                                                         *)

get_hitl_payload(j) == row[JobKey[j]]

\* The page is rendered: it shows the pending plan, if there is one.
Open(j) ==
  /\ view[j] = Blank
  /\ get_hitl_payload(j).status = "PENDING"
  /\ view' = [view EXCEPT ![j].plan = get_hitl_payload(j).plan]
  /\ UNCHANGED <<row, gate>>

\* A click reruns the script: it stops at the guard when nothing is pending now.
Click(j) ==
  /\ view[j] # Blank
  /\ ~view[j].clicked
  /\ view' = [view EXCEPT ![j] = IF get_hitl_payload(j).status = "PENDING"
                                 THEN [@ EXCEPT !.clicked = TRUE] ELSE Blank]
  /\ UNCHANGED <<row, gate>>

Resolve_AllRows(k, d) ==
  [i \in Keys |-> IF row[i].status = "ABSENT" THEN row[i] ELSE [row[i] EXCEPT !.status = d]]

\* UPDATE ... WHERE job_id = k: no row, no change; no look at the old status.
Resolve(k, d) == IF row[k].status = "ABSENT" THEN row ELSE [row EXCEPT ![k].status = d]

\* submit_hitl_decision; Reject also needs a reason to be typed.
write_decision(j) ==
  /\ view[j].clicked
  /\ \E d \in Decisions : row' = Resolve(JobKey[j], d)
  /\ view' = [view EXCEPT ![j] = Blank]
  /\ UNCHANGED gate

GateStep(j) == write_request(j) \/ poll(j) \/ clear(j)

Next ==
  \E j \in Jobs : \/ request_approval(j) \/ GateStep(j) \/ Cancel(j)
                 \/ Open(j) \/ Click(j) \/ write_decision(j)

Spec == Init /\ [][Next]_vars

\* The event loop and its threads make progress; a human owes nothing.
FairSpec == Spec /\ \A j \in Jobs : WF_vars(GateStep(j))

-----------------------------------------------------------------------------
(* Correctness.  PollsOwnRow needs a key per job; the rest holds for any.   *)

\* Rows, gates and screens hold the values the code can give them.
TypeOK ==
  /\ row \in [Keys -> [plan : Plan, status : {"ABSENT", "PENDING"} \cup Decisions]]
  /\ pc \in [Jobs -> Asking \cup {"idle", "lateWriting", "lateClearing", "timedOut",
                                  "cancelled", "raised"}]
  /\ round \in [Jobs -> 0..MaxRounds]
  /\ elapsed \in [Jobs -> 0..Timeout]
  /\ answer \in [Jobs -> {"none", "TIMEOUT"} \cup Decisions]
  /\ view \in [Jobs -> [plan : Plan, clicked : BOOLEAN]]

\* A gate that polls finds the row of the very plan it asks about, never one left
\* by an earlier round or by another job, and never none.
PollsOwnRow == \A j \in Jobs : pc[j] = "polling" => row[Uuid[j]].plan = PlanOf(j)

\* A decision reaches a gate only from a page that looks rows up by the gate's key: no
\* click, however late, and no row left over decides about a request of another key.
\* The pages look for job_id and the gates file under state_uuid (hitl.py:113), so that
\* none of the program's gates ever gets an answer.
DecisionsComeByKey ==
  \A j \in Jobs : answer[j] \in Decisions => \E v \in Jobs : JobKey[v] = Uuid[j]

\* A row is in the table only while a gate with its key asks, or when one was
\* cancelled: the answers and the timeout clear it and no late click brings it back,
\* also when two jobs share the key and clear each other's row.
LeftoverOnlyIfCancelled ==
  \A k \in Keys : row[k].status # "ABSENT" =>
    \E j \in Jobs : /\ Uuid[j] = k
                    /\ pc[j] \in Asking \cup {"cancelled", "lateWriting", "lateClearing"}

\* A job that asks a human does not wait for ever.
EveryRequestEnds == \A j \in Jobs : pc[j] = "writing" ~> pc[j] \notin Asking

-----------------------------------------------------------------------------
(* What a comment of the code says.                                         *)

\* "state_uuid IS the job key" (hitl.py:113): no other job's gate removes the row a
\* gate is polling.
RowStaysWhilePolling == \A j \in Jobs : pc[j] # "raised"
=============================================================================
