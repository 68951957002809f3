---------------------------- MODULE JobLifecycle ----------------------------
(***************************************************************************)
(* What the job queue of control/orchestrator.py promises its callers,     *)
(* without tasks, semaphores or timers: the life of a JobStatus record as  *)
(* get_status shows it.  A job is queued, runs in one of MaxConcurrent     *)
(* slots, gets a verdict, and is then settled for good.  A cancellation is *)
(* acknowledged at once (status CANCELLED) and the acknowledgement may be  *)
(* overtaken by a verdict only if the job had begun to run.                *)
(***************************************************************************)
EXTENDS Naturals, FiniteSets

CONSTANTS
  Jobs,           \* job identifiers
  MaxConcurrent   \* Orchestrator.__init__'s max_concurrent_jobs

VARIABLES
  status,   \* [Jobs -> Status]: JobStatus.status, "NONE" before submit_job
  begun,    \* the jobs whose body has been entered
  settled   \* the jobs whose task is done and whose done callback has run

lifecycleVars == <<status, begun, settled>>

Verdicts == {"COMPLETED", "FAILED"}
TerminalStatus == Verdicts \cup {"CANCELLED"}
Status == {"NONE", "QUEUED", "RUNNING"} \cup TerminalStatus

Running == {j \in Jobs : status[j] = "RUNNING"}

Init ==
  /\ status = [j \in Jobs |-> "NONE"]
  /\ begun = {}
  /\ settled = {}

Queue(j) ==
  /\ status[j] = "NONE"
  /\ status' = [status EXCEPT ![j] = "QUEUED"]
  /\ UNCHANGED <<begun, settled>>

\* A job leaves the queue for a free slot; it may fail before its agent exists.
Begin(j) ==
  /\ status[j] = "QUEUED"
  /\ j \notin begun
  /\ begun' = begun \cup {j}
  /\ \/ /\ Cardinality(Running) < MaxConcurrent
        /\ status' = [status EXCEPT ![j] = "RUNNING"]
     \/ status' = [status EXCEPT ![j] = "FAILED"]
  /\ UNCHANGED settled

AcknowledgeCancel(j) ==
  /\ j \notin settled
  /\ status[j] \in {"QUEUED", "RUNNING"}
  /\ status' = [status EXCEPT ![j] = "CANCELLED"]
  /\ UNCHANGED <<begun, settled>>

Conclude(j) ==
  /\ j \in begun \ settled
  /\ status[j] \in {"RUNNING", "CANCELLED"}
  /\ \E s \in TerminalStatus : status' = [status EXCEPT ![j] = s]
  /\ UNCHANGED <<begun, settled>>

\* A job cancelled by stop() while it was queued is told so only now.
Settle(j) ==
  /\ j \notin settled
  /\ status[j] \in TerminalStatus \/ (status[j] = "QUEUED" /\ j \notin begun)
  /\ status' = [status EXCEPT ![j] = IF @ = "QUEUED" THEN "CANCELLED" ELSE @]
  /\ settled' = settled \cup {j}
  /\ UNCHANGED begun

Next == \E j \in Jobs :
  Queue(j) \/ Begin(j) \/ AcknowledgeCancel(j) \/ Conclude(j) \/ Settle(j)

Spec == Init /\ [][Next]_lifecycleVars

=============================================================================
