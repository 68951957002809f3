---------------------------- MODULE Orchestrator ----------------------------
(***************************************************************************)
(* control/orchestrator.py: the asyncio job manager.  One action is what   *)
(* one task does between two awaits on the event loop.  The event loop,    *)
(* asyncio.Semaphore and asyncio.wait_for (Python 3.10, README.md:290) are *)
(* external: they are modelled as _run_job uses them, because cancelling,  *)
(* timing out and finishing race inside them.  The agent is reduced to     *)
(* what wait_for can see of it.                                            *)
(***************************************************************************)
EXTENDS Integers, FiniteSets

CONSTANTS
  Jobs,           \* job ids: each is submitted at most once (_jobs never shrinks)
  MaxConcurrent   \* max_concurrent_jobs

ASSUME OrchestratorAssumption ==
  /\ IsFiniteSet(Jobs)
  /\ MaxConcurrent \in Nat \ {0}

VARIABLES
  started,     \* _started
  stopSet,     \* the tasks an active stop() gathers; {} when no stop() waits
  late,        \* history: jobs accepted while a stop() was gathering
  status,      \* _jobs[j].status; "NONE" while j is not in _jobs
  state,       \* _jobs[j].state: "ACTIVE" is any non-terminal agent state
  pc,          \* where the task _tasks[j] is
  cancelFlag,  \* a CancelledError waits to be thrown into the task, or ended it
  timer,       \* wait_for's timeout handle has fired
  agent,       \* the inner task that runs agent.run()
  value,       \* _semaphore._value
  ahead        \* the waiters that were in _semaphore._waiters when j joined

control  == <<started, stopSet, late>>
vars == <<started, stopSet, late, status, state, pc, cancelFlag, timer, agent,
          value, ahead>>

Verdicts == {"COMPLETED", "FAILED"}
TerminalStatus == Verdicts \cup {"CANCELLED"}
Status == {"NONE", "QUEUED", "RUNNING"} \cup TerminalStatus
ReportedState == {"None", "ACTIVE", "UNKNOWN"} \cup Verdicts

\* In the body of "async with self._semaphore".
InBody == {"running", "timingOut", "cancelling"}
TaskPhase == {"none", "created", "waiting", "granted", "finished", "done"} \cup InBody

AgentLive  == {"running", "cancelling", "survivor"}
AgentEnded == {"completed", "failed", "raised", "aborted"}
AgentPhase == {"none"} \cup AgentLive \cup AgentEnded

\* agent.state.name as _run_job reads it; run() sets FAILED before it can raise.
AgentState(j) ==
  IF agent[j] = "completed" THEN "COMPLETED"
  ELSE IF agent[j] \in {"failed", "raised"} THEN "FAILED" ELSE "ACTIVE"

TaskAlive(j) == pc[j] \notin {"none", "finished", "done"}

Init ==
  /\ started = FALSE
  /\ stopSet = {}
  /\ late = {}
  /\ status = [j \in Jobs |-> "NONE"]
  /\ state = [j \in Jobs |-> "None"]
  /\ pc = [j \in Jobs |-> "none"]
  /\ cancelFlag = [j \in Jobs |-> FALSE]
  /\ timer = [j \in Jobs |-> FALSE]
  /\ agent = [j \in Jobs |-> "none"]
  /\ value = MaxConcurrent
  /\ ahead = [j \in Jobs |-> {}]

-----------------------------------------------------------------------------
(* asyncio.Semaphore.  A record s holds its value and the task phases.      *)

\* The waiters whose future is not done, and the first of them in the deque.
LiveWaiters(p) == {k \in Jobs : p[k] = "waiting" /\ ~cancelFlag[k]}
FirstWaiters(p) == {k \in LiveWaiters(p) : ahead[k] \cap LiveWaiters(p) = {}}

\* _wake_up_next(): the permit goes straight to the first live waiter.
WakeUpNext(s) ==
  IF FirstWaiters(s.pc) = {} THEN s
  ELSE LET k == CHOOSE k \in FirstWaiters(s.pc) : TRUE
       IN  [value |-> s.value - 1, pc |-> [s.pc EXCEPT ![k] = "granted"]]

Release_PermitLost(s, j) ==
  WakeUpNext([value |-> s.value, pc |-> [s.pc EXCEPT ![j] = "finished"]])
Release_NoWakeUp(s, j) ==
  [value |-> s.value + 1, pc |-> [s.pc EXCEPT ![j] = "finished"]]

\* release() when task j ends.
Release(s, j) ==
  WakeUpNext([value |-> s.value + 1, pc |-> [s.pc EXCEPT ![j] = "finished"]])

Locked_AlwaysFree == FALSE

\* locked(): a waiter that was granted but has not resumed still counts.
Locked == value = 0 \/ \E k \in Jobs : pc[k] = "granted"
                    \/ LiveWaiters(pc) # {}

-----------------------------------------------------------------------------
(* The public coroutines; none of them awaits before its last statement,    *)
(* except stop().                                                           *)

start ==
  /\ started' = TRUE
  /\ UNCHANGED <<stopSet, late, status, state, pc, cancelFlag, timer, agent,
                 value, ahead>>

submit_job(j) ==
  /\ started
  /\ pc[j] = "none"
  /\ status' = [status EXCEPT ![j] = "QUEUED"]
  /\ pc' = [pc EXCEPT ![j] = "created"]
  /\ late' = IF stopSet # {} THEN late \cup {j} ELSE late
  /\ UNCHANGED <<started, stopSet, state, cancelFlag, timer, agent, value, ahead>>

cancel_job_NoDoneCheck(j) ==
  /\ pc[j] # "none"
  /\ cancelFlag' = [cancelFlag EXCEPT ![j] = TRUE]
  /\ status' = [status EXCEPT ![j] = "CANCELLED"]
  /\ UNCHANGED <<control, state, pc, timer, agent, value, ahead>>

cancel_job(j) ==
  /\ TaskAlive(j)
  /\ cancelFlag' = [cancelFlag EXCEPT ![j] = TRUE]
  /\ status' = [status EXCEPT ![j] = "CANCELLED"]
  /\ UNCHANGED <<control, state, pc, timer, agent, value, ahead>>

stop_RunningOnly ==
  LET pending == {j \in Jobs : TaskAlive(j) /\ status[j] = "RUNNING"} IN
  /\ stopSet = {}
  /\ stopSet' = pending
  /\ started' = IF pending = {} THEN FALSE ELSE started
  /\ cancelFlag' = [j \in Jobs |-> cancelFlag[j] \/ j \in pending]
  /\ UNCHANGED <<late, status, state, pc, timer, agent, value, ahead>>

\* stop() up to its await: the snapshot of live tasks, each one cancelled.
stop ==
  LET pending == {j \in Jobs : TaskAlive(j)} IN
  /\ stopSet = {}
  /\ stopSet' = pending
  /\ started' = IF pending = {} THEN FALSE ELSE started
  /\ cancelFlag' = [j \in Jobs |-> cancelFlag[j] \/ j \in pending]
  /\ UNCHANGED <<late, status, state, pc, timer, agent, value, ahead>>

\* gather() returns when every task of the snapshot has run its callbacks.
stop_returns ==
  /\ stopSet # {}
  /\ \A j \in stopSet : pc[j] = "done"
  /\ started' = FALSE
  /\ stopSet' = {}
  /\ UNCHANGED <<late, status, state, pc, cancelFlag, timer, agent, value, ahead>>

-----------------------------------------------------------------------------
(* _run_job, one action per stretch between awaits.                         *)

\* The body from its first statement to "await asyncio.wait_for", entered with
\* the permit already taken in s.
EnterBody(j, s) ==
  \/ /\ status' = [status EXCEPT ![j] = "RUNNING"]
     /\ agent' = [agent EXCEPT ![j] = "running"]
     /\ value' = s.value
     /\ pc' = [s.pc EXCEPT ![j] = "running"]
     /\ UNCHANGED <<control, state, cancelFlag, timer>>
  \/ /\ status' = [status EXCEPT ![j] = "FAILED"]    \* the factory raised
     /\ state' = [state EXCEPT ![j] = "UNKNOWN"]
     /\ value' = Release(s, j).value
     /\ pc' = Release(s, j).pc
     /\ UNCHANGED <<control, cancelFlag, timer, agent>>

\* First step of the task: cancelled before it starts, made to wait, or run.
Acquire(j) ==
  /\ pc[j] = "created"
  /\ \/ /\ cancelFlag[j]
        /\ pc' = [pc EXCEPT ![j] = "finished"]
        /\ UNCHANGED <<control, status, state, cancelFlag, timer, agent, value, ahead>>
     \/ /\ ~cancelFlag[j]
        /\ Locked
        /\ pc' = [pc EXCEPT ![j] = "waiting"]
        /\ ahead' = [ahead EXCEPT ![j] = {k \in Jobs : pc[k] = "waiting"}]
        /\ UNCHANGED <<control, status, state, cancelFlag, timer, agent, value>>
     \/ /\ ~cancelFlag[j]
        /\ ~Locked
        /\ EnterBody(j, [value |-> value - 1, pc |-> pc])
        /\ UNCHANGED ahead

\* A waiter resumes: with its permit, or with a CancelledError, in which case
\* a permit it had been granted is passed on.
Resume(j) ==
  /\ ahead' = [ahead EXCEPT ![j] = {}]      \* _waiters.remove(fut)
  /\ \/ /\ pc[j] = "waiting"
        /\ cancelFlag[j]
        /\ pc' = [pc EXCEPT ![j] = "finished"]
        /\ UNCHANGED <<control, status, state, cancelFlag, timer, agent, value>>
     \/ /\ pc[j] = "granted"
        /\ cancelFlag[j]
        /\ value' = Release([value |-> value, pc |-> pc], j).value
        /\ pc' = Release([value |-> value, pc |-> pc], j).pc
        /\ UNCHANGED <<control, status, state, cancelFlag, timer, agent>>
     \/ /\ pc[j] = "granted"
        /\ ~cancelFlag[j]
        /\ LET s == [value |-> value, pc |-> pc]
           IN  EnterBody(j, IF value > 0 THEN WakeUpNext(s) ELSE s)

\* The end of the body with a status and a state, and the end of the task.
Leave(j, st, cancelled) ==
  /\ status' = [status EXCEPT ![j] = st]
  /\ state' = [state EXCEPT ![j] = AgentState(j)]
  /\ cancelFlag' = [cancelFlag EXCEPT ![j] = cancelled]
  /\ value' = Release([value |-> value, pc |-> pc], j).value
  /\ pc' = Release([value |-> value, pc |-> pc], j).pc
  /\ timer' = [timer EXCEPT ![j] = FALSE]    \* timeout_handle.cancel()
  /\ UNCHANGED <<control, agent, ahead>>

Verdict_StateName(j) == AgentState(j)
Verdict_AnyEnd(j) == IF agent[j] \in AgentEnded THEN "COMPLETED" ELSE "FAILED"

\* wait_for returned or re-raised what agent.run() ended with.
Verdict(j) == IF agent[j] = "completed" THEN "COMPLETED" ELSE "FAILED"

AgentAnswered_TimerWins(j) ==
  /\ pc[j] = "running"
  /\ agent[j] \in AgentEnded \/ timer[j]
  /\ Leave(j, Verdict(j), FALSE)

\* wait_for wakes up: an agent that has ended answers, even to a task that has
\* been cancelled meanwhile (fut.done(): the cancellation is swallowed).
AgentAnswered(j) ==
  /\ pc[j] = "running"
  /\ agent[j] \in AgentEnded
  /\ Leave(j, Verdict(j), FALSE)

\* wait_for wakes up because of a cancellation or of the timer, and cancels
\* the agent (_cancel_and_wait).
CancelAgent(j) ==
  /\ pc[j] = "running"
  /\ agent[j] \in AgentLive
  /\ cancelFlag[j] \/ timer[j]
  /\ pc' = [pc EXCEPT ![j] = IF cancelFlag[j] THEN "cancelling" ELSE "timingOut"]
  /\ cancelFlag' = [cancelFlag EXCEPT ![j] = FALSE]
  /\ agent' = [agent EXCEPT ![j] = "cancelling"]
  /\ UNCHANGED <<control, status, state, timer, value, ahead>>

\* The wait for the cancelled agent ends: with the agent, or with a second
\* cancellation of the job, which leaves the agent behind.
AgentReaped(j) ==
  \/ /\ pc[j] = "timingOut"
     /\ ~cancelFlag[j]
     /\ agent[j] \in AgentEnded
     /\ Leave(j, Verdict(j), FALSE)
  \/ /\ pc[j] = "timingOut"
     /\ cancelFlag[j]
     /\ Leave(j, "CANCELLED", TRUE)
  \/ /\ pc[j] = "cancelling"
     /\ cancelFlag[j] \/ agent[j] \in AgentEnded
     /\ Leave(j, "CANCELLED", TRUE)

Timeout_Never(j) == FALSE /\ UNCHANGED vars

Timeout(j) ==
  /\ pc[j] = "running"
  /\ agent[j] \in AgentLive
  /\ ~timer[j]
  /\ timer' = [timer EXCEPT ![j] = TRUE]
  /\ UNCHANGED <<control, status, state, pc, cancelFlag, agent, value, ahead>>

\* The done callback, one loop iteration after the task has ended.
on_task_done(j) ==
  /\ pc[j] = "finished"
  /\ pc' = [pc EXCEPT ![j] = "done"]
  /\ status' = [status EXCEPT ![j] = IF cancelFlag[j] THEN "CANCELLED" ELSE @]
  /\ UNCHANGED <<control, state, cancelFlag, timer, agent, value, ahead>>

-----------------------------------------------------------------------------
(* The agent, as far as the orchestrator can tell.                          *)

\* update_state, the callback the agent calls at the top of its loop.
update_state(j) ==
  /\ agent[j] \in {"running", "survivor"}
  /\ state' = [state EXCEPT ![j] = "ACTIVE"]
  /\ UNCHANGED <<control, status, pc, cancelFlag, timer, agent, value, ahead>>

AgentReturns(j) ==
  /\ agent[j] \in {"running", "survivor"}
  /\ \E r \in {"completed", "failed", "raised"} : agent' = [agent EXCEPT ![j] = r]
  /\ UNCHANGED <<control, status, state, pc, cancelFlag, timer, value, ahead>>

\* A cancelled agent ends with CancelledError, unless the cancellation meets the
\* wait_for of MetaAgent._review with its answer already there.
AgentCancelled(j) ==
  /\ agent[j] = "cancelling"
  /\ \E r \in {"aborted", "survivor"} : agent' = [agent EXCEPT ![j] = r]
  /\ UNCHANGED <<control, status, state, pc, cancelFlag, timer, value, ahead>>

JobStep(j) ==
  \/ Acquire(j) \/ Resume(j) \/ AgentAnswered(j) \/ CancelAgent(j)
  \/ AgentReaped(j) \/ on_task_done(j)

AgentStep(j) == update_state(j) \/ AgentReturns(j) \/ AgentCancelled(j)

Next ==
  \/ start \/ stop \/ stop_returns
  \/ \E j \in Jobs :
       submit_job(j) \/ cancel_job(j) \/ Timeout(j) \/ JobStep(j) \/ AgentStep(j)

Spec == Init /\ [][Next]_vars

(***************************************************************************)
(* The event loop runs every ready task, timers fire, and an agent that    *)
(* has been cancelled ends.  A running agent owes nothing: it may wait for *)
(* an LLM or a human for ever, and only the timeout ends it.               *)
(***************************************************************************)
Fairness ==
  /\ WF_vars(stop_returns)
  /\ \A j \in Jobs :
       /\ WF_vars(JobStep(j))
       /\ WF_vars(Timeout(j))
       /\ WF_vars(AgentCancelled(j))
       /\ WF_vars(agent[j] = "survivor" /\ AgentReturns(j))

FairSpec == Spec /\ Fairness

-----------------------------------------------------------------------------
(* Correctness.                                                             *)

\* Every field of the orchestrator and of its tasks stays in its range.
TypeOK ==
  /\ started \in BOOLEAN
  /\ stopSet \subseteq Jobs
  /\ late \subseteq Jobs
  /\ status \in [Jobs -> Status]
  /\ state \in [Jobs -> ReportedState]
  /\ pc \in [Jobs -> TaskPhase]
  /\ cancelFlag \in [Jobs -> BOOLEAN]
  /\ timer \in [Jobs -> BOOLEAN]
  /\ agent \in [Jobs -> AgentPhase]
  /\ value \in Nat
  /\ ahead \in [Jobs -> SUBSET Jobs]

\* The tasks that hold a permit when their phases are p.
HoldersIn(p) == {j \in Jobs : p[j] \in {"granted"} \cup InBody}

\* No path through _run_job (cancelled before it starts, while it waits, between
\* the grant and the resumption, factory failure, timeout, double cancellation)
\* loses a permit of the semaphore or returns one twice.
PermitsConserved == value + Cardinality(HoldersIn(pc)) = MaxConcurrent

\* At most max_concurrent_jobs jobs are shown as RUNNING.  It counts jobs: the agent
\* of a job cancelled twice may live on after its permit has been given back.
SlotsRespected == Cardinality({j \in Jobs : status[j] = "RUNNING"}) <= MaxConcurrent

\* A slot is never left idle while a job waits for it: a free permit and a live
\* waiter coexist only while a granted job, which will pass it on, has yet to resume.
NoIdleSlot ==
  value > 0 /\ LiveWaiters(pc) # {} => \E k \in Jobs : pc[k] = "granted"

\* An agent outlives its job's task only if the job was cancelled: _run_job never
\* reports a verdict or a timeout while the agent still runs.
OrphanOnlyIfCancelled ==
  \A j \in Jobs : pc[j] \in {"finished", "done"} /\ agent[j] \in AgentLive
                    => status[j] = "CANCELLED"

\* When the done callback has run the status is terminal and agrees with how the
\* agent really ended: COMPLETED exactly when agent.run() completed, unless the
\* job was cancelled.
SettledStatusTrue ==
  \A j \in Jobs : pc[j] = "done" =>
    /\ status[j] \in TerminalStatus
    /\ status[j] = "COMPLETED" => agent[j] = "completed" /\ state[j] = "COMPLETED"
    /\ status[j] = "FAILED" => agent[j] \in {"none", "failed", "raised", "aborted"}

\* Once stop() has returned and start() has not been called again, the only tasks
\* still alive are those submit_job accepted while stop() was gathering.
StopLeavesOnlyLateJobs ==
  ~started => \A j \in Jobs : TaskAlive(j) => j \in late

\* Every submitted job is eventually settled, whatever its agent does: it runs,
\* times out, or is cancelled, and its slot's successor is woken up.
EveryJobSettles == \A j \in Jobs : status[j] # "NONE" ~> pc[j] = "done"

\* The job monitor treats CANCELLED as a terminal status (2_job_monitor.py:99) and
\* tells the user "Job cancelled" (2_job_monitor.py:256) as soon as cancel_job returns.
CancelledIsFinal ==
  [][\A j \in Jobs : status[j] = "CANCELLED" => status'[j] = "CANCELLED"]_vars

\* The status records implement the abstract life of a job.
Begun == {j \in Jobs : \/ pc[j] \in InBody
                       \/ pc[j] \in {"finished", "done"} /\ state[j] # "None"}
Lifecycle == INSTANCE JobLifecycle
               WITH begun <- Begun, settled <- {j \in Jobs : pc[j] = "done"}

\* Orchestrator implements JobLifecycle: cancel_job, stop, the timeout and the
\* done callback never take a status where callers were not promised it could go.
ImplementsLifecycle == Lifecycle!Spec
=============================================================================
