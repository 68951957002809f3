---------------------- MODULE OrchestratorSafety_proofs ----------------------
(***************************************************************************)
(* Theorems about Orchestrator that need more than the invariant IInv of   *)
(* Orchestrator_proofs: what a finished job says of its agent, who is left *)
(* alive when stop() returns, and that the order of the semaphore's queue  *)
(* never leaves a slot idle.                                               *)
(***************************************************************************)
EXTENDS Orchestrator_proofs, WellFoundedInduction

\* How a task may have ended, from the moment it has left _run_job.  The first
\* conjunct keeps the agent from moving under the other two.
Outcome(j) ==
  pc[j] \in {"finished", "done"} =>
    /\ agent[j] \in AgentLive => status[j] = "CANCELLED"
    /\ status[j] = "COMPLETED" => agent[j] = "completed" /\ state[j] = "COMPLETED"
    /\ status[j] = "FAILED" => agent[j] \in {"none", "failed", "raised", "aborted"}

Outcomes == \A j \in Jobs : Outcome(j)

\* While stop() gathers, a live task is one it waits for or a late one.
SnapshotCovers ==
  stopSet # {} => \A j \in Jobs : TaskAlive(j) => j \in stopSet \cup late

StopInv == SnapshotCovers /\ StopLeavesOnlyLateJobs

\* The queue of the waiters in the phases p: who joined before a waiter joined
\* before every waiter behind it, and none of them is still to come.
QueueOrdered(p) ==
  \A j \in Jobs : p[j] = "waiting" =>
    /\ j \notin ahead[j]
    /\ \A k \in ahead[j] :
         /\ p[k] \notin {"none", "created"}
         /\ p[k] = "waiting" =>
              \A m \in ahead[k] : p[m] = "waiting" => m \in ahead[j]

QueueInv == QueueOrdered(pc) /\ NoIdleSlot

-----------------------------------------------------------------------------
(* How a finished job ended.                                                *)

\* A step of job j leaves the outcome of the other jobs as it was.
LEMMA OthersKeepOutcome ==
  ASSUME NEW j \in Jobs, NEW k \in Jobs \ {j}, Outcome(k),
         OthersMayBeGranted(pc, pc', j),
         status'[k] = status[k], state'[k] = state[k], agent'[k] = agent[k]
  PROVE  Outcome(k)'
BY DEF Outcome, OthersMayBeGranted

LEMMA EnterBodyOutcome ==
  ASSUME IInv, Outcomes, NEW j \in Jobs, NEW s \in Sem,
         pc[j] \in {"created", "granted"}, s.pc[j] = pc[j],
         OthersMayBeGranted(pc, s.pc, j), EnterBody(j, s)
  PROVE  Outcomes'
<1>1. TypeOK /\ Shape(j) /\ s.pc \in [Jobs -> TaskPhase]
  BY DEF IInv, Sem
<1>2. agent[j] = "none"
  BY <1>1 DEF Shape
<1>3. CASE pc' = [s.pc EXCEPT ![j] = "running"] /\ UNCHANGED state
           /\ status' = [status EXCEPT ![j] = "RUNNING"]
           /\ agent' = [agent EXCEPT ![j] = "running"]
  <2>1. pc'[j] = "running" /\ OthersMayBeGranted(pc, pc', j)
    BY <1>1, <1>3 DEF OthersMayBeGranted
  <2>2. \A k \in Jobs \ {j} : Outcome(k)'
    BY <1>1, <1>3, <2>1, OthersKeepOutcome DEF Outcomes, TypeOK
  <2>3. Outcome(j)'
    BY <2>1 DEF Outcome
  <2>4. QED
    BY <2>2, <2>3 DEF Outcomes
<1>4. CASE pc' = Release(s, j).pc /\ UNCHANGED agent
           /\ status' = [status EXCEPT ![j] = "FAILED"]
           /\ state' = [state EXCEPT ![j] = "UNKNOWN"]
  <2>1. OthersMayBeGranted(pc, pc', j)
    BY <1>4, ReleaseTotal DEF OthersMayBeGranted
  <2>2. \A k \in Jobs \ {j} : Outcome(k)'
    BY <1>1, <1>4, <2>1, OthersKeepOutcome DEF Outcomes, TypeOK
  <2>3. Outcome(j)'
    BY <1>1, <1>2, <1>4 DEF Outcome, TypeOK, AgentLive
  <2>4. QED
    BY <2>2, <2>3 DEF Outcomes
<1>5. QED
  BY <1>3, <1>4 DEF EnterBody

\* The end of the body tells the truth: a verdict is reported only of an agent
\* that has ended, and it is the agent's.
LEMMA LeaveOutcome ==
  ASSUME IInv, Outcomes, NEW j \in Jobs, pc[j] \in InBody,
         NEW st, NEW c \in BOOLEAN, Leave(j, st, c),
         st = "CANCELLED" \/ (st = Verdict(j) /\ agent[j] \in AgentEnded)
  PROVE  Outcomes'
<1>1. TypeOK
  BY DEF IInv
<1>2. /\ status' = [status EXCEPT ![j] = st]
      /\ state' = [state EXCEPT ![j] = AgentState(j)]
      /\ agent' = agent
      /\ OthersMayBeGranted(pc, pc', j)
  BY HolderLeaves DEF Leave, Now, HoldingPhase
<1>3. \A k \in Jobs \ {j} : Outcome(k)'
  BY <1>1, <1>2, OthersKeepOutcome DEF Outcomes, TypeOK
<1>4. status'[j] = st /\ state'[j] = AgentState(j)
  BY <1>1, <1>2 DEF TypeOK
<1>5. Outcome(j)'
  <2>1. CASE st = "CANCELLED"
    BY <1>4, <2>1 DEF Outcome
  <2>2. CASE st = Verdict(j) /\ agent[j] \in AgentEnded
    BY <1>2, <1>4, <2>2 DEF Outcome, Verdict, AgentState, AgentEnded, AgentLive
  <2>3. QED
    BY <2>1, <2>2
<1>6. QED
  BY <1>3, <1>5 DEF Outcomes

LEMMA AcquireOutcome ==
  ASSUME IInv, Outcomes, NEW j \in Jobs, Acquire(j)
  PROVE  Outcomes'
<1>1. TypeOK /\ Shape(j)
  BY DEF IInv
<1>2. CASE \E x \in {"finished", "waiting"} : pc' = [pc EXCEPT ![j] = x]
           /\ pc[j] = "created" /\ UNCHANGED <<status, state, agent>>
           /\ (x = "finished" => cancelFlag[j])
  <2>1. agent[j] = "none" /\ status[j] \in {"QUEUED", "CANCELLED"}
    BY <1>1, <1>2 DEF Shape
  <2>2. Outcome(j)'
    BY <1>2, <2>1 DEF Outcome, AgentLive
  <2>3. OthersMayBeGranted(pc, pc', j)
    BY <1>1, <1>2 DEF OthersMayBeGranted, TypeOK
  <2>4. \A k \in Jobs \ {j} : Outcome(k)'
    BY <1>2, <2>3, OthersKeepOutcome DEF Outcomes
  <2>5. QED
    BY <2>2, <2>4 DEF Outcomes
<1>3. CASE pc[j] = "created" /\ ~Locked
           /\ EnterBody(j, [value |-> value - 1, pc |-> pc])
  <2> DEFINE s == [value |-> value - 1, pc |-> pc]
  <2>1. s \in Sem /\ s.pc[j] = pc[j] /\ OthersMayBeGranted(pc, s.pc, j)
    BY <1>1, <1>3 DEF Sem, Locked, TypeOK, OthersMayBeGranted
  <2>2. EnterBody(j, s)
    BY <1>3
  <2> HIDE DEF s
  <2>3. QED
    BY <1>3, <2>1, <2>2, EnterBodyOutcome
<1>4. QED
  BY <1>2, <1>3 DEF Acquire

LEMMA ResumeOutcome ==
  ASSUME IInv, Outcomes, NEW j \in Jobs, Resume(j)
  PROVE  Outcomes'
<1>1. TypeOK /\ Shape(j)
  BY DEF IInv
<1>2. Now \in Sem /\ Now.value = value /\ Now.pc = pc
  BY NowFacts
<1>3. CASE pc[j] \in {"waiting", "granted"} /\ OthersMayBeGranted(pc, pc', j)
           /\ UNCHANGED <<status, state, agent>>
  <2>1. agent[j] = "none" /\ status[j] \in {"QUEUED", "CANCELLED"}
    BY <1>1, <1>3 DEF Shape
  <2>2. Outcome(j)'
    BY <1>3, <2>1 DEF Outcome, AgentLive
  <2>3. \A k \in Jobs \ {j} : Outcome(k)'
    BY <1>3, OthersKeepOutcome DEF Outcomes
  <2>4. QED
    BY <2>2, <2>3 DEF Outcomes
<1>4. CASE pc[j] = "waiting" /\ pc' = [pc EXCEPT ![j] = "finished"]
           /\ UNCHANGED <<status, state, agent>>
  BY <1>1, <1>3, <1>4 DEF OthersMayBeGranted, TypeOK
<1>5. CASE pc[j] = "granted" /\ UNCHANGED <<status, state, agent>>
           /\ value' = Release(Now, j).value /\ pc' = Release(Now, j).pc
  BY <1>3, <1>5, HolderLeaves DEF HoldingPhase
<1>6. CASE pc[j] = "granted" /\ EnterBody(j, IF value > 0 THEN WakeUpNext(Now) ELSE Now)
  <2> DEFINE s == IF value > 0 THEN WakeUpNext(Now) ELSE Now
  <2>1. s \in Sem /\ s.pc[j] = pc[j] /\ OthersMayBeGranted(pc, s.pc, j)
    <3>1. CASE value > 0
      BY <1>2, <1>6, <3>1, WakeUpNextKeepsTotal DEF OthersMayBeGranted
    <3>2. CASE ~(value > 0)
      BY <1>2, <3>2 DEF OthersMayBeGranted
    <3>3. QED
      BY <3>1, <3>2
  <2>2. EnterBody(j, s)
    BY <1>6
  <2> HIDE DEF s
  <2>3. QED
    BY <1>6, <2>1, <2>2, EnterBodyOutcome
<1>7. QED
  BY <1>4, <1>5, <1>6 DEF Resume, Now

\* The agent moves after its task has left only if the job is CANCELLED, and the
\* done callback can only turn a status into CANCELLED.
LEMMA OtherStepsOutcome ==
  ASSUME IInv, Outcomes, NEW j \in Jobs,
         \/ start \/ stop \/ stop_returns \/ submit_job(j) \/ cancel_job(j)
         \/ Timeout(j) \/ on_task_done(j) \/ CancelAgent(j) \/ AgentStep(j)
  PROVE  Outcomes'
<1>1. TypeOK /\ \A k \in Jobs : Shape(k) /\ Outcome(k)
  BY DEF IInv, Outcomes
<1>2. CASE start \/ stop \/ stop_returns \/ Timeout(j)
  BY <1>1, <1>2 DEF start, stop, stop_returns, Timeout, Outcomes, Outcome
<1>3. CASE submit_job(j)
  BY <1>1, <1>3 DEF submit_job, Outcomes, Outcome, TypeOK
<1>4. CASE cancel_job(j)
  BY <1>1, <1>4 DEF cancel_job, TaskAlive, Outcomes, Outcome, TypeOK
<1>5. CASE on_task_done(j)
  BY <1>1, <1>5 DEF on_task_done, Outcomes, Outcome, TypeOK
<1>6. CASE CancelAgent(j)
  BY <1>1, <1>6 DEF CancelAgent, Outcomes, Outcome, TypeOK
<1>7. CASE AgentStep(j)
  BY <1>1, <1>7 DEF AgentStep, update_state, AgentReturns, AgentCancelled, AgentLive,
     Outcomes, Outcome, TypeOK
<1>8. QED
  BY <1>2, <1>3, <1>4, <1>5, <1>6, <1>7

LEMMA NextOutcomes == IInv /\ Outcomes /\ [Next]_vars => Outcomes'
<1> SUFFICES ASSUME IInv, Outcomes, [Next]_vars PROVE Outcomes'
  OBVIOUS
<1>1. ASSUME NEW j \in Jobs,
             \/ submit_job(j) \/ cancel_job(j) \/ Timeout(j) \/ on_task_done(j)
             \/ CancelAgent(j) \/ AgentStep(j)
      PROVE  Outcomes'
  BY <1>1, OtherStepsOutcome
<1>2. ASSUME NEW j \in Jobs, Acquire(j) \/ Resume(j) PROVE Outcomes'
  BY <1>2, AcquireOutcome, ResumeOutcome
<1>3. ASSUME NEW j \in Jobs, AgentAnswered(j) \/ AgentReaped(j) PROVE Outcomes'
  BY <1>3, LeaveOutcome DEF AgentAnswered, AgentReaped, InBody
<1>4. CASE start \/ stop \/ stop_returns
  BY <1>4 DEF start, stop, stop_returns, Outcomes, Outcome
<1>5. CASE UNCHANGED vars
  BY <1>5 DEF vars, Outcomes, Outcome
<1>6. QED
  BY <1>1, <1>2, <1>3, <1>4, <1>5 DEF Next, JobStep

LEMMA AlwaysOutcomes == Spec => []Outcomes
<1>1. Init => Outcomes
  BY DEF Init, Outcomes, Outcome
<1>2. QED
  BY <1>1, NextOutcomes, Invariance, PTL DEF Spec

\* _run_job never reports a verdict or a timeout while the agent still runs: an
\* agent outlives its job's task only if the job was cancelled.
THEOREM OrphansAreCancelled == Spec => []OrphanOnlyIfCancelled
<1>1. Outcomes => OrphanOnlyIfCancelled
  BY DEF Outcomes, Outcome, OrphanOnlyIfCancelled
<1>2. QED
  BY <1>1, AlwaysOutcomes, PTL

\* The agents at work for jobs that have not been cancelled.
Attended == {j \in Jobs : agent[j] \in AgentLive /\ status[j] # "CANCELLED"}

\* Never more agents run than there are slots, except for those a cancellation left
\* over: an agent whose job is not CANCELLED has its task inside the body, which
\* holds a permit.
THEOREM AttendedAgentsHaveSlots == Spec => [](Cardinality(Attended) <= MaxConcurrent)
<1>1. ASSUME IInv, OrphanOnlyIfCancelled PROVE Cardinality(Attended) <= MaxConcurrent
  <2>1. Attended \subseteq HoldersIn(pc)
    BY <1>1 DEF Attended, OrphanOnlyIfCancelled, IInv, Shape, TypeOK, TaskPhase, InBody,
       AgentLive, HoldersIn
  <2>2. pc \in [Jobs -> TaskPhase] /\ value \in Nat
        /\ value + Cardinality(HoldersIn(pc)) = MaxConcurrent
    BY <1>1 DEF IInv, TypeOK, PermitsConserved
  <2>3. IsFiniteSet(HoldersIn(pc)) /\ Cardinality(HoldersIn(pc)) \in Nat
    BY <2>2, HoldersFinite
  <2>4. Cardinality(Attended) <= Cardinality(HoldersIn(pc)) /\ IsFiniteSet(Attended)
    BY <2>1, <2>3, FS_Subset
  <2>5. Cardinality(Attended) \in Nat
    BY <2>4, FS_CardinalityType
  <2> QED
    BY <2>2, <2>3, <2>4, <2>5, OrchestratorAssumption DEF OrchestratorAssumption
<1>2. IInv /\ OrphanOnlyIfCancelled => Cardinality(Attended) <= MaxConcurrent
  BY <1>1
<1> QED
  BY <1>2, Invariance, OrphansAreCancelled, PTL

\* When the done callback has run, the status is terminal and agrees with how the
\* agent really ended.
THEOREM SettledStatusIsTrue == Spec => []SettledStatusTrue
<1>1. IInv /\ Outcomes => SettledStatusTrue
  BY DEF IInv, Shape, Outcomes, Outcome, SettledStatusTrue
<1>2. QED
  BY <1>1, AlwaysOutcomes, Invariance, PTL

-----------------------------------------------------------------------------
(* Who is alive when stop() returns.                                        *)

\* A task that has ended never comes back, and only submit_job makes one.
LEMMA NobodyRevives ==
  ASSUME IInv, NEW j \in Jobs, NEW k \in Jobs,
         \/ cancel_job(j) \/ Timeout(j) \/ JobStep(j) \/ AgentStep(j)
  PROVE  TaskAlive(k)' => TaskAlive(k)
<1> SUFFICES ASSUME ~TaskAlive(k) PROVE ~TaskAlive(k)'
  OBVIOUS
<1>1. TypeOK /\ pc[k] \in {"none", "finished", "done"}
  BY DEF IInv, TaskAlive
<1>2. ASSUME OthersMayBeGranted(pc, pc', j), j # k
      PROVE  ~TaskAlive(k)'
  BY <1>1, <1>2 DEF OthersMayBeGranted, TaskAlive
<1>3. CASE cancel_job(j) \/ Timeout(j) \/ AgentStep(j)
  BY <1>1, <1>3 DEF cancel_job, Timeout, AgentStep, update_state, AgentReturns,
     AgentCancelled, TaskAlive
<1>4. CASE on_task_done(j) \/ CancelAgent(j)
  <2>1. pc[j] \in {"finished", "running"} /\ \E x \in TaskPhase : pc' = [pc EXCEPT ![j] = x]
        /\ (pc[j] = "finished" => x = "done")
    BY <1>4 DEF on_task_done, CancelAgent, TaskPhase, InBody
  <2>2. QED
    BY <1>1, <2>1 DEF TypeOK, TaskAlive
<1>5. CASE AgentAnswered(j) \/ AgentReaped(j)
  <2>1. pc[j] \in InBody /\ value' = Release(Now, j).value /\ pc' = Release(Now, j).pc
    BY <1>5 DEF AgentAnswered, AgentReaped, Leave, Now, InBody
  <2>2. OthersMayBeGranted(pc, pc', j)
    BY <2>1, HolderLeaves DEF HoldingPhase
  <2>3. QED
    BY <1>1, <1>2, <2>1, <2>2 DEF InBody
<1>6. ASSUME NEW s \in Sem, s.pc[j] = pc[j], j # k,
             OthersMayBeGranted(pc, s.pc, j), EnterBody(j, s)
      PROVE  ~TaskAlive(k)'
  <2>1. CASE pc' = [s.pc EXCEPT ![j] = "running"]
    <3>1. OthersMayBeGranted(pc, pc', j)
      BY <1>6, <2>1 DEF OthersMayBeGranted, Sem
    <3>2. QED
      BY <1>2, <1>6, <3>1
  <2>2. CASE pc' = Release(s, j).pc
    <3>1. OthersMayBeGranted(s.pc, pc', j)
      BY <2>2, ReleaseTotal
    <3>2. OthersMayBeGranted(pc, pc', j)
      BY <1>6, <3>1 DEF OthersMayBeGranted
    <3>3. QED
      BY <1>2, <1>6, <3>2
  <2>3. QED
    BY <1>6, <2>1, <2>2 DEF EnterBody
<1>7. CASE Acquire(j)
  <2>1. j # k
    BY <1>1, <1>7 DEF Acquire
  <2>2. CASE \E x \in {"finished", "waiting"} : pc' = [pc EXCEPT ![j] = x]
    BY <1>1, <2>1, <2>2 DEF TypeOK, TaskAlive
  <2>3. CASE ~Locked /\ EnterBody(j, [value |-> value - 1, pc |-> pc])
    <3> DEFINE s == [value |-> value - 1, pc |-> pc]
    <3>1. s \in Sem /\ s.pc[j] = pc[j] /\ OthersMayBeGranted(pc, s.pc, j)
      BY <1>1, <2>3 DEF Sem, Locked, TypeOK, OthersMayBeGranted
    <3>2. EnterBody(j, s)
      BY <2>3
    <3> HIDE DEF s
    <3>3. QED
      BY <1>6, <2>1, <3>1, <3>2
  <2>4. QED
    BY <1>7, <2>2, <2>3 DEF Acquire
<1>8. CASE Resume(j)
  <2>1. j # k
    BY <1>1, <1>8 DEF Resume
  <2>2. CASE pc' = [pc EXCEPT ![j] = "finished"]
    BY <1>1, <2>1, <2>2 DEF TypeOK, TaskAlive
  <2>3. CASE pc[j] = "granted" /\ value' = Release(Now, j).value /\ pc' = Release(Now, j).pc
    BY <1>2, <2>1, <2>3, HolderLeaves DEF HoldingPhase
  <2>4. CASE pc[j] = "granted" /\ EnterBody(j, IF value > 0 THEN WakeUpNext(Now) ELSE Now)
    <3> DEFINE s == IF value > 0 THEN WakeUpNext(Now) ELSE Now
    <3>0. Now \in Sem /\ Now.value = value /\ Now.pc = pc
      BY NowFacts
    <3>1. s \in Sem /\ s.pc[j] = pc[j] /\ OthersMayBeGranted(pc, s.pc, j)
      <4>1. CASE value > 0
        BY <2>4, <3>0, <4>1, WakeUpNextKeepsTotal DEF OthersMayBeGranted
      <4>2. CASE ~(value > 0)
        BY <3>0, <4>2 DEF OthersMayBeGranted
      <4>3. QED
        BY <4>1, <4>2
    <3>2. EnterBody(j, s)
      BY <2>4
    <3> HIDE DEF s
    <3>3. QED
      BY <1>6, <2>1, <3>1, <3>2
  <2>5. QED
    BY <1>8, <2>2, <2>3, <2>4 DEF Resume, Now
<1>9. QED
  BY <1>3, <1>4, <1>5, <1>7, <1>8 DEF JobStep

\* The tasks of the orchestrator step on their own: control is left alone.
LEMMA TasksKeepControl ==
  ASSUME NEW j \in Jobs,
         \/ cancel_job(j) \/ Timeout(j) \/ JobStep(j) \/ AgentStep(j)
  PROVE  UNCHANGED <<started, stopSet, late>>
BY DEF cancel_job, Timeout, JobStep, Acquire, Resume, EnterBody, AgentAnswered,
   AgentReaped, CancelAgent, Leave, on_task_done, AgentStep, update_state,
   AgentReturns, AgentCancelled, control

LEMMA NextStopInv == IInv /\ StopInv /\ [Next]_vars => StopInv'
<1> SUFFICES ASSUME IInv, StopInv, [Next]_vars PROVE StopInv'
  OBVIOUS
<1> USE DEF StopInv, SnapshotCovers, StopLeavesOnlyLateJobs
<1>1. TypeOK
  BY DEF IInv
<1>2. CASE start
  BY <1>2 DEF start, TaskAlive
<1>3. CASE stop
  BY <1>3 DEF stop, TaskAlive
<1>4. CASE stop_returns
  BY <1>4 DEF stop_returns, TaskAlive
<1>5. ASSUME NEW j \in Jobs, submit_job(j)
      PROVE  StopInv'
  <2>1. started /\ started' = started /\ stopSet' = stopSet
        /\ pc' = [pc EXCEPT ![j] = "created"]
        /\ late \subseteq late' /\ (stopSet # {} => j \in late')
    BY <1>5 DEF submit_job
  <2>2. \A k \in Jobs \ {j} : TaskAlive(k)' => TaskAlive(k)
    BY <1>1, <2>1 DEF TypeOK, TaskAlive
  <2>3. QED
    BY <2>1, <2>2
<1>6. CASE UNCHANGED vars
  BY <1>6 DEF vars, TaskAlive
<1>7. ASSUME NEW j \in Jobs,
             \/ cancel_job(j) \/ Timeout(j) \/ JobStep(j) \/ AgentStep(j)
      PROVE  StopInv'
  <2>1. UNCHANGED <<started, stopSet, late>>
    BY <1>7, TasksKeepControl
  <2>2. \A k \in Jobs : TaskAlive(k)' => TaskAlive(k)
    BY <1>7, NobodyRevives
  <2>3. QED
    BY <2>1, <2>2
<1>8. QED
  BY <1>2, <1>3, <1>4, <1>5, <1>6, <1>7 DEF Next

\* Once stop() has returned, and until start() is called again, the only live
\* tasks are those submit_job accepted while stop() was gathering.
THEOREM StopLeavesOnlyLate == Spec => []StopLeavesOnlyLateJobs
<1>1. Init => StopInv
  BY DEF Init, StopInv, SnapshotCovers, StopLeavesOnlyLateJobs, TaskAlive
<1>2. StopInv => StopLeavesOnlyLateJobs
  BY DEF StopInv
<1>3. QED
  BY <1>1, <1>2, NextStopInv, Invariance, PTL DEF Spec

-----------------------------------------------------------------------------
(* The order of the queue.                                                  *)

\* Of live waiters one is first: among them, take the waiter with the fewest
\* live waiters ahead of it.
LEMMA SomebodyIsFirst ==
  ASSUME NEW p \in [Jobs -> TaskPhase], QueueOrdered(p), LiveWaiters(p) # {}
  PROVE  FirstWaiters(p) # {}
<1> DEFINE L == LiveWaiters(p)
           A(k) == ahead[k] \cap L
           T == {A(k) : k \in L}
<1>1. L \subseteq Jobs /\ \A k \in L : p[k] = "waiting"
  BY DEF LiveWaiters
<1>2. IsFiniteSet(Jobs)
  BY OrchestratorAssumption DEF OrchestratorAssumption
<1>3. IsWellFoundedOn(StrictSubsetOrdering(Jobs), FiniteSubsetsOf(Jobs))
  BY FS_StrictSubsetOrderingWellFounded
<1>4. T \subseteq FiniteSubsetsOf(Jobs) /\ T # {}
  <2>1. \A S \in SUBSET Jobs : IsFiniteSet(S)
    BY <1>2, FS_Subset
  <2>2. QED
    BY <1>1, <2>1 DEF FiniteSubsetsOf
<1>5. PICK x \in T : \A y \in T : ~(<<y, x>> \in StrictSubsetOrdering(Jobs))
  BY <1>3, <1>4, WFMin
<1>6. PICK k \in L : x = A(k)
  OBVIOUS
<1>7. ASSUME NEW m \in A(k)
      PROVE  FALSE
  <2>1. m \in L /\ m \in ahead[k] /\ k \in Jobs /\ p[k] = "waiting"
    BY <1>1
  <2>2. A(m) \subseteq A(k)
    BY <1>1, <2>1 DEF QueueOrdered
  <2>3. m \notin A(m) /\ m \in A(k)
    BY <1>1, <1>7, <2>1 DEF QueueOrdered
  <2>4. A(m) \subseteq Jobs /\ A(k) \subseteq Jobs
    BY <1>1
  <2>5. <<A(m), A(k)>> \in StrictSubsetOrdering(Jobs)
    BY <2>2, <2>3, <2>4 DEF StrictSubsetOrdering
  <2>6. QED
    BY <1>5, <1>6, <2>1, <2>5
<1>8. k \in FirstWaiters(p)
  BY <1>6, <1>7 DEF FirstWaiters
<1>9. QED
  BY <1>8

\* _wake_up_next() leaves a granted task if anybody waits for the permit, and does
\* nothing otherwise.
LEMMA WakeUpNextGrants ==
  ASSUME NEW s \in Sem, QueueOrdered(s.pc)
  PROVE  /\ LiveWaiters(s.pc) # {} => \E k \in Jobs : /\ s.pc[k] = "waiting"
                                                      /\ WakeUpNext(s).pc[k] = "granted"
         /\ LiveWaiters(s.pc) = {} => WakeUpNext(s) = s
<1>1. s.pc \in [Jobs -> TaskPhase]
  BY DEF Sem
<1>2. ASSUME LiveWaiters(s.pc) # {}
      PROVE  \E k \in Jobs : /\ s.pc[k] = "waiting"
                             /\ WakeUpNext(s).pc[k] = "granted"
  <2> DEFINE k == CHOOSE w \in FirstWaiters(s.pc) : TRUE
  <2>1. FirstWaiters(s.pc) # {}
    BY <1>1, <1>2, SomebodyIsFirst
  <2>2. k \in Jobs /\ s.pc[k] = "waiting"
    BY <2>1 DEF FirstWaiters, LiveWaiters
  <2>3. WakeUpNext(s) = [value |-> s.value - 1, pc |-> [s.pc EXCEPT ![k] = "granted"]]
    BY <2>1 DEF WakeUpNext
  <2> HIDE DEF k
  <2>4. WakeUpNext(s).pc[k] = "granted"
    BY <1>1, <2>2, <2>3
  <2>5. QED
    BY <2>2, <2>4
<1>3. LiveWaiters(s.pc) = {} => WakeUpNext(s) = s
  BY DEF WakeUpNext, FirstWaiters
<1>4. QED
  BY <1>2, <1>3

\* The order of the queue outlives a step in which tasks only leave the queue.
LEMMA OrderOutlives ==
  ASSUME NEW p, NEW q, NEW j \in Jobs, ahead \in [Jobs -> SUBSET Jobs],
         QueueOrdered(p), OthersMayBeGranted(p, q, j),
         q[j] \notin {"none", "created", "waiting"} \/ q[j] = p[j]
  PROVE  QueueOrdered(q)
<1> SUFFICES ASSUME NEW i \in Jobs, q[i] = "waiting"
             PROVE  /\ i \notin ahead[i]
                    /\ \A k \in ahead[i] :
                         /\ q[k] \notin {"none", "created"}
                         /\ q[k] = "waiting" =>
                              \A m \in ahead[k] : q[m] = "waiting" => m \in ahead[i]
  BY DEF QueueOrdered
<1>1. \A k \in Jobs : /\ q[k] = "waiting" => p[k] = "waiting"
                      /\ q[k] \in {"none", "created"} => q[k] = p[k]
  BY DEF OthersMayBeGranted
<1>2. p[i] = "waiting"
  BY <1>1
<1>3. QED
  BY <1>1, <1>2 DEF QueueOrdered

\* The same for a step, which may also empty the record of the task that leaves.
LEMMA OrderAfterStep ==
  ASSUME IInv, QueueOrdered(pc), NEW j \in Jobs, OthersMayBeGranted(pc, pc', j),
         pc'[j] \notin {"none", "created", "waiting"},
         \A k \in Jobs \ {j} : ahead'[k] = ahead[k]
  PROVE  QueueOrdered(pc)'
<1>1. QueueOrdered(pc') /\ ahead \in [Jobs -> SUBSET Jobs]
  BY OrderOutlives DEF IInv, TypeOK
<1>2. QED
  BY <1>1 DEF QueueOrdered

\* release() serves the queue: somebody is granted, or nobody alive waits.
LEMMA ReleaseServes ==
  ASSUME IInv, NEW s \in Sem, NEW j \in Jobs, QueueOrdered(s.pc)
  PROVE  \/ \E k \in Jobs : Release(s, j).pc[k] = "granted"
         \/ LiveWaiters(Release(s, j).pc) = {}
<1> DEFINE t == [value |-> s.value + 1, pc |-> [s.pc EXCEPT ![j] = "finished"]]
<1>1. s.value \in Nat /\ s.pc \in [Jobs -> TaskPhase]
  BY DEF Sem
<1>2. t \in Sem
  BY <1>1 DEF Sem, TaskPhase
<1>3. OthersMayBeGranted(s.pc, t.pc, j) /\ t.pc[j] = "finished"
  BY <1>1 DEF OthersMayBeGranted
<1>4. QueueOrdered(t.pc)
  BY <1>3, OrderOutlives DEF IInv, TypeOK
<1>5. Release(s, j) = WakeUpNext(t)
  BY DEF Release
<1> HIDE DEF t
<1>6. QED
  BY <1>2, <1>4, <1>5, WakeUpNextGrants

\* A step that leaves somebody granted, no free permit or no live waiter is safe.
LEMMA ServedIsNoIdleSlot ==
  ASSUME \/ value' = 0
         \/ \E k \in Jobs : pc'[k] = "granted"
         \/ \A k \in Jobs : pc'[k] = "waiting" => cancelFlag'[k]
  PROVE  NoIdleSlot'
BY DEF NoIdleSlot, LiveWaiters

LEMMA EnterBodyQueue ==
  ASSUME IInv, NEW j \in Jobs, NEW s \in Sem, QueueOrdered(pc),
         pc[j] \in {"created", "granted"}, s.pc[j] = pc[j],
         OthersMayBeGranted(pc, s.pc, j), EnterBody(j, s),
         \/ s.value = 0
         \/ \E k \in Jobs \ {j} : s.pc[k] = "granted"
         \/ LiveWaiters(s.pc) = {},
         \A k \in Jobs \ {j} : ahead'[k] = ahead[k]
  PROVE  QueueInv'
<1>1. s.pc \in [Jobs -> TaskPhase] /\ ahead \in [Jobs -> SUBSET Jobs]
  BY DEF Sem, IInv, TypeOK
<1>2. QueueOrdered(s.pc)
  BY <1>1, OrderOutlives
<1>3. CASE value' = s.value /\ pc' = [s.pc EXCEPT ![j] = "running"] /\ UNCHANGED cancelFlag
  <2>1. pc'[j] = "running" /\ OthersMayBeGranted(pc, pc', j)
    BY <1>1, <1>3 DEF OthersMayBeGranted
  <2>2. QueueOrdered(pc)'
    BY <2>1, OrderAfterStep
  <2>3. \A k \in Jobs \ {j} : pc'[k] = s.pc[k]
    BY <1>1, <1>3
  <2>4. NoIdleSlot'
    <3>1. CASE s.value = 0
      BY <1>3, <3>1, ServedIsNoIdleSlot
    <3>2. CASE \E k \in Jobs \ {j} : s.pc[k] = "granted"
      BY <2>3, <3>2, ServedIsNoIdleSlot
    <3>3. CASE LiveWaiters(s.pc) = {}
      <4>1. \A k \in Jobs : pc'[k] = "waiting" => cancelFlag'[k]
        BY <1>3, <2>1, <2>3, <3>3 DEF LiveWaiters
      <4>2. QED
        BY <4>1, ServedIsNoIdleSlot
    <3>4. QED
      BY <3>1, <3>2, <3>3
  <2>5. QED
    BY <2>2, <2>4 DEF QueueInv
<1>4. CASE pc' = Release(s, j).pc /\ UNCHANGED cancelFlag
  <2>1. pc'[j] = "finished" /\ OthersMayBeGranted(s.pc, pc', j)
    BY <1>4, ReleaseTotal
  <2>2. OthersMayBeGranted(pc, pc', j)
    BY <2>1 DEF OthersMayBeGranted
  <2>3. QueueOrdered(pc)'
    BY <2>1, <2>2, OrderAfterStep
  <2>4. \/ \E k \in Jobs : pc'[k] = "granted"
        \/ LiveWaiters(pc') = {}
    BY <1>2, <1>4, ReleaseServes
  <2>5. NoIdleSlot'
    BY <1>4, <2>4, ServedIsNoIdleSlot DEF LiveWaiters
  <2>6. QED
    BY <2>3, <2>5 DEF QueueInv
<1>5. QED
  BY <1>3, <1>4 DEF EnterBody

LEMMA AcquireQueue ==
  ASSUME IInv, QueueInv, NEW j \in Jobs, Acquire(j)
  PROVE  QueueInv'
<1>1. TypeOK /\ QueueOrdered(pc) /\ NoIdleSlot /\ pc[j] = "created"
  BY DEF IInv, QueueInv, Acquire
<1>2. CASE pc' = [pc EXCEPT ![j] = "finished"] /\ UNCHANGED <<cancelFlag, value, ahead>>
  <2>1. pc'[j] = "finished" /\ OthersMayBeGranted(pc, pc', j)
    BY <1>1, <1>2 DEF TypeOK, OthersMayBeGranted
  <2>2. QueueOrdered(pc)'
    BY <1>1, <1>2, <2>1, OrderAfterStep
  <2>3. NoIdleSlot'
    BY <1>1, <1>2 DEF TypeOK, NoIdleSlot, LiveWaiters
  <2>4. QED
    BY <2>2, <2>3 DEF QueueInv
<1>3. CASE /\ Locked
           /\ pc' = [pc EXCEPT ![j] = "waiting"]
           /\ ahead' = [ahead EXCEPT ![j] = {k \in Jobs : pc[k] = "waiting"}]
           /\ UNCHANGED <<cancelFlag, value>>
  <2>1. QueueOrdered(pc)'
    <3>1. \A k \in Jobs : /\ pc'[k] = (IF k = j THEN "waiting" ELSE pc[k])
                          /\ k # j => ahead'[k] = ahead[k]
      BY <1>1, <1>3 DEF TypeOK
    <3>2. ahead'[j] = {k \in Jobs : pc[k] = "waiting"}
      BY <1>1, <1>3 DEF TypeOK
    <3>3. \A k \in Jobs : pc[k] = "waiting" => j \notin ahead[k] /\ ahead[k] \subseteq Jobs
      BY <1>1 DEF QueueOrdered, TypeOK
    <3>4. ASSUME NEW i \in Jobs, pc'[i] = "waiting"
          PROVE  /\ i \notin ahead'[i]
                 /\ \A k \in ahead'[i] :
                      /\ pc'[k] \notin {"none", "created"}
                      /\ pc'[k] = "waiting" =>
                           \A m \in ahead'[k] : pc'[m] = "waiting" => m \in ahead'[i]
      <4>1. CASE i = j
        BY <1>1, <3>1, <3>2, <3>3, <4>1
      <4>2. CASE i # j
        <5>1. pc[i] = "waiting" /\ ahead'[i] = ahead[i] /\ j \notin ahead[i]
          BY <3>1, <3>3, <3>4, <4>2
        <5>2. ASSUME NEW k \in ahead[i]
              PROVE  /\ k \in Jobs /\ k # j /\ pc'[k] = pc[k] /\ ahead'[k] = ahead[k]
                     /\ pc[k] \notin {"none", "created"}
          BY <1>1, <3>1, <3>3, <5>1 DEF QueueOrdered
        <5>3. ASSUME NEW k \in ahead[i], pc[k] = "waiting", NEW m \in ahead[k],
                     pc'[m] = "waiting"
              PROVE  m \in ahead[i]
          <6>1. k \in Jobs
            BY <5>2
          <6>2. m \in Jobs /\ m # j
            BY <3>3, <5>3, <6>1
          <6>3. pc[m] = "waiting"
            BY <3>1, <5>3, <6>2
          <6>4. QED
            BY <1>1, <5>1, <5>3, <6>3 DEF QueueOrdered
        <5>4. i \notin ahead[i]
          BY <1>1, <5>1 DEF QueueOrdered
        <5>5. QED
          BY <5>1, <5>2, <5>3, <5>4
      <4>3. QED
        BY <4>1, <4>2
    <3>5. QED
      BY <3>4 DEF QueueOrdered
  <2>2. NoIdleSlot'
    <3>1. CASE value = 0
      BY <1>3, <3>1, ServedIsNoIdleSlot
    <3>2. CASE \E k \in Jobs : pc[k] = "granted"
      BY <1>1, <1>3, <3>2, ServedIsNoIdleSlot DEF TypeOK
    <3>3. CASE value # 0 /\ LiveWaiters(pc) # {}
      <4>1. \E k \in Jobs : pc[k] = "granted"
        BY <1>1, <3>3 DEF NoIdleSlot, TypeOK
      <4>2. QED
        BY <3>2, <4>1
    <3>4. QED
      BY <1>3, <3>1, <3>2, <3>3 DEF Locked
  <2>3. QED
    BY <2>1, <2>2 DEF QueueInv
<1>4. CASE ~Locked /\ EnterBody(j, [value |-> value - 1, pc |-> pc]) /\ UNCHANGED ahead
  <2> DEFINE s == [value |-> value - 1, pc |-> pc]
  <2>1. s \in Sem /\ s.pc = pc /\ OthersMayBeGranted(pc, s.pc, j)
    BY <1>1, <1>4 DEF Sem, Locked, TypeOK, OthersMayBeGranted
  <2>2. EnterBody(j, s)
    BY <1>4
  <2>3. LiveWaiters(s.pc) = {}
    BY <1>4, <2>1 DEF Locked
  <2> HIDE DEF s
  <2>4. QED
    BY <1>1, <1>4, <2>1, <2>2, <2>3, EnterBodyQueue
<1>5. QED
  BY <1>2, <1>3, <1>4 DEF Acquire

LEMMA ResumeQueue ==
  ASSUME IInv, QueueInv, NEW j \in Jobs, Resume(j)
  PROVE  QueueInv'
<1>1. TypeOK /\ QueueOrdered(pc) /\ NoIdleSlot
  BY DEF IInv, QueueInv
<1>2. \A k \in Jobs \ {j} : ahead'[k] = ahead[k]
  BY <1>1 DEF Resume, TypeOK
<1>3. Now \in Sem /\ Now.value = value /\ Now.pc = pc
  BY NowFacts
<1>4. CASE pc[j] = "waiting" /\ cancelFlag[j] /\ pc' = [pc EXCEPT ![j] = "finished"]
           /\ UNCHANGED <<cancelFlag, value>>
  <2>1. pc'[j] = "finished" /\ OthersMayBeGranted(pc, pc', j)
    BY <1>1, <1>4 DEF TypeOK, OthersMayBeGranted
  <2>2. QueueOrdered(pc)'
    BY <1>1, <1>2, <2>1, OrderAfterStep
  <2>3. NoIdleSlot'
    BY <1>1, <1>4 DEF TypeOK, NoIdleSlot, LiveWaiters
  <2>4. QED
    BY <2>2, <2>3 DEF QueueInv
<1>5. CASE pc[j] = "granted" /\ UNCHANGED cancelFlag
           /\ value' = Release(Now, j).value /\ pc' = Release(Now, j).pc
  <2>1. pc'[j] = "finished" /\ OthersMayBeGranted(pc, pc', j)
    BY <1>5, HolderLeaves DEF HoldingPhase
  <2>2. QueueOrdered(pc)'
    BY <1>1, <1>2, <2>1, OrderAfterStep
  <2>3. \/ \E k \in Jobs : pc'[k] = "granted"
        \/ LiveWaiters(pc') = {}
    BY <1>1, <1>3, <1>5, ReleaseServes
  <2>4. NoIdleSlot'
    BY <1>5, <2>3, ServedIsNoIdleSlot DEF LiveWaiters
  <2>5. QED
    BY <2>2, <2>4 DEF QueueInv
<1>6. CASE pc[j] = "granted" /\ EnterBody(j, IF value > 0 THEN WakeUpNext(Now) ELSE Now)
  <2> DEFINE s == IF value > 0 THEN WakeUpNext(Now) ELSE Now
  <2>1. /\ s \in Sem /\ s.pc[j] = pc[j] /\ OthersMayBeGranted(pc, s.pc, j)
        /\ \/ s.value = 0
           \/ \E k \in Jobs \ {j} : s.pc[k] = "granted"
           \/ LiveWaiters(s.pc) = {}
    <3>1. CASE value > 0
      <4>1. s \in Sem /\ s.pc[j] = pc[j] /\ OthersMayBeGranted(pc, s.pc, j)
        BY <1>3, <1>6, <3>1, WakeUpNextKeepsTotal DEF OthersMayBeGranted
      <4>2. CASE LiveWaiters(pc) # {}
        BY <1>1, <1>3, <1>6, <3>1, <4>1, <4>2, WakeUpNextGrants
      <4>3. CASE LiveWaiters(pc) = {}
        BY <1>1, <1>3, <3>1, <4>1, <4>3, WakeUpNextGrants
      <4>4. QED
        BY <4>2, <4>3
    <3>2. CASE ~(value > 0)
      BY <1>1, <1>3, <3>2 DEF OthersMayBeGranted, TypeOK
    <3>3. QED
      BY <3>1, <3>2
  <2>2. EnterBody(j, s)
    BY <1>6
  <2> HIDE DEF s
  <2>3. QED
    BY <1>1, <1>2, <1>6, <2>1, <2>2, EnterBodyQueue
<1>7. QED
  BY <1>4, <1>5, <1>6 DEF Resume, Now

LEMMA LeaveQueue ==
  ASSUME IInv, QueueInv, NEW j \in Jobs, pc[j] \in InBody, NEW st, NEW c,
         Leave(j, st, c)
  PROVE  QueueInv'
<1>1. TypeOK /\ QueueOrdered(pc) /\ Now \in Sem /\ Now.pc = pc
  BY NowFacts DEF IInv, QueueInv
<1>2. /\ value' = Release(Now, j).value /\ pc' = Release(Now, j).pc
      /\ cancelFlag' = [cancelFlag EXCEPT ![j] = c] /\ ahead' = ahead
  BY DEF Leave, Now
<1>3. pc'[j] = "finished" /\ OthersMayBeGranted(pc, pc', j)
  BY <1>2, HolderLeaves DEF HoldingPhase
<1>4. QueueOrdered(pc)'
  BY <1>1, <1>2, <1>3, OrderAfterStep
<1>5. \/ \E k \in Jobs : pc'[k] = "granted"
      \/ LiveWaiters(pc') = {}
  BY <1>1, <1>2, ReleaseServes
<1>6. \A k \in Jobs \ {j} : cancelFlag'[k] = cancelFlag[k]
  BY <1>1, <1>2 DEF TypeOK
<1>7. NoIdleSlot'
  BY <1>3, <1>5, <1>6, ServedIsNoIdleSlot DEF LiveWaiters
<1>8. QED
  BY <1>4, <1>7 DEF QueueInv

\* Steps outside the semaphore: cancelling only takes live waiters away.
LEMMA OtherStepsQueue ==
  ASSUME IInv, QueueInv,
         \/ start \/ stop \/ stop_returns \/ UNCHANGED vars
         \/ \E j \in Jobs : \/ submit_job(j) \/ cancel_job(j) \/ Timeout(j)
                            \/ on_task_done(j) \/ CancelAgent(j) \/ AgentStep(j)
  PROVE  QueueInv'
<1>1. TypeOK /\ QueueOrdered(pc) /\ NoIdleSlot
  BY DEF IInv, QueueInv
<1>2. ASSUME UNCHANGED <<pc, value, ahead>>,
             \A k \in Jobs : pc[k] = "waiting" /\ cancelFlag[k] => cancelFlag'[k]
      PROVE  QueueInv'
  <2>1. QueueOrdered(pc)'
    BY <1>1, <1>2 DEF QueueOrdered
  <2>2. LiveWaiters(pc)' \subseteq LiveWaiters(pc)
    BY <1>2 DEF LiveWaiters
  <2>3. NoIdleSlot'
    BY <1>1, <1>2, <2>2 DEF NoIdleSlot
  <2>4. QED
    BY <2>1, <2>3 DEF QueueInv
<1>3. CASE start \/ stop \/ stop_returns \/ UNCHANGED vars
  BY <1>1, <1>2, <1>3 DEF start, stop, stop_returns, vars, TypeOK
<1>4. ASSUME NEW j \in Jobs, cancel_job(j) \/ Timeout(j) \/ AgentStep(j)
      PROVE  QueueInv'
  BY <1>1, <1>2, <1>4 DEF cancel_job, Timeout, AgentStep, update_state, AgentReturns,
     AgentCancelled, TypeOK
<1>5. ASSUME NEW j \in Jobs, submit_job(j) \/ on_task_done(j) \/ CancelAgent(j)
      PROVE  QueueInv'
  <2>1. PICK x \in TaskPhase \ {"none", "waiting", "granted"} :
          /\ pc' = [pc EXCEPT ![j] = x] /\ pc[j] \notin {"waiting", "granted"}
          /\ x = "created" => pc[j] = "none"
    BY <1>5 DEF submit_job, on_task_done, CancelAgent, TaskPhase, InBody
  <2>2. UNCHANGED <<value, ahead>> /\ \A k \in Jobs \ {j} : cancelFlag'[k] = cancelFlag[k]
    BY <1>1, <1>5 DEF submit_job, on_task_done, CancelAgent, TypeOK
  <2>3. \A k \in Jobs : /\ pc'[k] \in {"waiting", "granted"} <=> pc[k] \in {"waiting", "granted"}
                        /\ pc[k] \in {"waiting", "granted"} => k # j /\ pc'[k] = pc[k]
                        /\ pc'[k] \in {"none", "created"} => pc[k] \in {"none", "created"}
    BY <1>1, <2>1 DEF TypeOK
  <2>4. QueueOrdered(pc)'
    BY <1>1, <2>2, <2>3 DEF QueueOrdered, TypeOK
  <2>5. LiveWaiters(pc)' \subseteq LiveWaiters(pc)
    BY <2>2, <2>3 DEF LiveWaiters
  <2>6. NoIdleSlot'
    BY <1>1, <2>2, <2>3, <2>5 DEF NoIdleSlot
  <2>7. QED
    BY <2>4, <2>6 DEF QueueInv
<1>6. QED
  BY <1>3, <1>4, <1>5

LEMMA NextQueueInv == IInv /\ QueueInv /\ [Next]_vars => QueueInv'
<1> SUFFICES ASSUME IInv, QueueInv, [Next]_vars PROVE QueueInv'
  OBVIOUS
<1>1. ASSUME NEW j \in Jobs, Acquire(j) \/ Resume(j) PROVE QueueInv'
  BY <1>1, AcquireQueue, ResumeQueue
<1>2. ASSUME NEW j \in Jobs, AgentAnswered(j) \/ AgentReaped(j) PROVE QueueInv'
  BY <1>2, LeaveQueue DEF AgentAnswered, AgentReaped, InBody
<1>3. QED
  BY <1>1, <1>2, OtherStepsQueue DEF Next, JobStep

\* A free slot and a live waiter coexist only while a granted task, which will pass
\* the permit on, has yet to resume.
THEOREM NoSlotIsIdle == Spec => []NoIdleSlot
<1>1. Init => QueueInv
  BY DEF Init, QueueInv, QueueOrdered, NoIdleSlot, LiveWaiters
<1>2. QueueInv => NoIdleSlot
  BY DEF QueueInv
<1>3. QED
  BY <1>1, <1>2, NextQueueInv, Invariance, PTL DEF Spec

=============================================================================
