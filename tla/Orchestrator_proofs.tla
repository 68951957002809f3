------------------------- MODULE Orchestrator_proofs -------------------------
(***************************************************************************)
(* Theorems about Orchestrator for every finite set of jobs and every      *)
(* number of slots: its types, the conservation of the semaphore's         *)
(* permits, the bound on running jobs, and that it implements the safety   *)
(* part of JobLifecycle.                                                   *)
(***************************************************************************)
EXTENDS Orchestrator, FiniteSetTheorems, TLAPS

Sem == [value : Nat, pc : [Jobs -> TaskPhase]]
HoldingPhase == {"granted"} \cup InBody
Total(s) == s.value + Cardinality(HoldersIn(s.pc))

\* How the phases of the other tasks may change when one task takes a step:
\* _wake_up_next may hand a permit to a waiter, nothing else.
OthersMayBeGranted(p, q, j) ==
  \A k \in Jobs \ {j} : q[k] = p[k] \/ (p[k] = "waiting" /\ q[k] = "granted")

\* Where a job is determines what its status, state and agent can be.
Shape(j) ==
  /\ pc[j] = "none" <=> status[j] = "NONE"
  /\ pc[j] \in {"none", "created", "waiting", "granted"} => state[j] = "None" /\ agent[j] = "none"
  /\ pc[j] = "none" => ~cancelFlag[j]
  /\ pc[j] \in {"created", "waiting", "granted"} =>
       status[j] = "QUEUED" \/ (status[j] = "CANCELLED" /\ cancelFlag[j])
  /\ pc[j] \in InBody => status[j] \in {"RUNNING", "CANCELLED"} /\ agent[j] # "none"
  /\ pc[j] = "finished" =>
       \/ status[j] \in TerminalStatus /\ (cancelFlag[j] => status[j] = "CANCELLED")
       \/ status[j] = "QUEUED" /\ cancelFlag[j] /\ state[j] = "None" 
  /\ pc[j] \in {"finished", "done"} /\ state[j] = "None" =>
       status[j] \in {"QUEUED", "CANCELLED"} /\ agent[j] = "none"
  /\ pc[j] = "done" => status[j] \in TerminalStatus

IInv == TypeOK /\ PermitsConserved /\ \A j \in Jobs : Shape(j)

-----------------------------------------------------------------------------
(* The semaphore.                                                           *)

LEMMA HoldersFinite ==
  ASSUME NEW p \in [Jobs -> TaskPhase]
  PROVE  /\ IsFiniteSet(HoldersIn(p))
         /\ Cardinality(HoldersIn(p)) \in Nat
<1>1. HoldersIn(p) \subseteq Jobs
  BY DEF HoldersIn
<1>2. IsFiniteSet(HoldersIn(p))
  BY <1>1, FS_Subset, OrchestratorAssumption DEF OrchestratorAssumption
<1>3. QED
  BY <1>2, FS_CardinalityType

\* One task changes phase: what that does to the number of permit holders.
LEMMA PhaseChange ==
  ASSUME NEW p \in [Jobs -> TaskPhase], NEW j \in Jobs, NEW x \in TaskPhase
  PROVE  LET q == [p EXCEPT ![j] = x] IN
         /\ q \in [Jobs -> TaskPhase]
         /\ p[j] \notin HoldingPhase /\ x \in HoldingPhase =>
              Cardinality(HoldersIn(q)) = Cardinality(HoldersIn(p)) + 1
         /\ p[j] \in HoldingPhase /\ x \notin HoldingPhase =>
              Cardinality(HoldersIn(q)) = Cardinality(HoldersIn(p)) - 1
         /\ (p[j] \in HoldingPhase <=> x \in HoldingPhase) =>
              Cardinality(HoldersIn(q)) = Cardinality(HoldersIn(p))
<1> DEFINE q == [p EXCEPT ![j] = x]
<1>1. q \in [Jobs -> TaskPhase]
  OBVIOUS
<1>2. ASSUME p[j] \notin HoldingPhase, x \in HoldingPhase
      PROVE  Cardinality(HoldersIn(q)) = Cardinality(HoldersIn(p)) + 1
  <2>1. HoldersIn(q) = HoldersIn(p) \cup {j} /\ j \notin HoldersIn(p)
    BY <1>2 DEF HoldersIn, HoldingPhase
  <2>2. QED
    BY <2>1, HoldersFinite, FS_AddElement
<1>3. ASSUME p[j] \in HoldingPhase, x \notin HoldingPhase
      PROVE  Cardinality(HoldersIn(q)) = Cardinality(HoldersIn(p)) - 1
  <2>1. HoldersIn(q) = HoldersIn(p) \ {j} /\ j \in HoldersIn(p)
    BY <1>3 DEF HoldersIn, HoldingPhase
  <2>2. QED
    BY <2>1, HoldersFinite, FS_RemoveElement
<1>4. ASSUME p[j] \in HoldingPhase <=> x \in HoldingPhase
      PROVE  Cardinality(HoldersIn(q)) = Cardinality(HoldersIn(p))
  <2>1. HoldersIn(q) = HoldersIn(p)
    BY <1>4 DEF HoldersIn, HoldingPhase
  <2>2. QED
    BY <2>1
<1>5. QED
  BY <1>1, <1>2, <1>3, <1>4

\* _wake_up_next hands a permit on without creating or losing one.
LEMMA WakeUpNextKeepsTotal ==
  ASSUME NEW s \in Sem, s.value > 0
  PROVE  /\ WakeUpNext(s) \in Sem
         /\ Total(WakeUpNext(s)) = Total(s)
         /\ \A k \in Jobs : \/ WakeUpNext(s).pc[k] = s.pc[k]
                            \/ s.pc[k] = "waiting" /\ WakeUpNext(s).pc[k] = "granted"
<1>1. CASE FirstWaiters(s.pc) = {}
  BY <1>1 DEF WakeUpNext
<1>2. CASE FirstWaiters(s.pc) # {}
  <2> DEFINE k == CHOOSE w \in FirstWaiters(s.pc) : TRUE
  <2>1. k \in Jobs /\ s.pc[k] = "waiting"
    BY <1>2 DEF FirstWaiters, LiveWaiters
  <2>2. WakeUpNext(s) = [value |-> s.value - 1, pc |-> [s.pc EXCEPT ![k] = "granted"]]
    BY <1>2 DEF WakeUpNext
  <2> HIDE DEF k
  <2>3. s.value \in Nat /\ s.pc \in [Jobs -> TaskPhase]
    BY DEF Sem
  <2>4. "granted" \in TaskPhase /\ "granted" \in HoldingPhase /\ "waiting" \notin HoldingPhase
    BY DEF TaskPhase, HoldingPhase, InBody
  <2>5. /\ [s.pc EXCEPT ![k] = "granted"] \in [Jobs -> TaskPhase]
        /\ Cardinality(HoldersIn([s.pc EXCEPT ![k] = "granted"])) = Cardinality(HoldersIn(s.pc)) + 1
    BY <2>1, <2>3, <2>4, PhaseChange
  <2>6. WakeUpNext(s) \in Sem
    BY <2>2, <2>3, <2>5 DEF Sem
  <2>7. Total(WakeUpNext(s)) = Total(s)
    BY <2>2, <2>3, <2>5, HoldersFinite DEF Total
  <2>8. QED
    BY <2>1, <2>2, <2>3, <2>6, <2>7
<1>3. QED
  BY <1>1, <1>2

\* release() by task j returns one permit if j did not hold one in the phases of
\* s (it was about to take it), none otherwise; it ends the task and touches
\* nobody else except a waiter it hands the permit to.
LEMMA ReleaseTotal ==
  ASSUME NEW s \in Sem, NEW j \in Jobs
  PROVE  /\ Release(s, j) \in Sem
         /\ Total(Release(s, j)) =
              IF s.pc[j] \in HoldingPhase THEN Total(s) ELSE Total(s) + 1
         /\ Release(s, j).pc[j] = "finished"
         /\ OthersMayBeGranted(s.pc, Release(s, j).pc, j)
<1> DEFINE t == [value |-> s.value + 1, pc |-> [s.pc EXCEPT ![j] = "finished"]]
<1>1. s.value \in Nat /\ s.pc \in [Jobs -> TaskPhase]
  BY DEF Sem
<1>2. "finished" \in TaskPhase /\ "finished" \notin HoldingPhase
  BY DEF TaskPhase, HoldingPhase, InBody
<1>3. /\ [s.pc EXCEPT ![j] = "finished"] \in [Jobs -> TaskPhase]
      /\ Cardinality(HoldersIn([s.pc EXCEPT ![j] = "finished"])) =
           IF s.pc[j] \in HoldingPhase THEN Cardinality(HoldersIn(s.pc)) - 1
                                       ELSE Cardinality(HoldersIn(s.pc))
  BY <1>1, <1>2, PhaseChange
<1>4. t \in Sem /\ t.value > 0 /\ t.pc[j] = "finished"
  BY <1>1, <1>3 DEF Sem
<1>5. Total(t) = IF s.pc[j] \in HoldingPhase THEN Total(s) ELSE Total(s) + 1
  BY <1>1, <1>3, HoldersFinite DEF Total
<1>6. \A k \in Jobs \ {j} : t.pc[k] = s.pc[k]
  BY <1>1
<1>7. Release(s, j) = WakeUpNext(t)
  BY DEF Release
<1> HIDE DEF t
<1>8. QED
  BY <1>4, <1>5, <1>6, <1>7, WakeUpNextKeepsTotal DEF OthersMayBeGranted

-----------------------------------------------------------------------------
(* The inductive invariant.                                                 *)

\* The current value and phases, as the record the semaphore operators take.
Now == [value |-> value, pc |-> pc]

LEMMA NowFacts ==
  ASSUME IInv
  PROVE  Now \in Sem /\ Now.value = value /\ Now.pc = pc /\ Total(Now) = MaxConcurrent
BY DEF Now, Sem, Total, IInv, TypeOK, PermitsConserved

\* A task that takes no part in a step keeps its shape.
LEMMA OthersKeepShape ==
  ASSUME NEW j \in Jobs, NEW k \in Jobs \ {j}, Shape(k),
         OthersMayBeGranted(pc, pc', j),
         status'[k] = status[k], state'[k] = state[k],
         agent'[k] = agent[k], cancelFlag'[k] = cancelFlag[k]
  PROVE  Shape(k)'
<1>1. CASE pc'[k] = pc[k]
  BY <1>1 DEF Shape
<1>2. CASE pc[k] = "waiting" /\ pc'[k] = "granted"
  BY <1>2 DEF Shape, InBody
<1>3. QED
  BY <1>1, <1>2 DEF OthersMayBeGranted

LEMMA InitIInv == Init => IInv
<1> SUFFICES ASSUME Init PROVE IInv
  OBVIOUS
<1>1. TypeOK
  BY OrchestratorAssumption DEF Init, TypeOK, OrchestratorAssumption, Status,
     ReportedState, TaskPhase, AgentPhase
<1>2. HoldersIn(pc) = {}
  BY DEF Init, HoldersIn, InBody
<1>3. PermitsConserved
  BY <1>2, FS_EmptySet, OrchestratorAssumption
     DEF Init, PermitsConserved, OrchestratorAssumption
<1>4. \A j \in Jobs : Shape(j)
  BY DEF Init, Shape, InBody
<1>5. QED
  BY <1>1, <1>3, <1>4 DEF IInv

\* Steps that move no permit: the phases of the holders are those before.
LEMMA PublicStep ==
  ASSUME IInv, start \/ stop \/ stop_returns
  PROVE  IInv'
<1>1. TypeOK'
  BY DEF IInv, TypeOK, start, stop, stop_returns
<1>2. PermitsConserved'
  BY DEF IInv, PermitsConserved, HoldersIn, start, stop, stop_returns
<1>3. \A j \in Jobs : Shape(j)'
  BY DEF IInv, TypeOK, Shape, start, stop, stop_returns, TaskAlive
<1>4. QED
  BY <1>1, <1>2, <1>3 DEF IInv

\* A step of job j that moves its phase from p to x, neither of them holding a
\* permit or both of them, leaves the permits alone.
LEMMA QuietPhaseChange ==
  ASSUME IInv, NEW j \in Jobs, NEW x \in TaskPhase,
         pc[j] \in HoldingPhase <=> x \in HoldingPhase,
         pc' = [pc EXCEPT ![j] = x], value' = value
  PROVE  PermitsConserved'
<1>1. pc \in [Jobs -> TaskPhase]
  BY DEF IInv, TypeOK
<1>2. Cardinality(HoldersIn([pc EXCEPT ![j] = x])) = Cardinality(HoldersIn(pc))
  BY <1>1, PhaseChange
<1>3. QED
  BY <1>2 DEF IInv, PermitsConserved

LEMMA QueueStep ==
  ASSUME IInv, NEW j \in Jobs, submit_job(j) \/ cancel_job(j) \/ Timeout(j)
                               \/ on_task_done(j) \/ AgentStep(j)
  PROVE  IInv'
<1> USE DEF IInv
<1>1. CASE submit_job(j)
  <2>1. TypeOK'
    BY <1>1 DEF submit_job, TypeOK, Status, TaskPhase
  <2>2. PermitsConserved'
    BY <1>1, QuietPhaseChange DEF submit_job, HoldingPhase, TaskPhase, InBody
  <2>3. \A k \in Jobs : Shape(k)'
    BY <1>1 DEF submit_job, TypeOK, Shape, InBody
  <2>4. QED
    BY <2>1, <2>2, <2>3
<1>2. CASE cancel_job(j)
  <2>1. TypeOK'
    BY <1>2 DEF cancel_job, control, TypeOK, Status, TerminalStatus
  <2>2. PermitsConserved'
    BY <1>2 DEF cancel_job, PermitsConserved, HoldersIn
  <2>3. \A k \in Jobs : Shape(k)'
    BY <1>2 DEF cancel_job, TypeOK, Shape, TaskAlive, TaskPhase, InBody
  <2>4. QED
    BY <2>1, <2>2, <2>3
<1>3. CASE Timeout(j)
  BY <1>3 DEF Timeout, control, TypeOK, PermitsConserved, HoldersIn, Shape
<1>4. CASE on_task_done(j)
  <2>1. TypeOK'
    BY <1>4 DEF on_task_done, control, TypeOK, Status, TerminalStatus, TaskPhase
  <2>2. PermitsConserved'
    BY <1>4, QuietPhaseChange DEF on_task_done, HoldingPhase, TaskPhase, InBody
  <2>3. \A k \in Jobs : Shape(k)'
    BY <1>4 DEF on_task_done, TypeOK, Shape, InBody, TerminalStatus, Verdicts
  <2>4. QED
    BY <2>1, <2>2, <2>3
<1>5. CASE AgentStep(j)
  <2>1. TypeOK'
    BY <1>5 DEF AgentStep, update_state, AgentReturns, AgentCancelled, control, TypeOK,
       ReportedState, AgentPhase, AgentLive, AgentEnded
  <2>2. PermitsConserved'
    BY <1>5 DEF AgentStep, update_state, AgentReturns, AgentCancelled, PermitsConserved,
       HoldersIn
  <2>3. \A k \in Jobs : Shape(k)'
    BY <1>5 DEF AgentStep, update_state, AgentReturns, AgentCancelled, TypeOK, Shape,
       InBody, AgentLive
  <2>4. QED
    BY <2>1, <2>2, <2>3
<1>6. QED
  BY <1>1, <1>2, <1>3, <1>4, <1>5

\* Phases and value that a step takes from a record of Sem.
LEMMA StepFromSem ==
  ASSUME NEW t \in Sem, Total(t) = MaxConcurrent, value' = t.value, pc' = t.pc
  PROVE  pc' \in [Jobs -> TaskPhase] /\ value' \in Nat /\ PermitsConserved'
BY DEF Sem, Total, PermitsConserved

\* The body of a job, entered with the permit in s: the permit is the phase
\* "granted" of j, or has just been taken from the value.
LEMMA EnterBodyStep ==
  ASSUME IInv, NEW j \in Jobs, NEW s \in Sem,
         pc[j] \in {"created", "granted"}, ~cancelFlag[j], s.pc[j] = pc[j],
         OthersMayBeGranted(pc, s.pc, j),
         Total(s) = IF pc[j] = "granted" THEN MaxConcurrent ELSE MaxConcurrent - 1,
         EnterBody(j, s),
         ahead' \in [Jobs -> SUBSET Jobs]
  PROVE  IInv'
<1>1. s.value \in Nat /\ s.pc \in [Jobs -> TaskPhase]
  BY DEF Sem
<1>2. "granted" \in HoldingPhase /\ "created" \notin HoldingPhase
      /\ "running" \in HoldingPhase /\ "running" \in TaskPhase
  BY DEF HoldingPhase, TaskPhase, InBody
<1>3. TypeOK /\ \A k \in Jobs : Shape(k)
  BY DEF IInv
<1>4. CASE value' = s.value /\ pc' = [s.pc EXCEPT ![j] = "running"]
           /\ status' = [status EXCEPT ![j] = "RUNNING"]
           /\ agent' = [agent EXCEPT ![j] = "running"]
           /\ UNCHANGED <<control, state, cancelFlag, timer>>
  <2> DEFINE t == [value |-> s.value, pc |-> [s.pc EXCEPT ![j] = "running"]]
  <2>1. /\ [s.pc EXCEPT ![j] = "running"] \in [Jobs -> TaskPhase]
        /\ Cardinality(HoldersIn([s.pc EXCEPT ![j] = "running"])) =
             IF pc[j] = "granted" THEN Cardinality(HoldersIn(s.pc))
                                  ELSE Cardinality(HoldersIn(s.pc)) + 1
    BY <1>1, <1>2, PhaseChange
  <2>2. t \in Sem /\ Total(t) = MaxConcurrent
    BY <1>1, <2>1, HoldersFinite, OrchestratorAssumption
       DEF Sem, Total, OrchestratorAssumption
  <2>3. pc' \in [Jobs -> TaskPhase] /\ value' \in Nat /\ PermitsConserved'
    BY <1>4, <2>2, StepFromSem
  <2>4. TypeOK'
    BY <1>3, <1>4, <2>3 DEF TypeOK, control, Status, AgentPhase, AgentLive
  <2>5. Shape(j)'
    BY <1>1, <1>3, <1>4 DEF Shape, TypeOK, InBody
  <2>6. OthersMayBeGranted(pc, pc', j)
    BY <1>1, <1>4 DEF OthersMayBeGranted
  <2>7. \A k \in Jobs \ {j} : Shape(k)'
    BY <1>3, <1>4, <2>6, OthersKeepShape DEF TypeOK
  <2>8. QED
    BY <2>3, <2>4, <2>5, <2>7 DEF IInv
<1>5. CASE value' = Release(s, j).value /\ pc' = Release(s, j).pc
           /\ status' = [status EXCEPT ![j] = "FAILED"]
           /\ state' = [state EXCEPT ![j] = "UNKNOWN"]
           /\ UNCHANGED <<control, cancelFlag, timer, agent>>
  <2>1. /\ Release(s, j) \in Sem
        /\ Total(Release(s, j)) = MaxConcurrent
        /\ Release(s, j).pc[j] = "finished"
        /\ OthersMayBeGranted(s.pc, Release(s, j).pc, j)
    BY <1>2, ReleaseTotal, OrchestratorAssumption DEF OrchestratorAssumption
  <2>2. pc' \in [Jobs -> TaskPhase] /\ value' \in Nat /\ PermitsConserved'
    BY <1>5, <2>1, StepFromSem
  <2>3. TypeOK'
    BY <1>3, <1>5, <2>2 DEF TypeOK, control, Status, TerminalStatus, Verdicts, ReportedState
  <2>4. Shape(j)'
    BY <1>3, <1>5, <2>1 DEF Shape, TypeOK, InBody, TerminalStatus, Verdicts
  <2>5. OthersMayBeGranted(pc, pc', j)
    BY <1>5, <2>1 DEF OthersMayBeGranted
  <2>6. \A k \in Jobs \ {j} : Shape(k)'
    BY <1>3, <1>5, <2>5, OthersKeepShape DEF TypeOK
  <2>7. QED
    BY <2>2, <2>3, <2>4, <2>6 DEF IInv
<1>6. QED
  BY <1>4, <1>5 DEF EnterBody

LEMMA AcquireStep ==
  ASSUME IInv, NEW j \in Jobs, Acquire(j)
  PROVE  IInv'
<1> USE DEF IInv
<1>1. CASE pc' = [pc EXCEPT ![j] = "finished"] /\ cancelFlag[j] /\ pc[j] = "created"
           /\ UNCHANGED <<control, status, state, cancelFlag, timer, agent, value, ahead>>
  <2>1. TypeOK'
    BY <1>1 DEF TypeOK, control, TaskPhase
  <2>2. PermitsConserved'
    BY <1>1, QuietPhaseChange DEF HoldingPhase, TaskPhase, InBody
  <2>3. \A k \in Jobs : Shape(k)'
    BY <1>1 DEF TypeOK, Shape, InBody, TerminalStatus, Verdicts
  <2>4. QED
    BY <2>1, <2>2, <2>3
<1>2. CASE pc' = [pc EXCEPT ![j] = "waiting"] /\ pc[j] = "created"
           /\ ahead' = [ahead EXCEPT ![j] = {k \in Jobs : pc[k] = "waiting"}]
           /\ UNCHANGED <<control, status, state, cancelFlag, timer, agent, value>>
  <2>1. TypeOK'
    BY <1>2 DEF TypeOK, control, TaskPhase
  <2>2. PermitsConserved'
    BY <1>2, QuietPhaseChange DEF HoldingPhase, TaskPhase, InBody
  <2>3. \A k \in Jobs : Shape(k)'
    BY <1>2 DEF TypeOK, Shape, InBody
  <2>4. QED
    BY <2>1, <2>2, <2>3
<1>3. CASE pc[j] = "created" /\ ~cancelFlag[j] /\ ~Locked /\ UNCHANGED ahead
           /\ EnterBody(j, [value |-> value - 1, pc |-> pc])
  <2> DEFINE s == [value |-> value - 1, pc |-> pc]
  <2>1. value \in Nat \ {0}
    BY <1>3 DEF Locked, TypeOK
  <2>2. s \in Sem /\ s.pc = pc
    BY <2>1 DEF Sem, TypeOK
  <2>3. Total(s) = MaxConcurrent - 1
    BY <2>1, HoldersFinite DEF Total, PermitsConserved, TypeOK
  <2>4. OthersMayBeGranted(pc, s.pc, j)
    BY DEF OthersMayBeGranted
  <2>5. ahead' \in [Jobs -> SUBSET Jobs]
    BY <1>3 DEF TypeOK
  <2>6. EnterBody(j, s)
    BY <1>3
  <2> HIDE DEF s
  <2>7. QED
    BY <1>3, <2>2, <2>3, <2>4, <2>5, <2>6, EnterBodyStep
<1>4. QED
  BY <1>1, <1>2, <1>3 DEF Acquire

\* A task that holds a permit leaves, whatever it does to its own status, state
\* and flag.
LEMMA HolderLeaves ==
  ASSUME IInv, NEW j \in Jobs, pc[j] \in HoldingPhase,
         value' = Release(Now, j).value, pc' = Release(Now, j).pc
  PROVE  /\ pc' \in [Jobs -> TaskPhase] /\ value' \in Nat /\ PermitsConserved'
         /\ pc'[j] = "finished"
         /\ OthersMayBeGranted(pc, pc', j)
<1>1. Now \in Sem /\ Now.pc = pc /\ Total(Now) = MaxConcurrent
  BY NowFacts
<1>2. /\ Release(Now, j) \in Sem
      /\ Total(Release(Now, j)) = MaxConcurrent
      /\ Release(Now, j).pc[j] = "finished"
      /\ OthersMayBeGranted(pc, Release(Now, j).pc, j)
  BY <1>1, ReleaseTotal
<1>3. QED
  BY <1>2, StepFromSem

LEMMA ResumeStep ==
  ASSUME IInv, NEW j \in Jobs, Resume(j)
  PROVE  IInv'
<1> USE DEF IInv
<1>0. ahead' \in [Jobs -> SUBSET Jobs]
  BY DEF Resume, TypeOK
<1>1. CASE pc' = [pc EXCEPT ![j] = "finished"] /\ cancelFlag[j] /\ pc[j] = "waiting"
           /\ UNCHANGED <<control, status, state, cancelFlag, timer, agent, value>>
  <2>1. TypeOK'
    BY <1>0, <1>1 DEF TypeOK, control, TaskPhase
  <2>2. PermitsConserved'
    BY <1>1, QuietPhaseChange DEF HoldingPhase, TaskPhase, InBody
  <2>3. \A k \in Jobs : Shape(k)'
    BY <1>1 DEF TypeOK, Shape, InBody, TerminalStatus, Verdicts
  <2>4. QED
    BY <2>1, <2>2, <2>3
<1>2. CASE value' = Release(Now, j).value /\ pc' = Release(Now, j).pc
           /\ cancelFlag[j] /\ pc[j] = "granted"
           /\ UNCHANGED <<control, status, state, cancelFlag, timer, agent>>
  <2>1. /\ pc' \in [Jobs -> TaskPhase] /\ value' \in Nat /\ PermitsConserved'
        /\ pc'[j] = "finished" /\ OthersMayBeGranted(pc, pc', j)
    BY <1>2, HolderLeaves DEF HoldingPhase
  <2>2. TypeOK'
    BY <1>0, <1>2, <2>1 DEF TypeOK, control
  <2>3. Shape(j)'
    BY <1>2, <2>1 DEF TypeOK, Shape, InBody, TerminalStatus, Verdicts
  <2>4. \A k \in Jobs \ {j} : Shape(k)'
    BY <1>2, <2>1, OthersKeepShape
  <2>5. QED
    BY <2>1, <2>2, <2>3, <2>4
<1>3. CASE pc[j] = "granted" /\ ~cancelFlag[j]
           /\ EnterBody(j, IF value > 0 THEN WakeUpNext(Now) ELSE Now)
  <2> DEFINE s == IF value > 0 THEN WakeUpNext(Now) ELSE Now
  <2>1. Now \in Sem /\ Now.value = value /\ Now.pc = pc /\ Total(Now) = MaxConcurrent
    BY NowFacts
  <2>2. s \in Sem /\ Total(s) = MaxConcurrent /\ s.pc[j] = pc[j]
        /\ OthersMayBeGranted(pc, s.pc, j)
    <3>1. CASE value > 0
      BY <1>3, <2>1, <3>1, WakeUpNextKeepsTotal DEF OthersMayBeGranted
    <3>2. CASE ~(value > 0)
      BY <2>1, <3>2 DEF OthersMayBeGranted
    <3>3. QED
      BY <3>1, <3>2
  <2>3. EnterBody(j, s)
    BY <1>3
  <2> HIDE DEF s
  <2>4. QED
    BY <1>0, <1>3, <2>2, <2>3, EnterBodyStep
<1>4. QED
  BY <1>1, <1>2, <1>3 DEF Resume, Now

LEMMA LeaveStep ==
  ASSUME IInv, NEW j \in Jobs, pc[j] \in InBody,
         NEW st \in TerminalStatus, NEW c \in BOOLEAN, c => st = "CANCELLED",
         Leave(j, st, c)
  PROVE  IInv'
<1>1. TypeOK /\ \A k \in Jobs : Shape(k)
  BY DEF IInv
<1>2. value' = Release(Now, j).value /\ pc' = Release(Now, j).pc
  BY DEF Leave, Now
<1>3. /\ pc' \in [Jobs -> TaskPhase] /\ value' \in Nat /\ PermitsConserved'
      /\ pc'[j] = "finished" /\ OthersMayBeGranted(pc, pc', j)
  BY <1>2, HolderLeaves DEF HoldingPhase
<1>4. /\ status' = [status EXCEPT ![j] = st]
      /\ state' = [state EXCEPT ![j] = AgentState(j)]
      /\ cancelFlag' = [cancelFlag EXCEPT ![j] = c]
      /\ timer' = [timer EXCEPT ![j] = FALSE]
      /\ UNCHANGED <<control, agent, ahead>>
  BY DEF Leave
<1>5. AgentState(j) \in {"ACTIVE", "COMPLETED", "FAILED"}
  BY DEF AgentState
<1>6. TypeOK'
  BY <1>1, <1>3, <1>4, <1>5 DEF TypeOK, control, Status, ReportedState, Verdicts
<1>7. Shape(j)'
  BY <1>1, <1>3, <1>4, <1>5 DEF TypeOK, Shape, InBody, TerminalStatus, Verdicts
<1>8. \A k \in Jobs \ {j} : Shape(k)'
  BY <1>1, <1>3, <1>4, OthersKeepShape DEF TypeOK
<1>9. QED
  BY <1>3, <1>6, <1>7, <1>8 DEF IInv

LEMMA BodyStep ==
  ASSUME IInv, NEW j \in Jobs, AgentAnswered(j) \/ CancelAgent(j) \/ AgentReaped(j)
  PROVE  IInv'
<1>0. Verdict(j) \in TerminalStatus /\ "CANCELLED" \in TerminalStatus
  BY DEF Verdict, TerminalStatus, Verdicts
<1>1. CASE AgentAnswered(j)
  BY <1>0, <1>1, LeaveStep DEF AgentAnswered, InBody
<1>2. CASE CancelAgent(j)
  <2>1. \E x \in {"cancelling", "timingOut"} : pc' = [pc EXCEPT ![j] = x]
    BY <1>2 DEF CancelAgent
  <2>2. TypeOK'
    BY <1>2 DEF CancelAgent, IInv, TypeOK, control, TaskPhase, InBody, AgentPhase, AgentLive
  <2>3. PermitsConserved'
    BY <1>2, <2>1, QuietPhaseChange DEF CancelAgent, HoldingPhase, TaskPhase, InBody
  <2>4. \A k \in Jobs : Shape(k)'
    BY <1>2 DEF CancelAgent, IInv, TypeOK, Shape, InBody, AgentLive
  <2>5. QED
    BY <2>2, <2>3, <2>4 DEF IInv
<1>3. CASE AgentReaped(j)
  BY <1>0, <1>3, LeaveStep DEF AgentReaped, InBody
<1>4. QED
  BY <1>1, <1>2, <1>3

LEMMA NextIInv == IInv /\ [Next]_vars => IInv'
<1> SUFFICES ASSUME IInv, [Next]_vars PROVE IInv'
  OBVIOUS
<1>1. CASE start \/ stop \/ stop_returns
  BY <1>1, PublicStep
<1>2. ASSUME NEW j \in Jobs,
             submit_job(j) \/ cancel_job(j) \/ Timeout(j) \/ on_task_done(j) \/ AgentStep(j)
      PROVE  IInv'
  BY <1>2, QueueStep
<1>3. ASSUME NEW j \in Jobs, Acquire(j) \/ Resume(j) PROVE IInv'
  BY <1>3, AcquireStep, ResumeStep
<1>4. ASSUME NEW j \in Jobs, AgentAnswered(j) \/ CancelAgent(j) \/ AgentReaped(j)
      PROVE  IInv'
  BY <1>4, BodyStep
<1>5. CASE UNCHANGED vars
  BY <1>5 DEF vars, IInv, TypeOK, PermitsConserved, Shape
<1>6. QED
  BY <1>1, <1>2, <1>3, <1>4, <1>5 DEF Next, JobStep

-----------------------------------------------------------------------------
(* The theorems.                                                            *)

\* The invariant holds in every reachable state of the orchestrator.
THEOREM Invariance == Spec => []IInv
BY InitIInv, NextIInv, PTL DEF Spec

\* Every field of the orchestrator keeps its type (Orchestrator.__init__, JobStatus).
THEOREM TypeCorrect == Spec => []TypeOK
<1>1. IInv => TypeOK
  BY DEF IInv
<1>2. QED
  BY <1>1, Invariance, PTL

\* No path through _run_job loses or duplicates a permit of the semaphore.
THEOREM PermitsAreConserved == Spec => []PermitsConserved
<1>1. IInv => PermitsConserved
  BY DEF IInv
<1>2. QED
  BY <1>1, Invariance, PTL

\* The jobs shown as RUNNING hold permits, so they are no more than the slots.
LEMMA RunningHoldsPermit ==
  IInv => /\ {j \in Jobs : status[j] = "RUNNING"} \subseteq {j \in Jobs : pc[j] \in InBody}
          /\ Cardinality({j \in Jobs : status[j] = "RUNNING"}) <= MaxConcurrent
<1> SUFFICES ASSUME IInv
             PROVE  /\ {j \in Jobs : status[j] = "RUNNING"} \subseteq {j \in Jobs : pc[j] \in InBody}
                    /\ Cardinality({j \in Jobs : status[j] = "RUNNING"}) <= MaxConcurrent
  OBVIOUS
<1> DEFINE R == {j \in Jobs : status[j] = "RUNNING"}
<1>1. R \subseteq {j \in Jobs : pc[j] \in InBody}
  BY DEF IInv, TypeOK, Shape, TaskPhase, InBody, TerminalStatus, Verdicts
<1>2. R \subseteq HoldersIn(pc)
  BY <1>1 DEF HoldersIn
<1>3. pc \in [Jobs -> TaskPhase] /\ value \in Nat
      /\ value + Cardinality(HoldersIn(pc)) = MaxConcurrent
  BY DEF IInv, TypeOK, PermitsConserved
<1>4. /\ IsFiniteSet(HoldersIn(pc)) /\ Cardinality(HoldersIn(pc)) \in Nat
  BY <1>3, HoldersFinite
<1>5. Cardinality(R) <= Cardinality(HoldersIn(pc)) /\ IsFiniteSet(R)
  BY <1>2, <1>4, FS_Subset
<1>6. Cardinality(R) \in Nat
  BY <1>5, FS_CardinalityType
<1>7. QED
  BY <1>1, <1>3, <1>4, <1>5, <1>6, OrchestratorAssumption DEF OrchestratorAssumption

\* At most max_concurrent_jobs jobs are shown as RUNNING, however their tasks wait,
\* are woken, time out and end.  (For the agents themselves see
\* AttendedAgentsHaveSlots in OrchestratorSafety_proofs.)
THEOREM SlotsAreRespected == Spec => []SlotsRespected
<1>1. IInv => SlotsRespected
  BY RunningHoldsPermit DEF SlotsRespected
<1>2. QED
  BY <1>1, Invariance, PTL

-----------------------------------------------------------------------------
(* Refinement.                                                              *)

Settled == {j \in Jobs : pc[j] = "done"}

\* The abstract begun and settled sets of the tasks that take no part in a step.
LEMMA OthersKeepLife ==
  ASSUME NEW j \in Jobs, OthersMayBeGranted(pc, pc', j),
         \A k \in Jobs \ {j} : state'[k] = state[k]
  PROVE  \A k \in Jobs \ {j} : /\ k \in Begun' <=> k \in Begun
                               /\ k \in Settled' <=> k \in Settled
BY DEF OthersMayBeGranted, Begun, Settled, InBody

LEMMA InitRefines == Init => Lifecycle!Init
BY DEF Init, Lifecycle!Init, Begun, InBody

LEMMA SlotsAfterStep == IInv' => SlotsRespected'
<1>1. IInv => SlotsRespected
  BY RunningHoldsPermit DEF SlotsRespected
<1>2. QED
  BY <1>1, PTL

LEMMA SameCardinality == \A S : Lifecycle!Cardinality(S) = Cardinality(S)
BY DEF Lifecycle!Cardinality, Cardinality

LEMMA EnterBodyRefines ==
  ASSUME IInv, IInv', NEW j \in Jobs, NEW s \in Sem,
         pc[j] \in {"created", "granted"}, ~cancelFlag[j], s.pc[j] = pc[j],
         OthersMayBeGranted(pc, s.pc, j), EnterBody(j, s)
  PROVE  Lifecycle!Begin(j)
<1>0. TypeOK /\ Shape(j) /\ s.pc \in [Jobs -> TaskPhase]
  BY DEF IInv, Sem
<1>1. status[j] = "QUEUED" /\ j \notin Begun /\ j \notin Settled
  BY <1>0 DEF Shape, Begun, Settled, InBody
<1>2. CASE pc' = [s.pc EXCEPT ![j] = "running"] /\ UNCHANGED state
           /\ status' = [status EXCEPT ![j] = "RUNNING"]
  <2>1. OthersMayBeGranted(pc, pc', j) /\ pc'[j] = "running"
    BY <1>0, <1>2 DEF OthersMayBeGranted
  <2>2. Begun' = Begun \cup {j} /\ Settled' = Settled
    <3>1. j \in Begun' /\ j \notin Settled'
      BY <2>1 DEF Begun, Settled, InBody
    <3>2. \A k \in Jobs \ {j} : /\ k \in Begun' <=> k \in Begun
                                /\ k \in Settled' <=> k \in Settled
      BY <1>2, <2>1, OthersKeepLife
    <3>3. Begun \subseteq Jobs /\ Begun' \subseteq Jobs /\ Settled \subseteq Jobs
          /\ Settled' \subseteq Jobs
      BY DEF Begun, Settled
    <3>4. QED
      BY <1>1, <3>1, <3>2, <3>3
  <2> DEFINE R == {k \in Jobs : status[k] = "RUNNING"}
  <2>3. Cardinality(R') <= MaxConcurrent
    BY SlotsAfterStep DEF SlotsRespected
  <2>4. R' = R \cup {j} /\ j \notin R
    BY <1>0, <1>1, <1>2 DEF TypeOK
  <2>5. IsFiniteSet(R)
    <3>1. R \subseteq Jobs
      OBVIOUS
    <3>2. QED
      BY <3>1, FS_Subset, OrchestratorAssumption DEF OrchestratorAssumption
  <2>6. Cardinality(R') = Cardinality(R) + 1 /\ Cardinality(R) \in Nat
    BY <2>4, <2>5, FS_AddElement, FS_CardinalityType
  <2>7. Cardinality(R) < MaxConcurrent
    BY <2>3, <2>6, OrchestratorAssumption DEF OrchestratorAssumption
  <2>8. QED
    BY <1>1, <1>2, <2>2, <2>7, SameCardinality
       DEF Lifecycle!Begin, Lifecycle!Running, Settled
<1>3. CASE pc' = Release(s, j).pc
           /\ status' = [status EXCEPT ![j] = "FAILED"]
           /\ state' = [state EXCEPT ![j] = "UNKNOWN"]
  <2>1. OthersMayBeGranted(pc, pc', j) /\ pc'[j] = "finished"
    BY <1>3, ReleaseTotal DEF OthersMayBeGranted
  <2>2. Begun' = Begun \cup {j} /\ Settled' = Settled
    <3>1. j \in Begun' /\ j \notin Settled'
      BY <1>0, <1>3, <2>1 DEF Begun, Settled, InBody, TypeOK
    <3>2. \A k \in Jobs \ {j} : /\ k \in Begun' <=> k \in Begun
                                /\ k \in Settled' <=> k \in Settled
      BY <1>0, <1>3, <2>1, OthersKeepLife DEF TypeOK
    <3>3. Begun \subseteq Jobs /\ Begun' \subseteq Jobs /\ Settled \subseteq Jobs
          /\ Settled' \subseteq Jobs
      BY DEF Begun, Settled
    <3>4. QED
      BY <1>1, <3>1, <3>2, <3>3
  <2>3. QED
    BY <1>1, <1>3, <2>2 DEF Lifecycle!Begin, Settled
<1>4. QED
  BY <1>2, <1>3 DEF EnterBody

LEMMA LeaveRefines ==
  ASSUME IInv, NEW j \in Jobs, pc[j] \in InBody, NEW st \in TerminalStatus,
         NEW c \in BOOLEAN, Leave(j, st, c)
  PROVE  Lifecycle!Conclude(j)
<1>1. TypeOK /\ Shape(j)
  BY DEF IInv
<1>2. pc'[j] = "finished" /\ OthersMayBeGranted(pc, pc', j)
  BY HolderLeaves DEF Leave, Now, HoldingPhase
<1>3. status[j] \in {"RUNNING", "CANCELLED"} /\ j \in Begun /\ j \notin Settled
  BY <1>1 DEF Shape, Begun, Settled, InBody
<1>4. state' = [state EXCEPT ![j] = AgentState(j)] /\ AgentState(j) # "None"
      /\ status' = [status EXCEPT ![j] = st]
  BY DEF Leave, AgentState
<1>5. Begun' = Begun /\ Settled' = Settled
  <2>1. j \in Begun' /\ j \notin Settled'
    BY <1>1, <1>2, <1>4 DEF Begun, Settled, InBody, TypeOK
  <2>2. \A k \in Jobs \ {j} : /\ k \in Begun' <=> k \in Begun
                              /\ k \in Settled' <=> k \in Settled
    BY <1>1, <1>2, <1>4, OthersKeepLife DEF TypeOK
  <2>3. Begun \subseteq Jobs /\ Begun' \subseteq Jobs /\ Settled \subseteq Jobs
        /\ Settled' \subseteq Jobs
    BY DEF Begun, Settled
  <2>4. QED
    BY <1>3, <2>1, <2>2, <2>3
<1>6. QED
  BY <1>3, <1>4, <1>5 DEF Lifecycle!Conclude, Lifecycle!TerminalStatus,
     Lifecycle!Verdicts, TerminalStatus, Verdicts, Settled

\* Steps that change no status and no phase that matters to Begun and Settled.
LEMMA StutterRefines ==
  ASSUME status' = status, Begun' = Begun, Settled' = Settled
  PROVE  [Lifecycle!Next]_(Lifecycle!lifecycleVars)
BY DEF Lifecycle!lifecycleVars, Settled

LEMMA PublicRefines ==
  ASSUME IInv, NEW j \in Jobs, submit_job(j) \/ cancel_job(j) \/ on_task_done(j)
  PROVE  [Lifecycle!Next]_(Lifecycle!lifecycleVars)
<1>1. TypeOK /\ Shape(j)
  BY DEF IInv
<1>2. CASE submit_job(j)
  <2>1. Begun' = Begun /\ Settled' = Settled
    BY <1>1, <1>2 DEF submit_job, Begun, Settled, InBody, TypeOK
  <2>2. Lifecycle!Queue(j)
    BY <1>1, <1>2, <2>1 DEF submit_job, Shape, Lifecycle!Queue, Settled
  <2>3. QED
    BY <2>2 DEF Lifecycle!Next
<1>3. CASE cancel_job(j)
  <2>1. Begun' = Begun /\ Settled' = Settled /\ j \notin Settled
    BY <1>3 DEF cancel_job, Begun, Settled, TaskAlive
  <2>2. status[j] \in {"QUEUED", "RUNNING", "CANCELLED"}
    BY <1>1, <1>3 DEF cancel_job, TaskAlive, Shape, TypeOK, TaskPhase, InBody
  <2>3. CASE status[j] = "CANCELLED"
    <3>1. status' = status
      BY <1>1, <1>3, <2>3 DEF cancel_job, TypeOK
    <3>2. QED
      BY <2>1, <3>1, StutterRefines
  <2>4. CASE status[j] \in {"QUEUED", "RUNNING"}
    <3>1. Lifecycle!AcknowledgeCancel(j)
      BY <1>3, <2>1, <2>4 DEF cancel_job, Lifecycle!AcknowledgeCancel, Settled
    <3>2. QED
      BY <3>1 DEF Lifecycle!Next
  <2>5. QED
    BY <2>2, <2>3, <2>4
<1>4. CASE on_task_done(j)
  <2>1. pc[j] = "finished" /\ pc' = [pc EXCEPT ![j] = "done"] /\ UNCHANGED state
        /\ status' = [status EXCEPT ![j] = IF cancelFlag[j] THEN "CANCELLED" ELSE @]
    BY <1>4 DEF on_task_done
  <2>2. Begun' = Begun /\ Settled' = Settled \cup {j} /\ j \notin Settled
    BY <1>1, <2>1 DEF Begun, Settled, InBody, TypeOK
  <2>3. \/ status[j] \in TerminalStatus /\ status' = status
        \/ /\ status[j] = "QUEUED" /\ j \notin Begun
           /\ status' = [status EXCEPT ![j] = "CANCELLED"]
    BY <1>1, <2>1 DEF Shape, TypeOK, Begun, InBody
  <2>4. Lifecycle!Settle(j)
    BY <1>1, <2>2, <2>3 DEF Lifecycle!Settle, Lifecycle!TerminalStatus,
       Lifecycle!Verdicts, TerminalStatus, Verdicts, Settled, TypeOK
  <2>5. QED
    BY <2>4 DEF Lifecycle!Next
<1>5. QED
  BY <1>2, <1>3, <1>4

LEMMA TaskRefines ==
  ASSUME IInv, IInv', NEW j \in Jobs,
         Acquire(j) \/ Resume(j) \/ AgentAnswered(j) \/ CancelAgent(j) \/ AgentReaped(j)
  PROVE  [Lifecycle!Next]_(Lifecycle!lifecycleVars)
<1>1. TypeOK /\ Shape(j)
  BY DEF IInv
<1>2. Now \in Sem /\ Now.value = value /\ Now.pc = pc /\ Total(Now) = MaxConcurrent
  BY NowFacts
<1>3. CASE Acquire(j)
  <2>1. CASE \E x \in {"finished", "waiting"} : pc' = [pc EXCEPT ![j] = x]
             /\ pc[j] = "created" /\ UNCHANGED <<status, state>>
    <3>1. Begun' = Begun /\ Settled' = Settled
      BY <1>1, <2>1 DEF Begun, Settled, InBody, TypeOK, Shape
    <3>2. QED
      BY <2>1, <3>1, StutterRefines
  <2>2. CASE pc[j] = "created" /\ ~cancelFlag[j] /\ ~Locked
             /\ EnterBody(j, [value |-> value - 1, pc |-> pc])
    <3> DEFINE s == [value |-> value - 1, pc |-> pc]
    <3>1. s \in Sem /\ s.pc[j] = pc[j] /\ OthersMayBeGranted(pc, s.pc, j)
      BY <1>1, <2>2 DEF Sem, Locked, TypeOK, OthersMayBeGranted
    <3>2. EnterBody(j, s)
      BY <2>2
    <3> HIDE DEF s
    <3>3. Lifecycle!Begin(j)
      BY <2>2, <3>1, <3>2, EnterBodyRefines
    <3>4. QED
      BY <3>3 DEF Lifecycle!Next
  <2>3. QED
    BY <1>3, <2>1, <2>2 DEF Acquire
<1>4. CASE Resume(j)
  <2>1. CASE UNCHANGED <<status, state>> /\ pc[j] \in {"waiting", "granted"}
             /\ pc'[j] = "finished" /\ OthersMayBeGranted(pc, pc', j)
    <3>1. \A k \in Jobs \ {j} : /\ k \in Begun' <=> k \in Begun
                                /\ k \in Settled' <=> k \in Settled
      BY <2>1, OthersKeepLife
    <3>2. j \notin Begun /\ j \notin Begun' /\ j \notin Settled /\ j \notin Settled'
      BY <1>1, <2>1 DEF Begun, Settled, InBody, Shape
    <3>3. Begun' = Begun /\ Settled' = Settled
      BY <3>1, <3>2 DEF Begun, Settled
    <3>4. QED
      BY <2>1, <3>3, StutterRefines
  <2>2. CASE pc[j] = "waiting" /\ pc' = [pc EXCEPT ![j] = "finished"]
             /\ UNCHANGED <<status, state>>
    BY <1>1, <2>1, <2>2 DEF OthersMayBeGranted, TypeOK
  <2>3. CASE pc[j] = "granted" /\ UNCHANGED <<status, state>>
             /\ value' = Release(Now, j).value /\ pc' = Release(Now, j).pc
    BY <2>1, <2>3, HolderLeaves DEF HoldingPhase
  <2>4. CASE pc[j] = "granted" /\ ~cancelFlag[j]
             /\ EnterBody(j, IF value > 0 THEN WakeUpNext(Now) ELSE Now)
    <3> DEFINE s == IF value > 0 THEN WakeUpNext(Now) ELSE Now
    <3>1. s \in Sem /\ s.pc[j] = pc[j] /\ OthersMayBeGranted(pc, s.pc, j)
      <4>1. CASE value > 0
        BY <1>2, <2>4, <4>1, WakeUpNextKeepsTotal DEF OthersMayBeGranted
      <4>2. CASE ~(value > 0)
        BY <1>2, <4>2 DEF OthersMayBeGranted
      <4>3. QED
        BY <4>1, <4>2
    <3>2. EnterBody(j, s)
      BY <2>4
    <3> HIDE DEF s
    <3>3. Lifecycle!Begin(j)
      BY <2>4, <3>1, <3>2, EnterBodyRefines
    <3>4. QED
      BY <3>3 DEF Lifecycle!Next
  <2>5. QED
    BY <1>4, <2>2, <2>3, <2>4 DEF Resume, Now
<1>5. CASE AgentAnswered(j) \/ AgentReaped(j)
  <2>1. Verdict(j) \in TerminalStatus /\ "CANCELLED" \in TerminalStatus
    BY DEF Verdict, TerminalStatus, Verdicts
  <2>2. Lifecycle!Conclude(j)
    BY <1>5, <2>1, LeaveRefines DEF AgentAnswered, AgentReaped, InBody
  <2>3. QED
    BY <2>2 DEF Lifecycle!Next
<1>6. CASE CancelAgent(j)
  <2>1. Begun' = Begun /\ Settled' = Settled /\ status' = status
    BY <1>1, <1>6 DEF CancelAgent, Begun, Settled, InBody, TypeOK
  <2>2. QED
    BY <2>1, StutterRefines
<1>7. QED
  BY <1>3, <1>4, <1>5, <1>6

LEMMA StepRefines ==
  IInv /\ IInv' /\ [Next]_vars => [Lifecycle!Next]_(Lifecycle!lifecycleVars)
<1> SUFFICES ASSUME IInv, IInv', [Next]_vars
             PROVE  [Lifecycle!Next]_(Lifecycle!lifecycleVars)
  OBVIOUS
<1>1. CASE start \/ stop \/ stop_returns \/ UNCHANGED vars
  <2>1. status' = status /\ Begun' = Begun /\ Settled' = Settled
    BY <1>1 DEF start, stop, stop_returns, vars, Begun, Settled
  <2>2. QED
    BY <2>1, StutterRefines
<1>2. ASSUME NEW j \in Jobs, Timeout(j) \/ AgentStep(j)
      PROVE  [Lifecycle!Next]_(Lifecycle!lifecycleVars)
  <2>1. status' = status /\ pc' = pc /\ Settled' = Settled
    BY <1>2 DEF Timeout, AgentStep, update_state, AgentReturns, AgentCancelled, Settled
  <2>2. \A k \in Jobs : k \in Begun' <=> k \in Begun
    BY <1>2, <2>1 DEF Timeout, AgentStep, update_state, AgentReturns, AgentCancelled,
       Begun, IInv, TypeOK, Shape
  <2>3. Begun' = Begun
    BY <2>2 DEF Begun
  <2>4. QED
    BY <2>1, <2>3, StutterRefines
<1>3. ASSUME NEW j \in Jobs, submit_job(j) \/ cancel_job(j) \/ on_task_done(j)
      PROVE  [Lifecycle!Next]_(Lifecycle!lifecycleVars)
  BY <1>3, PublicRefines
<1>4. ASSUME NEW j \in Jobs,
             Acquire(j) \/ Resume(j) \/ AgentAnswered(j) \/ CancelAgent(j) \/ AgentReaped(j)
      PROVE  [Lifecycle!Next]_(Lifecycle!lifecycleVars)
  BY <1>4, TaskRefines
<1>5. QED
  BY <1>1, <1>2, <1>3, <1>4 DEF Next, JobStep

\* Every behaviour of the orchestrator is, through the refinement mapping, a
\* behaviour of the abstract job life cycle.
THEOREM Refinement == Spec => ImplementsLifecycle
<1>1. Init => Lifecycle!Init
  BY InitRefines
<1>2. IInv /\ IInv' /\ [Next]_vars => [Lifecycle!Next]_(Lifecycle!lifecycleVars)
  BY StepRefines
<1>3. QED
  BY <1>1, <1>2, Invariance, PTL DEF Spec, ImplementsLifecycle, Lifecycle!Spec

=============================================================================
