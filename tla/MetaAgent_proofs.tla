-------------------------- MODULE MetaAgent_proofs --------------------------
(***************************************************************************)
(* The safety properties of MetaAgent for every max_iterations, review      *)
(* limit, budget and set of scores.  None of them is inductive alone: the   *)
(* invariant IInv adds what each state of the loop knows about the trend,   *)
(* the counters and the versions.                                           *)
(***************************************************************************)
EXTENDS MetaAgent, TLAPS

EarlyState == {"PERCEIVING", "SIGNALING", "MODELING", "PLANNING", "REVIEWING",
               "OPTIMIZING"}

\* While the coroutine runs nothing has failed, and the reviewer's count is below
\* its limit until it fails the run.
RunShape ==
  /\ run = "running" => failure = "none"
  /\ failure # "none" => state = "FAILED"
  /\ IF failure = "rejected" THEN review_iterations = MaxReviews
                             ELSE review_iterations < MaxReviews

\* Nothing has been refined before SIMULATING; a loop state still has an iteration
\* to spend, and after a refinement the detector has nothing left to report.
CountShape ==
  /\ iteration_count <= MaxIterations
  /\ state \in EarlyState => iteration_count = 0
  /\ state \in {"SIMULATING", "REFINING"} => iteration_count < MaxIterations
  /\ state = "SIMULATING" /\ iteration_count > 0 => ~Anomalous(before, last)

\* How far the impact report lags behind the plan.
ReportShape ==
  /\ state = "REFINING" =>
       version = simulated \/ (version = simulated + 1 /\ escalated)
  /\ state = "VALIDATING" /\ iteration_count < MaxIterations =>
       escalated /\ version \in {simulated, simulated + 1}

\* Files appear in the order _finalize writes them.
OutputShape ==
  written \in {{}, {"dataset"}, {"dataset", "pipeline"},
               {"dataset", "pipeline", "report"}, Artifacts}

IInv ==
  /\ TypeOK
  /\ RunShape
  /\ CountShape
  /\ ReportShape
  /\ OutputShape
  /\ ExecutedPlanWasValidated

-----------------------------------------------------------------------------
(* Typing.                                                                  *)

\* The artifact _finalize writes next is one of the four.
LEMMA NextArtifactType == NextArtifact \in Artifacts
BY DEF NextArtifact, Artifacts

\* Planning keeps the attributes in their ranges.
LEMMA PlanType == ASSUME TypeOK, _plan PROVE TypeOK'
<1> USE DEF TypeOK
<1>1. /\ state' \in State
      /\ failure' \in {"none", "error", "budget", "timeout", "rejected", "overrides"}
      /\ run' \in {"running", "returned", "cancelled"}
  BY DEF _plan, Goto, Fail, At, State
<1>2. plan' \in [risky : BOOLEAN] BY DEF _plan
<1>3. signoff' \in BOOLEAN BY DEF _plan
<1>4. before' \in Scores \cup {NoScore} /\ last' \in Scores \cup {NoScore} BY DEF _plan
<1> QED BY <1>1, <1>2, <1>3, <1>4 DEF _plan, refining, output

\* So does reviewing.
LEMMA ReviewType == ASSUME TypeOK, _review PROVE TypeOK'
<1> USE DEF TypeOK
<1>1. /\ state' \in State
      /\ failure' \in {"none", "error", "budget", "timeout", "rejected", "overrides"}
      /\ run' \in {"running", "returned", "cancelled"}
  BY DEF _review, HumanRejects, ReviewerRejects, ReviewerApproves, Goto, Fail, At, State
<1>2. plan' \in [risky : BOOLEAN] /\ signoff' \in BOOLEAN
  <2>1. CASE ReviewerApproves
    <3>0. plan.risky \in BOOLEAN OBVIOUS
    <3>1. plan' \in [risky : BOOLEAN]
      <4>1. ASSUME NEW r \in {FALSE, plan.risky}, plan' = [risky |-> r]
            PROVE  plan' \in [risky : BOOLEAN]
        <5>1. r \in BOOLEAN BY <3>0
        <5> QED BY <4>1, <5>1
      <4> QED BY <2>1, <4>1 DEF ReviewerApproves
    <3>2. signoff' \in BOOLEAN BY <2>1 DEF ReviewerApproves
    <3> QED BY <3>1, <3>2
  <2>2. CASE HumanRejects BY <2>2 DEF HumanRejects
  <2>3. CASE ReviewerRejects BY <2>3 DEF ReviewerRejects
  <2> QED BY <2>1, <2>2, <2>3 DEF _review
<1>3. rejection_feedback' \in Sources /\ review_iterations' \in Nat
  <2>1. CASE ReviewerApproves BY <2>1 DEF ReviewerApproves
  <2>2. CASE HumanRejects BY <2>2 DEF HumanRejects, Sources
  <2>3. CASE ReviewerRejects BY <2>3 DEF ReviewerRejects, Sources
  <2> QED BY <2>1, <2>2, <2>3 DEF _review
<1>4. elapsed' \in 0..MaxWall
  <2>1. Later \in 0..MaxWall BY MetaAgentAssumption DEF Later
  <2> QED BY <2>1 DEF _review, HumanRejects
<1> QED BY <1>1, <1>2, <1>3, <1>4 DEF _review, refining, trend, output

\* So does a worker thread that outlives its coroutine.
LEMMA OrphanType == ASSUME TypeOK, OrphanWrites PROVE TypeOK'
BY NextArtifactType DEF OrphanWrites, TypeOK, planning, refining, trend

\* So does refining.
LEMMA RefineType == ASSUME TypeOK, _refine PROVE TypeOK'
<1>1. state' \in State BY DEF _refine, Goto, State
<1>2. version' \in Nat /\ iteration_count' \in Nat BY DEF _refine, TypeOK
<1>3. escalated' \in BOOLEAN BY DEF _refine, TypeOK
<1>4. before' \in Scores \cup {NoScore} BY DEF _refine, TypeOK
<1>5. UNCHANGED <<run, failure>> BY DEF _refine, Goto
<1> QED BY <1>1, <1>2, <1>3, <1>4, <1>5 DEF _refine, TypeOK, planning, output

\* Every step keeps the attributes in their ranges.
LEMMA TypeStep == ASSUME TypeOK, [Next]_vars PROVE TypeOK'
<1> USE MetaAgentAssumption
<1> USE DEF TypeOK, State, At, Goto, Fail, planning, refining, trend, output
<1>1. CASE _perceive
  <2>1. cache_hit' \in BOOLEAN BY <1>1 DEF _perceive
  <2>2. version' \in Nat /\ state' \in State BY <1>1 DEF _perceive
  <2> QED BY <1>1, <2>1, <2>2 DEF _perceive
<1>2. CASE _signal BY <1>2 DEF _signal
<1>3. CASE _model BY <1>3 DEF _model
<1>4. CASE _plan BY <1>4, PlanType
<1>5. CASE _review BY <1>5, ReviewType
<1>6. CASE _optimize BY <1>6 DEF _optimize
<1>7. CASE _simulate
  <2>1. state' \in State /\ escalated' \in BOOLEAN BY <1>7 DEF _simulate
  <2> QED BY <1>7, <2>1 DEF _simulate
<1>8. CASE _refine BY <1>8, RefineType
<1>9. CASE _validate BY <1>9 DEF _validate
<1>10. CASE _execute BY <1>10 DEF _execute
<1>11. CASE _finalize BY <1>11, NextArtifactType DEF _finalize
<1>12. CASE Raise BY <1>12 DEF Raise
<1>13. CASE Cancel
  <2>1. orphan' \in BOOLEAN BY <1>13 DEF Cancel
  <2> QED BY <1>13, <2>1 DEF Cancel
<1>14. CASE OrphanWrites BY <1>14, OrphanType
<1>15. CASE Clock BY <1>15 DEF Clock
<1>16. CASE UNCHANGED vars BY <1>16 DEF vars
<1> QED
  BY <1>1, <1>2, <1>3, <1>4, <1>5, <1>6, <1>7, <1>8, <1>9, <1>10, <1>11, <1>12, <1>13,
     <1>14, <1>15, <1>16 DEF Next, Handler

-----------------------------------------------------------------------------
(* The invariant.                                                           *)

\* Every step keeps the invariant.
LEMMA InvStep == ASSUME IInv, [Next]_vars PROVE IInv'
<1> USE MetaAgentAssumption
<1>0. TypeOK' BY TypeStep DEF IInv
<1>1. RunShape'
  <2> USE DEF IInv, TypeOK, RunShape, At, Goto, Fail, planning
  <2>1. CASE _review
    <3>1. CASE HumanRejects BY <2>1, <3>1 DEF _review, HumanRejects
    <3>2. CASE ReviewerRejects BY <2>1, <3>2 DEF _review, ReviewerRejects
    <3>3. CASE ReviewerApproves BY <2>1, <3>3 DEF _review, ReviewerApproves
    <3> QED BY <2>1, <3>1, <3>2, <3>3 DEF _review
  <2>2. CASE _perceive \/ _signal \/ _model \/ _plan \/ _optimize
    BY <2>2 DEF _perceive, _signal, _model, _plan, _optimize
  <2>3. CASE _simulate \/ _refine \/ _validate BY <2>3 DEF _simulate, _refine, _validate
  <2>4. CASE _execute \/ _finalize BY <2>4 DEF _execute, _finalize
  <2>5. CASE Raise \/ Cancel \/ OrphanWrites \/ Clock
    BY <2>5 DEF Raise, Cancel, OrphanWrites, Clock
  <2>6. CASE UNCHANGED vars BY <2>6 DEF vars
  <2> QED BY <2>1, <2>2, <2>3, <2>4, <2>5, <2>6 DEF Next, Handler
<1>2. CountShape'
  <2> USE DEF IInv, TypeOK, CountShape, EarlyState, At, Goto, Fail, refining, trend
  <2>1. CASE _refine
    <3>1. ~StillAnomalous => ~Anomalous(last, last) /\ escalated' = escalated
      BY <2>1 DEF _refine, StillAnomalous
    <3>2. ~StillAnomalous => ~Anomalous(before, last)'
      BY <2>1, <3>1 DEF _refine, Anomalous
    <3> QED BY <2>1, <3>2 DEF _refine, IterationsLeft
  <2>2. CASE _simulate BY <2>2 DEF _simulate
  <2>3. CASE _validate BY <2>3 DEF _validate, IterationsLeft
  <2>4. CASE _perceive \/ _signal \/ _model \/ _plan \/ _optimize
    BY <2>4 DEF _perceive, _signal, _model, _plan, _optimize
  <2>5. CASE _review
    BY <2>5 DEF _review, HumanRejects, ReviewerRejects, ReviewerApproves
  <2>6. CASE _execute \/ _finalize BY <2>6 DEF _execute, _finalize
  <2>7. CASE Raise \/ Cancel \/ OrphanWrites \/ Clock
    BY <2>7 DEF Raise, Cancel, OrphanWrites, Clock, Anomalous
  <2>8. CASE UNCHANGED vars BY <2>8 DEF vars, Anomalous
  <2> QED BY <2>1, <2>2, <2>3, <2>4, <2>5, <2>6, <2>7, <2>8 DEF Next, Handler
<1>3. ReportShape'
  <2> USE DEF IInv, TypeOK, CountShape, ReportShape, At, Goto, Fail, refining, trend
  <2>1. CASE _refine
    <3>1. StillAnomalous => ~escalated /\ escalated'
      BY <2>1 DEF _refine, StillAnomalous, Anomalous
    <3> QED BY <2>1, <3>1 DEF _refine, IterationsLeft
  <2>2. CASE _simulate BY <2>2 DEF _simulate
  <2>3. CASE _validate BY <2>3 DEF _validate, IterationsLeft
  <2>4. CASE _perceive \/ _signal \/ _model \/ _plan \/ _optimize
    BY <2>4 DEF _perceive, _signal, _model, _plan, _optimize
  <2>5. CASE _review
    BY <2>5 DEF _review, HumanRejects, ReviewerRejects, ReviewerApproves
  <2>6. CASE _execute \/ _finalize BY <2>6 DEF _execute, _finalize
  <2>7. CASE Raise \/ Cancel \/ OrphanWrites \/ Clock
    BY <2>7 DEF Raise, Cancel, OrphanWrites, Clock
  <2>8. CASE UNCHANGED vars BY <2>8 DEF vars
  <2> QED BY <2>1, <2>2, <2>3, <2>4, <2>5, <2>6, <2>7, <2>8 DEF Next, Handler
<1>4. OutputShape'
  <2> USE DEF IInv, OutputShape, output
  <2>1. CASE _finalize \/ OrphanWrites
    <3>1. written' = written \cup {NextArtifact} BY <2>1 DEF _finalize, OrphanWrites
    <3> QED BY <3>1 DEF NextArtifact, Artifacts
  <2>2. CASE UNCHANGED written BY <2>2 DEF Artifacts
  <2>3. [Next]_vars /\ ~_finalize /\ ~OrphanWrites => UNCHANGED written
    BY DEF Next, Handler, vars, _perceive, _signal, _model, _plan, _review, _optimize,
       _simulate, _refine, _validate, _execute, Raise, Cancel, Clock
  <2> QED BY <2>1, <2>2, <2>3
<1>5. ExecutedPlanWasValidated'
  <2> USE DEF IInv, TypeOK, ExecutedPlanWasValidated, At, Goto, Fail, refining
  <2>1. CASE _perceive BY <2>1 DEF _perceive
  <2>2. CASE _signal \/ _model \/ _plan \/ _optimize
    BY <2>2 DEF _signal, _model, _plan, _optimize
  <2>3. CASE _review
    BY <2>3 DEF _review, HumanRejects, ReviewerRejects, ReviewerApproves
  <2>4. CASE _simulate \/ _refine BY <2>4 DEF _simulate, _refine
  <2>5. CASE _validate BY <2>5 DEF _validate, IterationsLeft
  <2>6. CASE _execute \/ _finalize BY <2>6 DEF _execute, _finalize
  <2>7. CASE Raise \/ Cancel \/ OrphanWrites \/ Clock
    BY <2>7 DEF Raise, Cancel, OrphanWrites, Clock
  <2>8. CASE UNCHANGED vars BY <2>8 DEF vars
  <2> QED BY <2>1, <2>2, <2>3, <2>4, <2>5, <2>6, <2>7, <2>8 DEF Next, Handler
<1> QED BY <1>0, <1>1, <1>2, <1>3, <1>4, <1>5 DEF IInv

\* The invariant holds of every behaviour.
THEOREM Invariance == Spec => []IInv
<1>1. Init => IInv
  <2> SUFFICES ASSUME Init PROVE IInv OBVIOUS
  <2> USE MetaAgentAssumption DEF Init
  <2>1. TypeOK
    <3>1. state \in State /\ rejection_feedback \in Sources
      BY DEF State, Sources
    <3>2. plan \in [risky : BOOLEAN] OBVIOUS
    <3>3. elapsed \in 0..MaxWall OBVIOUS
    <3>4. cache_hit \in BOOLEAN /\ signoff \in BOOLEAN OBVIOUS
    <3>5. escalated \in BOOLEAN /\ orphan \in BOOLEAN OBVIOUS
    <3> QED BY <3>1, <3>2, <3>3, <3>4, <3>5 DEF TypeOK
  <2>2. RunShape BY DEF RunShape
  <2>3. CountShape BY DEF CountShape
  <2>4. ReportShape BY DEF ReportShape
  <2>5. OutputShape BY DEF OutputShape
  <2>6. ExecutedPlanWasValidated BY DEF ExecutedPlanWasValidated
  <2> QED BY <2>1, <2>2, <2>3, <2>4, <2>5, <2>6 DEF IInv
<1>2. IInv /\ [Next]_vars => IInv' BY InvStep
<1> QED BY <1>1, <1>2, PTL DEF Spec

-----------------------------------------------------------------------------
(* What follows from it.                                                    *)

\* The attributes of the agent stay in their ranges.
THEOREM TypeCorrect == Spec => []TypeOK
<1>1. IInv => TypeOK BY DEF IInv
<1> QED BY <1>1, Invariance, PTL

\* A refined plan never goes back to planning, review or optimization.
THEOREM RefinedPlansAreNotReviewed == Spec => []NoReviewAfterRefinement
<1>1. IInv => NoReviewAfterRefinement
  BY DEF IInv, CountShape, EarlyState, TypeOK, NoReviewAfterRefinement
<1> QED BY <1>1, Invariance, PTL

\* A plan is refined at most max_iterations times.
THEOREM RefinementsAreBounded == Spec => []IterationsBounded
<1>1. IInv => IterationsBounded BY DEF IInv, CountShape, IterationsBounded
<1> QED BY <1>1, Invariance, PTL

\* The reviewer's rejections abort the run exactly at their limit.
THEOREM ReviewLimitIsExact == Spec => []AbortsAtReviewLimit
<1>1. IInv => AbortsAtReviewLimit
  BY MetaAgentAssumption DEF IInv, RunShape, TypeOK, AbortsAtReviewLimit
<1> QED BY <1>1, Invariance, PTL

\* The plan that is executed is the one that was validated.
THEOREM ExecutionIsValidated == Spec => []ExecutedPlanWasValidated
<1>1. IInv => ExecutedPlanWasValidated BY DEF IInv
<1> QED BY <1>1, Invariance, PTL

\* The refiner works from a stale impact report only after an anomaly.
THEOREM StalenessIsBounded == Spec => []StaleImpactOnlyAfterAnomaly
<1>1. IInv => StaleImpactOnlyAfterAnomaly
  BY DEF IInv, ReportShape, StaleImpactOnlyAfterAnomaly
<1> QED BY <1>1, Invariance, PTL

\* The cache record never exists without the complete set of artifacts.
THEOREM RecordIsLast == Spec => []RecordImpliesArtifacts
<1>1. IInv => RecordImpliesArtifacts
  BY DEF IInv, OutputShape, Artifacts, RecordImpliesArtifacts
<1> QED BY <1>1, Invariance, PTL
=============================================================================
