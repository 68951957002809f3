----------------------------- MODULE MetaAgent ------------------------------
(***************************************************************************)
(* core/agent/meta_agent.py: the 13-state machine that drives one job, with *)
(* the AnomalyDetector and the RiskEngine whose answers route it.  One      *)
(* action is one handler of MetaAgent.run; FINALIZING, which leaves files   *)
(* behind, takes one action per file.  Plans are reduced to what the        *)
(* routing and the properties see of them: the LLM's plan to whether it     *)
(* holds a high-risk action, the optimized plan to its version number.      *)
(***************************************************************************)
EXTENDS Integers, FiniteSets

CONSTANTS
  MaxIterations,  \* max_iterations, 1..5 on the upload page (1_upload.py:121)
  MaxReviews,     \* max_review_iterations
  Scores,         \* confidence scores the planner may report, in tenths
  MaxWall,        \* BOUND and budget: max_wall_seconds, in human answers
  CanHit,         \* whether the registry may hold a record that counts as a hit
  RiskKey         \* the field of an action the risk engine looks at

ASSUME MetaAgentAssumption ==
  /\ MaxIterations \in Nat \ {0}
  /\ MaxReviews \in Nat \ {0}
  /\ Scores \subseteq 0..10
  /\ MaxWall \in Nat \ {0}
  /\ CanHit \in BOOLEAN
  /\ RiskKey \in {"operation", "action_type"}

VARIABLES
  state,               \* self.state
  run,                 \* the coroutine: running, returned, or ended by cancellation
  failure,             \* history: why state is FAILED
  plan,                \* self.plan
  version,             \* self.optimized_plan.version; 0 is None
  simulated,           \* the version self.impact_report was made from; 0 is None
  validated,           \* the version self.validation_report is about; 0 is None
  verdict,             \* its outcome
  cache_hit,
  iteration_count,
  review_iterations,
  rejection_feedback,  \* its "source"
  signoff,             \* history: a human has approved self.plan
  before, last,        \* the last two scores of the ConfidenceTracker's trend
  escalated,           \* state_uuid is in AnomalyDetector.escalated_uuids
  elapsed,             \* wall clock since register_job
  written,             \* what _finalize has put on disk
  orphan               \* a cancelled await has left its worker thread running

planning == <<plan, rejection_feedback, signoff, review_iterations>>
refining == <<version, simulated, validated, verdict, iteration_count>>
trend    == <<before, last, escalated>>
output   == <<written, orphan>>
vars == <<state, run, failure, planning, refining, cache_hit, trend, elapsed, output>>

State == {"PERCEIVING", "SIGNALING", "MODELING", "PLANNING", "REVIEWING",
          "OPTIMIZING", "SIMULATING", "REFINING", "VALIDATING", "EXECUTING",
          "FINALIZING", "COMPLETED", "FAILED"}
Sources == {"none", "HITL", "HITL_TIMEOUT", "REVIEWER"}
Artifacts == {"dataset", "pipeline", "report", "record"}
NoScore == -1

Init ==
  /\ state = "PERCEIVING"
  /\ run = "running"
  /\ failure = "none"
  /\ plan = [risky |-> FALSE]     \* not read before _plan has set it
  /\ version = 0
  /\ simulated = 0
  /\ validated = 0
  /\ verdict = "none"
  /\ cache_hit = FALSE
  /\ iteration_count = 0
  /\ review_iterations = 0
  /\ rejection_feedback = "none"
  /\ signoff = FALSE
  /\ before = NoScore
  /\ last = NoScore
  /\ escalated = FALSE
  /\ elapsed = 0
  /\ written = {}
  /\ orphan = FALSE

-----------------------------------------------------------------------------
(* What the handlers ask of other objects.                                  *)

\* AnomalyDetector.check on the scores a, b at the end of the trend.
Anomalous(a, b) ==
  /\ ~escalated
  /\ a # NoScore
  /\ \/ a - b >= 3
     \/ b < 4
     \/ a < 5 /\ b < 5

StillAnomalous_NotAsked == FALSE

\* The same check in _refine, which has just recorded last once more.
StillAnomalous == Anomalous(last, last)

\* RiskEngine.assess: actions carry the key action_type and never operation, so
\* the engine of hitl.py, which reads operation, finds nothing.
requires_hitl(p) == RiskKey = "action_type" /\ p.risky

BudgetAvailable_Always == TRUE

\* BudgetController.assert_budget_available: token and cost counters stay at
\* zero (record_usage has no caller), which leaves the wall clock.
BudgetAvailable == elapsed < MaxWall

IterationsLeft_OneMore(n) == n <= MaxIterations

\* `<` in _validate, and `>=` the other way round in _refine, which has counted already.
IterationsLeft(n) == n < MaxIterations

\* Time passes; the clock need not be followed past the budget.
Later == IF elapsed < MaxWall THEN elapsed + 1 ELSE elapsed

Goto(s) == state' = s /\ UNCHANGED <<run, failure>>
Fail(why) == state' = "FAILED" /\ failure' = why /\ run' = "returned"
At(s) == state = s /\ run = "running"

-----------------------------------------------------------------------------
(* The handlers.                                                            *)

\* A restored bundle brings its plan and goes straight to EXECUTING.
_perceive ==
  /\ At("PERCEIVING")
  /\ \/ /\ CanHit
        /\ version' = 1
        /\ cache_hit' = TRUE
        /\ Goto("EXECUTING")
     \/ Goto("SIGNALING") /\ UNCHANGED <<version, cache_hit>>
  /\ UNCHANGED <<planning, simulated, validated, verdict, iteration_count, trend,
                 elapsed, output>>

_signal ==
  /\ At("SIGNALING")
  /\ Goto("MODELING")
  /\ UNCHANGED <<planning, refining, cache_hit, trend, elapsed, output>>

_model ==
  /\ At("MODELING")
  /\ Goto("PLANNING")
  /\ UNCHANGED <<planning, refining, cache_hit, trend, elapsed, output>>

\* generate_plan is never given self.rejection_feedback.
_plan ==
  /\ At("PLANNING")
  /\ \/ /\ BudgetAvailable
        /\ \E r \in BOOLEAN : plan' = [risky |-> r]
        /\ \E s \in Scores : last' = s
        /\ before' = last
        /\ signoff' = FALSE
        /\ Goto("REVIEWING")
     \/ /\ ~BudgetAvailable
        /\ Fail("budget")
        /\ UNCHANGED <<plan, signoff, before, last>>
  /\ UNCHANGED <<rejection_feedback, review_iterations, refining, cache_hit, escalated,
                 elapsed, output>>

\* HITLGate.request_approval under wait_for, when it does not approve.
HumanRejects ==
  /\ requires_hitl(plan)
  /\ elapsed' = Later
  /\ \/ rejection_feedback' = "HITL" /\ Goto("PLANNING")
     \/ rejection_feedback' = "HITL_TIMEOUT" /\ Fail("timeout")
  /\ UNCHANGED <<plan, signoff, review_iterations>>

ReviewerRejects ==
  /\ rejection_feedback' = "REVIEWER"
  /\ review_iterations' = review_iterations + 1
  /\ IF review_iterations' >= MaxReviews THEN Fail("rejected") ELSE Goto("PLANNING")
  /\ UNCHANGED <<plan, signoff>>

\* Overrides raise KeyError in _apply_overrides: the plan's actions have an id,
\* not an action_id.  The normalizer may drop or demote what was risky.
ReviewerApproves ==
  /\ signoff' = IF requires_hitl(plan) THEN TRUE ELSE signoff
  /\ \/ /\ Goto("OPTIMIZING")
        /\ \E r \in {FALSE, plan.risky} : plan' = [risky |-> r]
     \/ Fail("overrides") /\ UNCHANGED plan
  /\ UNCHANGED <<rejection_feedback, review_iterations>>

_review ==
  /\ At("REVIEWING")
  /\ \/ HumanRejects
     \/ /\ elapsed' = IF requires_hitl(plan) THEN Later ELSE elapsed
        /\ ReviewerRejects \/ ReviewerApproves
  /\ UNCHANGED <<refining, cache_hit, trend, output>>

\* The optimizer starts from the signal graph and not from the reviewed plan.
_optimize ==
  /\ At("OPTIMIZING")
  /\ version' = 1
  /\ Goto("SIMULATING")
  /\ UNCHANGED <<planning, simulated, validated, verdict, iteration_count, cache_hit,
                 trend, elapsed, output>>

_simulate_StopsAtAnomaly ==
  /\ At("SIMULATING")
  /\ simulated' = version
  /\ IF Anomalous(before, last)
     THEN Goto("HITL") /\ escalated' = TRUE
     ELSE Goto("REFINING") /\ UNCHANGED escalated
  /\ UNCHANGED <<planning, version, validated, verdict, iteration_count, cache_hit,
                 before, last, elapsed, output>>

_simulate_KeepsReport ==
  /\ At("SIMULATING")
  /\ simulated' = IF simulated = 0 THEN version ELSE simulated
  /\ IF Anomalous(before, last)
     THEN Goto("REVIEWING") /\ escalated' = TRUE
     ELSE Goto("REFINING") /\ UNCHANGED escalated
  /\ UNCHANGED <<planning, version, validated, verdict, iteration_count, cache_hit,
                 before, last, elapsed, output>>

_simulate ==
  /\ At("SIMULATING")
  /\ simulated' = version
  /\ IF Anomalous(before, last)
     THEN Goto("REVIEWING") /\ escalated' = TRUE
     ELSE Goto("REFINING") /\ UNCHANGED escalated
  /\ UNCHANGED <<planning, version, validated, verdict, iteration_count, cache_hit,
                 before, last, elapsed, output>>

\* PlanRefiner bumps the version only when it changed the plan; the tracker is
\* given the planner's score again.
_refine ==
  /\ At("REFINING")
  /\ version' \in {version, version + 1}
  /\ iteration_count' = iteration_count + 1
  /\ before' = last
  /\ escalated' = IF StillAnomalous THEN TRUE ELSE escalated
  /\ IF StillAnomalous \/ ~IterationsLeft(iteration_count')
     THEN Goto("VALIDATING") ELSE Goto("SIMULATING")
  /\ UNCHANGED <<planning, simulated, validated, verdict, cache_hit, last, elapsed, output>>

_validate_SkipsOnLimit ==
  /\ At("VALIDATING")
  /\ \/ /\ IterationsLeft(iteration_count)
        /\ validated' = version
        /\ verdict' \in {"passed", "warned"}
        /\ Goto(IF verdict' = "passed" THEN "EXECUTING" ELSE "REFINING")
     \/ /\ ~IterationsLeft(iteration_count)
        /\ Goto("EXECUTING")
        /\ UNCHANGED <<validated, verdict>>
  /\ UNCHANGED <<planning, version, simulated, iteration_count, cache_hit, trend, elapsed,
                 output>>

\* Violations of severity CRITICAL would raise; ValidationEngine has only HIGH ones.
_validate ==
  /\ At("VALIDATING")
  /\ validated' = version
  /\ verdict' \in {"passed", "warned"}
  /\ IF verdict' = "warned" /\ IterationsLeft(iteration_count)
     THEN Goto("REFINING") ELSE Goto("EXECUTING")
  /\ UNCHANGED <<planning, version, simulated, iteration_count, cache_hit, trend, elapsed,
                 output>>

_execute ==
  /\ At("EXECUTING")
  /\ Goto("FINALIZING")
  /\ UNCHANGED <<planning, refining, cache_hit, trend, elapsed, output>>

\* The file that comes next: dataset, pipeline, report, and the record last.
NextArtifact_RecordFirst ==
  IF "record" \notin written THEN "record"
  ELSE IF "dataset" \notin written THEN "dataset"
  ELSE IF "pipeline" \notin written THEN "pipeline" ELSE "report"
NextArtifact ==
  IF "dataset" \notin written THEN "dataset"
  ELSE IF "pipeline" \notin written THEN "pipeline"
  ELSE IF "report" \notin written THEN "report" ELSE "record"

_finalize ==
  /\ At("FINALIZING")
  /\ written' = written \cup {NextArtifact}
  /\ IF written' = Artifacts
     THEN state' = "COMPLETED" /\ run' = "returned" /\ UNCHANGED failure
     ELSE Goto("FINALIZING")
  /\ UNCHANGED <<planning, refining, cache_hit, trend, elapsed, orphan>>

Handler ==
  \/ _perceive \/ _signal \/ _model \/ _plan \/ _review \/ _optimize \/ _simulate
  \/ _refine \/ _validate \/ _execute \/ _finalize

-----------------------------------------------------------------------------
(* What may happen to a handler from outside.                               *)

\* Any handler may raise: run() catches it, records FAILED and returns.
Raise ==
  /\ run = "running"
  /\ Fail("error")
  /\ UNCHANGED <<planning, refining, cache_hit, trend, elapsed, output>>

\* CancelledError is no Exception: run() does not catch it and state stays as it
\* was.  The thread of an asyncio.to_thread in progress runs on.
Cancel ==
  /\ run = "running"
  /\ run' = "cancelled"
  /\ orphan' = (state = "FINALIZING")
  /\ UNCHANGED <<state, failure, planning, refining, cache_hit, trend, elapsed, written>>

OrphanWrites ==
  /\ orphan
  /\ orphan' = FALSE
  /\ written' = written \cup {NextArtifact}
  /\ UNCHANGED <<state, run, failure, planning, refining, cache_hit, trend, elapsed>>

Clock ==
  /\ run = "running"
  /\ elapsed < MaxWall
  /\ elapsed' = elapsed + 1
  /\ UNCHANGED <<state, run, failure, planning, refining, cache_hit, trend, output>>

Next == Handler \/ Raise \/ Cancel \/ OrphanWrites \/ Clock

Spec == Init /\ [][Next]_vars

(***************************************************************************)
(* Every call a handler awaits answers in the end: the files and the LLM   *)
(* clients return or raise, and the HITL wait has its own timeout.         *)
(***************************************************************************)
FairSpec == Spec /\ WF_vars(Handler)

-----------------------------------------------------------------------------
(* Correctness.                                                             *)

\* Every attribute of the agent stays in its range.
TypeOK ==
  /\ state \in State
  /\ run \in {"running", "returned", "cancelled"}
  /\ failure \in {"none", "error", "budget", "timeout", "rejected", "overrides"}
  /\ plan \in [risky : BOOLEAN]
  /\ version \in Nat
  /\ simulated \in Nat
  /\ validated \in Nat
  /\ verdict \in {"none", "passed", "warned"}
  /\ cache_hit \in BOOLEAN
  /\ iteration_count \in Nat
  /\ review_iterations \in Nat
  /\ rejection_feedback \in Sources
  /\ signoff \in BOOLEAN
  /\ before \in Scores \cup {NoScore}
  /\ last \in Scores \cup {NoScore}
  /\ escalated \in BOOLEAN
  /\ elapsed \in 0..MaxWall
  /\ written \subseteq Artifacts
  /\ orphan \in BOOLEAN

\* A plan that has been refined never goes back to planning or review, although
\* _simulate asks the same detector as _refine: the check in _refine has already
\* used up, or cleared, whatever the check in _simulate could see.  Refinements
\* would otherwise be thrown away by _optimize while iteration_count kept them.
NoReviewAfterRefinement ==
  iteration_count > 0 => state \notin {"PLANNING", "REVIEWING", "OPTIMIZING"}

\* The loops SIMULATING-REFINING and VALIDATING-REFINING together refine a plan at
\* most max_iterations times, although the one asks after counting and the other before.
IterationsBounded == iteration_count <= MaxIterations

\* The reviewer's rejections abort the run exactly when they reach the limit,
\* whatever human rejections and anomaly reviews came between them.
AbortsAtReviewLimit ==
  /\ review_iterations <= MaxReviews
  /\ review_iterations = MaxReviews <=> failure = "rejected"

\* What is executed is what was validated: the report is about this very version
\* of the plan, and it passed or the iterations were used up.
ExecutedPlanWasValidated ==
  state \in {"EXECUTING", "FINALIZING", "COMPLETED"} /\ ~cache_hit =>
    /\ validated = version
    /\ verdict = "passed" \/ iteration_count >= MaxIterations

\* A plan is refined from a report about an earlier version of it only when an
\* anomaly has cut the simulation loop short, and never twice in a row.
StaleImpactOnlyAfterAnomaly ==
  state = "REFINING" /\ simulated # version => escalated /\ version = simulated + 1

\* The record that the cache may serve later exists only beside the complete set
\* of artifacts, even when the run was cancelled while a worker thread was writing.
RecordImpliesArtifacts == "record" \in written => written = Artifacts

\* The run ends, although human rejections are not counted: each costs wall-clock
\* budget, the reviewer's are limited, an anomaly is raised once and refinements
\* are limited.
Terminates == <>(run # "running")

-----------------------------------------------------------------------------
(* What the documentation says of the code.                                 *)

\* "High-risk mutations [...] are explicitly put on hold, prompting human approval"
\* (README.md:131): no plan with a high-risk action goes on from the review without
\* a human's approval of it.  The shipped engine holds none.
HighRiskPlansHeld == state = "OPTIMIZING" /\ plan.risky => signoff
=============================================================================
