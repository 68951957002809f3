---------------------------- MODULE ModelRotation ----------------------------
(* core/agent/agent.py: the calls a job's planner and reviewer make on a pool  *)
(* of models. Both roles are methods of one PlannerAgent (app/factory.py:222)  *)
(* and share its index into the pool, which outlives a call. An action is what *)
(* the coroutine does between two awaits: the completion in its worker thread, *)
(* and the sleep after a refusal. Which calls are made, and when they end, is  *)
(* MetaAgent's _plan and _review, with the shipped risk engine, which asks no  *)
(* human.                                                                      *)
EXTENDS Integers, Sequences

CONSTANTS
  PoolSize,     \* the length of MODEL_POOL, 3 as shipped
  MaxReviews    \* max_review_iterations

ASSUME RotationAssumption == PoolSize \in Nat \ {0} /\ MaxReviews \in Nat \ {0}

VARIABLES
  index,              \* _model_index
  pc,                 \* ready to call, asking, sleeping; or how it ended
  role,               \* context: planner or reviewer
  attempts,
  asked,              \* history: the models this call has asked, in order
  winner,             \* history: the model that answered the last call; -1 for none
  review_iterations,
  escalated           \* an anomaly has sent the plan back to review

dialogue == <<role, winner, review_iterations, escalated>>
vars == <<index, pc, attempts, asked, dialogue>>

Models == 0 .. PoolSize - 1
NoModel == -1

Init ==
  /\ index = 0
  /\ pc = "ready"
  /\ role = "planner"
  /\ attempts = 0
  /\ asked = <<>>
  /\ winner = NoModel
  /\ review_iterations = 0
  /\ escalated = FALSE

Rotated_NoWrap(i) == i + 1

Rotated_StopsAtLast(i) == IF i + 1 < PoolSize THEN i + 1 ELSE i

Rotated(i) == (i + 1) % PoolSize

\* The head of the loop: another model is asked as long as attempts allow.
Try(n, before) ==
  /\ attempts' = n
  /\ IF n < PoolSize
     THEN pc' = "asking" /\ asked' = Append(before, index')
     ELSE pc' = "exhausted" /\ asked' = before

Call_FromTheTop ==
  /\ pc = "ready"
  /\ index' = 0
  /\ Try(0, <<>>)
  /\ UNCHANGED dialogue

Call ==
  /\ pc = "ready"
  /\ index' = index
  /\ Try(0, <<>>)
  /\ UNCHANGED dialogue

\* RateLimitError, NotFoundError or ServiceUnavailableError.
Refuse ==
  /\ pc = "asking"
  /\ index' = Rotated(index)
  /\ pc' = "sleeping"
  /\ UNCHANGED <<attempts, asked, dialogue>>

\* After the last refusal, too, the coroutine sleeps before it gives up.
Wake ==
  /\ pc = "sleeping"
  /\ index' = index
  /\ Try(attempts + 1, asked)
  /\ UNCHANGED dialogue

\* Any other error, or an answer that is not the JSON asked for, fails the job
\* without another model being asked.
Break ==
  /\ pc = "asking"
  /\ pc' = "failed"
  /\ UNCHANGED <<index, attempts, asked, dialogue>>

Planned ==
  /\ role = "planner"
  /\ pc' = "ready" /\ role' = "reviewer"
  /\ UNCHANGED review_iterations

Approved ==
  /\ role = "reviewer"
  /\ pc' = "approved"
  /\ UNCHANGED <<role, review_iterations>>

Rejected ==
  /\ role = "reviewer"
  /\ review_iterations' = review_iterations + 1
  /\ role' = "planner"
  /\ pc' = IF review_iterations' >= MaxReviews THEN "failed" ELSE "ready"

Answer ==
  /\ pc = "asking"
  /\ winner' = asked[Len(asked)]
  /\ Planned \/ Approved \/ Rejected
  /\ UNCHANGED <<index, attempts, asked, escalated>>

\* An approved plan comes back for another review once, from _simulate.
Reconsider ==
  /\ pc = "approved" /\ ~escalated
  /\ pc' = "ready" /\ escalated' = TRUE
  /\ UNCHANGED <<index, attempts, asked, role, winner, review_iterations>>

\* A cancellation during the completion leaves its thread behind, whose answer
\* nobody reads; during the sleep, an index that has moved on already.
Cancel ==
  /\ pc \in {"asking", "sleeping"}
  /\ pc' = "cancelled"
  /\ UNCHANGED <<index, attempts, asked, dialogue>>

Next == Call \/ Refuse \/ Wake \/ Break \/ Answer \/ Reconsider \/ Cancel
Spec == Init /\ [][Next]_vars

-----------------------------------------------------------------------------
(* Correctness.                                                                *)

TypeOK ==
  /\ index \in Models
  /\ pc \in {"ready", "asking", "sleeping", "exhausted", "failed", "approved", "cancelled"}
  /\ role \in {"planner", "reviewer"}
  /\ attempts \in 0 .. PoolSize
  /\ asked \in Seq(Models)
  /\ winner \in Models \cup {NoModel}
  /\ review_iterations \in 0 .. MaxReviews
  /\ escalated \in BOOLEAN

\* Wherever earlier calls have left the index, a call asks no model twice, and gives up
\* only when every model of the pool has refused it.
EveryModelOncePerCall ==
  /\ \A i, j \in DOMAIN asked : asked[i] = asked[j] => i = j
  /\ pc = "exhausted" => \A x \in Models : \E i \in DOMAIN asked : asked[i] = x

\* Planner and reviewer profit from each other's failures: a call begins with the model
\* that answered the last one, never with one that has just refused.
WinnerIsAskedFirst ==
  winner # NoModel =>
    /\ pc = "ready" => index = winner
    /\ pc \in {"asking", "sleeping", "exhausted"} => asked[1] = winner
=============================================================================
