------------------------------ MODULE Pipeline -------------------------------
(* The data a job carries through the stages of MetaAgent: from the table to   *)
(* signals, to a graph of candidate actions, to an optimized and refined plan, *)
(* to the transforms run on the frame and the files written in the end. One    *)
(* action is one stage, except that the optimizer picks one action and the     *)
(* executor runs one node at a time, and that FINALIZING writes one file at a  *)
(* time. The plan is a set of actions: every topological sort on its way takes *)
(* the order from a Python set, so any order may be the one executed.          *)
EXTENDS ActionGraph, Integers
LOCAL INSTANCE FiniteSetsExt

CONSTANTS
  Jobs,            \* the jobs to look at: the table, its target and the facts about it
  Budget,          \* PlanOptimizer.budget, in hundredths
  MaxColumns,      \* PlanRefiner.max_cols
  MaxIterations    \* max_iterations

\* pandas renames the later of two columns of one name when it reads the file.
ASSUME PipelineAssumption ==
  /\ Budget \in Nat /\ MaxColumns \in Nat
  /\ MaxIterations \in Nat \ {0}
  /\ \A j \in Jobs :
       /\ j.low \in BOOLEAN
       /\ j.table \in Seq(Column)
       /\ \A i, k \in DOMAIN j.table : j.table[i].name = j.table[k].name => i = k

VARIABLES
  job,              \* its table in canonical order, target column, the facts the rules
                    \* of SignalRules read, the columns of which the refiner's sample,
                    \* the first 500 rows, shows at most one value (flat), whether that
                    \* sample takes over 512 MB in numbers to downcast (heavy), and
                    \* whether confidence is low
  state,            \* MetaAgent.state
  signals,          \* signal_bag
  nodes, edges,     \* signal_graph, its edges as pairs of ids in conflict
  selected, cost,   \* PlanOptimizer: selected_nodes, current_cost
  actions, version, \* optimized_plan
  simulated,        \* impact_report: the version it is about, and final_column_count
  validated,        \* validation_report: the version it is about, and the outcome
  iteration_count,
  todo, current,    \* the DAG: actions not begun, transforms of the one begun
  frame,            \* DAGExecutor.df: what was done to each column it still has
  applied,          \* actions_applied
  written           \* files in outputs/ and the saved state

modelled == <<job, signals, nodes, edges>>
planned  == <<selected, cost, actions, version, simulated, validated, iteration_count>>
executed == <<todo, current, frame, applied, written>>
vars == <<state, modelled, planned, executed>>

Columns(table) == {table[i].name : i \in DOMAIN table}

NoReport == [version |-> 0, columns |-> 0]
NoVerdict == [version |-> 0, outcome |-> "none"]

Init ==
  /\ job \in Jobs
  /\ state = "PERCEIVING"
  /\ signals = <<>>
  /\ nodes = {} /\ edges = {}
  /\ selected = {} /\ cost = 0
  /\ actions = {} /\ version = 0
  /\ simulated = NoReport
  /\ validated = NoVerdict
  /\ iteration_count = 0
  /\ todo = {} /\ current = {}
  /\ frame = [c \in Columns(job.table) |-> {}]
  /\ applied = <<>>
  /\ written = {}

Fail == state' = "FAILED"
Goto(from, to) == state = from /\ state' = to

-----------------------------------------------------------------------------
(* From the table to the graph.                                                *)

Perceive == Goto("PERCEIVING", "SIGNALING") /\ UNCHANGED <<modelled, planned, executed>>

SignalStage ==
  /\ Goto("SIGNALING", "MODELING")
  /\ signals' = Compressed(Ranked(RawSignals(job.table, job)))
  /\ UNCHANGED <<job, nodes, edges, planned, executed>>

Model ==
  /\ state = "MODELING"
  /\ LET built == Nodes(signals)
     IN  IF PrereqRaises(built)
         THEN Fail /\ UNCHANGED <<nodes, edges>>
         ELSE state' = "PLANNING" /\ nodes' = built /\ edges' = Conflicts(built)
  /\ UNCHANGED <<job, signals, planned, executed>>

\* What the planner proposes and the reviewer approves is self.plan; nothing behind
\* OPTIMIZING reads it.
Plan   == Goto("PLANNING", "REVIEWING") /\ UNCHANGED <<modelled, planned, executed>>
Review == Goto("REVIEWING", "OPTIMIZING") /\ UNCHANGED <<modelled, planned, executed>>

-----------------------------------------------------------------------------
(* PlanOptimizer, with the configuration {}: lambdas 0.3, 0.5 and 0.1.         *)

Greatest(a, b) == IF a > b THEN a ELSE b

AggregateRisk(sel) == CHOOSE r \in {0} \cup {n.risk : n \in sel} : \A n \in sel : r >= n.risk

Score_CostIgnored(n, sel) ==
  n.benefit - 500000 * Greatest(AggregateRisk(sel), n.risk) - 1000000 * Cardinality(sel)

Score(n, sel) ==
  n.benefit - 30000 * n.cost - 500000 * Greatest(AggregateRisk(sel), n.risk)
            - 1000000 * Cardinality(sel)

Clear(n, sel) == \A m \in sel : <<n.id, m.id>> \notin edges /\ <<m.id, n.id>> \notin edges

IsFeasible_AlwaysAffordable(n) == n.risk < 10 /\ Clear(n, selected)

IsFeasible(n) == cost + n.cost <= Budget /\ n.risk < 10 /\ Clear(n, selected)

Feasible_FirstOnly ==
  {n \in nodes \ selected :
     /\ IsFeasible(n)
     /\ \A m \in nodes \ selected : Score(n, selected) >= Score(m, selected)}

Feasible == {n \in nodes \ selected : IsFeasible(n)}

\* The best-scored of the feasible ones; equals keep the order of the graph, which
\* is left open.
Pick ==
  /\ state = "OPTIMIZING"
  /\ \E n \in Feasible :
       /\ \A m \in Feasible : Score(n, selected) >= Score(m, selected)
       /\ selected' = selected \cup {n}
       /\ cost' = cost + n.cost
  /\ UNCHANGED <<state, modelled, actions, version, simulated, validated, iteration_count,
                 executed>>

ActionOf(n) == [id |-> n.id, type |-> n.type, cols |-> n.cols]

Optimized ==
  /\ Goto("OPTIMIZING", "SIMULATING")
  /\ Feasible = {}
  /\ actions' = {ActionOf(n) : n \in selected}
  /\ version' = 1
  /\ UNCHANGED <<modelled, selected, cost, simulated, validated, iteration_count, executed>>

-----------------------------------------------------------------------------
(* GlobalStateSimulator and PlanRefiner.                                       *)

\* Only drops change the projected column count, and applying an action to the sample
\* changes nothing. Of the leakage and ordering checks only the temporal one looks for a
\* type of action there is, IMPUTE_MEAN; what it reports makes the refiner write fit_on
\* into the action and strip it off again.
Simulate ==
  /\ Goto("SIMULATING", "REFINING")
  /\ LET dropped == MapThenSumSet(LAMBDA a : Cardinality(a.cols),
                                 {a \in actions : a.type = "drop"})
     IN  simulated' = [version |-> version,
                       columns |-> Greatest(0, Len(job.table) + job.other - dropped)]
  /\ UNCHANGED <<modelled, selected, cost, actions, version, validated, iteration_count,
                 executed>>

\* Both measures put an action without an id into the plan, which OptimizedPlan then
\* refuses: target encoding (the label column is always set) for one-hot encoding that,
\* by the sample, would widen a table that is too wide already, and a downcast when the
\* sample is heavy. The simulator leaves no trace that would tell better.
Replaces ==
  \/ /\ simulated.columns > MaxColumns
     /\ \E a \in actions : a.type = "one_hot_encode" /\ ~(a.cols \subseteq job.flat)
  \/ job.heavy

\* Actions of one type are merged, all or none, if they share no column and no edge
\* joins them. The merged action keeps the id of the first.
Group(type) == {a \in actions : a.type = type}

Mergeable(type) ==
  \A a, b \in Group(type) : a # b => a.cols \cap b.cols = {} /\ <<a.id, b.id>> \notin edges

Merged_HeadOnly(head) == head

Merged(head) == [head EXCEPT !.cols = UNION {a.cols : a \in Group(head.type)}]

Consolidated(heads) ==
  {Merged(h) : h \in heads} \cup {a \in actions : ~Mergeable(a.type)}

Heads == {h \in SUBSET {a \in actions : Mergeable(a.type)} :
            /\ \A a, b \in h : a.type = b.type => a = b
            /\ {a.type : a \in h} = {a.type : a \in {x \in actions : Mergeable(x.type)}}}

\* has_changes compares types and columns, not ids.
Shape(plan) == {<<a.type, a.cols>> : a \in plan}

HasChanges_Always(old, new) == TRUE

HasChanges(old, new) == Shape(new) # Shape(old)

IterationsLeft_OneMore(n) == n <= MaxIterations

IterationsLeft(n) == n < MaxIterations

\* The tracker has just been told the same score again: low ones are an anomaly, once.
Anomaly(n) == job.low /\ n = 1

Refine ==
  /\ state = "REFINING"
  /\ IF Replaces
     THEN Fail /\ UNCHANGED <<actions, version, iteration_count>>
     ELSE /\ \E heads \in Heads : actions' = Consolidated(heads)
          /\ version' = IF HasChanges(actions, actions') THEN version + 1 ELSE version
          /\ iteration_count' = iteration_count + 1
          /\ state' = IF Anomaly(iteration_count') \/ ~IterationsLeft(iteration_count')
                      THEN "VALIDATING" ELSE "SIMULATING"
  /\ UNCHANGED <<modelled, selected, cost, simulated, validated, executed>>

\* The transforms are not applied to the sample (NoOpTransformExecutor) but its rows
\* are shuffled, so the two scores that are compared come from different splits of the
\* same data: either verdict may come out, the same one every time. Or there is none:
\* accuracy is not defined for a continuous target or one that misses values, and the
\* first validation shows it.
Verdicts == IF validated = NoVerdict THEN {"passed", "warned"} ELSE {validated.outcome}

Validate ==
  /\ state = "VALIDATING"
  /\ \/ validated = NoVerdict /\ Fail /\ UNCHANGED <<validated, todo>>
     \/ \E outcome \in Verdicts :
          /\ validated' = [version |-> version, outcome |-> outcome]
          /\ state' = IF outcome = "warned" /\ IterationsLeft(iteration_count)
                      THEN "REFINING" ELSE "EXECUTING"
          /\ todo' = IF state' = "EXECUTING" THEN actions ELSE todo
  /\ UNCHANGED <<modelled, selected, cost, actions, version, simulated, iteration_count,
                 current, frame, applied, written>>

-----------------------------------------------------------------------------
(* PlanTranslator, DAGBuilder and DAGExecutor.                                 *)

\* The types of ACTION_MAP that a plan can hold; the others are dropped silently.
Translatable(a) == a.type \in {"impute_mean", "impute_knn", "one_hot_encode", "drop"}

Transforms_FirstColumn(a) ==
  IF Translatable(a) THEN {[action |-> a, column |-> CHOOSE c \in a.cols : TRUE]} ELSE {}

Transforms(a) == IF Translatable(a) THEN {[action |-> a, column |-> c] : c \in a.cols} ELSE {}

\* One transform per column, action by action.
Ready == IF current # {} THEN current ELSE UNION {Transforms(a) : a \in todo}

Without(f, c) == [x \in DOMAIN f \ {c} |-> f[x]]
Dummies(c) == c \o <<"*">>       \* stands for the columns get_dummies makes of c
Imputed(f, S) == [x \in DOMAIN f |-> IF x \in S THEN f[x] \cup {"imputed"} ELSE f[x]]

NumericColumns == {c \in DOMAIN frame : \E i \in DOMAIN job.table :
                     job.table[i].name = c /\ job.table[i].dtype \in {"float", "int"}}

\* Imputing or dropping a column that is gone is no error and does nothing; KNN fills
\* every number.
Done(t) ==
  CASE t.action.type = "impute_mean" -> Imputed(frame, {t.column})
    [] t.action.type = "impute_knn" ->
         Imputed(frame, IF t.column \in DOMAIN frame THEN NumericColumns ELSE {})
    [] t.action.type = "drop" -> Without(frame, t.column)
    [] OTHER -> [x \in DOMAIN Without(frame, t.column) \cup {Dummies(t.column)} |->
                   IF x = Dummies(t.column) THEN {"encoded"} ELSE frame[x]]

Raises(t) == t.action.type = "one_hot_encode" /\ t.column \notin DOMAIN frame

\* A failing node leaves the checkpoint taken before it.
RunNode ==
  /\ state = "EXECUTING"
  /\ \E t \in Ready :
       IF Raises(t)
       THEN Fail /\ UNCHANGED <<todo, current, frame, applied>>
       ELSE /\ todo' = todo \ {t.action}
            /\ current' = IF current = {} THEN Transforms(t.action) \ {t} ELSE current \ {t}
            /\ frame' = Done(t)
            /\ applied' = Append(applied, <<t.action.type, t.column>>)
            /\ UNCHANGED state
  /\ UNCHANGED <<modelled, planned, written>>

\* An empty plan is refused before translation; one of which nothing can be
\* translated runs no node and succeeds.
Executed ==
  /\ state = "EXECUTING" /\ Ready = {}
  /\ IF actions = {} THEN Fail /\ UNCHANGED todo ELSE state' = "FINALIZING" /\ todo' = {}
  /\ UNCHANGED <<modelled, planned, current, frame, applied, written>>

-----------------------------------------------------------------------------
(* DatasetWriter, PipelineExporter, ReportGenerator and StateManager.          *)

\* The exporter has its own map, of other types than the translator's, and builds a
\* step for each column of an action it knows.
Exportable(a) == a.type \in {"impute_mean", "impute_knn", "one_hot_encode", "label_encode"}
Steps == UNION {{<<a.type, c>> : c \in a.cols} : a \in {x \in actions : Exportable(x)}}

Write(file) == state' = state /\ written' = written \cup {file}

\* A frame without columns is not written; the pickle is dumped before the script is
\* refused for lack of steps.
Finalize ==
  /\ state = "FINALIZING"
  /\ IF "dataset" \notin written
     THEN IF DOMAIN frame = {} /\ job.other = 0
          THEN Fail /\ UNCHANGED written ELSE Write("dataset")
     ELSE IF "pkl" \notin written THEN Write("pkl")
     ELSE IF "script" \notin written
          THEN IF Steps = {} THEN Fail /\ UNCHANGED written ELSE Write("script")
     ELSE IF "report" \notin written THEN Write("report")
     ELSE state' = "COMPLETED" /\ written' = written \cup {"record"}
  /\ UNCHANGED <<modelled, planned, todo, current, frame, applied>>

Stage ==
  \/ Perceive \/ SignalStage \/ Model \/ Plan \/ Review \/ Pick \/ Optimized
  \/ Simulate \/ Refine \/ Validate \/ RunNode \/ Executed \/ Finalize

Next == Stage
Spec == Init /\ [][Next]_vars
-----------------------------------------------------------------------------
(* Correctness.                                                                *)

Stages == {"PERCEIVING", "SIGNALING", "MODELING", "PLANNING", "REVIEWING", "OPTIMIZING",
           "SIMULATING", "REFINING", "VALIDATING", "EXECUTING", "FINALIZING", "COMPLETED",
           "FAILED"}
Files == {"dataset", "pkl", "script", "report", "record"}

\* What the stages hand on keeps its shape: the plan's actions name columns, the
\* executor's transforms belong to actions of the plan.
TypeOK ==
  /\ state \in Stages
  /\ selected \subseteq nodes
  /\ cost \in Nat /\ cost <= Budget
  /\ version \in Nat
  /\ simulated.version \in 0 .. version
  /\ validated.version \in 0 .. version
  /\ iteration_count \in 0 .. MaxIterations
  /\ todo \subseteq actions
  /\ \A t \in current : t.action \in actions
  /\ written \subseteq Files

\* The work of a plan: what is to be done to which column.
Work(plan) == UNION {{<<a.type, c>> : c \in a.cols} : a \in plan}

\* From selection through every merge to execution, no two actions of a plan are at
\* odds: no column is both dropped and worked on, imputed twice or encoded twice.
NoConflictingWork == \A a, b \in actions : a # b => ~IsConflict(a, b)

\* Refinement rearranges what the optimizer selected and neither loses nor adds work,
\* however often the loops run it: a merged action takes over every column.
WorkSurvivesRefinement == version > 0 => Work(actions) = Work(selected)

\* Refining again what has been refined changes nothing, so the version, which counts
\* the changes, never passes 2.
RefinementSettles == version <= 2

\* The graph forgets a column that a signal asks something for only when the columns
\* of two signals spell the same id: a_b and the pair of a and b.
ColumnsLostOnlyToNameClash ==
  nodes # {} =>
    \A i \in DOMAIN signals : \A c \in Contributions(signals[i]) :
      \/ \E n \in nodes : n.type = c.type /\ c.cols \subseteq n.cols
      \/ \E j \in DOMAIN signals :
           signals[j].cols # signals[i].cols /\ Join(signals[j].cols) = Join(signals[i].cols)

\* When the optimizer stops, every candidate left out is critical, in conflict with one
\* it took, or beyond what the budget has left: the best-scored one being out of reach
\* does not end the search.
SelectionIsMaximal ==
  version > 0 => \A n \in nodes \ selected :
    n.risk = 10 \/ cost + n.cost > Budget \/ \E m \in selected : IsConflict(n, m)

\* KNN imputation costs more and is rated riskier than what its higher benefit makes
\* up for, so imputing by the mean is always there first and excludes it.
MeanBeatsKnn == \A n \in selected : n.type # "impute_knn"

\* A completed job has done to every column what the optimizer selected for it and the
\* executor knows: in any order, after any merge, exactly once, and the frame shows it.
Finished == state \in {"FINALIZING", "COMPLETED"}
Asked == Work({a \in {ActionOf(n) : n \in selected} : Translatable(a)})

WorkDoneOnce ==
  Finished => /\ {applied[i] : i \in DOMAIN applied} = Asked
              /\ \A i, j \in DOMAIN applied : applied[i] = applied[j] => i = j

Shows(w) ==
  CASE w[1] = "impute_mean" -> w[2] \in DOMAIN frame => "imputed" \in frame[w[2]]
    [] w[1] = "impute_knn" -> w[2] \in NumericColumns => "imputed" \in frame[w[2]]
    [] w[1] = "drop" -> w[2] \notin DOMAIN frame
    [] OTHER -> w[2] \notin DOMAIN frame /\ Dummies(w[2]) \in DOMAIN frame

\* No column of the table bears a name get_dummies makes up for another one.
NamesApart == \A c, d \in Columns(job.table) : c # Dummies(d)

WorkIsVisible == Finished /\ NamesApart => \A w \in Asked : Shows(w)

SelectedWorkIsDone == WorkDoneOnce /\ WorkIsVisible

\* A job fails while its graph is built only over a categorical column that both misses
\* values and asks for an encoding.
ModelingFailsOnGappyCategories ==
  state = "FAILED" /\ signals # <<>> /\ nodes = {} =>
    \E i \in DOMAIN job.table :
      LET c == job.table[i]
      IN  Categorical(c) /\ (HighMissing(c) \/ ModerateMissing(c)) /\ c.card >= 2

-----------------------------------------------------------------------------
(* What the repository says of the program and the code does not do.           *)

\* The upload page of the target column: "Never transformed except imputation."
\* (app/pages/1_upload.py:117). No stage from the rules to the executor asks which
\* column is the target.
TargetNeverTransformed ==
  \A i \in DOMAIN applied : applied[i][2] = job.target =>
    applied[i][1] \in {"impute_mean", "impute_knn"}

-----------------------------------------------------------------------------
(* The job machine of MetaAgent, of which this is the data: its handlers with  *)
(* the planner's plan, the reviews and the scores left out.                    *)
Scored == IF job.low THEN 2 ELSE 9
Unplanned == {"PERCEIVING", "SIGNALING", "MODELING", "PLANNING"}

Machine == INSTANCE MetaAgent WITH
  MaxReviews <- 3, Scores <- {2, 9}, MaxWall <- 1, CanHit <- FALSE, RiskKey <- "operation",
  run <- IF state \in {"COMPLETED", "FAILED"} THEN "returned" ELSE "running",
  failure <- IF state = "FAILED" THEN "error" ELSE "none",
  plan <- [risky |-> FALSE],
  simulated <- simulated.version,
  validated <- validated.version,
  verdict <- validated.outcome,
  cache_hit <- FALSE, review_iterations <- 0, rejection_feedback <- "none", signoff <- FALSE,
  before <- IF iteration_count = 0 THEN -1 ELSE Scored,
  last <- IF state \in Unplanned \/ (state = "FAILED" /\ version = 0) THEN -1 ELSE Scored,
  escalated <- job.low /\ iteration_count > 0,
  elapsed <- 0,
  written <- (written \cap {"dataset", "report", "record"})
               \cup (IF "script" \in written THEN {"pipeline"} ELSE {}),
  orphan <- FALSE

\* Every stage here is a step of that machine, or part of one, whatever the data.
ImplementsMetaAgent == Machine!Spec
=============================================================================
