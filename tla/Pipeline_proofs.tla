--------------------------- MODULE Pipeline_proofs ---------------------------
(* Proofs about Pipeline, for every table and every setting of the stages. The *)
(* scores decide which actions are selected; all but MeanIsAlwaysFirst holds   *)
(* for any selection they could lead to.                                       *)
EXTENDS Pipeline, ActionGraph_proofs

-----------------------------------------------------------------------------
(* Merging.                                                                    *)

Fields(a) == a = [id |-> a.id, type |-> a.type, cols |-> a.cols]
PlanShape == \A a \in actions : Fields(a)

\* Whether two actions conflict depends on their types once they share a column.
LEMMA ConflictByTypes ==
  ASSUME NEW a, NEW b, NEW x, NEW y, x.type = a.type, y.type = b.type,
         a.cols \cap b.cols # {}, IsConflict(x, y)
  PROVE  IsConflict(a, b)
  BY DEF IsConflict, Overlap, Imputes, Encodes

LEMMA MergedShape ==
  ASSUME PlanShape, NEW h \in actions
  PROVE  /\ Fields(Merged(h))
         /\ Merged(h).type = h.type
         /\ Merged(h).cols = UNION {a.cols : a \in Group(h.type)}
<1>1. h = [id |-> h.id, type |-> h.type, cols |-> h.cols] BY DEF PlanShape, Fields
<1>2. Merged(h) = [id |-> h.id, type |-> h.type, cols |-> UNION {a.cols : a \in Group(h.type)}]
  BY <1>1 DEF Merged
<1> QED BY <1>2 DEF Fields

\* What an action of the merged plan does to a column, an action of the plan did; and
\* there is one merged action per mergeable type.
LEMMA ConsolidatedParts ==
  ASSUME PlanShape, NEW heads \in Heads, NEW x \in Consolidated(heads)
  PROVE  /\ Fields(x)
         /\ \A c \in x.cols : \E a \in actions :
              a.type = x.type /\ c \in a.cols /\ (Mergeable(x.type) \/ a = x)
         /\ Mergeable(x.type) => \E h \in heads : h.type = x.type /\ x = Merged(h)
<1>1. CASE \E h \in heads : x = Merged(h)
  <2>1. PICK h \in heads : x = Merged(h) BY <1>1
  <2>2. h \in actions /\ Mergeable(h.type) BY DEF Heads
  <2>3. /\ Fields(x) /\ x.type = h.type
        /\ x.cols = UNION {a.cols : a \in Group(h.type)}
    BY <2>1, <2>2, MergedShape
  <2> QED BY <2>1, <2>2, <2>3 DEF Group
<1>2. CASE x \in actions /\ ~Mergeable(x.type) BY <1>2 DEF PlanShape
<1> QED BY <1>1, <1>2 DEF Consolidated

LEMMA MergingKeepsPeace ==
  ASSUME PlanShape, NoConflictingWork, NEW heads \in Heads,
         NEW x \in Consolidated(heads), NEW y \in Consolidated(heads), x # y
  PROVE  ~IsConflict(x, y)
<1> SUFFICES ASSUME IsConflict(x, y) PROVE FALSE OBVIOUS
<1>1. PICK c : c \in x.cols /\ c \in y.cols BY DEF IsConflict, Overlap
<1>2. PICK a \in actions : a.type = x.type /\ c \in a.cols /\ (Mergeable(x.type) \/ a = x)
  BY <1>1, ConsolidatedParts
<1>3. PICK b \in actions : b.type = y.type /\ c \in b.cols /\ (Mergeable(y.type) \/ b = y)
  BY <1>1, ConsolidatedParts
<1>4. a # b
  <2>1. CASE x.type # y.type BY <1>2, <1>3, <2>1
  <2>2. CASE x.type = y.type /\ ~Mergeable(x.type) BY <1>2, <1>3, <2>2
  <2>3. CASE x.type = y.type /\ Mergeable(x.type)
    <3>1. PICK h \in heads : h.type = x.type /\ x = Merged(h) BY <2>3, ConsolidatedParts
    <3>2. PICK g \in heads : g.type = y.type /\ y = Merged(g) BY <2>3, ConsolidatedParts
    <3>3. h = g BY <3>1, <3>2, <2>3 DEF Heads
    <3> QED BY <3>1, <3>2, <3>3
  <2> QED BY <2>1, <2>2, <2>3
<1>5. IsConflict(a, b) BY <1>1, <1>2, <1>3, ConflictByTypes
<1> QED BY <1>4, <1>5 DEF NoConflictingWork

LEMMA MergingKeepsWork ==
  ASSUME PlanShape, NEW heads \in Heads
  PROVE  Work(Consolidated(heads)) = Work(actions)
<1>1. ASSUME NEW x \in Consolidated(heads), NEW c \in x.cols
      PROVE  <<x.type, c>> \in Work(actions)
  <2>1. PICK a \in actions : a.type = x.type /\ c \in a.cols BY ConsolidatedParts
  <2> QED BY <2>1 DEF Work
<1>2. ASSUME NEW a \in actions, NEW c \in a.cols
      PROVE  <<a.type, c>> \in Work(Consolidated(heads))
  <2>1. CASE ~Mergeable(a.type)
    <3>1. a \in Consolidated(heads) BY <2>1 DEF Consolidated
    <3> QED BY <3>1 DEF Work
  <2>2. CASE Mergeable(a.type)
    <3>1. a.type \in {z.type : z \in {x \in actions : Mergeable(x.type)}} BY <2>2
    <3>2. PICK h \in heads : h.type = a.type BY <3>1 DEF Heads
    <3>3. h \in actions BY DEF Heads
    <3>4. Merged(h).type = a.type /\ c \in Merged(h).cols
      BY <3>2, <3>3, MergedShape DEF Group
    <3>5. Merged(h) \in Consolidated(heads) BY <3>2 DEF Consolidated
    <3> QED BY <3>4, <3>5 DEF Work
  <2> QED BY <2>1, <2>2
<1>3. Work(Consolidated(heads)) \subseteq Work(actions) BY <1>1 DEF Work
<1>4. Work(actions) \subseteq Work(Consolidated(heads)) BY <1>2 DEF Work
<1> QED BY <1>3, <1>4

-----------------------------------------------------------------------------
(* The invariant.                                                              *)

Early   == {"PERCEIVING", "SIGNALING", "MODELING", "PLANNING", "REVIEWING", "OPTIMIZING"}
Looping == {"SIMULATING", "REFINING", "VALIDATING"}

\* What each stage finds.
StageShape ==
  /\ state \in Early => version = 0 /\ iteration_count = 0 /\ actions = {}
  /\ state \in {"PERCEIVING", "SIGNALING", "MODELING"} => selected = {} /\ nodes = {}
  /\ state \in Looping \cup {"EXECUTING", "FINALIZING", "COMPLETED"} => version > 0
  /\ state \in {"SIMULATING", "REFINING"} => iteration_count < MaxIterations
  /\ state \in Early \cup Looping => todo = {} /\ current = {}
  /\ version = 0 => actions = {}

GraphShape ==
  /\ edges = Conflicts(nodes)
  /\ \A n \in nodes : n.cost \in Costs /\ n.risk \in Risks
  /\ \A n, m \in nodes : n.id = m.id => n = m

SelectionPeace == \A n, m \in selected : n # m => ~IsConflict(n, m)

IInv ==
  /\ TypeOK /\ StageShape /\ GraphShape /\ PlanShape
  /\ SelectionPeace /\ NoConflictingWork
  /\ WorkSurvivesRefinement /\ SelectionIsMaximal

LEMMA InitIInv == Init => IInv
<1> SUFFICES ASSUME Init PROVE IInv OBVIOUS
<1>1. TypeOK BY PipelineAssumption DEF Init, TypeOK, Stages, NoReport, NoVerdict
<1>2. StageShape BY PipelineAssumption DEF Init, StageShape, Early, Looping
<1>3. GraphShape BY DEF Init, GraphShape, Conflicts
<1>4. PlanShape /\ SelectionPeace /\ NoConflictingWork
  BY DEF Init, PlanShape, SelectionPeace, NoConflictingWork
<1>5. WorkSurvivesRefinement /\ SelectionIsMaximal
  BY DEF Init, WorkSurvivesRefinement, SelectionIsMaximal
<1> QED BY <1>1, <1>2, <1>3, <1>4, <1>5 DEF IInv

\* A selected node's conflicts are edges of the graph, which Clear has looked at.
LEMMA PickKeepsPeace ==
  ASSUME IInv, Pick PROVE SelectionPeace' /\ selected' \subseteq nodes
<1>1. PICK n \in Feasible : selected' = selected \cup {n} BY DEF Pick
<1>2. n \in nodes /\ n \notin selected /\ Clear(n, selected) BY DEF Feasible, IsFeasible
<1>3. selected \subseteq nodes /\ edges = Conflicts(nodes) BY DEF IInv, TypeOK, GraphShape
<1>4. ASSUME NEW m \in selected PROVE ~IsConflict(n, m) /\ ~IsConflict(m, n)
  <2>1. m \in nodes /\ m # n BY <1>2, <1>3
  <2>2. <<n.id, m.id>> \notin Conflicts(nodes) /\ <<m.id, n.id>> \notin Conflicts(nodes)
    BY <1>2, <1>3 DEF Clear
  <2> QED BY <2>1, <2>2, <1>2, ConflictsAreEdges
<1> QED BY <1>1, <1>2, <1>3, <1>4 DEF IInv, SelectionPeace

\* When nothing is feasible, each candidate left out fails one of the three tests.
LEMMA NothingFeasible ==
  ASSUME IInv, Feasible = {}, NEW n \in nodes \ selected
  PROVE  n.risk = 10 \/ cost + n.cost > Budget \/ \E m \in selected : IsConflict(n, m)
<1> SUFFICES ASSUME n.risk # 10, ~(cost + n.cost > Budget)
             PROVE  \E m \in selected : IsConflict(n, m)
  OBVIOUS
<1>1. n.cost \in Costs /\ n.risk \in Risks /\ cost \in Nat BY DEF IInv, GraphShape, TypeOK
<1>2. n.risk < 10 /\ cost + n.cost <= Budget BY <1>1, PipelineAssumption DEF Costs, Risks
<1>3. ~Clear(n, selected) BY <1>2 DEF Feasible, IsFeasible
<1>4. PICK m \in selected : <<n.id, m.id>> \in edges \/ <<m.id, n.id>> \in edges
  BY <1>3 DEF Clear
<1>5. /\ n \in nodes /\ m \in nodes /\ edges = Conflicts(nodes)
      /\ \A x, y \in nodes : x.id = y.id => x = y
  BY DEF IInv, TypeOK, GraphShape
<1>6. IsConflict(n, m) \/ IsConflict(m, n) BY <1>4, <1>5, EdgesAreConflicts
<1>7. IsConflict(n, m) BY <1>6 DEF IsConflict, Overlap
<1> QED BY <1>7

LEMMA NextIInv == IInv /\ [Next]_vars => IInv'
<1> SUFFICES ASSUME IInv, [Next]_vars PROVE IInv' OBVIOUS
<1> USE PipelineAssumption DEF modelled, planned, executed
<1>1. CASE Perceive \/ Plan \/ Review
  BY <1>1 DEF Perceive, Plan, Review, Goto, IInv, TypeOK, StageShape, GraphShape, PlanShape,
     SelectionPeace, NoConflictingWork, WorkSurvivesRefinement, SelectionIsMaximal,
     Stages, Early, Looping
<1>2. CASE SignalStage
  BY <1>2 DEF SignalStage, Goto, IInv, TypeOK, StageShape, GraphShape, PlanShape,
     SelectionPeace, NoConflictingWork, WorkSurvivesRefinement, SelectionIsMaximal,
     Stages, Early, Looping
<1>3. CASE Model
  <2>1. \/ nodes' = nodes /\ edges' = edges
        \/ nodes' = Nodes(signals) /\ edges' = Conflicts(Nodes(signals))
    BY <1>3 DEF Model
  <2>2. GraphShape'
    <3>1. CASE nodes' = nodes /\ edges' = edges BY <3>1 DEF IInv, GraphShape
    <3>2. CASE nodes' = Nodes(signals) /\ edges' = Conflicts(Nodes(signals))
      BY <3>2, NodeShape, NodesHaveOwnIds DEF GraphShape
    <3> QED BY <2>1, <3>1, <3>2
  <2>3. /\ state = "MODELING" /\ state' \in {"FAILED", "PLANNING"}
        /\ version = 0 /\ selected = {}
        /\ state' = "FAILED" => nodes' = nodes
        /\ UNCHANGED <<signals, planned, executed>>
    BY <1>3 DEF Model, Fail, IInv, StageShape, Early
  <2>4. TypeOK' /\ StageShape'
    <3>1. TypeOK' BY <2>3 DEF IInv, TypeOK, Stages
    <3>2. StageShape' BY <2>3 DEF IInv, StageShape, Early, Looping
    <3> QED BY <3>1, <3>2
  <2>5. PlanShape' /\ SelectionPeace' /\ NoConflictingWork'
    BY <2>3 DEF IInv, PlanShape, SelectionPeace, NoConflictingWork
  <2>6. WorkSurvivesRefinement' /\ SelectionIsMaximal'
    BY <2>3 DEF WorkSurvivesRefinement, SelectionIsMaximal
  <2> QED BY <2>2, <2>4, <2>5, <2>6 DEF IInv
<1>4. CASE Pick
  <2>1. PICK n \in Feasible : selected' = selected \cup {n} /\ cost' = cost + n.cost
    BY <1>4 DEF Pick
  <2>2. /\ state = "OPTIMIZING" /\ version = 0 /\ actions = {}
        /\ UNCHANGED <<state, modelled, actions, version, simulated, validated, iteration_count,
                       executed>>
    BY <1>4 DEF Pick, IInv, StageShape, Early
  <2>3. n \in nodes /\ cost + n.cost <= Budget /\ n.cost \in Costs
    BY <2>1 DEF Feasible, IsFeasible, IInv, GraphShape
  <2>4. cost' \in Nat /\ cost' <= Budget BY <2>1, <2>3 DEF Costs, IInv, TypeOK
  <2>5. SelectionPeace' /\ selected' \subseteq nodes BY <1>4, PickKeepsPeace
  <2>6. TypeOK' BY <2>2, <2>4, <2>5 DEF IInv, TypeOK
  <2>7. StageShape' BY <2>2 DEF IInv, StageShape, Early, Looping
  <2>8. GraphShape' /\ PlanShape' /\ NoConflictingWork'
    BY <2>2 DEF IInv, GraphShape, PlanShape, NoConflictingWork
  <2>9. WorkSurvivesRefinement' /\ SelectionIsMaximal'
    BY <2>2 DEF WorkSurvivesRefinement, SelectionIsMaximal
  <2> QED BY <2>5, <2>6, <2>7, <2>8, <2>9 DEF IInv
<1>5. CASE Optimized
  <2>1. /\ state = "OPTIMIZING" /\ state' = "SIMULATING" /\ Feasible = {} /\ version' = 1
        /\ actions' = {ActionOf(n) : n \in selected}
        /\ UNCHANGED <<modelled, selected, cost, simulated, validated, iteration_count, executed>>
    BY <1>5 DEF Optimized, Goto
  <2>2. version = 0 /\ iteration_count = 0 /\ todo = {} /\ current = {}
    BY <2>1 DEF IInv, StageShape, Early
  <2>3. \A n \in selected : /\ Fields(ActionOf(n))
                            /\ ActionOf(n).type = n.type /\ ActionOf(n).cols = n.cols
    BY DEF ActionOf, Fields
  <2>4. PlanShape' BY <2>1, <2>3 DEF PlanShape
  <2>5. NoConflictingWork'
    <3> SUFFICES ASSUME NEW n \in selected, NEW m \in selected, ActionOf(n) # ActionOf(m),
                        IsConflict(ActionOf(n), ActionOf(m))
                 PROVE  FALSE
      BY <2>1 DEF NoConflictingWork
    <3>1. n.cols \cap m.cols # {} BY <2>3 DEF IsConflict, Overlap
    <3>2. IsConflict(n, m) BY <2>3, <3>1, ConflictByTypes
    <3> QED BY <3>2 DEF IInv, SelectionPeace
  <2>6. WorkSurvivesRefinement'
    <3>1. Work(actions') = Work(selected) BY <2>1, <2>3 DEF Work
    <3> QED BY <2>1, <3>1 DEF WorkSurvivesRefinement, Work
  <2>7. SelectionIsMaximal'
    BY <2>1, NothingFeasible DEF SelectionIsMaximal
  <2>8. TypeOK'
    BY <2>1, <2>2 DEF IInv, TypeOK, Stages
  <2>9. StageShape' BY <2>1, <2>2 DEF StageShape, Early, Looping
  <2> QED BY <2>1, <2>4, <2>5, <2>6, <2>7, <2>8, <2>9 DEF IInv, GraphShape, SelectionPeace
<1>6. CASE Simulate
  <2>1. /\ state = "SIMULATING" /\ state' = "REFINING" /\ simulated'.version = version
        /\ UNCHANGED <<modelled, selected, cost, actions, version, validated, iteration_count,
                       executed>>
    BY <1>6 DEF Simulate, Goto
  <2>2. TypeOK' BY <2>1 DEF IInv, TypeOK, Stages
  <2>3. StageShape' BY <2>1 DEF IInv, StageShape, Early, Looping
  <2> QED BY <2>1, <2>2, <2>3
    DEF IInv, GraphShape, PlanShape, SelectionPeace, NoConflictingWork,
        WorkSurvivesRefinement, SelectionIsMaximal
<1>7. CASE Refine
  <2>1. CASE Replaces
    <3>1. /\ state = "REFINING" /\ state' = "FAILED"
          /\ UNCHANGED <<modelled, planned, executed>>
      BY <1>7, <2>1 DEF Refine, Fail
    <3> QED BY <3>1
      DEF IInv, TypeOK, StageShape, GraphShape, PlanShape, SelectionPeace, NoConflictingWork,
          WorkSurvivesRefinement, SelectionIsMaximal, Stages, Early, Looping
  <2>2. CASE ~Replaces
    <3>1. PICK heads \in Heads : actions' = Consolidated(heads) BY <1>7, <2>2 DEF Refine
    <3>2. /\ state = "REFINING" /\ state' \in {"VALIDATING", "SIMULATING"}
          /\ version' \in {version, version + 1}
          /\ iteration_count' = iteration_count + 1
          /\ state' = "SIMULATING" => iteration_count' < MaxIterations
          /\ UNCHANGED <<modelled, selected, cost, simulated, validated, executed>>
      BY <1>7, <2>2 DEF Refine, IterationsLeft
    <3>3. version > 0 /\ version \in Nat /\ todo = {} /\ current = {}
          /\ iteration_count \in Nat /\ iteration_count < MaxIterations
      BY <3>2 DEF IInv, TypeOK, StageShape, Looping
    <3>4. PlanShape /\ NoConflictingWork BY DEF IInv
    <3>5. PlanShape' BY <3>1, <3>4, ConsolidatedParts DEF PlanShape
    <3>6. NoConflictingWork' BY <3>1, <3>4, MergingKeepsPeace DEF NoConflictingWork
    <3>7. WorkSurvivesRefinement'
      <4>1. Work(actions') = Work(actions) BY <3>1, <3>4, MergingKeepsWork
      <4>2. Work(actions) = Work(selected) BY <3>3 DEF IInv, WorkSurvivesRefinement
      <4> QED BY <4>1, <4>2, <3>2 DEF WorkSurvivesRefinement, Work
    <3>8. TypeOK' BY <3>2, <3>3 DEF IInv, TypeOK, Stages
    <3>9. StageShape' BY <3>2, <3>3 DEF StageShape, Early, Looping
    <3>10. GraphShape' /\ SelectionPeace' BY <3>2 DEF IInv, GraphShape, SelectionPeace
    <3>11. SelectionIsMaximal' BY <3>2, <3>3 DEF IInv, SelectionIsMaximal
    <3> QED BY <3>5, <3>6, <3>7, <3>8, <3>9, <3>10, <3>11 DEF IInv
  <2> QED BY <2>1, <2>2
<1>8. CASE Validate
  <2>1. /\ state = "VALIDATING" /\ state' \in {"FAILED", "REFINING", "EXECUTING"}
        /\ state' = "REFINING" => iteration_count < MaxIterations
        /\ validated' = validated \/ validated'.version = version
        /\ todo' = IF state' = "EXECUTING" THEN actions ELSE todo
        /\ UNCHANGED <<modelled, selected, cost, actions, version, simulated, iteration_count,
                       current, frame, applied, written>>
    BY <1>8 DEF Validate, IterationsLeft, Fail
  <2>2. TypeOK' BY <2>1 DEF IInv, TypeOK, Stages
  <2>3. StageShape' BY <2>1 DEF IInv, StageShape, Early, Looping
  <2> QED BY <2>1, <2>2, <2>3
    DEF IInv, GraphShape, PlanShape, SelectionPeace, NoConflictingWork,
        WorkSurvivesRefinement, SelectionIsMaximal
<1>9. CASE RunNode
  <2>1. PICK t \in Ready :
          \/ state' = "FAILED" /\ UNCHANGED <<todo, current>>
          \/ /\ state' = state /\ todo' = todo \ {t.action}
             /\ current' \in {Transforms(t.action) \ {t}, current \ {t}}
    BY <1>9 DEF RunNode, Fail
  <2>2. state = "EXECUTING" /\ UNCHANGED <<modelled, planned, written>> BY <1>9 DEF RunNode
  <2>3. \A a : \A u \in Transforms(a) : u.action = a BY DEF Transforms
  <2>4. t.action \in actions
    <3>1. CASE current # {} BY <3>1 DEF Ready, IInv, TypeOK
    <3>2. CASE current = {} BY <3>2, <2>3 DEF Ready, IInv, TypeOK
    <3> QED BY <3>1, <3>2
  <2>5. TypeOK' BY <2>1, <2>2, <2>3, <2>4 DEF IInv, TypeOK, Stages
  <2>6. StageShape' BY <2>1, <2>2 DEF IInv, StageShape, Early, Looping
  <2> QED BY <2>2, <2>5, <2>6
    DEF IInv, GraphShape, PlanShape, SelectionPeace, NoConflictingWork,
        WorkSurvivesRefinement, SelectionIsMaximal
<1>10. CASE Executed
  <2>1. /\ state = "EXECUTING" /\ state' \in {"FAILED", "FINALIZING"} /\ todo' \in {todo, {}}
        /\ UNCHANGED <<modelled, planned, current, frame, applied, written>>
    BY <1>10 DEF Executed, Fail
  <2> QED BY <2>1
    DEF IInv, TypeOK, StageShape, GraphShape, PlanShape, SelectionPeace, NoConflictingWork,
        WorkSurvivesRefinement, SelectionIsMaximal, Stages, Early, Looping
<1>11. CASE Finalize
  <2>1. /\ state = "FINALIZING" /\ state' \in {"FAILED", "FINALIZING", "COMPLETED"}
        /\ written' \subseteq written \cup Files
        /\ UNCHANGED <<modelled, planned, todo, current, frame, applied>>
    BY <1>11 DEF Finalize, Fail, Write, Files
  <2> QED BY <2>1
    DEF IInv, TypeOK, StageShape, GraphShape, PlanShape, SelectionPeace, NoConflictingWork,
        WorkSurvivesRefinement, SelectionIsMaximal, Stages, Early, Looping
<1>12. CASE UNCHANGED vars
  BY <1>12 DEF vars, IInv, TypeOK, StageShape, GraphShape, PlanShape, SelectionPeace,
     NoConflictingWork, WorkSurvivesRefinement, SelectionIsMaximal
<1> QED
  BY <1>1, <1>2, <1>3, <1>4, <1>5, <1>6, <1>7, <1>8, <1>9, <1>10, <1>11, <1>12
  DEF Next, Stage

LEMMA AlwaysIInv == Spec => []IInv
  BY InitIInv, NextIInv, PTL DEF Spec

-----------------------------------------------------------------------------
(* The theorems.                                                               *)

\* What the stages hand on keeps its shape, for any table: a plan's cost is within the
\* budget, the reports are never ahead of the plan, the transforms are the plan's.
THEOREM TypeCorrect == Spec => []TypeOK
<1>1. IInv => TypeOK BY DEF IInv
<1> QED BY <1>1, AlwaysIInv, PTL

\* No selection, merge or loop of refinements ever brings two actions at odds into one
\* plan, whatever the scores.
THEOREM PlansAreConsistent == Spec => []NoConflictingWork
<1>1. IInv => NoConflictingWork BY DEF IInv
<1> QED BY <1>1, AlwaysIInv, PTL

\* Merging keeps the work of the plan, column by column, through every refinement.
THEOREM RefinementKeepsWork == Spec => []WorkSurvivesRefinement
<1>1. IInv => WorkSurvivesRefinement BY DEF IInv
<1> QED BY <1>1, AlwaysIInv, PTL

\* The greedy search leaves out only what cannot be added.
THEOREM SearchIsComplete == Spec => []SelectionIsMaximal
<1>1. IInv => SelectionIsMaximal BY DEF IInv
<1> QED BY <1>1, AlwaysIInv, PTL

-----------------------------------------------------------------------------
(* Execution: every unit of work is pending or applied, never both.            *)

Key(t) == <<t.action.type, t.column>>
AllTransforms(S) == UNION {Transforms(a) : a \in S}
Pending == current \cup AllTransforms(todo)

ExecutionShape ==
  /\ state \in Early \cup Looping => applied = <<>>
  /\ current \subseteq AllTransforms(actions)
  /\ \A t \in current : t.action \notin todo
  /\ state \in {"EXECUTING", "FINALIZING", "COMPLETED"} =>
       {applied[i] : i \in DOMAIN applied} = {Key(t) : t \in AllTransforms(actions) \ Pending}
  /\ applied \in Seq({Key(t) : t \in AllTransforms(actions)})
  /\ \A i, j \in DOMAIN applied : applied[i] = applied[j] => i = j
  /\ state \in {"FINALIZING", "COMPLETED"} => Pending = {}

EInv == IInv /\ ExecutionShape

\* A transform belongs to one action and one column, and, as no two actions of a plan
\* are at odds, its type and column tell which.
LEMMA TransformShape ==
  ASSUME NEW a, NEW t \in Transforms(a)
  PROVE  /\ Translatable(a) /\ t.action = a /\ t.column \in a.cols
         /\ t = [action |-> a, column |-> t.column]
  BY DEF Transforms

LEMMA KeysAreUnique ==
  ASSUME NoConflictingWork,
         NEW t \in AllTransforms(actions), NEW u \in AllTransforms(actions), Key(t) = Key(u)
  PROVE  t = u
<1>1. PICK a \in actions : t \in Transforms(a) BY DEF AllTransforms
<1>2. PICK b \in actions : u \in Transforms(b) BY DEF AllTransforms
<1>3. a.type = b.type /\ t.column = u.column /\ t.column \in a.cols /\ t.column \in b.cols
  BY <1>1, <1>2, TransformShape DEF Key
<1>4. a.type \in {"impute_mean", "impute_knn", "one_hot_encode", "drop"}
  BY <1>1, TransformShape DEF Translatable
<1>5. IsConflict(a, b) BY <1>3, <1>4 DEF IsConflict, Overlap, Imputes, Encodes
<1>6. a = b BY <1>5 DEF NoConflictingWork
<1> QED BY <1>1, <1>2, <1>3, <1>6, TransformShape

LEMMA KeysAreWork ==
  {Key(t) : t \in AllTransforms(actions)} = Work({a \in actions : Translatable(a)})
<1>1. ASSUME NEW t \in AllTransforms(actions)
      PROVE  Key(t) \in Work({a \in actions : Translatable(a)})
  <2>1. PICK a \in actions : t \in Transforms(a) BY DEF AllTransforms
  <2> QED BY <2>1, TransformShape DEF Key, Work
<1>2. ASSUME NEW a \in actions, Translatable(a), NEW c \in a.cols
      PROVE  \E t \in AllTransforms(actions) : <<a.type, c>> = Key(t)
  <2>1. [action |-> a, column |-> c] \in AllTransforms(actions)
    BY <1>2 DEF Transforms, AllTransforms
  <2>2. Key([action |-> a, column |-> c]) = <<a.type, c>> BY DEF Key
  <2> QED BY <2>1, <2>2
<1> QED BY <1>1, <1>2 DEF Work

\* Which work the executor knows depends on its type alone.
LEMMA KnownWork ==
  ASSUME NEW P, NEW Q, Work(P) = Work(Q)
  PROVE  Work({a \in P : Translatable(a)}) = Work({a \in Q : Translatable(a)})
<1> DEFINE Known(S) == Work({a \in S : Translatable(a)})
<1>1. ASSUME NEW S, NEW R, Work(S) = Work(R), NEW w \in Known(S) PROVE w \in Known(R)
  <2>1. PICK a \in S : Translatable(a) /\ \E c \in a.cols : w = <<a.type, c>> BY DEF Work
  <2>2. w \in Work(R) BY <2>1, <1>1 DEF Work
  <2>3. PICK b \in R : \E c \in b.cols : w = <<b.type, c>> BY <2>2 DEF Work
  <2>4. Translatable(b) BY <2>1, <2>3 DEF Translatable
  <2> QED BY <2>3, <2>4 DEF Work
<1> QED BY <1>1

\* One node: its key is new, and it leaves what is pending.
LEMMA RunNodeKeepsShape == EInv /\ RunNode => ExecutionShape'
<1> SUFFICES ASSUME EInv, RunNode PROVE ExecutionShape' OBVIOUS
<1>1. /\ state = "EXECUTING" /\ UNCHANGED <<modelled, planned, written>> BY DEF RunNode
<1>2. /\ NoConflictingWork /\ todo \subseteq actions
      /\ current \subseteq AllTransforms(actions)
      /\ \A t \in current : t.action \notin todo
  BY DEF EInv, IInv, TypeOK, ExecutionShape
<1>3. actions' = actions BY <1>1 DEF planned
<1>4. PICK t \in Ready :
        IF Raises(t) THEN state' = "FAILED" /\ UNCHANGED <<todo, current, applied>>
        ELSE /\ state' = state /\ todo' = todo \ {t.action}
             /\ current' = IF current = {} THEN Transforms(t.action) \ {t} ELSE current \ {t}
             /\ applied' = Append(applied, Key(t))
  BY DEF RunNode, Fail, Key
<1>5. CASE Raises(t)
  BY <1>1, <1>3, <1>4, <1>5 DEF EInv, ExecutionShape, Early, Looping, AllTransforms
<1>6. CASE ~Raises(t)
  <2>1. t \in Pending /\ t \in AllTransforms(actions)
    BY <1>2 DEF Ready, Pending, AllTransforms
  <2>2. /\ current' \subseteq AllTransforms(actions)
        /\ \A u \in current' : u.action \notin todo'
    <3>1. CASE current = {}
      <4>1. PICK a \in todo : t \in Transforms(a) BY <3>1 DEF Ready
      <4>2. t.action = a /\ a \in actions BY <4>1, <1>2, TransformShape
      <4>3. current' = Transforms(a) \ {t} /\ todo' = todo \ {a} BY <4>2, <3>1, <1>4, <1>6
      <4> QED BY <4>2, <4>3, TransformShape DEF AllTransforms
    <3>2. CASE current # {} BY <3>2, <1>2, <1>4, <1>6
    <3> QED BY <3>1, <3>2
  <2>3. Pending' = Pending \ {t}
    <3>1. CASE current = {}
      <4>1. PICK a \in todo : t \in Transforms(a) BY <3>1 DEF Ready
      <4>2. t.action = a BY <4>1, TransformShape
      <4>3. current' = Transforms(a) \ {t} /\ todo' = todo \ {a} BY <4>2, <3>1, <1>4, <1>6
      <4>4. \A b \in todo \ {a} : t \notin Transforms(b) BY <4>2, TransformShape
      <4>5. AllTransforms(todo) = Transforms(a) \cup AllTransforms(todo \ {a})
        BY <4>1 DEF AllTransforms
      <4>6. t \notin AllTransforms(todo \ {a}) BY <4>4 DEF AllTransforms
      <4> QED BY <3>1, <4>3, <4>5, <4>6 DEF Pending
    <3>2. CASE current # {}
      <4>1. t \in current /\ t.action \notin todo BY <3>2, <1>2 DEF Ready
      <4>2. todo' = todo /\ current' = current \ {t} BY <4>1, <3>2, <1>4, <1>6
      <4>3. t \notin AllTransforms(todo) BY <4>1, TransformShape DEF AllTransforms
      <4> QED BY <4>2, <4>3 DEF Pending
    <3> QED BY <3>1, <3>2
  <2>4. /\ {applied[i] : i \in DOMAIN applied} = {Key(u) : u \in AllTransforms(actions) \ Pending}
        /\ applied \in Seq({Key(u) : u \in AllTransforms(actions)})
        /\ \A i, j \in DOMAIN applied : applied[i] = applied[j] => i = j
    BY <1>1 DEF EInv, ExecutionShape
  <2>5. \A i \in DOMAIN applied : applied[i] # Key(t)
    <3> SUFFICES ASSUME NEW i \in DOMAIN applied, applied[i] = Key(t) PROVE FALSE OBVIOUS
    <3>1. PICK u \in AllTransforms(actions) \ Pending : Key(t) = Key(u) BY <2>4
    <3>2. u = t BY <3>1, <2>1, <1>2, KeysAreUnique
    <3> QED BY <3>1, <3>2, <2>1
  <2>6. applied' = Append(applied, Key(t)) BY <1>4, <1>6
  <2>7. {applied'[i] : i \in DOMAIN applied'} = {applied[i] : i \in DOMAIN applied} \cup {Key(t)}
    BY <2>4, <2>6
  <2>8. AllTransforms(actions) \ Pending' = (AllTransforms(actions) \ Pending) \cup {t}
    BY <2>1, <2>3
  <2>9. {applied'[i] : i \in DOMAIN applied'} = {Key(u) : u \in AllTransforms(actions) \ Pending'}
    BY <2>4, <2>7, <2>8
  <2>10. /\ applied' \in Seq({Key(u) : u \in AllTransforms(actions)})
         /\ \A i, j \in DOMAIN applied' : applied'[i] = applied'[j] => i = j
    BY <2>1, <2>4, <2>5, <2>6
  <2>11. state' = "EXECUTING" BY <1>1, <1>4, <1>6
  <2>12. AllTransforms(actions') = AllTransforms(actions) /\ AllTransforms(actions)' = AllTransforms(actions)
    BY <1>3 DEF AllTransforms
  <2> QED BY <1>3, <2>2, <2>9, <2>10, <2>11, <2>12 DEF ExecutionShape, Early, Looping
<1> QED BY <1>5, <1>6

LEMMA InitEInv == Init => EInv
<1> SUFFICES ASSUME Init PROVE ExecutionShape BY InitIInv DEF EInv
<1>1. applied = <<>> /\ current = {} /\ state = "PERCEIVING" BY DEF Init
<1> QED BY <1>1 DEF ExecutionShape

LEMMA NextEInv == EInv /\ [Next]_vars => EInv'
<1> SUFFICES ASSUME EInv, [Next]_vars PROVE ExecutionShape' BY NextIInv DEF EInv
<1> USE DEF modelled, planned, executed
<1>1. StageShape /\ ExecutionShape BY DEF EInv, IInv
<1>2. CASE Perceive \/ SignalStage \/ Model \/ Plan \/ Review \/ Pick \/ Simulate
  <2>1. /\ UNCHANGED <<actions, todo, current, applied>>
        /\ state \in Early \cup Looping
        /\ state' \notin {"EXECUTING", "FINALIZING", "COMPLETED"}
    BY <1>2 DEF Perceive, SignalStage, Model, Plan, Review, Pick, Simulate, Goto, Fail, Early, Looping
  <2>2. AllTransforms(actions)' = AllTransforms(actions) BY <2>1 DEF AllTransforms
  <2> QED BY <1>1, <2>1, <2>2 DEF ExecutionShape, StageShape
<1>3. CASE Optimized \/ Refine
  <2>1. /\ UNCHANGED <<todo, current, applied>>
        /\ state \in Early \cup Looping
        /\ state' \notin {"EXECUTING", "FINALIZING", "COMPLETED"}
    BY <1>3 DEF Optimized, Refine, Goto, Fail, Early, Looping
  <2>2. applied = <<>> /\ current = {} BY <1>1, <2>1 DEF ExecutionShape, StageShape
  <2> QED BY <2>1, <2>2 DEF ExecutionShape
<1>4. CASE Validate
  <2>1. /\ UNCHANGED <<actions, current, applied>>
        /\ state = "VALIDATING"
        /\ \/ state' = "EXECUTING" /\ todo' = actions
           \/ state' \in {"FAILED", "REFINING"} /\ todo' = todo
    <3>1. /\ state = "VALIDATING" /\ UNCHANGED <<actions, current, applied>>
          /\ todo' = IF state' = "EXECUTING" THEN actions ELSE todo
      BY <1>4 DEF Validate, Fail
    <3>2. state' \in {"FAILED", "REFINING", "EXECUTING"} BY <1>4 DEF Validate, Fail
    <3> QED BY <3>1, <3>2
  <2>2. applied = <<>> /\ current = {} BY <1>1, <2>1 DEF ExecutionShape, StageShape, Looping
  <2>3. CASE state' = "EXECUTING" /\ todo' = actions
    <3>1. Pending' = AllTransforms(actions') BY <2>1, <2>2, <2>3 DEF Pending, AllTransforms
    <3> QED BY <2>1, <2>2, <2>3, <3>1 DEF ExecutionShape, AllTransforms
  <2>4. CASE state' \in {"FAILED", "REFINING"} /\ todo' = todo
    BY <2>1, <2>2, <2>4 DEF ExecutionShape
  <2> QED BY <2>1, <2>3, <2>4
<1>5. CASE RunNode BY <1>5, RunNodeKeepsShape
<1>6. CASE Executed
  <2>1. /\ state = "EXECUTING" /\ Ready = {} /\ state' \in {"FAILED", "FINALIZING"}
        /\ todo' \in {todo, {}} /\ UNCHANGED <<actions, current, applied>>
    BY <1>6 DEF Executed, Fail
  <2>2. current = {} /\ AllTransforms(todo) = {} BY <2>1 DEF Ready, AllTransforms
  <2>3. Pending = {} /\ Pending' = {} BY <2>1, <2>2 DEF Pending, AllTransforms
  <2>4. AllTransforms(actions)' = AllTransforms(actions) BY <2>1 DEF AllTransforms
  <2> QED BY <1>1, <2>1, <2>2, <2>3, <2>4 DEF ExecutionShape, Early, Looping
<1>7. CASE Finalize
  <2>1. /\ state = "FINALIZING" /\ state' \in {"FAILED", "FINALIZING", "COMPLETED"}
        /\ UNCHANGED <<actions, todo, current, applied>>
    BY <1>7 DEF Finalize, Fail, Write
  <2>2. AllTransforms(actions)' = AllTransforms(actions) /\ Pending' = Pending
    BY <2>1 DEF AllTransforms, Pending
  <2> QED BY <1>1, <2>1, <2>2 DEF ExecutionShape, Early, Looping
<1>8. CASE UNCHANGED vars
  <2>1. UNCHANGED <<state, actions, todo, current, applied>> BY <1>8 DEF vars
  <2>2. AllTransforms(actions)' = AllTransforms(actions) /\ Pending' = Pending
    BY <2>1 DEF AllTransforms, Pending
  <2> QED BY <1>1, <2>1, <2>2 DEF ExecutionShape
<1> QED BY <1>2, <1>3, <1>4, <1>5, <1>6, <1>7, <1>8 DEF Next, Stage

\* A job that reaches FINALIZING has applied each unit of the selected work the executor
\* knows exactly once: for any table, whatever was merged and in whatever order the nodes
\* ran.
THEOREM WorkIsDoneOnce == Spec => []WorkDoneOnce
<1>1. EInv => WorkDoneOnce
  <2> SUFFICES ASSUME EInv, Finished PROVE /\ {applied[i] : i \in DOMAIN applied} = Asked
                                           /\ \A i, j \in DOMAIN applied :
                                                applied[i] = applied[j] => i = j
    BY DEF WorkDoneOnce
  <2>1. {applied[i] : i \in DOMAIN applied} = {Key(t) : t \in AllTransforms(actions)}
    BY DEF EInv, ExecutionShape, Finished
  <2>2. Work(actions) = Work(selected)
    BY DEF EInv, IInv, WorkSurvivesRefinement, StageShape, Finished
  <2>3. Work({ActionOf(n) : n \in selected}) = Work(selected)
    <3>1. \A n : ActionOf(n).type = n.type /\ ActionOf(n).cols = n.cols BY DEF ActionOf
    <3> QED BY <3>1 DEF Work
  <2>4. Asked = Work({a \in actions : Translatable(a)})
    BY <2>2, <2>3, KnownWork DEF Asked
  <2> QED BY <2>1, <2>4, KeysAreWork DEF EInv, ExecutionShape
<1>2. Spec => []EInv BY InitEInv, NextEInv, PTL DEF Spec
<1> QED BY <1>1, <1>2, PTL

-----------------------------------------------------------------------------
(* Refinement: a plan that has been merged is merged for good.                 *)

\* No two actions of one type are left to merge.
Stable == \A a, b \in actions : a.type = b.type /\ Mergeable(a.type) => a = b

SettledInv == RefinementSettles /\ (version = 2 => Stable)

\* Merging puts one action in the place of each mergeable group and leaves the groups
\* that cannot be merged as they are, so these stay unmergeable.
LEMMA MergingSettles ==
  ASSUME PlanShape, NEW heads \in Heads, actions' = Consolidated(heads), edges' = edges
  PROVE  Stable'
<1> SUFFICES ASSUME NEW x \in actions', NEW y \in actions', x.type = y.type,
                    Mergeable(x.type)'
             PROVE  x = y
  BY DEF Stable
<1>1. CASE Mergeable(x.type)
  <2>1. PICK h \in heads : h.type = x.type /\ x = Merged(h) BY <1>1, ConsolidatedParts
  <2>2. PICK g \in heads : g.type = y.type /\ y = Merged(g) BY <1>1, ConsolidatedParts
  <2>3. h = g BY <2>1, <2>2 DEF Heads
  <2> QED BY <2>1, <2>2, <2>3
<1>2. CASE ~Mergeable(x.type)
  <2>1. \A z \in Consolidated(heads) : z.type = x.type => z \in Group(x.type)
    <3> SUFFICES ASSUME NEW z \in Consolidated(heads), z.type = x.type
                 PROVE  z \in Group(x.type)
      OBVIOUS
    <3>1. CASE \E h \in heads : z = Merged(h)
      <4>1. PICK h \in heads : z = Merged(h) BY <3>1
      <4>2. h \in actions /\ Mergeable(h.type) BY DEF Heads
      <4>3. z.type = h.type BY <4>1, <4>2, MergedShape
      <4> QED BY <1>2, <4>2, <4>3
    <3>2. CASE z \in actions BY <3>2 DEF Group
    <3> QED BY <3>1, <3>2 DEF Consolidated
  <2>2. \A z \in Group(x.type) : z \in Consolidated(heads)
    BY <1>2 DEF Group, Consolidated
  <2>3. Group(x.type)' = Group(x.type) BY <2>1, <2>2 DEF Group
  <2>4. Mergeable(x.type)' <=> Mergeable(x.type) BY <2>3 DEF Mergeable
  <2> QED BY <1>2, <2>4
<1> QED BY <1>1, <1>2

\* Merging a stable plan gives the plan back: every merged action is its own head.
LEMMA StableStays ==
  ASSUME PlanShape, Stable, NEW heads \in Heads
  PROVE  Consolidated(heads) = actions
<1>1. ASSUME NEW a \in actions, Mergeable(a.type) PROVE Merged(a) = a
  <2>1. Group(a.type) = {a} BY <1>1 DEF Stable, Group
  <2>2. UNION {b.cols : b \in Group(a.type)} = a.cols BY <2>1
  <2>3. a = [id |-> a.id, type |-> a.type, cols |-> a.cols] BY DEF PlanShape, Fields
  <2> QED BY <2>2, <2>3 DEF Merged
<1>2. \A h \in heads : h \in actions /\ Mergeable(h.type) BY DEF Heads
<1>3. ASSUME NEW a \in actions, Mergeable(a.type) PROVE a \in heads
  <2>1. a.type \in {z.type : z \in {x \in actions : Mergeable(x.type)}} BY <1>3
  <2>2. PICK h \in heads : h.type = a.type BY <2>1 DEF Heads
  <2>3. h = a BY <1>2, <1>3, <2>2 DEF Stable
  <2> QED BY <2>2, <2>3
<1> QED BY <1>1, <1>2, <1>3 DEF Consolidated

LEMMA NextSettledInv == IInv /\ SettledInv /\ [Next]_vars => SettledInv'
<1> SUFFICES ASSUME IInv, SettledInv, [Next]_vars PROVE SettledInv' OBVIOUS
<1> USE DEF modelled, planned, executed, RefinementSettles
<1>0. version \in Nat /\ PlanShape BY DEF IInv, TypeOK
<1>1. CASE Optimized BY <1>1 DEF Optimized, SettledInv
<1>2. CASE Refine /\ ~Replaces
  <2>1. PICK heads \in Heads : actions' = Consolidated(heads) BY <1>2 DEF Refine
  <2>2. /\ edges' = edges
        /\ version' = IF HasChanges(actions, actions') THEN version + 1 ELSE version
    BY <1>2 DEF Refine
  <2>3. Stable' BY <1>0, <2>1, <2>2, MergingSettles
  <2>4. CASE version = 2
    <3>1. actions' = actions BY <1>0, <2>1, <2>4, StableStays DEF SettledInv
    <3>2. ~HasChanges(actions, actions') BY <3>1 DEF HasChanges
    <3> QED BY <2>2, <2>3, <2>4, <3>2 DEF SettledInv
  <2>5. CASE version # 2 BY <1>0, <2>2, <2>3, <2>5 DEF SettledInv
  <2> QED BY <2>4, <2>5
<1>3. CASE UNCHANGED <<version, actions, edges>>
  BY <1>3 DEF SettledInv, Stable, Mergeable, Group
<1>4. CASE Model
  <2>1. UNCHANGED <<version, actions>> /\ version = 0 BY <1>4 DEF Model, IInv, StageShape, Early
  <2> QED BY <2>1 DEF SettledInv
<1>5. CASE \/ Perceive \/ SignalStage \/ Plan \/ Review \/ Pick \/ Simulate \/ Validate
           \/ RunNode \/ Executed \/ Finalize \/ UNCHANGED vars \/ (Refine /\ Replaces)
  BY <1>3, <1>5 DEF Perceive, SignalStage, Plan, Review, Pick, Simulate, Validate, RunNode,
     Executed, Finalize, Refine, vars
<1> QED BY <1>1, <1>2, <1>4, <1>5 DEF Next, Stage

\* Refining again what has been refined changes nothing: however often the loops run the
\* refiner, the plan's version never passes 2.
THEOREM RefinementIsIdempotent == Spec => []RefinementSettles
<1>1. Init => SettledInv BY DEF Init, SettledInv, RefinementSettles
<1>2. SettledInv => RefinementSettles BY DEF SettledInv
<1> QED BY <1>1, <1>2, NextSettledInv, AlwaysIInv, PTL DEF Spec

-----------------------------------------------------------------------------
(* What the graph and the frame owe to the table.                              *)

Unmodelled == {"PERCEIVING", "SIGNALING", "MODELING"}

\* Each stage leaves what it makes of the table to the ones behind it; MODELING alone
\* fails before it has made a graph, and only over a prerequisite.
DataShape ==
  /\ job \in Jobs
  /\ signals = IF state \in {"PERCEIVING", "SIGNALING"} THEN <<>>
               ELSE Compressed(Ranked(RawSignals(job.table, job)))
  /\ state \in Unmodelled => nodes = {}
  /\ state \notin Unmodelled \cup {"FAILED"} => nodes = Nodes(signals)
  /\ state = "FAILED" => nodes = Nodes(signals) \/ (nodes = {} /\ PrereqRaises(Nodes(signals)))

LEMMA NextDataShape == DataShape /\ [Next]_vars => DataShape'
<1> SUFFICES ASSUME DataShape, [Next]_vars PROVE DataShape' OBVIOUS
<1> USE DEF modelled, planned, executed
<1>1. CASE Perceive BY <1>1 DEF Perceive, Goto, DataShape, Unmodelled
<1>2. CASE SignalStage BY <1>2 DEF SignalStage, Goto, DataShape, Unmodelled
<1>3. CASE Model
  <2>1. /\ state = "MODELING" /\ UNCHANGED <<job, signals>>
        /\ \/ state' = "FAILED" /\ PrereqRaises(Nodes(signals)) /\ nodes' = nodes
           \/ state' = "PLANNING" /\ nodes' = Nodes(signals)
    BY <1>3 DEF Model, Fail
  <2> QED BY <2>1 DEF DataShape, Unmodelled
<1>4. CASE \/ Plan \/ Review \/ Pick \/ Optimized \/ Simulate \/ Refine \/ Validate
           \/ RunNode \/ Executed \/ Finalize
  <2>1. /\ UNCHANGED <<job, signals, nodes>>
        /\ state \notin Unmodelled \cup {"FAILED"} /\ state' \notin Unmodelled
    BY <1>4 DEF Plan, Review, Pick, Optimized, Simulate, Refine, Validate, RunNode, Executed,
       Finalize, Write, Goto, Fail, Unmodelled
  <2> QED BY <2>1 DEF DataShape, Unmodelled
<1>5. CASE UNCHANGED vars BY <1>5 DEF vars, DataShape
<1> QED BY <1>1, <1>2, <1>3, <1>4, <1>5 DEF Next, Stage

LEMMA AlwaysDataShape == Spec => []DataShape
<1>1. Init => DataShape BY DEF Init, DataShape, Unmodelled
<1> QED BY <1>1, NextDataShape, PTL DEF Spec

\* The table is a list of columns, and the signals are a list of what the rules emit.
LEMMA JobShape ==
  ASSUME DataShape
  PROVE  /\ IsList(job.table) /\ IsList(signals)
         /\ signals # <<>> => \E i \in DOMAIN signals : TRUE
         /\ \A i \in DOMAIN job.table : job.table[i].card \in Nat
         /\ \A i, k \in DOMAIN job.table : job.table[i].name = job.table[k].name => i = k
         /\ \A i \in DOMAIN signals : signals[i] \in RawSignals(job.table, job)
<1>1. /\ job.table \in Seq(Column)
      /\ \A i, k \in DOMAIN job.table : job.table[i].name = job.table[k].name => i = k
  BY PipelineAssumption DEF DataShape
<1>2. IsList(job.table) BY <1>1 DEF IsList
<1>3. \A i \in DOMAIN job.table : job.table[i].card \in Nat
  <2>1. \A i \in DOMAIN job.table : job.table[i] \in Column BY <1>1
  <2>2. \A c \in Column : c.card \in Nat BY DEF Column
  <2> QED BY <2>1, <2>2
<1>4. IsList(signals) /\ \A i \in DOMAIN signals : signals[i] \in RawSignals(job.table, job)
  <2>1. CASE signals = <<>>
    <3>1. DOMAIN signals = 1 .. 0 BY <2>1
    <3> QED BY <3>1 DEF IsList
  <2>2. CASE signals = Compressed(Ranked(RawSignals(job.table, job)))
    BY <2>2, CompressedAreSignals
  <2> QED BY <2>1, <2>2 DEF DataShape
<1>5. signals # <<>> => \E i \in DOMAIN signals : TRUE
  <2> SUFFICES ASSUME signals # <<>> PROVE \E i \in DOMAIN signals : TRUE OBVIOUS
  <2>1. signals = Compressed(Ranked(RawSignals(job.table, job))) BY DEF DataShape
  <2>2. signals \in Seq(RawSignals(job.table, job)) BY <2>1, CompressedAreSignals
  <2>3. Len(signals) # 0 /\ Len(signals) \in Nat /\ DOMAIN signals = 1 .. Len(signals) BY <2>2
  <2>4. 1 \in DOMAIN signals BY <2>3
  <2> QED BY <2>4
<1> QED BY <1>1, <1>2, <1>3, <1>4, <1>5

\* The graph keeps every column that a signal asks something for, unless the columns of
\* two signals spell the same id: for any table, whatever the rules emit and the
\* compressor lets through.
THEOREM ColumnsAreKept == Spec => []ColumnsLostOnlyToNameClash
<1>1. DataShape => ColumnsLostOnlyToNameClash
  <2> SUFFICES ASSUME DataShape, nodes # {},
                      NEW i \in DOMAIN signals, NEW c \in Contributions(signals[i])
               PROVE  \/ \E n \in nodes : n.type = c.type /\ c.cols \subseteq n.cols
                      \/ \E j \in DOMAIN signals :
                           signals[j].cols # signals[i].cols
                           /\ Join(signals[j].cols) = Join(signals[i].cols)
    BY DEF ColumnsLostOnlyToNameClash
  <2>1. nodes = Nodes(signals) BY DEF DataShape
  <2> QED BY <2>1, JobShape, OfferedIsKept
<1> QED BY <1>1, AlwaysDataShape, PTL

\* A job fails while its graph is built only over a categorical column that both misses
\* values and asks for an encoding: the two ends of a prerequisite share a column, which
\* is one column of the table since names are distinct.
THEOREM OnlyGappyCategoriesFail == Spec => []ModelingFailsOnGappyCategories
<1>1. DataShape => ModelingFailsOnGappyCategories
  <2> SUFFICES ASSUME DataShape, state = "FAILED", signals # <<>>, nodes = {}
               PROVE  \E i \in DOMAIN job.table :
                        /\ Categorical(job.table[i])
                        /\ HighMissing(job.table[i]) \/ ModerateMissing(job.table[i])
                        /\ job.table[i].card >= 2
    BY DEF ModelingFailsOnGappyCategories
  <2>1. PICK s \in DOMAIN signals : TRUE BY JobShape
  <2>2. PrereqRaises(Nodes(signals)) BY <2>1, SignalsMakeNodes DEF DataShape
  <2>3. PICK a \in Nodes(signals), b \in Nodes(signals) : IsPrereq(a, b)
    BY <2>2 DEF PrereqRaises
  <2>4. Imputes(a) /\ Encodes(b) /\ \E x : x \in a.cols /\ x \in b.cols
    BY <2>3 DEF IsPrereq, Overlap
  <2>5. PICK x : x \in a.cols /\ x \in b.cols BY <2>4
  <2>6. PICK i \in DOMAIN job.table :
          x = job.table[i].name /\ (HighMissing(job.table[i]) \/ ModerateMissing(job.table[i]))
    BY <2>4, <2>5, JobShape, NodeColumns
  <2>7. PICK k \in DOMAIN job.table :
          x = job.table[k].name /\ Categorical(job.table[k]) /\ job.table[k].card >= 2
    BY <2>4, <2>5, JobShape, NodeColumns
  <2>8. i = k BY <2>6, <2>7, JobShape
  <2> QED BY <2>6, <2>7, <2>8
<1> QED BY <1>1, AlwaysDataShape, PTL

\* A transform the plan can lead to works on a column of the table.
LEMMA PlanColumns ==
  ASSUME IInv, DataShape, NEW a \in actions, Translatable(a), NEW c \in a.cols
  PROVE  c \in Columns(job.table)
<1>1. <<a.type, c>> \in Work(actions) BY DEF Work
<1>2. version > 0 => Work(actions) = Work(selected) BY DEF IInv, WorkSurvivesRefinement
<1>3. version > 0 BY DEF IInv, TypeOK, StageShape
<1>4. <<a.type, c>> \in Work(selected) BY <1>1, <1>2, <1>3
<1>5. PICK n \in selected : \E d \in n.cols : <<a.type, c>> = <<n.type, d>> BY <1>4 DEF Work
<1>6. n.type = a.type /\ c \in n.cols BY <1>5
<1>7. n \in Nodes(signals)
  <2>1. n \in nodes BY DEF IInv, TypeOK
  <2> QED BY <2>1 DEF DataShape
<1>8. Imputes(n) \/ Encodes(n) \/ n.type = "drop"
  BY <1>6 DEF Translatable, Imputes, Encodes
<1>9. \E i \in DOMAIN job.table : c = job.table[i].name
  BY <1>6, <1>7, <1>8, JobShape, NodeColumns
<1> QED BY <1>9 DEF Columns

\* A transform takes away its own column only, and undoes no other's work.
LEMMA WorkStaysVisible ==
  ASSUME NamesApart, NEW t, t.column \in Columns(job.table), frame' = Done(t), job' = job,
         NEW w, w[2] \in Columns(job.table), Shows(w)
  PROVE  Shows(w)'
<1>1. /\ \A c \in Columns(job.table) : c # Dummies(t.column)
      /\ Dummies(w[2]) # t.column
  BY DEF NamesApart
<1>2. ASSUME NEW c \in Columns(job.table), c \in DOMAIN frame'
      PROVE  c \in DOMAIN frame /\ ("imputed" \in frame[c] => "imputed" \in frame'[c])
  <2>1. ASSUME NEW S, frame' = Imputed(frame, S)
        PROVE  c \in DOMAIN frame /\ ("imputed" \in frame[c] => "imputed" \in frame'[c])
    BY <1>2, <2>1 DEF Imputed
  <2>2. CASE t.action.type \in {"impute_mean", "impute_knn"} BY <2>1, <2>2 DEF Done
  <2>3. CASE t.action.type = "drop" BY <1>2, <2>3 DEF Done, Without
  <2>4. CASE t.action.type \notin {"impute_mean", "impute_knn", "drop"}
    BY <1>1, <1>2, <2>4 DEF Done, Without
  <2> QED BY <2>2, <2>3, <2>4
<1>3. Dummies(w[2]) \in DOMAIN frame => Dummies(w[2]) \in DOMAIN frame'
  BY <1>1 DEF Done, Imputed, Without
<1>4. w[2] \in NumericColumns' => w[2] \in NumericColumns BY <1>2 DEF NumericColumns
<1>5. CASE w[1] = "impute_mean" BY <1>2, <1>5 DEF Shows
<1>6. CASE w[1] = "impute_knn"
  <2>1. w[2] \in NumericColumns => "imputed" \in frame[w[2]] BY <1>6 DEF Shows
  <2>2. w[2] \in NumericColumns' => "imputed" \in frame'[w[2]]
    BY <1>2, <1>4, <2>1 DEF NumericColumns
  <2> QED BY <1>6, <2>2 DEF Shows
<1>7. CASE w[1] = "drop" BY <1>2, <1>7 DEF Shows
<1>8. CASE w[1] \notin {"impute_mean", "impute_knn", "drop"} BY <1>2, <1>3, <1>8 DEF Shows
<1> QED BY <1>5, <1>6, <1>7, <1>8

LEMMA WorkShows ==
  ASSUME NamesApart, NEW t, t.column \in Columns(job.table), Translatable(t.action),
         frame' = Done(t), job' = job
  PROVE  Shows(Key(t))'
<1>1. t.column # Dummies(t.column) BY DEF NamesApart
<1>2. Key(t)[1] = t.action.type /\ Key(t)[2] = t.column BY DEF Key
<1>3. CASE t.action.type = "impute_mean" BY <1>2, <1>3 DEF Shows, Done, Imputed
<1>4. CASE t.action.type = "impute_knn"
  <2>1. DOMAIN frame' = DOMAIN frame BY <1>4 DEF Done, Imputed
  <2>2. NumericColumns' = NumericColumns BY <2>1 DEF NumericColumns
  <2>3. t.column \in NumericColumns => "imputed" \in frame'[t.column]
    BY <1>4 DEF Done, Imputed, NumericColumns
  <2> QED BY <1>2, <1>4, <2>2, <2>3 DEF Shows
<1>5. CASE t.action.type = "drop" BY <1>2, <1>5 DEF Shows, Done, Without
<1>6. CASE t.action.type = "one_hot_encode" BY <1>1, <1>2, <1>6 DEF Shows, Done, Without
<1> QED BY <1>3, <1>4, <1>5, <1>6 DEF Translatable

AppliedWork == {applied[i] : i \in DOMAIN applied}

FrameShape ==
  NamesApart => \A w \in AppliedWork : w[2] \in Columns(job.table) /\ Shows(w)

FInv == EInv /\ DataShape /\ FrameShape

LEMMA RunNodeKeepsFrame == FInv /\ RunNode => FrameShape'
<1> SUFFICES ASSUME FInv, RunNode, NamesApart', NEW w \in AppliedWork'
             PROVE  w[2] \in Columns(job.table)' /\ Shows(w)'
  BY DEF FrameShape
<1>1. job' = job BY DEF RunNode, modelled
<1>2. NamesApart /\ Columns(job.table)' = Columns(job.table)
  BY <1>1 DEF NamesApart, Columns
<1>3. PICK t \in Ready :
        IF Raises(t) THEN UNCHANGED <<frame, applied>>
        ELSE frame' = Done(t) /\ applied' = Append(applied, Key(t))
  BY DEF RunNode, Key
<1>4. CASE Raises(t)
  <2>1. frame' = frame /\ AppliedWork' = AppliedWork BY <1>3, <1>4 DEF AppliedWork
  <2>2. Shows(w)' = Shows(w) BY <1>1, <2>1 DEF Shows, NumericColumns
  <2> QED BY <1>2, <2>1, <2>2 DEF FInv, FrameShape
<1>5. CASE ~Raises(t)
  <2>1. t \in AllTransforms(actions)
    BY DEF Ready, AllTransforms, FInv, EInv, ExecutionShape, IInv, TypeOK
  <2>2. PICK a \in actions : t \in Transforms(a) BY <2>1 DEF AllTransforms
  <2>3. t.action = a /\ t.column \in a.cols /\ Translatable(a) BY <2>2, TransformShape
  <2>4. t.column \in Columns(job.table) BY <2>3, PlanColumns DEF FInv, EInv
  <2>5. applied \in Seq({Key(u) : u \in AllTransforms(actions)})
    BY DEF FInv, EInv, ExecutionShape
  <2>6. AppliedWork' = AppliedWork \cup {Key(t)} BY <1>3, <1>5, <2>5 DEF AppliedWork
  <2>7. CASE w \in AppliedWork
    <3>1. w[2] \in Columns(job.table) /\ Shows(w) BY <1>2, <2>7 DEF FInv, FrameShape
    <3> QED BY <1>1, <1>2, <1>3, <1>5, <2>4, <3>1, WorkStaysVisible
  <2>8. CASE w = Key(t)
    <3>1. Shows(Key(t))' BY <1>1, <1>2, <1>3, <1>5, <2>3, <2>4, WorkShows
    <3> QED BY <1>2, <2>4, <2>8, <3>1 DEF Key
  <2> QED BY <2>6, <2>7, <2>8
<1> QED BY <1>4, <1>5

LEMMA NextFInv == FInv /\ [Next]_vars => FInv'
<1> SUFFICES ASSUME FInv, [Next]_vars PROVE FrameShape'
  BY NextEInv, NextDataShape DEF FInv
<1>1. CASE RunNode BY <1>1, RunNodeKeepsFrame
<1>2. CASE UNCHANGED <<job, frame, applied>>
  <2>1. AppliedWork' = AppliedWork /\ Columns(job.table)' = Columns(job.table)
    BY <1>2 DEF AppliedWork, Columns
  <2>2. NamesApart' = NamesApart BY <2>1 DEF NamesApart
  <2>3. \A w : Shows(w)' = Shows(w) BY <1>2 DEF Shows, NumericColumns
  <2> QED BY <2>1, <2>2, <2>3 DEF FInv, FrameShape
<1>3. CASE \/ Perceive \/ SignalStage \/ Model \/ Plan \/ Review \/ Pick \/ Optimized
           \/ Simulate \/ Refine \/ Validate \/ Executed \/ Finalize \/ UNCHANGED vars
  BY <1>2, <1>3 DEF modelled, planned, executed, vars, Perceive, SignalStage, Model, Plan,
     Review, Pick, Optimized, Simulate, Refine, Validate, Executed, Finalize
<1> QED BY <1>1, <1>3 DEF Next, Stage

\* A completed job has done to every column what the optimizer selected for it and the
\* executor knows, once, and the frame written in the end shows it: whatever was merged,
\* in whatever order the nodes ran and whatever they did to other columns.
THEOREM SelectedWorkShows == Spec => []SelectedWorkIsDone
<1>1. Init => FInv
  <2>1. Init => FrameShape
    <3>1. applied = <<>> => AppliedWork = {} BY DEF AppliedWork
    <3> QED BY <3>1 DEF Init, FrameShape
  <2>2. Init => DataShape BY DEF Init, DataShape, Unmodelled
  <2> QED BY <2>1, <2>2, InitEInv DEF FInv
<1>2. FInv /\ WorkDoneOnce => WorkIsVisible
  <2> SUFFICES ASSUME FInv, WorkDoneOnce, Finished, NamesApart, NEW w \in Asked PROVE Shows(w)
    BY DEF WorkIsVisible
  <2>1. AppliedWork = Asked BY DEF WorkDoneOnce, AppliedWork
  <2> QED BY <2>1 DEF FInv, FrameShape
<1>3. FInv /\ WorkDoneOnce => SelectedWorkIsDone BY <1>2 DEF SelectedWorkIsDone
<1> QED BY <1>1, <1>3, NextFInv, WorkIsDoneOnce, PTL DEF Spec

-----------------------------------------------------------------------------
(* The optimizer's choice between the two ways to impute.                      *)

LEMMA AggregateIsGreatest ==
  ASSUME NEW sel, \A n \in sel : n.risk \in Risks
  PROVE  /\ AggregateRisk(sel) \in Risks
         /\ \A n \in sel : AggregateRisk(sel) >= n.risk
         /\ (\A n \in sel : n.risk < 3) => AggregateRisk(sel) = 0
<1> DEFINE V == {0} \cup {n.risk : n \in sel}
<1>1. V \in SUBSET Risks /\ 0 \in V BY DEF Risks
<1>2. AggregateRisk(sel) = CHOOSE r \in V : \A n \in sel : r >= n.risk BY DEF AggregateRisk
<1>3. \A n \in sel : n.risk \in V OBVIOUS
<1>4. \A r \in V : r = 0 \/ \E n \in sel : n.risk = r OBVIOUS
<1> HIDE DEF V
<1>5. \E r \in V : \A n \in sel : r >= n.risk
  <2>1. CASE 10 \in V BY <1>1, <1>3, <2>1 DEF Risks
  <2>2. CASE 7 \in V /\ 10 \notin V BY <1>1, <1>3, <2>2 DEF Risks
  <2>3. CASE 3 \in V /\ V \cap {7, 10} = {} BY <1>1, <1>3, <2>3 DEF Risks
  <2>4. CASE V \cap {3, 7, 10} = {} BY <1>1, <1>3, <2>4 DEF Risks
  <2> QED BY <2>1, <2>2, <2>3, <2>4
<1>6. AggregateRisk(sel) \in V /\ \A n \in sel : AggregateRisk(sel) >= n.risk BY <1>2, <1>5
<1>7. ASSUME \A n \in sel : n.risk < 3 PROVE AggregateRisk(sel) = 0
  <2> DEFINE r == AggregateRisk(sel)
  <2>1. r \in V BY <1>6
  <2> HIDE DEF r
  <2>2. r = 0 \/ r < 3 BY <1>4, <1>7, <2>1
  <2>3. r = 0 BY <1>1, <2>1, <2>2 DEF Risks
  <2> QED BY <2>3 DEF r
<1> QED BY <1>1, <1>6, <1>7

\* The graph of a table holds for each imputation by neighbours a cheaper one by the mean,
\* of the same columns, and their benefits are one of three pairs.
LEMMA Imputers ==
  ASSUME DataShape, NEW n \in nodes, n.type \in {"impute_mean", "impute_knn"}
  PROVE  /\ n.type = "impute_mean" => n.cost = 10 /\ n.risk = 0
         /\ n.type = "impute_knn" =>
              /\ n.cost = 60 /\ n.risk = 3
              /\ \E m \in nodes :
                   /\ m.type = "impute_mean" /\ m.cost = 10 /\ m.risk = 0
                   /\ m.cols = n.cols /\ m.cols # {}
                   /\ <<m.benefit, n.benefit>> \in Pairs
<1>1. nodes = Nodes(signals) BY DEF DataShape
<1>2. n.id \in Ids(signals) /\ n = Node(signals, n.id) /\ n.id = <<n.type, n.id[2]>>
  BY <1>1, JobShape, NodeIdentity
<1> DEFINE J == n.id[2]
           m == Node(signals, <<"impute_mean", J>>)
           k == Node(signals, <<"impute_knn", J>>)
<1>3. signals \in Seq(RawSignals(job.table, job))
  <2>1. CASE signals = <<>> BY <2>1
  <2>2. CASE signals = Compressed(Ranked(RawSignals(job.table, job)))
    BY <2>2, CompressedAreSignals
  <2> QED BY <2>1, <2>2 DEF DataShape
<1>4. <<"impute_mean", J>> \in Ids(signals) \/ <<"impute_knn", J>> \in Ids(signals) BY <1>2
<1>5. /\ m \in Nodes(signals) /\ k \in Nodes(signals)
      /\ m.type = "impute_mean" /\ m.cost = 10 /\ m.risk = 0
      /\ k.type = "impute_knn" /\ k.cost = 60 /\ k.risk = 3
      /\ m.cols = k.cols /\ m.cols # {}
      /\ <<m.benefit, k.benefit>> \in Pairs
  <2>1. /\ IsList(job.table)
        /\ \A i \in DOMAIN signals : signals[i] \in RawSignals(job.table, job)
    BY JobShape
  <2> DEFINE S == RawSignals(job.table, job)
  <2>2. signals \in Seq(S) BY <1>3
  <2> HIDE DEF J, m, k, S
  <2> QED BY <1>4, <2>1, <2>2, ImputerPair DEF m, k
<1>6. CASE n.type = "impute_mean"
  <2>1. n = m BY <1>2, <1>6
  <2> QED BY <1>5, <1>6, <2>1
<1>7. CASE n.type = "impute_knn"
  <2>1. n = k BY <1>2, <1>7
  <2> HIDE DEF m, k
  <2> QED BY <1>1, <1>5, <1>7, <2>1
<1> QED BY <1>6, <1>7

\* In units of a ten-millionth, a column's imputation by the mean for a warning of high
\* severity is worth 9000000. By neighbours it is worth more than that makes up for once
\* something risky has been selected, so what matters is that the mean goes first.
Strong(m) == m.type = "impute_mean" /\ m.benefit = 9000000

StrongFirst ==
  \A m \in nodes : Strong(m) /\ (\E n \in selected : n.risk >= 3) =>
    m \in selected \/ ~IsFeasible(m)

ChoiceInv == IInv /\ DataShape /\ IsFiniteSet(selected) /\ StrongFirst /\ MeanBeatsKnn

\* What an imputation by neighbours may not conflict with, the mean may not.
LEMMA MeanIsFeasible ==
  ASSUME ChoiceInv, NEW n \in Feasible, NEW m \in nodes,
         n.type = "impute_knn", n.cost = 60,
         m.type = "impute_mean", m.cost = 10, m.risk = 0, m.cols = n.cols, m.cols # {}
  PROVE  m \in Feasible
<1>1. n \in nodes /\ n \notin selected /\ cost + n.cost <= Budget /\ Clear(n, selected)
  BY DEF Feasible, IsFeasible
<1>2. /\ selected \subseteq nodes /\ edges = Conflicts(nodes) /\ cost \in Nat
      /\ \A x, y \in nodes : x.id = y.id => x = y
  BY DEF ChoiceInv, IInv, TypeOK, GraphShape
<1>3. \A x \in selected : ~IsConflict(n, x) /\ ~IsConflict(x, n)
  <2> SUFFICES ASSUME NEW x \in selected PROVE ~IsConflict(n, x) /\ ~IsConflict(x, n) OBVIOUS
  <2>1. x \in nodes /\ x # n BY <1>1, <1>2
  <2>2. <<n.id, x.id>> \notin Conflicts(nodes) /\ <<x.id, n.id>> \notin Conflicts(nodes)
    BY <1>1, <1>2 DEF Clear
  <2> QED BY <1>1, <2>1, <2>2, ConflictsAreEdges
<1>4. m \notin selected
  <2>1. IsConflict(n, m) BY DEF IsConflict, Overlap, Imputes
  <2> QED BY <1>3, <2>1
<1>5. Clear(m, selected)
  <2> SUFFICES ASSUME NEW x \in selected, <<m.id, x.id>> \in edges \/ <<x.id, m.id>> \in edges
               PROVE  FALSE
    BY DEF Clear
  <2>1. IsConflict(m, x) \/ IsConflict(x, m) BY <1>2, EdgesAreConflicts
  <2>2. IsConflict(n, x) BY <2>1 DEF IsConflict, Overlap, Imputes, Encodes
  <2> QED BY <1>3, <2>2
<1>6. cost + m.cost <= Budget BY <1>1, <1>2, PipelineAssumption
<1> QED BY <1>4, <1>5, <1>6 DEF Feasible, IsFeasible

LEMMA PickTakesTheMean ==
  ASSUME ChoiceInv, NEW n \in Feasible,
         \A m \in Feasible : Score(n, selected) >= Score(m, selected)
  PROVE  n.type # "impute_knn"
<1> SUFFICES ASSUME n.type = "impute_knn" PROVE FALSE OBVIOUS
<1>1. n \in nodes BY DEF Feasible
<1>2. PICK m \in nodes :
        /\ m.type = "impute_mean" /\ m.cost = 10 /\ m.risk = 0
        /\ m.cols = n.cols /\ m.cols # {}
        /\ <<m.benefit, n.benefit>> \in Pairs
  BY <1>1, Imputers DEF ChoiceInv
<1>3. n.cost = 60 /\ n.risk = 3 BY <1>1, Imputers DEF ChoiceInv
<1>4. m \in Feasible BY <1>2, <1>3, MeanIsFeasible
<1>5. Score(n, selected) >= Score(m, selected) BY <1>4
<1> DEFINE agg == AggregateRisk(selected)
           size == Cardinality(selected)
<1>6. /\ agg \in Risks
      /\ (\A x \in selected : x.risk < 3) => agg = 0
  BY AggregateIsGreatest DEF ChoiceInv, IInv, TypeOK, GraphShape
<1>7. size \in Nat BY FS_CardinalityType DEF ChoiceInv
<1>8. /\ Score(n, selected) = n.benefit - 1800000 - 500000 * Greatest(agg, 3) - 1000000 * size
      /\ Score(m, selected) = m.benefit - 300000 - 500000 * Greatest(agg, 0) - 1000000 * size
  <2>1. 30000 * n.cost = 1800000 /\ 30000 * m.cost = 300000 BY <1>2, <1>3, SMT
  <2> QED BY <1>2, <1>3, <2>1, SMT DEF Score
<1> HIDE DEF agg, size
<1>9. CASE m.benefit = 9000000
  <2>1. \A x \in selected : x.risk < 3
    <3>1. ~\E x \in selected : x.risk >= 3
      <4>1. m \notin selected /\ IsFeasible(m) BY <1>4 DEF Feasible
      <4> QED BY <1>2, <1>9, <4>1, SMT DEF ChoiceInv, StrongFirst, Strong
    <3>2. \A x \in selected : x.risk \in Int
      BY DEF ChoiceInv, IInv, TypeOK, GraphShape, Risks
    <3> QED BY <3>1, <3>2
  <2>2. agg = 0 BY <1>6, <2>1
  <2>3. n.benefit = 10800000 BY <1>2, <1>9, SMT DEF Pairs
  <2> QED BY <1>5, <1>7, <1>8, <1>9, <2>2, <2>3, SMT DEF Greatest
<1>10. CASE m.benefit # 9000000
  <2>1. \/ m.benefit = 6125000 /\ n.benefit = 7350000
        \/ m.benefit = 10000000 /\ n.benefit = 10000000
    BY <1>2, <1>10, SMT DEF Pairs
  <2> QED BY <1>5, <1>6, <1>7, <1>8, <2>1, SMT DEF Greatest, Risks
<1> QED BY <1>9, <1>10

\* Nothing risky scores as high as a strong mean while nothing risky has been selected.
LEMMA PickTakesStrongFirst ==
  ASSUME ChoiceInv, NEW n \in Feasible,
         \A m \in Feasible : Score(n, selected) >= Score(m, selected),
         \A x \in selected : ~(x.risk >= 3), n.risk >= 3,
         NEW m \in Feasible, Strong(m)
  PROVE  FALSE
<1>1. n \in nodes /\ m \in nodes BY DEF Feasible
<1>2. m.cost = 10 /\ m.risk = 0 /\ m.benefit = 9000000
  BY <1>1, Imputers, SMT DEF ChoiceInv, Strong
<1>3. n.type # "impute_knn" BY PickTakesTheMean
<1>4. n.benefit \in Int /\ n.benefit <= Unit
  <2>1. nodes = Nodes(signals) BY <1>1 DEF ChoiceInv, DataShape
  <2>2. signals \in Seq(RawSignals(job.table, job))
    <3>1. CASE signals = <<>> BY <3>1
    <3>2. CASE signals = Compressed(Ranked(RawSignals(job.table, job)))
      BY <3>2, CompressedAreSignals
    <3> QED BY <3>1, <3>2 DEF ChoiceInv, DataShape
  <2> QED BY <1>1, <1>3, <2>1, <2>2, JobShape, NodeBenefit DEF ChoiceInv
<1>5. n.cost \in Costs /\ n.risk \in Risks BY <1>1 DEF ChoiceInv, IInv, GraphShape
<1> DEFINE agg == AggregateRisk(selected)
           size == Cardinality(selected)
<1>6. agg = 0
  <2>1. \A x \in selected : x.risk \in Risks BY DEF ChoiceInv, IInv, TypeOK, GraphShape
  <2>2. \A x \in selected : x.risk < 3 BY <2>1 DEF Risks
  <2> QED BY <2>1, <2>2, AggregateIsGreatest
<1>7. size \in Nat BY FS_CardinalityType DEF ChoiceInv
<1>8. Score(n, selected) >= Score(m, selected) OBVIOUS
<1>9. /\ Score(n, selected) = n.benefit - 30000 * n.cost - 500000 * Greatest(agg, n.risk) - 1000000 * size
      /\ Score(m, selected) = m.benefit - 30000 * m.cost - 500000 * Greatest(agg, m.risk) - 1000000 * size
  BY SMT DEF Score
<1> HIDE DEF agg, size
<1>10. Greatest(agg, n.risk) = n.risk /\ Greatest(agg, m.risk) = 0
  BY <1>2, <1>5, <1>6 DEF Greatest, Risks
<1>11. n.cost \in Int /\ n.cost >= 5 /\ n.risk \in Int /\ n.risk >= 3 BY <1>5 DEF Costs, Risks
<1>12. 30000 * n.cost >= 150000 /\ 500000 * n.risk >= 1500000 BY <1>11, SMT
<1> QED BY <1>2, <1>4, <1>7, <1>8, <1>9, <1>10, <1>11, <1>12, SMT DEF Unit

LEMMA NextChoiceInv == ChoiceInv /\ [Next]_vars => ChoiceInv'
<1> SUFFICES ASSUME ChoiceInv, [Next]_vars
             PROVE  IsFiniteSet(selected)' /\ StrongFirst' /\ MeanBeatsKnn'
  BY NextIInv, NextDataShape DEF ChoiceInv
<1> USE DEF modelled, planned, executed
<1>1. CASE Pick
  <2>1. PICK n \in Feasible :
          /\ \A m \in Feasible : Score(n, selected) >= Score(m, selected)
          /\ selected' = selected \cup {n} /\ cost' = cost + n.cost
    BY <1>1 DEF Pick
  <2>2. nodes' = nodes /\ edges' = edges BY <1>1 DEF Pick
  <2>3. IsFiniteSet(selected') BY <2>1, FS_AddElement DEF ChoiceInv
  <2>4. MeanBeatsKnn' BY <2>1, PickTakesTheMean DEF ChoiceInv, MeanBeatsKnn
  <2>5. StrongFirst'
    <3> SUFFICES ASSUME NEW m \in nodes, Strong(m), \E x \in selected' : x.risk >= 3,
                        m \notin selected', IsFeasible(m)'
                 PROVE  FALSE
      BY <2>2 DEF StrongFirst
    <3>1. n.cost \in Nat /\ m.cost \in Nat /\ cost \in Nat
      BY <2>1 DEF ChoiceInv, IInv, TypeOK, GraphShape, Costs, Feasible
    <3>2. IsFeasible(m)
      BY <2>1, <2>2, <3>1, PipelineAssumption DEF IsFeasible, Clear
    <3>3. m \in Feasible BY <2>1, <3>2 DEF Feasible
    <3>4. \A x \in selected : ~(x.risk >= 3) BY <2>1, <3>2 DEF ChoiceInv, StrongFirst
    <3>5. n.risk >= 3 BY <2>1, <3>4
    <3> QED BY <2>1, <3>3, <3>4, <3>5, PickTakesStrongFirst
  <2> QED BY <2>3, <2>4, <2>5
<1>2. CASE Model
  <2>1. selected' = selected /\ selected = {}
    BY <1>2 DEF Model, ChoiceInv, IInv, StageShape
  <2> QED BY <2>1, FS_EmptySet DEF StrongFirst, MeanBeatsKnn
<1>3. CASE UNCHANGED <<nodes, edges, selected, cost>>
  <2>1. \A m : IsFeasible(m)' <=> IsFeasible(m) BY <1>3 DEF IsFeasible, Clear
  <2> QED BY <1>3, <2>1 DEF ChoiceInv, StrongFirst, MeanBeatsKnn
<1>4. CASE \/ Perceive \/ SignalStage \/ Plan \/ Review \/ Optimized \/ Simulate \/ Refine
           \/ Validate \/ RunNode \/ Executed \/ Finalize \/ UNCHANGED vars
  BY <1>3, <1>4 DEF vars, Perceive, SignalStage, Plan, Review, Optimized, Simulate, Refine,
     Validate, RunNode, Executed, Finalize
<1> QED BY <1>1, <1>2, <1>4 DEF Next, Stage

\* The optimizer never selects the imputation by neighbours, whatever the table and the
\* budget: the one by the mean, which excludes it, outscores it, or was selected or out of
\* reach before anything risky made up for the difference.
THEOREM MeanIsAlwaysFirst == Spec => []MeanBeatsKnn
<1>1. Init => ChoiceInv
  <2>1. Init => DataShape BY DEF Init, DataShape, Unmodelled
  <2>2. Init => IsFiniteSet(selected) /\ StrongFirst /\ MeanBeatsKnn
    BY FS_EmptySet DEF Init, StrongFirst, MeanBeatsKnn
  <2> QED BY <2>1, <2>2, InitIInv DEF ChoiceInv
<1>2. ChoiceInv => MeanBeatsKnn BY DEF ChoiceInv
<1> QED BY <1>1, <1>2, NextChoiceInv, PTL DEF Spec

-----------------------------------------------------------------------------
(* Pipeline implements MetaAgent's specification: each stage is a step of the  *)
(* job machine or leaves all it speaks of alone.                               *)

\* What the mapping needs beyond the invariant.
MappedShape ==
  /\ job.low \in BOOLEAN
  /\ validated = NoVerdict \/ validated.outcome \in {"passed", "warned"}
  /\ state # "COMPLETED" => "record" \notin written

RInv == IInv /\ MappedShape

LEMMA InitRInv == Init => RInv
<1> SUFFICES ASSUME Init PROVE MappedShape BY InitIInv DEF RInv
<1> QED BY PipelineAssumption DEF Init, MappedShape

LEMMA NextRInv == RInv /\ [Next]_vars => RInv'
<1> SUFFICES ASSUME RInv, [Next]_vars PROVE MappedShape' BY NextIInv DEF RInv
<1> USE DEF modelled, planned, executed
<1>1. CASE Validate
  <2>1. /\ UNCHANGED <<job, written>> /\ state' \in {"FAILED", "REFINING", "EXECUTING"}
        /\ state = "VALIDATING"
    BY <1>1 DEF Validate, Fail
  <2>2. CASE UNCHANGED validated BY <2>1, <2>2 DEF RInv, MappedShape
  <2>3. ASSUME NEW outcome \in Verdicts, validated' = [version |-> version, outcome |-> outcome]
        PROVE  MappedShape'
    <3>1. outcome \in {"passed", "warned"} BY DEF RInv, MappedShape, Verdicts
    <3> QED BY <2>1, <2>3, <3>1 DEF RInv, MappedShape
  <2> QED BY <1>1, <2>2, <2>3 DEF Validate
<1>2. CASE Finalize
  <2>1. UNCHANGED <<job, validated>> /\ state = "FINALIZING" /\ "record" \notin written
    BY <1>2 DEF Finalize, RInv, MappedShape
  <2>2. state' # "COMPLETED" => "record" \notin written'
    BY <1>2, <2>1 DEF Finalize, Write, Fail
  <2> QED BY <2>1, <2>2 DEF RInv, MappedShape
<1>3. CASE UNCHANGED vars BY <1>3 DEF vars, RInv, MappedShape
<1>4. CASE Perceive \/ SignalStage \/ Model \/ Plan \/ Review \/ Pick \/ Optimized
           \/ Simulate \/ Refine \/ RunNode \/ Executed
  <2>1. UNCHANGED <<job, validated, written>> /\ state' # "COMPLETED" /\ state # "COMPLETED"
    BY <1>4 DEF Perceive, SignalStage, Model, Plan, Review, Pick, Optimized, Simulate, Refine,
       RunNode, Executed, Goto, Fail
  <2> QED BY <2>1 DEF RInv, MappedShape
<1> QED BY <1>1, <1>2, <1>3, <1>4 DEF Next, Stage

LEMMA InitMapped == Init => Machine!Init
<1> SUFFICES ASSUME Init PROVE Machine!Init OBVIOUS
<1> QED BY DEF Init, Machine!Init, NoReport, NoVerdict, Unplanned, Machine!NoScore

-----------------------------------------------------------------------------
(* Each stage as a step of the machine.                                        *)

Mapped == [Machine!Next]_(Machine!vars)

\* What the machine sees of the pipeline, besides the state: of the two files of the
\* exported pipeline, the script.
Shown(files) ==
  (files \cap {"dataset", "report", "record"}) \cup (IF "script" \in files THEN {"pipeline"} ELSE {})

Seen == <<job, simulated, validated, iteration_count, version, Shown(written)>>

LEMMA SameSeen == UNCHANGED Seen /\ UNCHANGED state => Mapped
  BY DEF Mapped, Seen, Shown, Scored, Unplanned, Machine!vars, Machine!planning, Machine!refining,
     Machine!trend, Machine!output

\* An error in a stage is the machine's Raise.
LEMMA FailMapped ==
  ASSUME state \notin {"COMPLETED", "FAILED"}, state' = "FAILED", UNCHANGED Seen,
         state \in Unplanned <=> version = 0
  PROVE  Mapped
<1>1. Machine!Raise
  BY DEF Machine!Raise, Machine!Fail, Machine!planning, Machine!refining, Machine!trend,
     Machine!output, Seen, Shown, Unplanned, Scored
<1> QED BY <1>1 DEF Mapped, Machine!Next

LEMMA HandlerMapped == Machine!Handler => Mapped BY DEF Mapped, Machine!Next

LEMMA PerceiveMapped == RInv /\ Perceive => Mapped
<1> SUFFICES ASSUME RInv, Perceive PROVE Machine!_perceive
  BY HandlerMapped DEF Machine!Handler
<1> QED
  BY DEF Perceive, Goto, modelled, planned, executed, Machine!_perceive, Machine!At, Machine!Goto,
     Machine!planning, Machine!refining, Machine!trend, Machine!output, Unplanned, Scored

LEMMA SignalMapped == RInv /\ SignalStage => Mapped
<1> SUFFICES ASSUME RInv, SignalStage PROVE Machine!_signal
  BY HandlerMapped DEF Machine!Handler
<1> QED
  BY DEF SignalStage, Goto, modelled, planned, executed, Machine!_signal, Machine!At, Machine!Goto,
     Machine!planning, Machine!refining, Machine!trend, Machine!output, Unplanned, Scored

LEMMA ModelMapped == RInv /\ Model => Mapped
<1> SUFFICES ASSUME RInv, Model PROVE Mapped OBVIOUS
<1> USE DEF planned, executed
<1>1. UNCHANGED Seen /\ state = "MODELING" /\ state' \in {"FAILED", "PLANNING"}
  BY DEF Model, Fail, Seen
<1>2. version = 0 BY <1>1 DEF RInv, IInv, StageShape, Early
<1>3. CASE state' = "FAILED" BY <1>1, <1>2, <1>3, FailMapped DEF Unplanned
<1>4. CASE state' = "PLANNING"
  <2>1. Machine!_model
    BY <1>1, <1>4 DEF Seen, Shown, Machine!_model, Machine!At, Machine!Goto, Machine!planning,
       Machine!refining, Machine!trend, Machine!output, Unplanned, Scored
  <2> QED BY <2>1, HandlerMapped DEF Machine!Handler
<1> QED BY <1>1, <1>3, <1>4

\* The planner reports the score of the job: the first one.
LEMMA PlanMapped == RInv /\ Plan => Mapped
<1> SUFFICES ASSUME RInv, Plan PROVE Machine!_plan
  BY HandlerMapped DEF Machine!Handler
<1>1. iteration_count = 0 /\ version = 0 BY DEF Plan, Goto, RInv, IInv, StageShape, Early
<1>2. \E s \in {2, 9} : Scored = s BY DEF Scored
<1>3. \E r \in BOOLEAN : [risky |-> FALSE] = [risky |-> r] OBVIOUS
<1>4. UNCHANGED Seen /\ state = "PLANNING" /\ state' = "REVIEWING"
  BY DEF Plan, Goto, modelled, planned, executed, Seen
<1> QED
  BY <1>1, <1>2, <1>3, <1>4 DEF Machine!_plan, Machine!At, Machine!Goto,
     Machine!BudgetAvailable, Machine!refining, Machine!output, Seen, Shown, Unplanned, Scored

\* Approved, and by no human: the engine of hitl.py finds no risk.
LEMMA ReviewMapped == RInv /\ Review => Mapped
<1> SUFFICES ASSUME RInv, Review PROVE Machine!_review
  BY HandlerMapped DEF Machine!Handler
<1>1. UNCHANGED Seen /\ state = "REVIEWING" /\ state' = "OPTIMIZING"
  BY DEF Review, Goto, modelled, planned, executed, Seen
<1>2. Machine!ReviewerApproves
  BY <1>1 DEF Machine!ReviewerApproves, Machine!requires_hitl, Machine!Goto
<1> QED
  BY <1>1, <1>2 DEF Machine!_review, Machine!At, Machine!requires_hitl, Machine!refining,
     Machine!trend, Machine!output, Seen, Shown, Unplanned, Scored

LEMMA OptimizedMapped == RInv /\ Optimized => Mapped
<1> SUFFICES ASSUME RInv, Optimized PROVE Machine!_optimize
  BY HandlerMapped DEF Machine!Handler
<1> QED
  BY DEF Optimized, Goto, modelled, executed, Machine!_optimize, Machine!At, Machine!Goto,
     Machine!planning, Machine!trend, Machine!output, Unplanned, Scored

\* Before a refinement there is no earlier score; after one, a low score has escalated.
LEMMA SimulateMapped == RInv /\ Simulate => Mapped
<1> SUFFICES ASSUME RInv, Simulate PROVE Machine!_simulate
  BY HandlerMapped DEF Machine!Handler
<1>1. iteration_count \in Nat /\ job.low \in BOOLEAN BY PipelineAssumption DEF RInv, IInv, TypeOK, MappedShape
<1>2. ~Machine!Anomalous(IF iteration_count = 0 THEN -1 ELSE Scored,
                         IF state \in Unplanned \/ (state = "FAILED" /\ version = 0)
                         THEN -1 ELSE Scored)
  BY <1>1 DEF Machine!Anomalous, Machine!NoScore, Scored, Simulate, Goto, Unplanned
<1>3. /\ UNCHANGED <<job, validated, iteration_count, version, written>>
      /\ state = "SIMULATING" /\ state' = "REFINING" /\ simulated'.version = version
  BY DEF Simulate, Goto, modelled, executed
<1> QED
  BY <1>2, <1>3 DEF Machine!_simulate, Machine!At, Machine!Goto, Machine!planning,
     Machine!output, Unplanned, Scored

\* Low scores are an anomaly at the first refinement and escalated from then on.
LEMMA RefineMapped == RInv /\ Refine => Mapped
<1> SUFFICES ASSUME RInv, Refine PROVE Mapped OBVIOUS
<1>1. /\ UNCHANGED <<job, simulated, validated, written>> /\ state = "REFINING"
      /\ version \in Nat /\ version > 0 /\ iteration_count \in Nat /\ job.low \in BOOLEAN
  BY PipelineAssumption
  DEF Refine, modelled, executed, RInv, IInv, TypeOK, StageShape, Looping, MappedShape
<1>2. CASE Replaces
  <2>1. state' = "FAILED" /\ UNCHANGED Seen BY <1>1, <1>2 DEF Refine, Fail, Seen
  <2> QED BY <1>1, <2>1, FailMapped DEF Unplanned
<1>3. CASE ~Replaces
  <2>1. /\ version' \in {version, version + 1}
        /\ iteration_count' = iteration_count + 1
        /\ state' = IF Anomaly(iteration_count') \/ ~IterationsLeft(iteration_count')
                    THEN "VALIDATING" ELSE "SIMULATING"
    BY <1>3 DEF Refine
  <2>2. Machine!StillAnomalous <=> Anomaly(iteration_count')
    BY <1>1, <2>1 DEF Machine!StillAnomalous, Machine!Anomalous, Machine!NoScore, Anomaly, Scored,
       Unplanned
  <2>3. Machine!IterationsLeft(iteration_count') <=> IterationsLeft(iteration_count')
    BY DEF Machine!IterationsLeft, IterationsLeft
  <2>4. (job.low /\ iteration_count > 0)' =
          IF Machine!StillAnomalous THEN TRUE ELSE job.low /\ iteration_count > 0
    <3>1. /\ (job.low /\ iteration_count > 0)' <=> job.low
          /\ Machine!StillAnomalous <=> job.low /\ iteration_count = 0
      BY <1>1, <2>1, <2>2 DEF Anomaly
    <3>2. CASE Machine!StillAnomalous BY <3>1, <3>2
    <3>3. CASE ~Machine!StillAnomalous
      <4>1. (job.low /\ iteration_count > 0)' <=> (job.low /\ iteration_count > 0)
        BY <1>1, <3>1, <3>3
      <4> QED BY <3>3, <4>1
    <3> QED BY <3>2, <3>3
  <2>5. /\ Machine!At("REFINING")
        /\ (IF iteration_count = 0 THEN -1 ELSE Scored)' =
             (IF state \in Unplanned \/ (state = "FAILED" /\ version = 0) THEN -1 ELSE Scored)
    BY <1>1, <2>1 DEF Machine!At, Unplanned, Scored
  <2>6. IF Machine!StillAnomalous \/ ~Machine!IterationsLeft(iteration_count')
        THEN Machine!Goto("VALIDATING") ELSE Machine!Goto("SIMULATING")
    BY <1>1, <2>1, <2>2, <2>3 DEF Machine!Goto
  <2>7. UNCHANGED <<Machine!planning, simulated.version, validated.version, validated.outcome,
                    FALSE,
                    IF state \in Unplanned \/ (state = "FAILED" /\ version = 0)
                    THEN -1 ELSE Scored,
                    0, Machine!output>>
    BY <1>1, <2>1 DEF Machine!planning, Machine!output, Unplanned, Scored
  <2>8. Machine!_refine BY <2>1, <2>4, <2>5, <2>6, <2>7, Zenon DEF Machine!_refine
  <2> QED BY <2>8, HandlerMapped DEF Machine!Handler
<1> QED BY <1>2, <1>3

LEMMA ValidateMapped == RInv /\ Validate => Mapped
<1> SUFFICES ASSUME RInv, Validate PROVE Mapped OBVIOUS
<1>1. /\ UNCHANGED <<job, simulated, iteration_count, version, written>>
      /\ state = "VALIDATING" /\ version \in Nat /\ version > 0
  BY DEF Validate, modelled, RInv, IInv, TypeOK, StageShape, Looping
<1>2. CASE Fail /\ UNCHANGED validated
  BY <1>1, <1>2, FailMapped DEF Fail, Seen, Unplanned
<1>3. ASSUME NEW outcome \in Verdicts,
             validated' = [version |-> version, outcome |-> outcome],
             state' = IF outcome = "warned" /\ IterationsLeft(iteration_count)
                      THEN "REFINING" ELSE "EXECUTING"
      PROVE  Mapped
  <2>1. outcome \in {"passed", "warned"} BY DEF RInv, MappedShape, Verdicts
  <2>2. Machine!_validate
    BY <1>1, <1>3, <2>1 DEF Machine!_validate, Machine!At, Machine!Goto, Machine!IterationsLeft,
       IterationsLeft, Machine!planning, Machine!trend, Machine!output, Unplanned, Scored
  <2> QED BY <2>2, HandlerMapped DEF Machine!Handler
<1> QED BY <1>2, <1>3 DEF Validate

\* The executor's nodes are inside one handler.
LEMMA RunNodeMapped == RInv /\ RunNode => Mapped
<1> SUFFICES ASSUME RInv, RunNode PROVE Mapped OBVIOUS
<1>1. /\ UNCHANGED Seen /\ state = "EXECUTING" /\ version \in Nat /\ version > 0
      /\ state' = "FAILED" \/ UNCHANGED state
  BY DEF RunNode, Fail, modelled, planned, Seen, RInv, IInv, TypeOK, StageShape
<1> QED BY <1>1, SameSeen, FailMapped DEF Unplanned

LEMMA ExecutedMapped == RInv /\ Executed => Mapped
<1> SUFFICES ASSUME RInv, Executed PROVE Mapped OBVIOUS
<1>1. /\ UNCHANGED Seen /\ state = "EXECUTING" /\ version \in Nat /\ version > 0
      /\ state' \in {"FAILED", "FINALIZING"}
  BY DEF Executed, Fail, modelled, planned, Seen, RInv, IInv, TypeOK, StageShape
<1>2. CASE state' = "FAILED" BY <1>1, <1>2, FailMapped DEF Unplanned
<1>3. CASE state' = "FINALIZING"
  <2>1. Machine!_execute
    BY <1>1, <1>3 DEF Seen, Shown, Machine!_execute, Machine!At, Machine!Goto, Machine!planning,
       Machine!refining, Machine!trend, Machine!output, Unplanned, Scored
  <2> QED BY <2>1, HandlerMapped DEF Machine!Handler
<1> QED BY <1>1, <1>2, <1>3

\* The pickle is written ahead of the script, which alone stands for the pipeline.
LEMMA FinalizeMapped == RInv /\ Finalize => Mapped
<1> SUFFICES ASSUME RInv, Finalize PROVE Mapped OBVIOUS
<1>1. /\ UNCHANGED <<job, simulated, validated, iteration_count, version>>
      /\ state = "FINALIZING" /\ version \in Nat /\ version > 0
      /\ "record" \notin written
  BY DEF Finalize, modelled, planned, RInv, IInv, TypeOK, StageShape, MappedShape
<1>2. CASE Fail /\ UNCHANGED written
  BY <1>1, <1>2, FailMapped DEF Fail, Seen, Unplanned
<1>3. CASE Write("pkl")
  BY <1>1, <1>3, SameSeen DEF Write, Seen, Shown
<1>4. ASSUME NEW f \in {"dataset", "script", "report"}, Write(f),
             f = "script" => "dataset" \in written /\ "script" \notin written,
             f = "report" => {"dataset", "script"} \subseteq written /\ "report" \notin written,
             f = "dataset" => "dataset" \notin written
      PROVE  Mapped
  <2> DEFINE shown == IF f = "script" THEN "pipeline" ELSE f
  <2>1. Machine!NextArtifact = shown
    BY <1>4 DEF Machine!NextArtifact
  <2>2. Shown(written)' = Shown(written) \cup {shown} /\ "record" \notin Shown(written)'
    BY <1>1, <1>4 DEF Write, Shown
  <2>3. Machine!_finalize
    BY <1>1, <1>4, <2>1, <2>2 DEF Write, Shown, Machine!_finalize, Machine!At, Machine!Goto,
       Machine!Artifacts, Machine!planning, Machine!refining, Machine!trend, Unplanned, Scored
  <2> QED BY <2>3, HandlerMapped DEF Machine!Handler
<1>5. ASSUME {"dataset", "script", "report"} \subseteq written,
             state' = "COMPLETED", written' = written \cup {"record"}
      PROVE  Mapped
  <2>1. Machine!NextArtifact = "record" /\ Shown(written)' = Machine!Artifacts
        /\ Shown(written)' = Shown(written) \cup {"record"}
    BY <1>5 DEF Machine!NextArtifact, Machine!Artifacts, Shown
  <2>2. Machine!_finalize
    BY <1>1, <1>5, <2>1 DEF Shown, Machine!_finalize, Machine!At, Machine!planning,
       Machine!refining, Machine!trend, Unplanned, Scored
  <2> QED BY <2>2, HandlerMapped DEF Machine!Handler
<1> QED BY <1>1, <1>2, <1>3, <1>4, <1>5 DEF Finalize

LEMMA NextMapped == RInv /\ [Next]_vars => Mapped
<1> SUFFICES ASSUME RInv, [Next]_vars PROVE Mapped OBVIOUS
<1>1. CASE Pick BY <1>1, SameSeen DEF Pick, modelled, executed, Seen, Shown
<1>2. CASE UNCHANGED vars
  BY <1>2, SameSeen DEF vars, modelled, planned, executed, Seen, Shown
<1> QED
  BY <1>1, <1>2, PerceiveMapped, SignalMapped, ModelMapped, PlanMapped, ReviewMapped,
     OptimizedMapped, SimulateMapped, RefineMapped, ValidateMapped, RunNodeMapped,
     ExecutedMapped, FinalizeMapped DEF Next, Stage

-----------------------------------------------------------------------------
(* The theorem.                                                                *)

\* Whatever the table, the rules, the optimizer and the executor do, a job's stages are
\* the steps of the job machine: what is proved of MetaAgent holds of the data's way.
THEOREM Refinement == Spec => ImplementsMetaAgent
<1>1. RInv /\ [Next]_vars => [Machine!Next]_(Machine!vars) BY NextMapped DEF Mapped
<1> QED
  BY InitRInv, NextRInv, InitMapped, <1>1, PTL DEF Spec, Machine!Spec, ImplementsMetaAgent
=============================================================================
