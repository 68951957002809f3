-------------------------- MODULE ActionGraph_proofs --------------------------
(* Lemmas about the operators that lead from a table to the graph: what a rank *)
(* is, which columns a rule names, which signals survive, and what the nodes   *)
(* made of them carry.                                                         *)
EXTENDS ActionGraph, FiniteSetTheorems, WellFoundedInduction, TLAPS

-----------------------------------------------------------------------------
(* Ranks.                                                                      *)

Below(R, S, s) == {r \in S : <<r, s>> \in R}

\* In a finite set with a strict total order every place is somebody's: the number of
\* elements below is an injection into 0 .. n - 1.
LEMMA EveryRankIsTaken ==
  ASSUME NEW S, IsFiniteSet(S), NEW R,
         \A s \in S : <<s, s>> \notin R,
         \A r, s, t \in S : <<r, s>> \in R /\ <<s, t>> \in R => <<r, t>> \in R,
         \A r, s \in S : r # s => <<r, s>> \in R \/ <<s, r>> \in R
  PROVE  \A k \in 1 .. Cardinality(S) : \E s \in S : Cardinality(Below(R, S, s)) = k - 1
<1> DEFINE n == Cardinality(S)
           T == 0 .. n - 1
           f == [s \in S |-> Cardinality(Below(R, S, s))]
<1>1. n \in Nat BY FS_CardinalityType
<1>2. ASSUME NEW s \in S
      PROVE  /\ IsFiniteSet(Below(R, S, s)) /\ Cardinality(Below(R, S, s)) \in Nat
             /\ Cardinality(Below(R, S, s)) < n
  <2>1. Below(R, S, s) \subseteq S /\ s \in S \ Below(R, S, s) BY DEF Below
  <2>2. /\ IsFiniteSet(Below(R, S, s)) /\ Cardinality(Below(R, S, s)) <= n
        /\ Cardinality(Below(R, S, s)) # n
    BY <2>1, FS_Subset
  <2> QED BY <1>1, <2>2, FS_CardinalityType
<1>3. ASSUME NEW r \in S, NEW s \in S, <<r, s>> \in R
      PROVE  Cardinality(Below(R, S, r)) # Cardinality(Below(R, S, s))
  <2>1. Below(R, S, r) \subseteq Below(R, S, s) BY <1>3 DEF Below
  <2>2. r \in Below(R, S, s) \ Below(R, S, r) BY <1>3 DEF Below
  <2> QED BY <1>2, <2>1, <2>2, FS_Subset
<1>4. f \in Injection(S, T)
  <2>1. f \in [S -> T] BY <1>1, <1>2
  <2>2. ASSUME NEW r \in S, NEW s \in S, f[r] = f[s] PROVE r = s
    <3>1. Cardinality(Below(R, S, r)) = Cardinality(Below(R, S, s)) BY <2>2
    <3> QED BY <3>1, <1>3
  <2> HIDE DEF f, T
  <2> QED BY <2>1, <2>2 DEF Injection, IsInjective
<1>5. IsFiniteSet(T) /\ Cardinality(T) = n
  <2>1. 0 \in Int /\ n - 1 \in Int BY <1>1
  <2>2. IsFiniteSet(T) /\ Cardinality(T) = IF 0 > n - 1 THEN 0 ELSE n - 1 - 0 + 1
    BY <2>1, FS_Interval
  <2> QED BY <1>1, <2>2
<1>6. f \in Surjection(S, T) BY <1>4, <1>5, FS_Injection
<1>7. \A t \in T : \E s \in S : f[s] = t BY <1>6 DEF Surjection
<1> QED BY <1>1, <1>7

\* A set of places within 1 .. n has a greatest.
LEMMA GreatestPlace ==
  ASSUME NEW n \in Nat, NEW P \in SUBSET (1 .. n), P # {}
  PROVE  \E i \in P : \A j \in P : j <= i
<1> DEFINE R == {p \in P \X P : p[1] > p[2]}
<1>1. IsFiniteSet(P)
  <2>1. IsFiniteSet(1 .. n) BY FS_Interval
  <2> QED BY <2>1, FS_Subset
<1>2. Cardinality(P) \in Nat /\ Cardinality(P) # 0 BY <1>1, FS_CardinalityType, FS_EmptySet
<1>3. \A i, j \in P : <<i, j>> \in R <=> i > j OBVIOUS
<1> HIDE DEF R
<1>4. PICK i \in P : Cardinality(Below(R, P, i)) = 1 - 1
  <2>1. /\ \A i \in P : <<i, i>> \notin R
        /\ \A i, j, k \in P : <<i, j>> \in R /\ <<j, k>> \in R => <<i, k>> \in R
        /\ \A i, j \in P : i # j => <<i, j>> \in R \/ <<j, i>> \in R
    BY <1>3
  <2>2. \A k \in 1 .. Cardinality(P) : \E i \in P : Cardinality(Below(R, P, i)) = k - 1
    BY <1>1, <2>1, EveryRankIsTaken
  <2> QED BY <1>2, <2>2
<1>5. IsFiniteSet(Below(R, P, i)) BY <1>1, FS_Subset DEF Below
<1>6. Below(R, P, i) = {} BY <1>4, <1>5, FS_EmptySet
<1>7. \A j \in P : ~(j > i) BY <1>3, <1>6 DEF Below
<1> QED BY <1>7

-----------------------------------------------------------------------------
(* The signals of a table.                                                     *)

IsList(t) == \E n \in Nat : DOMAIN t = 1 .. n

\* The place of every hit in the list of hits is found.
LEMMA NthHit ==
  ASSUME NEW n \in Nat, NEW hits \in SUBSET (1 .. n), NEW k \in 1 .. Cardinality(hits)
  PROVE  (CHOOSE i \in hits : Cardinality({j \in hits : j < i}) = k - 1) \in hits
<1> DEFINE R == {p \in hits \X hits : p[1] < p[2]}
<1>1. IsFiniteSet(hits)
  <2>1. IsFiniteSet(1 .. n) BY FS_Interval
  <2> QED BY <2>1, FS_Subset
<1>2. \A i, j \in hits : <<i, j>> \in R <=> i < j OBVIOUS
<1> HIDE DEF R
<1>3. /\ \A i \in hits : <<i, i>> \notin R
      /\ \A i, j, m \in hits : <<i, j>> \in R /\ <<j, m>> \in R => <<i, m>> \in R
      /\ \A i, j \in hits : i # j => <<i, j>> \in R \/ <<j, i>> \in R
  BY <1>2
<1>4. PICK i \in hits : Cardinality(Below(R, hits, i)) = k - 1
  BY <1>1, <1>3, EveryRankIsTaken
<1>5. Below(R, hits, i) = {j \in hits : j < i} BY <1>2 DEF Below
<1> QED BY <1>4, <1>5

\* Whatever a rule lists is the name of a column it hit.
LEMMA ListedHits ==
  ASSUME NEW t, IsList(t), NEW hits \in SUBSET DOMAIN t,
         NEW k \in 1 .. Cardinality(hits)
  PROVE  \E i \in hits :
           t[CHOOSE x \in hits : Cardinality({j \in hits : j < x}) = k - 1].name = t[i].name
  BY NthHit DEF IsList

\* A signal's number tells the rule that emitted it.
Severities == {"critical", "high", "medium", "low", "info"}
ActionNames == DOMAIN ImpactMap

ColumnNumbers == 5 .. 11 \cup 16 .. 23
TableNumbers  == 1 .. 4 \cup 12 .. 15 \cup 24 .. 32

SignalShape(s) ==
  /\ s.no \in 1 .. 32 /\ s.prio \in Int
  /\ s.severity \in Severities /\ s.action \in ActionNames

LEMMA ColumnRulesShape ==
  ASSUME NEW t, NEW s \in ColumnRules(t)
  PROVE  SignalShape(s) /\ s.no \in ColumnNumbers
<1> USE DEF Signal, SignalShape, Severities, ActionNames, ImpactMap, ColumnNumbers
<1>1. CASE s \in MissingData(t) BY <1>1 DEF MissingData
<1>2. CASE s \in VarianceRules(t) \cup IdDetection(t) BY <1>2 DEF VarianceRules, IdDetection
<1>3. CASE s \in TypeRules(t) BY <1>3 DEF TypeRules
<1>4. CASE s \in Encoding(t) \cup Normalization(t) \cup TextProcessing(t)
  BY <1>4 DEF Encoding, Normalization, TextProcessing
<1> QED BY <1>1, <1>2, <1>3, <1>4 DEF ColumnRules

LEMMA ColumnRulesNumbered ==
  ASSUME NEW t, NEW r \in ColumnRules(t), NEW s \in ColumnRules(t), r.no = s.no
  PROVE  r = s
<1> USE DEF Signal
<1>1. ASSUME NEW x \in ColumnRules(t)
      PROVE  /\ x.no \in 16 .. 19 => x \in MissingData(t)
             /\ x.no \in 8 .. 11 => x \in VarianceRules(t) \cup IdDetection(t)
             /\ x.no \in 5 .. 7 => x \in TypeRules(t)
             /\ x.no \in 20 .. 23 => x \in Encoding(t) \cup Normalization(t) \cup TextProcessing(t)
  <2>1. x \in MissingData(t) => x.no \in 16 .. 19 BY DEF MissingData
  <2>2. x \in VarianceRules(t) \cup IdDetection(t) => x.no \in 8 .. 11
    BY DEF VarianceRules, IdDetection
  <2>3. x \in TypeRules(t) => x.no \in 5 .. 7 BY DEF TypeRules
  <2>4. x \in Encoding(t) \cup Normalization(t) \cup TextProcessing(t) => x.no \in 20 .. 23
    BY DEF Encoding, Normalization, TextProcessing
  <2> QED BY <2>1, <2>2, <2>3, <2>4 DEF ColumnRules
<1>2. s.no \in ColumnNumbers BY ColumnRulesShape
<1>3. CASE s.no \in 16 .. 19
  <2>1. r \in MissingData(t) /\ s \in MissingData(t) BY <1>1, <1>3
  <2> QED BY <2>1 DEF MissingData
<1>4. CASE s.no \in 8 .. 11
  <2>1. r \in VarianceRules(t) \cup IdDetection(t) /\ s \in VarianceRules(t) \cup IdDetection(t)
    BY <1>1, <1>4
  <2> QED BY <2>1 DEF VarianceRules, IdDetection
<1>5. CASE s.no \in 5 .. 7
  <2>1. r \in TypeRules(t) /\ s \in TypeRules(t) BY <1>1, <1>5
  <2> QED BY <2>1 DEF TypeRules
<1>6. CASE s.no \in 20 .. 23
  <2>1. /\ r \in Encoding(t) \cup Normalization(t) \cup TextProcessing(t)
        /\ s \in Encoding(t) \cup Normalization(t) \cup TextProcessing(t)
    BY <1>1, <1>6
  <2> QED BY <2>1 DEF Encoding, Normalization, TextProcessing
<1> QED BY <1>2, <1>3, <1>4, <1>5, <1>6 DEF ColumnNumbers

\* The rules about the whole table. None of them warns, drops or encodes.
TableActions ==
  {"generate_plots", "drop_redundant", "user_decision_required", "group_into_cluster",
   "route_to_image_eda", "route_to_nlp_eda", "route_to_iot_eda", "route_to_event_eda",
   "block_analysis", "suggest_deduplication", "ignore_duplicates", "skip_deduplication"}

LEMMA OfTableIs ==
  ASSUME NEW no, NEW prio, NEW type, NEW action, NEW severity, NEW n
  PROVE  OfTable(no, prio, type, action, severity, n) =
           [no |-> no, prio |-> prio, type |-> type, action |-> action, severity |-> severity,
            cols |-> Whole, listed |-> n, percent |-> 0]
  BY DEF OfTable, Signal

LEMMA PlotsShape ==
  ASSUME NEW t, NEW r \in Plots(t), NEW s \in Plots(t)
  PROVE  /\ SignalShape(s) /\ s.no \in 27 .. 32 /\ s.action \in TableActions
         /\ r.no = s.no => r = s
<1>1. ASSUME NEW x \in Plots(t)
      PROVE  \E no \in 27 .. 32, prio \in {10, 15, 20} : \E cols : x = Plot(no, prio, cols)
  BY DEF Plots
<1>2. ASSUME NEW no, NEW prio, NEW cols
      PROVE  Plot(no, prio, cols) =
               [no |-> no, prio |-> prio, type |-> "visualization", action |-> "generate_plots",
                severity |-> "info", cols |-> Whole, listed |-> Len(cols), percent |-> 0]
  BY OfTableIs DEF Plot
<1>3. SignalShape(s) /\ s.no \in 27 .. 32 /\ s.action = "generate_plots"
  <2>1. PICK no \in 27 .. 32, prio \in {10, 15, 20} : \E cols : s = Plot(no, prio, cols)
    BY <1>1
  <2>2. PICK cols : s = Plot(no, prio, cols) BY <2>1
  <2>3. s.no = no /\ s.prio = prio /\ s.severity = "info" /\ s.action = "generate_plots"
    BY <1>2, <2>2
  <2> QED BY <2>3 DEF SignalShape, Severities, ActionNames, ImpactMap
<1>4. \A no, prio, cols : Plot(no, prio, cols).no = no BY <1>2
<1>5. r.no = s.no => r = s BY <1>4 DEF Plots
<1> QED BY <1>3, <1>5 DEF TableActions

LEMMA CorrelationsShape ==
  ASSUME NEW facts, NEW r \in Correlations(facts), NEW s \in Correlations(facts)
  PROVE  /\ SignalShape(s) /\ s.no \in 24 .. 26 /\ s.action \in TableActions
         /\ r.no = s.no => r = s
  BY DEF Correlations, OfTable, Signal, SignalShape, Severities, ActionNames, ImpactMap,
         TableActions

LEMMA RoutingShape ==
  ASSUME NEW t, NEW facts, NEW r \in Routing(t, facts), NEW s \in Routing(t, facts)
  PROVE  /\ SignalShape(s) /\ s.no \in 1 .. 4 /\ s.action \in TableActions
         /\ r.no = s.no => r = s
<1> DEFINE image == OfTable(1, 85, "workflow_routing", "route_to_image_eda", "medium", 0)
           nlp == OfTable(2, 80, "workflow_routing", "route_to_nlp_eda", "medium", 0)
           iot == OfTable(3, 80, "workflow_routing", "route_to_iot_eda", "high", 0)
           event == OfTable(4, 85, "workflow_routing", "route_to_event_eda", "info", 0)
<1>1. r \in {image, nlp, iot, event} /\ s \in {image, nlp, iot, event} BY DEF Routing
<1>2. image.no = 1 /\ nlp.no = 2 /\ iot.no = 3 /\ event.no = 4 BY OfTableIs
<1> USE DEF SignalShape, Severities, ActionNames, ImpactMap, TableActions
<1>3. SignalShape(image) /\ image.action \in TableActions BY OfTableIs
<1>4. SignalShape(nlp) /\ nlp.action \in TableActions BY OfTableIs
<1>5. SignalShape(iot) /\ iot.action \in TableActions BY OfTableIs
<1>6. SignalShape(event) /\ event.action \in TableActions BY OfTableIs
<1> HIDE DEF image, nlp, iot, event, SignalShape, TableActions
<1> QED BY <1>1, <1>2, <1>3, <1>4, <1>5, <1>6

LEMMA DuplicatesShape ==
  ASSUME NEW facts
  PROVE  /\ SignalShape(Duplicates(facts)) /\ Duplicates(facts).no \in 12 .. 15
         /\ Duplicates(facts).action \in TableActions
  BY DEF Duplicates, OfTable, Signal, SignalShape, Severities, ActionNames, ImpactMap,
         TableActions

LEMMA TableRulesShape ==
  ASSUME NEW t, NEW facts, NEW r \in TableRules(t, facts), NEW s \in TableRules(t, facts)
  PROVE  /\ SignalShape(s) /\ s.no \in TableNumbers /\ s.action \in TableActions
         /\ r.no = s.no => r = s
<1>1. ASSUME NEW x \in TableRules(t, facts)
      PROVE  /\ SignalShape(x) /\ x.no \in TableNumbers /\ x.action \in TableActions
             /\ x.no \in 27 .. 32 => x \in Plots(t)
             /\ x.no \in 24 .. 26 => x \in Correlations(facts)
             /\ x.no \in 1 .. 4 => x \in Routing(t, facts)
             /\ x.no \in 12 .. 15 => x = Duplicates(facts)
  <2>1. CASE x \in Plots(t) BY <2>1, PlotsShape DEF TableNumbers
  <2>2. CASE x \in Correlations(facts) BY <2>2, CorrelationsShape DEF TableNumbers
  <2>3. CASE x \in Routing(t, facts) BY <2>3, RoutingShape DEF TableNumbers
  <2>4. CASE x = Duplicates(facts) BY <2>4, DuplicatesShape DEF TableNumbers
  <2> QED BY <2>1, <2>2, <2>3, <2>4 DEF TableRules
<1>2. ASSUME r.no = s.no PROVE r = s
  <2>1. CASE s.no \in 27 .. 32 BY <1>1, <1>2, <2>1, PlotsShape
  <2>2. CASE s.no \in 24 .. 26 BY <1>1, <1>2, <2>2, CorrelationsShape
  <2>3. CASE s.no \in 1 .. 4 BY <1>1, <1>2, <2>3, RoutingShape
  <2>4. CASE s.no \in 12 .. 15 BY <1>1, <1>2, <2>4
  <2> QED BY <1>1, <2>1, <2>2, <2>3, <2>4 DEF TableNumbers
<1> QED BY <1>1, <1>2

LEMMA RawSignalsShape ==
  ASSUME NEW t, NEW facts, NEW s \in RawSignals(t, facts)
  PROVE  SignalShape(s)
  BY ColumnRulesShape, TableRulesShape DEF RawSignals

LEMMA RawSignalsNumbered ==
  ASSUME NEW t, NEW facts, NEW r \in RawSignals(t, facts), NEW s \in RawSignals(t, facts),
         r.no = s.no
  PROVE  r = s
<1>1. \A x \in ColumnRules(t) : x.no \in ColumnNumbers BY ColumnRulesShape
<1>2. \A x \in TableRules(t, facts) : x.no \in TableNumbers BY TableRulesShape
<1>3. CASE r \in ColumnRules(t) /\ s \in ColumnRules(t) BY <1>3, ColumnRulesNumbered
<1>4. CASE r \in TableRules(t, facts) /\ s \in TableRules(t, facts) BY <1>4, TableRulesShape
<1> QED BY <1>1, <1>2, <1>3, <1>4 DEF RawSignals, ColumnNumbers, TableNumbers

LEMMA RawSignalsFinite ==
  ASSUME NEW t, NEW facts
  PROVE  IsFiniteSet(RawSignals(t, facts))
<1> DEFINE S == RawSignals(t, facts)
           f == [s \in S |-> s.no]
<1>1. \A s \in S : f[s] = s.no /\ s.no \in 1 .. 32 BY RawSignalsShape DEF SignalShape
<1>2. f \in [S -> 1 .. 32] BY <1>1
<1>3. \A r, s \in S : r.no = s.no => r = s BY RawSignalsNumbered
<1>4. \A r, s \in S : f[r] = f[s] => r = s BY <1>1, <1>3
<1> HIDE DEF S, f
<1>5. f \in Injection(S, 1 .. 32) BY <1>2, <1>4 DEF Injection, IsInjective
<1>6. IsFiniteSet(1 .. 32)
  <2>1. PICK n \in Int : n = 32 OBVIOUS
  <2>2. IsFiniteSet(1 .. n) BY FS_Interval
  <2> QED BY <2>1, <2>2
<1>7. IsFiniteSet(S) BY <1>5, <1>6, FS_Injection
<1> QED BY <1>7 DEF S

-----------------------------------------------------------------------------
(* Ranking and compression.                                                    *)

LEMMA PriorityIsInt ==
  ASSUME NEW s, SignalShape(s)
  PROVE  Priority(s) \in Int /\ Priority(s) <= 2000000
<1>1. SeverityWeight[s.severity] \in Int /\ Urgency[s.severity] \in Int
  BY DEF SignalShape, Severities, SeverityWeight, Urgency
<1>2. ImpactMap[s.action] \in Int BY DEF SignalShape, ActionNames, ImpactMap
<1>3. TypeWeight(s.type) \in Int BY DEF TypeWeight
<1>4. (SeverityWeight[s.severity] + ImpactMap[s.action]) * TypeWeight(s.type) \in Int
  BY <1>1, <1>2, <1>3
<1>5. BaseScore(s) \in Int BY <1>4 DEF BaseScore, Least
<1>6. Magnitude(s) \in Int BY DEF Magnitude
<1>7. ContextBoost(s) \in Int /\ Decay(s) \in Int BY DEF ContextBoost, Decay
<1>8. Multiplier(s) \in Int BY <1>1 DEF Multiplier
<1>9. (BaseScore(s) + 200 * (Magnitude(s) + ContextBoost(s))) \in Int BY <1>5, <1>6, <1>7
<1>10. \A a, b, c \in Int : a * b * c \in Int OBVIOUS
<1>11. (BaseScore(s) + 200 * (Magnitude(s) + ContextBoost(s))) * Multiplier(s) * Decay(s) \in Int
  BY <1>7, <1>8, <1>9, <1>10
<1> QED BY <1>11 DEF Priority, Least

\* The sort has a place for every signal: the score, the rule's own priority and the
\* order of discovery tell any two apart.
LEMMA RankedAreSignals ==
  ASSUME NEW t, NEW facts
  PROVE  LET S == RawSignals(t, facts) IN
         /\ Cardinality(S) \in Nat
         /\ DOMAIN Ranked(S) = 1 .. Cardinality(S)
         /\ \A i \in 1 .. Cardinality(S) : Ranked(S)[i] \in S
<1> DEFINE S == RawSignals(t, facts)
           R == {p \in S \X S : Before(p[1], p[2])}
<1>1. IsFiniteSet(S) BY RawSignalsFinite
<1>2. \A s \in S : Priority(s) \in Int /\ s.prio \in Int /\ s.no \in Int
  BY RawSignalsShape, PriorityIsInt DEF SignalShape
<1>3. \A r, s \in S : r.no = s.no => r = s BY RawSignalsNumbered
<1> HIDE DEF S
<1>4. \A r, s \in S : <<r, s>> \in R <=> Before(r, s) OBVIOUS
<1> HIDE DEF R
<1>5. \A s \in S : <<s, s>> \notin R BY <1>2, <1>4 DEF Before
<1>6. \A r, s \in S : r # s => <<r, s>> \in R \/ <<s, r>> \in R BY <1>2, <1>3, <1>4 DEF Before
<1>7. \A r, s, u \in S : <<r, s>> \in R /\ <<s, u>> \in R => <<r, u>> \in R
  BY <1>2, <1>4 DEF Before
<1>8. \A k \in 1 .. Cardinality(S) : \E s \in S : Cardinality(Below(R, S, s)) = k - 1
  BY <1>1, <1>5, <1>6, <1>7, EveryRankIsTaken
<1>9. \A s \in S : Below(R, S, s) = {r \in S : Before(r, s)} BY <1>4 DEF Below
<1>10. \A k \in 1 .. Cardinality(S) : Ranked(S)[k] \in S BY <1>8, <1>9 DEF Ranked
<1>11. DOMAIN Ranked(S) = 1 .. Cardinality(S) BY DEF Ranked
<1>12. Cardinality(S) \in Nat BY <1>1, FS_CardinalityType
<1> QED BY <1>10, <1>11, <1>12 DEF S

\* What the compressor lets through is a prefix of the ranking.
LEMMA CompressedAreSignals ==
  ASSUME NEW t, NEW facts
  PROVE  LET q == Compressed(Ranked(RawSignals(t, facts))) IN
         /\ IsList(q) /\ q \in Seq(RawSignals(t, facts))
         /\ \A i \in DOMAIN q : q[i] \in RawSignals(t, facts)
<1> DEFINE S == RawSignals(t, facts)
           r == Ranked(S)
           P == {i \in DOMAIN r : Spent(r)[i] <= TokenBudget}
           m == Cardinality(P)
           n == Cardinality(S)
<1>0. Compressed(r) = SubSeq(r, 1, m) BY DEF Compressed
<1>1. n \in Nat /\ DOMAIN r = 1 .. n /\ \A i \in 1 .. n : r[i] \in S BY RankedAreSignals
<1> HIDE DEF r, S, n
<1>2. IsFiniteSet(1 .. n) /\ Cardinality(1 .. n) = n
  <2>1. 1 \in Int /\ n \in Int BY <1>1
  <2>2. IsFiniteSet(1 .. n) /\ Cardinality(1 .. n) = IF 1 > n THEN 0 ELSE n - 1 + 1
    BY <2>1, FS_Interval
  <2> QED BY <1>1, <2>2
<1>3. P \subseteq 1 .. n BY <1>1
<1>4. m \in Nat /\ m <= n BY <1>2, <1>3, FS_Subset, FS_CardinalityType
<1> HIDE DEF P, m
<1>5. r \in Seq(S)
  <2>1. r \in [1 .. Cardinality(S) -> S] BY <1>1 DEF r, Ranked, n
  <2> QED BY <1>1, <2>1 DEF n
<1>6. Len(r) = n BY <1>1, <1>5
<1> DEFINE q == SubSeq(r, 1, m)
<1>7. DOMAIN q = 1 .. m /\ \A i \in 1 .. m : q[i] = r[i] BY <1>4, <1>5, <1>6
<1>8. q \in Seq(S) BY <1>4, <1>5, <1>6
<1> HIDE DEF q
<1>9. IsList(q) BY <1>4, <1>7 DEF IsList
<1>10. \A i \in DOMAIN q : q[i] \in S BY <1>1, <1>4, <1>7
<1>11. /\ IsList(Compressed(r)) /\ Compressed(r) \in Seq(S)
       /\ \A i \in DOMAIN Compressed(r) : Compressed(r)[i] \in S
  BY <1>0, <1>8, <1>9, <1>10 DEF q
<1> QED BY <1>11 DEF r, S

-----------------------------------------------------------------------------
(* Which columns the signals of interest name.                                 *)

\* Where a warning, an encoding and a drop can come from.
LEMMA WarningsAreRules ==
  ASSUME NEW t, NEW facts, NEW s \in RawSignals(t, facts), s.action = "warning"
  PROVE  /\ s.type = "column_health" /\ s.percent = 0 /\ s.listed = Len(s.cols) /\ s.cols # <<>>
         /\ \/ s.severity = "high" /\ s.cols = Named(t, HighMissing)
            \/ /\ s.severity = "medium"
               /\ s.cols = Named(t, LAMBDA c : ModerateMissing(c) /\ (Numeric(c) \/ Categorical(c)))
<1> USE DEF Signal
<1>1. s \in ColumnRules(t) BY TableRulesShape DEF RawSignals, TableActions
<1>2. s \notin VarianceRules(t) \cup IdDetection(t) BY DEF VarianceRules, IdDetection
<1>3. s \notin TypeRules(t) BY DEF TypeRules
<1>4. s \notin Encoding(t) \cup Normalization(t) \cup TextProcessing(t)
  BY DEF Encoding, Normalization, TextProcessing
<1>5. s \in MissingData(t) BY <1>1, <1>2, <1>3, <1>4 DEF ColumnRules
<1>6. s.cols # <<>> BY TableRulesShape DEF RawSignals, TableActions, Emitted
<1> QED BY <1>5, <1>6 DEF MissingData

\* A missing-value warning lists columns that miss values.
LEMMA WarnedColumns ==
  ASSUME NEW t, IsList(t), NEW facts, NEW s \in RawSignals(t, facts), s.action = "warning",
         NEW k \in DOMAIN s.cols
  PROVE  \E i \in DOMAIN t : s.cols[k] = t[i].name /\ (HighMissing(t[i]) \/ ModerateMissing(t[i]))
<1> DEFINE H == {i \in DOMAIN t : HighMissing(t[i])}
           M == {i \in DOMAIN t : ModerateMissing(t[i]) /\ (Numeric(t[i]) \/ Categorical(t[i]))}
<1>1. CASE s.cols = Named(t, HighMissing)
  <2>1. /\ k \in 1 .. Cardinality(H)
        /\ s.cols[k] = t[CHOOSE x \in H : Cardinality({j \in H : j < x}) = k - 1].name
    BY <1>1 DEF Named
  <2> HIDE DEF H
  <2>2. \E i \in H : s.cols[k] = t[i].name
    <3>1. H \subseteq DOMAIN t BY DEF H
    <3> QED BY <2>1, <3>1, ListedHits
  <2> QED BY <2>2 DEF H
<1>2. CASE s.cols = Named(t, LAMBDA c : ModerateMissing(c) /\ (Numeric(c) \/ Categorical(c)))
  <2>1. /\ k \in 1 .. Cardinality(M)
        /\ s.cols[k] = t[CHOOSE x \in M : Cardinality({j \in M : j < x}) = k - 1].name
    BY <1>2 DEF Named
  <2> HIDE DEF M
  <2>2. \E i \in M : s.cols[k] = t[i].name
    <3>1. M \subseteq DOMAIN t BY DEF M
    <3> QED BY <2>1, <3>1, ListedHits
  <2> QED BY <2>2 DEF M
<1> QED BY <1>1, <1>2, WarningsAreRules

EncodingTypes == {"one_hot_encode", "label_encode", "use_feature_hashing"}

LEMMA EncodingsAreRules ==
  ASSUME NEW t, NEW facts, NEW s \in RawSignals(t, facts), s.action \in EncodingTypes
  PROVE  \/ s.cols = Named(t, LAMBDA c : Categorical(c) /\ HighCardinality(c) /\ c.card > 1000)
         \/ s.cols = Named(t, LAMBDA c : Categorical(c) /\ c.card = 2)
         \/ s.cols = Named(t, LAMBDA c : Categorical(c) /\ c.card \in 3 .. 10)
<1> USE DEF Signal, EncodingTypes
<1>1. s \in ColumnRules(t) BY TableRulesShape DEF RawSignals, TableActions
<1>2. s \notin MissingData(t) BY DEF MissingData
<1>3. s \notin VarianceRules(t) \cup IdDetection(t) BY DEF VarianceRules, IdDetection
<1>4. s \notin Normalization(t) \cup TextProcessing(t) BY DEF Normalization, TextProcessing
<1>5. CASE s \in TypeRules(t) BY <1>5 DEF TypeRules
<1>6. CASE s \in Encoding(t) BY <1>6 DEF Encoding
<1> QED BY <1>1, <1>2, <1>3, <1>4, <1>5, <1>6 DEF ColumnRules

\* An encoding lists categorical columns of two values or more.
LEMMA EncodedColumns ==
  ASSUME NEW t, IsList(t), \A i \in DOMAIN t : t[i].card \in Nat,
         NEW facts, NEW s \in RawSignals(t, facts), s.action \in EncodingTypes,
         NEW k \in DOMAIN s.cols
  PROVE  \E i \in DOMAIN t : s.cols[k] = t[i].name /\ Categorical(t[i]) /\ t[i].card >= 2
<1>1. CASE s.cols = Named(t, LAMBDA c : Categorical(c) /\ HighCardinality(c) /\ c.card > 1000)
  <2> DEFINE H == {i \in DOMAIN t : Categorical(t[i]) /\ HighCardinality(t[i]) /\ t[i].card > 1000}
  <2>1. /\ k \in 1 .. Cardinality(H)
        /\ s.cols[k] = t[CHOOSE x \in H : Cardinality({j \in H : j < x}) = k - 1].name
    BY <1>1 DEF Named
  <2>2. H \subseteq DOMAIN t OBVIOUS
  <2>3. \A i \in H : Categorical(t[i]) /\ t[i].card >= 2 OBVIOUS
  <2> HIDE DEF H
  <2>4. \E i \in H : s.cols[k] = t[i].name BY <2>1, <2>2, ListedHits
  <2> QED BY <2>2, <2>3, <2>4
<1>2. CASE s.cols = Named(t, LAMBDA c : Categorical(c) /\ c.card = 2)
  <2> DEFINE H == {i \in DOMAIN t : Categorical(t[i]) /\ t[i].card = 2}
  <2>1. /\ k \in 1 .. Cardinality(H)
        /\ s.cols[k] = t[CHOOSE x \in H : Cardinality({j \in H : j < x}) = k - 1].name
    BY <1>2 DEF Named
  <2>2. H \subseteq DOMAIN t OBVIOUS
  <2>3. \A i \in H : Categorical(t[i]) /\ t[i].card >= 2 OBVIOUS
  <2> HIDE DEF H
  <2>4. \E i \in H : s.cols[k] = t[i].name BY <2>1, <2>2, ListedHits
  <2> QED BY <2>2, <2>3, <2>4
<1>3. CASE s.cols = Named(t, LAMBDA c : Categorical(c) /\ c.card \in 3 .. 10)
  <2> DEFINE H == {i \in DOMAIN t : Categorical(t[i]) /\ t[i].card \in 3 .. 10}
  <2>1. /\ k \in 1 .. Cardinality(H)
        /\ s.cols[k] = t[CHOOSE x \in H : Cardinality({j \in H : j < x}) = k - 1].name
    BY <1>3 DEF Named
  <2>2. H \subseteq DOMAIN t OBVIOUS
  <2>3. \A i \in H : Categorical(t[i]) /\ t[i].card >= 2 OBVIOUS
  <2> HIDE DEF H
  <2>4. \E i \in H : s.cols[k] = t[i].name BY <2>1, <2>2, ListedHits
  <2> QED BY <2>2, <2>3, <2>4
<1> QED BY <1>1, <1>2, <1>3, EncodingsAreRules

\* A drop lists columns of the table.
LEMMA DroppedColumns ==
  ASSUME NEW t, IsList(t), NEW facts, NEW s \in RawSignals(t, facts), s.action = "drop",
         NEW k \in DOMAIN s.cols
  PROVE  \E i \in DOMAIN t : s.cols[k] = t[i].name
<1> USE DEF Signal
<1>1. s \in ColumnRules(t) BY TableRulesShape DEF RawSignals, TableActions
<1>2. s \notin MissingData(t) BY DEF MissingData
<1>3. s \notin TypeRules(t) BY DEF TypeRules
<1>4. s \notin Encoding(t) \cup Normalization(t) \cup TextProcessing(t)
  BY DEF Encoding, Normalization, TextProcessing
<1>5. s \in VarianceRules(t) \cup IdDetection(t) BY <1>1, <1>2, <1>3, <1>4 DEF ColumnRules
<1>6. s.cols = Named(t, Constant) BY <1>5 DEF VarianceRules, IdDetection
<1> DEFINE H == {i \in DOMAIN t : Constant(t[i])}
<1>7. /\ k \in 1 .. Cardinality(H)
      /\ s.cols[k] = t[CHOOSE x \in H : Cardinality({j \in H : j < x}) = k - 1].name
  BY <1>6 DEF Named
<1>8. H \subseteq DOMAIN t OBVIOUS
<1> HIDE DEF H
<1>9. \E i \in H : s.cols[k] = t[i].name BY <1>7, <1>8, ListedHits
<1> QED BY <1>8, <1>9
-----------------------------------------------------------------------------
(* The nodes of the graph.                                                     *)

Risks == {0, 3, 7, 10}
Costs == {5, 10, 20, 30, 40, 60, 80, 100}

LEMMA ContributionShape ==
  ASSUME NEW s, NEW c \in Contributions(s)
  PROVE  c.cost \in Costs /\ c.risk \in Risks
  BY DEF Contributions, Contribution, CostOf, RiskOf, Costs, Risks

\* The best of a non-empty set of so few values is one of them.
LEMMA GreatestRisk ==
  ASSUME NEW S \in SUBSET Risks, S # {}
  PROVE  (CHOOSE r \in S : \A x \in S : r >= x) \in Risks
<1>1. \E r \in S : \A x \in S : r >= x
  <2>1. CASE 10 \in S BY <2>1 DEF Risks
  <2>2. CASE 7 \in S /\ 10 \notin S BY <2>2 DEF Risks
  <2>3. CASE 3 \in S /\ S \cap {7, 10} = {} BY <2>3 DEF Risks
  <2>4. CASE S = {0} BY <2>4
  <2> QED BY <2>1, <2>2, <2>3, <2>4 DEF Risks
<1> QED BY <1>1

LEMMA LeastCost ==
  ASSUME NEW S \in SUBSET Costs, S # {}
  PROVE  (CHOOSE c \in S : \A x \in S : c <= x) \in Costs
<1>1. \E c \in S : \A x \in S : c <= x
  <2>1. CASE 5 \in S BY <2>1 DEF Costs
  <2>2. CASE 5 \notin S /\ 10 \in S BY <2>2 DEF Costs
  <2>3. CASE 5 \notin S /\ 10 \notin S /\ 20 \in S BY <2>3 DEF Costs
  <2>4. CASE 5 \notin S /\ 10 \notin S /\ 20 \notin S /\ 30 \in S
    BY <2>4 DEF Costs
  <2>5. CASE 5 \notin S /\ 10 \notin S /\ 20 \notin S /\ 30 \notin S /\ 40 \in S
    BY <2>5 DEF Costs
  <2>6. CASE 5 \notin S /\ 10 \notin S /\ 20 \notin S /\ 30 \notin S /\ 40 \notin S /\ 60 \in S
    BY <2>6 DEF Costs
  <2>7. CASE 5 \notin S /\ 10 \notin S /\ 20 \notin S /\ 30 \notin S /\ 40 \notin S /\ 60 \notin S /\ 80 \in S
    BY <2>7 DEF Costs
  <2>8. CASE S = {100} BY <2>8
  <2> QED BY <2>1, <2>2, <2>3, <2>4, <2>5, <2>6, <2>7, <2>8, S \cap Costs # {} DEF Costs
<1> QED BY <1>1

\* Nodes join contributions and take their risk and cost from them.
LEMMA NodeShape ==
  ASSUME NEW s, NEW n \in Nodes(s)
  PROVE  n.cost \in Costs /\ n.risk \in Risks
<1>1. PICK id \in Ids(s) : n = Node(s, id) BY DEF Nodes
<1> DEFINE at == Offers(s, id)
           of(i) == Offer(s, i, id)
           costs == {of(i).cost : i \in at}
           risks == {of(i).risk : i \in at}
<1>2. PICK j \in at : TRUE BY DEF Ids, Offers
<1>3. \A i \in at : of(i) \in Contributions(s[i]) BY DEF Offers, Offer
<1>4. costs \in SUBSET Costs /\ risks \in SUBSET Risks BY <1>3, ContributionShape
<1>5. of(j).cost \in costs /\ of(j).risk \in risks BY <1>2
<1>6. /\ n.cost = (CHOOSE c \in costs : \A x \in costs : c <= x)
      /\ n.risk = (CHOOSE r \in risks : \A x \in risks : r >= x)
  BY <1>1 DEF Node
<1> HIDE DEF costs, risks
<1> QED BY <1>4, <1>5, <1>6, LeastCost, GreatestRisk

LEMMA NodesHaveOwnIds ==
  ASSUME NEW s, NEW n \in Nodes(s), NEW m \in Nodes(s), n.id = m.id
  PROVE  n = m
<1>1. PICK i \in Ids(s) : n = Node(s, i) BY DEF Nodes
<1>2. PICK j \in Ids(s) : m = Node(s, j) BY DEF Nodes
<1>3. Node(s, i).id = i /\ Node(s, j).id = j BY DEF Node
<1> QED BY <1>1, <1>2, <1>3

\* A contribution bears its type and its columns in its id.
LEMMA ContributionOf ==
  ASSUME NEW s, NEW c \in Contributions(s)
  PROVE  /\ c.id = NodeId(c.type, s.cols)
         /\ c.cols = {s.cols[k] : k \in DOMAIN s.cols}
         /\ \/ s.action = "warning" /\ c.type \in {"impute_mean", "impute_knn"}
            \/ s.action # "warning" /\ c.type = s.action
  BY DEF Contributions, Contribution

\* What a node is to do, the last of the signals that offered it asked for.
LEMMA NodeOffered ==
  ASSUME NEW q, IsList(q), NEW id \in Ids(q)
  PROVE  \E i \in DOMAIN q : \E c \in Contributions(q[i]) :
           c.id = id /\ Node(q, id).type = c.type /\ Node(q, id).cols = c.cols
<1> DEFINE at == Offers(q, id)
           last == CHOOSE i \in at : \A j \in at : j <= i
<1>1. PICK m \in Nat : DOMAIN q = 1 .. m BY DEF IsList
<1>2. at \in SUBSET (1 .. m) /\ at # {} BY <1>1 DEF Offers, Ids
<1>3. \E i \in at : \A j \in at : j <= i BY <1>2, GreatestPlace
<1>4. last \in at BY <1>3
<1>5. /\ Offer(q, last, id) \in Contributions(q[last]) /\ Offer(q, last, id).id = id
      /\ last \in DOMAIN q
  BY <1>4 DEF Offers, Offer
<1>6. Node(q, id).type = Offer(q, last, id).type /\ Node(q, id).cols = Offer(q, last, id).cols
  BY DEF Node
<1> QED BY <1>5, <1>6

\* A list of signals that is not empty makes a graph that is not empty.
LEMMA SignalsMakeNodes ==
  ASSUME NEW q, NEW i \in DOMAIN q
  PROVE  Nodes(q) # {}
<1>1. PICK c : c \in Contributions(q[i]) BY DEF Contributions
<1>2. c.id \in Ids(q) BY <1>1 DEF Ids
<1> QED BY <1>2 DEF Nodes

\* A signal's contribution is in the graph with all its columns, unless a later signal
\* with other columns has the same id.
LEMMA OfferedIsKept ==
  ASSUME NEW q, IsList(q), NEW i \in DOMAIN q, NEW c \in Contributions(q[i])
  PROVE  \/ \E n \in Nodes(q) : n.type = c.type /\ c.cols \subseteq n.cols
         \/ \E j \in DOMAIN q : q[j].cols # q[i].cols /\ Join(q[j].cols) = Join(q[i].cols)
<1>1. c.id \in Ids(q) BY DEF Ids
<1>2. Node(q, c.id) \in Nodes(q) BY <1>1 DEF Nodes
<1>3. PICK j \in DOMAIN q : \E d \in Contributions(q[j]) :
        d.id = c.id /\ Node(q, c.id).type = d.type /\ Node(q, c.id).cols = d.cols
  BY <1>1, NodeOffered
<1>4. PICK d \in Contributions(q[j]) :
        d.id = c.id /\ Node(q, c.id).type = d.type /\ Node(q, c.id).cols = d.cols
  BY <1>3
<1>5. d.type = c.type /\ Join(q[j].cols) = Join(q[i].cols)
  <2>1. NodeId(d.type, q[j].cols) = NodeId(c.type, q[i].cols) BY <1>4, ContributionOf
  <2> QED BY <2>1 DEF NodeId
<1>6. CASE q[j].cols = q[i].cols
  <2>1. c.cols = {q[i].cols[k] : k \in DOMAIN q[i].cols} BY ContributionOf
  <2>2. d.cols = {q[j].cols[k] : k \in DOMAIN q[j].cols} BY ContributionOf
  <2>3. d.cols = c.cols BY <1>6, <2>1, <2>2
  <2> QED BY <1>2, <1>4, <1>5, <2>3
<1>7. CASE q[j].cols # q[i].cols BY <1>5, <1>7
<1> QED BY <1>6, <1>7

-----------------------------------------------------------------------------
(* What the nodes made from a table do to its columns.                         *)

\* The executor's types name columns of the table.
LEMMA NodeColumns ==
  ASSUME NEW t, IsList(t), \A i \in DOMAIN t : t[i].card \in Nat, NEW facts,
         NEW q, IsList(q), \A i \in DOMAIN q : q[i] \in RawSignals(t, facts),
         NEW n \in Nodes(q), NEW x \in n.cols
  PROVE  /\ Imputes(n) => \E i \in DOMAIN t :
                            x = t[i].name /\ (HighMissing(t[i]) \/ ModerateMissing(t[i]))
         /\ Encodes(n) => \E i \in DOMAIN t :
                            x = t[i].name /\ Categorical(t[i]) /\ t[i].card >= 2
         /\ n.type = "drop" => \E i \in DOMAIN t : x = t[i].name
<1>1. PICK id \in Ids(q) : n = Node(q, id) BY DEF Nodes
<1>2. PICK j \in DOMAIN q : \E c \in Contributions(q[j]) : n.type = c.type /\ n.cols = c.cols
  BY <1>1, NodeOffered
<1>3. PICK c \in Contributions(q[j]) : n.type = c.type /\ n.cols = c.cols BY <1>2
<1> DEFINE s == q[j]
<1>4. /\ s \in RawSignals(t, facts)
      /\ n.cols = {s.cols[k] : k \in DOMAIN s.cols}
      /\ \/ s.action = "warning" /\ n.type \in {"impute_mean", "impute_knn"}
         \/ s.action # "warning" /\ n.type = s.action
  BY <1>3, ContributionOf
<1>5. PICK k \in DOMAIN s.cols : x = s.cols[k] BY <1>4
<1>6. s.action \in ActionNames BY <1>4, RawSignalsShape DEF SignalShape
<1> HIDE DEF s
<1>7. ASSUME Imputes(n)
      PROVE  \E i \in DOMAIN t : x = t[i].name /\ (HighMissing(t[i]) \/ ModerateMissing(t[i]))
  <2>1. s.action = "warning"
    BY <1>4, <1>6, <1>7 DEF Imputes, ActionNames, ImpactMap
  <2> QED BY <1>4, <1>5, <2>1, WarnedColumns
<1>8. ASSUME Encodes(n)
      PROVE  \E i \in DOMAIN t : x = t[i].name /\ Categorical(t[i]) /\ t[i].card >= 2
  <2>1. s.action \in EncodingTypes BY <1>4, <1>8 DEF Encodes, EncodingTypes
  <2> QED BY <1>4, <1>5, <2>1, EncodedColumns
<1>9. ASSUME n.type = "drop" PROVE \E i \in DOMAIN t : x = t[i].name
  <2>1. s.action = "drop" BY <1>4, <1>9
  <2> QED BY <1>4, <1>5, <2>1, DroppedColumns
<1> QED BY <1>7, <1>8, <1>9

-----------------------------------------------------------------------------
(* Benefits.                                                                   *)

\* Induction along a list.
LEMMA EveryPlace ==
  ASSUME NEW n \in Nat, NEW P \in SUBSET (0 .. n), 0 \in P,
         \A i \in 1 .. n : i - 1 \in P => i \in P
  PROVE  P = 0 .. n
<1> SUFFICES ASSUME P # 0 .. n PROVE FALSE OBVIOUS
<1> DEFINE X == {x \in 1 .. n : n + 1 - x \notin P}
<1>1. X \subseteq 1 .. n /\ X # {}
  <2>1. PICK i \in 0 .. n : i \notin P OBVIOUS
  <2>2. i \in 1 .. n BY <2>1
  <2>3. n + 1 - i \in 1 .. n /\ n + 1 - (n + 1 - i) = i BY <2>2
  <2>4. n + 1 - i \in X BY <2>1, <2>3
  <2> QED BY <2>4
<1> HIDE DEF X
<1>2. PICK x \in X : \A y \in X : y <= x BY <1>1, GreatestPlace
<1>3. x \in 1 .. n BY <1>1, <1>2
<1>4. PICK i \in 1 .. n : i = n + 1 - x BY <1>3
<1>5. i \notin P /\ i - 1 \notin P BY <1>2, <1>4 DEF X
<1>6. i - 1 \in 1 .. n /\ n + 1 - (x + 1) = i - 1 /\ x + 1 \in 1 .. n
  <2>1. i - 1 # 0 BY <1>5
  <2> QED BY <1>3, <1>4, <2>1
<1>7. x + 1 \in X BY <1>5, <1>6 DEF X
<1> QED BY <1>2, <1>3, <1>7

\* The recursion that adds up the benefits of a node has the one solution it describes.
LEMMA BenefitsAddUp ==
  ASSUME NEW S, NEW q \in Seq(S), NEW id
  PROVE  Benefits(q, id) =
           [i \in 0 .. Len(q) |->
              IF i = 0 THEN 0
              ELSE IF i \notin Offers(q, id) THEN Benefits(q, id)[i - 1]
              ELSE IF Benefits(q, id)[i - 1] = 0 THEN Offer(q, i, id).benefit
              ELSE Least(Unit, Benefits(q, id)[i - 1] + Offer(q, i, id).benefit)]
<1> DEFINE n == Len(q)
           F(g, i) == IF i = 0 THEN 0
                      ELSE IF i \notin Offers(q, id) THEN g[i - 1]
                      ELSE IF g[i - 1] = 0 THEN Offer(q, i, id).benefit
                      ELSE Least(Unit, g[i - 1] + Offer(q, i, id).benefit)
           P == {k \in 0 .. n : \E g : g = [i \in 0 .. k |-> F(g, i)]}
<1>1. n \in Nat OBVIOUS
<1>2. ASSUME NEW g, NEW h, NEW i \in Nat, i # 0 => g[i - 1] = h[i - 1] PROVE F(g, i) = F(h, i)
  BY <1>2
<1>3. Benefits(q, id) = CHOOSE g : g = [i \in 0 .. n |-> F(g, i)] BY DEF Benefits
<1>4. \A g : F(g, 0) = 0 OBVIOUS
<1> HIDE DEF F, n
<1>5. 0 \in P
  <2> DEFINE g == [i \in 0 .. 0 |-> 0]
  <2>1. g = [i \in 0 .. 0 |-> F(g, i)] BY <1>4
  <2> HIDE DEF g
  <2> QED BY <1>1, <2>1
<1>6. ASSUME NEW k \in 1 .. n, k - 1 \in P PROVE k \in P
  <2>1. PICK g : g = [i \in 0 .. k - 1 |-> F(g, i)] BY <1>6
  <2> DEFINE h == [i \in 0 .. k |-> IF i = k THEN F(g, k) ELSE g[i]]
  <2>2. \A i \in 0 .. k - 1 : h[i] = g[i] BY <1>1
  <2>3. h[k] = F(g, k) BY <1>1
  <2>4. \A i \in 0 .. k : h[i] = F(h, i)
    <3> SUFFICES ASSUME NEW i \in 0 .. k PROVE h[i] = F(h, i) OBVIOUS
    <3>1. i # 0 => g[i - 1] = h[i - 1] BY <1>1, <2>2
    <3>2. F(g, i) = F(h, i) BY <1>2, <3>1
    <3>3. h[i] = F(g, i) BY <1>1, <2>1, <2>2, <2>3
    <3> QED BY <3>2, <3>3
  <2>5. h = [i \in 0 .. k |-> h[i]] OBVIOUS
  <2> HIDE DEF h
  <2>6. h = [i \in 0 .. k |-> F(h, i)] BY <2>4, <2>5
  <2> QED BY <2>6
<1>7. P \in SUBSET (0 .. n) OBVIOUS
<1> HIDE DEF P
<1>8. n \in P BY <1>1, <1>5, <1>6, <1>7, EveryPlace
<1>9. \E g : g = [i \in 0 .. n |-> F(g, i)] BY <1>8 DEF P
<1>10. Benefits(q, id) = [i \in 0 .. n |-> F(Benefits(q, id), i)] BY <1>3, <1>9
<1> QED BY <1>10 DEF F, n
LEMMA BenefitAt ==
  ASSUME NEW S, NEW q \in Seq(S), NEW id, NEW i \in 1 .. Len(q)
  PROVE  /\ Benefits(q, id)[0] = 0
         /\ Benefits(q, id)[i] =
              IF i \notin Offers(q, id) THEN Benefits(q, id)[i - 1]
              ELSE IF Benefits(q, id)[i - 1] = 0 THEN Offer(q, i, id).benefit
              ELSE Least(Unit, Benefits(q, id)[i - 1] + Offer(q, i, id).benefit)
<1>1. i \in 0 .. Len(q) /\ i # 0 /\ 0 \in 0 .. Len(q) OBVIOUS
<1> QED BY <1>1, BenefitsAddUp

\* A warning scores 90 or 61.25 points, by its severity alone.
LEMMA WarningPriority ==
  ASSUME NEW t, IsList(t), NEW facts, NEW s \in RawSignals(t, facts), s.action = "warning"
  PROVE  /\ Priority(s) \in {1800000, 1225000}
         /\ \E k : k \in DOMAIN s.cols
<1>1. PICK m \in Nat : s.cols \in [1 .. m -> {s.cols[k] : k \in DOMAIN s.cols}]
  <2>1. \A H \in SUBSET DOMAIN t : Cardinality(H) \in Nat
    <3> SUFFICES ASSUME NEW H \in SUBSET DOMAIN t PROVE Cardinality(H) \in Nat OBVIOUS
    <3>1. PICK n \in Nat : DOMAIN t = 1 .. n BY DEF IsList
    <3>2. IsFiniteSet(1 .. n) BY FS_Interval
    <3> QED BY <3>1, <3>2, FS_Subset, FS_CardinalityType
  <2>2. CASE s.cols = Named(t, HighMissing)
    <3>1. Cardinality({i \in DOMAIN t : HighMissing(t[i])}) \in Nat BY <2>1
    <3>2. s.cols = [k \in 1 .. Cardinality({i \in DOMAIN t : HighMissing(t[i])}) |-> s.cols[k]]
      BY <2>2 DEF Named
    <3> QED BY <3>1, <3>2
  <2>3. CASE s.cols = Named(t, LAMBDA c : ModerateMissing(c) /\ (Numeric(c) \/ Categorical(c)))
    <3> DEFINE M == {i \in DOMAIN t : ModerateMissing(t[i]) /\ (Numeric(t[i]) \/ Categorical(t[i]))}
    <3>1. Cardinality(M) \in Nat BY <2>1
    <3>2. s.cols = [k \in 1 .. Cardinality(M) |-> s.cols[k]] BY <2>3 DEF Named
    <3> QED BY <3>1, <3>2
  <2> QED BY <2>2, <2>3, WarningsAreRules
<1>2. s.cols \in Seq({s.cols[k] : k \in DOMAIN s.cols}) BY <1>1
<1>3. s.listed \in Nat /\ s.listed > 0 /\ 1 \in DOMAIN s.cols
  <2>1. s.listed = Len(s.cols) /\ s.cols # <<>> BY WarningsAreRules
  <2> QED BY <1>2, <2>1
<1>4. s.severity \in {"high", "medium"} /\ s.type = "column_health" BY WarningsAreRules
<1>5. Magnitude(s) = 20 /\ ContextBoost(s) = 0 /\ Decay(s) = 10
  BY <1>3, <1>4 DEF Magnitude, ContextBoost, Decay
<1>6. TypeWeight(s.type) = 110 /\ ImpactMap[s.action] = 25 BY <1>4 DEF TypeWeight, ImpactMap
<1>7. CASE s.severity = "high"
  <2>1. SeverityWeight[s.severity] = 75 /\ Multiplier(s) = 12
    BY <1>7 DEF SeverityWeight, Multiplier, Urgency
  <2>2. BaseScore(s) = 11000 BY <1>6, <2>1 DEF BaseScore, Least
  <2> QED BY <1>3, <1>5, <2>1, <2>2 DEF Priority, Least
<1>8. CASE s.severity = "medium"
  <2>1. SeverityWeight[s.severity] = 50 /\ Multiplier(s) = 10
    BY <1>8 DEF SeverityWeight, Multiplier, Urgency
  <2>2. BaseScore(s) = 8250 BY <1>6, <2>1 DEF BaseScore, Least
  <2> QED BY <1>3, <1>5, <2>1, <2>2 DEF Priority, Least
<1> QED BY <1>4, <1>7, <1>8

\* A sum stays below every bound that no offer and not the cap exceeds.
LEMMA BenefitsBounded ==
  ASSUME NEW S, NEW q \in Seq(S), NEW id, NEW B \in Int, Unit <= B,
         \A i \in Offers(q, id) : Offer(q, i, id).benefit \in Int /\ Offer(q, i, id).benefit <= B
  PROVE  Benefits(q, id)[Len(q)] \in Int /\ Benefits(q, id)[Len(q)] <= B
<1> DEFINE n == Len(q)
           total == Benefits(q, id)
           P == {i \in 0 .. n : total[i] \in Int /\ total[i] <= B}
<1>1. n \in Nat OBVIOUS
<1>2. /\ total[0] = 0
      /\ \A i \in 1 .. n : total[i] = IF i \notin Offers(q, id) THEN total[i - 1]
                                      ELSE IF total[i - 1] = 0 THEN Offer(q, i, id).benefit
                                      ELSE Least(Unit, total[i - 1] + Offer(q, i, id).benefit)
  <2>1. total[0] = 0
    <3>1. CASE n = 0
      <4>1. 0 \in 0 .. Len(q) BY <3>1
      <4> QED BY <4>1, BenefitsAddUp
    <3>2. CASE n # 0
      <4>1. 1 \in 1 .. Len(q) BY <3>2
      <4> QED BY <4>1, BenefitAt
    <3> QED BY <3>1, <3>2
  <2> QED BY <2>1, BenefitAt
<1> HIDE DEF total, n
<1>3. 0 \in P BY <1>1, <1>2 DEF Unit
<1>4. ASSUME NEW i \in 1 .. n, i - 1 \in P PROVE i \in P
  <2>1. total[i - 1] \in Int /\ total[i - 1] <= B BY <1>4
  <2>2. CASE i \notin Offers(q, id) BY <1>1, <1>2, <2>1, <2>2
  <2>3. CASE i \in Offers(q, id)
    <3>1. Offer(q, i, id).benefit \in Int /\ Offer(q, i, id).benefit <= B BY <2>3
    <3> QED BY <1>1, <1>2, <2>1, <2>3, <3>1 DEF Least, Unit
  <2> QED BY <2>2, <2>3
<1>5. P \in SUBSET (0 .. n) OBVIOUS
<1> HIDE DEF P
<1>6. n \in P BY <1>1, <1>3, <1>4, <1>5, EveryPlace
<1> QED BY <1>6 DEF P, n, total
LEMMA NodeIdentity ==
  ASSUME NEW q, IsList(q), NEW n \in Nodes(q)
  PROVE  n.id \in Ids(q) /\ n = Node(q, n.id) /\ n.id = <<n.type, n.id[2]>>
<1>1. PICK id \in Ids(q) : n = Node(q, id) BY DEF Nodes
<1>2. n.id = id BY <1>1 DEF Node
<1>3. PICK j \in DOMAIN q : \E c \in Contributions(q[j]) : c.id = id /\ n.type = c.type
  BY <1>1, NodeOffered
<1>4. PICK c \in Contributions(q[j]) : c.id = id /\ n.type = c.type BY <1>3
<1>5. id = <<c.type, Join(q[j].cols)>> BY <1>4, ContributionOf DEF NodeId
<1> QED BY <1>1, <1>2, <1>4, <1>5

\* No node but the imputation by neighbours is ever worth more than 1.0.
LEMMA NodeBenefit ==
  ASSUME NEW S, NEW q \in Seq(S), NEW t, NEW facts, \A i \in DOMAIN q : q[i] \in RawSignals(t, facts),
         NEW n \in Nodes(q), n.type # "impute_knn"
  PROVE  n.benefit \in Int /\ n.benefit <= Unit
<1>0. IsList(q) BY DEF IsList
<1>1. n.id \in Ids(q) /\ n = Node(q, n.id) /\ n.id[1] # "impute_knn"
  <2>1. n.id \in Ids(q) /\ n = Node(q, n.id) /\ n.id = <<n.type, n.id[2]>>
    BY <1>0, NodeIdentity
  <2> QED BY <2>1
<1>2. ASSUME NEW i \in Offers(q, n.id)
      PROVE  Offer(q, i, n.id).benefit \in Int /\ Offer(q, i, n.id).benefit <= Unit
  <2> DEFINE c == Offer(q, i, n.id)
  <2>1. c \in Contributions(q[i]) /\ c.id = n.id /\ i \in DOMAIN q BY DEF Offers, Offer
  <2> HIDE DEF c
  <2>2. c.type # "impute_knn" BY <1>1, <2>1, ContributionOf DEF NodeId
  <2>3. c.benefit = 5 * Priority(q[i]) BY <2>1, <2>2 DEF Contributions, Contribution
  <2>4. Priority(q[i]) \in Int /\ Priority(q[i]) <= 2000000
    BY <2>1, RawSignalsShape, PriorityIsInt
  <2> QED BY <2>3, <2>4 DEF Unit, c
<1>3. Unit \in Int /\ Unit <= Unit BY DEF Unit
<1>4. Benefits(q, n.id)[Len(q)] \in Int /\ Benefits(q, n.id)[Len(q)] <= Unit
  BY <1>2, <1>3, BenefitsBounded
<1>5. n.benefit = Benefits(q, n.id)[Len(q)] BY <1>1 DEF Node
<1> QED BY <1>4, <1>5

\* The two ways to impute the columns of one id are offered by the same signals.
LEMMA SameOffers ==
  ASSUME NEW q, NEW t, NEW facts, \A i \in DOMAIN q : q[i] \in RawSignals(t, facts), NEW J
  PROVE  /\ Offers(q, <<"impute_mean", J>>) = Offers(q, <<"impute_knn", J>>)
         /\ \A i \in Offers(q, <<"impute_mean", J>>) :
              /\ i \in DOMAIN q /\ q[i].action = "warning"
              /\ Offer(q, i, <<"impute_mean", J>>)
                   = Contribution("impute_mean", q[i].cols, 5 * Priority(q[i]), 10, 0)
              /\ Offer(q, i, <<"impute_knn", J>>)
                   = Contribution("impute_knn", q[i].cols, 6 * Priority(q[i]), 60, 3)
<1> DEFINE W == {i \in DOMAIN q : q[i].action = "warning" /\ Join(q[i].cols) = J}
           mean(i) == Contribution("impute_mean", q[i].cols, 5 * Priority(q[i]), 10, 0)
           knn(i) == Contribution("impute_knn", q[i].cols, 6 * Priority(q[i]), 60, 3)
<1>1. \A i \in DOMAIN q : q[i].action \in ActionNames BY RawSignalsShape DEF SignalShape
<1>2. "impute_mean" \notin ActionNames /\ "impute_knn" \notin ActionNames
  BY DEF ActionNames, ImpactMap
<1>3. \A i : /\ mean(i).id = <<"impute_mean", Join(q[i].cols)>>
             /\ knn(i).id = <<"impute_knn", Join(q[i].cols)>>
  BY DEF Contribution, NodeId
<1>4. \A i : q[i].action = "warning" => Contributions(q[i]) = {mean(i), knn(i)}
  BY DEF Contributions
<1> HIDE DEF mean, knn
<1>5. ASSUME NEW i \in DOMAIN q, NEW c \in Contributions(q[i]),
             c.id \in {<<"impute_mean", J>>, <<"impute_knn", J>>}
      PROVE  i \in W
  <2>1. c.type \in {"impute_mean", "impute_knn"} /\ Join(q[i].cols) = J
    BY <1>5, ContributionOf DEF NodeId
  <2>2. q[i].action = "warning" BY <1>1, <1>2, <2>1, ContributionOf
  <2> QED BY <2>1, <2>2
<1>6. Offers(q, <<"impute_mean", J>>) = W
  <2>1. \A i \in W : mean(i) \in Contributions(q[i]) /\ mean(i).id = <<"impute_mean", J>>
    BY <1>3, <1>4
  <2> QED BY <1>5, <2>1 DEF Offers
<1>7. Offers(q, <<"impute_knn", J>>) = W
  <2>1. \A i \in W : knn(i) \in Contributions(q[i]) /\ knn(i).id = <<"impute_knn", J>>
    BY <1>3, <1>4
  <2> QED BY <1>5, <2>1 DEF Offers
<1>8. ASSUME NEW i \in W
      PROVE  /\ Offer(q, i, <<"impute_mean", J>>) = mean(i)
             /\ Offer(q, i, <<"impute_knn", J>>) = knn(i)
  <2>1. /\ Contributions(q[i]) = {mean(i), knn(i)}
        /\ mean(i).id = <<"impute_mean", J>> /\ knn(i).id = <<"impute_knn", J>>
    BY <1>3, <1>4
  <2>2. <<"impute_mean", J>> # <<"impute_knn", J>> OBVIOUS
  <2>3. \A c \in Contributions(q[i]) : c.id = <<"impute_mean", J>> <=> c = mean(i) BY <2>1, <2>2
  <2>4. \A c \in Contributions(q[i]) : c.id = <<"impute_knn", J>> <=> c = knn(i) BY <2>1, <2>2
  <2> QED BY <2>1, <2>3, <2>4 DEF Offer
<1> QED BY <1>6, <1>7, <1>8 DEF mean, knn

Pairs == {<<9000000, 10800000>>, <<6125000, 7350000>>, <<10000000, 10000000>>}

\* Summing what warnings offer, imputing by the mean and by neighbours go through the
\* same few values side by side.
LEMMA PairedBenefits ==
  ASSUME NEW S, NEW q \in Seq(S), NEW t, IsList(t), NEW facts,
         \A i \in DOMAIN q : q[i] \in RawSignals(t, facts), NEW J,
         Offers(q, <<"impute_mean", J>>) # {}
  PROVE  <<Benefits(q, <<"impute_mean", J>>)[Len(q)], Benefits(q, <<"impute_knn", J>>)[Len(q)]>>
           \in Pairs
<1> DEFINE n == Len(q)
           at == Offers(q, <<"impute_mean", J>>)
           mean == Benefits(q, <<"impute_mean", J>>)
           knn == Benefits(q, <<"impute_knn", J>>)
           P == {i \in 0 .. n : \/ mean[i] = 0 /\ knn[i] = 0 /\ \A j \in at : j > i
                                \/ <<mean[i], knn[i]>> \in Pairs}
<1>1. n \in Nat /\ at \subseteq 1 .. n /\ at # {} BY DEF Offers
<1>2. ASSUME NEW i \in at
      PROVE  \/ /\ Offer(q, i, <<"impute_mean", J>>).benefit = 9000000
                /\ Offer(q, i, <<"impute_knn", J>>).benefit = 10800000
             \/ /\ Offer(q, i, <<"impute_mean", J>>).benefit = 6125000
                /\ Offer(q, i, <<"impute_knn", J>>).benefit = 7350000
  <2>1. /\ i \in DOMAIN q /\ q[i].action = "warning"
        /\ Offer(q, i, <<"impute_mean", J>>).benefit = 5 * Priority(q[i])
        /\ Offer(q, i, <<"impute_knn", J>>).benefit = 6 * Priority(q[i])
    <3>1. \A type, cols, benefit, cost, risk :
            Contribution(type, cols, benefit, cost, risk).benefit = benefit
      BY DEF Contribution
    <3>2. \A x \in at :
            /\ x \in DOMAIN q /\ q[x].action = "warning"
            /\ Offer(q, x, <<"impute_mean", J>>)
                 = Contribution("impute_mean", q[x].cols, 5 * Priority(q[x]), 10, 0)
            /\ Offer(q, x, <<"impute_knn", J>>)
                 = Contribution("impute_knn", q[x].cols, 6 * Priority(q[x]), 60, 3)
      BY SameOffers
    <3> QED BY <3>1, <3>2
  <2>2. Priority(q[i]) \in {1800000, 1225000} BY <2>1, WarningPriority
  <2> QED BY <2>1, <2>2, SMT
<1>3. /\ mean[0] = 0 /\ knn[0] = 0
      /\ \A i \in 1 .. n :
           /\ mean[i] = IF i \notin at THEN mean[i - 1]
                        ELSE IF mean[i - 1] = 0 THEN Offer(q, i, <<"impute_mean", J>>).benefit
                        ELSE Least(Unit, mean[i - 1] + Offer(q, i, <<"impute_mean", J>>).benefit)
           /\ knn[i] = IF i \notin at THEN knn[i - 1]
                       ELSE IF knn[i - 1] = 0 THEN Offer(q, i, <<"impute_knn", J>>).benefit
                       ELSE Least(Unit, knn[i - 1] + Offer(q, i, <<"impute_knn", J>>).benefit)
  <2>1. Offers(q, <<"impute_knn", J>>) = at BY SameOffers
  <2>2. 1 \in 1 .. n BY <1>1
  <2>3. mean[0] = 0 /\ knn[0] = 0 BY <2>2, BenefitAt
  <2>4. ASSUME NEW i \in 1 .. n
        PROVE  mean[i] = IF i \notin at THEN mean[i - 1]
                         ELSE IF mean[i - 1] = 0 THEN Offer(q, i, <<"impute_mean", J>>).benefit
                         ELSE Least(Unit, mean[i - 1] + Offer(q, i, <<"impute_mean", J>>).benefit)
    BY BenefitAt
  <2>5. ASSUME NEW i \in 1 .. n
        PROVE  knn[i] = IF i \notin at THEN knn[i - 1]
                        ELSE IF knn[i - 1] = 0 THEN Offer(q, i, <<"impute_knn", J>>).benefit
                        ELSE Least(Unit, knn[i - 1] + Offer(q, i, <<"impute_knn", J>>).benefit)
    <3>1. knn[i] = IF i \notin Offers(q, <<"impute_knn", J>>) THEN knn[i - 1]
                   ELSE IF knn[i - 1] = 0 THEN Offer(q, i, <<"impute_knn", J>>).benefit
                   ELSE Least(Unit, knn[i - 1] + Offer(q, i, <<"impute_knn", J>>).benefit)
      BY BenefitAt
    <3> QED BY <2>1, <3>1
  <2> HIDE DEF mean, knn, n, at
  <2> QED BY <2>3, <2>4, <2>5
<1> HIDE DEF mean, knn, n, at
<1>4. 0 \in P BY <1>1, <1>3
<1>5. ASSUME NEW i \in 1 .. n, i - 1 \in P PROVE i \in P
  <2>1. CASE i \notin at
    <3>1. mean[i] = mean[i - 1] /\ knn[i] = knn[i - 1] BY <1>3, <2>1
    <3>2. (\A j \in at : j > i - 1) => \A j \in at : j > i BY <1>1, <2>1
    <3> QED BY <1>5, <3>1, <3>2
  <2>2. CASE i \in at
    <3>1. CASE mean[i - 1] = 0 /\ knn[i - 1] = 0
      BY <1>2, <1>3, <2>2, <3>1, SMT DEF Pairs
    <3>2. CASE <<mean[i - 1], knn[i - 1]>> \in Pairs
      <4>1. /\ mean[i - 1] \in Int /\ mean[i - 1] >= 6125000
            /\ knn[i - 1] \in Int /\ knn[i - 1] >= 7350000
        BY <3>2, SMT DEF Pairs
      <4>2. /\ Offer(q, i, <<"impute_mean", J>>).benefit \in Int
            /\ Offer(q, i, <<"impute_mean", J>>).benefit >= 6125000
            /\ Offer(q, i, <<"impute_knn", J>>).benefit \in Int
            /\ Offer(q, i, <<"impute_knn", J>>).benefit >= 7350000
        BY <1>2, <2>2, SMT
      <4>3. mean[i] = 10000000
        <5>1. mean[i] = Least(Unit, mean[i - 1] + Offer(q, i, <<"impute_mean", J>>).benefit)
          BY <1>3, <2>2, <4>1, SMT
        <5> QED BY <4>1, <4>2, <5>1, SMT DEF Least, Unit
      <4>4. knn[i] = 10000000
        <5>1. knn[i] = Least(Unit, knn[i - 1] + Offer(q, i, <<"impute_knn", J>>).benefit)
          BY <1>3, <2>2, <4>1, SMT
        <5> QED BY <4>1, <4>2, <5>1, SMT DEF Least, Unit
      <4> QED BY <4>3, <4>4, SMT DEF Pairs
    <3> QED BY <1>5, <3>1, <3>2
  <2> QED BY <2>1, <2>2
<1>6. P \in SUBSET (0 .. n) OBVIOUS
<1> HIDE DEF P
<1>7. n \in P BY <1>1, <1>4, <1>5, <1>6, EveryPlace
<1>8. ~(\A j \in at : j > n)
  <2>1. PICK j \in at : TRUE BY <1>1
  <2>2. j \in 1 .. n BY <1>1
  <2> QED BY <1>1, <2>2
<1>9. <<mean[n], knn[n]>> \in Pairs BY <1>7, <1>8 DEF P
<1> QED BY <1>9 DEF mean, knn, n

\* Where the graph holds one way to impute the columns of an id it holds the other, for
\* the same columns; which is the better one is left to a few numbers.
LEMMA ImputerPair ==
  ASSUME NEW S, NEW q \in Seq(S), NEW t, IsList(t), NEW facts,
         \A i \in DOMAIN q : q[i] \in RawSignals(t, facts), NEW J,
         <<"impute_mean", J>> \in Ids(q) \/ <<"impute_knn", J>> \in Ids(q)
  PROVE  LET m == Node(q, <<"impute_mean", J>>)
             k == Node(q, <<"impute_knn", J>>)
         IN  /\ m \in Nodes(q) /\ k \in Nodes(q)
             /\ m.id = <<"impute_mean", J>> /\ m.type = "impute_mean" /\ m.cost = 10 /\ m.risk = 0
             /\ k.id = <<"impute_knn", J>> /\ k.type = "impute_knn" /\ k.cost = 60 /\ k.risk = 3
             /\ m.cols = k.cols /\ m.cols # {}
             /\ <<m.benefit, k.benefit>> \in Pairs
<1> DEFINE mean == <<"impute_mean", J>>
           knn == <<"impute_knn", J>>
           at == Offers(q, mean)
           last == CHOOSE i \in at : \A j \in at : j <= i
           costs(id) == {Offer(q, i, id).cost : i \in at}
           risks(id) == {Offer(q, i, id).risk : i \in at}
<1>1. /\ Offers(q, knn) = at
      /\ \A i \in at :
           /\ i \in DOMAIN q /\ q[i].action = "warning"
           /\ Offer(q, i, mean) = Contribution("impute_mean", q[i].cols, 5 * Priority(q[i]), 10, 0)
           /\ Offer(q, i, knn) = Contribution("impute_knn", q[i].cols, 6 * Priority(q[i]), 60, 3)
  BY SameOffers
<1>2. \A type, cols, benefit, cost, risk :
        LET c == Contribution(type, cols, benefit, cost, risk)
        IN  /\ c.type = type /\ c.cols = {cols[i] : i \in DOMAIN cols}
            /\ c.cost = cost /\ c.risk = risk
  BY DEF Contribution
<1>3. at # {}
  <2>1. CASE mean \in Ids(q) BY <2>1 DEF Ids, Offers
  <2>2. CASE knn \in Ids(q)
    <3>1. Offers(q, knn) # {} BY <2>2 DEF Ids, Offers
    <3> QED BY <1>1, <3>1
  <2> QED BY <2>1, <2>2
<1>4. mean \in Ids(q) /\ knn \in Ids(q)
  <2>1. \E i \in DOMAIN q : \E c \in Contributions(q[i]) : c.id = mean BY <1>3 DEF Offers
  <2>2. \E i \in DOMAIN q : \E c \in Contributions(q[i]) : c.id = knn BY <1>1, <1>3 DEF Offers
  <2> QED BY <2>1, <2>2 DEF Ids
<1>5. Node(q, mean) \in Nodes(q) /\ Node(q, knn) \in Nodes(q) BY <1>4 DEF Nodes
<1>6. last \in at
  <2>1. at \in SUBSET (1 .. Len(q)) /\ Len(q) \in Nat BY DEF Offers
  <2> HIDE DEF at
  <2>2. \E i \in at : \A j \in at : j <= i BY <1>3, <2>1, GreatestPlace
  <2> QED BY <2>2
<1>7. costs(mean) = {10} /\ risks(mean) = {0} /\ costs(knn) = {60} /\ risks(knn) = {3}
  <2> HIDE DEF at, mean, knn
  <2>1. \A i \in at : /\ Offer(q, i, mean).cost = 10 /\ Offer(q, i, mean).risk = 0
                      /\ Offer(q, i, knn).cost = 60 /\ Offer(q, i, knn).risk = 3
    BY <1>1, <1>2
  <2> QED BY <1>3, <2>1
<1>8. /\ (CHOOSE c \in costs(mean) : \A x \in costs(mean) : c <= x) = 10
      /\ (CHOOSE r \in risks(mean) : \A x \in risks(mean) : r >= x) = 0
      /\ (CHOOSE c \in costs(knn) : \A x \in costs(knn) : c <= x) = 60
      /\ (CHOOSE r \in risks(knn) : \A x \in risks(knn) : r >= x) = 3
  <2>1. ASSUME NEW V, NEW x \in Int, V = {x}
        PROVE  (CHOOSE c \in V : \A y \in V : c <= y) = x
    BY <2>1
  <2>2. ASSUME NEW V, NEW x \in Int, V = {x}
        PROVE  (CHOOSE r \in V : \A y \in V : r >= y) = x
    BY <2>2
  <2> HIDE DEF costs, risks, mean, knn
  <2> QED BY <1>7, <2>1, <2>2
<1>9. Node(q, mean) =
        [id |-> mean, type |-> Offer(q, last, mean).type, cols |-> Offer(q, last, mean).cols,
         benefit |-> Benefits(q, mean)[Len(q)],
         cost |-> CHOOSE c \in costs(mean) : \A x \in costs(mean) : c <= x,
         risk |-> CHOOSE r \in risks(mean) : \A x \in risks(mean) : r >= x]
  BY DEF Node
<1>10. Node(q, knn) =
        [id |-> knn, type |-> Offer(q, last, knn).type, cols |-> Offer(q, last, knn).cols,
         benefit |-> Benefits(q, knn)[Len(q)],
         cost |-> CHOOSE c \in costs(knn) : \A x \in costs(knn) : c <= x,
         risk |-> CHOOSE r \in risks(knn) : \A x \in risks(knn) : r >= x]
  BY <1>1 DEF Node
<1>11. <<Benefits(q, mean)[Len(q)], Benefits(q, knn)[Len(q)]>> \in Pairs
  BY <1>3, PairedBenefits
<1> HIDE DEF last, at, mean, knn, costs, risks
<1>12. \E k : k \in DOMAIN q[last].cols
  <2>1. q[last] \in RawSignals(t, facts) /\ q[last].action = "warning" BY <1>1, <1>6
  <2> QED BY <2>1, WarningPriority
<1>13. /\ Offer(q, last, mean).type = "impute_mean" /\ Offer(q, last, knn).type = "impute_knn"
       /\ Offer(q, last, mean).cols = {q[last].cols[i] : i \in DOMAIN q[last].cols}
       /\ Offer(q, last, knn).cols = {q[last].cols[i] : i \in DOMAIN q[last].cols}
  BY <1>1, <1>2, <1>6
<1>14. /\ Node(q, mean).id = mean /\ Node(q, mean).type = "impute_mean"
       /\ Node(q, mean).cols = {q[last].cols[i] : i \in DOMAIN q[last].cols}
       /\ Node(q, mean).benefit = Benefits(q, mean)[Len(q)]
       /\ Node(q, mean).cost = 10 /\ Node(q, mean).risk = 0
  BY <1>7, <1>8, <1>9, <1>13
<1>15. /\ Node(q, knn).id = knn /\ Node(q, knn).type = "impute_knn"
       /\ Node(q, knn).cols = {q[last].cols[i] : i \in DOMAIN q[last].cols}
       /\ Node(q, knn).benefit = Benefits(q, knn)[Len(q)]
       /\ Node(q, knn).cost = 60 /\ Node(q, knn).risk = 3
  BY <1>7, <1>8, <1>10, <1>13
<1>16. Node(q, mean).cols = Node(q, knn).cols /\ Node(q, mean).cols # {}
  <2>1. PICK k : k \in DOMAIN q[last].cols BY <1>12
  <2>2. q[last].cols[k] \in {q[last].cols[i] : i \in DOMAIN q[last].cols} BY <2>1
  <2>3. Node(q, mean).cols = Node(q, knn).cols BY <1>14, <1>15
  <2>4. q[last].cols[k] \in Node(q, mean).cols BY <1>14, <2>2
  <2> QED BY <2>3, <2>4
<1>17. <<Node(q, mean).benefit, Node(q, knn).benefit>> \in Pairs BY <1>11, <1>14, <1>15
<1> QED BY <1>5, <1>14, <1>15, <1>16, <1>17 DEF mean, knn

-----------------------------------------------------------------------------
(* Edges.                                                                      *)

\* Conflicts relates exactly the nodes in conflict.
LEMMA EdgesAreConflicts ==
  ASSUME NEW N, \A n, m \in N : n.id = m.id => n = m,
         NEW a \in N, NEW b \in N, <<a.id, b.id>> \in Conflicts(N)
  PROVE  IsConflict(a, b)
<1>1. PICK q \in N \X N : /\ q[1] # q[2] /\ IsConflict(q[1], q[2])
                         /\ <<a.id, b.id>> = <<q[1].id, q[2].id>>
  BY DEF Conflicts
<1>2. q[1] \in N /\ q[2] \in N /\ a.id = q[1].id /\ b.id = q[2].id BY <1>1
<1>3. a = q[1] /\ b = q[2] BY <1>2
<1> QED BY <1>1, <1>3

LEMMA ConflictsAreEdges ==
  ASSUME NEW N, NEW a \in N, NEW b \in N, a # b, IsConflict(a, b)
  PROVE  <<a.id, b.id>> \in Conflicts(N)
<1> DEFINE S == {q \in N \X N : q[1] # q[2] /\ IsConflict(q[1], q[2])}
<1>1. <<a, b>> \in S OBVIOUS
<1>2. Conflicts(N) = {<<q[1].id, q[2].id>> : q \in S} BY DEF Conflicts
<1> HIDE DEF S
<1>3. \E q \in S : <<a.id, b.id>> = <<q[1].id, q[2].id>>
  <2>1. <<a.id, b.id>> = << <<a, b>>[1].id, <<a, b>>[2].id >> OBVIOUS
  <2> QED BY <1>1, <2>1
<1> QED BY <1>2, <1>3
=============================================================================
