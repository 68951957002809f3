----------------------------- MODULE SignalRules -----------------------------
(* SIGNALING: RuleEngine runs every rule over the canonical table,             *)
(* PriorityScoring ranks what they emit and ContextCompressor keeps the prefix *)
(* that fits its token budget. A signal carries the columns its details list   *)
(* under affected_columns ("dataset" stands in when there are none) and how    *)
(* many it lists under that or another key, and a number: the place of its     *)
(* rule in the order of discovery, by which equals are ranked. The rules whose *)
(* condition no context can meet (R3.5, R3.7, R7.1) are left out.              *)
EXTENDS DataProfile

CONSTANT TokenBudget     \* signals and columns the compressor has room for

ASSUME TokenAssumption == TokenBudget \in Nat

Whole == << <<"dataset">> >>         \* the default of affected_columns

Signal(no, prio, type, action, severity, cols) ==
  [no |-> no, prio |-> prio, type |-> type, action |-> action, severity |-> severity,
   cols |-> cols, listed |-> Len(cols), percent |-> 0]

\* The rules of one file each.
MissingData(t) ==
  { Signal(16, 100, "column_health", "warning", "high", Named(t, HighMissing)),
    Signal(17, 50, "column_health", "warning", "medium",
           Named(t, LAMBDA c : ModerateMissing(c) /\ (Numeric(c) \/ Categorical(c)))),
    Signal(18, 10, "column_health", "investigate", "medium", Named(t, LAMBDA c : c.gaps = "blocks")),
    Signal(19, 5, "data_cleaning_suggestion", "safe_to_drop_rows", "low",
           Named(t, LAMBDA c : c.gap < 5 /\ c.gaps = "scattered")) }

VarianceRules(t) ==
  { Signal(10, 100, "column_cleaning", "drop", "high", Named(t, Constant)),
    Signal(11, 90, "column_cleaning", "suggest_drop", "medium", Named(t, LowVariance)) }

IdDetection(t) ==
  { Signal(9, 100, "schema_detection", "exclude_from_modeling", "info",
           Named(t, LAMBDA c : Ratio(c) > 990 /\ PossibleId(c))),
    Signal(8, 90, "schema_detection", "check_composite", "low",
           Named(t, LAMBDA c : Ratio(c) > 950 /\ c.card > 1000)) }

TypeRules(t) ==
  { Signal(7, 85, "type_reclassification", "reclassify_as_id", "medium",
           Named(t, LAMBDA c : Numeric(c) /\ Ratio(c) > 950)),
    Signal(6, 80, "type_reclassification", "cast_to_category", "info",
           Named(t, LAMBDA c : Numeric(c) /\ EventLike(c))),
    Signal(5, 75, "encoding_warning", "use_feature_hashing", "medium",
           Named(t, LAMBDA c : Categorical(c) /\ HighCardinality(c) /\ c.card > 1000)) }

Encoding(t) ==
  { Signal(20, 60, "encoding_strategy", "label_encode", "info",
           Named(t, LAMBDA c : Categorical(c) /\ c.card = 2)),
    Signal(21, 55, "encoding_strategy", "one_hot_encode", "info",
           Named(t, LAMBDA c : Categorical(c) /\ c.card \in 3 .. 10)) }

Normalization(t) ==
  {Signal(22, 85, "normalization_recommendation", "log_transform", "medium", Named(t, Skewed))}

TextProcessing(t) ==
  {Signal(23, 70, "preprocessing_pipeline", "route_to_nlp", "medium",
          Named(t, LAMBDA c : Text(c) /\ c.length > 30))}

ColumnRules(t) == UNION {MissingData(t), VarianceRules(t), IdDetection(t), TypeRules(t),
                         Encoding(t), Normalization(t), TextProcessing(t)}

\* A rule is run if its applies() accepts some column. Two of them ask run() for
\* something else: the skew of every numeric column, and null compares with no
\* number, so the rule fails and is skipped; and any text of 100 characters.
Emitted(t, s) ==
  /\ s.cols # <<>>
  /\ s.action = "log_transform" => \A i \in DOMAIN t : Numeric(t[i]) => t[i].skew # "none"
  /\ s.action = "route_to_nlp" => \E i \in DOMAIN t : Text(t[i]) /\ t[i].length > 100

\* Rules about the whole table name no column in affected_columns, and list n things
\* under "columns" or "pairs".
OfTable(no, prio, type, action, severity, n) ==
  [Signal(no, prio, type, action, severity, Whole) EXCEPT !.listed = n]

Plot(no, prio, cols) == OfTable(no, prio, "visualization", "generate_plots", "info", Len(cols))

Plots(t) ==
  LET numbers == Named(t, Numeric)
      messy == Named(t, LAMBDA c : c.gap > 5)
  IN  {s \in { Plot(27, 20, Named(t, LAMBDA c : Categorical(c) /\ c.card <= 20)),
               Plot(28, 10, IF Len(numbers) >= 3 THEN numbers ELSE <<>>),
               Plot(29, 15, Named(t, LAMBDA c : Categorical(c) /\ c.card > 20)),
               Plot(30, 10, IF Len(messy) >= 5 THEN messy ELSE <<>>),
               Plot(31, 20, Named(t, LAMBDA c : Numeric(c) /\ ~Constant(c))),
               Plot(32, 15, Named(t, Skewed)) } : s.listed > 0}

\* The rest of the context is facts: duplicate rows in percent (dup), pairs of numbers
\* that correlate above 0.95 (strong) and above 0.75 (moderate), whether one number is
\* in three such pairs (hub), whether a name or a value tells of images (image), and
\* how many dates there are that no other rule singles out (other).
Correlations(facts) ==
  {s \in { OfTable(25, 40, "feature_reduction", "drop_redundant", "high", facts.strong),
           OfTable(26, 35, "feature_review", "user_decision_required", "medium",
                   facts.moderate) } : s.listed > 0}
  \cup {s \in {OfTable(24, 30, "feature_reduction", "group_into_cluster", "medium", 0)} : facts.hub}

EventIds == {<< "transaction", "id" >>, << "order", "id" >>, << "event", "id" >>}

Applies(t, facts, route) ==
  LET ofType(Of(_)) == SelectSeq(t, Of)
      texts == ofType(Text)
      length[i \in 0 .. Len(texts)] == IF i = 0 THEN 0 ELSE length[i - 1] + texts[i].length
      dated == facts.other > 0 \/ \E i \in DOMAIN t : Type(t[i]) = "datetime"
  IN  CASE route = "route_to_image_eda" -> facts.image
        [] route = "route_to_nlp_eda" ->
             /\ Len(texts) > Len(ofType(Numeric)) + Len(ofType(Categorical))
             /\ length[Len(texts)] > 50 * Len(texts)
        [] route = "route_to_iot_eda" -> Len(ofType(Numeric)) > 20 /\ dated /\ facts.dup > 10
        [] OTHER -> dated /\ \E i \in DOMAIN t : t[i].name \in EventIds

Routing(t, facts) ==
  {s \in { OfTable(1, 85, "workflow_routing", "route_to_image_eda", "medium", 0),
           OfTable(2, 80, "workflow_routing", "route_to_nlp_eda", "medium", 0),
           OfTable(3, 80, "workflow_routing", "route_to_iot_eda", "high", 0),
           OfTable(4, 85, "workflow_routing", "route_to_event_eda", "info", 0) } :
     Applies(t, facts, s.action)}

Duplicates(facts) ==
  LET of(no, prio, action, severity) ==
        [OfTable(no, prio, "dataset", action, severity, 0) EXCEPT !.percent = facts.dup]
  IN  CASE facts.dup > 20 -> of(12, 100, "block_analysis", "critical")
        [] facts.dup \in 6 .. 20 -> of(13, 50, "suggest_deduplication", "medium")
        [] facts.dup \in 1 .. 5 -> of(14, 5, "ignore_duplicates", "low")
        [] OTHER -> of(15, 10, "skip_deduplication", "info")

TableRules(t, facts) ==
  UNION {Plots(t), Correlations(facts), Routing(t, facts), {Duplicates(facts)}}

RawSignals(t, facts) == {s \in ColumnRules(t) : Emitted(t, s)} \cup TableRules(t, facts)

-----------------------------------------------------------------------------
(* PriorityScoring. The factory gives it an empty context, so total_rows and   *)
(* total_cols are 1 and no column is categorical, whatever the table: naming   *)
(* any column is naming at least half of them, a dataset signal always gets    *)
(* its small-table boost and an encoding signal is always halved.              *)
SeverityWeight == [critical |-> 100, high |-> 75, medium |-> 50, low |-> 25, info |-> 10]
Urgency        == [critical |-> 14, high |-> 12, medium |-> 10, low |-> 9, info |-> 8]

ImpactMap ==
  [block_analysis |-> 100, drop |-> 90, safe_to_drop_rows |-> 85, drop_redundant |-> 85,
   exclude_from_modeling |-> 80, suggest_drop |-> 75, reclassify_as_id |-> 72,
   use_feature_hashing |-> 68, suggest_deduplication |-> 65, group_into_cluster |-> 62,
   log_transform |-> 60, one_hot_encode |-> 58, cast_to_category |-> 52, label_encode |-> 48,
   route_to_nlp |-> 45, route_to_nlp_eda |-> 42, route_to_iot_eda |-> 38,
   route_to_event_eda |-> 35, route_to_image_eda |-> 33, user_decision_required |-> 30,
   warning |-> 25, investigate |-> 20, check_composite |-> 15, ignore_duplicates |-> 8,
   skip_deduplication |-> 5, generate_plots |-> 5]

TypeWeight(k) ==
  CASE k = "dataset" -> 130 [] k = "schema_detection" -> 120 [] k = "column_health" -> 110
    [] k = "feature_reduction" -> 100
    [] k = "type_reclassification" -> 90 [] k = "visualization" -> 50 [] OTHER -> 80

Least(a, b) == IF a < b THEN a ELSE b

\* In two-hundredths of a point.
BaseScore(s) == Least(20000, (SeverityWeight[s.severity] + ImpactMap[s.action]) * TypeWeight(s.type))

Magnitude(s) ==
  LET p == s.percent
  IN  IF s.listed > 0 THEN 20
      ELSE CASE p >= 50 -> 5 [] p \in 20 .. 49 -> 3 [] p \in 10 .. 19 -> 1 [] OTHER -> 0

ContextBoost(s) == IF s.action = "block_analysis" THEN 10 ELSE IF s.type = "dataset" THEN 3 ELSE 0
Multiplier(s)   == IF s.action = "block_analysis" THEN 15 ELSE Urgency[s.severity]
Decay(s)        == IF s.type = "encoding_strategy" THEN 5 ELSE 10

\* computed_priority / 100 in millionths times two: 2 * 10^6 is the cap of 100 points.
Priority(s) ==
  Least(2000000, (BaseScore(s) + 200 * (Magnitude(s) + ContextBoost(s))) * Multiplier(s) * Decay(s))

\* rank_signals sorts by score, then by the rule's own priority, and is stable.
Before(a, b) ==
  \/ Priority(a) > Priority(b)
  \/ Priority(a) = Priority(b) /\ a.prio > b.prio
  \/ Priority(a) = Priority(b) /\ a.prio = b.prio /\ a.no < b.no

Ranked(S) ==
  [i \in 1 .. Cardinality(S) |-> CHOOSE s \in S : Cardinality({r \in S : Before(r, s)}) = i - 1]

\* A signal takes room for itself and for every column it lists; the first one that
\* does not fit ends the list, also for cheaper ones behind it.
Tokens(s) == 1 + s.listed
Spent(ranked) ==
  LET spent[i \in 0 .. Len(ranked)] == IF i = 0 THEN 0 ELSE spent[i - 1] + Tokens(ranked[i])
  IN  spent
Compressed(ranked) ==
  SubSeq(ranked, 1, Cardinality({i \in DOMAIN ranked : Spent(ranked)[i] <= TokenBudget}))
=============================================================================
