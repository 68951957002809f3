----------------------------- MODULE ActionGraph -----------------------------
(* MODELING: SignalGraphBuilder turns the compressed signals into candidate    *)
(* actions (nodes) and relates them. Benefits, costs and risks are integers:   *)
(* Unit is 1.0.                                                                *)
EXTENDS SignalRules

Unit == 10000000

\* "_".join over columns, each a sequence of the parts its own name joins: columns
\* a and b, and a column a_b, give the same id.
Join(cols) ==
  LET join[i \in 0 .. Len(cols)] == IF i = 0 THEN <<>> ELSE join[i - 1] \o cols[i]
  IN  join[Len(cols)]

NodeId_ByType(type, cols) == << type, <<>> >>

NodeId(type, cols) == << type, Join(cols) >>

CostOf(action) ==
  CASE action = "block_analysis" -> 100 [] action = "drop" -> 5 [] action = "one_hot_encode" -> 40
    [] action = "use_feature_hashing" -> 30 [] action = "route_to_nlp_eda" -> 80
    [] OTHER -> 20                                                 \* hundredths

RiskOf(severity) ==
  CASE severity = "medium" -> 3 [] severity = "high" -> 7 [] severity = "critical" -> 10
    [] OTHER -> 0                                                  \* tenths, as RISK_MAP

\* What one signal contributes: a missing-value warning two ways of imputing, any
\* other signal its action. Types keep the signals' spelling.
Contribution(type, cols, benefit, cost, risk) ==
  [id |-> NodeId(type, cols), type |-> type, cols |-> {cols[i] : i \in DOMAIN cols},
   benefit |-> benefit, cost |-> cost, risk |-> risk]

Contributions(s) ==
  IF s.action = "warning"
  THEN {Contribution("impute_mean", s.cols, 5 * Priority(s), 10, 0),
        Contribution("impute_knn", s.cols, 6 * Priority(s), 60, 3)}
  ELSE {Contribution(s.action, s.cols, 5 * Priority(s), CostOf(s.action), RiskOf(s.severity))}

\* _add_node: a second contribution to an id adds its benefit (to at most 1.0), keeps
\* the higher risk and the lower cost, and replaces the columns by its own.
Offers(signals, id) == {i \in DOMAIN signals : \E c \in Contributions(signals[i]) : c.id = id}
Offer(signals, i, id) == CHOOSE c \in Contributions(signals[i]) : c.id = id

Ids(signals) == UNION {{c.id : c \in Contributions(signals[i])} : i \in DOMAIN signals}

\* What has been added up for an id after so many signals. No priority is zero, so
\* zero is an id not met yet.
Benefits(signals, id) ==
  LET total[i \in 0 .. Len(signals)] ==
        IF i = 0 THEN 0
        ELSE IF i \notin Offers(signals, id) THEN total[i - 1]
        ELSE IF total[i - 1] = 0 THEN Offer(signals, i, id).benefit
        ELSE Least(Unit, total[i - 1] + Offer(signals, i, id).benefit)
  IN  total

Node(signals, id) ==
  LET at == Offers(signals, id)
      of(i) == Offer(signals, i, id)
      last == CHOOSE i \in at : \A j \in at : j <= i
      costs == {of(i).cost : i \in at}
      risks == {of(i).risk : i \in at}
  IN  [id |-> id, type |-> of(last).type, cols |-> of(last).cols,
       benefit |-> Benefits(signals, id)[Len(signals)],
       cost |-> CHOOSE c \in costs : \A x \in costs : c <= x,
       risk |-> CHOOSE r \in risks : \A x \in risks : r >= x]

Nodes(signals) == {Node(signals, id) : id \in Ids(signals)}

\* The substring tests on action types, over the types signals can bear.
Imputes(a) == a.type \in {"impute_mean", "impute_knn"}
Encodes(a) == a.type \in {"one_hot_encode", "label_encode", "use_feature_hashing"}

Overlap(a, b) == a.cols \cap b.cols # {}

\* Two ways to do the same to a column, or anything beside dropping it.
IsConflict(a, b) ==
  /\ Overlap(a, b)
  /\ \/ "drop" \in {a.type, b.type}
     \/ Imputes(a) /\ Imputes(b)
     \/ Encodes(a) /\ Encodes(b)

\* Impute before encoding. No type scales or creates a feature.
IsPrereq_AnyColumns(a, b) == Imputes(a) /\ Encodes(b)

IsPrereq(a, b) == Overlap(a, b) /\ Imputes(a) /\ Encodes(b)

Conflicts_SameColumns(nodes) ==
  {<<p[1].id, p[2].id>> : p \in {q \in nodes \X nodes : /\ q[1] # q[2] /\ IsConflict(q[1], q[2])
                                                       /\ q[1].cols = q[2].cols}}

\* The ends of CONFLICTS_WITH edges, both ways.
Conflicts(nodes) ==
  {<<p[1].id, p[2].id>> : p \in {q \in nodes \X nodes : q[1] # q[2] /\ IsConflict(q[1], q[2])}}

\* The first prerequisite found asks a node for node_id, which it does not have.
PrereqRaises(nodes) == \E a, b \in nodes : a # b /\ IsPrereq(a, b)
=============================================================================
