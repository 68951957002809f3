----------------------------- MODULE DataProfile -----------------------------
(* What a job knows of its table once PERCEIVING is over: ContextBuilder       *)
(* classifies and measures each column, Canonicalizer puts the columns in a    *)
(* fixed order. A raw column is what pandas would answer about it:             *)
(*   name     the parts of the name between underscores                        *)
(*   dtype    "bool", "datetime", "float", "int" or "object"                   *)
(*   card     distinct values       gap     missing values, in percent         *)
(*   length   mean length of its text                                          *)
(*   skew     "high" (above 1.5, all values positive), "low", or "none":       *)
(*            fewer than three values, which JSON turns into null              *)
(*   narrow   a variance below 1e-5: constant, or of a tiny range              *)
(*   gaps     "blocks" (few, long), "scattered" or "plain"                     *)
EXTENDS Naturals, Sequences, FiniteSets

CONSTANT Rows            \* rows of the table

ASSUME RowsAssumption == Rows \in Nat \ {0}

\* "bool" stands for the extension types as well, "object" for every other dtype.
Column ==
  [name : Seq(STRING), dtype : {"bool", "datetime", "float", "int", "object"}, card : Nat,
   gap : 0 .. 100, length : Nat, skew : {"high", "low", "none"},
   narrow : BOOLEAN, gaps : {"blocks", "scattered", "plain"}]

Ratio(c) == (1000 * c.card) \div Rows       \* unique_ratio, in thousandths

\* bool and extension types first, then dates, then numbers with few values,
\* then long and varied text; what is left is categorical.
Type(c) ==
  CASE c.dtype = "bool"     -> "categorical"
    [] c.dtype = "datetime" -> "datetime"
    [] c.dtype = "float"    -> "numeric"
    [] c.dtype = "int"      -> IF c.card <= 5 \/ Ratio(c) < 100 THEN "categorical" ELSE "numeric"
    [] OTHER -> IF c.card > 0 /\ c.length > 25 /\ 4 * c.card * 100 > Rows * (100 - c.gap)
                THEN "text" ELSE "categorical"

Numeric(c)     == Type(c) = "numeric"
Categorical(c) == Type(c) = "categorical"
Text(c)        == Type(c) = "text"

HighMissing(c)     == c.gap > 70
ModerateMissing(c) == c.gap > 20 /\ c.gap <= 70
Constant(c)        == c.card = 1
LowVariance(c)     == Numeric(c) /\ c.narrow
Skewed(c)          == Numeric(c) /\ c.skew = "high"
PossibleId(c)      == (Text(c) \/ Categorical(c)) /\ Ratio(c) > 900
HighCardinality(c) == Ratio(c) > 900
EventLike(c)       == c.gap > 50 /\ (Numeric(c) \/ Categorical(c)) /\ c.card <= 5

\* _process_canonical_order: by type, then by name (tables list their columns by name)
Canonical(table) ==
  LET ofType(k) == SelectSeq(table, LAMBDA c : Type(c) = k)
  IN  ofType("categorical") \o ofType("datetime") \o ofType("numeric") \o ofType("text")

\* The columns of a canonical table a rule singles out, as the names in its details.
Named(table, Of(_)) ==
  LET hits == {i \in DOMAIN table : Of(table[i])}
      nth(k) == CHOOSE i \in hits : Cardinality({j \in hits : j < i}) = k - 1
  IN  [k \in 1 .. Cardinality(hits) |-> table[nth(k)].name]
=============================================================================
