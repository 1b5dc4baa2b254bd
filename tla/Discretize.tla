------------------------------ MODULE Discretize ------------------------------
(***************************************************************************)
(* The predicates of driveeval/mine/discretize.py.  A cell of the feature  *)
(* table is {} when it is NULL and {v} when it holds v; numbers count      *)
(* hundredths.  A column is a function from rows, the numbers 1, 2, ... in *)
(* the order of the frame, to cells.                                       *)
(***************************************************************************)
EXTENDS Orders

CONSTANTS
  NBins,              (* Quantile bins of a column of many values.         *)
  IntSupportMax,      (* Whole numbers up to this many get exact cuts.     *)
  MinCategoryCount,   (* A rarer category gets no predicate.               *)
  MaxCategories       (* The most frequent categories that get one.        *)

ASSUME DiscretizeAssumption ==
  /\ NBins \in Nat \ {0, 1}
  /\ {IntSupportMax, MinCategoryCount, MaxCategories} \subseteq Nat

One == 100      \* 1.0, in hundredths.
Tenth == 10     \* Edges are rounded to one decimal.

Predicate(column, op, value) == [column |-> column, op |-> op, value |-> value]

\* Mutant of Holds: NULL is read as zero.
HoldsNullAsZero(predicate, cell) ==
  LET known == IF cell = {} THEN {0} ELSE cell IN
  CASE predicate.op = "IS NULL"     -> cell = {}
    [] predicate.op = "IS NOT NULL" -> cell # {}
    [] predicate.op = "="           -> cell = predicate.value
    [] predicate.op = ">="          -> \E v \in known, edge \in predicate.value : v >= edge
    [] predicate.op = "<"           -> \E v \in known, edge \in predicate.value : v < edge

\* Predicate.evaluate: NULL satisfies IS NULL and nothing else.
Holds(predicate, cell) ==
  CASE predicate.op = "IS NULL"     -> cell = {}
    [] predicate.op = "IS NOT NULL" -> cell # {}
    [] predicate.op = "="           -> cell = predicate.value
    [] predicate.op = ">="          -> \E v \in cell, edge \in predicate.value : v >= edge
    [] predicate.op = "<"           -> \E v \in cell, edge \in predicate.value : v < edge

NonNull(column) == {i \in DOMAIN column : column[i] # {}}
Values(column)  == UNION {column[i] : i \in DOMAIN column}
Count(column, v) == Cardinality({i \in DOMAIN column : column[i] = {v}})

\* The predicates on whether a column is known, when some of its cells are and some not.
NullPredicates(name, column) ==
  IF NonNull(column) = {} \/ NonNull(column) = DOMAIN column THEN <<>>
  ELSE <<Predicate(name, "IS NULL", {}), Predicate(name, "IS NOT NULL", {})>>

\* One equality per category that is frequent enough, the most frequent first.
CategoryPredicates(name, column) ==
  LET first(v) == CHOOSE i \in NonNull(column) :
                    column[i] = {v} /\ \A j \in NonNull(column) : column[j] = {v} => i <= j
      frequent == {v \in Values(column) : Count(column, v) >= MinCategoryCount}
      ordered  == Arranged(frequent, LAMBDA v, w :
                    \/ Count(column, v) > Count(column, w)
                    \/ Count(column, v) = Count(column, w) /\ first(v) < first(w))
      kept     == SubSeq(ordered, 1, IF Len(ordered) < MaxCategories THEN Len(ordered)
                                                                     ELSE MaxCategories)
  IN [i \in DOMAIN kept |-> Predicate(name, "=", {kept[i]})]

\* round(x / den, 1) of x hundredths, to the even tenth when halfway.
Rounded(x, den) ==
  LET low  == x \div (Tenth * den)
      rest == 2 * (x % (Tenth * den))
      up   == rest > Tenth * den \/ (rest = Tenth * den /\ low % 2 = 1)
  IN Tenth * (IF up THEN low + 1 ELSE low)

\* The inner edges of nanquantile(values, i / NBins), rounded; at(n) is the n-th value of
\* the sorted column.
QuantileEdges(column) ==
  LET total   == Cardinality(NonNull(column))
      upTo(v) == Cardinality({i \in NonNull(column) : \E w \in column[i] : w <= v})
      at(n)   == CHOOSE v \in Values(column) : upTo(v) - Count(column, v) < n /\ n <= upTo(v)
      edge(b) == LET pos == b * (total - 1)
                     low == pos \div NBins
                     f   == pos % NBins
                 IN Rounded(at(low + 1) * (NBins - f)
                              + (IF f = 0 THEN 0 ELSE at(low + 2) * f), NBins)
  IN {edge(b) : b \in 1 .. NBins - 1}

\* The cuts of a numeric column: each value but the least when they are few and whole,
\* and otherwise the rounded quantiles that leave something on both sides.
Edges(column) ==
  LET values == Values(column)
      least  == CHOOSE v \in values : \A w \in values : v <= w
  IN IF (\A v \in values : v % One = 0) /\ Cardinality(values) <= IntSupportMax
       THEN values \ {least}
       ELSE {e \in QuantileEdges(column) : least < e /\ \E v \in values : e <= v}

ThresholdPredicates(name, column) ==
  IF Cardinality(Values(column)) < 2 THEN <<>>
  ELSE LET cuts == Arranged(Edges(column), <) IN
       [n \in 1 .. 2 * Len(cuts) |->
          Predicate(name, IF n % 2 = 1 THEN ">=" ELSE "<", {cuts[(n + 1) \div 2]})]

\* candidate_predicates of one column; numeric says whether its values are numbers.  No
\* predicate comes out twice.
ColumnPredicates(name, numeric, column) ==
  NullPredicates(name, column) \o
    (IF NonNull(column) = {} THEN <<>>
     ELSE IF numeric THEN ThresholdPredicates(name, column)
     ELSE CategoryPredicates(name, column))

=============================================================================
