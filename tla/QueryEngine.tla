------------------------------- MODULE QueryEngine -------------------------------
(* The report engine that runs in the browser: rows are filtered, given calculated   *)
(* fields, grouped and aggregated, sorted and cut to a page; a click on a group       *)
(* builds the definition of its drill-down.                                           *)
(*                                                                                    *)
(* A cell is NULL, a number, which is a fraction <<p, q>> or NaN, or a text: a date is *)
(* <<year, month, day>>, followed by its time where it has one, and any other text is  *)
(* <<rank>>, its rank among them.                                                       *)
EXTENDS QueryDates, QueryExpressions, FiniteSets, TLC

CONSTANTS FieldType,   \* the fields of the semantic model and their types
          NullText,    \* the text that reads "null"
          Numerals,    \* the texts that Number() reads, and the number each one reads as
          TextTest     \* the triples <<test, text, part>> of the tests of a text that hold

\* The elements of a sequence that are in a set, in their order.
Among(s, set) ==
  LET kept[i \in 0..Len(s)] ==
        IF i = 0 THEN << >>
        ELSE IF s[i] \in set THEN Append(kept[i - 1], s[i]) ELSE kept[i - 1]
  IN kept[Len(s)]

\* A row after fields are assigned to it, over those it has.
Assigned(row, added) ==
  [k \in DOMAIN row \cup DOMAIN added |-> IF k \in DOMAIN added THEN added[k] ELSE row[k]]

(* ----------------------------------- filters ---------------------------------------- *)
LexLess(s, t) ==
  \E i \in DOMAIN t : /\ \A j \in 1..(i - 1) : j \in DOMAIN s /\ s[j] = t[j]
                      /\ i \in DOMAIN s => s[i] < t[i]
CellLess(type, a, b) == IF type = "number" THEN FractionLess(a, b) ELSE LexLess(a, b)

IsNumber(v) == v = NaN \/ v \in Int \X Int
IsString(v) == v # NULL /\ ~IsNumber(v)
\* What Number() makes of a value; a null is 0.
Coerced(v) ==
  CASE v = NULL -> <<0, 1>>
    [] IsNumber(v) -> v
    [] OTHER -> IF v \in DOMAIN Numerals THEN Numerals[v] ELSE NaN
\* < and <= of JavaScript: two texts as texts, anything else as numbers.
JsLess(a, b) ==
  LET less(x, y) == NaN \notin {x, y} /\ FractionLess(x, y)
  IN IF IsString(a) /\ IsString(b) THEN LexLess(a, b) ELSE less(Coerced(a), Coerced(b))
JsAtMost(a, b) ==
  LET same(x, y) == x = y /\ x # NaN
  IN \/ JsLess(a, b)
     \/ IF IsString(a) /\ IsString(b) THEN a = b ELSE same(Coerced(a), Coerced(b))

ResolveFilterValue(f) ==
  IF f.dynamic = NULL THEN f.value ELSE ResolveDynamicValue(f.dynamic)

\* The text of a value; the text of a number is told apart by TextTest.
TextOfValue(v) == IF v = NULL THEN NullText ELSE v

\* A filter that is not given a list, values = NULL, is in nothing and not in nothing.
ApplyOperator(f, cell, value) ==
  CASE f.operator = "isNull" -> cell = NULL
    [] f.operator = "isNotNull" -> cell # NULL
    [] OTHER ->
         /\ cell # NULL
         /\ CASE f.operator = "eq" -> cell = value
              [] f.operator = "neq" -> cell # value
              [] f.operator = "gt" -> JsLess(value, cell)
              [] f.operator = "gte" -> JsAtMost(value, cell)
              [] f.operator = "lt" -> JsLess(cell, value)
              [] f.operator = "lte" -> JsAtMost(cell, value)
              [] f.operator = "between" -> JsAtMost(value, cell) /\ JsAtMost(cell, f.value2)
              [] f.operator = "notBetween" -> JsLess(cell, value) \/ JsLess(f.value2, cell)
              [] f.operator = "in" -> f.values # NULL /\ cell \in f.values
              [] f.operator = "notIn" -> f.values # NULL /\ cell \notin f.values
              [] f.operator = "notContains" -> <<"contains", cell, TextOfValue(value)>> \notin TextTest
              [] OTHER -> <<f.operator, cell, TextOfValue(value)>> \in TextTest

MatchesFilter(row, f) == ApplyOperator(f, row[f.field], ResolveFilterValue(f))

\* A condition is a filter or a group of conditions under "and" or "or".  A nested group is
\* the sequence of its conditions, each after its parts, which it names by their places.
MatchesGroup(row, g) ==
  LET holds[i \in DOMAIN g] ==
        CASE g[i].logic = "is" -> MatchesFilter(row, g[i].filter)
          [] g[i].logic = "or" -> \E j \in g[i].conditions : holds[j]
          [] OTHER -> \A j \in g[i].conditions : holds[j]
  IN holds[Len(g)]

\* The nested group, where there is one, replaces the flat filters.
Selected(def, row) ==
  IF def.filterGroup # NULL THEN MatchesGroup(row, def.filterGroup)
  ELSE \A i \in DOMAIN def.filters : MatchesFilter(row, def.filters[i])
FilterRows(def, data) == Among(data, {row \in ToSet(data) : Selected(def, row)})

(* ------------------------------- calculated fields ----------------------------------- *)
CalcsOf(def, scope) ==
  Among(def.calculatedFields, {c \in ToSet(def.calculatedFields) : c.scope = scope})
IsText(key) == key \in DOMAIN FieldType /\ FieldType[key] # "number"
Numbers(row, out) ==
  [k \in {j \in DOMAIN row : ~IsText(j) /\ row[j] \notin out} |-> row[k]]

\* The calculated fields in turn, each of which may use those before it; a name that is
\* not a number of the row, or an open bracket, throws out of the whole query.
AddCalcs(row, calcs, out) ==
  LET take(s, c, scope) ==
        IF s.thrown \/ Missing(c.expression, scope) \/ Unclosed(c.expression) THEN [s EXCEPT !.thrown = TRUE]
        ELSE [s EXCEPT !.row = Assigned(@, [k \in {c.alias} |-> EvalExpression(c.expression, scope)])]
      next(s, c) == take(s, c, Numbers(s.row, out))
      taken[i \in 0..Len(calcs)] ==
        IF i = 0 THEN [row |-> row, thrown |-> FALSE] ELSE next(taken[i - 1], calcs[i])
  IN taken[Len(calcs)]
RowCalcs(def, row) == AddCalcs(row, CalcsOf(def, "row"), {NULL, NaN})
AggCalcs(def, row) == AddCalcs(row, CalcsOf(def, "aggregate"), {NULL})

(* ------------------------------ groups and aggregates -------------------------------- *)
BucketValue(cell, g) ==
  IF g.dateBucket # "none" /\ FieldType[g.field] = "date" /\ cell # NULL
  THEN DateBucketKey(cell, g.dateBucket) ELSE cell

\* Mutant: the key is the first dimension alone.
KeyOfFirst(def, row) ==
  <<TextOfValue(BucketValue(row[def.groupBy[1].field], def.groupBy[1]))>>
\* The key is text: a missing value reads "null".
KeyOf(def, row) ==
  [i \in DOMAIN def.groupBy |->
     TextOfValue(BucketValue(row[def.groupBy[i].field], def.groupBy[i]))]

\* The row joins the bucket of its key, or opens one after the others.
Join(bs, row, k) ==
  LET at(i) == IF i = 0 THEN Append(bs, [key |-> k, rows |-> <<row>>])
               ELSE [bs EXCEPT ![i].rows = Append(@, row)]
  IN at(SelectInSeq(bs, LAMBDA b : b.key = k))
\* Mutant: rows that miss a dimension are in no bucket.
BucketsOfPresent(def, rows) ==
  LET key(row) == KeyOf(def, row)
  IN IF def.groupBy = << >> THEN << >>
     ELSE FoldLeft(LAMBDA bs, row : IF NullText \in ToSet(key(row)) THEN bs
                                    ELSE Join(bs, row, key(row)), << >>, rows)
\* Buckets in the order their first row appears; without dimensions there are none.
Buckets(def, rows) ==
  LET joined[i \in 0..Len(rows)] ==
        IF i = 0 THEN << >> ELSE Join(joined[i - 1], rows[i], KeyOf(def, rows[i]))
  IN IF def.groupBy = << >> THEN << >> ELSE joined[Len(rows)]

SumOf(ns) ==
  LET sum[i \in 0..Len(ns)] == IF i = 0 THEN <<0, 1>> ELSE Add(sum[i - 1], ns[i])
  IN sum[Len(ns)]
LeastOf(ns) == CHOOSE n \in ToSet(ns) : \A m \in ToSet(ns) : ~FractionLess(m, n)
GreatestOf(ns) == CHOOSE n \in ToSet(ns) : \A m \in ToSet(ns) : ~FractionLess(n, m)

\* Numbers that are missing are skipped; without any number the answer is 0.
Aggregate(agg, values, type) ==
  LET present == Among(values, ToSet(values) \ {NULL})
      numeric(nums) ==
        IF nums = << >> THEN <<0, 1>>
        ELSE CASE agg = "sum" -> SumOf(nums)
          [] agg = "avg" -> Divide(SumOf(nums), Int2Fraction(Len(nums)))
          [] agg = "min" -> LeastOf(nums)
          [] agg = "max" -> GreatestOf(nums)
          [] OTHER -> nums[1]
  IN CASE agg = "count" -> Int2Fraction(Len(values))
       [] agg = "countDistinct" -> Int2Fraction(Cardinality(ToSet(present)))
       [] OTHER -> numeric(IF type = "number" THEN Among(present, ToSet(present) \ {NaN}) ELSE << >>)

\* Every row has the value 1 of "*".
ComputeMetric(m, rows) ==
  Aggregate(m.aggregation,
            [i \in DOMAIN rows |-> IF m.field = "*" THEN <<1, 1>> ELSE rows[i][m.field]],
            IF m.field = "*" THEN "number" ELSE FieldType[m.field])

MetricsRow(def, rows) ==
  [k \in {def.metrics[i].alias : i \in DOMAIN def.metrics} |->
     ComputeMetric(def.metrics[SelectLastInSeq(def.metrics, LAMBDA m : m.alias = k)], rows)]
DimensionsRow(def, row) ==
  [k \in {def.groupBy[i].field : i \in DOMAIN def.groupBy} |->
     BucketValue(row[k], def.groupBy[SelectLastInSeq(def.groupBy, LAMBDA g : g.field = k)])]
GroupRow(def, bucket) ==
  AggCalcs(def, Assigned(DimensionsRow(def, bucket.rows[1]), MetricsRow(def, bucket.rows)))

VisibleColumns(def) == Among(def.columns, {c \in ToSet(def.columns) : c.visible})
ProjectFlatRow(def, row) ==
  [k \in {c.field : c \in ToSet(VisibleColumns(def))}
         \cup {c.alias : c \in ToSet(CalcsOf(def, "row"))} |->
     IF k \in DOMAIN row THEN row[k] ELSE NULL]

\* The rows of the result before they are sorted: one for each bucket, one for the whole
\* set, or one for each row.
OutRows(def, rows, buckets) ==
  IF def.groupBy # << >> THEN [i \in DOMAIN buckets |-> GroupRow(def, buckets[i])]
  ELSE IF def.metrics # << >> THEN <<AggCalcs(def, MetricsRow(def, rows))>>
  ELSE [i \in DOMAIN rows |-> [row |-> ProjectFlatRow(def, rows[i]), thrown |-> FALSE]]

\* The nodes a click opens are not sorted and not cut to the page.
GroupNodes(def, buckets) ==
  [i \in DOMAIN buckets |-> DimensionsRow(def, buckets[i].rows[1])[def.groupBy[1].field]]

(* ------------------------------------ sorting ---------------------------------------- *)
AliasType(def, key) ==
  IF key \in {m.alias : m \in ToSet(def.metrics)} \cup {c.alias : c \in ToSet(def.calculatedFields)}
  THEN "number"
  ELSE IF key \in DOMAIN FieldType THEN FieldType[key] ELSE "string"

Cell(row, key) == IF key \in DOMAIN row THEN row[key] ELSE NULL
\* Only a calculated field can show what is not a number, which compares to nothing.
Unordered(def, s, a, b) ==
  /\ s.field \in {c.alias : c \in ToSet(def.calculatedFields)}
  /\ NULL \notin {a, b} /\ NaN \in {a, b}
\* A missing value comes after every other, or before it when the order is descending.
CellBefore(def, s, a, b) ==
  LET before(x, y) == IF x = NULL \/ y = NULL THEN x # NULL /\ y = NULL
                      ELSE ~Unordered(def, s, x, y) /\ CellLess(AliasType(def, s.field), x, y)
  IN IF s.direction = "desc" THEN before(b, a) ELSE before(a, b)

\* The numbers up to n, each before those it comes before.
InOrder(n, before) == SortSeq([i \in 1..n |-> i], LAMBDA i, j : <<i, j>> \in before)

\* Keys by priority; those without one come last, in the order they are written.
KeyBefore(sorting, i, j) ==
  LET early(k, l) == \/ sorting[k].priority # NULL /\ sorting[l].priority = NULL
                     \/ /\ sorting[k].priority # NULL /\ sorting[l].priority # NULL
                        /\ sorting[k].priority < sorting[l].priority
  IN early(i, j) \/ (~early(j, i) /\ i < j)
\* The first key that tells the rows apart decides; where none does, or a number that is not
\* one comes first, they stay as they are.
RowBefore(def, rows, i, j) ==
  LET keys == def.sorting
      at(n, x) == Cell(rows[x], keys[n].field)
      before(n, x, y) == CellBefore(def, keys[n], at(n, x), at(n, y))
      open(n) == Unordered(def, keys[n], at(n, i), at(n, j))
      first(apart) == CHOOSE n \in apart : \A m \in apart \ {n} : KeyBefore(keys, n, m)
      decided(apart) == IF apart = {} THEN i < j
                        ELSE IF open(first(apart)) THEN i < j ELSE before(first(apart), i, j)
  IN decided({n \in DOMAIN keys : before(n, i, j) \/ before(n, j, i) \/ open(n)})

StableSort(def, rows) ==
  LET places == DOMAIN rows
      order == InOrder(Len(rows), {p \in places \X places : RowBefore(def, rows, p[1], p[2])})
  IN IF def.sorting = << >> THEN rows ELSE [i \in places |-> rows[order[i]]]

Page(def, rows) ==
  LET rest == SubSeq(rows, def.offset + 1, Len(rows))
  IN IF def.limit = NULL \/ def.limit > Len(rest) THEN rest ELSE SubSeq(rest, 1, def.limit)

(* ----------------------------------- drill-down -------------------------------------- *)
\* The value is compared with the operator that the report asks for, or is the same.
DrillOperator(def) == IF def.drillOperator = NULL THEN "eq" ELSE def.drillOperator
PinnedFilter(def, value) ==
  [field |-> def.groupBy[1].field, operator |-> DrillOperator(def), value |-> value,
   value2 |-> NULL, values |-> NULL, dynamic |-> NULL]

\* The dimension after the first one, if there is one.
NextDimension(def) == IF Len(def.groupBy) > 1 THEN <<def.groupBy[2]>> ELSE << >>

\* Mutant: the pinned filter replaces the filters of the report.
DrilldownForgetsFilters(def, value) ==
  IF def.drilldown = "target"
  THEN [def.target EXCEPT !.filters = <<PinnedFilter(def, value)>>]
  ELSE [def EXCEPT !.filters = <<PinnedFilter(def, value)>>,
                   !.groupBy = NextDimension(def), !.drilldown = "none"]
BuildDrilldownDefinition(def, value) ==
  IF def.drilldown = "target"
  THEN [def.target EXCEPT !.filters = Append(@, PinnedFilter(def, value))]
  ELSE [def EXCEPT !.filters = Append(@, PinnedFilter(def, value)),
                   !.groupBy = NextDimension(def), !.drilldown = "none"]
====================================================================================
