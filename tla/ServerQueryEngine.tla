---------------------------- MODULE ServerQueryEngine ----------------------------
(* The report engine of the server, written after the browser's.  What it does        *)
(* likewise is taken from QueryEngine; what it does of its own is defined here.        *)
EXTENDS QueryEngine

CONSTANT ServerNumerals   \* the texts that double.TryParse reads, and the number of each

(* ----------------------------------- filters ---------------------------------------- *)
\* The number of a value, or of the text of one, and NULL where there is none.
TryToDouble(v) ==
  IF v = NULL \/ IsNumber(v) THEN v
  ELSE IF v \in DOMAIN ServerNumerals THEN ServerNumerals[v] ELSE NULL
\* By their texts: nothing comes first, and the text of a number before one that reads as
\* none, which begins with a letter.
OrdinalLess(a, b) ==
  CASE NULL \in {a, b} -> a = NULL /\ b # NULL
    [] IsNumber(a) \/ IsNumber(b) -> ~IsNumber(b)
    [] OTHER -> LexLess(a, b)
\* Two values that read as numbers, texts or not, are compared as numbers.  Doubles less
\* than 1e-12 apart are the same to eq, here only those that are.
BothNumbers(a, b) == NULL \notin {TryToDouble(a), TryToDouble(b)}
CompareLess(a, b) ==
  IF BothNumbers(a, b) THEN FractionLess(TryToDouble(a), TryToDouble(b)) ELSE OrdinalLess(a, b)
CellEquals(a, b) == IF BothNumbers(a, b) THEN TryToDouble(a) = TryToDouble(b) ELSE a = b
CompareAtMost(a, b) == CompareLess(a, b) \/ CellEquals(a, b)

\* The list of an in filter arrives as one parsed value and is not enumerable: nothing is
\* in it.  Every text holds the empty text that stands for nothing.  A nested group is not
\* part of what the server reads.
ServerApplyOperator(f, cell, value) ==
  LET test(name) == value = NULL \/ <<name, cell, value>> \in TextTest
  IN CASE f.operator = "isNull" -> cell = NULL
       [] f.operator = "isNotNull" -> cell # NULL
       [] OTHER ->
            /\ cell # NULL
            /\ CASE f.operator = "eq" -> CellEquals(cell, value)
                 [] f.operator = "neq" -> ~CellEquals(cell, value)
                 [] f.operator = "gt" -> CompareLess(value, cell)
                 [] f.operator = "gte" -> CompareAtMost(value, cell)
                 [] f.operator = "lt" -> CompareLess(cell, value)
                 [] f.operator = "lte" -> CompareAtMost(cell, value)
                 [] f.operator = "between" -> CompareAtMost(value, cell) /\ CompareAtMost(cell, f.value2)
                 [] f.operator = "notBetween" -> CompareLess(cell, value) \/ CompareLess(f.value2, cell)
                 [] f.operator \in {"in", "notIn"} -> f.operator = "notIn"
                 [] f.operator = "notContains" -> ~test("contains")
                 [] OTHER -> test(f.operator)
ServerMatchesFilter(row, f) ==
  ServerApplyOperator(f, row[f.field],
                      IF f.dynamic = NULL THEN f.value ELSE ResolveDynamicToken(f.dynamic))
ServerFilterRows(def, data) ==
  Among(data, {row \in ToSet(data) : \A i \in DOMAIN def.filters : ServerMatchesFilter(row, def.filters[i])})

(* ------------------------------- calculated fields ----------------------------------- *)
\* A text that reads as a number is one here.
ServerNumbers(row) ==
  LET number(k) == IF IsText(k) THEN TryToDouble(row[k]) ELSE row[k]
  IN [k \in {j \in DOMAIN row : number(j) # NULL} |-> number(k)]
\* A field that cannot be computed is null, and the query goes on.
ServerAddCalcs(row, calcs) ==
  LET value(c, scope) == ServerEvalExpression(c.expression, scope)
      next(r, c) == Assigned(r, [k \in {c.alias} |-> value(c, ServerNumbers(r))])
      taken[i \in 0..Len(calcs)] == IF i = 0 THEN row ELSE next(taken[i - 1], calcs[i])
  IN taken[Len(calcs)]

(* ------------------------------ groups and aggregates -------------------------------- *)
ServerBucketValue(cell, g) ==
  IF g.dateBucket # "none" /\ FieldType[g.field] = "date" /\ cell # NULL
  THEN ServerDateBucketKey(cell, g.dateBucket) ELSE cell
\* The key of a missing value is no text that a value can have.
ServerKeyOf(def, row) ==
  [i \in DOMAIN def.groupBy |-> ServerBucketValue(row[def.groupBy[i].field], def.groupBy[i])]

ServerBuckets(def, rows) ==
  LET joined[i \in 0..Len(rows)] ==
        IF i = 0 THEN << >> ELSE Join(joined[i - 1], rows[i], ServerKeyOf(def, rows[i]))
  IN joined[Len(rows)]

\* Only a count, whole or distinct, looks at rows without a number; texts that read as
\* numbers are numbers, and "*" names no column.
ServerComputeMetric(m, rows) ==
  LET values == [i \in DOMAIN rows |-> IF m.field = "*" THEN NULL ELSE rows[i][m.field]]
  IN CASE m.aggregation = "none" -> <<0, 1>>
       [] m.aggregation \in {"count", "countDistinct"} -> Aggregate(m.aggregation, values, "number")
       [] OTHER -> Aggregate(m.aggregation, [i \in DOMAIN rows |-> TryToDouble(values[i])], "number")
ServerMetricsRow(def, rows) ==
  [k \in {def.metrics[i].alias : i \in DOMAIN def.metrics} |->
     ServerComputeMetric(def.metrics[SelectLastInSeq(def.metrics, LAMBDA m : m.alias = k)], rows)]
ServerDimensionsRow(def, bucket) ==
  [k \in {def.groupBy[i].field : i \in DOMAIN def.groupBy} |->
     bucket.key[SelectLastInSeq(def.groupBy, LAMBDA g : g.field = k)]]
ServerGroupRow(def, bucket) ==
  ServerAddCalcs(Assigned(ServerDimensionsRow(def, bucket), ServerMetricsRow(def, bucket.rows)),
                 CalcsOf(def, "aggregate"))

\* Every column, hidden or not, and no calculated field.
ServerProjectFlatRow(def, row) ==
  [k \in {c.field : c \in ToSet(def.columns)} |-> IF k \in DOMAIN row THEN row[k] ELSE NULL]

(* ------------------------------------ sorting ---------------------------------------- *)
Digits[n \in Nat] == IF n < 10 THEN <<n>> ELSE Append(Digits[n \div 10], n % 10)
\* Numbers by their text: a sign first, then digits, then what is behind the point.
TextLess(x, y) ==
  LET whole(z) == Digits[AbsInt(Truncate(z)[1])]
      close(z) == <<AbsInt(z[1]), z[2]>>
  IN IF (x[1] < 0) # (y[1] < 0) THEN x[1] < 0
     ELSE IF whole(x) = whole(y) THEN FractionLess(close(x), close(y))
     ELSE LexLess(whole(x), whole(y))

\* A calculated field is neither a metric nor a field of the model: it is compared as text.
\* What is not a number is not shown here.
ServerCellBefore(def, s, a, b) ==
  LET aliases == {m.alias : m \in ToSet(def.metrics)}
      type == IF s.field \in aliases THEN "number" ELSE FieldType[s.field]
      less(x, y) == IF s.field \in aliases \cup DOMAIN FieldType THEN CellLess(type, x, y)
                    ELSE TextLess(x, y)
      before(x, y) == IF x = NULL \/ y = NULL THEN x # NULL /\ y = NULL
                      ELSE less(x, y)
  IN IF s.direction = "desc" THEN before(b, a) ELSE before(a, b)

\* A key without a priority has its place in the list instead.
ServerKeyBefore(sorting, i, j) ==
  LET rank(k) == IF sorting[k].priority = NULL THEN k - 1 ELSE sorting[k].priority
  IN rank(i) < rank(j) \/ (rank(i) = rank(j) /\ i < j)

ServerRowBefore(def, rows, i, j) ==
  LET keys == def.sorting
      before(n, x, y) == ServerCellBefore(def, keys[n], Cell(rows[x], keys[n].field),
                                                        Cell(rows[y], keys[n].field))
      first(apart) == CHOOSE n \in apart : \A m \in apart \ {n} : ServerKeyBefore(keys, n, m)
      decided(apart) == IF apart = {} THEN i < j ELSE before(first(apart), i, j)
  IN decided({n \in DOMAIN keys : before(n, i, j) \/ before(n, j, i)})

ServerStableSort(def, rows) ==
  LET places == DOMAIN rows
      order == InOrder(Len(rows), {p \in places \X places : ServerRowBefore(def, rows, p[1], p[2])})
  IN IF def.sorting = << >> THEN rows ELSE [i \in places |-> rows[order[i]]]

(* ---------------------------------- the query ----------------------------------------- *)
ExecuteAsync(def, data) ==
  LET calculated(rows) ==
        [i \in DOMAIN rows |-> ServerAddCalcs(rows[i], CalcsOf(def, "row"))]
      grouped(bs) == [i \in DOMAIN bs |-> ServerGroupRow(def, bs[i])]
      result(rows) ==
        IF def.groupBy # << >> THEN grouped(ServerBuckets(def, rows))
        ELSE IF def.metrics # << >>
        THEN <<ServerAddCalcs(ServerMetricsRow(def, rows), CalcsOf(def, "aggregate"))>>
        ELSE [i \in DOMAIN rows |-> ServerProjectFlatRow(def, rows[i])]
  IN Page(def, ServerStableSort(def, result(calculated(ServerFilterRows(def, data)))))
====================================================================================
