------------------------------- MODULE ReportQueries -------------------------------
(* One report, run stage by stage over one dataset, and the drill-down a click on a    *)
(* row of its result opens.                                                             *)
EXTENDS ServerQueryEngine

CONSTANTS Definition, \* the reports there are
          Question    \* the pairs <<definition, dataset>> that are asked

\* The flat filters are a list, and a drill-down with a target opens another report.
IsReport(d) ==
  /\ {"filters", "filterGroup", "groupBy", "drilldown", "drillOperator", "target"} \subseteq DOMAIN d
  /\ d.filters \in Seq(ToSet(d.filters))
  /\ d.drilldown = "target" => d.target \in Definition
ASSUME DefinitionAssumption == \A d \in Definition : IsReport(d)

\* A dataset is a list of rows, whose days are dates, or missing.
ASSUME QuestionAssumption ==
  /\ {q[1] : q \in Question} \subseteq Definition
  /\ \A q \in Question : q[2] \in Seq(ToSet(q[2]))
  /\ \A q \in Question : \A i \in DOMAIN q[2] : q[2][i].day \in Date \cup {NULL}

\* Every text of a dataset holds itself, begins with itself and ends with itself.
ASSUME TextTestAssumption ==
  \A q \in Question : \A i \in DOMAIN q[2] : \A k \in DOMAIN q[2][i] :
    q[2][i][k] # NULL =>
      \A test \in {"contains", "startsWith", "endsWith"} : <<test, q[2][i][k], q[2][i][k]>> \in TextTest

\* Reports that show every total under a name of its own, over fields of the model; and
\* rows that have those fields, numbers for numbers, and no text that reads as a missing one.
Additive(d) ==
  /\ {"groupBy", "metrics", "calculatedFields", "filters", "drilldown"} \subseteq DOMAIN d
  /\ \A k \in {"groupBy", "metrics", "calculatedFields"} : d[k] \in Seq(ToSet(d[k]))
  /\ d.drilldown = "target" => d.target \in Definition
  /\ \A g \in ToSet(d.groupBy) : g.field \in DOMAIN FieldType
  /\ \A m \in ToSet(d.metrics) : m.field \in DOMAIN FieldType \cup {"*"}
  /\ \A m, n \in ToSet(d.metrics) : m.alias = n.alias => m = n
  /\ \A c \in ToSet(d.calculatedFields) :
       c.alias \notin DOMAIN FieldType \cup {m.alias : m \in ToSet(d.metrics)}
PlainRow(row) ==
  /\ DOMAIN FieldType \subseteq DOMAIN row
  /\ \A k \in DOMAIN FieldType : FieldType[k] = "number" => row[k] \in Amounts
  /\ \A g \in UNION {ToSet(d.groupBy) : d \in Definition} : BucketValue(row[g.field], g) # NullText
QuestionsAreAdditive ==
  /\ \A d \in Definition : Additive(d)
  /\ \A row \in UNION {ToSet(q[2]) : q \in Question} : PlainRow(row)

\* Reports that leave nothing open: a month that is counted to has the day, every operator
\* its arguments, and a report is sorted by what it has; and rows with numbers, dates and
\* texts for the fields of each type, no text of which reads as a missing one.
MonthHasTheDay(dv) ==
  LET in(month) == TokenDate(dv.token)[3] <= MonthLength(month[1], month[2])
  IN dv.offsetMonths \in Int /\ dv.offsetDays \in Int
       /\ in(MonthsFrom(TokenDate(dv.token), dv.offsetMonths))
Portable(d) ==
  /\ {"groupBy", "metrics", "calculatedFields", "columns", "filters", "sorting", "drilldown"}
       \subseteq DOMAIN d
  /\ \A k \in {"groupBy", "metrics", "calculatedFields", "columns", "filters", "sorting"} :
       d[k] \in Seq(ToSet(d[k]))
  /\ d.drilldown = "target" => d.target \in Definition
  /\ \A f \in ToSet(d.filters) : f.dynamic # NULL => MonthHasTheDay(f.dynamic)
  /\ \A c \in ToSet(d.calculatedFields) :
       c.expression \in Seq(ToSet(c.expression)) /\ WellFormed(c.expression)
  /\ \A s \in ToSet(d.sorting) :
       /\ s.priority \in Int \cup {NULL}
       /\ s.field \in DOMAIN FieldType \cup {m.alias : m \in ToSet(d.metrics)}
                        \cup {c.alias : c \in ToSet(d.calculatedFields)}
TypedRow(row) ==
  /\ \A k \in DOMAIN FieldType :
       /\ FieldType[k] = "number" => row[k] \in Fractions \cup {NULL}
       /\ FieldType[k] = "date" => row[k] \in Date \cup {NULL}
       /\ FieldType[k] # "number" => IsString(row[k]) \/ row[k] = NULL
  /\ \A g \in UNION {ToSet(d.groupBy) : d \in Definition} :
       g.field \in DOMAIN FieldType /\ BucketValue(row[g.field], g) # NullText
QuestionsArePortable ==
  /\ Today \in Date /\ {NULL, NaN} \cap Fractions = {} /\ "*" \notin DOMAIN FieldType
  /\ \A d \in Definition : Portable(d)
  /\ \A row \in UNION {ToSet(q[2]) : q \in Question} : TypedRow(row)

VARIABLES data,      \* the rows of the dataset
          def,       \* the definition being run
          stage,     \* the step of runQuery that comes next, "done" or "failed"
          rows,      \* the rows that passed the filter, with their calculated fields
          out,       \* the rows of the result so far
          groups,    \* the first dimension of each group, in the order of the groups
          buckets,   \* the rows by their key
          parent     \* what was clicked: << >> or <<[def, row, value]>>
vars == <<data, def, stage, rows, buckets, out, groups, parent>>

Init ==
  /\ \E q \in Question : def = q[1] /\ data = q[2]
  /\ stage = "filter"
  /\ rows = << >> /\ buckets = << >> /\ out = << >> /\ groups = << >>
  /\ parent = << >>

Filter ==
  /\ stage = "filter"
  /\ rows' = FilterRows(def, data)
  /\ stage' = "calculate"
  /\ UNCHANGED <<data, def, buckets, out, groups, parent>>

\* One row that cannot be computed fails the query.
Thrown(made) == \E i \in DOMAIN made : made[i].thrown
RowsOf(made) == [i \in DOMAIN made |-> made[i].row]
KeepRows(made) ==
  IF Thrown(made) THEN stage' = "failed" /\ UNCHANGED rows
  ELSE stage' = "group" /\ rows' = RowsOf(made)
Calculate ==
  /\ stage = "calculate"
  /\ KeepRows([i \in DOMAIN rows |-> RowCalcs(def, rows[i])])
  /\ UNCHANGED <<data, def, buckets, out, groups, parent>>

Group ==
  /\ stage = "group"
  /\ buckets' = Buckets(def, rows)
  /\ stage' = "aggregate"
  /\ UNCHANGED <<data, def, rows, out, groups, parent>>

KeepResult(made) ==
  IF Thrown(made) THEN stage' = "failed" /\ UNCHANGED <<out, groups>>
  ELSE stage' = "sort" /\ out' = RowsOf(made) /\ groups' = GroupNodes(def, buckets)
AggregateRows ==
  /\ stage = "aggregate"
  /\ KeepResult(OutRows(def, rows, buckets))
  /\ UNCHANGED <<data, def, rows, buckets, parent>>

Sort ==
  /\ stage = "sort"
  /\ out' = StableSort(def, out)
  /\ stage' = "cut"
  /\ UNCHANGED <<data, def, rows, buckets, groups, parent>>

Cut ==
  /\ stage = "cut"
  /\ out' = Page(def, out)
  /\ stage' = "done"
  /\ UNCHANGED <<data, def, rows, buckets, groups, parent>>

\* A renderer finds the group of the row that was clicked by the place of the row.
Click(i) ==
  /\ stage = "done" /\ def.drilldown # "none"
  /\ i \in DOMAIN out /\ i \in DOMAIN groups
  /\ def' = BuildDrilldownDefinition(def, groups[i])
  /\ parent' = <<[def |-> def, row |-> out[i], value |-> groups[i]]>>
  /\ stage' = "filter"
  /\ rows' = << >> /\ buckets' = << >> /\ out' = << >> /\ groups' = << >>
  /\ UNCHANGED data

Next ==
  \/ Filter \/ Calculate \/ Group \/ AggregateRows \/ Sort \/ Cut \/ \E i \in DOMAIN groups : Click(i)
Spec == Init /\ [][Next]_vars

(* ------------------------------------ invariants -------------------------------------- *)
\* A group shows one value for each of its dimensions, and every row of the group has it:
\* no row is counted under a value it does not have (keyOf and the bucket's first row).
GroupsAreUniform ==
  \A i \in DOMAIN buckets : \A j \in DOMAIN buckets[i].rows :
    DimensionsRow(def, buckets[i].rows[j]) = DimensionsRow(def, buckets[i].rows[1])

\* Every row is counted once and under its own values: the counts and the sums of the groups
\* add up to those of the same report without its groups, and the groups are uniform,
\* whatever dates are missing and however the groups are cut (runQuery, engine.ts).
Whole == MetricsRow(def, rows)
TotalsAddUp ==
  (stage = "sort" /\ def.groupBy # << >>) =>
    /\ GroupsAreUniform
    /\ \A m \in ToSet(def.metrics) :
         m.aggregation \in {"count", "sum"} =>
           SumOf([i \in DOMAIN out |-> out[i][m.alias]]) = Whole[m.alias]

\* Weeks follow the calendar across the turn of a year: days of one week, from Monday to
\* Sunday, fall into one bucket, and the bucket of a later week is the greater one.
Monday(date) == DayNumber(date) - Weekday(DayNumber(date))
WeeksFollowTheCalendar ==
  \A i, j \in DOMAIN data :
    stage = "filter" /\ data[i].day # NULL /\ data[j].day # NULL =>
      LET follow(a, b, m, n) == /\ (a = b) <=> (m = n)
                                /\ LexLess(a, b) <=> (m < n)
      IN follow(DateBucketKey(data[i].day, "week"), DateBucketKey(data[j].day, "week"),
                Monday(data[i].day), Monday(data[j].day))

\* The drill-down of a group keeps the filters of the report it opens, its own or the
\* target's, whatever operator it is opened with; for groups by a value that is present, it
\* narrows them to the rows of that group when the operator is eq, and loses none of them
\* when it is another one that holds of a value and itself (buildDrilldownDefinition).
OpenedReport(d) == IF d.drilldown = "target" THEN d.target ELSE d
DrillsByValue(p) ==
  p.value \notin {NULL, NaN} /\ p.def.groupBy[1].dateBucket \in {"none", "day"}
HoldsOfItself == {"eq", "gte", "lte", "contains", "startsWith", "endsWith"}
DrillShowsItsGroup ==
  (stage = "calculate" /\ parent # << >> /\ OpenedReport(parent[1].def).filterGroup = NULL) =>
    LET p == parent[1]
        g == p.def.groupBy[1]
        all == {row \in ToSet(data) : Selected(OpenedReport(p.def), row)}
        group == {row \in all : BucketValue(row[g.field], g) = p.value}
    IN /\ ToSet(rows) \subseteq all
       /\ DrillsByValue(p) /\ DrillOperator(p.def) = "eq" => rows = Among(data, group)
       /\ DrillsByValue(p) /\ DrillOperator(p.def) \in HoldsOfItself =>
            \A row \in group : g.field \in DOMAIN row => row \in ToSet(rows)

\* The server's engine gives the rows that the browser's engine gives, for the
\* definitions both read alike: flat filters other than in and notIn, by values of the type
\* of their fields, where a text that reads as a number is of neither type; columns shown
\* and not calculated; aggregates of numbers, and counts; priorities given to all keys or to
\* none, and no key that is calculated; expressions without round, and a ratio that exists
\* (ExecuteAsync, QueryEngine.cs).
OfItsType(f, v) ==
  IF FieldType[f.field] = "number" THEN v \in Fractions
  ELSE IsString(v) /\ v \notin DOMAIN ServerNumerals
SharedFilter(f) ==
  /\ f.field \in DOMAIN FieldType /\ f.operator \notin {"in", "notIn"}
  /\ f.operator \notin {"isNull", "isNotNull"} => OfItsType(f, ResolveFilterValue(f))
  /\ f.operator \in {"between", "notBetween"} => OfItsType(f, f.value2)
NumberFields == {k \in DOMAIN FieldType : FieldType[k] = "number"}
SharedMetric(m) ==
  \/ m.aggregation = "count"
  \/ m.aggregation = "countDistinct" /\ m.field \in DOMAIN FieldType
  \/ m.aggregation \in {"sum", "avg", "min", "max"} /\ m.field \in NumberFields
Shared(d) ==
  /\ d.filterGroup = NULL
  /\ \A f \in ToSet(d.filters) : SharedFilter(f)
  /\ \A c \in ToSet(d.columns) : c.visible
  /\ \A c \in ToSet(d.calculatedFields) :
       /\ c.scope = "aggregate" /\ (d.metrics # << >>)
       /\ \A s \in ToSet(d.sorting) : s.field # c.alias
       /\ \A t \in ToSet(c.expression) : t.name \notin {"round", "ratio"}
  /\ \A m \in ToSet(d.metrics) : SharedMetric(m)
  /\ \/ \A s \in ToSet(d.sorting) : s.priority = NULL
     \/ \A s \in ToSet(d.sorting) : s.priority # NULL
EnginesAgree == (stage = "done" /\ Shared(def)) => ExecuteAsync(def, data) = out

\* The comment of the server's engine: it ports the engine of the browser faithfully.
FaithfulPort == stage = "done" => ExecuteAsync(def, data) = out

\* The comment of the chart renderer: a clicked datum is mapped back to its group node,
\* so the value that is drilled into is the value of the row that was clicked.
ClickOpensItsRow ==
  parent # << >> => parent[1].row[parent[1].def.groupBy[1].field] = parent[1].value
====================================================================================
