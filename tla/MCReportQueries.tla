------------------------------ MODULE MCReportQueries ------------------------------
(* Small datasets and reports for ReportQueries, and the meaning of an expression. *)
EXTENDS ReportQueries

(* --------------------------- what an expression means ------------------------------- *)
\* A tree is a leaf, a token, or [fn |-> name, args |-> trees]; an operator is a
\* function of two arguments.
Leaf(token) == [fn |-> "leaf", token |-> token, args |-> << >>]
Node(fn, args) == [fn |-> fn, token |-> Open, args |-> args]
IsOperator(tree) == tree.fn \in {"+", "-", "*", "/", "%"}

Bracketed(tokens) == <<Open>> \o tokens \o <<Close>>
\* The text of a tree with no bracket that the usual rules make superfluous.
RECURSIVE TextOf(_)
TextOf(tree) ==
  LET strength(t) == IF IsOperator(t) THEN Precedence(t.fn) ELSE 3
      side(t, least) == IF strength(t) < least THEN Bracketed(TextOf(t)) ELSE TextOf(t)
  IN CASE tree.fn = "leaf" -> <<tree.token>>
       [] IsOperator(tree) ->
            side(tree.args[1], strength(tree)) \o <<Op(tree.fn)>>
              \o side(tree.args[2], strength(tree) + 1)
       [] Len(tree.args) = 1 -> <<Fn(tree.fn)>> \o Bracketed(TextOf(tree.args[1]))
       [] OTHER -> <<Fn(tree.fn)>>
                     \o Bracketed(TextOf(tree.args[1]) \o <<Comma>> \o TextOf(tree.args[2]))

RECURSIVE Meaning(_, _)
Meaning(tree, scope) ==
  LET arg(i) == Meaning(tree.args[i], scope)
  IN CASE tree.fn = "leaf" ->
            IF tree.token.kind = "id" THEN scope[tree.token.name] ELSE tree.token.value
       [] tree.fn = "round" -> RoundUp(arg(1))
       [] tree.fn = "abs" -> Absolute(arg(1))
       [] tree.fn = "coalesce" -> IF arg(1) = NaN THEN arg(2) ELSE arg(1)
       [] tree.fn = "ratio" -> ApplyBinary("/", arg(1), arg(2))
       [] OTHER -> ApplyBinary(tree.fn, arg(1), arg(2))

\* A calculated field has the value its expression means under the usual rules of
\* precedence and association, and shows no number where a division by zero leaves none
\* (evalExpression: shunting yard and stack).
ExpressionMeansItsTree ==
  (stage = "sort" /\ def.groupBy = << >>) =>
    \A c \in ToSet(CalcsOf(def, "aggregate")) : \A i \in DOMAIN out :
      LET shows(meant) == out[i][c.alias] = meant \/ (meant = NaN /\ out[i][c.alias] = NULL)
      IN shows(Meaning(c.tree, Numbers(Whole, {})))

\* What the theorems about totals and about the two engines ask of the questions.
ASSUME TotalsAssumption == QuestionsAreAdditive
ASSUME PortableAssumption == QuestionsArePortable

(* ----------------------------------- datasets ---------------------------------------- *)

MCToday == <<2025, 6, 1>>
MCFieldType == [region |-> "string", day |-> "date", amount |-> "number"]
MCNullText == <<0>>

(* A region whose name begins with the other's, a text that both engines read as 10, and
   one, "1,0", that only the server does; the year of a day reads as a number too. *)
North == <<2>>
NorthEast == <<3>>
Ten == <<1>>
Parted == <<4>>
MCNumerals == (Ten :> <<10, 1>>) @@ (<<2025, 0, 0>> :> <<2025, 1>>)
MCServerNumerals == MCNumerals @@ (Parted :> <<10, 1>>)

(* Rows: the two regions, days around the turn of two years and in one spring, amounts that
   differ as numbers and as texts (2, 10), and each cell missing once. *)
Cells(region, day, amount) == [region |-> region, day |-> day, amount |-> amount]
MCRow ==
  {Cells(North, <<2024, 12, 29>>, <<2, 1>>), Cells(North, <<2024, 12, 31>>, <<10, 1>>),
   Cells(NorthEast, <<2025, 1, 1>>, <<3, 1>>), Cells(NULL, NULL, <<4, 1>>),
   Cells(North, <<2025, 3, 31>>, NULL),
   Cells(NorthEast, <<2027, 1, 3>>, <<-5, 1>>)}
Texts == UNION {{row[k] : k \in DOMAIN row} : row \in MCRow} \ {NULL}
MCTextTest ==
  UNION {{<<test, v, v>> : v \in Texts \cup {<<3, 1>>}} : test \in {"contains", "startsWith", "endsWith"}}
    \cup {<<test, NorthEast, North>> : test \in {"contains", "startsWith"}}
MCData == BoundedSeq(MCRow, 3)
MCFewRows == {<< >>, <<Cells(North, NULL, <<3, 1>>), Cells(NorthEast, NULL, <<4, 1>>)>>}

Literal(field, operator, value) ==
  [field |-> field, operator |-> operator, value |-> value, value2 |-> NULL, values |-> NULL,
   dynamic |-> NULL]
Between(low, high) == [Literal("amount", "between", low) EXCEPT !.value2 = high]
Relative(operator, token, months, days) ==
  [Literal("day", operator, NULL) EXCEPT
     !.dynamic = [token |-> token, offsetMonths |-> months, offsetDays |-> days]]
Listed(operator, values) == [Literal("region", operator, NULL) EXCEPT !.values = values]

Is(f) == [logic |-> "is", filter |-> f, conditions |-> {}]
Of(logic, conditions) == [logic |-> logic, filter |-> NULL, conditions |-> conditions]
Nested == <<Is(Literal("region", "isNull", NULL)), Is(Literal("amount", "gte", <<3, 1>>)),
            Is(Literal("region", "eq", NorthEast)), Of("and", {2, 3}), Of("or", {1, 4})>>

By(field, bucket) == [field |-> field, dateBucket |-> bucket]
Measure(aggregation, field, alias) == [aggregation |-> aggregation, field |-> field, alias |-> alias]
Key(field, direction, priority) == [field |-> field, direction |-> direction, priority |-> priority]
Shown(field) == [field |-> field, visible |-> TRUE]
Calc(scope, tree) ==
  [alias |-> "calc", scope |-> scope, tree |-> tree, expression |-> TextOf(tree)]

Plain ==
  [filters |-> << >>, filterGroup |-> NULL, groupBy |-> << >>, metrics |-> << >>,
   calculatedFields |-> << >>, columns |-> <<Shown("region"), Shown("amount")>>,
   sorting |-> << >>, limit |-> NULL, offset |-> 0, drilldown |-> "none", target |-> NULL,
   drillOperator |-> NULL]

Totals == <<Measure("sum", "amount", "total"), Measure("count", "*", "lines"),
            Measure("avg", "amount", "mean"), Measure("countDistinct", "day", "days")>>
Extremes == <<Measure("min", "amount", "least"), Measure("max", "amount", "most"),
              Measure("none", "amount", "first")>>
Share == Node("/", <<Leaf(Id("total")), Leaf(Id("lines"))>>)

FiltersOfAReport ==
  {<< >>, <<Literal("amount", "gt", <<2, 1>>), Literal("region", "neq", NorthEast)>>,
   <<Relative("gte", "startOfMonth", -3, 1), Between(<<-5, 1>>, <<4, 1>>)>>,
   <<Listed("in", {North, NorthEast}), Literal("day", "isNotNull", NULL)>>}
Dimensions ==
  {<<By("region", "none")>>, <<By("region", "none"), By("day", "month")>>,
   <<By("day", "week")>>, <<By("day", "quarter"), By("region", "none")>>, <<By("day", "day")>>}
Orders ==
  {<< >>, <<Key("total", "desc", NULL)>>,
   <<Key("region", "asc", 2), Key("total", "desc", 1)>>,
   <<Key("day", "asc", NULL), Key("calc", "desc", NULL)>>}

Grouped ==
  {[Plain EXCEPT !.filters = f, !.groupBy = g, !.sorting = s, !.metrics = Totals,
                 !.calculatedFields = <<Calc("aggregate", Share)>>, !.drilldown = "inline"] :
     f \in FiltersOfAReport, g \in Dimensions, s \in Orders}
Aimed ==
  {[g EXCEPT !.drilldown = "target",
             !.target = [Plain EXCEPT !.filters = f, !.sorting = <<Key("amount", "asc", NULL)>>]] :
     g \in {h \in Grouped : h.sorting = << >> /\ h.groupBy = <<By("region", "none")>>},
     f \in FiltersOfAReport}
\* Reports that drill with an operator of their own.
Drilled ==
  {[Plain EXCEPT !.filters = <<Literal("amount", "gte", <<3, 1>>)>>, !.groupBy = <<g, By("amount", "none")>>,
                 !.metrics = Totals, !.drilldown = "inline", !.drillOperator = operator] :
     g \in {By("region", "none"), By("day", "day"), By("day", "quarter")},
     operator \in {"contains", "gte", "lt", "neq", "notIn"}}
(* What the filter bar of the viewer sends: a text for a number, a day with its time, or
   nothing; and the texts of a region. *)
Noon(day) == Append(day, 43200)
Barred ==
  {[Plain EXCEPT !.filters = <<f>>, !.sorting = <<Key("amount", "asc", NULL)>>] :
     f \in {Literal("amount", operator, value) : operator \in {"eq", "gte", "lt"}, value \in {Ten, Parted, North, NULL}}
       \cup {Literal("day", operator, value) :
                operator \in {"eq", "gte", "lte"}, value \in {Noon(<<2025, 1, 1>>), <<2025, 0, 0>>, NULL}}
       \cup {Literal("region", operator, value) :
                operator \in {"eq", "contains", "notContains", "startsWith"}, value \in {North, <<10, 1>>, NULL}}}
Others ==
  {[Plain EXCEPT !.metrics = Extremes, !.groupBy = <<By("day", "year")>>, !.limit = 2],
   [Plain EXCEPT !.metrics = Totals, !.filterGroup = Nested, !.groupBy = <<By("region", "none")>>,
                 !.drilldown = "inline"],
   [Plain EXCEPT !.metrics = Totals, !.limit = 1],
   [Plain EXCEPT !.sorting = <<Key("amount", "desc", NULL), Key("region", "asc", NULL)>>,
                 !.limit = 2, !.offset = 1],
   [Plain EXCEPT !.columns = <<Shown("day"), [field |-> "amount", visible |-> FALSE]>>,
                 !.sorting = <<Key("day", "asc", 1), Key("amount", "asc", NULL)>>],
   [Plain EXCEPT !.calculatedFields =
                   <<Calc("row", Node("*", <<Leaf(Id("amount")), Leaf(Num(<<2, 1>>))>>))>>],
   [Plain EXCEPT !.filters = <<Listed("notIn", {North})>>, !.sorting = <<Key("day", "desc", NULL)>>]}

(* Expressions over a sum, a count and a number, up to three operators deep. *)
Leaves == {Leaf(Id("total")), Leaf(Id("lines")), Leaf(Num(<<2, 1>>))}
Binary(op, left, right) == {Node(op, <<l, r>>) : l \in left, r \in right}
Arithmetic(left, right) == UNION {Binary(op, left, right) : op \in {"-", "*", "/", "%"}}
Simple == Arithmetic(Leaves, Leaves)
Called ==
  {Node(fn, <<t>>) : fn \in {"round", "abs"}, t \in Simple}
    \cup UNION {Binary(fn, Leaves \cup Binary("/", Leaves, Leaves), Leaves) : fn \in {"coalesce", "ratio"}}
Tree == LET some == Simple \cup Called
        IN Leaves \cup some \cup Arithmetic(some, Leaves) \cup Arithmetic(Leaves, some)
             \cup Arithmetic(Simple, {Node("-", <<Leaf(Id("total")), Leaf(Id("lines"))>>)})
Calculated ==
  {[Plain EXCEPT !.metrics = <<Measure("sum", "amount", "total"), Measure("count", "*", "lines")>>,
                 !.calculatedFields = <<Calc("aggregate", t)>>] : t \in Tree}

MCDefinition ==
  LET asked == Grouped \cup Aimed \cup Drilled \cup Barred \cup Others \cup Calculated
  IN asked \cup {d.target : d \in Aimed}
MCQuestion == ((Grouped \cup Aimed \cup Drilled \cup Barred \cup Others) \X MCData) \cup (Calculated \X MCFewRows)
====================================================================================
