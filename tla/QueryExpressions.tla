----------------------------- MODULE QueryExpressions -----------------------------
(* Calculated fields of a report: an infix expression, already split into tokens, is *)
(* turned into postfix by a shunting yard and the postfix is run on a stack.         *)
(* Numbers are exact fractions <<numerator, denominator>> in lowest terms.           *)
EXTENDS Integers, Sequences, SequencesExt

CONSTANTS NULL,   \* the cell without a value
          NaN     \* the number that is not one
ASSUME NaNIsNotNull == NULL # NaN

AbsInt(n) == IF n < 0 THEN -n ELSE n
\* The fraction p / q in lowest terms: q is not zero.
Fraction(p, q) ==
  LET n == IF q < 0 THEN -p ELSE p
      m == AbsInt(q)
      d == CHOOSE e \in 1..m : (e * n) % m = 0 /\ \A f \in 1..(e - 1) : (f * n) % m # 0
  IN <<(d * n) \div m, d>>
Fractions == {x \in Int \X (Nat \ {0}) : Fraction(x[1], x[2]) = x}
Amounts == {NULL, NaN} \cup Fractions
Int2Fraction(n) == <<n, 1>>
IsFinite(x) == x # NaN
FractionLess(x, y) == x[1] * y[2] < y[1] * x[2]
Add(x, y) == Fraction(x[1] * y[2] + y[1] * x[2], x[2] * y[2])
Negate(x) == <<-x[1], x[2]>>
Times(x, y) == Fraction(x[1] * y[1], x[2] * y[2])
Divide(x, y) == Fraction(x[1] * y[2], x[2] * y[1])
Truncate(x) == <<IF x[1] < 0 THEN -((-x[1]) \div x[2]) ELSE x[1] \div x[2], 1>>
Remainder(x, y) == Add(x, Negate(Times(y, Truncate(Divide(x, y)))))
IsZero(x) == x = <<0, 1>>

(* ------------------------------------ tokens --------------------------------------- *)
Num(x) == [kind |-> "num", value |-> x, name |-> ""]
Id(name) == [kind |-> "id", value |-> NULL, name |-> name]
Op(name) == [kind |-> "op", value |-> NULL, name |-> name]
Fn(name) == [kind |-> "fn", value |-> NULL, name |-> name]
Open == [kind |-> "open", value |-> NULL, name |-> "("]
Close == [kind |-> "close", value |-> NULL, name |-> ")"]
Comma == [kind |-> "comma", value |-> NULL, name |-> ","]

Precedence(op) == IF op \in {"+", "-"} THEN 1 ELSE 2

(* ----------------------------------- the yard -------------------------------------- *)
\* The operators above the last open bracket go to the output, the topmost first.
PopToOpen(yard) ==
  LET i == SelectLastInSeq(yard.ops, LAMBDA o : o.kind = "open")
  IN [out |-> yard.out \o Reverse(SubSeq(yard.ops, i + 1, Len(yard.ops))),
      ops |-> SubSeq(yard.ops, 1, i)]
PopOne(yard) == [out |-> Append(yard.out, Last(yard.ops)), ops |-> Front(yard.ops)]
Push(yard, token) == [yard EXCEPT !.ops = Append(@, token)]
Emit(yard, token) == [yard EXCEPT !.out = Append(@, token)]

\* After the bracket is dropped, the function in front of it is applied.
TakeClose(yard) ==
  LET drop(y) == IF y.ops = << >> THEN y ELSE [y EXCEPT !.ops = Front(@)]
      apply(y) == IF y.ops # << >> /\ Last(y.ops).kind = "fn" THEN PopOne(y) ELSE y
  IN apply(drop(PopToOpen(yard)))

\* Mutant: operators that bind exactly as tightly are left for later.
TakeOperatorFromTheRight(yard, token) ==
  LET loose(o) == o.kind # "op" \/ Precedence(o.name) <= Precedence(token.name)
      i == SelectLastInSeq(yard.ops, loose)
  IN [out |-> yard.out \o Reverse(SubSeq(yard.ops, i + 1, Len(yard.ops))),
      ops |-> Append(SubSeq(yard.ops, 1, i), token)]
\* Operators that bind as tightly, or more tightly, are done before this one.
TakeOperator(yard, token) ==
  LET loose(o) == o.kind # "op" \/ Precedence(o.name) < Precedence(token.name)
      i == SelectLastInSeq(yard.ops, loose)
  IN [out |-> yard.out \o Reverse(SubSeq(yard.ops, i + 1, Len(yard.ops))),
      ops |-> Append(SubSeq(yard.ops, 1, i), token)]

TakeToken(yard, token) ==
  CASE token.kind \in {"num", "id"} -> Emit(yard, token)
    [] token.kind \in {"fn", "open"} -> Push(yard, token)
    [] token.kind = "close" -> TakeClose(yard)
    [] token.kind = "comma" -> PopToOpen(yard)
    [] OTHER -> TakeOperator(yard, token)

Postfix(tokens) ==
  LET yard[i \in 0..Len(tokens)] ==
        IF i = 0 THEN [out |-> << >>, ops |-> << >>] ELSE TakeToken(yard[i - 1], tokens[i])
      rest(last) == last.out \o Reverse(last.ops)
  IN rest(yard[Len(tokens)])
\* An identifier stands for the number of the row that it names.
Resolved(post, scope) ==
  [i \in DOMAIN post |-> IF post[i].kind = "id" THEN Num(scope[post[i].name]) ELSE post[i]]

(* ------------------------------- the stack machine ---------------------------------- *)
\* Taking from an empty stack gives undefined, and arithmetic on it is not a number.
Top(stack, i) == IF Len(stack) >= i THEN stack[Len(stack) - i + 1] ELSE NaN
Below(stack, n) == SubSeq(stack, 1, IF Len(stack) > n THEN Len(stack) - n ELSE 0)

\* Math.round: halves go up.
RoundUp(x) == IF x = NaN THEN NaN ELSE <<(2 * x[1] + x[2]) \div (2 * x[2]), 1>>
\* Math.Round: halves go to the even neighbour.
RoundToEven(x) ==
  LET up == RoundUp(x) IN
  IF x # NaN /\ x[2] = 2 /\ up[1] % 2 = 1 THEN <<up[1] - 1, 1>> ELSE up
Absolute(x) == IF x = NaN THEN NaN ELSE <<AbsInt(x[1]), x[2]>>

ApplyBinary(op, a, b) ==
  IF a = NaN \/ b = NaN \/ (op \in {"%", "/"} /\ IsZero(b)) THEN NaN
  ELSE CASE op = "+" -> Add(a, b)
         [] op = "-" -> Add(a, Negate(b))
         [] op = "*" -> Times(a, b)
         [] op = "%" -> Remainder(a, b)
         [] OTHER -> Divide(a, b)

ApplyFunction(fn, stack) ==
  LET a == Top(stack, 2)
      b == Top(stack, 1)
  IN CASE fn = "round" -> Append(Below(stack, 1), RoundUp(b))
       [] fn = "abs" -> Append(Below(stack, 1), Absolute(b))
       [] fn = "coalesce" -> Append(Below(stack, 2), IF IsFinite(a) THEN a ELSE b)
       [] OTHER -> Append(Below(stack, 2), ApplyBinary("/", a, b))

\* hadDiv is set by the operators / and %, and not by ratio.
RunToken(machine, token) ==
  CASE token.kind = "num" -> [machine EXCEPT !.stack = Append(@, token.value)]
    [] token.kind = "fn" -> [machine EXCEPT !.stack = ApplyFunction(token.name, @)]
    [] OTHER ->
         [stack |-> Append(Below(machine.stack, 2),
                           ApplyBinary(token.name, Top(machine.stack, 2), Top(machine.stack, 1))),
          hadDiv |-> machine.hadDiv \/ token.name \in {"/", "%"}]

\* An identifier must name a number of the row: a cell without a value is not one.
Missing(tokens, scope) ==
  \E i \in DOMAIN tokens : tokens[i].kind = "id" /\ tokens[i].name \notin DOMAIN scope

\* A bracket that is never closed ends up among the operators, and is not one.
Unclosed(tokens) ==
  LET post == Postfix(tokens) IN \E i \in DOMAIN post : post[i].kind = "open"

\* The machine after the whole postfix.
Run(post) ==
  LET ran[i \in 0..Len(post)] ==
        IF i = 0 THEN [stack |-> << >>, hadDiv |-> FALSE] ELSE RunToken(ran[i - 1], post[i])
  IN ran[Len(post)]
\* evalExpression; it throws when Missing or Unclosed holds.
EvalExpression(tokens, scope) ==
  LET result(stack, hadDiv) ==
        IF stack = << >> \/ (hadDiv /\ Top(stack, 1) = NaN) THEN NULL ELSE Top(stack, 1)
      at(end) == result(end.stack, end.hadDiv)
  IN at(Run(Resolved(Postfix(tokens), scope)))

\* The arguments a token takes, and expressions that leave no bracket open and no token
\* without its arguments.
Needs(token) ==
  CASE token.kind \in {"num", "id"} -> 0
    [] token.kind = "fn" /\ token.name \in {"round", "abs"} -> 1
    [] OTHER -> 2
WellFormed(tokens) ==
  LET post == Postfix(tokens)
      depth[i \in 0..Len(post)] == IF i = 0 THEN 0 ELSE depth[i - 1] + 1 - Needs(post[i])
  IN \A i \in 1..Len(post) : post[i].kind # "open" /\ Needs(post[i]) <= depth[i - 1]

(* -------------------------------- the server's machine ------------------------------ *)
\* ratio sets hadDiv; round goes to the even neighbour; an empty stack throws and so
\* does an open bracket, which the caller turns into null.
ServerRunToken(machine, token) ==
  IF token.kind = "open" \/ Len(machine.stack) < Needs(token) THEN [machine EXCEPT !.fault = TRUE]
  ELSE CASE token.kind = "num" -> [machine EXCEPT !.stack = Append(@, token.value)]
         [] token.kind = "fn" /\ token.name = "round" ->
              [machine EXCEPT !.stack = Append(Below(@, 1), RoundToEven(Top(@, 1)))]
         [] token.kind = "fn" /\ token.name # "round" ->
              [machine EXCEPT !.stack = ApplyFunction(token.name, @),
                              !.hadDiv = @ \/ token.name = "ratio"]
         [] OTHER ->
              [machine EXCEPT !.stack = Append(Below(@, 2),
                                          ApplyBinary(token.name, Top(@, 2), Top(@, 1))),
                              !.hadDiv = @ \/ token.name \in {"/", "%"}]
ServerRun(post) ==
  LET ran[i \in 0..Len(post)] ==
        IF i = 0 THEN [stack |-> << >>, hadDiv |-> FALSE, fault |-> FALSE]
        ELSE ServerRunToken(ran[i - 1], post[i])
  IN ran[Len(post)]
ServerEvalExpression(tokens, scope) ==
  LET result(stack, hadDiv) ==
        IF stack = << >> \/ (hadDiv /\ Top(stack, 1) = NaN) THEN NULL ELSE Top(stack, 1)
      at(end) == IF end.fault THEN NULL ELSE result(end.stack, end.hadDiv)
  IN IF Missing(tokens, scope) THEN NULL ELSE at(ServerRun(Resolved(Postfix(tokens), scope)))
====================================================================================
