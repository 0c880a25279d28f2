------------------------------- MODULE Visitors -------------------------------
(***************************************************************************)
(* The visitors of src/util/ast_visitors that evaluate an expression,      *)
(* rewrite it, or ask what it contains.  Each is one recursive operator    *)
(* over the trees of Syntax, and where two of them answer one question in  *)
(* two ways, ScalarSolve compares the answers.                             *)
(*                                                                         *)
(* The symbol table maps a name to [prefix, type, value, size]: value is   *)
(* the tree of its modification or NoTree, size 0 stands for a scalar.     *)
(***************************************************************************)
EXTENDS Syntax

CONSTANT Table

(* ERROR: the program ends.  It is also the missing modification of a symbol. *)
NoTree == [kind |-> "Error", args |-> <<>>]
NoValue == [num |-> 0, den |-> 0]

(* A node with new arguments; the program has ended if it ended in one of them. *)
With(e, args) ==
  IF \E k \in DOMAIN args : args[k] = NoTree THEN NoTree ELSE [e EXCEPT !.args = args]

-----------------------------------------------------------------------------
(* Fractions *)
Abs(n) == IF n < 0 THEN -n ELSE n
RECURSIVE GCD(_, _)
GCD(m, n) == IF n = 0 THEN m ELSE GCD(n, (m % n))

(* In lowest terms: g divides both; with n = 0 it is d. *)
Reduced(n, d, g) == [num |-> n \div g, den |-> d \div g]
Fraction(n, d) ==
  IF d = 0 THEN NoValue
  ELSE Reduced(IF d < 0 THEN -n ELSE n, Abs(d), GCD(Abs(n), Abs(d)))
Whole(n) == [num |-> n, den |-> 1]
(* The conversion of a double to int cuts the fraction off. *)
Truncated(v) == IF v.num < 0 THEN -((-v.num) \div v.den) ELSE v.num \div v.den

RECURSIVE PowerOf(_, _)
PowerOf(v, n) ==
  CASE n = 0 -> Whole(1)
    [] n > 0 -> LET p == PowerOf(v, n - 1) IN Fraction(v.num * p.num, v.den * p.den)
    [] n < 0 -> LET p == PowerOf(v, -n) IN Fraction(p.den, p.num)

(* The arithmetic operators.  A power with a broken exponent is never asked for. *)
Arithmetic == {"+", "-", "*", "/", "^"}
Compute(op, l, r) ==
  IF l = NoValue \/ r = NoValue THEN NoValue
  ELSE IF op = "^" THEN IF r.den = 1 THEN PowerOf(l, r.num) ELSE NoValue
  ELSE Fraction(CASE op = "+" -> l.num * r.den + r.num * l.den
                  [] op = "-" -> l.num * r.den - r.num * l.den
                  [] op = "*" -> l.num * r.num
                  [] op = "/" -> l.num * r.den,
                IF op = "/" THEN l.den * r.num ELSE l.den * r.den)
Negated(v) == [v EXCEPT !.num = -@]

-----------------------------------------------------------------------------
(***************************************************************************)
(* Evaluation.                                                             *)
(***************************************************************************)
isDeclared(n)  == n \in DOMAIN Table
isConstant(n)  == Table[n].prefix = "constant"
isParameter(n) == Table[n].prefix = "parameter"

(* A sign before a value; not has none. *)
signed(op, v) == IF op = "-" THEN Negated(v) ELSE IF op = "+" THEN v ELSE NoValue

RECURSIVE EvalExpression(_)
(* Subscripts are not looked at: u[2] is what u is *)
evalReference(e) ==
  IF isDeclared(e.name) /\ Table[e.name].value # NoTree
  THEN EvalExpression(Table[e.name].value) ELSE NoValue

EvalExpression(e) ==
  CASE isNumber(e) -> Fraction(e.num, e.den)
    [] e.kind = "Boolean" -> Whole(IF e.truth THEN 1 ELSE 0)
    [] e.kind = "BinOp" ->
         IF e.op \in Arithmetic
         THEN Compute(e.op, EvalExpression(e.args[1]), EvalExpression(e.args[2])) ELSE NoValue
    [] e.kind = "UnaryOp" -> signed(e.op, EvalExpression(e.args[1]))
    [] e.kind = "Brace" -> Whole(0)
    [] e.kind = "Call" -> IF e.name = "integer" THEN EvalExpression(e.args[1]) ELSE NoValue
    [] e.kind = "Output" -> EvalExpression(e.args[1])
    [] e.kind = "Reference" -> evalReference(e)
    [] e.kind \in {"IfExp", "Range", "ForExp", "SubAll", "SubEnd"} -> NoValue

(* The branch whose condition EvalExpression finds to be 1 *)
ConditionValues(e) ==
  <<EvalExpression(e.args[1])>>
    \o [k \in 1..(Len(e.args) - 3) \div 2 |-> EvalExpression(e.args[2 + 2 * k])]
branchBy(e, values) ==
  LET first == SelectInSeq(values, LAMBDA v : v \in {Whole(1), NoValue})
  IN  CASE first = 0 -> e.args[3]
        [] first > 0 /\ values[first] = NoValue -> NoTree
        [] first = 1 /\ values[1] # NoValue -> e.args[2]
        [] first > 1 /\ values[first] # NoValue -> e.args[1 + 2 * first]
takenBranch(e) == branchBy(e, ConditionValues(e))

RECURSIVE EvalInteger(_)
(* An integer operation; pow gives a double, which is cut off. *)
\* mutant: the quotient is cut off
integerOpCut(op, l, r) ==
  LET v == Compute(op, l, r) IN IF v = NoValue THEN NoValue ELSE Whole(Truncated(v))
integerOp(op, l, r) ==
  LET v == Compute(op, l, r)
  IN  CASE op = "/" -> IF v.den = 1 THEN v ELSE NoValue
        [] op = "^" -> IF v = NoValue THEN NoValue ELSE Whole(Truncated(v))
        [] op \in {"+", "-", "*"} -> v
        [] op \notin Arithmetic -> NoValue

EvalInteger(e) ==
  CASE isNumber(e) -> IF e.den = 1 THEN Whole(e.num) ELSE NoValue
    [] e.kind = "Boolean" -> Whole(IF e.truth THEN 1 ELSE 0)
    [] e.kind = "BinOp" -> integerOp(e.op, EvalInteger(e.args[1]), EvalInteger(e.args[2]))
    [] e.kind = "UnaryOp" -> signed(e.op, EvalInteger(e.args[1]))
    [] e.kind = "IfExp" -> LET b == takenBranch(e) IN IF b = NoTree THEN NoValue ELSE EvalInteger(b)
    [] e.kind = "Call" -> IF e.name = "integer" THEN EvalInteger(e.args[1]) ELSE NoValue
    [] e.kind = "Output" -> EvalInteger(e.args[1])
    [] e.kind = "Reference" ->
         IF e.args = <<>> /\ isDeclared(e.name) /\ Table[e.name].value # NoTree
         THEN EvalInteger(Table[e.name].value) ELSE NoValue
    [] e.kind \in {"Brace", "Range", "ForExp", "SubAll", "SubEnd"} -> NoValue

(* IsInteger: "yes", "no", or the program ends *)
RECURSIVE IsInteger(_)
(* A quotient of two answers: 1 % 1 and 0 % 1 are zero *)
quotientIsInteger(l, r) ==
  CASE l = "error" \/ r = "error" -> "error"
    [] r = "no" -> "no"
    [] r = "yes" /\ l # "error" -> "yes"
both(l, r) ==
  CASE l = "error" -> "error"
    [] l = "no"  -> "no"
    [] l = "yes" -> r

IsInteger(e) ==
  CASE isNumber(e) -> IF e.den = 1 THEN "yes" ELSE "no"
    [] e.kind = "Boolean" -> "yes"
    [] e.kind = "BinOp" ->
         LET l == IsInteger(e.args[1])  r == IsInteger(e.args[2])
         IN  IF e.op \notin Arithmetic THEN "error"
             ELSE IF e.op = "/" THEN quotientIsInteger(l, r) ELSE both(l, r)
    [] e.kind = "UnaryOp" -> IF e.op = "not" THEN "error" ELSE IsInteger(e.args[1])
    [] e.kind = "IfExp" -> LET b == takenBranch(e) IN IF b = NoTree THEN "error" ELSE IsInteger(b)
    [] e.kind = "Call" -> IF e.name = "integer" THEN "yes" ELSE "no"
    [] e.kind = "Output" -> IsInteger(e.args[1])
    [] e.kind = "Reference" ->
         IF isDeclared(e.name) /\ Table[e.name].value # NoTree
         THEN IsInteger(Table[e.name].value) ELSE "error"
    [] e.kind \in {"Brace", "Range", "ForExp", "SubAll", "SubEnd"} -> "no"

RECURSIVE ConstantExpression(_)
ConstantExpression(e) ==
  CASE isNumber(e) \/ e.kind = "Boolean" -> TRUE
    [] e.kind \in {"SubAll", "SubEnd"} -> FALSE
    [] e.kind = "ForExp" -> ConstantExpression(e.args[2])
    [] e.kind = "Reference" -> isDeclared(e.name) /\ isConstant(e.name)
    [] e.kind \in {"BinOp", "UnaryOp", "IfExp", "Range", "Brace", "Call", "Output"} ->
         \A k \in DOMAIN e.args : ConstantExpression(e.args[k])

-----------------------------------------------------------------------------
(***************************************************************************)
(* Rewriting.                                                              *)
(***************************************************************************)
NumberTree(kind, v) == Number(kind, v.num, v.den)
(* A negative number is put in parentheses. *)
Shielded(e) == IF isNumber(e) /\ e.num < 0 THEN Output(e) ELSE e

(* Two numbers are replaced by what EvalExpression makes of them; with two integers the
   result is cut off to an integer.  Only an arithmetic operator is known to it.  A quotient
   by zero or a power with no fraction for its value is a number all the same, inf, nan or
   what the conversion to int makes of them: UnknownNumber stands for it. *)
UnknownNumber(kind) == Number(kind, 1, 0)
numberFor(v, integer) ==
  CASE v = NoValue -> UnknownNumber(IF integer THEN "Integer" ELSE "Real")
    [] v # NoValue /\ integer -> Integer(Truncated(v))
    [] v # NoValue /\ ~integer -> NumberTree("Real", v)
foldNumbers(op, l, r) ==
  IF op \in Arithmetic
  THEN numberFor(EvalExpression(BinOp(l, op, r)), is("Integer", l) /\ is("Integer", r))
  ELSE NoTree

\* mutant: 0 - r is r
neutralPlus(op, l, r) ==
  CASE op \in {"+", "-"} /\ isZero(l) -> r
    [] op \in {"+", "-"} /\ isZero(r) /\ ~isZero(l) -> l
    [] OTHER -> BinOp(l, op, r)
neutral(op, l, r) ==
  CASE op = "+" /\ isZero(l) -> r
    [] op \in {"+", "-"} /\ isZero(r) /\ ~(op = "+" /\ isZero(l)) -> l
    [] op = "-" /\ isZero(l) /\ ~isZero(r) -> UnaryOp(r, "-")
    [] op = "*" /\ isOne(l) -> r
    [] op = "*" /\ isOne(r) /\ ~isOne(l) -> l
    [] op = "*" /\ ~isOne(l) /\ ~isOne(r) /\ (isZero(l) \/ isZero(r)) -> Integer(0)
    [] OTHER -> BinOp(l, op, r)

foldUnary(op, e) ==
  CASE op = "not" /\ is("Boolean", e) -> Boolean(~e.truth)
    [] op = "-" /\ isNumber(e) -> [e EXCEPT !.num = -@]
    [] op = "-" /\ isMinus(e)  -> e.args[1]
    [] OTHER -> UnaryOp(e, op)

(* A parameter or constant with a value, by its type *)
valueByType(e, info, v, eval_parameters) ==
  LET Plain(kind) == IF v = NoValue THEN NoTree ELSE Shielded(NumberTree(kind, v))
  IN  CASE info.value = NoTree -> e
        [] info.value # NoTree /\ info.type = "Integer" ->
             Plain(IF v.den = 1 THEN "Integer" ELSE "Real")
        [] info.value # NoTree /\ info.type = "Boolean" ->
             IF v = NoValue THEN NoTree ELSE Boolean(v = Whole(1))
        [] info.value # NoTree /\ info.type = "Real" ->
             IF eval_parameters /\ info.size = 0 THEN Plain("Real") ELSE e
foldReference(e, eval_parameters) == valueByType(e, Table[e.name], EvalExpression(e), eval_parameters)

RECURSIVE Evaluate(_, _, _)
(* The two visitors differ in the numbers they fold, and ReplaceIndex leaves of a for
   expression its body. *)
folds(visitor, eval_parameters, l, r) ==
  IF visitor = "PartialEvalExpression" \/ eval_parameters THEN isNumber(l) /\ isNumber(r)
  ELSE is("Integer", l) /\ is("Integer", r)

Evaluate(e, visitor, eval_parameters) ==
  LET Apply(f) == Evaluate(f, visitor, eval_parameters)
      ApplyAll == With(e, [k \in DOMAIN e.args |-> Apply(e.args[k])])
  IN  CASE isNumber(e) -> Shielded(e)
        [] e.kind \in {"Boolean", "SubAll", "SubEnd", "IfExp", "Brace"} -> e
        [] e.kind = "ForExp" -> IF visitor = "ReplaceIndex" THEN e.args[1] ELSE e
        [] e.kind \in {"Range", "Call"} -> ApplyAll
        [] e.kind = "BinOp" ->
             LET l == Apply(e.args[1])  r == Apply(e.args[2])
             IN  IF l = NoTree \/ r = NoTree THEN NoTree
                 ELSE IF folds(visitor, eval_parameters, l, r)
                 THEN foldNumbers(e.op, l, r) ELSE neutral(e.op, l, r)
        [] e.kind = "UnaryOp" ->
             LET f == Apply(e.args[1]) IN IF f = NoTree THEN NoTree ELSE foldUnary(e.op, f)
        [] e.kind = "Output" ->
             IF isNumber(e.args[1]) THEN e.args[1]
             ELSE IF is("UnaryOp", e.args[1]) THEN Apply(e.args[1]) ELSE ApplyAll
        [] e.kind = "Reference" ->
             CASE ~isDeclared(e.name) -> NoTree
               [] isDeclared(e.name) /\ e.args = <<>> /\ (isConstant(e.name) \/ isParameter(e.name)) ->
                    foldReference(e, eval_parameters)
               [] OTHER -> ApplyAll

PartialEval(e, eval_parameters)  == Evaluate(e, "PartialEvalExpression", eval_parameters)
ReplaceIndex(e, eval_parameters) == Evaluate(e, "ReplaceIndex", eval_parameters)

-----------------------------------------------------------------------------
(***************************************************************************)
(* Questions.  "error" is the end of the program.                          *)
(***************************************************************************)
FirstFound(answers) ==
  LET found == SelectInSeq(answers, LAMBDA x : x # "no")
  IN  IF found = 0 THEN "no" ELSE answers[found]
(* All parts are visited, although one is found. *)
AnyOfAll(answers) ==
  IF \E k \in DOMAIN answers : answers[k] = "error" THEN "error" ELSE FirstFound(answers)
YesNo(b) == IF b THEN "yes" ELSE "no"

RECURSIVE ContainsExpression(_, _)
(* An element of an array is contained in the array.  The elseif branches, the step of a
   range and subscripts are not visited. *)
\* mutant: the last branch is not visited
visitedPartsShort(e) == IF e.kind \in {"IfExp", "BinOp"} THEN SubSeq(e.args, 1, Len(e.args) - 1) ELSE e.args
visitedParts(e) ==
  CASE e.kind = "IfExp" -> SubSeq(e.args, 1, 3)
    [] e.kind = "Range" -> SubSeq(e.args, 1, 2)
    [] e.kind \in {"BinOp", "UnaryOp", "Call", "Output"} -> e.args
    [] OTHER -> <<>>

ContainsExpression(exp, v) ==
  LET parts == [k \in DOMAIN visitedParts(v) |-> ContainsExpression(exp, visitedParts(v)[k])]
  IN  CASE Equal(exp, v) -> "yes"
        [] ~Equal(exp, v) /\ v.kind \in {"Brace", "ForExp"} -> "error"
        [] ~Equal(exp, v) /\ v.kind = "Reference" ->
             YesNo(is("Reference", exp) /\ exp.name = v.name /\ v.args = <<>>)
        [] ~Equal(exp, v) /\ v.kind \in {"BinOp", "IfExp", "Range"} -> AnyOfAll(parts)
        [] OTHER -> FirstFound(parts)

RECURSIVE ContainsVariable(_, _)
(* The elseif branches and the index of a for expression are not visited. *)
ContainsVariable(name, v) ==
  CASE v.kind = "IfExp"  -> \E k \in 1..3 : ContainsVariable(name, v.args[k])
    [] v.kind = "ForExp" -> ContainsVariable(name, v.args[1])
    [] v.kind = "Reference" -> \/ v.name = name
                               \/ \E k \in DOMAIN v.args : ContainsVariable(name, v.args[k])
    [] OTHER -> \E k \in DOMAIN v.args : ContainsVariable(name, v.args[k])

RECURSIVE ContainsUnknown(_, _)
(* The unknowns an expression uses.  They are compared as text, and of the calls only der
   itself is looked at. *)
isUsed(unknowns, v) == {u \in unknowns : printed(u) = printed(v)}
ContainsUnknown(unknowns, v) ==
  LET Parts(S) == UNION {ContainsUnknown(unknowns, v.args[k]) : k \in S}
  IN  CASE v.kind = "Reference" -> isUsed(unknowns, v)
        [] v.kind = "Call" -> IF v.name = "der" THEN isUsed(unknowns, v) ELSE {}
        [] v.kind = "IfExp"  -> Parts(1..3)
        [] v.kind = "Range"  -> Parts(1..2)
        [] v.kind = "ForExp" -> Parts({1})
        [] OTHER -> Parts(DOMAIN v.args)

Ended == <<NoTree>>
Joined(lists) == IF \E k \in DOMAIN lists : lists[k] = Ended THEN Ended ELSE FlattenSeq(lists)
RECURSIVE AllExpressions(_, _)
(* Every reference is listed when references are looked for. *)
AllExpressions(exp, v) ==
  LET self  == IF Equal(exp, v) THEN <<v>> ELSE <<>>
      parts == [k \in DOMAIN visitedParts(v) |-> AllExpressions(exp, visitedParts(v)[k])]
  IN  CASE v.kind = "Brace" -> Ended
        [] v.kind = "ForExp" ->
             LET start == EvalExpression(v.args[2].args[1])
                 end   == EvalExpression(v.args[2].args[2])
                 body  == AllExpressions(exp, v.args[1])
             IN  IF start = NoValue \/ end = NoValue THEN Ended
                 ELSE Joined(<<self>> \o [k \in 1..1 + Truncated(end) - Truncated(start) |-> body])
        [] v.kind = "Reference" -> self \o (IF is("Reference", exp) THEN <<v>> ELSE <<>>)
        [] OTHER -> Joined(<<self>> \o parts)
=============================================================================
