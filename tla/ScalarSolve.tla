------------------------------ MODULE ScalarSolve ------------------------------
(***************************************************************************)
(* One equation from file to file: it is read, solved for its unknown by   *)
(* EquationSolver::Solve, printed, and read again by the next tool.        *)
(* EquationSolver models the lists of equations; here it is one equation,  *)
(* scalar or the body of a for equation with the counter i, and all of the *)
(* expressions on its two sides.  Or it is read and printed only, which is *)
(* what every tool does with most of its input.                            *)
(***************************************************************************)
EXTENDS GiNaCInterface

CONSTANTS
  Jobs,        \* [tool, loop, left, right, unknown]: two texts, and what to solve for
  States,      \* valuations: of the variables, der(...) and the counter
  Rounds       \* how often a file is solved and printed

VARIABLES
  job,         \* (never changes)
  file,        \* the two texts that were printed last
  equation,    \* the two trees
  user_func3,  \* calls with three arguments that were converted so far
  round,       \* files read
  pc

vars == <<job, file, equation, user_func3, round, pc>>

Sides(l, r) == [left |-> l, right |-> r]

-----------------------------------------------------------------------------
(***************************************************************************)
(* What an expression means in a state s: s.val gives a name the sequence  *)
(* of its elements, s.der those of its derivative, s.i is the counter.     *)
(***************************************************************************)
Truth(b) == Whole(IF b THEN 1 ELSE 0)
Less(l, r) == l.num * r.den < r.num * l.den

Compare(op, l, r) ==
  CASE op = "<" -> Truth(Less(l, r))          [] op = ">"  -> Truth(Less(r, l))
    [] op = "<=" -> Truth(~Less(r, l))        [] op = ">=" -> Truth(~Less(l, r))
    [] op = "==" -> Truth(l = r)              [] op = "<>" -> Truth(l # r)
    [] op = "and" -> Truth(l = Whole(1) /\ r = Whole(1))
    [] op = "or"  -> Truth(l = Whole(1) \/ r = Whole(1))

Elements(n, s, slot) ==
  IF n = "i" THEN <<Whole(s.i)>>
  ELSE IF isDeclared(n) /\ Table[n].value # NoTree THEN <<EvalExpression(Table[n].value)>>
  ELSE s[slot][n]

RECURSIVE Value(_, _)
(* A subscript outside of the array, or that is no integer, has no meaning. *)
Nth(els, sub) == IF sub # NoValue /\ sub.den = 1 /\ sub.num \in DOMAIN els THEN els[sub.num] ELSE NoValue
ElementAt(e, s, slot) ==
  Nth(Elements(e.name, s, slot), IF e.args = <<>> THEN Whole(1) ELSE Value(e.args[1], s))

(* A function the model knows nothing of: any function that tells its arguments apart *)
Applied(name, args) ==
  IF NoValue \in Range(args) THEN NoValue
  ELSE CASE name = "sum" -> FoldSeq(LAMBDA v, w : Compute("+", v, w), Whole(0), args)
         [] name # "sum" /\ Len(args) = 1 -> Compute("+", Compute("*", args[1], args[1]), Whole(1))
         [] name # "sum" /\ Len(args) = 3 -> Compute("+", args[1], Compute("-", Compute("*", Whole(2), args[2]), args[3]))

Value(e, s) ==
  CASE isNumber(e) -> Fraction(e.num, e.den)
    [] e.kind = "Boolean" -> Truth(e.truth)
    [] e.kind = "Reference" -> ElementAt(e, s, "val")
    [] e.kind = "BinOp" ->
         LET l == Value(e.args[1], s)  r == Value(e.args[2], s)
         IN  IF l = NoValue \/ r = NoValue THEN NoValue
             ELSE IF e.op \in Arithmetic THEN Compute(e.op, l, r) ELSE Compare(e.op, l, r)
    [] e.kind = "UnaryOp" ->
         LET v == Value(e.args[1], s)
         IN  IF e.op = "not" THEN Truth(v = Whole(0)) ELSE signed(e.op, v)
    [] e.kind = "IfExp" ->
         LET conds  == <<e.args[1]>> \o [k \in 1..(Len(e.args) - 3) \div 2 |-> e.args[2 + 2 * k]]
             taken  == SelectInSeq(conds, LAMBDA c : Value(c, s) = Whole(1))
         IN  Value(e.args[IF taken = 0 THEN 3 ELSE IF taken = 1 THEN 2 ELSE 1 + 2 * taken], s)
    [] e.kind = "Output" -> Value(e.args[1], s)
    [] e.kind \in {"Range", "Brace", "ForExp", "SubAll", "SubEnd"} -> NoValue
    [] e.kind = "Call" ->
         CASE e.name = "der" -> ElementAt(e.args[1], s, "der")
           [] e.name = "sum" -> Applied("sum", Elements(e.args[1].name, s, "val"))
           [] e.name = "integer" -> Value(e.args[1], s)
           [] OTHER -> Applied(e.name, [k \in DOMAIN e.args |-> Value(e.args[k], s)])

RECURSIVE Meaning(_, _)
(* The same for an expression of GiNaC *)
Meaning(x, s) ==
  LET args == [k \in DOMAIN x.args |-> Meaning(x.args[k], s)]
  IN  CASE x.kind = "numeric" -> Fraction(x.num, x.den)
        [] x.kind = "symbol" -> ElementAt(decodeSymbol([x.sym EXCEPT !.der = FALSE]), s,
                                          IF x.sym.der THEN "der" ELSE "val")
        [] x.kind = "add"   -> Compute("+", args[1], args[2])
        [] x.kind = "mul"   -> Compute("*", args[1], args[2])
        [] x.kind = "power" -> Compute("^", args[1], args[2])
        [] x.kind = "function" -> Applied(x.name, args)

-----------------------------------------------------------------------------
(* Solve with one equation; pl and pr are its sides as PartialEval leaves them. *)
sideOf(l, r, pl, pr, unknown) ==
  LET Alone(side, other) == IF other = "no" THEN side ELSE other
  IN  CASE pl = NoTree \/ pr = NoTree -> "error"
        [] pl # NoTree /\ pr # NoTree /\ Equal(pl, unknown) ->
             Alone("left", ContainsExpression(unknown, r))
        [] pl # NoTree /\ pr # NoTree /\ ~Equal(pl, unknown) /\ Equal(pr, unknown) ->
             Alone("right", ContainsExpression(unknown, l))
        [] OTHER -> "no"
isolated(l, r, unknown) == sideOf(l, r, PartialEval(l, FALSE), PartialEval(r, FALSE), unknown)

RECURSIVE Substitute(_, _, _)
Substitute(x, sym, by) ==
  CASE x.kind = "symbol" -> IF x.sym = sym THEN by ELSE x
    [] x.kind = "numeric" -> x
    [] x.kind = "add"   -> add(Substitute(x.args[1], sym, by), Substitute(x.args[2], sym, by))
    [] x.kind = "mul"   -> mul(Substitute(x.args[1], sym, by), Substitute(x.args[2], sym, by))
    [] x.kind = "power" -> power(Substitute(x.args[1], sym, by), Substitute(x.args[2], sym, by))
    [] x.kind = "function" ->
         function(x.name, [k \in DOMAIN x.args |-> Substitute(x.args[k], sym, by)])

(* lsolve, by the difference of the two sides at 0 and at 1 *)
lsolve(left, right, sym) ==
  LET difference == add(left, minus(right))
      Line(at0, at1) == mul(minus(at0), power(add(at1, minus(at0)), numeric(Whole(-1))))
      At(n) == Substitute(difference, sym, numeric(Whole(n)))
  IN  Line(At(0), At(1))

(* The difference is linear in the unknown, and depends on it: its values at 0, 1 and 2 *)
OnLine(at) ==
  LET slope == Compute("-", at[1], at[0])
  IN  slope \notin {NoValue, Whole(0)} /\ Compute("-", at[2], at[1]) = slope
Solvable(left, right, sym) ==
  \A s \in States :
    OnLine([n \in 0..2 |-> Meaning(Substitute(add(left, minus(right)), sym, numeric(Whole(n))), s)])

-----------------------------------------------------------------------------
Init ==
  /\ job \in Jobs
  /\ file = Sides(job.left, job.right)
  /\ equation = Sides(NoTree, NoTree)
  /\ user_func3 = 0 /\ round = 0 /\ pc = "file"

ReadFile ==
  /\ pc = "file"
  /\ LET l == Parse(file.left)  r == Parse(file.right)
     IN  IF l.ok /\ r.ok
         THEN /\ equation' = Sides(l.exp, r.exp)
              /\ pc' = IF round < Rounds THEN "read" ELSE "done"
         ELSE pc' = "rejected" /\ UNCHANGED equation
  /\ round' = round + 1
  /\ UNCHANGED <<job, file, user_func3>>

End == pc' = "error" /\ UNCHANGED <<job, file, equation, user_func3, round>>

(* A tool that leaves the equation as it is *)
Copy ==
  /\ pc = "read" /\ job.tool = "copy"
  /\ pc' = "solved"
  /\ UNCHANGED <<job, file, equation, user_func3, round>>

Solving == pc = "read" /\ job.tool = "solve"

(* The unknown stands alone on a side already. *)
SolveTrivial ==
  /\ Solving /\ ~job.loop
  /\ \E side \in {isolated(equation.left, equation.right, job.unknown)} :
       /\ side \in {"left", "right"}
       /\ equation' = IF side = "left" THEN equation
                      ELSE Sides(PartialEval(equation.right, FALSE), PartialEval(equation.left, FALSE))
  /\ pc' = "solved"
  /\ UNCHANGED <<job, file, user_func3, round>>

EndTrivial ==
  /\ Solving /\ ~job.loop
  /\ isolated(equation.left, equation.right, job.unknown) = "error"
  /\ End

(* What GiNaC is given: the two sides and the unknown *)
Converted ==
  [left    |-> ConvertToGiNaC(equation.left, user_func3),
   right   |-> ConvertToGiNaC(equation.right, user_func3),
   unknown |-> ConvertToGiNaC(job.unknown, user_func3)]
Convertible(c) == NoTree \notin {c.left, c.right, c.unknown}

ByGiNaC ==
  /\ Solving
  /\ ~job.loop => isolated(equation.left, equation.right, job.unknown) \in {"no", "yes"}

(* An expression that cannot be converted, on the way there or back: ERROR.  An equation
   with no solution, or none that is linear: abort(). *)
Solution(c) ==
  IF Convertible(c) /\ Solvable(c.left, c.right, c.unknown.sym)
  THEN ConvertToExp(lsolve(c.left, c.right, c.unknown.sym)) ELSE NoTree

SolveByGiNaC ==
  /\ ByGiNaC
  /\ \E rhs \in {Solution(Converted)} \ {NoTree} :
       equation' = Sides(ConvertToExp(ConvertToGiNaC(job.unknown, user_func3)), rhs)
  /\ user_func3' = user_func3 + Cardinality(Functions3(equation.left) \cup Functions3(equation.right))
  /\ pc' = "solved"
  /\ UNCHANGED <<job, file, round>>

CannotSolve ==
  /\ ByGiNaC
  /\ Solution(Converted) = NoTree
  /\ End

WriteFile ==
  /\ pc = "solved"
  /\ file' = Sides(printed(equation.left), printed(equation.right))
  /\ pc' = "file"
  /\ UNCHANGED <<job, equation, user_func3, round>>

Next == ReadFile \/ Copy \/ SolveTrivial \/ EndTrivial \/ SolveByGiNaC \/ CannotSolve \/ WriteFile

Spec == Init /\ [][Next]_vars

-----------------------------------------------------------------------------

(***************************************************************************)
(* Properties                                                              *)
(***************************************************************************)
(* The state in which the unknown has the value v *)
Assign(s, v) ==
  LET u    == IF is("Call", job.unknown) THEN job.unknown.args[1] ELSE job.unknown
      slot == IF is("Call", job.unknown) THEN "der" ELSE "val"
      at   == IF u.args = <<>> THEN 1 ELSE Value(u.args[1], s).num
  IN  [s EXCEPT ![slot][u.name][at] = v]

Original == Sides(Parse(job.left).exp, Parse(job.right).exp)

(* Solve and the printing of its result: what the next tool reads is the unknown on the
   left, and on the right a value for it with which the equation of the first file holds. *)
SolvesEquation ==
  (pc = "done" /\ job.tool = "solve") =>
    /\ equation.left = job.unknown
    /\ \A s \in States :
         LET v == Value(equation.right, s)
         IN  v # NoValue => Value(Original.left, Assign(s, v)) = Value(Original.right, Assign(s, v))

Exps == {equation.left, equation.right}
Values(e) == {Value(e, s) : s \in States} \ {NoValue}

Without(ops, e) == \A f \in Subtrees(e) : ~(is("BinOp", f) /\ f.op \in ops)

(* EvalExpression, EvalInteger, IsInteger and ConstantExpression: what they say of the value
   of an expression holds in every state, and so no two of them disagree.  Not compared are
   powers of integers, which EvalInteger cuts off, and quotients, which are integers for
   IsInteger. *)
EvaluatorsAgree ==
  pc = "read" =>
    \A e \in UNION {Subtrees(f) : f \in Exps} :
      /\ EvalExpression(e) # NoValue /\ ~is("Brace", e) => Values(e) \subseteq {EvalExpression(e)}
      /\ EvalInteger(e) # NoValue /\ Without({"^"}, e) => Values(e) \subseteq {EvalInteger(e)}
      /\ IsInteger(e) = "yes" /\ Without({"/", "^"}, e) => \A v \in Values(e) : v.den = 1
      /\ ConstantExpression(e) => Cardinality(Values(e)) <= 1

(* PartialEvalExpression and ReplaceIndex: an expression of the first file that was
   rewritten has the value it had.  (In what Solve itself writes, n^(-1) would be cut off
   to zero, and Jobs has no quotients of integers.) *)
ValueKept ==
  (pc = "read" /\ round = 1 /\ job.tool = "solve") =>
    \A e \in Exps, all \in BOOLEAN :
      \A f \in {PartialEval(e, all), ReplaceIndex(e, all)} \ {NoTree} :
        \A s \in States : Value(e, s) # NoValue => Value(f, s) = Value(e, s)

(* ContainsExpression, ContainsVariable, ContainsUnknown and AllExpressions: where one of
   them does not find the unknown, the value does not depend on it, so that an equation
   that Solve leaves as it is has been solved. *)
UnknownFound ==
  (pc = "read" /\ job.tool = "solve") =>
    \A e \in Exps :
      \/ \A s \in States, v \in {Whole(2), Whole(11)} : Value(e, Assign(s, v)) = Value(e, s)
      \/ /\ ContainsExpression(job.unknown, e) # "no"
         /\ AllExpressions(job.unknown, e) # <<>>
         /\ ContainsVariable("x", e) \/ job.loop
         /\ ContainsUnknown({job.unknown}, e) # {} \/ job.loop

RECURSIVE Bare(_)
(* A tree without its parentheses, and with one kind of numbers *)
Bare(e) ==
  IF is("Output", e) THEN Bare(e.args[1])
  ELSE IF isNumber(e)
  THEN IF e.num < 0 THEN UnaryOp(Real(-e.num, e.den), "-") ELSE Real(e.num, e.den)
  ELSE [e EXCEPT !.args = [k \in DOMAIN @ |-> Bare(@[k])]]

(* What a tool has printed, the next one reads as the tree that was printed: no text is
   refused, and where it has no parentheses, the priorities of the grammar are those of the
   tree. *)
PrintedAsRead ==
  [][(ReadFile /\ round > 0) =>
       /\ pc' # "rejected"
       /\ Bare(equation'.left) = Bare(equation.left) /\ Bare(equation'.right) = Bare(equation.right)]_vars
=============================================================================
