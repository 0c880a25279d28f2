------------------------------ MODULE Expressions ------------------------------
(***************************************************************************)
(* Expressions of a flat model and the two visitors that rewrite them:     *)
(* PartialEvalExpression and ReplaceExpression.  An expression is a record *)
(* whose field kind says which case of the variant it is.  Numbers are     *)
(* integers, a reference has one name and at most one subscript, and a     *)
(* condition is true when its value is positive.                           *)
(***************************************************************************)
EXTENDS Integers, SequencesExt

CONSTANTS
  Names,        \* the names declared in the model
  Arrays,       \* those declared with one index
  Parameters,   \* parameters declared without a value
  N,            \* the size of the arrays
  Values        \* the values the solutions are compared over

ASSUME NamesAssumption ==
  /\ Arrays \subseteq Names /\ Parameters \subseteq Names
  /\ N \in Nat \ {0} /\ Values \subseteq Int

Number(v)      == [kind |-> "Number", val |-> v]
Ref(n, sub)    == [kind |-> "Reference", name |-> n, sub |-> sub]
Neg(e)         == [kind |-> "Minus", exp |-> e]
Der(e)         == [kind |-> "der", exp |-> e]
Parens(e)      == [kind |-> "Output", exp |-> e]
BinOp(op, l, r) == [kind |-> op, left |-> l, right |-> r]
Add(l, r)      == BinOp("Add", l, r)
Sub(l, r)      == BinOp("Sub", l, r)
IfExp(c, t, elseif, e) ==
  [kind |-> "IfExp", cond |-> c, then |-> t, elseif |-> elseif, elseexp |-> e]

(* Subscripts: none, the loop counter, and two that are not the counter *)
Whole    == "whole"
Counter  == "i"
First    == "1"
Reversed == "N + 1 - i"
Subscripts == {Whole, Counter, First, Reversed}

Is(kind, e)  == e.kind = kind
IsBinOp(e)   == e.kind \in {"Add", "Sub"}
isZero(e)    == e = Number(0)

(***************************************************************************)
(* A visitor of an expression says what it does with one node, given what  *)
(* it does with the nodes below: f.  The visitor itself is a constant, and *)
(* ExpressionVisitors ties the knot.                                       *)
(***************************************************************************)
CONSTANTS
  references(_),   \* the references that occur in an expression
  evalNames(_),    \* the names PartialEvalExpression looks up
  derNames(_),     \* those StateVariablesFinder finds inside of der
  PartialEval(_),
  ReplaceExpression(_, _, _, _),
  Value(_, _, _)

refNames(e) == {r.name : r \in references(e)}

referencesBy(f(_), e) ==
  CASE e.kind = "Number" -> {}
    [] e.kind = "Reference" -> {e}
    [] e.kind \in {"Minus", "der", "Output"} -> f(e.exp)
    [] IsBinOp(e) -> f(e.left) \cup f(e.right)
    [] e.kind = "IfExp" -> f(e.cond) \cup f(e.then) \cup f(e.elseexp)
         \cup UNION {f(e.elseif[k].cond) \cup f(e.elseif[k].then) : k \in DOMAIN e.elseif}

(* An if expression is left alone *)
evalNamesBy(f(_), e) ==
  CASE e.kind \in {"Number", "IfExp"} -> {}
    [] e.kind = "Reference" -> {e.name}
    [] e.kind \in {"Minus", "der", "Output"} -> f(e.exp)
    [] IsBinOp(e) -> f(e.left) \cup f(e.right)

(* The elseif branches are skipped *)
derNamesBy(f(_), e) ==
  CASE e.kind \in {"Number", "Reference"} -> {}
    [] e.kind = "der" -> refNames(e.exp)
    [] e.kind \in {"Minus", "Output"} -> f(e.exp)
    [] IsBinOp(e) -> f(e.left) \cup f(e.right)
    [] e.kind = "IfExp" -> f(e.cond) \cup f(e.then) \cup f(e.elseexp)

evalBinOp(op, l, r) ==
  IF Is("Number", l) /\ Is("Number", r)
  THEN Number(IF op = "Add" THEN l.val + r.val ELSE l.val - r.val)
  ELSE CASE isZero(r) -> l
         [] isZero(l) /\ op = "Add" -> r
         [] isZero(l) /\ op = "Sub" -> Neg(r)
         [] OTHER -> BinOp(op, l, r)

evalMinus(e) ==
  CASE Is("Number", e) -> Number(-e.val)
    [] Is("Minus", e)  -> e.exp
    [] OTHER -> Neg(e)

(* A negative number is put in parentheses, and is no number for the callers then. *)
partialEvalBy(f(_), e) ==
  CASE e.kind = "Number" -> IF e.val < 0 THEN Parens(e) ELSE e
    [] e.kind \in {"Reference", "IfExp"} -> e
    [] e.kind = "Output" -> IF Is("Number", e.exp) THEN e.exp
                            ELSE IF Is("Minus", e.exp) THEN f(e.exp)
                            ELSE Parens(f(e.exp))
    [] e.kind = "der"   -> Der(f(e.exp))
    [] e.kind = "Minus" -> evalMinus(f(e.exp))
    [] IsBinOp(e)       -> evalBinOp(e.kind, f(e.left), f(e.right))

\* mutant: other subscripts of the same name are left alone
renameReferenceExact(look, rep, ignoreIndexes, e) == e

(* A reference other than look, when subscripts are ignored: its name is replaced. *)
renameReference(look, rep, ignoreIndexes, e) ==
  IF ignoreIndexes /\ Is("Reference", rep) /\ e.name = look.name
  THEN [e EXCEPT !.name = rep.name] ELSE e

(* look is a reference.  The elseif branches of an if expression are dropped. *)
replaceBy(f(_, _, _, _), look, rep, ignoreIndexes, e) ==
  LET Apply(d) == f(look, rep, ignoreIndexes, d)
  IN  CASE e = look -> rep
        [] e # look /\ e.kind = "Number" -> e
        [] e # look /\ e.kind = "Reference" -> renameReference(look, rep, ignoreIndexes, e)
        [] e.kind = "Minus"  -> Neg(Apply(e.exp))
        [] e.kind = "der"    -> Der(Apply(e.exp))
        [] e.kind = "Output" -> Parens(Apply(e.exp))
        [] IsBinOp(e) -> BinOp(e.kind, Apply(e.left), Apply(e.right))
        [] e.kind = "IfExp" -> IfExp(Apply(e.cond), Apply(e.then), <<>>, Apply(e.elseexp))

(***************************************************************************)
(* What an expression means.  s gives every name the values of its         *)
(* elements (one when it is no array) at an instant, s.val, and at the     *)
(* next, s.next: der is the difference.  i is the loop counter.            *)
(***************************************************************************)
Element(sub, i) ==
  CASE sub \in {Whole, First} -> 1
    [] sub = Counter  -> i
    [] sub = Reversed -> N + 1 - i

valueBy(f(_, _, _), e, s, i) ==
  CASE e.kind = "Number" -> e.val
    [] e.kind = "Reference" -> s.val[e.name][Element(e.sub, i)]
    [] e.kind = "Output" -> f(e.exp, s, i)
    [] e.kind = "Minus"  -> -f(e.exp, s, i)
    [] e.kind = "der"    -> f(e.exp, [s EXCEPT !.val = s.next], i) - f(e.exp, s, i)
    [] e.kind = "Add"    -> f(e.left, s, i) + f(e.right, s, i)
    [] e.kind = "Sub"    -> f(e.left, s, i) - f(e.right, s, i)
    [] e.kind = "IfExp"  ->
         LET taken == SelectInSeq(e.elseif, LAMBDA b : f(b.cond, s, i) > 0)
         IN  IF f(e.cond, s, i) > 0 THEN f(e.then, s, i)
             ELSE IF taken # 0 THEN f(e.elseif[taken].then, s, i)
             ELSE f(e.elseexp, s, i)

(* Every way to give values to the names of S *)
Valuations(S) ==
  {[n \in S |-> IF n \in Arrays THEN w.many[n] ELSE w.one[n]] :
     w \in [one  : [S \ Arrays -> [1..1 -> Values]],
           many : [S \cap Arrays -> [1..N -> Values]]]}
=============================================================================
