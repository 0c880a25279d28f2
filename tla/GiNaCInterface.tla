---------------------------- MODULE GiNaCInterface ----------------------------
(***************************************************************************)
(* ginac_interface.cpp: trees to expressions of the computer algebra       *)
(* system and back.  An expression of GiNaC is [kind, args], with kind     *)
(* numeric, symbol, add, mul, power or function.  The name of a symbol     *)
(* holds all of a reference: "der!u!i@1" is der(u[i + 1]).  It is written  *)
(* here as [der, name, codes], and a code as [mark, left, n].              *)
(***************************************************************************)
EXTENDS Visitors

CONSTANT MaxFunctions   \* user_fun3_1, user_fun3_2, ... : three in the code

numeric(v)       == [kind |-> "numeric", num |-> v.num, den |-> v.den, args |-> <<>>]
symbol(sym)      == [kind |-> "symbol", sym |-> sym, args |-> <<>>]
function(n, args) == [kind |-> "function", name |-> n, args |-> args]
isNumeric(x)     == x.kind = "numeric"

(* What GiNaC does by itself to sums, products and powers *)
Zero == numeric(Whole(0))
One  == numeric(Whole(1))
add(x, y) ==
  CASE isNumeric(x) /\ isNumeric(y) -> numeric(Compute("+", x, y))
    [] x = Zero /\ ~isNumeric(y) -> y
    [] y = Zero /\ ~isNumeric(x) -> x
    [] OTHER -> [kind |-> "add", args |-> <<x, y>>]
mul(x, y) ==
  CASE isNumeric(x) /\ isNumeric(y) -> numeric(Compute("*", x, y))
    [] Zero \in {x, y} /\ ~(isNumeric(x) /\ isNumeric(y)) -> Zero
    [] x = One /\ ~isNumeric(y) -> y
    [] y = One /\ ~isNumeric(x) -> x
    [] OTHER -> [kind |-> "mul", args |-> <<x, y>>]
power(x, y) ==
  CASE isNumeric(x) /\ isNumeric(y) /\ y.den = 1 /\ (x # Zero \/ y.num > 0) -> numeric(PowerOf(x, y.num))
    [] y = One -> x
    [] OTHER -> [kind |-> "power", args |-> <<x, y>>]
minus(x) == mul(numeric(Whole(-1)), x)

-----------------------------------------------------------------------------
(* ConvertToGiNaC *)
Plain == ""
(* A subscript is an integer, a reference, or an operator with an integer on its right:
   whatever the operator is, the integer is an offset. *)
\* mutant: a minus is an offset like a plus
codePlus(sub) ==
  CASE sub.kind = "Integer"   -> [mark |-> Plain, left |-> NoTree, n |-> sub.num]
    [] sub.kind = "Reference" -> [mark |-> Plain, left |-> sub, n |-> 0]
    [] sub.kind = "BinOp" -> [mark |-> "@", left |-> sub.args[1], n |-> sub.args[2].num]
code(sub) ==
  CASE sub.kind = "Integer"   -> [mark |-> Plain, left |-> NoTree, n |-> sub.num]
    [] sub.kind = "Reference" -> [mark |-> Plain, left |-> sub, n |-> 0]
    [] sub.kind = "BinOp" ->
         LET offset == IF sub.op = "-" THEN -sub.args[2].num ELSE sub.args[2].num
         IN  [mark |-> IF offset > 0 THEN "@" ELSE "#", left |-> sub.args[1], n |-> Abs(offset)]
canBeCoded(sub) ==
  \/ sub.kind \in {"Integer", "Reference"}
  \/ is("BinOp", sub) /\ is("Integer", sub.args[2])

getSymbol(e, der) ==
  IF \A k \in DOMAIN e.args : canBeCoded(e.args[k])
  THEN symbol([der |-> der, name |-> e.name, codes |-> [k \in DOMAIN e.args |-> code(e.args[k])]])
  ELSE NoTree

RECURSIVE ConvertToGiNaC(_, _)
(* sum(u): the elements from 1 to the size *)
convertSum(u) ==
  LET size == Table[u.name].size
      Element(n) == getSymbol(Reference(u.name, <<Integer(n)>>), FALSE)
      sums[n \in 1..size] == IF n = 1 THEN Element(1) ELSE add(sums[n - 1], Element(n))
  IN  IF is("Reference", u) /\ isDeclared(u.name) /\ size > 0 THEN sums[size] ELSE NoTree

(* user_func3 counts the functions of three arguments that the program has converted. *)
convertCall(e, user_func3) ==
  LET x == ConvertToGiNaC(e.args[1], user_func3)
  IN  CASE e.name \in {"sin", "cos", "exp", "log", "log10"} ->
             IF x = NoTree THEN NoTree ELSE function(e.name, <<x>>)
        [] e.name = "pre" -> x
        [] e.name = "der" -> IF is("Reference", e.args[1]) THEN getSymbol(e.args[1], TRUE) ELSE NoTree
        [] e.name = "sum" -> convertSum(e.args[1])
        [] e.name \notin {"sin", "cos", "exp", "log", "log10", "pre", "der", "sum"} ->
             LET args == [k \in DOMAIN e.args |-> ConvertToGiNaC(e.args[k], user_func3)]
             IN  CASE Len(args) # 3 \/ user_func3 >= MaxFunctions -> Zero
                   [] OTHER -> IF NoTree \in Range(args) THEN NoTree ELSE function(e.name, args)

(* What has no counterpart in GiNaC becomes zero, with a warning. *)
convertBinOp(op, x, y) ==
  CASE op = "+" -> add(x, y)
    [] op = "-" -> add(x, minus(y))
    [] op = "*" -> mul(x, y)
    [] op = "/" -> mul(x, power(y, numeric(Whole(-1))))
    [] op = "^" -> power(x, y)
    [] op \notin Arithmetic -> Zero

ConvertToGiNaC(e, user_func3) ==
  CASE isNumber(e) -> numeric(Fraction(e.num, e.den))
    [] e.kind \in {"Boolean", "SubAll", "SubEnd", "IfExp", "Range", "Brace", "ForExp"} -> Zero
    [] e.kind = "BinOp" ->
         LET x == ConvertToGiNaC(e.args[1], user_func3)
             y == ConvertToGiNaC(e.args[2], user_func3)
         IN  IF x = NoTree \/ y = NoTree THEN NoTree ELSE convertBinOp(e.op, x, y)
    [] e.kind = "UnaryOp" ->
         LET x == ConvertToGiNaC(e.args[1], user_func3)
         IN  IF e.op # "-" THEN Zero ELSE IF x = NoTree THEN NoTree ELSE minus(x)
    [] e.kind = "Call" -> convertCall(e, user_func3)
    [] e.kind = "Output" -> ConvertToGiNaC(e.args[1], user_func3)
    [] e.kind = "Reference" -> getSymbol(e, FALSE)

(* The functions of three arguments in e *)
Functions3(e) == {f \in Subtrees(e) : is("Call", f) /\ Len(f.args) = 3}

-----------------------------------------------------------------------------
(* GiNaCtoModelica: every operation in parentheses *)
decode(c) ==
  CASE c.mark = Plain -> IF c.left = NoTree THEN Integer(c.n) ELSE c.left
    [] c.mark = "@" -> BinOp(c.left, "+", Integer(c.n))
    [] c.mark = "#" -> BinOp(c.left, "-", Integer(c.n))

decodeSymbol(sym) ==
  LET ref == Reference(sym.name, [k \in DOMAIN sym.codes |-> decode(sym.codes[k])])
  IN  IF sym.der THEN Call("der", <<ref>>) ELSE ref

RECURSIVE ConvertToExp(_)
ConvertToExp(x) ==
  LET args == [k \in DOMAIN x.args |-> ConvertToExp(x.args[k])]
      Op(op) == Output(BinOp(args[1], op, args[2]))
  IN  IF NoTree \in Range(args) THEN NoTree
      ELSE CASE x.kind = "numeric" -> Shielded(Real(x.num, x.den))
             [] x.kind = "symbol"  -> decodeSymbol(x.sym)
             [] x.kind = "add"     -> Op("+")
             [] x.kind = "mul"     -> Op("*")
             [] x.kind = "power"   -> Op("^")
             [] x.kind = "function" ->
                  IF x.name = "sin" \/ Len(args) = 3 THEN Call(x.name, args) ELSE NoTree
=============================================================================
