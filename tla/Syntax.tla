-------------------------------- MODULE Syntax --------------------------------
(***************************************************************************)
(* Expressions as text and as trees: how a tree is printed, and the        *)
(* grammar that reads the text back.  Every tool of the repository reads a *)
(* file and prints one, and the next tool reads what the last has printed. *)
(*                                                                         *)
(* A tree is a record; all of its subexpressions are in args.  A text is a *)
(* sequence of tokens: <<"sym", s>>, <<"id", name>>, <<"int", n>> or       *)
(* <<"real", <<num, den>>>>.  Numbers are exact fractions.                 *)
(***************************************************************************)
EXTENDS Integers, SequencesExt

(* Trees *)
Number(k, n, d) == [kind |-> k, num |-> n, den |-> d, args |-> <<>>]
Integer(n)      == Number("Integer", n, 1)
Real(n, d)      == Number("Real", n, d)
Boolean(b)      == [kind |-> "Boolean", truth |-> b, args |-> <<>>]
SubEnd          == [kind |-> "SubEnd", args |-> <<>>]
SubAll          == [kind |-> "SubAll", args |-> <<>>]
Reference(n, subs)  == [kind |-> "Reference", name |-> n, args |-> subs]
BinOp(l, op, r)     == [kind |-> "BinOp", op |-> op, args |-> <<l, r>>]
UnaryOp(e, op)      == [kind |-> "UnaryOp", op |-> op, args |-> <<e>>]
Call(n, args)       == [kind |-> "Call", name |-> n, args |-> args]
Brace(args)         == [kind |-> "Brace", args |-> args]
Output(e)           == [kind |-> "Output", args |-> <<e>>]
ForExp(e, n, range) == [kind |-> "ForExp", name |-> n, args |-> <<e, range>>]
(* <<start, end>> or <<start, end, step>> *)
RangeExp(args)      == [kind |-> "Range", args |-> args]
(* <<condition, then, else>> and a pair for every elseif *)
IfExp(args)         == [kind |-> "IfExp", args |-> args]

is(kind, e)   == e.kind = kind
isNumber(e)   == e.kind \in {"Integer", "Real"}
isMinus(e)    == is("UnaryOp", e) /\ e.op = "-"
isZero(e)     == isNumber(e) /\ e.num = 0
isOne(e)      == isNumber(e) /\ e.num = 1 /\ e.den = 1
Relations     == {"<", "<=", ">", ">=", "<>", "=="}

RECURSIVE Subtrees(_)
Subtrees(e) == {e} \cup UNION {Subtrees(e.args[k]) : k \in DOMAIN e.args}

RECURSIVE Equal(_, _)
(* operator==: the elseif branches of an if expression and the body of a for
   expression are not compared *)
Equal(e, f) ==
  LET All(args1, args2) == /\ Len(args1) = Len(args2)
                           /\ \A k \in DOMAIN args1 : Equal(args1[k], args2[k])
  IN  /\ e.kind = f.kind
      /\ CASE e.kind = "IfExp" -> All(SubSeq(e.args, 1, 3), SubSeq(f.args, 1, 3))
           [] e.kind = "ForExp" -> e.name = f.name /\ Equal(e.args[2], f.args[2])
           [] OTHER -> /\ [e EXCEPT !.args = <<>>] = [f EXCEPT !.args = <<>>]
                       /\ All(e.args, f.args)

-----------------------------------------------------------------------------
(***************************************************************************)
(* Printing.  A real number without a fraction loses its point.            *)
(***************************************************************************)
Sym(s) == <<<<"sym", s>>>>
Id(n)  == <<<<"id", n>>>>

RECURSIVE printed(_)

printList(exps, comma) ==
  FlattenSeq([k \in DOMAIN exps |-> (IF k = 1 THEN <<>> ELSE Sym(comma)) \o printed(exps[k])])
Enclosed(open, tokens, close) == Sym(open) \o tokens \o Sym(close)

printNumber(e) ==
  (IF e.num < 0 THEN Sym("-") ELSE <<>>)
    \o LET n == IF e.num < 0 THEN -e.num ELSE e.num
       IN  IF e.den = 1 THEN <<<<"int", n>>>> ELSE <<<<"real", <<n, e.den>>>>>>

printBoolean(e) == Sym(IF e.truth THEN "true" ELSE "false")

printBinOp(e) ==
  LET tokens == printed(e.args[1]) \o Sym(e.op) \o printed(e.args[2])
  IN  IF e.op = "^" THEN Enclosed("(", tokens, ")") ELSE tokens

\* mutant: no parentheses around a minus
printUnaryOpBare(e) == IF e.op = "+" THEN printed(e.args[1]) ELSE Sym(e.op) \o printed(e.args[1])
printUnaryOp(e) ==
  CASE e.op = "-" -> Enclosed("(", Sym("-") \o printed(e.args[1]), ")")
    [] e.op = "+" -> printed(e.args[1])
    [] e.op = "not" -> Sym("not") \o printed(e.args[1])

\* mutant: the elseif branches are not printed
printIfExpShort(e) ==
  Sym("if") \o printed(e.args[1]) \o Sym("then") \o printed(e.args[2]) \o Sym("else") \o printed(e.args[3])
printIfExp(e) ==
  LET elseifs == SubSeq(e.args, 4, Len(e.args))
      Clause(word, cond, then) == Sym(word) \o printed(cond) \o Sym("then") \o printed(then)
  IN  Clause("if", e.args[1], e.args[2])
        \o FlattenSeq([k \in 1..Len(elseifs) \div 2 |->
                         Clause("elseif", elseifs[2 * k - 1], elseifs[2 * k])])
        \o Sym("else") \o printed(e.args[3])

printCall(e) == Id(e.name) \o Enclosed("(", printList(e.args, ","), ")")

printForExp(e) == printed(e.args[1]) \o Sym("for") \o Id(e.name) \o Sym("in") \o printed(e.args[2])

printReference(e) ==
  Id(e.name) \o (IF e.args = <<>> THEN <<>> ELSE Enclosed("[", printList(e.args, ","), "]"))

printRange(e) ==
  printed(e.args[1]) \o Sym(":")
    \o (IF Len(e.args) = 3 THEN printed(e.args[3]) \o Sym(":") ELSE <<>>) \o printed(e.args[2])

printOutput(e) ==
  IF is("Output", e.args[1]) THEN printed(e.args[1])
  ELSE Enclosed("(", printList(e.args, ","), ")")

printBrace(e) == Enclosed("{", printList(e.args, ","), "}")

printed(e) ==
  CASE isNumber(e) -> printNumber(e)
    [] e.kind = "Boolean"   -> printBoolean(e)
    [] e.kind = "SubEnd"    -> Sym("end")
    [] e.kind = "SubAll"    -> Sym(":")
    [] e.kind = "Reference" -> printReference(e)
    [] e.kind = "BinOp"     -> printBinOp(e)
    [] e.kind = "UnaryOp"   -> printUnaryOp(e)
    [] e.kind = "IfExp"     -> printIfExp(e)
    [] e.kind = "Range"     -> printRange(e)
    [] e.kind = "Call"      -> printCall(e)
    [] e.kind = "ForExp"    -> printForExp(e)
    [] e.kind = "Output"    -> printOutput(e)
    [] e.kind = "Brace"     -> printBrace(e)

-----------------------------------------------------------------------------
(***************************************************************************)
(* The grammar.  A rule takes a text and returns what it has read and the  *)
(* rest; alternatives are tried in their order.  A rule that cannot go on  *)
(* behind an expectation point ends the whole parse, which has no other    *)
(* result for the texts of one expression than that the rule fails.        *)
(***************************************************************************)
Fail == [ok |-> FALSE, exp |-> SubEnd, rest |-> <<>>]
Read(e, rest) == [ok |-> TRUE, exp |-> e, rest |-> rest]

isToken(text, kind) == text # <<>> /\ text[1][1] = kind
starts(text, syms) == isToken(text, "sym") /\ text[1][2] \in syms

RECURSIVE expression(_)

(* What a list of expressions between two symbols reads *)
FailList == [ok |-> FALSE, exps |-> <<>>, rest |-> <<>>]
RECURSIVE expression_list(_, _)
listFrom(e, close) ==
  IF ~e.ok THEN FailList
  ELSE IF starts(e.rest, {close}) THEN [ok |-> TRUE, exps |-> <<e.exp>>, rest |-> Tail(e.rest)]
  ELSE IF starts(e.rest, {","})
       THEN [expression_list(Tail(e.rest), close) EXCEPT !.exps = <<e.exp>> \o @]
       ELSE FailList
expression_list(text, close) == listFrom(expression(text), close)

(* Arguments of a call: a list, or one expression with a for *)
forFrom(e, name, range, close) ==   \* in one dimension
  IF range.ok /\ starts(range.rest, {close})
  THEN [ok |-> TRUE, exps |-> <<ForExp(e.exp, name, range.exp)>>, rest |-> Tail(range.rest)]
  ELSE FailList
argumentsFrom(e, close) ==   \* e for ident in range
  IF e.ok /\ starts(e.rest, {"for"})
  THEN forFrom(e, e.rest[2][2], expression(SubSeq(e.rest, 4, Len(e.rest))), close)
  ELSE listFrom(e, close)
function_arguments(text, close) == argumentsFrom(expression(text), close)

array_subscripts(text) ==
  IF starts(text, {":"}) /\ starts(Tail(text), {"]"})
  THEN [ok |-> TRUE, exps |-> <<SubAll>>, rest |-> SubSeq(text, 3, Len(text))]
  ELSE expression_list(text, "]")

(* A call, or a reference when no argument list follows the name *)
calls(name, l)      == IF l.ok THEN Read(Call(name, l.exps), l.rest) ELSE Fail
references(name, l) == IF l.ok THEN Read(Reference(name, l.exps), l.rest) ELSE Fail
call_or_reference(name, rest) ==
  CASE starts(rest, {"("}) -> calls(name, function_arguments(Tail(rest), ")"))
    [] starts(rest, {"["}) -> references(name, array_subscripts(Tail(rest)))
    [] OTHER -> Read(Reference(name, <<>>), rest)

output_exp(e) == IF e.ok THEN IF starts(e.rest, {")"}) THEN Read(Output(e.exp), Tail(e.rest)) ELSE Fail ELSE Fail
brace_exp(l)  == IF l.ok THEN Read(Brace(l.exps), l.rest) ELSE Fail

primary(text) ==
  CASE starts(text, {"("}) -> output_exp(expression(Tail(text)))
    [] starts(text, {"{"}) -> brace_exp(function_arguments(Tail(text), "}"))
    [] starts(text, {"true", "false"}) -> Read(Boolean(text[1][2] = "true"), Tail(text))
    [] starts(text, {"end"}) -> Read(SubEnd, Tail(text))
    [] isToken(text, "id")   -> call_or_reference(text[1][2], Tail(text))
    [] isToken(text, "real") -> Read(Real(text[1][2][1], text[1][2][2]), Tail(text))
    [] isToken(text, "int")  -> Read(Integer(text[1][2]), Tail(text))
    [] OTHER -> Fail

(***************************************************************************)
(* The rules from factor to logical_expression.  Each of them reads the    *)
(* one before it, and the same again behind every operator of its own.     *)
(***************************************************************************)
factor == 1
term == 2
arithmetic_expression == 3
relation == 4
logical_factor == 5
logical_term == 6
logical_expression == 7
Operators == << {"^"}, {"*", "/"}, {"+", "-"}, Relations, {}, {"and"}, {"or"} >>
Once == {factor, relation}   \* -(op > operand), where the others are *(op > operand)

withSign(sign, e) == IF e.ok THEN Read(UnaryOp(e.exp, sign), e.rest) ELSE Fail
applied(e, r) == Read(BinOp(e.exp, e.rest[1][2], r.exp), r.rest)

RECURSIVE operand(_, _)
RECURSIVE chain(_, _)
(* What the rule makes of its first operand and of the text behind it, to the left *)
linked(rule, e, r) ==
  IF r.ok THEN IF rule \in Once THEN applied(e, r) ELSE chain(rule, applied(e, r)) ELSE Fail
chain(rule, e) ==
  IF starts(e.rest, Operators[rule]) THEN linked(rule, e, operand(rule - 1, Tail(e.rest))) ELSE e

RECURSIVE chains(_, _, _)
chains(first, last, e) ==
  IF e.ok THEN IF first <= last THEN chains(first + 1, last, chain(first, e)) ELSE e ELSE e

(* What a rule reads.  Only a sum begins with a sign, and only a logical_factor with a not. *)
operand(rule, text) ==
  CASE rule >= arithmetic_expression /\ starts(text, {"+", "-"}) ->
         chains(arithmetic_expression, rule, withSign(text[1][2], operand(term, Tail(text))))
    [] rule >= logical_factor /\ starts(text, {"not"}) ->
         chains(logical_term, rule, withSign("not", operand(relation, Tail(text))))
    [] OTHER -> chains(factor, rule, primary(text))

(* logical, logical : logical or logical : logical : logical.  The middle one is the step. *)
rangeFrom(a) ==
  LET b == operand(logical_expression, Tail(a.rest))
      c == operand(logical_expression, Tail(b.rest))
  IN  IF ~b.ok THEN Fail
      ELSE IF ~starts(b.rest, {":"}) THEN Read(RangeExp(<<a.exp, b.exp>>), b.rest)
      ELSE IF c.ok THEN Read(RangeExp(<<a.exp, c.exp, b.exp>>), c.rest) ELSE Fail
simpleFrom(a) == IF a.ok THEN IF starts(a.rest, {":"}) THEN rangeFrom(a) ELSE a ELSE Fail
simple_expression(text) == simpleFrom(operand(logical_expression, text))

RECURSIVE if_clauses(_)
(* condition then expression, and what follows: elseif or else *)
if_clauses(text) ==
  LET c == expression(text)
      t == expression(Tail(c.rest))
      else == expression(Tail(t.rest))
      more == if_clauses(Tail(t.rest))
  IN  IF ~c.ok \/ ~starts(c.rest, {"then"}) \/ ~t.ok THEN FailList
      ELSE IF starts(t.rest, {"else"})
           THEN IF else.ok THEN [ok |-> TRUE, exps |-> <<c.exp, t.exp, else.exp>>, rest |-> else.rest]
                ELSE FailList
      ELSE IF starts(t.rest, {"elseif"}) /\ more.ok
           THEN [more EXCEPT !.exps = <<c.exp, t.exp, @[3], @[1], @[2]>> \o SubSeq(@, 4, Len(@))]
           ELSE FailList

expression(text) ==
  IF starts(text, {"if"})
  THEN LET l == if_clauses(Tail(text)) IN IF l.ok THEN Read(IfExp(l.exps), l.rest) ELSE Fail
  ELSE simple_expression(text)

(* A file is read only when nothing is left over. *)
allOf(e) == IF e.rest = <<>> THEN e ELSE Fail
Parse(text) == allOf(expression(text))
=============================================================================
