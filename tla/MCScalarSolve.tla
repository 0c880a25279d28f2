---------------------------- MODULE MCScalarSolve ----------------------------
(***************************************************************************)
(* Equations for ScalarSolve, as the texts of files: every way to put two  *)
(* or three operands together, and a few for each kind of expression.      *)
(***************************************************************************)
EXTENDS ScalarSolve

Symbol(prefix, type, value, size) ==
  [prefix |-> prefix, type |-> type, value |-> value, size |-> size]

SymTable ==
  [v \in {"a", "b", "x"} |-> Symbol("", "Real", NoTree, 0)]
    @@ [v \in {"u"} |-> Symbol("", "Real", NoTree, 3)]
    @@ [v \in {"n"} |-> Symbol("parameter", "Integer", Integer(2), 0)]
    @@ [v \in {"q"} |-> Symbol("parameter", "Real", Real(1, 2), 0)]

Valuation(a, b, x, u, i) ==
  LET vals == [v \in {"a"} |-> <<Whole(a)>>] @@ [v \in {"b"} |-> <<Whole(b)>>]
                @@ [v \in {"x"} |-> <<Whole(x)>>] @@ [v \in {"u"} |-> [k \in 1..3 |-> Whole(u * k)]]
  IN  [val |-> vals, der |-> [v \in DOMAIN vals |-> [k \in DOMAIN vals[v] |-> Whole(7)]], i |-> i]
Valuations == {Valuation(3, 5, 2, 4, 2), Valuation(5, -2, 3, 6, 2)}

(* Texts *)
Num(n)       == <<<<"int", n>>>>
Half         == <<<<"real", <<1, 2>>>>>>
P(t)         == Enclosed("(", t, ")")
U(sub)       == Id("u") \o Enclosed("[", sub, "]")
Apply1(f, t) == Id(f) \o P(t)
Op(l, op, r) == l \o Sym(op) \o r
Minus(t)     == Sym("-") \o t

Variables == {Id("a"), Id("b"), U(Num(2)), U(Id("n"))}
Numbers   == {Id("n"), Id("q"), Num(0), Num(1), Num(2), Half}
Atoms     == Variables \cup Numbers

(* A division of two numbers and a broken exponent are left out. *)
Pairs(ls, rs) ==
  {Op(l, op, r) : l \in ls, op \in {"+", "-", "*"}, r \in rs}
    \cup {Op(l, "/", r) : l \in ls \cap Variables, r \in rs \ {Num(0)}}
Powers == {Op(l, "^", r) : l \in Variables \cup {Num(2)}, r \in {Num(2), Id("n"), Num(0)}}
Some   == {Id("a"), U(Id("n")), Id("n"), Num(0), Num(1)}

Chains == {Op(l, op, p) : l \in {Id("b"), Num(0)}, op \in {"-", "*"}, p \in Pairs(Some, Some)}
Nested == {Op(Id("b"), op, P(p)) : op \in {"+", "-", "*", "/"}, p \in Pairs(Some, Some)}
Minuses == {Minus(p) : p \in Pairs(Some, Some) \cup Atoms} \cup {Minus(P(p)) : p \in Pairs(Some, Some)}
             \cup {Op(Id("b"), op, P(Minus(v))) : op \in {"+", "-", "*"}, v \in Variables}
             \cup {Minus(P(Minus(v))) : v \in Variables}
Calls == {Apply1("sin", p) : p \in Pairs(Some, Some)}
           \cup {Apply1("der", Id("a")), Apply1("sum", Id("u"))}
           \cup {Id("f") \o P(Op(Op(v, ",", Id("b")), ",", w)) : v \in Variables, w \in Some}

Texts == Atoms \cup Pairs(Atoms, Atoms) \cup Powers \cup Chains \cup Nested \cup Minuses \cup Calls \cup {Apply1("integer", Id("n"))}

Job(l, r) == [tool |-> "solve", loop |-> FALSE, left |-> l, right |-> r, unknown |-> Reference("x", <<>>)]
X == Id("x")

Trivial == {Job(X, t) : t \in Texts} \cup {Job(t, X) : t \in Texts}
Linear ==
  {Job(l, r) : l \in {Op(X, "*", Id("a")), Op(Id("b"), "-", X), Op(Op(Num(2), "*", X), "+", Id("b")),
                      Op(X, "/", Id("n")), Minus(X), Op(P(Op(X, "+", Id("a"))), "*", U(Id("n"))),
                      Op(Id("a"), "/", X)},
               r \in Pairs(Some, Some) \cup Calls \cup {Op(X, "-", Id("a")), Op(Num(3), "*", X)}}
Derivatives ==
  {[Job(l, r) EXCEPT !.unknown = Call("der", <<Reference("x", <<>>)>>)] :
     l \in {Apply1("der", X), Op(Id("a"), "*", Apply1("der", X))}, r \in Pairs(Some, Some) \cup {Minus(X)}}
I == Id("i")
Loops ==
  {[tool |-> "solve", loop |-> TRUE, left |-> Op(l, op, r), right |-> rr, unknown |-> Reference("u", <<sub>>)] :
     l \in {U(I)}, op \in {"+", "-"}, r \in {Op(Id("a"), "*", U(Op(I, "+", Num(1)))), U(Op(I, "-", Num(1)))},
     rr \in {U(Op(I, "+", Num(1))), Id("b"), Op(I, "*", Id("a"))},
     sub \in {Reference("i", <<>>), BinOp(Reference("i", <<>>), "+", Integer(1))}}

(* Printed and read only: the other kinds of expressions *)
If(c, t, e) == Sym("if") \o c \o Sym("then") \o t \o Sym("else") \o e
Relation(op) == Op(Id("a"), op, Op(Id("b"), "*", Num(2)))
Conditions ==
  {Relation(op) : op \in Relations} \cup {Sym("not") \o P(Relation("<")), Sym("true"),
   Op(Relation("<"), "and", Op(Sym("not") \o Relation("=="), "or", Relation(">")))}
Ifs ==
  {If(c, Id("a"), e) : c \in Conditions, e \in {Id("n"), If(Relation("<="), Num(0), Id("b"))}}
    \cup {If(Relation(">"), If(Sym("false"), Id("a"), Num(1)), Minus(Id("b"))),
          Sym("if") \o Relation(">") \o Sym("then") \o Id("a") \o Sym("elseif") \o Relation("<")
            \o Sym("then") \o Id("b") \o Sym("else") \o Num(2)}
Range2 == Op(Num(1), ":", Op(Id("n"), "+", Num(1)))
Range3 == Op(Num(1), ":", Op(Num(2), ":", Minus(Id("n"))))
Others ==
  {Op(Num(1), "/", Id("n")), Op(Id("n"), "/", Num(2)), Range2, Range3, U(Sym(":")), U(Op(Sym("end"), "-", Num(1))),
   Enclosed("{", Op(Id("a"), ",", P(Minus(Num(1)))), "}"),
   Apply1("f", Op(Op(Id("a"), "*", Id("i")), "for", Op(Id("i"), "in", Range2))),
   Enclosed("{", Op(Id("i"), "for", Op(Id("i"), "in", Range3)), "}")}
Copies == {[Job(u, t) EXCEPT !.tool = "copy"] : t \in Ifs \cup Conditions \cup Others, u \in {P(X), Half}}

(* A quotient by zero, which the equation keeps: PartialEval folds it to a number, but only
   to look for the unknown.  On the left its number would be written; that is left out. *)
Infinite == {Job(X, Op(Num(2), "/", Num(0)))}

(* The program ends: a relation of numbers, an expression the visitors do not know, and a
   function that GiNaC does not give back *)
Ends == {Job(X, Op(Num(1), "<", Num(2))), Job(P(Op(Num(1), "<", Num(2))), X),
         Job(X, Enclosed("{", Id("a"), "}")), Job(Op(X, "+", Num(1)), Apply1("cos", Id("a")))}

Equations == Trivial \cup {Job(X, t) : t \in Ifs} \cup Linear \cup Derivatives \cup Loops \cup Copies \cup Infinite \cup Ends
=============================================================================
