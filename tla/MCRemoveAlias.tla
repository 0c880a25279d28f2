----------------------------- MODULE MCRemoveAlias -----------------------------
(***************************************************************************)
(* Small flat models for RemoveAlias: three or four scalar variables, or   *)
(* two arrays and a scalar.                                                *)
(***************************************************************************)
EXTENDS RemoveAlias, ExpressionVisitors

Signs == {-1, 0, 1}

a == Ref("a", Whole)
b == Ref("b", Whole)
c == Ref("c", Whole)
x == Ref("x", Whole)
u(sub) == Ref("u", sub)
v(sub) == Ref("v", sub)

Model(eqs) ==
  [names       |-> {"a", "b", "c", "x"},
   equations   |-> eqs,
   initial_eqs |-> <<Equality(x, Add(a, b))>>,
   statements  |-> <<Equality(c, Sub(a, b))>>,
   initial_sts |-> <<Equality(b, Add(c, x))>>]

Aliases ==
  { Equality(a, b), Equality(Neg(a), b), Equality(a, Neg(c)), Equality(Add(a, b), Number(0)),
    Equality(Number(0), Sub(c, b)), Equality(c, Neg(x)), Equality(x, a),
    Equality(Number(1), a), Equality(b, Sub(Number(0), Number(1))),
    Equality(Neg(b), Neg(x)) }

Others ==
  { Equality(Der(x), Add(a, b)), Equality(Der(x), Neg(c)), Equality(Add(a, c), b),
    Equality(Add(Neg(a), Neg(Neg(b))), Number(0)),
    Equality(b, IfExp(a, c, <<>>, Number(1))) }

ScalarModels ==
  {Model(<<e, f, g>>) : e \in Others \cup Aliases, f \in Aliases, g \in Others \cup Aliases}

(* a = b and a = -b, which b = 0 solves *)
Opposites == {Model(<<Equality(a, b), Equality(a, Neg(b)), e>>) : e \in Others}

(* a = if b then c elseif x then 1 else 0 *)
ElseIfs ==
  {Model(<<Equality(a, c), Equality(e, IfExp(b, c, <<[cond |-> x, then |-> Number(1)]>>, Number(0)))>>)
     : e \in {a, b}}

(* The state x is a number, and the equation around der(x) speaks of another state. *)
StateIsNumber ==
  {Model(<<Equality(x, Number(1)), Equality(Der(x), Add(b, b)), Equality(Der(b), a)>>)}

Loop(start, step, end) == <<start, step, end>>
ForEq(loop, l, r) == [loop |-> loop, left |-> l, right |-> r]
ArrayModel(eqs, sts) ==
  [names |-> {"a", "b", "u", "v"}, equations |-> eqs, initial_eqs |-> <<>>, statements |-> sts,
   initial_sts |-> <<>>]

ForEqs(start, step, subs) ==
  {ForEq(Loop(start, step, N), l, r) :
     l \in {u(Counter), Number(0)}, r \in {v(s) : s \in subs} \cup {Neg(v(Counter)), a, b}}

ArrayModels ==
  {ArrayModel(<<e, f, g>>, <<>>) :
     e \in ForEqs(1, 1, {Counter}) \cup ForEqs(2, 1, {Counter}),
     f \in ForEqs(1, 1, {Counter}) \cup {Equality(a, b), Equality(a, Number(1))},
     g \in ForEqs(1, 1, {Counter}) \cup {Equality(u(First), Add(v(First), a))}}

(* Signs, sums and numbers in every order, next to an alias or not *)
Terms   == {a, Neg(a), x, Neg(x), Number(1), Neg(Number(1)), Parens(Number(-1)),
            Sub(Number(0), Neg(b))}
Compare(s, t) ==
  {Equality(s, t), Equality(Add(s, t), Number(0)), Equality(Number(0), Sub(s, t))}
SignedModels ==
  {Model(<<Equality(Der(x), b), e, f>>) :
     e \in UNION {Compare(s, t) : s \in Terms, t \in Terms},
     f \in {Equality(c, a), Equality(c, Add(a, b))}}

FlatModels == ScalarModels \cup SignedModels \cup ArrayModels

ASSUME FlatModelsAssumption == \A m \in FlatModels : Regular(m) /\ Comparable(m)

(* u[i] = v[1], u[i] = v[N + 1 - i], and u[i] = v[i] for odd i only *)
OtherLoops ==
  {ArrayModel(<<e, Equality(u(First), Number(1))>>, <<>>) :
     e \in ForEqs(1, 1, {First, Reversed}) \cup ForEqs(1, 2, {Counter})}

(* A statement reads an element of an array that is removed. *)
ArrayStatements ==
  {ArrayModel(<<e>>, <<Equality(a, u(First))>>) : e \in ForEqs(1, 1, {Counter})}
=============================================================================
