------------------------------ MODULE MCSBGInput ------------------------------
(***************************************************************************)
(* Small models for SBGInput: two or three equations over a state array x, *)
(* an array y, a scalar s and a parameter p.                               *)
(***************************************************************************)
EXTENDS SBGInput

Var(kind, size) == [kind |-> kind, size |-> size]

x == 1
y == 2
s == 3
p == 4

Declared ==
  <<Var("state", 3), Var("algebraic", 2), Var("algebraic", 0), Var("parameter", 0)>>

Access(var, a, b) == [var |-> var, der |-> FALSE, a |-> a, b |-> b]
der(acc)  == [acc EXCEPT !.der = TRUE]
Ref(acc)  == <<acc>>
Named(v)  == Ref(Access(v, 0, 1))
Eq(range, terms) == [kind |-> "Equality", range |-> range, terms |-> terms]

Kinds ==
  { Eq(<<1, 1, 3>>, <<Ref(der(Access(x, 1, 0))), Ref(Access(x, 1, 0)), Named(p)>>),
    Eq(<<1, 1, 2>>, <<Ref(Access(y, 1, 0)), Named(s), Ref(Access(x, 1, 1))>>),
    Eq(<<2, 1, 3>>, <<Ref(Access(y, 1, -1)), Ref(der(Access(x, 1, -1)))>>),
    Eq(<<1, 2, 3>>, <<Ref(der(Access(x, 1, 0))), Named(s)>>),
    Eq(<<1, 1, 2>>, <<Ref(Access(y, 1, 0)), Ref(der(Access(x, 1, 1)))>>),
    Eq(Scalar, <<Named(s), <<Access(y, 0, 1), der(Access(x, 0, 3))>>>>),
    Eq(Scalar, <<Named(s), Ref(Access(y, 0, 1)), Ref(Access(y, 0, 2))>>) }

Refused ==
  { [Eq(<<1, 1, 2>>, <<Ref(Access(y, 1, 0))>>) EXCEPT !.kind = "Connect"],
    [Eq(Scalar, <<Named(s)>>) EXCEPT !.kind = "When"],
    Eq(<<2, -1, 1>>, <<Ref(Access(y, 1, 0))>>) }

Model(eqs) == [vars |-> Declared, eqs |-> eqs]

Plain == {Model(<<e, f>>) : e \in Kinds, f \in Kinds \cup Refused}
           \cup {Model(<<e, f, e>>) : e, f \in Kinds}

ASSUME PlainAssumption == \A m \in Plain : UnitSubscripts(m) /\ OneMatchPerTerm(m)

(* After an equation that has an edge of its own: for i in 1:2 loop y[i] = y[1], and
   y[i] = y[3 - i], and an array of one element, for i in 1:1 loop z[i] = s. *)
OtherSubscripts ==
  {Model(<<e, Eq(<<1, 1, 2>>, <<Ref(Access(y, 1, 0)), Ref(acc)>>)>>) :
     e \in Kinds, acc \in {Access(y, 0, 1), Access(y, -1, 3)}}
  \cup {[vars |-> Append(Declared, Var("algebraic", 1)),
         eqs  |-> <<e, Eq(<<1, 1, 1>>, <<Ref(Access(5, 1, 0)), Named(s)>>)>>] : e \in Kinds}

(* s = f(y[1], y[2]) *)
TwoArguments ==
  {Model(<<e, Eq(Scalar, <<Named(s), <<Access(y, 0, 1), Access(y, 0, 2)>>>>)>>) : e \in Kinds}
=============================================================================
