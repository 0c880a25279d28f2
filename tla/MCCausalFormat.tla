---------------------------- MODULE MCCausalFormat ----------------------------
(***************************************************************************)
(* Small models for the texts of the causalization.                        *)
(***************************************************************************)
EXTENDS CausalFormatProps

Array(n)   == [kind |-> "algebraic", size |-> n]
State(n)   == [kind |-> "state", size |-> n]
ScalarVar  == Array(0)

At(v, a, b) == <<[var |-> v, der |-> FALSE, a |-> a, b |-> b]>>
Der(v, a, b) == <<[var |-> v, der |-> TRUE, a |-> a, b |-> b]>>
ForI(first, last, terms) == [kind |-> "Equality", range |-> <<first, 1, last>>, terms |-> terms]
Single(terms) == [kind |-> "Equality", range |-> Scalar, terms |-> terms]
Model(vars, eqs) == [vars |-> vars, eqs |-> eqs]

i == 1      \* the coefficient of i + b

(* for i in 1:2 loop x[i] = y[i]; y[i] = x[i]: an array of two loops *)
ArrayOfLoops ==
  Model(<<Array(2), Array(2)>>,
        <<ForI(1, 2, <<At(1, i, 0), At(2, i, 0)>>), ForI(1, 2, <<At(2, i, 0), At(1, i, 0)>>)>>)

(* x[i] = y[i] and der(y[i]) = x[i]: the same with a derivative *)
DerivativeLoops ==
  Model(<<Array(2), State(2)>>,
        <<ForI(1, 2, <<At(1, i, 0), Der(2, i, 0)>>), ForI(1, 2, <<Der(2, i, 0), At(1, i, 0)>>)>>)

(* s = t; t = s *)
ScalarLoop ==
  Model(<<ScalarVar, ScalarVar>>,
        <<Single(<<At(1, 0, 1), At(2, 0, 1)>>), Single(<<At(2, 0, 1), At(1, 0, 1)>>)>>)

(* x[1] = x[2]; x[2] = x[1] *)
ElementLoop ==
  Model(<<Array(2)>>,
        <<Single(<<At(1, 0, 1), At(1, 0, 2)>>), Single(<<At(1, 0, 2), At(1, 0, 1)>>)>>)

(* for i in 1:2 loop x[i] = y[1]; y[1] = x[1] + x[2]: one loop, torn in y or in all of x *)
Star ==
  Model(<<Array(2), Array(1)>>,
        <<Single(<<At(2, 0, 1), At(1, 0, 1), At(1, 0, 2)>>),
          Single(<<At(1, 0, 1), At(2, 0, 1)>>), Single(<<At(1, 0, 2), At(2, 0, 1)>>)>>)

(* x[1] = x[3]; for i in 2:3 loop x[i] = x[i - 1]: one loop, torn anywhere *)
Ring ==
  Model(<<Array(3)>>,
        <<Single(<<At(1, 0, 1), At(1, 0, 3)>>), ForI(2, 3, <<At(1, i, 0), At(1, i, -1)>>)>>)

(* for i in 1:2 loop x[i] = y[i + 1]; y[i + 1] = x[i]; and y[1] on its own *)
Shifted ==
  Model(<<Array(2), Array(3)>>,
        <<ForI(1, 2, <<At(1, i, 0), At(2, i, 1)>>), ForI(1, 2, <<At(2, i, 1), At(1, i, 0)>>),
          Single(<<At(2, 0, 1)>>)>>)

(* for i in 1:3 loop x[i] = p; s = x[2]: no loop, and a variable without subscripts *)
NoLoop ==
  Model(<<Array(3), ScalarVar>>,
        <<ForI(1, 3, <<At(1, i, 0)>>), Single(<<At(2, 0, 1), At(1, 0, 2)>>)>>)

(* for i in 1:2 loop x[i] = y[i]; x[1] = y[1] ... in parts: the loop of x[1] is not that of x[2] *)
InParts ==
  Model(<<Array(2), Array(2)>>,
        <<ForI(1, 2, <<At(1, i, 0), At(2, i, 0)>>), Single(<<At(2, 0, 1), At(1, 0, 1)>>),
          Single(<<At(2, 0, 2)>>)>>)

(* One equation too many, and two equations for the same unknown *)
Unbalanced == Model(<<Array(2)>>, <<Single(<<At(1, 0, 1)>>)>>)
Singular   == Model(<<Array(2)>>, <<Single(<<At(1, 0, 1)>>), Single(<<At(1, 0, 1)>>)>>)

(* for i in 1:2 loop x[i] = y[i + 1]; for i in 2:3 loop y[i] = x[i - 1]; y[1] on its own:
   the loops are the same, their counters are not *)
OtherCounters ==
  Model(<<Array(2), Array(3)>>,
        <<ForI(1, 2, <<At(1, i, 0), At(2, i, 1)>>), ForI(2, 3, <<At(2, i, 0), At(1, i, -1)>>),
          Single(<<At(2, 0, 1)>>)>>)

(* connect(x[1], x[1]) *)
Connected == Model(<<Array(1)>>, <<[Single(<<At(1, 0, 1)>>) EXCEPT !.kind = "Connect"]>>)

InOrder == {Connected, ArrayOfLoops, DerivativeLoops, ScalarLoop, ElementLoop, Star, Ring,
            Shifted, NoLoop,
            InParts, OtherCounters, Unbalanced, Singular}

(* The equations in the order of the model, and from last to first *)
Looped == InOrder \cup {[m EXCEPT !.eqs = Reverse(@)] : m \in InOrder}
=============================================================================
