--------------------------- MODULE MCEquationSolver ---------------------------
(***************************************************************************)
(* Small causal models for EquationSolver: up to three matches over the    *)
(* arrays x and y and the scalar s, each in an order that can be run.      *)
(***************************************************************************)
EXTENDS EquationSolver

Access(v, a, b) == [var |-> v, a |-> a, b |-> b]
x(b) == Access("x", 1, b)
y(b) == Access("y", 1, b)
z(b) == Access("z", 1, b)
s    == Access("s", 0, 1)

Element(v, others) == [var |-> v, uses |-> {v} \cup others]
Zero(v) == [var |-> Unmatched, uses |-> {v}]
Eq(range, body) == [range |-> range, body |-> body]

Up    == <<1, 1, 3>>
Down  == <<3, -1, 1>>
Odd   == <<1, 2, 3>>
DownOdd == <<3, -2, 1>>

Guess == Access("guess_x", 1, 0)
Res   == Access("res_x", 1, 0)

(* x = guess, y from x, the residual from y and x or its guess, and 0 = residual *)
Torn(others, torn) ==
  << Element(x(0), {Guess}),
     Element(y(0), {x(0)} \cup others),
     Element(Res, {torn, y(0)}),
     Zero(Res) >>

(* The causal model can be run: the equations of a match are solved together for each
   value of the counter. *)
Runs(model) ==
  /\ \A k \in DOMAIN model : Matched(model[k].body) # {}
  /\ InOrder([k \in DOMAIN model |-> Eq(model[k].range, lsolve(model[k].body))], Unknowns(model))

Loops(ranges, shifts) ==
  {Eq(r, <<Element(x(0), R)>>) : r \in ranges, R \in SUBSET ({y(b) : b \in shifts} \cup {s})}
  \cup {Eq(r, <<Element(y(0), R)>>) : r \in ranges, R \in SUBSET {x(b) : b \in shifts}}
  \cup {Eq(r, <<Element(y(0), {y(b)})>>) : r \in ranges, b \in shifts \ {0}}
  \cup {Eq(r, <<Element(x(0), {y(0)}), Element(y(0), {x(0), y(b)})>>) :
          r \in ranges, b \in shifts \ {0}}
  \cup {Eq(r, Torn(R, t)) : r \in ranges, R \in SUBSET {z(b) : b \in shifts}, t \in {x(0), Guess}}
  \cup {Eq(r, <<Element(z(0), {x(b)})>>) : r \in ranges, b \in shifts}

Scalars == {Eq(Scalar, <<Element(s, R)>>) : R \in SUBSET {Access("x", 0, 1), Access("y", 0, 3)}}

Distinct(model) ==
  \A j, k \in DOMAIN model : \A e \in Range(model[j].body), f \in Range(model[k].body) :
    e.var = f.var /\ e.var # Unmatched => j = k /\ e = f

CausalModels(eqs, len) ==
  {m \in UNION {[1..n -> eqs] : n \in 1..len} : Distinct(m) /\ Runs(m)}

(* Going up with accesses to what was computed before, and going down *)
Forward  == CausalModels(Loops({Up, Odd}, {-1, 0}) \cup Scalars, 3)
Backward == CausalModels(Loops({Down}, {0, 1}) \cup Scalars, 3)
Sorted   == Forward \cup Backward

(* They meet what the theorems of EquationSolverProofs ask of a causal model. *)
ASSUME \A model \in Sorted : TurnsByOne(model) /\ Unambiguous(model) /\ ReadsBehind(model)

(* Two loops of one range, the second of which reads ahead in what the first computes *)
ReadAhead == CausalModels(Loops({Up}, {0, 1}), 2)

(* A loop that goes down in steps of two, for which EachUnknownOnce does not hold *)
StepsDown == CausalModels(Loops({DownOdd}, {0}), 1)
=============================================================================
