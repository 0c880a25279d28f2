--------------------------- MODULE MCCausalization ---------------------------
(***************************************************************************)
(* Small systems for VerticalSorting and its properties.                   *)
(***************************************************************************)
EXTENDS CausalizationProps

(* n equations 1..n and m unknowns n+1..n+m, one edge per occurrence in occ. *)
System(n, m, occ) ==
  LET id(o) == o[1] * (m + 1) + o[2]
      of(e) == CHOOSE o \in occ : id(o) = e
      edges == {id(o) : o \in occ}
  IN  [X |-> 1..n, Y |-> (n + 1)..(n + m),
       map1 |-> [e \in edges |-> of(e)[1]],
       map2 |-> [e \in edges |-> n + of(e)[2]]]

Square(n) == {System(n, n, occ) : occ \in SUBSET ((1..n) \X (1..n))}

NotSquare == {System(2, 1, {<<1, 1>>, <<2, 1>>})}

(* The unknown of the second equation occurs twice in it, and a loop. *)
Repeated ==
  {[X |-> {1, 2}, Y |-> {3, 4},
    map1 |-> 1 :> 1 @@ 2 :> 1 @@ 3 :> 2 @@ 4 :> 2 @@ 5 :> 2,
    map2 |-> 1 :> 3 @@ 2 :> 4 @@ 3 :> 4 @@ 4 :> 4 @@ 5 :> 3]}

(* Three equations in two loops, and in one loop *)
Chosen == {System(3, 3, occ) : occ \in
  { {<<1, 1>>, <<1, 2>>, <<2, 1>>, <<2, 2>>, <<3, 2>>, <<3, 3>>},
    {<<1, 1>>, <<1, 3>>, <<2, 2>>, <<2, 3>>, <<3, 2>>, <<3, 3>>},
    {<<1, 1>>, <<1, 3>>, <<2, 1>>, <<2, 2>>, <<3, 2>>, <<3, 3>>} }}

UpToTwo == Square(1) \cup Square(2) \cup NotSquare \cup Repeated \cup Chosen

(* Every system of three equations that has a full matching is one of these, up to
   the numbering of its unknowns. *)
Matched == {System(3, 3, occ \cup {<<i, i>> : i \in 1..3}) : occ \in SUBSET ((1..3) \X (1..3))}

AllOfThree == Square(1) \cup Square(2) \cup Square(3) \cup NotSquare \cup Repeated
=============================================================================
