------------------------------ MODULE SBGraphs ------------------------------
(***************************************************************************)
(* The operations of the Set-Based Graph library that the causalizer uses, *)
(* element by element.  The library is a git submodule and no part of the  *)
(* repository: what an operation does is read off the way the code in      *)
(* causalize/ and util/sbg/ uses it.  A PWMap is a function, a Set is a    *)
(* set of integers, and a DirectedSBG is a record of its vertices and of   *)
(* the functions mapB and mapD that give the start and the end of an edge; *)
(* the edges are the domain of these functions.                            *)
(***************************************************************************)
EXTENDS Integers, FiniteSetsExt, Functions

(* PWMap *)
Only(f, S) == Restrict(f, S \cap DOMAIN f)                  \* restrict

preImage(f, S) == {x \in DOMAIN f : f[x] \in S}

Image(f, S) == {f[x] : x \in S \cap DOMAIN f}               \* image

FixedPoints(f) == {x \in DOMAIN f : f[x] = x}               \* fixedPoints

After(f, g) ==                                              \* f.composition(g)
  [x \in {y \in DOMAIN g : g[y] \in DOMAIN f} |-> f[g[x]]]

Combine(f, g) ==                                            \* f.combine(g)
  [x \in DOMAIN f \cup DOMAIN g |-> IF x \in DOMAIN f THEN f[x] ELSE g[x]]

Id(S) == [x \in S |-> x]                                    \* PWMap{S}

Translate(S, k) == [x \in S |-> x + k]                      \* PWMap{S} + k

MinAdj(f, g) ==                                             \* f.minAdj(g)
  [y \in Range(f) |-> Min({g[x] : x \in preImage(f, {y})})]

EqualImage(f, g) ==                                         \* f.equalImage(g)
  {x \in DOMAIN f \cap DOMAIN g : f[x] = g[x]}

MaxElem(S) == IF S = {} THEN 0 ELSE Max(S)                  \* maxElem

(* DirectedSBG *)
Graph(V, mapB, mapD) == [V |-> V, mapB |-> mapB, mapD |-> mapD]

EdgesOf(g) == DOMAIN g.mapB

EraseEdges(g, S) ==
  Graph(g.V, Only(g.mapB, EdgesOf(g) \ S), Only(g.mapD, EdgesOf(g) \ S))

EraseVertices(g, S) ==
  LET gone == preImage(g.mapB, S) \cup preImage(g.mapD, S)
  IN  [EraseEdges(g, gone) EXCEPT !.V = @ \ S]

AddVertices(g, S) == Graph(g.V \cup S, g.mapB, g.mapD)

(* Only the elements that both maps define become edges. *)
AddEdges(g, mapB, mapD) ==
  LET new == DOMAIN mapB \cap DOMAIN mapD
  IN  Graph(g.V, Combine(g.mapB, Only(mapB, new)), Combine(g.mapD, Only(mapD, new)))

Parts(S) == (SUBSET S) \ {{}}                \* the non-empty subsets

Precedes(g, S, v) ==      \* the vertices of S with an edge to v
  {u \in S : \E e \in EdgesOf(g) : g.mapB[e] = u /\ g.mapD[e] = v}

(***************************************************************************)
(* A graph has no cycle among the vertices S iff every non-empty part of S *)
(* has a vertex that no vertex of that part precedes.                      *)
(***************************************************************************)
AcyclicOn(g, S) ==
  \A T \in Parts(S) : \E v \in T : Precedes(g, T, v) = {}

(***************************************************************************)
(* A bipartite graph: an edge joins an equation of X and an unknown of Y,  *)
(* in either direction.  The numbers ModelicaSBG gives out are positive,   *)
(* and keep the two sides apart.                                           *)
(***************************************************************************)
IsSystem(s) ==
  /\ s = [X |-> s.X, Y |-> s.Y, map1 |-> s.map1, map2 |-> s.map2]
  /\ \A S \in {s.X, s.Y, DOMAIN s.map1} : IsFiniteSet(S) /\ S \subseteq Nat \ {0}
  /\ s.X \cap s.Y = {}
  /\ s.map1 \in [DOMAIN s.map1 -> s.X \cup s.Y]
  /\ s.map2 \in [DOMAIN s.map1 -> s.X \cup s.Y]
  /\ \A e \in DOMAIN s.map1 : s.map1[e] \in s.X <=> s.map2[e] \in s.Y
=============================================================================
