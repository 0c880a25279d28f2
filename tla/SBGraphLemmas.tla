--------------------------- MODULE SBGraphLemmas ---------------------------
(***************************************************************************)
(* What the operations of SBGraphs return.                                 *)
(***************************************************************************)
EXTENDS SBGraphs, FiniteSetTheorems, TLAPS

(***************************************************************************)
(* The map of one graph operation is defined on the edges of the other.    *)
(***************************************************************************)
WellFormed(g) == DOMAIN g.mapD = EdgesOf(g)

-----------------------------------------------------------------------------
(* A set of naturals that is not empty has a least element (Set::minElem). *)
LEMMA LeastElement ==
  ASSUME NEW S \in SUBSET Nat, S # {}
  PROVE  Min(S) \in S /\ \A x \in S : Min(S) =< x
<1> DEFINE Below(x) == 0..(x - 1)
           Initial  == {Below(x) : x \in S}
<1>1. \A x \in Nat : Below(x) \in FiniteSubsetsOf(Nat)
  BY FS_Interval DEF FiniteSubsetsOf
<1>2. PICK U \in Initial : \A V \in Initial : <<V, U>> \notin StrictSubsetOrdering(Nat)
  <2>1. Initial \subseteq FiniteSubsetsOf(Nat) /\ Initial # {}
    BY <1>1
  <2> QED
    BY <2>1, FS_StrictSubsetOrderingWellFounded, WFMin
<1>3. PICK m \in S : U = Below(m)
  OBVIOUS
<1>4. ASSUME NEW x \in S, x < m PROVE FALSE
  <2>1. Below(x) \subseteq Below(m) /\ x \in Below(m) /\ x \notin Below(x)
    BY <1>4
  <2>2. <<Below(x), Below(m)>> \in StrictSubsetOrdering(Nat)
    BY <2>1, <1>1 DEF StrictSubsetOrdering, FiniteSubsetsOf
  <2> QED
    BY <2>2, <1>2, <1>3
<1>5. \A x \in S : m =< x
  BY <1>4
<1> QED
  BY <1>5 DEF Min

(* A finite one has a largest element (Set::maxElem). *)
LEMMA LargestElement ==
  ASSUME NEW S \in SUBSET Nat, IsFiniteSet(S)
  PROVE  MaxElem(S) \in Nat /\ \A x \in S : x =< MaxElem(S)
<1>1. CASE S = {}
  BY <1>1 DEF MaxElem
<1>2. CASE S # {}
  <2> DEFINE Above(x) == {y \in S : y > x}
             Final    == {Above(x) : x \in S}
  <2>1. \A x \in S : Above(x) \in FiniteSubsetsOf(S)
    BY FS_Subset DEF FiniteSubsetsOf
  <2>2. PICK U \in Final : \A V \in Final : <<V, U>> \notin StrictSubsetOrdering(S)
    <3>1. Final \subseteq FiniteSubsetsOf(S) /\ Final # {}
      BY <2>1, <1>2
    <3> QED
      BY <3>1, FS_StrictSubsetOrderingWellFounded, WFMin
  <2>3. PICK m \in S : U = Above(m)
    OBVIOUS
  <2>4. ASSUME NEW x \in S, x > m PROVE FALSE
    <3>1. Above(x) \subseteq Above(m) /\ x \in Above(m) /\ x \notin Above(x)
      <4>1. ~ x > x /\ \A y \in S : y > x => y > m
        <5>1. x \in Nat /\ m \in Nat /\ \A y \in S : y \in Nat
          OBVIOUS
        <5> QED
          BY <5>1, <2>4
      <4> QED
        BY <4>1, <2>4
    <3>2. <<Above(x), Above(m)>> \in StrictSubsetOrdering(S)
      BY <3>1, <2>1 DEF StrictSubsetOrdering, FiniteSubsetsOf
    <3> QED
      BY <3>2, <2>2, <2>3
  <2>5. \A x \in S : m >= x
    BY <2>4
  <2> QED
    BY <2>5, <1>2 DEF MaxElem, Max
<1> QED
  BY <1>1, <1>2

-----------------------------------------------------------------------------
(* Maps *)

(* What restrict keeps. *)
LEMMA OnlyFacts ==
  ASSUME NEW f, NEW S
  PROVE  /\ DOMAIN Only(f, S) = S \cap DOMAIN f
         /\ \A x \in S \cap DOMAIN f : Only(f, S)[x] = f[x]
BY DEF Only, Restrict

(* One element of a restriction. *)
LEMMA OnlyAt ==
  ASSUME NEW f, NEW S, NEW x \in DOMAIN Only(f, S)
  PROVE  x \in S /\ x \in DOMAIN f /\ Only(f, S)[x] = f[x]
BY DEF Only, Restrict

(* Within the domain it keeps everything. *)
LEMMA OnlyWithin ==
  ASSUME NEW f, NEW S, S \subseteq DOMAIN f
  PROVE  /\ DOMAIN Only(f, S) = S
         /\ \A x \in S : Only(f, S)[x] = f[x]
<1>1. S \cap DOMAIN f = S
  OBVIOUS
<1> QED
  BY <1>1, OnlyFacts

(* Where a composition is defined, and its values. *)
LEMMA AfterFacts ==
  ASSUME NEW f, NEW g
  PROVE  /\ DOMAIN After(f, g) = {x \in DOMAIN g : g[x] \in DOMAIN f}
         /\ \A x \in DOMAIN After(f, g) : After(f, g)[x] = f[g[x]]
BY DEF After

(* One element of a composition. *)
LEMMA AfterAt ==
  ASSUME NEW f, NEW g, NEW x \in DOMAIN After(f, g)
  PROVE  x \in DOMAIN g /\ g[x] \in DOMAIN f /\ After(f, g)[x] = f[g[x]]
BY DEF After

(* A composition with a map whose values the other one takes is total. *)
LEMMA AfterWithin ==
  ASSUME NEW f, NEW g, \A x \in DOMAIN g : g[x] \in DOMAIN f
  PROVE  /\ DOMAIN After(f, g) = DOMAIN g
         /\ \A x \in DOMAIN g : After(f, g)[x] = f[g[x]]
<1>1. {x \in DOMAIN g : g[x] \in DOMAIN f} = DOMAIN g
  OBVIOUS
<1> QED
  BY <1>1 DEF After

(* The first map of combine wins. *)
LEMMA CombineFacts ==
  ASSUME NEW f, NEW g
  PROVE  /\ DOMAIN Combine(f, g) = DOMAIN f \cup DOMAIN g
         /\ \A x \in DOMAIN f : Combine(f, g)[x] = f[x]
         /\ \A x \in DOMAIN g \ DOMAIN f : Combine(f, g)[x] = g[x]
BY DEF Combine

(* An inverse is defined on the image, and takes it back. *)
LEMMA InverseFacts ==
  ASSUME NEW f
  PROVE  /\ DOMAIN AntiFunction(f) = Range(f)
         /\ \A y \in Range(f) : /\ AntiFunction(f)[y] \in DOMAIN f
                                /\ f[AntiFunction(f)[y]] = y
BY DEF AntiFunction, Inverse, Range

-----------------------------------------------------------------------------
(* Graphs *)

(* eraseEdges takes away the edges of the set and nothing else. *)
LEMMA EraseEdgesFacts ==
  ASSUME NEW g, WellFormed(g), NEW S
  PROVE  LET h == EraseEdges(g, S)
         IN  /\ h.V = g.V
             /\ EdgesOf(h) = EdgesOf(g) \ S
             /\ WellFormed(h)
             /\ \A e \in EdgesOf(h) : h.mapB[e] = g.mapB[e] /\ h.mapD[e] = g.mapD[e]
BY DEF EraseEdges, Graph, EdgesOf, WellFormed, Only, Restrict

(* eraseVertices takes the edges at the erased vertices away. *)
LEMMA EraseVerticesFacts ==
  ASSUME NEW g, WellFormed(g), NEW S
  PROVE  LET h == EraseVertices(g, S)
         IN  /\ h.V = g.V \ S
             /\ EdgesOf(h) = {e \in EdgesOf(g) : g.mapB[e] \notin S /\ g.mapD[e] \notin S}
             /\ WellFormed(h)
             /\ \A e \in EdgesOf(h) : h.mapB[e] = g.mapB[e] /\ h.mapD[e] = g.mapD[e]
<1> DEFINE gone == preImage(g.mapB, S) \cup preImage(g.mapD, S)
           k    == EraseEdges(g, gone)
<1>1. EraseVertices(g, S) = [k EXCEPT !.V = @ \ S]
  BY DEF EraseVertices
<1>2. k = [V |-> k.V, mapB |-> k.mapB, mapD |-> k.mapD]
  BY DEF EraseEdges, Graph
<1>3. /\ EraseVertices(g, S).V = k.V \ S
      /\ EraseVertices(g, S).mapB = k.mapB
      /\ EraseVertices(g, S).mapD = k.mapD
  BY <1>1, <1>2
<1>4. gone = {e \in EdgesOf(g) : g.mapB[e] \in S \/ g.mapD[e] \in S}
  BY DEF preImage, WellFormed, EdgesOf
<1> HIDE DEF gone
<1>5. /\ k.V = g.V
      /\ EdgesOf(k) = EdgesOf(g) \ gone
      /\ WellFormed(k)
      /\ \A e \in EdgesOf(k) : k.mapB[e] = g.mapB[e] /\ k.mapD[e] = g.mapD[e]
  BY EraseEdgesFacts
<1> HIDE DEF k
<1> QED
  BY <1>3, <1>4, <1>5 DEF EdgesOf, WellFormed

(* addSetEdge adds the edges both maps define and keeps the others. *)
LEMMA AddEdgesFacts ==
  ASSUME NEW g, WellFormed(g), NEW b, NEW d
  PROVE  LET h   == AddEdges(g, b, d)
             new == DOMAIN b \cap DOMAIN d
         IN  /\ h.V = g.V
             /\ EdgesOf(h) = EdgesOf(g) \cup new
             /\ WellFormed(h)
             /\ \A e \in EdgesOf(g) : h.mapB[e] = g.mapB[e] /\ h.mapD[e] = g.mapD[e]
             /\ \A e \in EdgesOf(h) \ EdgesOf(g) : h.mapB[e] = b[e] /\ h.mapD[e] = d[e]
BY DEF AddEdges, Graph, EdgesOf, WellFormed, Only, Restrict, Combine
=============================================================================
