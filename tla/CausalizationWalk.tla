-------------------------- MODULE CausalizationWalk --------------------------
(***************************************************************************)
(* The walks of VerticalSortingResult over the order find a vertex to go   *)
(* on with as long as there is one to write, for every system, every       *)
(* choice of its matching, components and tearing variables, and every     *)
(* order that keeps the loops together between their ends.                 *)
(***************************************************************************)
EXTENDS CausalizationProofs, CausalizationProps

(***************************************************************************)
(* Types of the walks: before the graph is built they have not begun.      *)
(***************************************************************************)
Unbegun ==
  stage \notin Built =>
    /\ order = <<>> /\ unsorted_sccs = {} /\ sccs_smap = Empty /\ jth_scc = {}
    /\ unsorted_vertices = {} /\ vertices_smap = Empty /\ jth_vertices = {}

SInv == SortTypeOK /\ Unbegun /\ order \in Seq(out.V)

LEMMA InitSInv == SortInit => SInv
BY DEF SortInit, Init, SInv, SortTypeOK, Unbegun, Stages, Range, IsInjective, Empty, Id

(* What is on the order is on the map of it. *)
LEMMA SortDomain == DOMAIN sort = Range(order)
BY DEF sort

LEMMA RestrictedDomain ==
  ASSUME NEW f, NEW S
  PROVE  DOMAIN Only(f, S) \subseteq DOMAIN f /\ DOMAIN Only(f, S) \subseteq S
<1>1. DOMAIN Only(f, S) = S \cap DOMAIN f
  BY OnlyFacts
<1> QED
  BY <1>1

(* A vertex is put on the order at its end. *)
LEMMA OrderGrows ==
  ASSUME IInv, SInv, TopologicalSorting
  PROVE  /\ order' \in Seq(out.V) /\ Range(order') \subseteq out.V /\ IsInjective(order')
<1>1. PICK v \in out.V : Orderable(v) /\ order' = Append(order, v)
  BY DEF TopologicalSorting
<1>2. order \in Seq(out.V) /\ v \notin Range(order) /\ IsInjective(order)
  BY <1>1 DEF SInv, SortTypeOK, Orderable
<1>3. order' \in Seq(out.V) /\ Len(order') = Len(order) + 1 /\ Len(order) \in Nat
  BY <1>1, <1>2
<1>4. \A i \in DOMAIN order' : order'[i] = IF i = Len(order) + 1 THEN v ELSE order[i]
  BY <1>1, <1>2
<1>5. \A i \in DOMAIN order' : i # Len(order) + 1 => i \in DOMAIN order
  BY <1>2, <1>3
<1>6. \A i \in DOMAIN order : order[i] # v
  BY <1>2 DEF Range
<1>7. IsInjective(order')
  BY <1>2, <1>4, <1>5, <1>6 DEF IsInjective
<1> QED
  BY <1>3, <1>7 DEF Range

(* What sortLoops takes from the order and the graph. *)
LEMMA LoopsTaken ==
  ASSUME IInv, SInv, sortLoops
  PROVE  /\ unsorted_sccs' \subseteq FixedPoints(rmap)
         /\ DOMAIN sccs_smap' \subseteq end_points /\ jth_scc' \subseteq end_points
<1>1. GuessOK
  BY DEF IInv, sortLoops, Untorn, Early
<1>2. FixedPoints(out_rmap) \subseteq FixedPoints(rmap)
  BY <1>1 DEF GuessOK, FixedPoints
<1>3. DOMAIN sccsSmap \subseteq DOMAIN Only(sort, end_points)
  BY AfterFacts DEF sccsSmap
<1>4. DOMAIN sccsSmap \subseteq end_points
  BY <1>3, RestrictedDomain
<1> QED
  BY <1>2, <1>4 DEF sortLoops, FixedPoints

(* The starts of the loops are vertices of the graph. *)
LEMMA StartsTyped ==
  ASSUME IInv, KInv, stage \in Built
  PROVE  /\ GuessOK /\ LoopsOK /\ EndpointsOK /\ StartsKnown /\ OthersStay
         /\ \A c \in FixedPoints(rmap) :
              /\ c \in M /\ rmap[c] = c
              /\ reps_to_endpoints[c] \in M /\ out_rmap[reps_to_endpoints[c]] = c
              /\ StartOf(c) \in out.V /\ out_rmap[StartOf(c)] = c
         /\ end_points \subseteq out.V
<1>1. GuessOK /\ LoopsOK /\ EndpointsOK /\ StartsKnown /\ OthersStay
  BY DEF IInv, KInv, Untorn, Early, Built
<1>2. ASSUME NEW c \in FixedPoints(rmap)
      PROVE  /\ c \in M /\ rmap[c] = c
             /\ reps_to_endpoints[c] \in M /\ out_rmap[reps_to_endpoints[c]] = c
             /\ StartOf(c) \in out.V /\ out_rmap[StartOf(c)] = c
  <2>1. c \in M /\ rmap[c] = c
    BY <1>1 DEF FixedPoints, LoopsOK
  <2>2. reps_to_endpoints[c] \in M /\ rmap[reps_to_endpoints[c]] = c
    BY <2>1, <1>1 DEF EndpointsOK
  <2> QED
    BY <2>1, <2>2, <1>1 DEF GuessOK, StartOf
<1> QED
  BY <1>1, <1>2 DEF StartsKnown

(* What sortLoop takes for the loop in turn. *)
LEMMA LoopTaken ==
  ASSUME IInv, KInv, SInv, sortLoop
  PROVE  /\ unsorted_vertices' \subseteq out.V
         /\ DOMAIN vertices_smap' \subseteq out.V /\ jth_vertices' \subseteq out.V
<1>1. GuessOK
  BY DEF IInv, sortLoop, Untorn, Early
<1>2. CASE UNCHANGED svars
  BY <1>2 DEF SInv, SortTypeOK, svars
<1>3. CASE \E v \in InTurn(sccs_smap, jth_scc) :
             /\ unsorted_vertices' = represented(v)
             /\ vertices_smap' = Only(sort, represented(v))
             /\ jth_vertices' = {v}
  <2>1. PICK v \in InTurn(sccs_smap, jth_scc) :
             /\ unsorted_vertices' = represented(v)
             /\ vertices_smap' = Only(sort, represented(v))
             /\ jth_vertices' = {v}
    BY <1>3
  <2>2. represented(v) \subseteq out.V
    BY <1>1 DEF represented, Loop, preImage, GuessOK
  <2>3. DOMAIN Only(sort, represented(v)) \subseteq represented(v)
    BY RestrictedDomain
  <2>4. v \in end_points
    BY DEF InTurn, SInv, SortTypeOK
  <2>5. v \in out.V
    BY <2>4, StartsTyped DEF sortLoop, Built, Stages, Untorn, Early
  <2> QED
    BY <2>1, <2>2, <2>3, <2>5
<1> QED
  BY <1>2, <1>3 DEF sortLoop

LEMMA VertexTaken ==
  ASSUME SInv, sortVertex
  PROVE  /\ unsorted_vertices' \subseteq out.V
         /\ DOMAIN vertices_smap' \subseteq out.V /\ jth_vertices' \subseteq out.V
<1>1. unsorted_vertices' \subseteq out.V /\ DOMAIN vertices_smap' \subseteq out.V
  <2>1. \A S : DOMAIN Only(vertices_smap, S) \subseteq DOMAIN vertices_smap
    BY RestrictedDomain
  <2> QED
    BY <2>1 DEF sortVertex, SInv, SortTypeOK
<1>2. preImage(vertices_smap', jth_vertices) \subseteq out.V
  BY <1>1 DEF preImage
<1>3. \A v : preImage(vertices_smap', {v}) \subseteq out.V
  BY <1>1 DEF preImage
<1>4. jth_vertices' \subseteq out.V
  <2>1. CASE jth_vertices' = jth_vertices
    BY <2>1 DEF SInv, SortTypeOK
  <2>2. CASE \E v : jth_vertices' \in {{w} : w \in preImage(vertices_smap', {v})}
    <3>1. PICK v : jth_vertices' \in {{w} : w \in preImage(vertices_smap', {v})}
      BY <2>2
    <3>2. PICK w \in preImage(vertices_smap', {v}) : jth_vertices' = {w}
      BY <3>1
    <3> QED
      BY <1>3, <3>2
  <2>3. CASE InTurn(vertices_smap, jth_vertices) = {}
    BY <2>1, <2>3 DEF sortVertex
  <2>4. CASE InTurn(vertices_smap, jth_vertices) # {}
    <3>1. PICK v : LET next == preImage(vertices_smap', {v})
                   IN  jth_vertices' \in IF next = {} THEN {jth_vertices} ELSE {{w} : w \in next}
      BY <2>4 DEF sortVertex
    <3> QED
      BY <2>1, <2>2, <3>1
  <2> QED
    BY <2>3, <2>4
<1> QED
  BY <1>1, <1>4

LEMMA NextTaken ==
  ASSUME SInv, nextLoop
  PROVE  /\ unsorted_sccs' \subseteq FixedPoints(rmap)
         /\ DOMAIN sccs_smap' \subseteq end_points /\ jth_scc' \subseteq end_points
<1>1. unsorted_sccs' \subseteq FixedPoints(rmap)
  BY DEF nextLoop, SInv, SortTypeOK
<1>2. DOMAIN sccs_smap' \subseteq end_points
  BY RestrictedDomain DEF nextLoop, SInv, SortTypeOK
<1>3. preImage(sccs_smap', jth_scc) \subseteq end_points
  BY <1>2 DEF preImage
<1> QED
  BY <1>1, <1>2, <1>3 DEF nextLoop, SInv, SortTypeOK

LEMMA NextSInv == IInv /\ IInv' /\ KInv /\ SInv /\ [Next]_vars => SInv'
<1> SUFFICES ASSUME IInv, IInv', KInv, SInv, [Next]_vars PROVE SInv'
  OBVIOUS
<1>0. stage' \in Stages
  BY DEF IInv, StageOK
<1>1. CASE BuilderNext /\ UNCHANGED <<order, svars>>
  <2>1. stage \notin Built
    BY <1>1 DEF BuilderNext, HorizontalSorting, AlgebraicLoopsDetector, TearingDetector, build,
       addGuessVertices, endPoints, addDependencies, redirectEdiff, Built, Untorn, Early
  <2>2. /\ order' = <<>> /\ unsorted_sccs' = {} /\ sccs_smap' = Empty /\ jth_scc' = {}
        /\ unsorted_vertices' = {} /\ vertices_smap' = Empty /\ jth_vertices' = {}
    BY <1>1, <2>1 DEF SInv, Unbegun, svars
  <2> QED
    BY <1>0, <2>2 DEF SInv, SortTypeOK, Unbegun, Range, IsInjective, Empty, Id
<1>2. CASE TopologicalSorting
  <2>1. stage \in Built /\ UNCHANGED <<out, rmap, end_points, svars>>
    BY <1>2 DEF TopologicalSorting, Built, Stages, Untorn, Early
  <2>2. stage' \in Built
    BY <1>2, <2>1 DEF TopologicalSorting, Built, Stages, Untorn, Early
  <2> QED
    BY <1>0, <1>2, <2>1, <2>2, OrderGrows DEF SInv, SortTypeOK, Unbegun, svars
<1>3. CASE sortLoops
  BY <1>0, <1>3, LoopsTaken DEF sortLoops, SInv, SortTypeOK, Unbegun, Built, Stages, Untorn, Early
<1>4. CASE sortLoop
  <2>1. UNCHANGED <<out, rmap, end_points, order, unsorted_sccs, sccs_smap, jth_scc>>
    BY <1>4 DEF sortLoop, svars
  <2>2. stage' \in Built
    BY <1>4 DEF sortLoop, Built, Stages, Untorn, Early
  <2> QED
    BY <1>0, <1>4, <2>1, <2>2, LoopTaken DEF SInv, SortTypeOK, Unbegun
<1>5. CASE sortVertex
  <2>1. UNCHANGED <<out, rmap, end_points, order, unsorted_sccs, sccs_smap, jth_scc>>
    BY <1>5 DEF sortVertex
  <2>2. stage' \in Built
    BY <1>5 DEF sortVertex, Built, Stages, Untorn, Early
  <2> QED
    BY <1>0, <1>5, <2>1, <2>2, VertexTaken DEF SInv, SortTypeOK, Unbegun
<1>6. CASE nextLoop
  BY <1>0, <1>6, NextTaken DEF nextLoop, SInv, SortTypeOK, Unbegun, Built, Stages, Untorn, Early
<1>7. CASE Sorted
  BY <1>0, <1>7 DEF Sorted, svars, SInv, SortTypeOK, Unbegun, Built, Stages, Untorn, Early
<1>8. CASE UNCHANGED vars
  BY <1>0, <1>8 DEF vars, bvars, svars, SInv, SortTypeOK, Unbegun
<1> QED
  BY <1>1, <1>2, <1>3, <1>4, <1>5, <1>6, <1>7, <1>8 DEF Next, Work

(***************************************************************************)
(* The type invariant of the vertical sorting: the order has each vertex   *)
(* once, and what the walks hold is a part of the graph.                   *)
(***************************************************************************)
THEOREM SortTypes == Spec => []SortTypeOK
<1>1. SortInit => SInv
  BY InitSInv
<1>2. IInv /\ IInv' /\ KInv /\ SInv /\ [Next]_vars => SInv'
  BY NextSInv
<1>3. SInv => SortTypeOK
  BY DEF SInv
<1> QED
  BY Invariance, KeptInvariance, <1>1, <1>2, <1>3, PTL DEF Spec

-----------------------------------------------------------------------------
(* What the loops and the order are like *)

Balanced == Cardinality(bsbg.X) = Cardinality(bsbg.Y)

(* The loop detection graph is the one of the matching. *)
Matched == Balanced /\ M \in FullMatchings /\ dsbg = buildLoopDetectionSBG

(* The new vertices are the guesses, and no two tearing variables share one. *)
GuessesApart ==
  /\ \A x \in residual : guess_offset[x] \in out.V \ M
  /\ \A x, y \in residual : guess_offset[x] = guess_offset[y] => x = y
  /\ \A v \in out.V \ M : \E x \in residual : guess_offset[x] = v

OneTorn == \A x, y \in residual : rmap[x] = rmap[y] => x = y

(* Only a loop of several vertices is torn. *)
NotAlone == \A x \in residual : \E y \in M \ {x} : rmap[y] = rmap[x]

LoopsTorn == NotAlone /\ (MaxTearing =< 1 => OneTorn)

(* What is on the order follows all that precede it. *)
PredecessorsFirst ==
  \A t \in DOMAIN order : \A u \in Precedes(out, out.V \ {order[t]}, order[t]) :
    \E s \in DOMAIN order : s < t /\ order[s] = u

(***************************************************************************)
(* What the order rests on, next to the other invariants.                  *)
(***************************************************************************)
RInv ==
  /\ stage \in Early => dsbg = NoGraph
  /\ stage = "AlgebraicLoopsDetector" => Balanced
  /\ stage \notin Early => Matched
  /\ stage \notin Untorn => LoopsTorn
  /\ stage \notin Untorn \cup {"addGuessVertices"} => GuessesApart
  /\ stage \in Built => PredecessorsFirst

LEMMA InitRInv == SortInit => RInv
BY DEF SortInit, Init, RInv, Early, Untorn, Built

LEMMA MatchedStays ==
  ASSUME UNCHANGED <<bsbg, M, dsbg>>
  PROVE  Matched' = Matched /\ Balanced' = Balanced
<1>1. mapF' = mapF /\ mapU' = mapU /\ E' = E
  BY DEF mapF, mapU, Side, E
<1> QED
  BY <1>1 DEF Matched, Balanced, FullMatchings, buildLoopDetectionSBG, buildSCCVertices, buildSCCEdges

(* WithinBound leaves a loop one tearing variable when MaxTearing does. *)
LEMMA BoundOne ==
  ASSUME GraphOK, LoopsOK, NEW R \in SUBSET M, WithinBound(R), MaxTearing =< 1,
         NEW x \in R, NEW y \in R, rmap[x] = rmap[y]
  PROVE  x = y
<1> DEFINE S == R \cap preImage(rmap, {rmap[x]})
<1>1. rmap \in [M -> M] /\ \A v \in M : rmap[rmap[v]] = rmap[v]
  BY DEF LoopsOK, IsSCC, GraphOK
<1>2. rmap[x] \in FixedPoints(rmap)
  BY <1>1 DEF FixedPoints
<1>3. Cardinality(S) <= MaxTearing
  BY <1>2 DEF WithinBound
<1>4. x \in S /\ y \in S /\ IsFiniteSet(S)
  BY <1>1, FS_Subset DEF preImage, GraphOK
<1> HIDE DEF S
<1>5. Cardinality(S) \in Nat
  BY <1>4, FS_CardinalityType
<1>6. Cardinality(S) = 0 \/ Cardinality(S) = 1
  BY <1>3, <1>5, MaxTearingAssumption
<1> QED
  BY <1>4, <1>6, FS_EmptySet, FS_Singleton

(* A vertex alone in its loop is left out of the tearing. *)
LEMMA TornInCompany ==
  ASSUME GraphOK, LoopsOK, NEW R, R \in FeedbackVertexSets(buildTearingSBG), NEW x \in R
  PROVE  \E y \in M \ {x} : rmap[y] = rmap[x]
<1> DEFINE alone == {v \in dsbg.V : preImage(rmap, {rmap[v]}) = {v}}
           h == EraseEdges(dsbg, Ediff)
<1>1. WellFormed(h) /\ h.V = M
  BY EraseEdgesFacts DEF GraphOK
<1>2. buildTearingSBG = EraseVertices(h, alone)
  BY DEF buildTearingSBG
<1> HIDE DEF h
<1>3. x \in M \ alone
  BY <1>1, <1>2, EraseVerticesFacts DEF FeedbackVertexSets
<1>4. preImage(rmap, {rmap[x]}) # {x} /\ x \in preImage(rmap, {rmap[x]})
  BY <1>3 DEF GraphOK, LoopsOK, preImage
<1> QED
  BY <1>3, <1>4 DEF LoopsOK, preImage

LEMMA NewVerticesAreGuesses ==
  ASSUME IInv, addGuessVertices
  PROVE  GuessesApart'
<1>1. /\ residual \subseteq M /\ M \subseteq Nat
      /\ GuessVertices = {x + maxv : x \in residual} /\ GuessVertices \cap M = {}
      /\ guess_offset' = [v \in M \cup GuessVertices |-> IF v \in residual THEN v + maxv ELSE v]
      /\ out'.V = M \cup GuessVertices
  BY GuessGraph
<1>2. UNCHANGED <<M, residual, dsbg>>
  BY DEF addGuessVertices
<1>3. maxv \in Nat
  BY LargestElement DEF IInv, addGuessVertices, Untorn, Early, GraphOK, maxv
<1>4. \A x \in residual : guess_offset'[x] = x + maxv /\ x + maxv \in GuessVertices
  BY <1>1
<1>5. \A x, y \in residual : x + maxv = y + maxv => x = y
  BY <1>1, <1>3
<1> QED
  BY <1>1, <1>2, <1>4, <1>5 DEF GuessesApart

LEMMA VerticesStay ==
  ASSUME endPoints \/ addDependencies \/ redirectEdiff
  PROVE  out'.V = out.V /\ UNCHANGED <<M, residual, guess_offset>>
<1>1. CASE endPoints
  BY <1>1 DEF endPoints
<1>2. CASE addDependencies
  <2>1. PICK b1, d1, b2, d2 : out' = AddEdges(AddEdges(out, b1, d1), b2, d2)
    BY <1>2 DEF addDependencies
  <2> QED
    BY <1>2, <2>1 DEF addDependencies, AddEdges, Graph
<1>3. CASE redirectEdiff
  BY <1>3 DEF redirectEdiff, AddEdges, EraseEdges, Graph
<1> QED
  BY <1>1, <1>2, <1>3

(* A vertex is ordered after all that precede it. *)
LEMMA OrderedLast ==
  ASSUME SInv, PredecessorsFirst, TopologicalSorting
  PROVE  PredecessorsFirst'
<1>1. PICK v \in out.V : Orderable(v) /\ order' = Append(order, v)
  BY DEF TopologicalSorting
<1>2. PICK n \in Nat : n = Len(order) /\ DOMAIN order = 1..n
  BY DEF SInv
<1>3. /\ DOMAIN order' = 1..(n + 1) /\ order'[n + 1] = v
      /\ \A i \in 1..n : order'[i] = order[i]
  BY <1>1, <1>2 DEF SInv
<1>4. out' = out
  BY DEF TopologicalSorting
<1> SUFFICES ASSUME NEW t \in DOMAIN order', NEW u \in Precedes(out, out.V \ {order'[t]}, order'[t])
             PROVE  \E s \in DOMAIN order' : s < t /\ order'[s] = u
  BY <1>4 DEF PredecessorsFirst
<1>5. CASE t \in 1..n
  <2>1. PICK s \in DOMAIN order : s < t /\ order[s] = u
    BY <1>2, <1>3, <1>5 DEF PredecessorsFirst
  <2> QED
    BY <1>2, <1>3, <2>1
<1>6. CASE t = n + 1
  <2>1. u \in Range(order)
    BY <1>1, <1>3, <1>6 DEF Orderable
  <2>2. PICK s \in 1..n : order[s] = u
    BY <1>2, <2>1 DEF Range
  <2> QED
    BY <1>2, <1>3, <1>6, <2>2
<1> QED
  BY <1>3, <1>5, <1>6

LEMMA NextRInv == IInv /\ KInv /\ SInv /\ RInv /\ [Next]_vars => RInv'
<1> SUFFICES ASSUME IInv, KInv, SInv, RInv, [Next]_vars PROVE RInv'
  OBVIOUS
<1>1. CASE HorizontalSorting /\ UNCHANGED <<order, svars>>
  <2>1. /\ stage = "HorizontalSorting" /\ UNCHANGED <<bsbg, dsbg>> /\ stage' \in Early
        /\ stage' = "AlgebraicLoopsDetector" => Balanced
    BY <1>1 DEF HorizontalSorting, Early, Balanced
  <2> QED
    BY <2>1 DEF RInv, Early, Untorn, Built, Balanced
<1>2. CASE AlgebraicLoopsDetector /\ UNCHANGED <<order, svars>>
  <2>1. /\ stage = "AlgebraicLoopsDetector" /\ stage' = "TearingDetector" /\ UNCHANGED <<bsbg, M>>
        /\ M \in FullMatchings /\ Balanced
    BY <1>2 DEF AlgebraicLoopsDetector, IInv, StageOK, RInv
  <2>2. dsbg' = buildLoopDetectionSBG
    BY <1>2 DEF AlgebraicLoopsDetector
  <2>3. /\ buildLoopDetectionSBG' = buildLoopDetectionSBG /\ FullMatchings' = FullMatchings
        /\ Balanced' = Balanced
    <3>1. mapF' = mapF /\ mapU' = mapU /\ E' = E
      BY <2>1 DEF mapF, mapU, Side, E
    <3> QED
      BY <2>1, <3>1 DEF Balanced, FullMatchings, buildLoopDetectionSBG, buildSCCVertices, buildSCCEdges
  <2> QED
    BY <2>1, <2>2, <2>3 DEF RInv, Matched, Early, Untorn, Built
<1>3. CASE TearingDetector /\ UNCHANGED <<order, svars>>
  <2>1. /\ stage = "TearingDetector" /\ stage' \in {"out of bound", "addGuessVertices"}
        /\ UNCHANGED <<bsbg, M, dsbg, rmap>>
    BY <1>3 DEF TearingDetector
  <2>2. Matched'
    BY <2>1, MatchedStays DEF RInv, Early
  <2>3. ASSUME stage' = "addGuessVertices" PROVE LoopsTorn'
    <3>1. residual' \in FeedbackVertexSets(buildTearingSBG) /\ WithinBound(residual')
      BY <1>3, <2>3 DEF TearingDetector
    <3>2. GraphOK /\ LoopsOK
      BY <2>1 DEF IInv, Early
    <3>3. residual' \in SUBSET M
      BY <3>1, <3>2, TearingCuts DEF Cuts, GraphOK
    <3>4. MaxTearing =< 1 => OneTorn'
      BY <2>1, <3>1, <3>2, <3>3, BoundOne DEF OneTorn
    <3>5. NotAlone'
      BY <2>1, <3>1, <3>2, TornInCompany DEF NotAlone
    <3> QED
      BY <3>4, <3>5 DEF LoopsTorn
  <2> QED
    BY <2>1, <2>2, <2>3 DEF RInv, Early, Untorn, Built
<1>4. CASE addGuessVertices /\ UNCHANGED <<order, svars>>
  <2>1. /\ stage = "addGuessVertices" /\ stage' = "endPoints"
        /\ UNCHANGED <<bsbg, M, dsbg, rmap, residual>>
    BY <1>4 DEF addGuessVertices
  <2>2. Matched' /\ GuessesApart'
    BY <1>4, <2>1, MatchedStays, NewVerticesAreGuesses DEF RInv, Early
  <2>3. LoopsTorn'
    BY <2>1 DEF RInv, LoopsTorn, NotAlone, OneTorn, Untorn, Early
  <2> QED
    BY <2>1, <2>2, <2>3 DEF RInv, Early, Untorn, Built
<1>5. CASE (endPoints \/ addDependencies \/ redirectEdiff) /\ UNCHANGED <<order, svars>>
  <2>1. /\ stage \in {"endPoints", "addDependencies", "redirectEdiff"}
        /\ stage' \in {"addDependencies", "redirectEdiff", "TopologicalSorting"}
        /\ UNCHANGED <<bsbg, M, dsbg, rmap, residual, order>>
    BY <1>5 DEF endPoints, addDependencies, redirectEdiff
  <2>2. Matched'
    BY <2>1, MatchedStays DEF RInv, Early
  <2>3. GuessesApart'
    <3>1. GuessesApart
      BY <2>1 DEF RInv, Untorn, Early
    <3>2. out'.V = out.V /\ UNCHANGED <<M, residual, guess_offset>>
      BY <1>5, VerticesStay
    <3> QED
      BY <3>1, <3>2 DEF GuessesApart
  <2>4. LoopsTorn'
    BY <2>1 DEF RInv, LoopsTorn, NotAlone, OneTorn, Untorn, Early
  <2>5. PredecessorsFirst'
    <3>1. order' = <<>>
      BY <2>1 DEF SInv, Unbegun, Built, Stages
    <3> QED
      BY <3>1 DEF PredecessorsFirst
  <2> QED
    BY <2>1, <2>2, <2>3, <2>4, <2>5 DEF RInv, Early, Untorn, Built
<1>6. CASE TopologicalSorting
  <2>1. /\ stage = "TopologicalSorting" /\ stage' \in {"TopologicalSorting", "toModelicaFormat"}
        /\ UNCHANGED <<bsbg, M, dsbg, rmap, residual, out, guess_offset>>
    BY <1>6 DEF TopologicalSorting
  <2>2. Matched /\ GuessesApart /\ LoopsTorn /\ PredecessorsFirst
    BY <2>1 DEF RInv, Early, Untorn, Built, Stages
  <2>3. Matched' /\ PredecessorsFirst'
    BY <1>6, <2>1, <2>2, MatchedStays, OrderedLast
  <2>4. GuessesApart' /\ LoopsTorn'
    BY <2>1, <2>2 DEF GuessesApart, LoopsTorn, NotAlone, OneTorn
  <2> QED
    BY <2>1, <2>3, <2>4 DEF RInv, Early, Untorn, Built
<1>7. CASE sortLoops \/ sortLoop \/ sortVertex \/ nextLoop \/ Sorted
  <2>1. /\ stage \in {"toModelicaFormat", "sortLoops", "sortLoop"}
        /\ stage' \in {"sortLoops", "sortLoop", "sorted", "undefined"}
        /\ UNCHANGED <<bsbg, M, dsbg, rmap, residual, out, guess_offset, order>>
    BY <1>7 DEF sortLoops, sortLoop, sortVertex, nextLoop, Sorted
  <2>2. Matched /\ GuessesApart /\ LoopsTorn /\ PredecessorsFirst
    BY <2>1 DEF RInv, Early, Untorn, Built, Stages
  <2>3. Matched'
    BY <2>1, <2>2, MatchedStays
  <2>4. GuessesApart' /\ LoopsTorn' /\ PredecessorsFirst'
    BY <2>1, <2>2 DEF GuessesApart, LoopsTorn, NotAlone, OneTorn, PredecessorsFirst
  <2> QED
    BY <2>1, <2>3, <2>4 DEF RInv, Early, Untorn, Built
<1>8. CASE UNCHANGED vars
  <2>1. UNCHANGED <<stage, bsbg, M, dsbg, rmap, residual, out, guess_offset, order>>
    BY <1>8 DEF vars, bvars
  <2>2. Matched' = Matched /\ Balanced' = Balanced
    BY <2>1, MatchedStays
  <2>3. GuessesApart' = GuessesApart /\ LoopsTorn' = LoopsTorn /\ PredecessorsFirst' = PredecessorsFirst
    BY <2>1 DEF GuessesApart, LoopsTorn, NotAlone, OneTorn, PredecessorsFirst
  <2> QED
    BY <2>1, <2>2, <2>3 DEF RInv
<1> QED
  BY <1>1, <1>2, <1>3, <1>4, <1>5, <1>6, <1>7, <1>8 DEF Next, Work, BuilderNext, build

-----------------------------------------------------------------------------
(***************************************************************************)
(* A loop starts and ends on the order with the vertices given for it when *)
(* the order keeps to them, and also when it does not as long as a loop    *)
(* has at most one tearing variable: what the loop reads then leaves no    *)
(* other vertex to start or to end it with.                                *)
(***************************************************************************)
KeepsEnds == Pinned \/ MaxTearing =< 1

(* What is known when a vertex is put on the order. *)
LEMMA WhenOrdered ==
  ASSUME IInv, KInv, SInv, RInv, TopologicalSorting
  PROVE  /\ GraphOK /\ LoopsOK /\ GuessOK /\ EndpointsOK /\ InnerKept /\ OthersStay
         /\ LoopsTorn /\ GuessesApart /\ PredecessorsFirst /\ residual \subseteq M
<1>1. stage \in Built /\ stage \notin Untorn \cup {"addGuessVertices", "endPoints"} /\ stage \notin Early
  BY DEF TopologicalSorting, Built, Stages, Untorn, Early
<1>2. TornOK /\ GraphOK
  BY <1>1 DEF IInv
<1> QED
  BY <1>1, <1>2 DEF IInv, KInv, RInv, TornOK, Cuts, GraphOK

(* The tearing variable of a loop is the vertex the loop ends in. *)
LEMMA TornIsLast ==
  ASSUME EndpointsOK, OneTorn, residual \subseteq M, NEW x \in residual
  PROVE  reps_to_endpoints[rmap[x]] = x
<1>1. reps_to_endpoints[rmap[x]] \in residual /\ rmap[reps_to_endpoints[rmap[x]]] = rmap[x]
  BY DEF EndpointsOK
<1> QED
  BY <1>1 DEF OneTorn

(* A part of a loop, but not the whole, is read by the rest of it. *)
LEMMA PartRead ==
  ASSUME GraphOK, LoopsOK, InnerKept, NEW c \in FixedPoints(rmap),
         NEW T \in SUBSET M, T # {}, \A v \in T : rmap[v] = c,
         NEW z \in M \ T, rmap[z] = c
  PROVE  \E u \in T, w \in M \ T :
           rmap[w] = c /\ \E e \in EdgesOf(out) : out.mapB[e] = guess_offset[u] /\ out.mapD[e] = w
<1> DEFINE comp == preImage(rmap, {c})
<1>1. comp = {v \in M : rmap[v] = c}
  BY DEF preImage, LoopsOK
<1>2. T \in Parts(comp) \ {comp}
  BY <1>1 DEF Parts
<1>3. PICK e \in EdgesOf(dsbg) : dsbg.mapB[e] \in T /\ dsbg.mapD[e] \in comp \ T
  BY <1>2 DEF LoopsOK, IsSCC
<1>4. e \notin Ediff
  BY <1>1, <1>3 DEF LoopsOK
<1> QED
  BY <1>1, <1>3, <1>4 DEF InnerKept

(* An unpinned loop starts with its guess, or with its only vertex. *)
LEMMA StartsUnpinned ==
  ASSUME IInv, KInv, SInv, RInv, TopologicalSorting, OneTorn, NEW v \in out.V, Orderable(v),
         {u \in Range(order) : ~ Loop(out_rmap[u]) \subseteq Range(order)} = {}
  PROVE  v = StartOf(out_rmap[v])
<1> DEFINE c == out_rmap[v]
           last == reps_to_endpoints[c]
<1>1. /\ GraphOK /\ LoopsOK /\ GuessOK /\ EndpointsOK /\ InnerKept /\ OthersStay
      /\ NotAlone /\ GuessesApart /\ residual \subseteq M
  BY WhenOrdered DEF LoopsTorn
<1>2. /\ c \in FixedPoints(rmap) /\ c \in M /\ rmap[c] = c /\ last \in M /\ rmap[last] = c
      /\ v \notin Range(order) /\ Precedes(out, out.V \ {v}, v) \subseteq Range(order)
      /\ DOMAIN out_rmap = out.V /\ M \subseteq out.V
  <2>1. c \in FixedPoints(rmap) /\ c \in M /\ rmap[c] = c
    BY <1>1 DEF GuessOK, FixedPoints
  <2> QED
    BY <1>1, <2>1 DEF Orderable, GuessOK, EndpointsOK
<1>3. ASSUME NEW u \in Range(order), u \in out.V, out_rmap[u] = c PROVE FALSE
  <2>1. v \in Loop(out_rmap[u])
    BY <1>2, <1>3 DEF Loop, preImage
  <2> QED
    BY <1>2, <2>1
<1> HIDE DEF c
<1>4. CASE v \notin M
  <2>1. PICK x \in residual : guess_offset[x] = v
    BY <1>1, <1>4 DEF GuessesApart
  <2>2. rmap[x] = c
    BY <1>1, <2>1 DEF GuessOK, c
  <2>3. last = x
    BY <1>1, <2>2, TornIsLast
  <2> QED
    BY <2>1, <2>3 DEF StartOf, c
<1>5. CASE v \in M
  <2> DEFINE T == {w \in M : rmap[w] = c} \ {v}
  <2>1. rmap[v] = c
    BY <1>1, <1>5 DEF GuessOK, c
  <2>2. CASE T = {}
    <3>1. last = v
      BY <1>2, <2>2
    <3>2. v \notin residual
      BY <1>1, <2>1, <2>2 DEF NotAlone
    <3> QED
      BY <1>1, <1>5, <3>1, <3>2 DEF OthersStay, StartOf, c
  <2>3. CASE T # {}
    <3>0. T \in SUBSET M /\ (\A u \in T : rmap[u] = c) /\ v \in M \ T
      BY <1>5
    <3>1. PICK u \in T, w \in M \ T :
            rmap[w] = c /\ \E e \in EdgesOf(out) : out.mapB[e] = guess_offset[u] /\ out.mapD[e] = w
      <4> HIDE DEF T
      <4> QED
        BY <1>1, <1>2, <2>1, <2>3, <3>0, PartRead
    <3>2. w = v /\ u \in M /\ u # v /\ rmap[u] = c
      BY <3>1
    <3>3. guess_offset[u] \in out.V /\ out_rmap[guess_offset[u]] = c
      BY <1>1, <1>2, <3>2 DEF GuessOK
    <3>4. guess_offset[u] # v
      BY <1>1, <1>5, <3>2 DEF GuessesApart, OthersStay
    <3>5. guess_offset[u] \in Range(order)
      BY <1>2, <3>1, <3>2, <3>3, <3>4 DEF Precedes
    <3> QED
      BY <1>3, <3>3, <3>5
  <2> QED
    BY <2>2, <2>3
<1> QED
  BY <1>4, <1>5

(* It ends with the vertex given as its last: the rest of it comes before. *)
LEMMA EndsUnpinned ==
  ASSUME IInv, KInv, SInv, RInv, TopologicalSorting, OneTorn, NEW v \in out.V, Orderable(v),
         v = reps_to_endpoints[out_rmap[v]]
  PROVE  Loop(out_rmap[v]) \subseteq Range(order) \cup {v}
<1> DEFINE c == out_rmap[v]
           placed == Range(order)
<1>1. /\ GraphOK /\ LoopsOK /\ GuessOK /\ EndpointsOK /\ InnerKept /\ OthersStay
      /\ NotAlone /\ GuessesApart /\ PredecessorsFirst /\ residual \subseteq M
  BY WhenOrdered DEF LoopsTorn
<1>2. /\ c \in FixedPoints(rmap) /\ c \in M /\ rmap[c] = c /\ v \in M /\ rmap[v] = c
      /\ Precedes(out, out.V \ {v}, v) \subseteq placed
      /\ DOMAIN out_rmap = out.V /\ M \subseteq out.V
  <2>1. c \in FixedPoints(rmap) /\ c \in M /\ rmap[c] = c
    BY <1>1 DEF GuessOK, FixedPoints
  <2>2. v \in M /\ rmap[v] = c
    BY <1>1, <2>1 DEF EndpointsOK
  <2>3. Precedes(out, out.V \ {v}, v) \subseteq placed
    BY DEF Orderable
  <2> QED
    BY <1>1, <2>1, <2>2, <2>3 DEF GuessOK
<1>3. \A x \in residual : rmap[x] = c => x = v
  BY <1>1, TornIsLast
(* What comes before a vertex on the order, or before v, is on the order. *)
<1>4. ASSUME NEW w \in placed \cup {v}, NEW u \in out.V, u # w,
             \E e \in EdgesOf(out) : out.mapB[e] = u /\ out.mapD[e] = w
      PROVE  u \in placed
  <2>1. u \in Precedes(out, out.V \ {w}, w)
    BY <1>4 DEF Precedes
  <2>2. CASE w = v
    BY <1>2, <2>1, <2>2
  <2>3. CASE w \in placed
    <3>1. PICK t \in DOMAIN order : order[t] = w
      BY <2>3 DEF Range
    <3> QED
      BY <1>1, <2>1, <3>1 DEF PredecessorsFirst, Range
  <2> QED
    BY <2>2, <2>3
<1>5. ASSUME NEW u \in M, rmap[u] = c PROVE u \in placed \cup {v}
  <2> DEFINE U == {w \in M : rmap[w] = c} \ (placed \cup {v})
  <2> SUFFICES ASSUME U # {} PROVE FALSE
    BY <1>5
  <2>1. v \in M \ U /\ U \in SUBSET M /\ \A w \in U : rmap[w] = c
    BY <1>2
  <2> HIDE DEF c, placed
  <2>2. PICK x \in U, w \in M \ U :
          rmap[w] = c /\ \E e \in EdgesOf(out) : out.mapB[e] = guess_offset[x] /\ out.mapD[e] = w
    <3> HIDE DEF U
    <3> QED
      BY <1>1, <1>2, <2>1, PartRead
  <2>3. x \notin residual /\ x \in M /\ x # w /\ w \in placed \cup {v} /\ x \notin placed
    BY <1>3, <2>2
  <2>4. guess_offset[x] = x /\ x \in out.V
    BY <1>1, <1>2, <2>3 DEF OthersStay
  <2> QED
    BY <1>4, <2>2, <2>3, <2>4
<1>6. ASSUME NEW g \in out.V \ M, out_rmap[g] = c PROVE g \in placed
  <2>1. PICK x \in residual : guess_offset[x] = g
    BY <1>1, <1>6 DEF GuessesApart
  <2>2. rmap[x] = c
    BY <1>1, <1>6, <2>1 DEF GuessOK
  <2>3. x = v
    BY <1>3, <2>2
  <2>4. PICK z \in M \ {v} : rmap[z] = c
    BY <1>1, <1>2, <2>1, <2>3 DEF NotAlone
  <2> DEFINE T == {v}
  <2>5. T \in SUBSET M /\ T # {} /\ (\A u \in T : rmap[u] = c) /\ z \in M \ T
    BY <1>2, <2>4
  <2> HIDE DEF c, placed, T
  <2>6. PICK u \in T, w \in M \ T :
          rmap[w] = c /\ \E e \in EdgesOf(out) : out.mapB[e] = guess_offset[u] /\ out.mapD[e] = w
    BY <1>1, <1>2, <2>4, <2>5, PartRead
  <2>7. u = v /\ w \in placed \cup {v} /\ w # g
    BY <1>5, <1>6, <2>6 DEF T
  <2> QED
    BY <1>4, <2>1, <2>3, <2>6, <2>7
<1>7. ASSUME NEW u \in Loop(c) PROVE u \in placed \cup {v}
  <2>1. u \in out.V /\ out_rmap[u] = c
    BY <1>2, <1>7 DEF Loop, preImage
  <2>2. u \in M => rmap[u] = c
    BY <1>1, <2>1 DEF GuessOK
  <2> QED
    BY <1>5, <1>6, <2>1, <2>2
<1> QED
  BY <1>7

(* In both cases a vertex on the order respects the ends of its loop. *)
LEMMA EndsRespected ==
  ASSUME KeepsEnds, IInv, KInv, SInv, RInv, TopologicalSorting, NEW v \in out.V, Orderable(v)
  PROVE  /\ {u \in Range(order) : ~ Loop(out_rmap[u]) \subseteq Range(order)} = {} =>
              v = StartOf(out_rmap[v])
         /\ v = reps_to_endpoints[out_rmap[v]] => Loop(out_rmap[v]) \subseteq Range(order) \cup {v}
<1>1. CASE Pinned
  BY <1>1 DEF Orderable, StartOf
<1>2. CASE MaxTearing =< 1
  <2>1. OneTorn
    BY <1>2, WhenOrdered DEF LoopsTorn
  <2> QED
    BY <2>1, StartsUnpinned, EndsUnpinned
<1> QED
  BY <1>1, <1>2 DEF KeepsEnds

-----------------------------------------------------------------------------
(***************************************************************************)
(* The order keeps a loop together, from its first vertex to its last.     *)
(* While it grows, a loop that it has left is complete, and a loop whose   *)
(* last vertex is on it is too.                                            *)
(***************************************************************************)
LoopOf(i) == out_rmap[order[i]]

IsStart(i) == i \in DOMAIN order /\ (i = 1 \/ LoopOf(i - 1) # LoopOf(i))

Together ==
  \A i, j, k \in DOMAIN order : i < j /\ j < k /\ LoopOf(i) = LoopOf(k) => LoopOf(j) = LoopOf(i)

StartsFirst == \A i \in DOMAIN order : IsStart(i) => order[i] = StartOf(LoopOf(i))

EndsLast ==
  \A i, j \in DOMAIN order : j = i + 1 /\ LoopOf(i) # LoopOf(j) => order[i] = reps_to_endpoints[LoopOf(i)]

LeftComplete ==
  \A i \in DOMAIN order : LoopOf(i) # LoopOf(Len(order)) => Loop(LoopOf(i)) \subseteq Range(order)

EndedComplete ==
  \A i \in DOMAIN order : order[i] = reps_to_endpoints[LoopOf(i)] =>
    \A u \in Loop(LoopOf(i)) : \E j \in DOMAIN order : j =< i /\ order[j] = u

OrderOK == Together /\ StartsFirst /\ EndsLast /\ LeftComplete /\ EndedComplete

LEMMA OrderStep ==
  ASSUME KeepsEnds, IInv, KInv, SInv, RInv, OrderOK, TopologicalSorting
  PROVE  OrderOK'
<1>0. PICK n \in Nat : n = Len(order)
  BY DEF SInv
<1>1. PICK v \in out.V : Orderable(v) /\ order' = Append(order, v)
  BY DEF TopologicalSorting
<1>2. /\ order \in Seq(out.V) /\ n \in Nat /\ n = Len(order) /\ DOMAIN order = 1..n
      /\ GuessOK /\ UNCHANGED <<rmap, out, out_rmap, guess_offset, reps_to_endpoints>>
  <2>1. GuessOK
    BY DEF IInv, TopologicalSorting, Untorn, Early
  <2> QED
    BY <1>0, <2>1 DEF SInv, TopologicalSorting
<1>3. /\ DOMAIN order' = 1..(n + 1) /\ Len(order') = n + 1
      /\ \A i \in 1..n : order'[i] = order[i]
      /\ order'[n + 1] = v
  BY <1>1, <1>2
<1>4. /\ \A i \in 1..n : LoopOf(i)' = LoopOf(i) /\ order[i] \in out.V
      /\ LoopOf(n + 1)' = out_rmap[v]
  BY <1>2, <1>3 DEF LoopOf
<1>5. \A i \in 1..n : order[i] # v /\ order[i] \in Range(order)
  BY <1>1, <1>2 DEF Orderable, Range
<1>6. v \in Loop(out_rmap[v]) /\ DOMAIN out_rmap = out.V
  BY <1>2 DEF Loop, preImage, GuessOK
(* A loop that has begun and lacks v is the one of the last vertex. *)
<1>7. \A i \in 1..n : LoopOf(i) = out_rmap[v] => LoopOf(n) = out_rmap[v]
  <2> SUFFICES ASSUME NEW i \in 1..n, LoopOf(i) = out_rmap[v], LoopOf(n) # out_rmap[v]
               PROVE  FALSE
    OBVIOUS
  <2>1. Loop(LoopOf(i)) \subseteq Range(order)
    BY <1>2 DEF OrderOK, LeftComplete
  <2>2. v \in Range(order)
    BY <1>6, <2>1
  <2> QED
    BY <1>1, <2>2 DEF Orderable
(* Any other loop that has begun is complete. *)
<1>8. \A i \in 1..n : LoopOf(i) # out_rmap[v] => Loop(LoopOf(i)) \subseteq Range(order)
  <2> SUFFICES ASSUME NEW i \in 1..n, ~ Loop(LoopOf(i)) \subseteq Range(order)
               PROVE  LoopOf(i) = out_rmap[v]
    OBVIOUS
  <2>1. order[i] \in {u \in Range(order) : ~ Loop(out_rmap[u]) \subseteq Range(order)}
    BY <1>5 DEF LoopOf
  <2>2. order[i] \in Loop(out_rmap[v])
    BY <1>1, <2>1 DEF Orderable
  <2> QED
    BY <2>2 DEF Loop, preImage, LoopOf
<1>9. Together'
  <2> SUFFICES ASSUME NEW i \in 1..(n + 1), NEW j \in 1..(n + 1), NEW k \in 1..(n + 1),
                      i < j, j < k, LoopOf(i)' = LoopOf(k)'
               PROVE  LoopOf(j)' = LoopOf(i)'
    BY <1>3 DEF Together
  <2>1. i \in 1..n /\ j \in 1..n
    BY <1>2
  <2>2. CASE k = n + 1
    <3>1. LoopOf(i) = out_rmap[v]
      BY <1>4, <2>1, <2>2
    <3>2. LoopOf(n) = LoopOf(i)
      BY <1>7, <2>1, <3>1
    <3>3. CASE j = n
      BY <1>4, <2>1, <3>2, <3>3
    <3>4. CASE j < n
      <4>1. n \in 1..n
        BY <1>2, <2>1
      <4> QED
        BY <1>2, <1>4, <2>1, <3>2, <3>4, <4>1 DEF OrderOK, Together
    <3> QED
      BY <1>2, <2>1, <3>3, <3>4
  <2>3. CASE k # n + 1
    <3>1. k \in 1..n
      BY <1>2, <2>3
    <3> QED
      BY <1>2, <1>4, <2>1, <3>1 DEF OrderOK, Together
  <2> QED
    BY <2>2, <2>3
<1>10. StartsFirst'
  <2> SUFFICES ASSUME NEW i \in 1..(n + 1), IsStart(i)' PROVE order'[i] = StartOf(LoopOf(i))'
    BY <1>3 DEF StartsFirst
  <2>1. \A c : StartOf(c)' = StartOf(c)
    BY <1>2 DEF StartOf
  <2>2. CASE i \in 1..n
    <3>1. i # 1 => i - 1 \in 1..n
      BY <1>2, <2>2
    <3>2. IsStart(i)
      BY <1>2, <1>4, <2>2, <3>1 DEF IsStart
    <3>3. order[i] = StartOf(LoopOf(i))
      BY <1>2, <2>2, <3>2 DEF OrderOK, StartsFirst
    <3> QED
      BY <1>3, <1>4, <2>1, <2>2, <3>3
  <2>3. CASE i = n + 1
    <3>1. ASSUME NEW j \in 1..n PROVE LoopOf(j) # out_rmap[v]
      <4>1. i # 1 /\ i - 1 = n /\ n \in 1..n
        BY <1>2, <2>3
      <4>2. LoopOf(n)' # LoopOf(n + 1)'
        BY <2>3, <4>1 DEF IsStart
      <4> QED
        BY <1>4, <1>7, <4>1, <4>2
    <3>2. {u \in Range(order) : ~ Loop(out_rmap[u]) \subseteq Range(order)} = {}
      <4> SUFFICES ASSUME NEW u \in Range(order), ~ Loop(out_rmap[u]) \subseteq Range(order)
                   PROVE  FALSE
        OBVIOUS
      <4>1. PICK j \in 1..n : u = order[j]
        BY <1>2 DEF Range
      <4> QED
        BY <1>8, <3>1, <4>1 DEF LoopOf
    <3>3. v = StartOf(out_rmap[v])
      BY <1>1, <3>2, EndsRespected
    <3> QED
      BY <1>3, <1>4, <2>1, <2>3, <3>3
  <2> QED
    BY <1>2, <2>2, <2>3
<1>11. EndsLast'
  <2> SUFFICES ASSUME NEW i \in 1..(n + 1), i + 1 \in 1..(n + 1), LoopOf(i)' # LoopOf(i + 1)'
               PROVE  order'[i] = reps_to_endpoints'[LoopOf(i)']
    BY <1>3 DEF EndsLast
  <2>1. i \in 1..n
    BY <1>2
  <2>2. CASE i + 1 \in 1..n
    BY <1>2, <1>3, <1>4, <2>1, <2>2 DEF OrderOK, EndsLast
  <2>3. CASE i = n
    <3> DEFINE c == LoopOf(n)
               l == reps_to_endpoints[c]
    <3>1. c # out_rmap[v]
      BY <1>4, <2>1, <2>3
    <3>2. Loop(c) \subseteq Range(order)
      BY <1>8, <2>1, <2>3, <3>1
    <3>3. c \in FixedPoints(rmap)
      BY <1>2, <1>4, <2>1, <2>3 DEF GuessOK, LoopOf
    <3>4. out_rmap[l] = c /\ l \in M
      BY <3>3, StartsTyped DEF TopologicalSorting, Built, Stages, Untorn, Early
    <3>5. l \in Loop(c)
      BY <1>2, <3>4 DEF Loop, preImage, GuessOK
    <3>6. PICK m \in 1..n : order[m] = l
      BY <1>2, <3>2, <3>5 DEF Range
    <3>7. LoopOf(m) = c /\ order[m] = reps_to_endpoints[LoopOf(m)]
      BY <3>4, <3>6 DEF LoopOf
    <3>8. order[n] \in Loop(LoopOf(m))
      BY <1>2, <1>4, <2>1, <2>3, <3>7 DEF Loop, preImage, GuessOK, LoopOf
    <3>9. PICK j \in 1..n : j =< m /\ order[j] = order[n]
      BY <1>2, <3>7, <3>8 DEF OrderOK, EndedComplete
    <3>10. j = n
      BY <1>2, <2>1, <2>3, <3>9 DEF SInv, SortTypeOK, IsInjective
    <3>11. m = n
      BY <1>2, <3>9, <3>10
    <3> QED
      BY <1>2, <1>3, <1>4, <2>1, <2>3, <3>6, <3>11
  <2> QED
    BY <1>2, <2>1, <2>2, <2>3
<1>12. Range(order') = Range(order) \cup {v}
  BY <1>2, <1>3 DEF Range
<1>13. LeftComplete'
  <2> SUFFICES ASSUME NEW i \in 1..(n + 1), LoopOf(i)' # LoopOf(n + 1)'
               PROVE  Loop(LoopOf(i))' \subseteq Range(order')
    BY <1>3 DEF LeftComplete
  <2>1. i \in 1..n
    BY <1>2
  <2>2. Loop(LoopOf(i)) \subseteq Range(order)
    BY <1>4, <1>8, <2>1
  <2> QED
    BY <1>2, <1>4, <1>12, <2>1, <2>2 DEF Loop
<1>14. EndedComplete'
  <2> SUFFICES ASSUME NEW i \in 1..(n + 1), order'[i] = reps_to_endpoints'[LoopOf(i)'],
                      NEW u \in Loop(LoopOf(i))'
               PROVE  \E j \in 1..(n + 1) : j =< i /\ order'[j] = u
    BY <1>3 DEF EndedComplete
  <2>1. CASE i \in 1..n
    <3>1. order[i] = reps_to_endpoints[LoopOf(i)] /\ u \in Loop(LoopOf(i))
      BY <1>2, <1>3, <1>4, <2>1 DEF Loop
    <3>2. PICK j \in 1..n : j =< i /\ order[j] = u
      BY <1>2, <2>1, <3>1 DEF OrderOK, EndedComplete
    <3> QED
      BY <1>2, <1>3, <3>2
  <2>2. CASE i = n + 1
    <3>1. v = reps_to_endpoints[out_rmap[v]] /\ u \in Loop(out_rmap[v])
      BY <1>2, <1>3, <1>4, <2>2 DEF Loop
    <3>2. u \in Range(order) \cup {v}
      BY <1>1, <3>1, EndsRespected
    <3>3. PICK j \in 1..(n + 1) : order'[j] = u
      BY <1>3, <1>12, <3>2 DEF Range
    <3> QED
      BY <1>2, <2>2, <3>3
  <2> QED
    BY <1>2, <2>1, <2>2
<1> QED
  BY <1>9, <1>10, <1>11, <1>13, <1>14 DEF OrderOK

-----------------------------------------------------------------------------
(* The complete order *)
Whole == Range(order) = out.V /\ Len(order) > 0

GuessesFixed == \A v \in out.V : guess_offset[guess_offset[v]] = guess_offset[v]

OrderKnown == /\ stage \in Built /\ IInv /\ KInv /\ SInv
              /\ OrderOK /\ Whole /\ GuessesFixed

(* The map of the order leads from each vertex to the one before it. *)
LEMMA SortFacts ==
  ASSUME SInv
  PROVE  \A i \in DOMAIN order : sort[order[i]] = order[IF i = 1 THEN 1 ELSE i - 1]
<1> SUFFICES ASSUME NEW i \in DOMAIN order
             PROVE  sort[order[i]] = order[IF i = 1 THEN 1 ELSE i - 1]
  OBVIOUS
<1> DEFINE k == CHOOSE k \in DOMAIN order : order[k] = order[i]
<1>1. k = i
  BY DEF SInv, SortTypeOK, IsInjective
<1>2. order[i] \in Range(order)
  BY DEF Range
<1>3. sort[order[i]] = order[IF k = 1 THEN 1 ELSE k - 1]
  BY <1>2 DEF sort
<1> QED
  BY <1>1, <1>3

(* Every loop has a first vertex on the order, and this is the one it starts in. *)
LEMMA LoopsOnOrder ==
  ASSUME OrderKnown
  PROVE  /\ order \in Seq(out.V) /\ Len(order) \in Nat /\ DOMAIN order = 1..Len(order)
         /\ \A i, j \in DOMAIN order : order[i] = order[j] => i = j
         /\ \A i \in DOMAIN order : order[i] \in out.V /\ LoopOf(i) \in FixedPoints(rmap)
         /\ \A c \in FixedPoints(rmap) : \E i \in DOMAIN order : LoopOf(i) = c
         /\ end_points = {order[i] : i \in {i \in DOMAIN order : IsStart(i)}}
<1> DEFINE n == Len(order)
<1>1. /\ order \in Seq(out.V) /\ n \in Nat /\ DOMAIN order = 1..n
      /\ \A i, j \in DOMAIN order : order[i] = order[j] => i = j
  BY DEF OrderKnown, SInv, SortTypeOK, IsInjective
<1>2. GuessOK /\ StartsKnown
  BY StartsTyped DEF OrderKnown
<1>3. \A i \in DOMAIN order : order[i] \in out.V /\ LoopOf(i) \in FixedPoints(rmap)
  BY <1>1, <1>2 DEF GuessOK, LoopOf
<1>4. ASSUME NEW c \in FixedPoints(rmap)
      PROVE  \E i \in DOMAIN order : IsStart(i) /\ LoopOf(i) = c /\ order[i] = StartOf(c)
  <2> DEFINE S == {i \in DOMAIN order : LoopOf(i) = c}
  <2>1. StartOf(c) \in Range(order) /\ out_rmap[StartOf(c)] = c
    BY StartsTyped DEF OrderKnown, Whole
  <2>2. S # {} /\ S \in SUBSET Nat
    BY <1>1, <2>1 DEF Range, LoopOf
  <2>3. PICK i \in S : \A j \in S : i =< j
    BY <2>2, LeastElement
  <2>4. IsStart(i)
    <3>1. i \in 1..n /\ LoopOf(i) = c
      BY <1>1, <2>3
    <3>2. i # 1 => i - 1 \in 1..n /\ ~ i =< i - 1
      BY <1>1, <3>1
    <3>3. i # 1 => LoopOf(i - 1) # c
      BY <1>1, <2>3, <3>2
    <3> QED
      BY <1>1, <3>1, <3>3 DEF IsStart
  <2>5. order[i] = StartOf(c)
    BY <2>3, <2>4 DEF OrderKnown, OrderOK, StartsFirst
  <2> QED
    BY <2>3, <2>4, <2>5
<1>5. \A i \in DOMAIN order : IsStart(i) => order[i] = StartOf(LoopOf(i))
  BY DEF OrderKnown, OrderOK, StartsFirst
<1>6. end_points = {order[i] : i \in {i \in DOMAIN order : IsStart(i)}}
  <2>1. end_points = {StartOf(c) : c \in FixedPoints(rmap)}
    BY <1>2 DEF StartsKnown
  <2> QED
    BY <1>3, <1>4, <1>5, <2>1
<1> QED
  BY <1>1, <1>3, <1>4, <1>6

(* sccs_smap leads from the start of each loop to the start of the one before. *)
LEMMA LoopBefore ==
  ASSUME OrderKnown
  PROVE  /\ DOMAIN sccsSmap = end_points
         /\ \A i \in DOMAIN order : IsStart(i) =>
              sccsSmap[order[i]] = IF i = 1 THEN order[1] ELSE StartOf(LoopOf(i - 1))
<1>1. /\ order \in Seq(out.V) /\ Len(order) \in Nat /\ DOMAIN order = 1..Len(order)
      /\ \A i \in DOMAIN order : order[i] \in out.V /\ LoopOf(i) \in FixedPoints(rmap)
      /\ end_points = {order[i] : i \in {i \in DOMAIN order : IsStart(i)}}
  BY LoopsOnOrder
<1>2. /\ DOMAIN guess_offset = out.V /\ end_points \subseteq out.V
      /\ DOMAIN sort = out.V
  BY StartsTyped, SortDomain DEF OrderKnown, Whole, GuessOK
<1>3. \A i \in DOMAIN order : sort[order[i]] = order[IF i = 1 THEN 1 ELSE i - 1]
  BY SortFacts DEF OrderKnown
<1>4. /\ DOMAIN Only(sort, end_points) = end_points
      /\ \A v \in end_points : Only(sort, end_points)[v] = sort[v]
  BY <1>2, OnlyWithin
<1>5. \A v \in end_points : sort[v] \in out.V
  <2> SUFFICES ASSUME NEW v \in end_points PROVE sort[v] \in out.V
    OBVIOUS
  <2>1. PICK i \in DOMAIN order : v = order[i]
    BY <1>1
  <2>2. (IF i = 1 THEN 1 ELSE i - 1) \in DOMAIN order
    BY <1>1
  <2> QED
    BY <1>1, <1>3, <2>1, <2>2
<1>6. /\ DOMAIN sccsSmap = end_points
      /\ \A v \in end_points : sccsSmap[v] = guess_offset[sort[v]]
  <2>1. \A x \in DOMAIN Only(sort, end_points) : Only(sort, end_points)[x] \in DOMAIN guess_offset
    BY <1>2, <1>4, <1>5
  <2>2. /\ DOMAIN sccsSmap = DOMAIN Only(sort, end_points)
        /\ \A x \in DOMAIN Only(sort, end_points) :
             sccsSmap[x] = guess_offset[Only(sort, end_points)[x]]
    BY <2>1, AfterWithin DEF sccsSmap
  <2> QED
    BY <1>4, <2>2
<1>7. ASSUME NEW i \in DOMAIN order, IsStart(i)
      PROVE  sccsSmap[order[i]] = IF i = 1 THEN order[1] ELSE StartOf(LoopOf(i - 1))
  <2>1. sccsSmap[order[i]] = guess_offset[order[IF i = 1 THEN 1 ELSE i - 1]]
    BY <1>1, <1>3, <1>6, <1>7
  <2>2. CASE i = 1
    <3>1. order[1] = guess_offset[reps_to_endpoints[LoopOf(1)]]
      BY <1>7, <2>2 DEF OrderKnown, OrderOK, StartsFirst, StartOf
    <3>2. reps_to_endpoints[LoopOf(1)] \in out.V
      <4>1. LoopOf(1) \in FixedPoints(rmap)
        BY <1>1, <2>2
      <4> QED
        BY <4>1, StartsTyped DEF OrderKnown, GuessOK
    <3>3. guess_offset[order[1]] = order[1]
      BY <3>1, <3>2 DEF OrderKnown, GuessesFixed
    <3> QED
      BY <2>1, <2>2, <3>3
  <2>3. CASE i # 1
    <3>1. i - 1 \in DOMAIN order /\ i = (i - 1) + 1 /\ LoopOf(i - 1) # LoopOf(i)
      BY <1>1, <1>7, <2>3 DEF IsStart
    <3>2. order[i - 1] = reps_to_endpoints[LoopOf(i - 1)]
      BY <3>1 DEF OrderKnown, OrderOK, EndsLast
    <3> QED
      BY <2>1, <2>3, <3>2 DEF StartOf
  <2> QED
    BY <2>2, <2>3
<1> QED
  BY <1>6, <1>7

-----------------------------------------------------------------------------
(***************************************************************************)
(* Where the walks are.  sortLoops has written the loops before position   *)
(* p, where the loop in turn starts; sortLoop has written this loop up to  *)
(* the position q.                                                         *)
(***************************************************************************)
From(p) == p..Len(order)

AtLoop(p) ==
  /\ p \in Nat \ {0}
  /\ p \in DOMAIN order => IsStart(p)
  /\ unsorted_sccs = {LoopOf(i) : i \in From(p)}
  /\ DOMAIN sccs_smap = {order[i] : i \in {i \in From(p) : IsStart(i)}}
  /\ \A i \in From(p) : IsStart(i) => sccs_smap[order[i]] = sccsSmap[order[i]]
  /\ p \in DOMAIN order => jth_scc = {order[p]}

AtVertex(p, q) ==
  /\ p \in DOMAIN order /\ q \in Nat /\ p =< q
  /\ \A i \in DOMAIN order : p =< i /\ i < q => LoopOf(i) = LoopOf(p)
  /\ unsorted_vertices = {order[i] : i \in {i \in From(q) : LoopOf(i) = LoopOf(p)}}
  /\ DOMAIN vertices_smap = unsorted_vertices
  /\ \A v \in unsorted_vertices : vertices_smap[v] = sort[v]
  /\ q \in DOMAIN order /\ LoopOf(q) = LoopOf(p) => jth_vertices = {order[q]}

LEMMA OrderStays ==
  ASSUME order' = order, UNCHANGED <<graph, out, end_points, reps_to_endpoints>>
  PROVE  /\ \A i : LoopOf(i)' = LoopOf(i) /\ IsStart(i)' = IsStart(i) /\ From(i)' = From(i)
         /\ sort' = sort /\ sccsSmap' = sccsSmap
BY DEF LoopOf, IsStart, From, sort, sccsSmap, graph

(* sortLoops: the first loop starts with the first vertex. *)
LEMMA LoopsBegin ==
  ASSUME OrderKnown, sortLoops
  PROVE  AtLoop(1)'
<1>1. /\ order \in Seq(out.V) /\ Len(order) \in Nat /\ DOMAIN order = 1..Len(order)
      /\ \A i \in DOMAIN order : order[i] \in out.V /\ LoopOf(i) \in FixedPoints(rmap)
      /\ \A c \in FixedPoints(rmap) : \E i \in DOMAIN order : LoopOf(i) = c
      /\ end_points = {order[i] : i \in {i \in DOMAIN order : IsStart(i)}}
  BY LoopsOnOrder
<1>2. /\ DOMAIN sccsSmap = end_points
      /\ \A i \in DOMAIN order : IsStart(i) =>
           sccsSmap[order[i]] = IF i = 1 THEN order[1] ELSE StartOf(LoopOf(i - 1))
  BY LoopBefore
<1>3. 1 \in DOMAIN order /\ IsStart(1)
  BY <1>1 DEF OrderKnown, Whole, IsStart
<1>4. FixedPoints(out_rmap) = {LoopOf(i) : i \in DOMAIN order}
  <2>1. GuessOK /\ \A c \in FixedPoints(rmap) : c \in M /\ rmap[c] = c
    BY StartsTyped DEF OrderKnown
  <2>2. FixedPoints(rmap) \subseteq FixedPoints(out_rmap)
    BY <2>1 DEF GuessOK, FixedPoints
  <2>3. FixedPoints(out_rmap) \subseteq FixedPoints(rmap)
    BY <2>1 DEF GuessOK, FixedPoints
  <2> QED
    BY <1>1, <2>2, <2>3
<1>5. FixedPoints(sccsSmap) = {order[1]}
  <2>1. order[1] \in FixedPoints(sccsSmap)
    BY <1>1, <1>2, <1>3 DEF FixedPoints
  <2>2. ASSUME NEW v \in FixedPoints(sccsSmap) PROVE v = order[1]
    <3>1. v \in end_points /\ sccsSmap[v] = v
      BY <1>2 DEF FixedPoints
    <3>2. PICK i \in DOMAIN order : IsStart(i) /\ v = order[i]
      BY <1>1, <3>1
    <3>3. CASE i # 1
      <4>1. i - 1 \in DOMAIN order /\ LoopOf(i - 1) # LoopOf(i)
        BY <1>1, <3>2, <3>3 DEF IsStart
      <4>2. out_rmap[StartOf(LoopOf(i - 1))] = LoopOf(i - 1)
        BY <1>1, <4>1, StartsTyped DEF OrderKnown
      <4> QED
        BY <1>2, <3>1, <3>2, <3>3, <4>1, <4>2 DEF LoopOf
    <3> QED
      BY <3>2, <3>3
  <2> QED
    BY <2>1, <2>2
<1>6. /\ unsorted_sccs' = FixedPoints(out_rmap) /\ sccs_smap' = sccsSmap
      /\ jth_scc' = FixedPoints(sccsSmap)
  BY DEF sortLoops
<1>7. From(1) = DOMAIN order
  BY <1>1 DEF From
<1>8. order' = order /\ UNCHANGED <<graph, out, end_points, reps_to_endpoints>>
  BY DEF sortLoops, graph
<1>9. /\ unsorted_sccs' = {LoopOf(i)' : i \in From(1)'}
      /\ DOMAIN sccs_smap' = {order'[i] : i \in {i \in From(1)' : IsStart(i)'}}
      /\ \A i \in From(1)' : IsStart(i)' => sccs_smap'[order'[i]] = sccsSmap'[order'[i]]
      /\ jth_scc' = {order'[1]} /\ IsStart(1)'
  BY <1>1, <1>2, <1>3, <1>4, <1>5, <1>6, <1>7, <1>8, OrderStays
<1> QED
  BY <1>9 DEF AtLoop

(* While a loop is left there is one in turn, and sortLoop begins with its first vertex. *)
LEMMA LoopBegins ==
  ASSUME OrderKnown, sortLoop, NEW p, AtLoop(p)
  PROVE  stage' = "sortLoop" /\ AtVertex(p, p)'
<1>1. /\ order \in Seq(out.V) /\ Len(order) \in Nat /\ DOMAIN order = 1..Len(order)
      /\ \A i, j \in DOMAIN order : order[i] = order[j] => i = j
      /\ \A i \in DOMAIN order : order[i] \in out.V
  BY LoopsOnOrder
<1>2. p \in DOMAIN order /\ IsStart(p) /\ jth_scc = {order[p]}
  <2>1. PICK i \in From(p) : TRUE
    BY DEF sortLoop, AtLoop
  <2>2. p \in DOMAIN order
    BY <1>1, <2>1 DEF From, AtLoop
  <2> QED
    BY <2>2 DEF AtLoop
<1>3. InTurn(sccs_smap, jth_scc) = {order[p]}
  <2>1. p \in From(p)
    BY <1>1, <1>2 DEF From
  <2> QED
    BY <1>2, <2>1 DEF AtLoop, InTurn
<1>4. /\ stage' = "sortLoop"
      /\ unsorted_vertices' = Loop(LoopOf(p))
      /\ vertices_smap' = Only(sort, Loop(LoopOf(p)))
      /\ jth_vertices' = {order[p]}
  BY <1>3 DEF sortLoop, represented, LoopOf
<1>5. \A i \in DOMAIN order : LoopOf(i) = LoopOf(p) => p =< i
  <2> SUFFICES ASSUME NEW i \in DOMAIN order, LoopOf(i) = LoopOf(p), i < p PROVE FALSE
    BY <1>1, <1>2
  <2>1. p # 1 /\ p - 1 \in DOMAIN order /\ LoopOf(p - 1) # LoopOf(p)
    BY <1>1, <1>2 DEF IsStart
  <2>2. i # p - 1
    BY <2>1
  <2>3. i < p - 1 /\ p - 1 < p
    BY <1>1, <1>2, <2>2
  <2> QED
    BY <1>2, <2>1, <2>3 DEF OrderKnown, OrderOK, Together
<1>6. Loop(LoopOf(p)) = {order[i] : i \in {i \in From(p) : LoopOf(i) = LoopOf(p)}}
  <2>1. Range(order) = out.V /\ DOMAIN out_rmap = out.V
    BY StartsTyped DEF OrderKnown, Whole, GuessOK
  <2>2. ASSUME NEW v \in Loop(LoopOf(p))
        PROVE  \E i \in From(p) : LoopOf(i) = LoopOf(p) /\ v = order[i]
    <3>1. v \in out.V /\ out_rmap[v] = LoopOf(p)
      BY <2>1 DEF Loop, preImage
    <3>2. PICK i \in DOMAIN order : v = order[i]
      BY <2>1, <3>1 DEF Range
    <3>3. LoopOf(i) = LoopOf(p)
      BY <3>1, <3>2 DEF LoopOf
    <3>4. i \in From(p)
      BY <1>1, <1>2, <1>5, <3>3 DEF From
    <3> QED
      BY <3>2, <3>3, <3>4
  <2>3. ASSUME NEW i \in From(p), LoopOf(i) = LoopOf(p) PROVE order[i] \in Loop(LoopOf(p))
    <3>1. i \in DOMAIN order
      BY <1>1, <1>2 DEF From
    <3> QED
      BY <1>1, <2>1, <2>3, <3>1 DEF Loop, preImage, LoopOf
  <2> QED
    BY <2>2, <2>3
<1>7. /\ DOMAIN vertices_smap' = unsorted_vertices'
      /\ \A v \in unsorted_vertices' : vertices_smap'[v] = sort[v]
  <2>1. Loop(LoopOf(p)) \subseteq DOMAIN sort
    BY SortDomain, StartsTyped DEF OrderKnown, Whole, Loop, preImage, GuessOK
  <2> QED
    BY <1>4, <2>1, OnlyWithin
<1>8. order' = order /\ UNCHANGED <<graph, out, end_points, reps_to_endpoints>>
  BY DEF sortLoop, graph
<1>9. /\ p \in DOMAIN order' /\ p \in Nat /\ p =< p
      /\ \A i \in DOMAIN order' : p =< i /\ i < p => LoopOf(i)' = LoopOf(p)'
      /\ unsorted_vertices' = {order'[i] : i \in {i \in From(p)' : LoopOf(i)' = LoopOf(p)'}}
      /\ \A v \in unsorted_vertices' : vertices_smap'[v] = sort'[v]
      /\ jth_vertices' = {order'[p]}
  BY <1>1, <1>2, <1>4, <1>6, <1>7, <1>8, OrderStays
<1> QED
  BY <1>4, <1>7, <1>9 DEF AtVertex

(* While a vertex of the loop is left there is one in turn, and the next one follows. *)
LEMMA VertexFound ==
  ASSUME OrderKnown, NEW p, NEW q, AtVertex(p, q), unsorted_vertices # {}
  PROVE  /\ q \in DOMAIN order /\ LoopOf(q) = LoopOf(p)
         /\ jth_vertices = {order[q]} /\ InTurn(vertices_smap, jth_vertices) = {order[q]}
<1>1. Len(order) \in Nat /\ DOMAIN order = 1..Len(order)
  BY LoopsOnOrder
<1>2. p \in DOMAIN order /\ q \in Nat /\ p =< q
  BY DEF AtVertex
<1>3. PICK i \in From(q) : LoopOf(i) = LoopOf(p)
  BY DEF AtVertex
<1>4. q \in DOMAIN order /\ i \in DOMAIN order /\ q =< i /\ q \in From(q)
  BY <1>1, <1>2, <1>3 DEF From
<1>5. LoopOf(q) = LoopOf(p)
  <2>1. CASE q = p
    BY <2>1
  <2>2. CASE q = i
    BY <1>3, <2>2
  <2>3. CASE p < q /\ q < i
    BY <1>2, <1>3, <1>4, <2>3 DEF OrderKnown, OrderOK, Together
  <2> QED
    BY <1>1, <1>2, <1>4, <2>1, <2>2, <2>3
<1>6. jth_vertices = {order[q]} /\ order[q] \in DOMAIN vertices_smap
  BY <1>4, <1>5 DEF AtVertex
<1> QED
  BY <1>4, <1>5, <1>6 DEF InTurn

LEMMA VertexWritten ==
  ASSUME OrderKnown, sortVertex, NEW p, NEW q, AtVertex(p, q)
  PROVE  stage' = stage /\ AtVertex(p, q + 1)'
<1>1. /\ order \in Seq(out.V) /\ Len(order) \in Nat /\ DOMAIN order = 1..Len(order)
      /\ \A i, j \in DOMAIN order : order[i] = order[j] => i = j
  BY LoopsOnOrder
<1>2. /\ q \in DOMAIN order /\ LoopOf(q) = LoopOf(p)
      /\ InTurn(vertices_smap, jth_vertices) = {order[q]}
  BY VertexFound DEF sortVertex
<1>3. p \in DOMAIN order /\ q \in Nat /\ p =< q
  BY DEF AtVertex
<1> DEFINE next == preImage(vertices_smap', {order[q]})
<1>4. /\ stage' = stage
      /\ unsorted_vertices' = unsorted_vertices \ {order[q]}
      /\ vertices_smap' = Only(vertices_smap, unsorted_vertices')
      /\ jth_vertices' \in IF next = {} THEN {jth_vertices} ELSE {{w} : w \in next}
  BY <1>2 DEF sortVertex
<1>5. unsorted_vertices' = {order[i] : i \in {i \in From(q + 1) : LoopOf(i) = LoopOf(p)}}
  <2>1. unsorted_vertices = {order[i] : i \in {i \in From(q) : LoopOf(i) = LoopOf(p)}}
    BY DEF AtVertex
  <2>2. From(q) = From(q + 1) \cup {q} /\ q \notin From(q + 1) /\ From(q) \subseteq DOMAIN order
    BY <1>1, <1>2 DEF From
  <2> QED
    BY <1>1, <1>2, <1>4, <2>1, <2>2
<1>6. /\ DOMAIN vertices_smap' = unsorted_vertices'
      /\ \A v \in unsorted_vertices' : vertices_smap'[v] = sort[v]
  <2>1. /\ unsorted_vertices' \subseteq DOMAIN vertices_smap
        /\ \A v \in unsorted_vertices : vertices_smap[v] = sort[v]
    BY <1>4 DEF AtVertex
  <2>2. /\ DOMAIN vertices_smap' = unsorted_vertices'
        /\ \A v \in unsorted_vertices' : vertices_smap'[v] = vertices_smap[v]
    BY <1>4, <2>1, OnlyWithin
  <2> QED
    BY <1>4, <2>1, <2>2
<1>7. ASSUME q + 1 \in DOMAIN order, LoopOf(q + 1) = LoopOf(p)
      PROVE  jth_vertices' = {order[q + 1]}
  <2>1. \A i \in From(q + 1) : /\ i \in DOMAIN order /\ i - 1 \in DOMAIN order
                               /\ sort[order[i]] = order[i - 1]
    <3>1. \A i \in DOMAIN order : sort[order[i]] = order[IF i = 1 THEN 1 ELSE i - 1]
      BY SortFacts DEF OrderKnown
    <3>2. \A i \in From(q + 1) : i \in DOMAIN order /\ i # 1 /\ i - 1 \in DOMAIN order
      BY <1>1, <1>2 DEF From
    <3> QED
      BY <3>1, <3>2
  <2>2. q + 1 \in From(q + 1) /\ (q + 1) - 1 = q
    BY <1>1, <1>3, <1>7 DEF From
  <2>3. order[q + 1] \in next
    BY <1>5, <1>6, <1>7, <2>1, <2>2 DEF preImage
  <2>4. ASSUME NEW v \in next PROVE v = order[q + 1]
    <3>1. v \in unsorted_vertices' /\ sort[v] = order[q]
      BY <1>6 DEF preImage
    <3>2. PICK i \in From(q + 1) : v = order[i]
      BY <1>5, <3>1
    <3>3. i - 1 = q
      BY <1>1, <1>2, <2>1, <3>1, <3>2
    <3>4. i = q + 1
      BY <1>1, <1>3, <2>1, <3>3
    <3> QED
      BY <3>2, <3>4
  <2>5. next = {order[q + 1]}
    BY <2>3, <2>4
  <2> HIDE DEF next
  <2> QED
    BY <1>4, <2>5
<1>8. \A i \in DOMAIN order : p =< i /\ i < q + 1 => LoopOf(i) = LoopOf(p)
  <2> SUFFICES ASSUME NEW i \in DOMAIN order, p =< i, i < q + 1 PROVE LoopOf(i) = LoopOf(p)
    OBVIOUS
  <2>1. i < q \/ i = q
    BY <1>1, <1>3
  <2> QED
    BY <1>2, <2>1 DEF AtVertex
<1>9. order' = order /\ UNCHANGED <<graph, out, end_points, reps_to_endpoints>>
  BY DEF sortVertex, graph
<1>10. /\ p \in DOMAIN order' /\ q + 1 \in Nat /\ p =< q + 1
       /\ \A i \in DOMAIN order' : p =< i /\ i < q + 1 => LoopOf(i)' = LoopOf(p)'
       /\ unsorted_vertices' = {order'[i] : i \in {i \in From(q + 1)' : LoopOf(i)' = LoopOf(p)'}}
       /\ \A v \in unsorted_vertices' : vertices_smap'[v] = sort'[v]
       /\ q + 1 \in DOMAIN order' /\ LoopOf(q + 1)' = LoopOf(p)' => jth_vertices' = {order'[q + 1]}
  <2>1. p \in DOMAIN order' /\ q + 1 \in Nat /\ p =< q + 1
    BY <1>1, <1>3, <1>9
  <2>2. \A i \in DOMAIN order' : p =< i /\ i < q + 1 => LoopOf(i)' = LoopOf(p)'
    BY <1>8, <1>9, OrderStays
  <2>3. unsorted_vertices' = {order'[i] : i \in {i \in From(q + 1)' : LoopOf(i)' = LoopOf(p)'}}
    BY <1>5, <1>9, OrderStays
  <2>4. \A v \in unsorted_vertices' : vertices_smap'[v] = sort'[v]
    BY <1>6, <1>9, OrderStays
  <2>5. q + 1 \in DOMAIN order' /\ LoopOf(q + 1)' = LoopOf(p)' => jth_vertices' = {order'[q + 1]}
    BY <1>7, <1>9, OrderStays
  <2> QED
    BY <2>1, <2>2, <2>3, <2>4, <2>5
<1> QED
  BY <1>4, <1>6, <1>10 DEF AtVertex

(* The end of a loop: the one that starts next on the order has its turn. *)
LEMMA LoopFollows ==
  ASSUME OrderKnown, nextLoop, NEW p, NEW q, AtLoop(p), AtVertex(p, q)
  PROVE  AtLoop(q)'
<1>1. /\ order \in Seq(out.V) /\ Len(order) \in Nat /\ DOMAIN order = 1..Len(order)
      /\ \A i, j \in DOMAIN order : order[i] = order[j] => i = j
      /\ \A i \in DOMAIN order : order[i] \in out.V /\ LoopOf(i) \in FixedPoints(rmap)
  BY LoopsOnOrder
<1>2. /\ p \in DOMAIN order /\ p \in Nat /\ q \in Nat /\ p =< q /\ IsStart(p) /\ jth_scc = {order[p]}
      /\ \A i \in DOMAIN order : p =< i /\ i < q => LoopOf(i) = LoopOf(p)
  BY <1>1 DEF AtVertex, AtLoop
<1>3. \A i \in From(q) : i \in DOMAIN order /\ LoopOf(i) # LoopOf(p)
  <2>1. ASSUME NEW i \in From(q), LoopOf(i) = LoopOf(p) PROVE FALSE
    <3>1. order[i] \in unsorted_vertices
      BY <2>1 DEF AtVertex
    <3> QED
      BY <3>1 DEF nextLoop
  <2> QED
    BY <1>1, <1>2, <2>1 DEF From
<1>4. p < q
  <2>1. q # p
    BY <1>1, <1>2, <1>3 DEF From
  <2> QED
    BY <1>2, <2>1
<1>5. /\ From(p) \subseteq DOMAIN order /\ From(q) \subseteq From(p)
      /\ \A i \in From(p) \ From(q) : LoopOf(i) = LoopOf(p)
  <2>1. From(p) \subseteq DOMAIN order /\ From(q) \subseteq From(p)
    BY <1>1, <1>2 DEF From
  <2>2. ASSUME NEW i \in From(p) \ From(q) PROVE p =< i /\ i < q
    BY <1>1, <1>2 DEF From
  <2> QED
    BY <1>2, <2>1, <2>2
<1>6. q \in DOMAIN order => IsStart(q) /\ LoopOf(q - 1) = LoopOf(p)
  <2> SUFFICES ASSUME q \in DOMAIN order PROVE IsStart(q) /\ LoopOf(q - 1) = LoopOf(p)
    OBVIOUS
  <2>1. q \in From(q) /\ q - 1 \in DOMAIN order /\ p =< q - 1 /\ q - 1 < q
    BY <1>1, <1>2, <1>4 DEF From
  <2>2. LoopOf(q - 1) = LoopOf(p) /\ LoopOf(q) # LoopOf(p)
    BY <1>2, <1>3, <2>1
  <2> QED
    BY <2>2 DEF IsStart
<1>7. unsorted_sccs' = {LoopOf(i) : i \in From(q)}
  <2>1. Image(out_rmap, jth_scc) = {LoopOf(p)}
    <3>1. order[p] \in DOMAIN out_rmap
      BY <1>1, <1>2, StartsTyped DEF OrderKnown, GuessOK
    <3> QED
      BY <1>2, <3>1 DEF Image, LoopOf
  <2>2. unsorted_sccs' = {LoopOf(i) : i \in From(p)} \ {LoopOf(p)}
    BY <2>1 DEF nextLoop, AtLoop
  <2> QED
    BY <1>3, <1>5, <2>2
<1>8. /\ DOMAIN sccs_smap' = {order[i] : i \in {i \in From(q) : IsStart(i)}}
      /\ \A i \in From(q) : IsStart(i) => sccs_smap'[order[i]] = sccsSmap[order[i]]
  <2> DEFINE left == preImage(out_rmap, unsorted_sccs')
  <2>1. sccs_smap' = Only(sccs_smap, left)
    BY DEF nextLoop
  <2>2. \A i \in From(p) : order[i] \in left <=> i \in From(q)
    <3> SUFFICES ASSUME NEW i \in From(p) PROVE order[i] \in left <=> i \in From(q)
      OBVIOUS
    <3>1. order[i] \in left <=> LoopOf(i) \in unsorted_sccs'
      BY <1>1, <1>5, StartsTyped DEF OrderKnown, GuessOK, preImage, LoopOf
    <3>2. LoopOf(i) \in unsorted_sccs' <=> i \in From(q)
      BY <1>3, <1>5, <1>7
    <3> QED
      BY <3>1, <3>2
  <2>3. /\ DOMAIN sccs_smap = {order[i] : i \in {i \in From(p) : IsStart(i)}}
        /\ \A i \in From(p) : IsStart(i) => sccs_smap[order[i]] = sccsSmap[order[i]]
    BY DEF AtLoop
  <2> HIDE DEF left
  <2>4. /\ DOMAIN sccs_smap' = left \cap DOMAIN sccs_smap
        /\ \A v \in left \cap DOMAIN sccs_smap : sccs_smap'[v] = sccs_smap[v]
    BY <2>1, OnlyFacts
  <2> QED
    BY <1>5, <2>2, <2>3, <2>4
<1>9. ASSUME q \in DOMAIN order PROVE jth_scc' = {order[q]}
  <2> DEFINE next == preImage(sccs_smap', jth_scc)
  <2>1. /\ \A i \in DOMAIN order : IsStart(i) =>
             sccsSmap[order[i]] = IF i = 1 THEN order[1] ELSE StartOf(LoopOf(i - 1))
    BY LoopBefore
  <2>2. order[p] = StartOf(LoopOf(p))
    BY <1>2 DEF OrderKnown, OrderOK, StartsFirst
  <2>3. q \in From(q) /\ q # 1
    BY <1>1, <1>2, <1>4, <1>9 DEF From
  <2>4. order[q] \in next
    BY <1>2, <1>6, <1>8, <1>9, <2>1, <2>2, <2>3 DEF preImage
  <2>5. ASSUME NEW v \in next PROVE v = order[q]
    <3>1. v \in DOMAIN sccs_smap' /\ sccs_smap'[v] = order[p]
      BY <1>2 DEF preImage
    <3>2. PICK i \in From(q) : IsStart(i) /\ v = order[i]
      BY <1>8, <3>1
    <3>3. i \in DOMAIN order /\ i # 1 /\ i - 1 \in DOMAIN order
      BY <1>1, <1>2, <1>3, <1>4, <3>2 DEF From
    <3>4. StartOf(LoopOf(i - 1)) = order[p]
      BY <1>8, <2>1, <3>1, <3>2, <3>3
    <3>5. LoopOf(i - 1) = LoopOf(p)
      <4>1. out_rmap[StartOf(LoopOf(i - 1))] = LoopOf(i - 1)
        BY <1>1, <3>3, StartsTyped DEF OrderKnown
      <4> QED
        BY <3>4, <4>1 DEF LoopOf
    <3>6. i - 1 \notin From(q)
      BY <1>3, <3>5
    <3>7. i = q
      BY <1>1, <1>2, <3>2, <3>3, <3>6 DEF From
    <3> QED
      BY <3>2, <3>7
  <2>6. next = {order[q]}
    BY <2>4, <2>5
  <2>7. jth_scc' \in IF next = {} THEN {jth_scc} ELSE {{w} : w \in next}
    BY DEF nextLoop
  <2> HIDE DEF next
  <2> QED
    BY <2>6, <2>7
<1>10. order' = order /\ UNCHANGED <<graph, out, end_points, reps_to_endpoints>>
  BY DEF nextLoop, graph
<1>11. q \in Nat \ {0}
  BY <1>1, <1>2, <1>4
<1>12. /\ q \in DOMAIN order' => IsStart(q)' /\ jth_scc' = {order'[q]}
       /\ unsorted_sccs' = {LoopOf(i)' : i \in From(q)'}
       /\ DOMAIN sccs_smap' = {order'[i] : i \in {i \in From(q)' : IsStart(i)'}}
       /\ \A i \in From(q)' : IsStart(i)' => sccs_smap'[order'[i]] = sccsSmap'[order'[i]]
  BY <1>6, <1>7, <1>8, <1>9, <1>10, OrderStays
<1> QED
  BY <1>11, <1>12 DEF AtLoop

-----------------------------------------------------------------------------
(***************************************************************************)
(* The invariant of the walks.                                             *)
(***************************************************************************)
WInv ==
  /\ stage \notin Untorn \cup {"addGuessVertices"} => GuessesFixed
  /\ stage \in Built => OrderOK
  /\ stage \in Built \ {"TopologicalSorting"} => Whole
  /\ stage = "sortLoops" => \E p : AtLoop(p)
  /\ stage = "sortLoop" => \E p, q : AtLoop(p) /\ AtVertex(p, q)
  /\ stage # "undefined"

LEMMA InitWInv == SortInit => WInv
BY DEF SortInit, Init, WInv, Untorn, Early, Built

(* A guess vertex has no guess of its own. *)
LEMMA GuessesStay ==
  ASSUME IInv, WInv, BuilderNext
  PROVE  (stage \notin Untorn \cup {"addGuessVertices"} => GuessesFixed)'
<1>1. CASE addGuessVertices
  <2>1. /\ residual \subseteq M /\ GuessVertices = {x + maxv : x \in residual}
        /\ GuessVertices \cap M = {}
        /\ guess_offset' = [v \in M \cup GuessVertices |-> IF v \in residual THEN v + maxv ELSE v]
        /\ out'.V = M \cup GuessVertices
    BY <1>1, GuessGraph
  <2>2. ASSUME NEW v \in M \cup GuessVertices
        PROVE  guess_offset'[guess_offset'[v]] = guess_offset'[v]
    <3>1. CASE v \in residual
      <4>1. guess_offset'[v] = v + maxv /\ v + maxv \in GuessVertices
        BY <2>1, <3>1
      <4>2. v + maxv \notin residual
        BY <2>1, <4>1
      <4> QED
        BY <2>1, <4>1, <4>2
    <3>2. CASE v \notin residual
      BY <2>1, <3>2
    <3> QED
      BY <3>1, <3>2
  <2> QED
    BY <2>1, <2>2 DEF GuessesFixed
<1>2. CASE endPoints
  BY <1>2 DEF endPoints, WInv, GuessesFixed, Untorn, Early
<1>3. CASE addDependencies \/ redirectEdiff
  <2>1. WellFormed(out)
    BY <1>3 DEF IInv, StageOK, addDependencies, redirectEdiff, Untorn, Early
  <2>2. out'.V = out.V
    <3>1. CASE addDependencies
      <4>1. PICK b1, d1, b2, d2 : out' = AddEdges(AddEdges(out, b1, d1), b2, d2)
        BY <3>1 DEF addDependencies
      <4> QED
        BY <4>1 DEF AddEdges, Graph
    <3>2. CASE redirectEdiff
      BY <3>2 DEF redirectEdiff, AddEdges, EraseEdges, Graph
    <3> QED
      BY <1>3, <3>1, <3>2
  <2> QED
    BY <1>3, <2>2 DEF addDependencies, redirectEdiff, WInv, GuessesFixed, Untorn, Early
<1>4. CASE HorizontalSorting \/ AlgebraicLoopsDetector \/ TearingDetector
  BY <1>4 DEF HorizontalSorting, AlgebraicLoopsDetector, TearingDetector, Untorn, Early
<1> QED
  BY <1>1, <1>2, <1>3, <1>4 DEF BuilderNext, build

(* Up to the end of build nothing is on the order. *)
LEMMA BuilderKeeps ==
  ASSUME IInv, SInv, WInv, BuilderNext, UNCHANGED <<order, svars>>
  PROVE  WInv'
<1>1. /\ stage \notin Built
      /\ stage' \in {"AlgebraicLoopsDetector", "TearingDetector", "addGuessVertices", "endPoints",
                     "addDependencies", "redirectEdiff", "TopologicalSorting", "unbalanced",
                     "higher index", "out of bound"}
  BY DEF BuilderNext, HorizontalSorting, AlgebraicLoopsDetector, TearingDetector, build,
     addGuessVertices, endPoints, addDependencies, redirectEdiff, Built, Untorn, Early
<1>2. order' = <<>>
  BY <1>1 DEF SInv, Unbegun
<1>3. OrderOK'
  BY <1>2 DEF OrderOK, Together, StartsFirst, EndsLast, LeftComplete, EndedComplete
<1>4. stage' \notin Built \ {"TopologicalSorting"}
  BY <1>1 DEF Built, Untorn, Early
<1> QED
  BY <1>1, <1>3, <1>4, GuessesStay DEF WInv

(* Once the order is begun the graph stays as it is. *)
LEMMA PartsStay ==
  ASSUME UNCHANGED <<graph, out, end_points, reps_to_endpoints, order>>
  PROVE  /\ GuessesFixed' = GuessesFixed /\ OrderOK' = OrderOK /\ Whole' = Whole
<1>1. \A i : LoopOf(i)' = LoopOf(i) /\ IsStart(i)' = IsStart(i)
  BY OrderStays
<1>2. \A c : StartOf(c)' = StartOf(c) /\ Loop(c)' = Loop(c)
  BY DEF StartOf, Loop, graph
<1>3. OrderOK' = OrderOK
  BY <1>1, <1>2 DEF OrderOK, Together, StartsFirst, EndsLast, LeftComplete, EndedComplete
<1> QED
  BY <1>3 DEF GuessesFixed, Whole, graph

LEMMA NextWInv ==
  ASSUME KeepsEnds
  PROVE  IInv /\ KInv /\ SInv /\ RInv /\ WInv /\ [Next]_vars => WInv'
<1> SUFFICES ASSUME IInv, KInv, SInv, RInv, WInv, [Next]_vars PROVE WInv'
  OBVIOUS
<1>1. CASE BuilderNext /\ UNCHANGED <<order, svars>>
  BY <1>1, BuilderKeeps
<1>2. CASE TopologicalSorting
  <2>1. /\ stage \in Built /\ stage' \in {"TopologicalSorting", "toModelicaFormat"}
        /\ stage' = "toModelicaFormat" => Range(order') = out'.V
        /\ UNCHANGED <<out, guess_offset>>
    BY <1>2 DEF TopologicalSorting, Built, Stages, Untorn, Early
  <2>2. OrderOK'
    BY <1>2, <2>1, OrderStep DEF WInv
  <2>3. Len(order') > 0
    BY <1>2 DEF TopologicalSorting, SInv
  <2>4. GuessesFixed'
    BY <1>2, <2>1 DEF WInv, GuessesFixed, TopologicalSorting, Untorn, Early
  <2> QED
    BY <2>1, <2>2, <2>3, <2>4 DEF WInv, Whole, Built
<1>3. ASSUME sortLoops \/ sortLoop \/ sortVertex \/ nextLoop
      PROVE  OrderKnown /\ (GuessesFixed /\ OrderOK /\ Whole)'
  <2>1. stage \in Built \ {"TopologicalSorting"} /\ stage \notin Untorn \cup {"addGuessVertices"}
    BY <1>3 DEF sortLoops, sortLoop, sortVertex, nextLoop, Built, Stages, Untorn, Early
  <2>2. OrderKnown
    BY <2>1 DEF WInv, OrderKnown
  <2>3. UNCHANGED <<graph, out, end_points, reps_to_endpoints, order>>
    BY <1>3 DEF sortLoops, sortLoop, sortVertex, nextLoop, graph
  <2> QED
    BY <2>2, <2>3, PartsStay DEF OrderKnown
<1>4. CASE sortLoops
  BY <1>3, <1>4, LoopsBegin DEF WInv, sortLoops
<1>5. CASE sortLoop
  <2>1. PICK p : AtLoop(p)
    BY <1>5 DEF WInv, sortLoop
  <2>2. stage' = "sortLoop" /\ AtVertex(p, p)'
    BY <1>3, <1>5, <2>1, LoopBegins
  <2>3. AtLoop(p)'
    <3>1. UNCHANGED <<graph, out, end_points, reps_to_endpoints, order, unsorted_sccs, sccs_smap, jth_scc>>
      BY <1>5, <2>2 DEF sortLoop, graph, svars
    <3> QED
      BY <2>1, <3>1, OrderStays DEF AtLoop
  <2> QED
    BY <1>3, <1>5, <2>2, <2>3 DEF WInv
<1>6. CASE sortVertex
  <2>1. PICK p, q : AtLoop(p) /\ AtVertex(p, q)
    BY <1>6 DEF WInv, sortVertex
  <2>2. stage' = "sortLoop" /\ AtVertex(p, q + 1)'
    BY <1>3, <1>6, <2>1, VertexWritten DEF sortVertex
  <2>3. AtLoop(p)'
    <3>1. UNCHANGED <<graph, out, end_points, reps_to_endpoints, order, unsorted_sccs, sccs_smap, jth_scc>>
      BY <1>6 DEF sortVertex, graph
    <3> QED
      BY <2>1, <3>1, OrderStays DEF AtLoop
  <2> QED
    BY <1>3, <1>6, <2>2, <2>3 DEF WInv
<1>7. CASE nextLoop
  <2>1. PICK p, q : AtLoop(p) /\ AtVertex(p, q)
    BY <1>7 DEF WInv, nextLoop
  <2>2. stage' = "sortLoops" /\ AtLoop(q)'
    BY <1>3, <1>7, <2>1, LoopFollows DEF nextLoop
  <2> QED
    BY <1>3, <1>7, <2>2 DEF WInv
<1>8. CASE Sorted
  <2>1. stage \in Built \ {"TopologicalSorting"} /\ stage \notin Untorn \cup {"addGuessVertices"}
    BY <1>8 DEF Sorted, Built, Stages, Untorn, Early
  <2>2. UNCHANGED <<graph, out, end_points, reps_to_endpoints, order>> /\ stage' = "sorted"
    BY <1>8 DEF Sorted, graph
  <2> QED
    BY <2>1, <2>2, PartsStay DEF WInv
<1>9. CASE UNCHANGED vars
  <2>1. UNCHANGED <<graph, out, end_points, reps_to_endpoints, order, stage, svars>>
    BY <1>9 DEF vars, bvars, graph
  <2>2. \A p, q : AtLoop(p)' = AtLoop(p) /\ AtVertex(p, q)' = AtVertex(p, q)
    BY <2>1, OrderStays DEF AtLoop, AtVertex, svars
  <2> QED
    BY <2>1, <2>2, PartsStay DEF WInv
<1> QED
  BY <1>1, <1>2, <1>4, <1>5, <1>6, <1>7, <1>8, <1>9 DEF Next, Work

(***************************************************************************)
(* Where the walks are on the order, when it keeps to the ends of the      *)
(* loops it is given or cannot do otherwise.                               *)
(***************************************************************************)
THEOREM WalkInvariance ==
  ASSUME KeepsEnds
  PROVE  Spec => [](IInv /\ KInv /\ SInv /\ RInv /\ WInv)
<1>1. SortInit => SInv /\ RInv /\ WInv
  BY InitSInv, InitRInv, InitWInv
<1>2. IInv /\ IInv' /\ KInv /\ SInv /\ [Next]_vars => SInv'
  BY NextSInv
<1>3. IInv /\ KInv /\ SInv /\ RInv /\ [Next]_vars => RInv'
  BY NextRInv
<1>4. IInv /\ KInv /\ SInv /\ RInv /\ WInv /\ [Next]_vars => WInv'
  BY NextWInv
<1> QED
  BY Invariance, KeptInvariance, <1>1, <1>2, <1>3, <1>4, PTL DEF Spec

(***************************************************************************)
(* The walks over the order never dereference an empty map: each turn of   *)
(* sortLoops and of sortLoop finds the vertex it looks for.  With several  *)
(* tearing variables in a loop the order has to keep to the ends of the    *)
(* loops it is given.                                                      *)
(***************************************************************************)
THEOREM WalksDefined ==
  ASSUME KeepsEnds
  PROVE  Spec => []NeverUndefined
<1>1. WInv => NeverUndefined
  BY DEF WInv, NeverUndefined
<1> QED
  BY WalkInvariance, <1>1, PTL
=============================================================================
