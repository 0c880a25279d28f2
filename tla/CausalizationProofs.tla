------------------------- MODULE CausalizationProofs -------------------------
(***************************************************************************)
(* The graph VerticalSortingBuilder leaves can be ordered, for every       *)
(* system and every choice of its matching, components and tearing         *)
(* variables; and, from the same invariant, the types of its stages.       *)
(***************************************************************************)
EXTENDS VerticalSorting, SBGraphLemmas

(* Stages after which the loops, the tearing variables, the guesses are known. *)
Early   == {"HorizontalSorting", "AlgebraicLoopsDetector", "unbalanced", "higher index"}
Untorn  == Early \cup {"TearingDetector", "out of bound"}
Built   == Stages \ (Untorn \cup {"addGuessVertices", "endPoints", "addDependencies",
                                  "redirectEdiff"})

(***************************************************************************)
(* The loop detection graph, its components, and the tearing variables.    *)
(***************************************************************************)
GraphOK ==
  /\ dsbg.V = M
  /\ M \subseteq Nat \ {0} /\ IsFiniteSet(M)
  /\ WellFormed(dsbg)
  /\ dsbg.mapB \in [EdgesOf(dsbg) -> M]
  /\ dsbg.mapD \in [EdgesOf(dsbg) -> M]

LoopsOK ==
  /\ rmap \in [M -> M]
  /\ IsSCC(dsbg, rmap)
  /\ Ediff = {e \in EdgesOf(dsbg) : rmap[dsbg.mapB[e]] # rmap[dsbg.mapD[e]]}

(* A part of a loop without vertices of R has one that reads no other of the part. *)
Cuts(g, r, R) ==
  /\ R \subseteq g.V
  /\ \A T \in Parts(g.V \ R) :
       (\A u, v \in T : r[u] = r[v])
         => \E v \in T : \A e \in EdgesOf(g) : g.mapB[e] \in T \ {v} => g.mapD[e] # v

TornOK == Cuts(dsbg, rmap, residual)

(***************************************************************************)
(* The guess vertices are new, and belong to the loop of their residual.   *)
(***************************************************************************)
GuessOK ==
  /\ M \subseteq out.V
  /\ guess_offset \in [out.V -> out.V]
  /\ out_rmap \in [out.V -> M]
  /\ \A v \in M : out_rmap[v] = rmap[v]
  /\ \A v \in out.V : /\ out_rmap[guess_offset[v]] = out_rmap[v]
                       /\ out_rmap[v] \in FixedPoints(rmap)

(***************************************************************************)
(* Three kinds of edges: within a loop, from what is no residual vertex to *)
(* an original vertex; from a residual vertex to the last of its loop; and *)
(* between loops that an original edge connects.                           *)
(***************************************************************************)
Within(u, w) ==
  /\ u \in out.V \ residual /\ w \in M /\ out_rmap[u] = rmap[w]
  /\ u \in M => \E e \in EdgesOf(dsbg) : dsbg.mapB[e] = u /\ dsbg.mapD[e] = w

Dependency(u, w) ==
  /\ u \in residual /\ u # w
  /\ w = reps_to_endpoints[rmap[u]]

Between(u, w) ==
  /\ u \in out.V /\ w \in out.V
  /\ \E e \in Ediff : /\ out_rmap[u] = rmap[dsbg.mapB[e]]
                      /\ out_rmap[w] = rmap[dsbg.mapD[e]]

Kept(e) == e \in Ediff /\ out.mapB[e] = dsbg.mapB[e] /\ out.mapD[e] = dsbg.mapD[e]

WithinOf(e)     == Within(out.mapB[e], out.mapD[e])
DependencyOf(e) == Dependency(out.mapB[e], out.mapD[e])
BetweenOf(e)    == Between(out.mapB[e], out.mapD[e])

EndpointsOK ==
  /\ reps_to_endpoints \in [M -> M]
  /\ \A v \in M : rmap[reps_to_endpoints[rmap[v]]] = rmap[v]
  /\ \A v \in residual : reps_to_endpoints[rmap[v]] \in residual

StageOK ==
  /\ stage \in Stages
  /\ IsSystem(bsbg)
  /\ stage = "AlgebraicLoopsDetector" => M \in FullMatchings
  /\ stage = "addGuessVertices" => out = dsbg
  /\ stage \notin Untorn => WellFormed(out)

EdgesOK ==
  /\ stage \in {"endPoints", "addDependencies"} =>
       \A e \in EdgesOf(out) : WithinOf(e) \/ Kept(e)
  /\ stage = "redirectEdiff" =>
       \A e \in EdgesOf(out) : WithinOf(e) \/ DependencyOf(e) \/ Kept(e)
  /\ stage \in Built =>
       \A e \in EdgesOf(out) : WithinOf(e) \/ DependencyOf(e) \/ BetweenOf(e)

(***************************************************************************)
(* The inductive invariant: what is known from each stage on.              *)
(***************************************************************************)
IInv ==
  /\ StageOK
  /\ stage \notin Early => GraphOK /\ LoopsOK
  /\ stage \notin Untorn => TornOK
  /\ stage \notin Untorn \cup {"addGuessVertices"} => GuessOK
  /\ stage \notin Untorn \cup {"addGuessVertices", "endPoints"} => EndpointsOK
  /\ EdgesOK

-----------------------------------------------------------------------------
(***************************************************************************)
(* IInv says what OutputOrderable needs: take the loop of T that no other  *)
(* loop of T precedes, and in it a guess, else a vertex that is not a      *)
(* tearing variable, else one that is not the last of the loop.            *)
(***************************************************************************)
LEMMA IInvOrders == IInv => OutputOrderable
<1> SUFFICES ASSUME IInv, stage = "TopologicalSorting",
                    NEW T \in Parts(out.V)
             PROVE  \E v \in T : Precedes(out, T \ {v}, v) = {}
  BY DEF OutputOrderable
<1>0. T \subseteq out.V /\ T # {}
  BY DEF Parts
<1>1. /\ GraphOK /\ LoopsOK /\ TornOK /\ GuessOK /\ EndpointsOK
      /\ \A e \in EdgesOf(out) : WithinOf(e) \/ DependencyOf(e) \/ BetweenOf(e)
      /\ residual \subseteq M
  BY DEF IInv, EdgesOK, Built, Stages, Untorn, Early, TornOK, Cuts, GraphOK
<1> DEFINE C == {out_rmap[v] : v \in T}
<1>2. PICK c \in C : \A e \in EdgesOf(dsbg) :
         rmap[dsbg.mapD[e]] = c /\ rmap[dsbg.mapB[e]] \in C => rmap[dsbg.mapB[e]] = c
  <2>1. C \in Parts(FixedPoints(rmap))
    <3>1. \A x \in C : x \in FixedPoints(rmap)
      BY <1>0, <1>1 DEF GuessOK
    <3>2. C # {}
      BY <1>0
    <3> QED
      BY <3>1, <3>2 DEF Parts
  <2> QED
    BY <2>1, <1>1 DEF LoopsOK, IsSCC
<1> DEFINE Tc == {v \in T : out_rmap[v] = c}
<1>3. Tc # {} /\ Tc \subseteq T /\ Tc \subseteq out.V
  BY <1>0
<1>4. ASSUME NEW v \in Tc, NEW u \in T, u \in Precedes(out, T, v)
      PROVE  u \in Tc /\ (Within(u, v) \/ Dependency(u, v))
  <2>1. Within(u, v) \/ Dependency(u, v) \/ Between(u, v)
    BY <1>1, <1>4 DEF Precedes, WithinOf, DependencyOf, BetweenOf
  <2>2. ~ Between(u, v)
    BY <1>1, <1>2 DEF Between, LoopsOK, GraphOK
  <2>3. Within(u, v) => u \in Tc
    BY <1>1 DEF Within, GuessOK
  <2>4. Dependency(u, v) => u \in Tc
    BY <1>1 DEF Dependency, EndpointsOK, GuessOK, LoopsOK
  <2> QED
    BY <2>1, <2>2, <2>3, <2>4
<1>5. SUFFICES ASSUME \A v \in Tc : \E u \in Tc \ {v} : Within(u, v) \/ Dependency(u, v)
               PROVE  FALSE
  BY <1>3, <1>4 DEF Precedes
<1>6. Tc \subseteq M
  BY <1>1, <1>5 DEF Within, Dependency, EndpointsOK, LoopsOK
<1>7. \A v \in Tc : rmap[v] = c
  BY <1>1, <1>6 DEF GuessOK
<1>8. Tc \subseteq residual
  <2> DEFINE S == Tc \ residual
  <2>1. SUFFICES ASSUME S # {} PROVE FALSE
    OBVIOUS
  <2>2. PICK v \in S : \A e \in EdgesOf(dsbg) : dsbg.mapB[e] \in S \ {v} => dsbg.mapD[e] # v
    <3>1. S \in Parts(M \ residual)
      BY <1>6, <2>1 DEF Parts
    <3>2. \A u, v \in S : rmap[u] = rmap[v]
      BY <1>7
    <3> HIDE DEF S
    <3> QED
      BY <1>1, <3>1, <3>2 DEF TornOK, Cuts, GraphOK
  <2>3. ~ \E u \in Tc : Dependency(u, v)
    BY <1>1 DEF Dependency, EndpointsOK
  <2>4. PICK u \in Tc \ {v} : Within(u, v)
    BY <1>5, <2>3
  <2>5. u \in S
    BY <2>4 DEF Within
  <2> QED
    BY <2>2, <2>4, <2>5, <1>6 DEF Within
<1>9. \A v \in Tc : v = reps_to_endpoints[c]
  BY <1>5, <1>7, <1>8 DEF Within, Dependency
<1> QED
  BY <1>3, <1>5, <1>9

-----------------------------------------------------------------------------
(* The steps *)

(* The generation stage hands over a system. *)
LEMMA InitIInv == SortInit => IInv
<1> SUFFICES ASSUME SortInit PROVE IInv
  OBVIOUS
<1>1. stage = "HorizontalSorting" /\ bsbg \in Systems
  BY DEF SortInit, Init
<1>2. StageOK
  BY <1>1, SystemsAssumption DEF StageOK, Stages, Untorn, Early
<1> QED
  BY <1>1, <1>2 DEF IInv, EdgesOK, Untorn, Early, Built

(* A full matching, or the end. *)
LEMMA HorizontalSortingStep == IInv /\ HorizontalSorting => IInv'
<1> SUFFICES ASSUME IInv, HorizontalSorting PROVE IInv'
  OBVIOUS
<1>1. /\ bsbg' = bsbg
      /\ stage' \in {"unbalanced", "higher index", "AlgebraicLoopsDetector"}
      /\ stage' = "AlgebraicLoopsDetector" => M' \in FullMatchings
  BY DEF HorizontalSorting
<1>2. FullMatchings' = FullMatchings
  BY <1>1 DEF FullMatchings, mapF, mapU, Side, E
<1>3. StageOK'
  BY <1>1, <1>2 DEF IInv, StageOK, Stages, Untorn, Early, IsSystem
<1> QED
  BY <1>1, <1>3 DEF IInv, EdgesOK, Untorn, Early, Built

(* Every edge has its equation and its unknown, whichever of its ends they are. *)
LEMMA SideFacts ==
  ASSUME IsSystem(bsbg)
  PROVE  /\ E \subseteq Nat \ {0} /\ IsFiniteSet(E)
         /\ mapF \in [E -> bsbg.X] /\ mapU \in [E -> bsbg.Y]
<1>1. \A e \in E : /\ bsbg.map1[e] \in bsbg.X \cup bsbg.Y
                   /\ bsbg.map2[e] \in bsbg.X \cup bsbg.Y
                   /\ bsbg.map1[e] \in bsbg.X <=> bsbg.map2[e] \in bsbg.Y
  BY DEF IsSystem, E
<1>2. bsbg.X \cap bsbg.Y = {} /\ DOMAIN bsbg.map1 = E /\ DOMAIN bsbg.map2 = E
  BY DEF IsSystem, E
<1>3. ASSUME NEW S \in {bsbg.X, bsbg.Y} PROVE Side(S) \in [E -> S]
  <2>1. Side(S) = [e \in E |-> IF bsbg.map1[e] \in S THEN bsbg.map1[e] ELSE bsbg.map2[e]]
    BY <1>1, <1>2 DEF Side, Combine, Only, Restrict, preImage
  <2> QED
    BY <2>1, <1>1, <1>2
<1> QED
  BY <1>3 DEF mapF, mapU, IsSystem, E

(* The free edges join matched edges: the matching covers every vertex. *)
LEMMA DetectionGraph ==
  ASSUME IsSystem(bsbg), M \in FullMatchings
  PROVE  /\ M \subseteq Nat \ {0} /\ IsFiniteSet(M)
         /\ buildLoopDetectionSBG.V = M
         /\ WellFormed(buildLoopDetectionSBG)
         /\ buildLoopDetectionSBG.mapB \in [EdgesOf(buildLoopDetectionSBG) -> M]
         /\ buildLoopDetectionSBG.mapD \in [EdgesOf(buildLoopDetectionSBG) -> M]
<1> DEFINE f == mapF
           u == mapU
           free == E \ M
<1>1. M \subseteq E /\ Image(u, M) = bsbg.Y /\ Image(f, M) = bsbg.X
  BY DEF FullMatchings
<1>2. /\ E \subseteq Nat \ {0} /\ IsFiniteSet(E)
      /\ f \in [E -> bsbg.X] /\ u \in [E -> bsbg.Y]
  BY SideFacts
<1>3. ASSUME NEW g, NEW S, g \in [E -> S], Image(g, M) = S
      PROVE  After(AntiFunction(Only(g, M)), Only(g, free)) \in [free -> M]
  <2>1. DOMAIN Only(g, M) = M /\ DOMAIN Only(g, free) = free
    <3>1. DOMAIN g = E /\ M \cap E = M /\ free \cap E = free
      BY <1>1, <1>3
    <3> QED
      BY <3>1, OnlyFacts
  <2>2. Range(Only(g, M)) = S
    <3>1. Image(g, M) = {g[x] : x \in M}
      BY <1>1, <1>3 DEF Image
    <3>2. \A x \in M : Only(g, M)[x] = g[x]
      BY <2>1, OnlyAt
    <3>3. Range(Only(g, M)) = {Only(g, M)[x] : x \in M}
      BY <2>1 DEF Range
    <3> QED
      BY <1>3, <3>1, <3>2, <3>3
  <2>3. \A x \in free : Only(g, free)[x] \in S
    <3>1. free \subseteq E /\ \A x \in free : Only(g, free)[x] = g[x]
      BY <2>1, OnlyAt
    <3> QED
      BY <1>3, <3>1
  <2>4. AntiFunction(Only(g, M)) \in [S -> M]
    <3>1. AntiFunction(Only(g, M)) = [y \in S |-> AntiFunction(Only(g, M))[y]]
      BY <2>2 DEF AntiFunction, Inverse
    <3> QED
      BY <3>1, <2>1, <2>2, InverseFacts
  <2> HIDE DEF free
  <2> QED
    BY <2>1, <2>3, <2>4 DEF After
<1> HIDE DEF f, u
<1>4. /\ buildSCCEdges.mapB \in [free -> M]
      /\ buildSCCEdges.mapD \in [free -> M]
  BY <1>1, <1>2, <1>3 DEF buildSCCEdges, f, u
<1>5. M \subseteq Nat \ {0} /\ IsFiniteSet(M)
  BY <1>1, <1>2, FS_Subset
<1> QED
  BY <1>4, <1>5 DEF buildLoopDetectionSBG, buildSCCVertices, Graph, EdgesOf, WellFormed

(* The loops of the loop detection graph. *)
LEMMA LoopsStep == IInv /\ AlgebraicLoopsDetector => IInv'
<1> SUFFICES ASSUME IInv, AlgebraicLoopsDetector PROVE IInv'
  OBVIOUS
<1>1. /\ IsSystem(bsbg) /\ M \in FullMatchings
      /\ bsbg' = bsbg /\ M' = M /\ stage' = "TearingDetector"
      /\ dsbg' = buildLoopDetectionSBG
  BY DEF IInv, StageOK, AlgebraicLoopsDetector
<1>2. GraphOK'
  BY <1>1, DetectionGraph DEF GraphOK
<1>3. LoopsOK'
  BY <1>1 DEF AlgebraicLoopsDetector, LoopsOK, IsSCC
<1>4. StageOK'
  BY <1>1 DEF StageOK, Stages, Untorn, IsSystem
<1> QED
  BY <1>1, <1>2, <1>3, <1>4 DEF IInv, EdgesOK, Untorn, Built

(***************************************************************************)
(* A feedback vertex set of the graph that is left to the tearing: the     *)
(* vertices of a loop are in it, with the edges between them, unless the   *)
(* loop is a single vertex.                                                *)
(***************************************************************************)
LEMMA TearingCuts ==
  ASSUME GraphOK, LoopsOK, NEW R, R \in FeedbackVertexSets(buildTearingSBG)
  PROVE  Cuts(dsbg, rmap, R)
<1> DEFINE alone == {v \in dsbg.V : preImage(rmap, {rmap[v]}) = {v}}
           g == buildTearingSBG
           h == EraseEdges(dsbg, Ediff)
<1>1. /\ WellFormed(h) /\ h.V = M /\ EdgesOf(h) = EdgesOf(dsbg) \ Ediff
      /\ \A e \in EdgesOf(h) : h.mapB[e] = dsbg.mapB[e] /\ h.mapD[e] = dsbg.mapD[e]
  BY EraseEdgesFacts DEF GraphOK
<1>2. g = EraseVertices(h, alone)
  BY DEF buildTearingSBG
<1> HIDE DEF h, g, alone
<1>3. /\ g.V = M \ alone
      /\ EdgesOf(g) = {e \in EdgesOf(h) : h.mapB[e] \notin alone /\ h.mapD[e] \notin alone}
      /\ \A e \in EdgesOf(g) : g.mapB[e] = h.mapB[e] /\ g.mapD[e] = h.mapD[e]
  BY <1>1, <1>2, EraseVerticesFacts
<1>4. R \subseteq g.V /\ AcyclicOn(g, g.V \ R)
  BY DEF FeedbackVertexSets, g
<1>5. ASSUME NEW T \in Parts(M \ R), \A u, v \in T : rmap[u] = rmap[v]
      PROVE  \E v \in T : \A e \in EdgesOf(dsbg) :
                dsbg.mapB[e] \in T \ {v} => dsbg.mapD[e] # v
  <2>1. T \subseteq M \ R /\ T # {}
    BY DEF Parts
  <2>2. CASE \E v \in T : T = {v}
    BY <2>2
  <2>3. CASE \A v \in T : T # {v}
    <3>1. ASSUME NEW v \in T PROVE v \notin alone
      <4>1. PICK w \in T : w # v
        BY <2>3
      <4>2. w \in preImage(rmap, {rmap[v]})
        BY <2>1, <1>5 DEF preImage, LoopsOK
      <4> QED
        BY <4>1, <4>2 DEF alone
    <3>2. T \in Parts(g.V \ R)
      BY <3>1, <2>1, <1>3 DEF Parts
    <3>3. PICK v \in T : Precedes(g, T, v) = {}
      BY <3>2, <1>4 DEF AcyclicOn
    <3>4. ASSUME NEW e \in EdgesOf(dsbg), dsbg.mapB[e] \in T, dsbg.mapD[e] = v
          PROVE  FALSE
      <4>1. e \notin Ediff
        BY <3>4, <1>5 DEF LoopsOK
      <4>2. e \in EdgesOf(g) /\ g.mapB[e] = dsbg.mapB[e] /\ g.mapD[e] = v
        BY <4>1, <3>1, <3>4, <1>1, <1>3
      <4> QED
        BY <4>2, <3>3, <3>4 DEF Precedes
    <3> QED
      BY <3>4
  <2> QED
    BY <2>2, <2>3
<1> QED
  BY <1>3, <1>4, <1>5 DEF Cuts, GraphOK

(* The tearing variables are a feedback vertex set. *)
LEMMA TearingStep == IInv /\ TearingDetector => IInv'
<1> SUFFICES ASSUME IInv, TearingDetector PROVE IInv'
  OBVIOUS
<1>1. /\ stage' \in {"out of bound", "addGuessVertices"}
      /\ stage' = "addGuessVertices" =>
           residual' \in FeedbackVertexSets(buildTearingSBG) /\ out' = dsbg
      /\ UNCHANGED <<bsbg, M, dsbg, rmap, Ediff>>
  BY DEF TearingDetector
<1>2. GraphOK /\ LoopsOK /\ IsSystem(bsbg)
  BY DEF IInv, StageOK, TearingDetector, Early
<1>3. GraphOK' /\ LoopsOK'
  BY <1>1, <1>2 DEF GraphOK, LoopsOK
<1>4. stage' = "addGuessVertices" => TornOK'
  BY <1>1, <1>2, TearingCuts DEF TornOK
<1>5. StageOK'
  BY <1>1, <1>2 DEF StageOK, Stages, Untorn, Early, GraphOK, IsSystem
<1> QED
  BY <1>1, <1>3, <1>4, <1>5 DEF IInv, EdgesOK, Untorn, Early, Built

(***************************************************************************)
(* What addGuessVertices leaves: the guess of a residual vertex x is the   *)
(* new vertex x + maxv, in the loop of x, and the edges that start in x    *)
(* and stay in the loop start in its guess.                                *)
(***************************************************************************)
MovedToGuess == {e \in EdgesOf(dsbg) \ Ediff : dsbg.mapB[e] \in residual}

LEMMA GuessGraph ==
  ASSUME IInv, addGuessVertices
  PROVE  /\ residual \subseteq M /\ M \subseteq Nat
         /\ GuessVertices = {x + maxv : x \in residual}
         /\ GuessVertices \cap M = {}
         /\ guess_offset' = [v \in M \cup GuessVertices |->
                               IF v \in residual THEN v + maxv ELSE v]
         /\ out_rmap' = [v \in M \cup GuessVertices |-> out_rmap'[v]]
         /\ \A v \in M : out_rmap'[v] = rmap[v]
         /\ \A x \in residual : out_rmap'[x + maxv] = rmap[x]
         /\ WellFormed(out') /\ out'.V = M \cup GuessVertices
         /\ EdgesOf(out') = EdgesOf(dsbg)
         /\ \A e \in EdgesOf(dsbg) :
              out'.mapB[e] = IF e \in MovedToGuess THEN dsbg.mapB[e] + maxv ELSE dsbg.mapB[e]
         /\ \A e \in EdgesOf(dsbg) : out'.mapD[e] = dsbg.mapD[e]
<1> DEFINE outgoing == preImage(dsbg.mapB, residual) \ Ediff
           wide     == AddVertices(out, GuessVertices)
           grown    == EraseEdges(wide, outgoing)
           offset   == guessOffset(grown.V)
           b        == After(offset, Only(dsbg.mapB, outgoing))
           d        == Only(dsbg.mapD, outgoing)
           back     == AntiFunction(Only(offset, residual))
<1>1. /\ GraphOK /\ LoopsOK /\ TornOK /\ IsSystem(bsbg) /\ out = dsbg
      /\ stage' = "endPoints"
      /\ UNCHANGED <<bsbg, M, dsbg, rmap, Ediff, residual>>
  BY DEF IInv, StageOK, addGuessVertices, Untorn, Early
<1>2. /\ guess_offset' = offset
      /\ out' = AddEdges(grown, b, d)
      /\ out_rmap' = Combine(rmap, After(rmap, back))
  BY DEF addGuessVertices
<1>3. /\ residual \subseteq M /\ M \subseteq Nat
      /\ maxv \in Nat /\ \A x \in M : x =< maxv
  BY <1>1, LargestElement DEF GraphOK, TornOK, Cuts, maxv
<1>4. /\ GuessVertices = {x + maxv : x \in residual}
      /\ GuessVertices \cap M = {}
  <2>1. GuessVertices = {x + maxv : x \in residual}
    BY DEF GuessVertices, Translate, Range
  <2>2. ASSUME NEW x \in residual PROVE x + maxv > maxv
    <3>1. x \in Nat /\ x # 0 /\ maxv \in Nat
      BY <1>1, <1>3 DEF GraphOK
    <3> HIDE DEF outgoing, wide, grown, offset, b, d, back
    <3> QED
      BY <3>1
  <2>3. \A x \in residual : x + maxv \notin M
    BY <1>3, <2>2
  <2> QED
    BY <2>1, <2>3
<1>5. wide.V = M \cup GuessVertices /\ WellFormed(wide) /\ EdgesOf(wide) = EdgesOf(dsbg)
      /\ wide.mapB = dsbg.mapB /\ wide.mapD = dsbg.mapD
  BY <1>1 DEF AddVertices, Graph, WellFormed, EdgesOf, GraphOK
<1> HIDE DEF wide
<1>6. /\ WellFormed(grown) /\ grown.V = M \cup GuessVertices
      /\ EdgesOf(grown) = EdgesOf(dsbg) \ outgoing
      /\ \A e \in EdgesOf(grown) : grown.mapB[e] = dsbg.mapB[e] /\ grown.mapD[e] = dsbg.mapD[e]
  BY <1>5, EraseEdgesFacts
<1>7. /\ DOMAIN offset = grown.V
      /\ \A x \in residual : offset[x] = x + maxv
      /\ \A x \in grown.V \ residual : offset[x] = x
  BY <1>3, <1>6 DEF guessOffset, Combine, Translate, Id
<1> HIDE DEF grown, offset
<1>8. outgoing = {e \in EdgesOf(dsbg) \ Ediff : dsbg.mapB[e] \in residual}
  BY DEF preImage, EdgesOf
<1> HIDE DEF outgoing
<1>9. /\ DOMAIN b = outgoing /\ DOMAIN d = outgoing
      /\ \A e \in outgoing : b[e] = dsbg.mapB[e] + maxv /\ d[e] = dsbg.mapD[e]
  <2>1. DOMAIN Only(dsbg.mapB, outgoing) = outgoing /\ DOMAIN d = outgoing
    BY <1>1, <1>8, OnlyWithin DEF d, GraphOK, WellFormed, EdgesOf
  <2>2. \A e \in outgoing : /\ Only(dsbg.mapB, outgoing)[e] = dsbg.mapB[e]
                            /\ d[e] = dsbg.mapD[e] /\ dsbg.mapB[e] \in residual
    BY <1>1, <1>8, OnlyWithin DEF d, GraphOK, WellFormed, EdgesOf
  <2>3. residual \subseteq DOMAIN offset
    BY <1>3, <1>6, <1>7
  <2> QED
    <3>1. \A e \in outgoing : Only(dsbg.mapB, outgoing)[e] \in DOMAIN offset
      BY <2>2, <2>3
    <3>2. DOMAIN b = outgoing
      BY <2>1, <3>1, AfterWithin DEF b
    <3>3. \A e \in outgoing : b[e] = offset[dsbg.mapB[e]]
      BY <2>1, <2>2, <3>1, AfterWithin DEF b
    <3> QED
      BY <2>1, <2>2, <3>2, <3>3, <1>7
<1> HIDE DEF b, d
<1>10. /\ WellFormed(out') /\ out'.V = M \cup GuessVertices
       /\ EdgesOf(out') = EdgesOf(dsbg)
       /\ \A e \in EdgesOf(dsbg) \ outgoing :
             out'.mapB[e] = dsbg.mapB[e] /\ out'.mapD[e] = dsbg.mapD[e]
       /\ \A e \in outgoing : out'.mapB[e] = dsbg.mapB[e] + maxv /\ out'.mapD[e] = dsbg.mapD[e]
  <2>1. outgoing \subseteq EdgesOf(dsbg)
    BY <1>8
  <2>2. /\ WellFormed(out') /\ out'.V = grown.V
        /\ EdgesOf(out') = EdgesOf(grown) \cup outgoing
        /\ \A e \in EdgesOf(grown) :
             out'.mapB[e] = grown.mapB[e] /\ out'.mapD[e] = grown.mapD[e]
        /\ \A e \in EdgesOf(out') \ EdgesOf(grown) : out'.mapB[e] = b[e] /\ out'.mapD[e] = d[e]
    BY <1>2, <1>6, <1>9, AddEdgesFacts
  <2> QED
    BY <2>1, <2>2, <1>6, <1>9
<1>11. /\ DOMAIN back = GuessVertices
       /\ \A x \in residual : back[x + maxv] = x
  <2>1. DOMAIN Only(offset, residual) = residual
        /\ \A x \in residual : Only(offset, residual)[x] = x + maxv
    <3>1. residual \subseteq DOMAIN offset
      BY <1>3, <1>6, <1>7
    <3> QED
      BY <3>1, <1>7, OnlyWithin
  <2>2. Range(Only(offset, residual)) = GuessVertices
    BY <2>1, <1>4 DEF Range
  <2>3. \A y \in GuessVertices : back[y] \in residual /\ back[y] + maxv = y
    BY <2>1, <2>2, InverseFacts
  <2>4. \A x, y \in residual : x + maxv = y + maxv => x = y
    BY <1>3
  <2> QED
    BY <2>2, <2>3, <2>4, <1>4, InverseFacts
<1> HIDE DEF back
<1>12. /\ DOMAIN out_rmap' = M \cup GuessVertices
       /\ \A v \in M : out_rmap'[v] = rmap[v]
       /\ \A x \in residual : out_rmap'[x + maxv] = rmap[x]
  <2>1. \A y \in GuessVertices : back[y] \in residual
    BY <1>4, <1>11
  <2>2. DOMAIN After(rmap, back) = GuessVertices
        /\ \A x \in residual : After(rmap, back)[x + maxv] = rmap[x]
    <3>1. DOMAIN rmap = M /\ \A y \in GuessVertices : back[y] \in DOMAIN rmap
      BY <2>1, <1>1, <1>3 DEF LoopsOK
    <3>2. /\ DOMAIN After(rmap, back) = GuessVertices
          /\ \A y \in GuessVertices : After(rmap, back)[y] = rmap[back[y]]
      BY <3>1, <1>11, AfterWithin
    <3>3. \A x \in residual : x + maxv \in GuessVertices
      BY <1>4
    <3> QED
      BY <3>2, <3>3, <1>11
  <2> QED
    <3>1. DOMAIN rmap = M /\ \A x \in residual : x + maxv \in GuessVertices \ M
      BY <1>1, <1>4 DEF LoopsOK
    <3>2. /\ DOMAIN out_rmap' = M \cup GuessVertices
          /\ \A v \in M : out_rmap'[v] = rmap[v]
          /\ \A y \in GuessVertices \ M : out_rmap'[y] = After(rmap, back)[y]
      BY <2>2, <3>1, <1>2 DEF Combine
    <3> QED
      BY <2>2, <3>1, <3>2
<1>13. offset = [v \in M \cup GuessVertices |-> IF v \in residual THEN v + maxv ELSE v]
  <2>1. offset = [v \in DOMAIN offset |-> offset[v]]
    BY DEF offset, guessOffset, Combine
  <2>2. \A v \in M \cup GuessVertices :
           offset[v] = IF v \in residual THEN v + maxv ELSE v
    BY <1>6, <1>7
  <2> QED
    BY <2>1, <2>2, <1>6, <1>7
<1>14. out_rmap' = [v \in M \cup GuessVertices |-> out_rmap'[v]]
  BY <1>2, <1>12 DEF Combine
<1> QED
  BY <1>2, <1>3, <1>4, <1>8, <1>10, <1>12, <1>13, <1>14 DEF MovedToGuess

(* The guesses are new vertices, and what moved to them is within the loop. *)
LEMMA GuessStep == IInv /\ addGuessVertices => IInv'
<1> SUFFICES ASSUME IInv, addGuessVertices PROVE IInv'
  OBVIOUS
<1>1. /\ GraphOK /\ LoopsOK /\ TornOK /\ IsSystem(bsbg) /\ out = dsbg
      /\ stage' = "endPoints"
      /\ UNCHANGED <<bsbg, M, dsbg, rmap, Ediff, residual>>
  BY DEF IInv, StageOK, addGuessVertices, Untorn, Early
<1>2. /\ residual \subseteq M /\ M \subseteq Nat
      /\ GuessVertices = {x + maxv : x \in residual}
      /\ GuessVertices \cap M = {}
  BY GuessGraph
<1>3. guess_offset' = [v \in M \cup GuessVertices |-> IF v \in residual THEN v + maxv ELSE v]
  BY GuessGraph
<1>4. /\ out_rmap' = [v \in M \cup GuessVertices |-> out_rmap'[v]]
      /\ \A v \in M : out_rmap'[v] = rmap[v]
      /\ \A x \in residual : out_rmap'[x + maxv] = rmap[x]
  BY GuessGraph
<1>5. /\ WellFormed(out') /\ out'.V = M \cup GuessVertices
      /\ EdgesOf(out') = EdgesOf(dsbg)
      /\ \A e \in EdgesOf(dsbg) :
           out'.mapB[e] = IF e \in MovedToGuess THEN dsbg.mapB[e] + maxv ELSE dsbg.mapB[e]
      /\ \A e \in EdgesOf(dsbg) : out'.mapD[e] = dsbg.mapD[e]
  BY GuessGraph
<1>6. GraphOK' /\ LoopsOK' /\ TornOK'
  <2>1. GraphOK'
    BY <1>1 DEF GraphOK
  <2>2. LoopsOK'
    BY <1>1 DEF LoopsOK
  <2>3. TornOK'
    BY <1>1 DEF TornOK
  <2> QED
    BY <2>1, <2>2, <2>3
<1>7. GuessOK'
  <2>1. \A v \in M \cup GuessVertices : out_rmap'[v] \in FixedPoints(rmap)
    <3>1. \A v \in M : rmap[v] \in FixedPoints(rmap)
      BY <1>1 DEF LoopsOK, IsSCC, GraphOK, FixedPoints
    <3> QED
      BY <3>1, <1>2, <1>4
  <2>2. \A v \in M \cup GuessVertices : /\ guess_offset'[v] \in M \cup GuessVertices
                                       /\ out_rmap'[guess_offset'[v]] = out_rmap'[v]
    BY <1>2, <1>3, <1>4
  <2>3. FixedPoints(rmap) \subseteq M
    BY <1>1 DEF FixedPoints, LoopsOK
  <2>4. /\ out_rmap' \in [M \cup GuessVertices -> M]
        /\ guess_offset' \in [M \cup GuessVertices -> M \cup GuessVertices]
    BY <1>3, <1>4, <2>1, <2>2, <2>3
  <2> QED
    BY <2>1, <2>2, <2>4, <1>1, <1>4, <1>5 DEF GuessOK
<1>8. ASSUME NEW e \in EdgesOf(dsbg) PROVE (WithinOf(e) \/ Kept(e))'
  <2>0. dsbg.mapB[e] \in M /\ dsbg.mapD[e] \in M
    BY <1>1 DEF GraphOK
  <2>1. CASE e \in Ediff
    BY <2>1, <1>1, <1>5 DEF Kept, MovedToGuess
  <2>2. CASE e \in MovedToGuess
    <3>1. /\ dsbg.mapB[e] \in residual /\ dsbg.mapB[e] + maxv \in GuessVertices
          /\ rmap[dsbg.mapB[e]] = rmap[dsbg.mapD[e]]
      BY <2>2, <1>1, <1>2 DEF LoopsOK, MovedToGuess
    <3>2. /\ out'.mapB[e] = dsbg.mapB[e] + maxv /\ out'.mapD[e] = dsbg.mapD[e]
          /\ out_rmap'[dsbg.mapB[e] + maxv] = rmap[dsbg.mapD[e]]
          /\ rmap' = rmap /\ M' = M /\ residual' = residual
      BY <3>1, <2>2, <1>1, <1>4, <1>5
    <3>3. dsbg.mapB[e] + maxv \in out'.V \ residual /\ dsbg.mapB[e] + maxv \notin M
      BY <3>1, <1>2, <1>5
    <3> QED
      BY <3>2, <3>3, <2>0 DEF WithinOf, Within
  <2>3. CASE e \notin MovedToGuess /\ e \notin Ediff
    <3>1. dsbg.mapB[e] \notin residual /\ rmap[dsbg.mapB[e]] = rmap[dsbg.mapD[e]]
      BY <2>3, <1>1 DEF LoopsOK, MovedToGuess
    <3> QED
      BY <3>1, <2>0, <2>3, <1>1, <1>4, <1>5 DEF WithinOf, Within
  <2> QED
    BY <2>1, <2>2, <2>3
<1>9. StageOK'
  BY <1>1, <1>5 DEF StageOK, Stages, IsSystem
<1> QED
  BY <1>1, <1>5, <1>6, <1>7, <1>8, <1>9 DEF IInv, EdgesOK, Untorn, Early, Built

(* What the loops and the graph of the guesses look like stays as it is. *)
graph == <<bsbg, M, dsbg, rmap, Ediff, residual, guess_offset, out_rmap>>

LEMMA GraphKept ==
  ASSUME GraphOK, LoopsOK, TornOK, GuessOK, UNCHANGED graph, out'.V = out.V
  PROVE  GraphOK' /\ LoopsOK' /\ TornOK' /\ GuessOK'
<1>1. GraphOK'
  BY DEF graph, GraphOK
<1>2. LoopsOK'
  BY DEF graph, LoopsOK
<1>3. TornOK'
  BY DEF graph, TornOK
<1>4. GuessOK'
  BY DEF graph, GuessOK
<1> QED
  BY <1>1, <1>2, <1>3, <1>4

(***************************************************************************)
(* What endPoints computes: the last vertex of a torn loop is one of its   *)
(* tearing variables, that of another loop is its representative.          *)
(***************************************************************************)
LEMMA LastOfLoop ==
  ASSUME IInv, endPoints
  PROVE  LET torn == {rmap[x] : x \in residual}
         IN  /\ DOMAIN toEndpoint = torn
             /\ \A y \in torn : toEndpoint[y] \in residual /\ rmap[toEndpoint[y]] = y
             /\ reps_to_endpoints' = [y \in M |-> IF y \in torn THEN toEndpoint[y] ELSE y]
<1>1. /\ GraphOK /\ LoopsOK /\ TornOK /\ GuessOK /\ StageOK
      /\ reps_to_endpoints' = Combine(toEndpoint, Id(dsbg.V))
  BY DEF IInv, endPoints, Untorn, Early
<1>2. /\ residual \subseteq M /\ M \subseteq Nat /\ dsbg.V = M
      /\ DOMAIN rmap = M /\ \A v \in M : rmap[v] \in M /\ rmap[rmap[v]] = rmap[v]
  BY <1>1 DEF GraphOK, LoopsOK, TornOK, Cuts, IsSCC
<1> DEFINE r == Only(rmap, residual)
           torn == {rmap[x] : x \in residual}
           In(y) == {x \in residual : rmap[x] = y}
<1>3. /\ DOMAIN r = residual /\ Range(r) = torn
      /\ \A y : preImage(r, {y}) = In(y)
  <2>1. DOMAIN r = residual /\ \A x \in residual : r[x] = rmap[x]
    BY <1>2, OnlyWithin
  <2> HIDE DEF r
  <2> QED
    BY <2>1 DEF Range, preImage
<1> HIDE DEF r
<1>4. /\ DOMAIN toEndpoint = torn
      /\ \A y \in torn : toEndpoint[y] \in residual /\ rmap[toEndpoint[y]] = y
  <2>1. toEndpoint = [y \in torn |-> Min({Id(residual)[x] : x \in preImage(r, {y})})]
    BY <1>3 DEF toEndpoint, MinAdj, r
  <2>2. ASSUME NEW y \in torn PROVE toEndpoint[y] \in In(y)
    <3>1. {Id(residual)[x] : x \in preImage(r, {y})} = In(y)
      <4>1. preImage(r, {y}) = In(y) /\ In(y) \subseteq residual
        BY <1>3
      <4>2. \A x \in In(y) : Id(residual)[x] = x
        BY <4>1 DEF Id
      <4> HIDE DEF In
      <4> QED
        BY <4>1, <4>2
    <3>2. In(y) \in SUBSET Nat /\ In(y) # {}
      BY <1>2
    <3> QED
      BY <2>1, <3>1, <3>2, LeastElement
  <2> QED
    BY <2>1, <2>2
<1>5. /\ DOMAIN reps_to_endpoints' = M
      /\ \A y \in torn : reps_to_endpoints'[y] = toEndpoint[y]
      /\ \A y \in M \ torn : reps_to_endpoints'[y] = y
  <2>1. torn \subseteq M
    BY <1>2
  <2>2. DOMAIN Id(dsbg.V) = M /\ \A y \in M : Id(dsbg.V)[y] = y
    BY <1>2 DEF Id
  <2> HIDE DEF torn
  <2> QED
    <3>1. DOMAIN reps_to_endpoints' = DOMAIN toEndpoint \cup DOMAIN Id(dsbg.V)
      BY <1>1, CombineFacts
    <3>2. DOMAIN reps_to_endpoints' = M
      BY <3>1, <1>4, <2>1, <2>2
    <3>3. /\ \A y \in torn : reps_to_endpoints'[y] = toEndpoint[y]
          /\ \A y \in M \ torn : reps_to_endpoints'[y] = Id(dsbg.V)[y]
      <4>1. /\ \A y \in DOMAIN toEndpoint : reps_to_endpoints'[y] = toEndpoint[y]
            /\ \A y \in DOMAIN Id(dsbg.V) \ DOMAIN toEndpoint :
                  reps_to_endpoints'[y] = Id(dsbg.V)[y]
        <5> DEFINE both == Combine(toEndpoint, Id(dsbg.V))
        <5>1. /\ \A y \in DOMAIN toEndpoint : both[y] = toEndpoint[y]
              /\ \A y \in DOMAIN Id(dsbg.V) \ DOMAIN toEndpoint : both[y] = Id(dsbg.V)[y]
          BY CombineFacts
        <5>2. reps_to_endpoints' = both
          BY <1>1
        <5> HIDE DEF both
        <5> QED
          BY <5>1, <5>2
      <4> QED
        BY <4>1, <1>4, <2>2
    <3> QED
      BY <3>2, <3>3, <2>2
<1>6. reps_to_endpoints' = [y \in M |-> IF y \in torn THEN toEndpoint[y] ELSE y]
  <2>1. reps_to_endpoints' = [y \in DOMAIN reps_to_endpoints' |-> reps_to_endpoints'[y]]
    BY <1>1 DEF Combine
  <2>2. \A y \in M : reps_to_endpoints'[y] = IF y \in torn THEN toEndpoint[y] ELSE y
    BY <1>5
  <2> HIDE DEF torn
  <2> QED
    BY <2>1, <2>2, <1>5
<1> QED
  BY <1>4, <1>6

(* The last vertex of a torn loop is a tearing variable of that loop. *)
LEMMA EndPointsStep == IInv /\ endPoints => IInv'
<1> SUFFICES ASSUME IInv, endPoints PROVE IInv'
  OBVIOUS
<1>1. /\ GraphOK /\ LoopsOK /\ TornOK /\ GuessOK /\ StageOK
      /\ stage' = "addDependencies" /\ UNCHANGED graph /\ out' = out
      /\ \A e \in EdgesOf(out) : WithinOf(e) \/ Kept(e)
  BY DEF IInv, EdgesOK, endPoints, Untorn, Early, graph
<1>2. /\ residual \subseteq M
      /\ \A v \in M : rmap[v] \in M /\ rmap[rmap[v]] = rmap[v]
  BY <1>1 DEF GraphOK, LoopsOK, TornOK, Cuts, IsSCC
<1> DEFINE torn == {rmap[x] : x \in residual}
<1>3. /\ \A y \in torn : toEndpoint[y] \in residual /\ rmap[toEndpoint[y]] = y
      /\ reps_to_endpoints' = [y \in M |-> IF y \in torn THEN toEndpoint[y] ELSE y]
  BY LastOfLoop
<1>4. EndpointsOK'
  <2>1. /\ \A y \in torn : y \in M /\ reps_to_endpoints'[y] = toEndpoint[y]
        /\ \A y \in M \ torn : reps_to_endpoints'[y] = y
    BY <1>2, <1>3
  <2>2. reps_to_endpoints' \in [M -> M]
    BY <1>2, <1>3
  <2>3. \A v \in M : rmap[reps_to_endpoints'[rmap[v]]] = rmap[v]
    BY <1>2, <1>3, <2>1
  <2>4. \A v \in residual : reps_to_endpoints'[rmap[v]] \in residual
    BY <1>2, <1>3, <2>1
  <2> QED
    BY <1>1, <2>2, <2>3, <2>4 DEF EndpointsOK, graph
<1>5. \A e \in EdgesOf(out') : (WithinOf(e) \/ Kept(e))'
  BY <1>1 DEF WithinOf, Within, Kept, graph
<1>6. StageOK'
  BY <1>1 DEF StageOK, Stages, Untorn, Early, IsSystem, graph, endPoints
<1> QED
  BY <1>1, <1>4, <1>5, <1>6, GraphKept DEF IInv, EdgesOK, Untorn, Early, Built

(* The edges that addDependencies gets to add end in the last vertex of the loop. *)
LEMMA DependenciesStep == IInv /\ addDependencies => IInv'
<1> SUFFICES ASSUME IInv, addDependencies PROVE IInv'
  OBVIOUS
<1> DEFINE maxe == MaxElem(EdgesOf(dsbg))
           to_endpoint == After(reps_to_endpoints, Only(rmap, residual))
           offset == Translate(residual, maxe)
           e2r == AntiFunction(offset)
           e2e == After(to_endpoint, e2r)
           not_loops == DOMAIN offset \ EqualImage(e2r, e2e)
           both == DOMAIN e2r \cap not_loops \cap DOMAIN guess_offset
           e2g == [e \in both |-> e2r[e] + guess_offset[e]]
           mid == AddEdges(out, Only(e2r, not_loops), Only(e2e, not_loops))
<1>1. /\ GraphOK /\ LoopsOK /\ TornOK /\ GuessOK /\ EndpointsOK /\ StageOK
      /\ WellFormed(out)
      /\ stage' = "redirectEdiff" /\ UNCHANGED graph
      /\ reps_to_endpoints' = reps_to_endpoints
      /\ \A e \in EdgesOf(out) : WithinOf(e) \/ Kept(e)
  BY DEF IInv, EdgesOK, StageOK, addDependencies, Untorn, Early, graph
<1>2. out' = AddEdges(mid, Only(Empty, not_loops), e2g)
  BY DEF addDependencies
<1>3. ASSUME NEW e \in DOMAIN Only(e2r, not_loops) \cap DOMAIN Only(e2e, not_loops)
      PROVE  Dependency(Only(e2r, not_loops)[e], Only(e2e, not_loops)[e])
  <2>1. /\ e \in DOMAIN e2r /\ e \in DOMAIN e2e /\ e \in not_loops
        /\ Only(e2r, not_loops)[e] = e2r[e] /\ Only(e2e, not_loops)[e] = e2e[e]
    <3>1. e \in DOMAIN Only(e2r, not_loops) /\ e \in DOMAIN Only(e2e, not_loops)
      BY <1>3
    <3> HIDE DEF e2r, e2e, not_loops
    <3> QED
      BY <3>1, OnlyAt
  <2>2. e2r[e] \in residual
    <3>1. DOMAIN offset = residual
      BY DEF Translate
    <3> HIDE DEF offset
    <3> QED
      BY <2>1, <3>1, InverseFacts
  <2>3. e2e[e] = to_endpoint[e2r[e]] /\ e2r[e] \in DOMAIN to_endpoint
    BY <2>1, AfterAt
  <2>4. to_endpoint[e2r[e]] = reps_to_endpoints[rmap[e2r[e]]]
    BY <2>3, AfterAt, OnlyAt
  <2>5. e2r[e] # e2e[e]
    BY <2>1 DEF EqualImage
  <2> QED
    BY <2>1, <2>2, <2>3, <2>4, <2>5 DEF Dependency
<1> HIDE DEF e2r, e2e, not_loops, e2g
<1>4. /\ WellFormed(mid) /\ mid.V = out.V
      /\ \A e \in EdgesOf(out) : e \in EdgesOf(mid) /\ mid.mapB[e] = out.mapB[e] /\ mid.mapD[e] = out.mapD[e]
      /\ \A e \in EdgesOf(mid) \ EdgesOf(out) : Dependency(mid.mapB[e], mid.mapD[e])
  BY <1>1, <1>3, AddEdgesFacts
<1> HIDE DEF mid
<1>5. DOMAIN Only(Empty, not_loops) = {}
  BY DEF Only, Restrict, Empty, Id
<1>6. /\ WellFormed(out') /\ out'.V = out.V /\ EdgesOf(out') = EdgesOf(mid)
      /\ \A e \in EdgesOf(mid) : out'.mapB[e] = mid.mapB[e] /\ out'.mapD[e] = mid.mapD[e]
  <2>1. DOMAIN Only(Empty, not_loops) \cap DOMAIN e2g = {}
    BY <1>5
  <2>2. /\ WellFormed(out') /\ out'.V = mid.V
        /\ EdgesOf(out') = EdgesOf(mid) \cup (DOMAIN Only(Empty, not_loops) \cap DOMAIN e2g)
        /\ \A e \in EdgesOf(mid) : out'.mapB[e] = mid.mapB[e] /\ out'.mapD[e] = mid.mapD[e]
    BY <1>2, <1>4, AddEdgesFacts
  <2> QED
    BY <2>1, <2>2, <1>4
<1>7. ASSUME NEW e \in EdgesOf(out') PROVE (WithinOf(e) \/ DependencyOf(e) \/ Kept(e))'
  <2>1. CASE e \in EdgesOf(out)
    <3>1. out'.mapB[e] = out.mapB[e] /\ out'.mapD[e] = out.mapD[e]
      BY <1>4, <1>6, <2>1
    <3> QED
      BY <1>1, <1>6, <2>1, <3>1 DEF WithinOf, Within, Kept, graph
  <2>2. CASE e \notin EdgesOf(out)
    <3>1. Dependency(out'.mapB[e], out'.mapD[e])
      BY <1>4, <1>6, <2>2
    <3> QED
      BY <1>1, <3>1 DEF DependencyOf, Dependency, graph
  <2> QED
    BY <2>1, <2>2
<1>8. StageOK'
  BY <1>1, <1>6 DEF StageOK, Stages, IsSystem, graph
<1>9. EndpointsOK'
  BY <1>1 DEF EndpointsOK, graph
<1> QED
  BY <1>1, <1>6, <1>7, <1>8, <1>9, GraphKept DEF IInv, EdgesOK, Untorn, Early, Built

(* The edges between loops are redirected from a last vertex to a first one. *)
LEMMA RedirectStep == IInv /\ redirectEdiff => IInv'
<1> SUFFICES ASSUME IInv, redirectEdiff PROVE IInv'
  OBVIOUS
<1> DEFINE b == endpointOf(dsbg.mapB)
           d == After(guess_offset, endpointOf(dsbg.mapD))
           rest == EraseEdges(out, Ediff)
<1>1. /\ GraphOK /\ LoopsOK /\ TornOK /\ GuessOK /\ EndpointsOK /\ StageOK
      /\ WellFormed(out)
      /\ stage' = "TopologicalSorting" /\ UNCHANGED graph
      /\ reps_to_endpoints' = reps_to_endpoints
      /\ out' = AddEdges(rest, b, d)
      /\ \A e \in EdgesOf(out) : WithinOf(e) \/ DependencyOf(e) \/ Kept(e)
  BY DEF IInv, EdgesOK, StageOK, redirectEdiff, Untorn, Early, graph
<1>2. ASSUME NEW f \in {dsbg.mapB, dsbg.mapD}, NEW e \in DOMAIN endpointOf(f)
      PROVE  /\ e \in Ediff /\ endpointOf(f)[e] \in M
             /\ rmap[endpointOf(f)[e]] = rmap[f[e]]
  <2>1. /\ e \in DOMAIN After(rmap, Only(f, Ediff))
        /\ endpointOf(f)[e] = reps_to_endpoints[After(rmap, Only(f, Ediff))[e]]
    BY <1>2, AfterAt DEF endpointOf
  <2>2. e \in Ediff /\ e \in DOMAIN f /\ After(rmap, Only(f, Ediff))[e] = rmap[f[e]]
    BY <2>1, AfterAt, OnlyAt
  <2>3. f[e] \in M /\ rmap[f[e]] \in M
    BY <2>2, <1>1 DEF GraphOK, LoopsOK, EdgesOf
  <2> QED
    BY <2>1, <2>2, <2>3, <1>1 DEF EndpointsOK
<1>3. ASSUME NEW e \in DOMAIN b \cap DOMAIN d PROVE Between(b[e], d[e])
  <2>1. e \in DOMAIN endpointOf(dsbg.mapD) /\ d[e] = guess_offset[endpointOf(dsbg.mapD)[e]]
    <3>1. e \in DOMAIN d
      OBVIOUS
    <3> QED
      BY <3>1, AfterAt
  <2>2. /\ e \in Ediff /\ b[e] \in M /\ rmap[b[e]] = rmap[dsbg.mapB[e]]
        /\ endpointOf(dsbg.mapD)[e] \in M
        /\ rmap[endpointOf(dsbg.mapD)[e]] = rmap[dsbg.mapD[e]]
    BY <1>2, <2>1
  <2> HIDE DEF b, d
  <2> QED
    BY <2>1, <2>2, <1>1 DEF Between, GuessOK
<1> HIDE DEF b, d
<1>4. /\ WellFormed(rest) /\ rest.V = out.V
      /\ \A e \in EdgesOf(rest) : /\ e \in EdgesOf(out) \ Ediff
                                  /\ rest.mapB[e] = out.mapB[e] /\ rest.mapD[e] = out.mapD[e]
  BY <1>1, EraseEdgesFacts
<1> HIDE DEF rest
<1>5. /\ WellFormed(out') /\ out'.V = out.V
      /\ \A e \in EdgesOf(rest) : out'.mapB[e] = rest.mapB[e] /\ out'.mapD[e] = rest.mapD[e]
      /\ \A e \in EdgesOf(out') \ EdgesOf(rest) :
           e \in DOMAIN b \cap DOMAIN d /\ out'.mapB[e] = b[e] /\ out'.mapD[e] = d[e]
  BY <1>1, <1>4, AddEdgesFacts
<1>6. ASSUME NEW e \in EdgesOf(out') PROVE (WithinOf(e) \/ DependencyOf(e) \/ BetweenOf(e))'
  <2>1. CASE e \in EdgesOf(rest)
    <3>1. /\ e \in EdgesOf(out) /\ e \notin Ediff
          /\ out'.mapB[e] = out.mapB[e] /\ out'.mapD[e] = out.mapD[e]
      BY <1>4, <1>5, <2>1
    <3>2. WithinOf(e) \/ DependencyOf(e)
      BY <1>1, <3>1 DEF Kept
    <3> QED
      BY <1>1, <1>5, <3>1, <3>2 DEF WithinOf, Within, DependencyOf, Dependency, graph
  <2>2. CASE e \notin EdgesOf(rest)
    <3>1. Between(out'.mapB[e], out'.mapD[e])
      BY <1>3, <1>5, <2>2
    <3> QED
      BY <1>1, <1>5, <3>1 DEF BetweenOf, Between, graph
  <2> QED
    BY <2>1, <2>2
<1>7. StageOK'
  BY <1>1, <1>5 DEF StageOK, Stages, IsSystem, graph
<1>8. EndpointsOK'
  BY <1>1 DEF EndpointsOK, graph
<1> QED
  BY <1>1, <1>5, <1>6, <1>7, <1>8, GraphKept DEF IInv, EdgesOK, Untorn, Early, Built

(* Once built, the graph stays as it is. *)
LEMMA BuiltStep ==
  ASSUME IInv, UNCHANGED <<graph, out, end_points, reps_to_endpoints>>,
         stage' = stage \/ (stage \in Built /\ stage' \in Built)
  PROVE  IInv'
<1>1. StageOK'
  BY DEF IInv, StageOK, Stages, Untorn, Early, Built, IsSystem, graph, FullMatchings,
         mapF, mapU, Side, E
<1>2. stage' \notin Early => GraphOK' /\ LoopsOK'
  <2>1. stage' \notin Early => GraphOK'
    BY DEF IInv, Early, Untorn, Built, GraphOK, graph
  <2>2. stage' \notin Early => LoopsOK'
    BY DEF IInv, Early, Untorn, Built, LoopsOK, graph
  <2> QED
    BY <2>1, <2>2
<1>3. stage' \notin Untorn => TornOK'
  BY DEF IInv, Untorn, Built, TornOK, graph
<1>4. stage' \notin Untorn \cup {"addGuessVertices"} => GuessOK'
  BY DEF IInv, Untorn, Built, GuessOK, graph
<1>5. stage' \notin Untorn \cup {"addGuessVertices", "endPoints"} => EndpointsOK'
  BY DEF IInv, Untorn, Built, EndpointsOK, graph
<1>6. EdgesOK'
  <2>1. ASSUME NEW e PROVE /\ WithinOf(e)' = WithinOf(e) /\ DependencyOf(e)' = DependencyOf(e)
                           /\ BetweenOf(e)' = BetweenOf(e) /\ Kept(e)' = Kept(e)
    BY DEF WithinOf, Within, DependencyOf, Dependency, BetweenOf, Between, Kept, graph
  <2>2. EdgesOf(out') = EdgesOf(out)
    OBVIOUS
  <2> QED
    BY <2>1, <2>2 DEF IInv, EdgesOK, Built, Untorn, Early
<1> QED
  BY <1>1, <1>2, <1>3, <1>4, <1>5, <1>6 DEF IInv

(* Every step keeps the invariant. *)
LEMMA NextIInv == IInv /\ [Next]_vars => IInv'
<1> SUFFICES ASSUME IInv, [Next]_vars PROVE IInv'
  OBVIOUS
<1>1. CASE BuilderNext
  BY <1>1, HorizontalSortingStep, LoopsStep, TearingStep, GuessStep, EndPointsStep,
     DependenciesStep, RedirectStep DEF BuilderNext, build
<1>2. CASE TopologicalSorting
  BY <1>2, BuiltStep DEF TopologicalSorting, graph, Built, Stages, Untorn, Early
<1>3. CASE sortLoops
  BY <1>3, BuiltStep DEF sortLoops, graph, Built, Stages, Untorn, Early
<1>4. CASE sortLoop
  BY <1>4, BuiltStep DEF sortLoop, graph, Built, Stages, Untorn, Early
<1>5. CASE sortVertex
  BY <1>5, BuiltStep DEF sortVertex, graph, Built, Stages, Untorn, Early
<1>6. CASE nextLoop
  BY <1>6, BuiltStep DEF nextLoop, graph, Built, Stages, Untorn, Early
<1>7. CASE Sorted
  BY <1>7, BuiltStep DEF Sorted, graph, Built, Stages, Untorn, Early
<1>8. CASE UNCHANGED vars
  BY <1>8, BuiltStep DEF vars, bvars, graph
<1> QED
  BY <1>1, <1>2, <1>3, <1>4, <1>5, <1>6, <1>7, <1>8 DEF Next, Work

-----------------------------------------------------------------------------
(***************************************************************************)
(* The invariant holds in every state of the causalization, for every set  *)
(* of systems, every bound on the tearing variables, and both kinds of     *)
(* order.                                                                  *)
(***************************************************************************)
THEOREM Invariance == Spec => []IInv
<1>1. SortInit => IInv
  BY InitIInv
<1>2. IInv /\ [Next]_vars => IInv'
  BY NextIInv
<1> QED
  BY <1>1, <1>2, PTL DEF Spec

(***************************************************************************)
(* The graph that VerticalSortingBuilder::build returns can be ordered,    *)
(* whatever matching, components and feedback vertex set the library       *)
(* found: TopologicalSorting always has an order to return.                *)
(***************************************************************************)
THEOREM AlwaysOrderable == Spec => []OutputOrderable
<1>1. IInv => OutputOrderable
  BY IInvOrders
<1> QED
  BY Invariance, <1>1, PTL

-----------------------------------------------------------------------------
(***************************************************************************)
(* What a stage has not computed yet is as Init left it, a matching has    *)
(* edges of the system only, and the loops start in vertices of the graph. *)
(***************************************************************************)
AreMaps(g) ==
  /\ g.mapB = [e \in EdgesOf(g) |-> g.mapB[e]]
  /\ g.mapD = [e \in DOMAIN g.mapD |-> g.mapD[e]]

NotYet ==
  /\ M \subseteq E /\ AreMaps(out)
  /\ stage \in Early => dsbg = NoGraph /\ rmap = Empty /\ Ediff = {}
  /\ stage \in Untorn => residual = {} /\ out = NoGraph
  /\ stage \in Untorn \cup {"addGuessVertices"} => out_rmap = Empty
  /\ stage \in Untorn \cup {"addGuessVertices", "endPoints"} =>
       end_points = {} /\ reps_to_endpoints = Empty
  /\ end_points \subseteq out.V

(* Adding edges gives maps, whatever is added. *)
LEMMA AddEdgesMaps ==
  ASSUME NEW g, NEW b, NEW d
  PROVE  AreMaps(AddEdges(g, b, d))
BY DEF AreMaps, AddEdges, Graph, EdgesOf, Combine

(* The loops start in vertices of the graph that is built. *)
LEMMA StartsInGraph ==
  ASSUME IInv, endPoints
  PROVE  end_points' \subseteq out'.V
<1>1. GuessOK /\ LoopsOK /\ out' = out
  BY DEF IInv, endPoints, Untorn, Early
<1>2. Range(After(guess_offset, toEndpoint)) \subseteq out.V
  BY <1>1 DEF GuessOK, Range, After
<1>3. withoutResidual \subseteq out.V
  BY <1>1 DEF withoutResidual, FixedPoints, LoopsOK, GuessOK
<1> QED
  BY <1>1, <1>2, <1>3 DEF endPoints

(* The later steps of build keep the vertices. *)
LEMMA VerticesKept ==
  ASSUME IInv, addDependencies \/ redirectEdiff
  PROVE  out'.V = out.V /\ AreMaps(out')
<1>1. WellFormed(out)
  BY DEF IInv, StageOK, addDependencies, redirectEdiff, Untorn, Early
<1>2. CASE addDependencies
  <2>1. PICK b1, d1, b2, d2 : out' = AddEdges(AddEdges(out, b1, d1), b2, d2)
    BY <1>2 DEF addDependencies
  <2> QED
    BY <2>1, <1>1, AddEdgesFacts, AddEdgesMaps
<1>3. CASE redirectEdiff
  <2>1. PICK b, d : out' = AddEdges(EraseEdges(out, Ediff), b, d)
    BY <1>3 DEF redirectEdiff
  <2>2. WellFormed(EraseEdges(out, Ediff)) /\ EraseEdges(out, Ediff).V = out.V
    BY <1>1, EraseEdgesFacts
  <2> QED
    BY <2>1, <2>2, AddEdgesFacts, AddEdgesMaps
<1> QED
  BY <1>2, <1>3

(* Every step keeps it. *)
LEMMA NextNotYet == IInv /\ NotYet /\ [Next]_vars => NotYet'
<1> SUFFICES ASSUME IInv, NotYet, [Next]_vars PROVE NotYet'
  OBVIOUS
<1> USE DEF NotYet, Untorn, Early, E
<1>0. out' = out => AreMaps(out')
  OBVIOUS
<1>1. CASE HorizontalSorting
  BY <1>0, <1>1 DEF HorizontalSorting, FullMatchings
<1>2. CASE AlgebraicLoopsDetector
  BY <1>0, <1>2 DEF AlgebraicLoopsDetector
<1>3. CASE TearingDetector
  <2>1. dsbg \in {out', dsbg} => GraphOK
    BY <1>3 DEF IInv, TearingDetector
  <2>2. AreMaps(out')
    BY <1>0, <1>3, <2>1 DEF TearingDetector, AreMaps, GraphOK, WellFormed
  <2> QED
    BY <1>3, <2>2 DEF TearingDetector
<1>4. CASE addGuessVertices
  <2>1. PICK g, b, d : out' = AddEdges(g, b, d)
    BY <1>4 DEF addGuessVertices
  <2>2. AreMaps(out')
    BY <2>1, AddEdgesMaps
  <2> QED
    BY <1>4, <2>2 DEF addGuessVertices
<1>5. CASE endPoints
  BY <1>0, <1>5, StartsInGraph DEF endPoints
<1>6. CASE addDependencies
  BY <1>6, VerticesKept DEF addDependencies
<1>7. CASE redirectEdiff
  BY <1>7, VerticesKept DEF redirectEdiff
<1>8. CASE TopologicalSorting
  BY <1>0, <1>8 DEF TopologicalSorting
<1>9. CASE sortLoops
  BY <1>0, <1>9 DEF sortLoops
<1>10. CASE sortLoop
  BY <1>0, <1>10 DEF sortLoop
<1>11. CASE sortVertex
  BY <1>0, <1>11 DEF sortVertex
<1>12. CASE nextLoop
  BY <1>0, <1>12 DEF nextLoop
<1>13. CASE Sorted
  BY <1>0, <1>13 DEF Sorted
<1>14. CASE UNCHANGED vars
  BY <1>0, <1>14 DEF vars, bvars
<1> QED
  BY <1>1, <1>2, <1>3, <1>4, <1>5, <1>6, <1>7, <1>8, <1>9, <1>10, <1>11, <1>12, <1>13,
     <1>14 DEF Next, Work, BuilderNext, build

(* The ends of the edges of the graph that is built are vertices of it. *)
LEMMA EndsInGraph ==
  ASSUME IInv, stage \notin Untorn, NEW e \in EdgesOf(out)
  PROVE  out.mapB[e] \in out.V /\ out.mapD[e] \in out.V
<1>1. GraphOK /\ LoopsOK /\ residual \subseteq M
  BY DEF IInv, Untorn, TornOK, Cuts, GraphOK
<1>2. CASE stage = "addGuessVertices"
  BY <1>1, <1>2 DEF IInv, StageOK, GraphOK
<1>3. CASE stage # "addGuessVertices"
  <2>1. GuessOK
    BY <1>3 DEF IInv
  <2>2. WithinOf(e) \/ DependencyOf(e) \/ BetweenOf(e) \/ Kept(e)
    BY <1>3 DEF IInv, EdgesOK, StageOK, Built
  <2>3. CASE WithinOf(e)
    BY <2>1, <2>3 DEF WithinOf, Within, GuessOK
  <2>4. CASE DependencyOf(e)
    <3>1. stage # "endPoints" => EndpointsOK
      BY <1>3 DEF IInv
    <3>2. CASE stage = "endPoints"
      <4>1. WithinOf(e) \/ Kept(e)
        BY <3>2 DEF IInv, EdgesOK
      <4> QED
        BY <4>1, <2>1, <1>1 DEF WithinOf, Within, Kept, GuessOK, GraphOK, LoopsOK
    <3>3. CASE stage # "endPoints"
      BY <1>1, <2>1, <2>4, <3>1, <3>3 DEF DependencyOf, Dependency, EndpointsOK, GuessOK, LoopsOK
    <3> QED
      BY <3>2, <3>3
  <2>5. CASE BetweenOf(e)
    BY <2>5 DEF BetweenOf, Between
  <2>6. CASE Kept(e)
    BY <1>1, <2>1, <2>6 DEF Kept, GuessOK, GraphOK, LoopsOK
  <2> QED
    BY <2>2, <2>3, <2>4, <2>5, <2>6
<1> QED
  BY <1>2, <1>3

(* Both graphs have their edges between their vertices. *)
LEMMA GraphsTyped ==
  ASSUME IInv, NotYet, NEW g \in {dsbg, out}
  PROVE  /\ DOMAIN g.mapD = EdgesOf(g)
         /\ g.mapB \in [EdgesOf(g) -> g.V]
         /\ g.mapD \in [EdgesOf(g) -> g.V]
<1>1. CASE g = NoGraph
  BY <1>1 DEF NoGraph, Graph, Empty, Id, EdgesOf
<1>2. CASE g = dsbg /\ g # NoGraph
  BY <1>2 DEF IInv, NotYet, GraphOK, WellFormed
<1>3. CASE g = out /\ g # NoGraph
  <2>1. stage \notin Untorn /\ WellFormed(out)
    BY <1>3 DEF NotYet, IInv, StageOK
  <2>2. \A e \in EdgesOf(out) : out.mapB[e] \in out.V /\ out.mapD[e] \in out.V
    BY <2>1, EndsInGraph
  <2>3. /\ out.mapB \in [EdgesOf(out) -> out.V]
        /\ out.mapD \in [EdgesOf(out) -> out.V]
    BY <2>1, <2>2 DEF NotYet, AreMaps, WellFormed
  <2> QED
    BY <2>1, <2>3, <1>3 DEF WellFormed
<1> QED
  BY <1>1, <1>2, <1>3

(* Together they give the types. *)
LEMMA Typed == IInv /\ NotYet => TypeOK
<1> SUFFICES ASSUME IInv, NotYet PROVE TypeOK
  OBVIOUS
<1>1. IsSystem(bsbg) /\ M \subseteq E /\ end_points \subseteq out.V
  BY DEF IInv, StageOK, NotYet
<1>2. /\ dsbg.V \subseteq M
      /\ Ediff \subseteq EdgesOf(dsbg)
      /\ rmap \in [dsbg.V -> dsbg.V]
  <2>1. CASE stage \in Early
    BY <2>1 DEF NotYet, NoGraph, Graph, Empty, Id
  <2>2. CASE stage \notin Early
    BY <2>2 DEF IInv, GraphOK, LoopsOK
  <2> QED
    BY <2>1, <2>2
<1>3. residual \subseteq dsbg.V
  BY DEF NotYet, IInv, TornOK, Cuts
<1>4. out_rmap \in [DOMAIN out_rmap -> dsbg.V] /\ DOMAIN out_rmap \subseteq out.V
  <2>1. CASE stage \in Untorn \cup {"addGuessVertices"}
    BY <2>1 DEF NotYet, Empty, Id
  <2>2. CASE stage \notin Untorn \cup {"addGuessVertices"}
    BY <2>2 DEF IInv, GuessOK, GraphOK, Untorn
  <2> QED
    BY <2>1, <2>2
<1>5. reps_to_endpoints \in [DOMAIN reps_to_endpoints -> dsbg.V]
  <2>1. CASE stage \in Untorn \cup {"addGuessVertices", "endPoints"}
    BY <2>1 DEF NotYet, Empty, Id
  <2>2. CASE stage \notin Untorn \cup {"addGuessVertices", "endPoints"}
    BY <2>2 DEF IInv, EndpointsOK, GraphOK, Untorn
  <2> QED
    BY <2>1, <2>2
<1> QED
  BY <1>1, <1>2, <1>3, <1>4, <1>5, GraphsTyped DEF TypeOK

(***************************************************************************)
(* The type invariant: each stage of Causalize::causalize hands over maps  *)
(* between the vertices of the graphs that it hands over.                  *)
(***************************************************************************)
THEOREM Types == Spec => []TypeOK
<1>1. SortInit => NotYet
  BY DEF SortInit, Init, NotYet, NoGraph, Graph, Empty, Id, AreMaps, EdgesOf
<1>2. IInv /\ NotYet /\ [Next]_vars => NotYet'
  BY NextNotYet
<1>3. IInv /\ NotYet => TypeOK
  BY Typed
<1> QED
  BY Invariance, <1>1, <1>2, <1>3, PTL DEF Spec

-----------------------------------------------------------------------------
(***************************************************************************)
(* The graph VerticalSortingBuilder leaves keeps every dependency of the   *)
(* system, and gives every loop one vertex to start in, for every system   *)
(* and every choice of its matching, components and tearing variables.     *)
(***************************************************************************)

(* The vertex a loop starts in: the guess of the vertex it ends in. *)
StartOf(c) == guess_offset[reps_to_endpoints[c]]

(* What an equation reads within its loop, it reads as it is or as its guess. *)
InnerKept ==
  \A e \in EdgesOf(dsbg) \ Ediff : /\ e \in EdgesOf(out)
                                   /\ out.mapB[e] = guess_offset[dsbg.mapB[e]]
                                   /\ out.mapD[e] = dsbg.mapD[e]

OthersStay == \A v \in M \ residual : guess_offset[v] = v

StartsKnown == end_points = {StartOf(c) : c \in FixedPoints(rmap)}

(* An edge between loops goes from where one ends to where the other starts. *)
OuterKept ==
  \A e \in Ediff : /\ e \in EdgesOf(out)
                   /\ out.mapB[e] = reps_to_endpoints[rmap[dsbg.mapB[e]]]
                   /\ out.mapD[e] = StartOf(rmap[dsbg.mapD[e]])

(* What is known of the edges from each stage on, next to IInv. *)
KInv ==
  /\ stage \notin Untorn \cup {"addGuessVertices"} => InnerKept /\ OthersStay
  /\ stage \notin Untorn \cup {"addGuessVertices", "endPoints"} => StartsKnown
  /\ stage \in Built => OuterKept

-----------------------------------------------------------------------------
(* The steps of build *)

(* The edges that start in a residual vertex start in its guess. *)
LEMMA GuessKept == IInv /\ addGuessVertices => KInv'
<1> SUFFICES ASSUME IInv, addGuessVertices PROVE KInv'
  OBVIOUS
<1>1. /\ GraphOK /\ stage' = "endPoints" /\ UNCHANGED <<M, dsbg, Ediff, residual>>
  BY DEF IInv, addGuessVertices, Untorn, Early
<1>2. /\ residual \subseteq M
      /\ guess_offset' = [v \in M \cup GuessVertices |-> IF v \in residual THEN v + maxv ELSE v]
      /\ EdgesOf(out') = EdgesOf(dsbg)
      /\ \A e \in EdgesOf(dsbg) :
           out'.mapB[e] = IF e \in MovedToGuess THEN dsbg.mapB[e] + maxv ELSE dsbg.mapB[e]
      /\ \A e \in EdgesOf(dsbg) : out'.mapD[e] = dsbg.mapD[e]
  BY GuessGraph
<1>3. ASSUME NEW e \in EdgesOf(dsbg) \ Ediff
      PROVE  out'.mapB[e] = guess_offset'[dsbg.mapB[e]]
  <2>1. dsbg.mapB[e] \in M /\ (e \in MovedToGuess <=> dsbg.mapB[e] \in residual)
    BY <1>1 DEF GraphOK, MovedToGuess
  <2> QED
    BY <1>2, <2>1
<1>4. InnerKept'
  BY <1>1, <1>2, <1>3 DEF InnerKept
<1>5. OthersStay'
  BY <1>1, <1>2 DEF OthersStay
<1> QED
  BY <1>1, <1>4, <1>5 DEF KInv, Untorn, Early, Built

(* A loop without tearing variables starts and ends in its representative. *)
LEMMA EndPointsKept == IInv /\ KInv /\ endPoints => KInv'
<1> SUFFICES ASSUME IInv, KInv, endPoints PROVE KInv'
  OBVIOUS
<1> DEFINE torn == {rmap[x] : x \in residual}
           F == FixedPoints(rmap)
<1>1. /\ GraphOK /\ LoopsOK /\ TornOK /\ GuessOK /\ InnerKept /\ OthersStay
      /\ stage' = "addDependencies" /\ UNCHANGED graph /\ out' = out
      /\ end_points' = Range(After(guess_offset, toEndpoint)) \cup withoutResidual
  BY DEF IInv, KInv, endPoints, Untorn, Early, graph
<1>2. /\ residual \subseteq M /\ DOMAIN rmap = M /\ M \subseteq DOMAIN guess_offset
      /\ \A v \in M : rmap[v] \in M /\ rmap[rmap[v]] = rmap[v]
  BY <1>1 DEF GraphOK, LoopsOK, TornOK, GuessOK, Cuts, IsSCC
<1>3. /\ DOMAIN toEndpoint = torn
      /\ \A y \in torn : toEndpoint[y] \in residual
      /\ reps_to_endpoints' = [y \in M |-> IF y \in torn THEN toEndpoint[y] ELSE y]
  BY LastOfLoop
<1>4. torn \subseteq F /\ F \subseteq M /\ \A c \in F \ torn : c \notin residual
  BY <1>2 DEF FixedPoints
<1>5. withoutResidual = F \ torn
  BY <1>3 DEF withoutResidual
<1>6. Range(After(guess_offset, toEndpoint)) = {guess_offset[toEndpoint[y]] : y \in torn}
  <2>1. /\ DOMAIN After(guess_offset, toEndpoint) = torn
        /\ \A y \in torn : After(guess_offset, toEndpoint)[y] = guess_offset[toEndpoint[y]]
    <3>1. \A y \in DOMAIN toEndpoint : toEndpoint[y] \in DOMAIN guess_offset
      BY <1>2, <1>3
    <3> HIDE DEF torn
    <3> QED
      BY <3>1, <1>3, AfterWithin
  <2> HIDE DEF torn
  <2> QED
    BY <2>1 DEF Range
<1> HIDE DEF torn, F
<1>7. /\ \A c \in torn : StartOf(c)' = guess_offset[toEndpoint[c]]
      /\ \A c \in F \ torn : StartOf(c)' = c
  <2>1. guess_offset' = guess_offset /\ \A c \in F \ torn : guess_offset[c] = c
    BY <1>1, <1>4 DEF OthersStay, graph
  <2> QED
    BY <2>1, <1>3, <1>4 DEF StartOf
<1>8. end_points' = {StartOf(c)' : c \in F}
  BY <1>1, <1>4, <1>5, <1>6, <1>7
<1>9. StartsKnown'
  BY <1>1, <1>8 DEF StartsKnown, F, graph
<1>10. InnerKept' /\ OthersStay'
  BY <1>1 DEF InnerKept, OthersStay, graph
<1> QED
  BY <1>1, <1>9, <1>10 DEF KInv, Untorn, Early, Built

(* Edges are added, whatever they are, next to those of the graph. *)
LEMMA DependenciesAddedKept == IInv /\ KInv /\ addDependencies => KInv'
<1> SUFFICES ASSUME IInv, KInv, addDependencies PROVE KInv'
  OBVIOUS
<1>1. /\ WellFormed(out) /\ InnerKept /\ OthersStay /\ StartsKnown
      /\ stage' = "redirectEdiff" /\ UNCHANGED <<graph, end_points, reps_to_endpoints>>
  BY DEF IInv, StageOK, KInv, addDependencies, Untorn, Early, graph
<1>2. PICK b1, d1, b2, d2 : out' = AddEdges(AddEdges(out, b1, d1), b2, d2)
  BY DEF addDependencies
<1> DEFINE mid == AddEdges(out, b1, d1)
<1>3. /\ WellFormed(mid)
      /\ \A e \in EdgesOf(out) : /\ e \in EdgesOf(mid)
                                 /\ mid.mapB[e] = out.mapB[e] /\ mid.mapD[e] = out.mapD[e]
  BY <1>1, AddEdgesFacts
<1> HIDE DEF mid
<1>4. \A e \in EdgesOf(mid) : /\ e \in EdgesOf(out')
                              /\ out'.mapB[e] = mid.mapB[e] /\ out'.mapD[e] = mid.mapD[e]
  BY <1>2, <1>3, AddEdgesFacts DEF mid
<1>5. InnerKept'
  BY <1>1, <1>3, <1>4 DEF InnerKept, graph
<1>6. OthersStay' /\ StartsKnown'
  BY <1>1 DEF OthersStay, StartsKnown, StartOf, graph
<1> QED
  BY <1>1, <1>5, <1>6 DEF KInv, Untorn, Early, Built

(* The edges between loops are taken away and added again at the end points. *)
LEMMA RedirectKept == IInv /\ KInv /\ redirectEdiff => KInv'
<1> SUFFICES ASSUME IInv, KInv, redirectEdiff PROVE KInv'
  OBVIOUS
<1> DEFINE b == endpointOf(dsbg.mapB)
           d == After(guess_offset, endpointOf(dsbg.mapD))
           rest == EraseEdges(out, Ediff)
<1>1. /\ GraphOK /\ LoopsOK /\ GuessOK /\ EndpointsOK /\ WellFormed(out)
      /\ InnerKept /\ OthersStay /\ StartsKnown
      /\ stage' = "TopologicalSorting"
      /\ UNCHANGED <<graph, end_points, reps_to_endpoints>>
      /\ out' = AddEdges(rest, b, d)
  BY DEF IInv, StageOK, KInv, redirectEdiff, Untorn, Early, graph
<1>2. ASSUME NEW f \in {dsbg.mapB, dsbg.mapD}
      PROVE  /\ DOMAIN endpointOf(f) = Ediff
             /\ \A e \in Ediff : /\ endpointOf(f)[e] = reps_to_endpoints[rmap[f[e]]]
                                 /\ endpointOf(f)[e] \in M
  <2>1. f \in [EdgesOf(dsbg) -> M] /\ Ediff \subseteq DOMAIN f
    BY <1>1 DEF GraphOK, LoopsOK
  <2>2. DOMAIN Only(f, Ediff) = Ediff /\ \A e \in Ediff : Only(f, Ediff)[e] = f[e] /\ f[e] \in M
    BY <2>1, OnlyWithin
  <2>3. DOMAIN rmap = M /\ DOMAIN reps_to_endpoints = M
        /\ \A v \in M : rmap[v] \in M /\ reps_to_endpoints[v] \in M
    BY <1>1 DEF LoopsOK, EndpointsOK
  <2> DEFINE g == After(rmap, Only(f, Ediff))
  <2>4. DOMAIN g = Ediff /\ \A e \in Ediff : g[e] = rmap[f[e]] /\ g[e] \in M
    <3>1. \A e \in DOMAIN Only(f, Ediff) : Only(f, Ediff)[e] \in DOMAIN rmap
      BY <2>2, <2>3
    <3>2. DOMAIN g = DOMAIN Only(f, Ediff) /\ \A e \in DOMAIN Only(f, Ediff) : g[e] = rmap[Only(f, Ediff)[e]]
      BY <3>1, AfterWithin
    <3> QED
      BY <2>2, <2>3, <3>2
  <2> HIDE DEF g
  <2>5. \A e \in DOMAIN g : g[e] \in DOMAIN reps_to_endpoints
    BY <2>3, <2>4
  <2>6. DOMAIN After(reps_to_endpoints, g) = DOMAIN g
        /\ \A e \in DOMAIN g : After(reps_to_endpoints, g)[e] = reps_to_endpoints[g[e]]
    BY <2>5, AfterWithin
  <2>7. endpointOf(f) = After(reps_to_endpoints, g)
    BY DEF endpointOf, g
  <2> QED
    BY <2>3, <2>4, <2>6, <2>7
<1>3. DOMAIN b = Ediff /\ \A e \in Ediff : b[e] = reps_to_endpoints[rmap[dsbg.mapB[e]]]
  BY <1>2
<1>4. DOMAIN d = Ediff /\ \A e \in Ediff : d[e] = StartOf(rmap[dsbg.mapD[e]])
  <2>1. /\ DOMAIN endpointOf(dsbg.mapD) = Ediff
        /\ \A e \in Ediff : /\ endpointOf(dsbg.mapD)[e] = reps_to_endpoints[rmap[dsbg.mapD[e]]]
                            /\ endpointOf(dsbg.mapD)[e] \in M
    BY <1>2
  <2>2. \A e \in DOMAIN endpointOf(dsbg.mapD) : endpointOf(dsbg.mapD)[e] \in DOMAIN guess_offset
    BY <2>1, <1>1 DEF GuessOK
  <2>3. DOMAIN d = DOMAIN endpointOf(dsbg.mapD)
        /\ \A e \in DOMAIN endpointOf(dsbg.mapD) : d[e] = guess_offset[endpointOf(dsbg.mapD)[e]]
    BY <2>2, AfterWithin
  <2> HIDE DEF d
  <2> QED
    BY <2>1, <2>3 DEF StartOf
<1> HIDE DEF b, d
<1>5. /\ WellFormed(rest) /\ EdgesOf(rest) = EdgesOf(out) \ Ediff
      /\ \A e \in EdgesOf(rest) : rest.mapB[e] = out.mapB[e] /\ rest.mapD[e] = out.mapD[e]
  BY <1>1, EraseEdgesFacts
<1> HIDE DEF rest
<1>6. /\ EdgesOf(out') = EdgesOf(rest) \cup Ediff
      /\ \A e \in EdgesOf(rest) : out'.mapB[e] = rest.mapB[e] /\ out'.mapD[e] = rest.mapD[e]
      /\ \A e \in EdgesOf(out') \ EdgesOf(rest) : out'.mapB[e] = b[e] /\ out'.mapD[e] = d[e]
  <2>1. DOMAIN b \cap DOMAIN d = Ediff
    BY <1>3, <1>4
  <2> QED
    BY <2>1, <1>1, <1>5, AddEdgesFacts
<1>7. InnerKept'
  <2>1. \A e \in EdgesOf(dsbg) \ Ediff : /\ e \in EdgesOf(out')
                                         /\ out'.mapB[e] = out.mapB[e] /\ out'.mapD[e] = out.mapD[e]
    BY <1>1, <1>5, <1>6 DEF InnerKept
  <2> QED
    BY <1>1, <2>1 DEF InnerKept, graph
<1>8. OuterKept'
  <2>1. \A e \in Ediff : e \in EdgesOf(out') /\ out'.mapB[e] = b[e] /\ out'.mapD[e] = d[e]
    BY <1>5, <1>6
  <2>2. \A e \in Ediff : StartOf(rmap[dsbg.mapD[e]])' = StartOf(rmap[dsbg.mapD[e]])
    BY <1>1 DEF StartOf, graph
  <2> QED
    BY <2>1, <2>2, <1>1, <1>3, <1>4 DEF OuterKept, graph
<1>9. OthersStay' /\ StartsKnown'
  BY <1>1 DEF OthersStay, StartsKnown, StartOf, graph
<1> QED
  BY <1>1, <1>7, <1>8, <1>9 DEF KInv, Untorn, Early, Built

(* Before and after build, nothing of it changes. *)
LEMMA OthersKeep ==
  ASSUME IInv, KInv,
         \/ stage' \in Untorn \cup {"addGuessVertices"}
         \/ /\ UNCHANGED <<graph, out, end_points, reps_to_endpoints>>
            /\ stage' = stage \/ (stage \in Built /\ stage' \in Built)
  PROVE  KInv'
<1>1. CASE stage' \in Untorn \cup {"addGuessVertices"}
  BY <1>1 DEF KInv, Built, Untorn, Early
<1>2. CASE /\ UNCHANGED <<graph, out, end_points, reps_to_endpoints>>
           /\ stage' = stage \/ (stage \in Built /\ stage' \in Built)
  <2>1. /\ InnerKept' = InnerKept /\ OthersStay' = OthersStay
        /\ StartsKnown' = StartsKnown /\ OuterKept' = OuterKept
    BY <1>2 DEF InnerKept, OthersStay, StartsKnown, OuterKept, StartOf, graph
  <2> QED
    BY <1>2, <2>1 DEF KInv, Built
<1> QED
  BY <1>1, <1>2

(* Every step keeps the invariant. *)
LEMMA NextKInv == IInv /\ KInv /\ [Next]_vars => KInv'
<1> SUFFICES ASSUME IInv, KInv, [Next]_vars PROVE KInv'
  OBVIOUS
<1>1. CASE HorizontalSorting \/ AlgebraicLoopsDetector \/ TearingDetector
  <2>1. stage' \in Untorn \cup {"addGuessVertices"}
    BY <1>1 DEF HorizontalSorting, AlgebraicLoopsDetector, TearingDetector, Untorn, Early
  <2> QED
    BY <2>1, OthersKeep
<1>2. CASE build
  BY <1>2, GuessKept, EndPointsKept, DependenciesAddedKept, RedirectKept DEF build
<1>3. CASE TopologicalSorting
  BY <1>3, OthersKeep DEF TopologicalSorting, graph, Built, Stages, Untorn, Early
<1>4. CASE sortLoops
  BY <1>4, OthersKeep DEF sortLoops, graph, Built, Stages, Untorn, Early
<1>5. CASE sortLoop
  BY <1>5, OthersKeep DEF sortLoop, graph, Built, Stages, Untorn, Early
<1>6. CASE sortVertex
  BY <1>6, OthersKeep DEF sortVertex, graph, Built, Stages, Untorn, Early
<1>7. CASE nextLoop
  BY <1>7, OthersKeep DEF nextLoop, graph, Built, Stages, Untorn, Early
<1>8. CASE Sorted
  BY <1>8, OthersKeep DEF Sorted, graph, Built, Stages, Untorn, Early
<1>9. CASE UNCHANGED vars
  BY <1>9, OthersKeep DEF vars, bvars, graph
<1> QED
  BY <1>1, <1>2, <1>3, <1>4, <1>5, <1>6, <1>7, <1>8, <1>9 DEF Next, Work, BuilderNext

-----------------------------------------------------------------------------
(* What it says of the graph *)

(* The vertex a loop starts in is the only end point in the loop. *)
LEMMA TheStart ==
  ASSUME IInv, KInv, stage = "TopologicalSorting", NEW c \in FixedPoints(rmap)
  PROVE  /\ StartOf(c) \in end_points /\ StartOf(c) \in out.V /\ out_rmap[StartOf(c)] = c
         /\ \A p \in end_points : out_rmap[p] = c => p = StartOf(c)
<1>1. LoopsOK /\ GuessOK /\ EndpointsOK /\ StartsKnown
  BY DEF IInv, KInv, Untorn, Early
<1>2. ASSUME NEW k \in FixedPoints(rmap)
      PROVE  StartOf(k) \in out.V /\ out_rmap[StartOf(k)] = k
  <2>1. k \in M /\ rmap[k] = k
    BY <1>1 DEF FixedPoints, LoopsOK
  <2>2. reps_to_endpoints[k] \in M /\ rmap[reps_to_endpoints[k]] = k
    BY <2>1, <1>1 DEF EndpointsOK
  <2> QED
    BY <2>2, <1>1 DEF GuessOK, StartOf
<1> QED
  BY <1>1, <1>2 DEF StartsKnown

(* Every loop starts in one vertex. *)
LEMMA OneStart == IInv /\ KInv => OneStartPerLoop
<1> SUFFICES ASSUME IInv, KInv, stage = "TopologicalSorting", NEW c \in FixedPoints(rmap)
             PROVE  Cardinality(end_points \cap preImage(out_rmap, {c})) = 1
  BY DEF OneStartPerLoop
<1>1. DOMAIN out_rmap = out.V
  BY DEF IInv, GuessOK, Untorn, Early
<1>2. end_points \cap preImage(out_rmap, {c}) = {StartOf(c)}
  BY <1>1, TheStart DEF preImage
<1> QED
  BY <1>2, FS_Singleton

(* Every dependency of the system is one of the graph. *)
LEMMA AllKept == IInv /\ KInv => DependenciesKept
<1> SUFFICES ASSUME IInv, KInv, stage = "TopologicalSorting", NEW e \in EdgesOf(dsbg)
             PROVE  LET u == dsbg.mapB[e]
                        v == dsbg.mapD[e]
                        first(w) == CHOOSE p \in end_points : out_rmap[p] = rmap[w]
                    IN  IF rmap[u] = rmap[v]
                        THEN guess_offset[u] \in Precedes(out, out.V, v)
                        ELSE reps_to_endpoints[rmap[u]] \in Precedes(out, out.V, first(v))
  BY DEF DependenciesKept
<1> DEFINE u == dsbg.mapB[e]
           v == dsbg.mapD[e]
           first == CHOOSE p \in end_points : out_rmap[p] = rmap[v]
<1>1. /\ GraphOK /\ LoopsOK /\ GuessOK /\ EndpointsOK /\ InnerKept /\ OuterKept
  BY DEF IInv, KInv, Untorn, Early, Built, Stages
<1>2. u \in M /\ v \in M /\ (e \in Ediff <=> rmap[u] # rmap[v])
  BY <1>1 DEF GraphOK, LoopsOK
<1>3. CASE e \notin Ediff
  <2>1. /\ e \in EdgesOf(out) /\ out.mapB[e] = guess_offset[u] /\ out.mapD[e] = v
        /\ guess_offset[u] \in out.V
    BY <1>1, <1>2, <1>3 DEF InnerKept, GuessOK
  <2>2. guess_offset[u] \in Precedes(out, out.V, v)
    BY <2>1 DEF Precedes
  <2> QED
    BY <2>2, <1>2, <1>3
<1>4. CASE e \in Ediff
  <2>1. rmap[v] \in FixedPoints(rmap) /\ rmap[u] \in M
    BY <1>1, <1>2 DEF LoopsOK, IsSCC, GraphOK, FixedPoints
  <2>2. first = StartOf(rmap[v])
    BY <2>1, TheStart
  <2>3. /\ e \in EdgesOf(out) /\ out.mapB[e] = reps_to_endpoints[rmap[u]]
        /\ out.mapD[e] = StartOf(rmap[v])
    BY <1>1, <1>4 DEF OuterKept
  <2>4. reps_to_endpoints[rmap[u]] \in out.V
    BY <2>1, <1>1 DEF EndpointsOK, GuessOK
  <2>5. reps_to_endpoints[rmap[u]] \in Precedes(out, out.V, StartOf(rmap[v]))
    BY <2>3, <2>4 DEF Precedes
  <2> QED
    BY <1>2, <1>4, <2>2, <2>5
<1> QED
  BY <1>3, <1>4

-----------------------------------------------------------------------------
(* The invariant holds in every state. *)
THEOREM KeptInvariance == Spec => []KInv
<1>1. SortInit => KInv
  BY DEF SortInit, Init, KInv, Untorn, Early, Built
<1>2. IInv /\ KInv /\ [Next]_vars => KInv'
  BY NextKInv
<1> QED
  BY Invariance, <1>1, <1>2, PTL DEF Spec

(***************************************************************************)
(* sortLoops finds a loop by its first vertex: whatever tearing variables  *)
(* MinFeedbackVertexSet returned, every loop has one vertex in end_points. *)
(***************************************************************************)
THEOREM StartsOnce == Spec => []OneStartPerLoop
<1>1. IInv /\ KInv => OneStartPerLoop
  BY OneStart
<1> QED
  BY Invariance, KeptInvariance, <1>1, PTL

(***************************************************************************)
(* What an equation reads is computed before it: build loses no edge of    *)
(* the loop detection graph, within a loop or between two of them.         *)
(***************************************************************************)
THEOREM NothingLost == Spec => []DependenciesKept
<1>1. IInv /\ KInv => DependenciesKept
  BY AllKept
<1> QED
  BY Invariance, KeptInvariance, <1>1, PTL
=============================================================================
