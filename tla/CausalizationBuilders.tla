------------------------ MODULE CausalizationBuilders ------------------------
(***************************************************************************)
(* From a system of equations to the directed graph that the vertical      *)
(* sorting orders: the stages of Causalize::causalize up to the end of     *)
(* VerticalSortingBuilder::build.  One action is one stage, or one step of *)
(* build().  Graphs are taken element by element, so a set-vertex and a    *)
(* set-edge of the program stand here for each of their elements.          *)
(*                                                                         *)
(* The bipartite graph has an equation vertex for each equation (X), a     *)
(* variable vertex for each unknown (Y) and an edge for each occurrence of *)
(* an unknown in an equation.  A vertex of the directed graphs is a        *)
(* matched edge: an equation together with the unknown it is solved for.   *)
(***************************************************************************)
EXTENDS SBGraphs

CONSTANTS
  Systems,     \* the bipartite graphs the generation stage may hand over
  MaxTearing   \* bound: systems that need more tearing variables in a loop end early

ASSUME SystemsAssumption == \A s \in Systems : IsSystem(s)
ASSUME MaxTearingAssumption == MaxTearing \in Nat

VARIABLES
  stage,            \* the stage that comes next
  bsbg,             \* BipartiteSBG of the model
  M,                \* the matched edges
  dsbg,             \* loop detection graph: _input_dsbg of the builder
  rmap,             \* vertex -> representative of its algebraic loop
  Ediff,            \* the edges between different loops
  residual,         \* _residual_vertices, the tearing variables
  out,              \* _output_dsbg
  guess_offset,     \* residual vertex -> its guess vertex, identity elsewhere
  out_rmap,         \* _output_rmap
  end_points,       \* the first vertex of each loop
  reps_to_endpoints \* representative -> the last vertex of its loop

bvars == <<stage, bsbg, M, dsbg, rmap, Ediff, residual, out, guess_offset,
           out_rmap, end_points, reps_to_endpoints>>

Empty == Id({})
NoGraph == Graph({}, Empty, Empty)

-----------------------------------------------------------------------------
(* The graphs of the stages *)

E == DOMAIN bsbg.map1

(* The end of an edge on the side S of the bipartite graph. *)
Side(S) == Combine(Only(bsbg.map1, preImage(bsbg.map1, S)),
                   Only(bsbg.map2, preImage(bsbg.map2, S)))

mapF == Side(bsbg.X)
mapU == Side(bsbg.Y)

(* SBG::LIB::Matching, when it matches every unknown *)
FullMatchings ==
  LET f == mapF
      u == mapU
  IN  {S \in SUBSET E : /\ Cardinality(S) = Cardinality(bsbg.Y)
                        /\ Image(u, S) = bsbg.Y
                        /\ Image(f, S) = bsbg.X}

buildSCCVertices == M

\* mutant: the edges point from the equation to what it reads
buildSCCEdgesReversed ==
  LET free == E \ M
  IN  [mapB |-> After(AntiFunction(Only(mapF, M)), Only(mapF, free)),
       mapD |-> After(AntiFunction(Only(mapU, M)), Only(mapU, free))]

(***************************************************************************)
(* A free edge e says that its equation reads its unknown: it goes from    *)
(* the vertex that computes the unknown to the vertex of the equation.     *)
(***************************************************************************)
buildSCCEdges ==
  LET free == E \ M
  IN  [mapB |-> After(AntiFunction(Only(mapU, M)), Only(mapU, free)),
       mapD |-> After(AntiFunction(Only(mapF, M)), Only(mapF, free))]

buildLoopDetectionSBG ==
  Graph(buildSCCVertices, buildSCCEdges.mapB, buildSCCEdges.mapD)

(* The loops are told apart; a vertex alone in its loop is left out. *)
buildTearingSBG ==
  LET alone == {v \in dsbg.V : preImage(rmap, {rmap[v]}) = {v}}
  IN  EraseVertices(EraseEdges(dsbg, Ediff), alone)

(***************************************************************************)
(* What SBG::LIB::SCC returns: a representative for every vertex, the same *)
(* for the vertices of a component.  A part of a component has an edge to  *)
(* the rest of it, and a set of components has one that no other component *)
(* of the set has an edge to.                                              *)
(***************************************************************************)
IsSCC(g, r) ==
  /\ \A v \in g.V : r[r[v]] = r[v]
  /\ \A c \in FixedPoints(r) : \A T \in Parts(preImage(r, {c})) \ {preImage(r, {c})} :
       \E e \in EdgesOf(g) : g.mapB[e] \in T /\ g.mapD[e] \in preImage(r, {c}) \ T
  /\ \A T \in Parts(FixedPoints(r)) : \E c \in T : \A e \in EdgesOf(g) :
       r[g.mapD[e]] = c /\ r[g.mapB[e]] \in T => r[g.mapB[e]] = c

(* SBG::LIB::MinFeedbackVertexSet: some set that cuts every cycle. *)
FeedbackVertexSets(g) == {R \in SUBSET g.V : AcyclicOn(g, g.V \ R)}

(* MaxTearing bounds the tearing variables of a loop. *)
WithinBound(R) ==
  \A c \in FixedPoints(rmap) : Cardinality(R \cap preImage(rmap, {c})) <= MaxTearing

-----------------------------------------------------------------------------
Init ==
  /\ stage = "HorizontalSorting"
  /\ bsbg \in Systems
  /\ M = {} /\ dsbg = NoGraph /\ rmap = Empty /\ Ediff = {} /\ residual = {}
  /\ out = NoGraph /\ guess_offset = Empty /\ out_rmap = Empty
  /\ end_points = {} /\ reps_to_endpoints = Empty

(***************************************************************************)
(* HorizontalSorting::sort gives up on a system that is not square and on  *)
(* one whose maximum matching leaves an unknown out.                       *)
(***************************************************************************)
HorizontalSorting ==
  /\ stage = "HorizontalSorting"
  /\ IF Cardinality(bsbg.X) # Cardinality(bsbg.Y)
     THEN stage' = "unbalanced" /\ M' = M
     ELSE \/ M' \in FullMatchings /\ stage' = "AlgebraicLoopsDetector"
          \/ FullMatchings = {} /\ M' = M /\ stage' = "higher index"
  /\ UNCHANGED <<bsbg, dsbg, rmap, Ediff, residual, out, guess_offset, out_rmap,
                 end_points, reps_to_endpoints>>

AlgebraicLoopsDetector ==
  /\ stage = "AlgebraicLoopsDetector"
  /\ stage' = "TearingDetector"
  /\ dsbg' = buildLoopDetectionSBG
  /\ rmap' \in {r \in [M -> M] : IsSCC(dsbg', r)}
  /\ Ediff' = {e \in EdgesOf(dsbg') : rmap'[dsbg'.mapB[e]] # rmap'[dsbg'.mapD[e]]}
  /\ UNCHANGED <<bsbg, M, residual, out, guess_offset, out_rmap, end_points,
                 reps_to_endpoints>>

(* TearingDetector::detect, and build() starting from a copy of its input. *)
TearingDetector ==
  /\ stage = "TearingDetector"
  /\ LET choices == {R \in FeedbackVertexSets(buildTearingSBG) : WithinBound(R)}
     IN  \/ choices = {} /\ stage' = "out of bound" /\ UNCHANGED <<residual, out>>
         \/ residual' \in choices /\ stage' = "addGuessVertices" /\ out' = dsbg
  /\ UNCHANGED <<bsbg, M, dsbg, rmap, Ediff, guess_offset, out_rmap,
                 end_points, reps_to_endpoints>>

(***************************************************************************)
(* Every residual vertex gets a guess vertex beyond the largest vertex.    *)
(* What the loop reads of the residual's unknown it now reads of its guess.*)
(***************************************************************************)
maxv == MaxElem(dsbg.V)

\* mutant: the guess vertices are not added to the graph
GuessVerticesForgotten == {}

GuessVertices == Range(Translate(residual, maxv))

\* mutant: the identity wins over the offset, so that nothing moves to the guess
guessOffsetIdentityFirst(V) == Combine(Id(V), Translate(residual, maxv))

guessOffset(V) == Combine(Translate(residual, maxv), Id(V))

addGuessVertices ==
  LET outgoing == preImage(dsbg.mapB, residual) \ Ediff
      grown    == EraseEdges(AddVertices(out, GuessVertices), outgoing)
      offset   == guessOffset(grown.V)
  IN  /\ stage = "addGuessVertices"
      /\ stage' = "endPoints"
      /\ guess_offset' = offset
      /\ out' = AddEdges(grown, After(offset, Only(dsbg.mapB, outgoing)),
                                Only(dsbg.mapD, outgoing))
      /\ out_rmap' = Combine(rmap, After(rmap, AntiFunction(Only(offset, residual))))
      /\ UNCHANGED <<bsbg, M, dsbg, rmap, Ediff, residual, end_points,
                     reps_to_endpoints>>

(***************************************************************************)
(* The loop ends in its least residual vertex and starts in the guess of   *)
(* it; a vertex alone in its loop is both.                                 *)
(***************************************************************************)
toEndpoint == MinAdj(Only(rmap, residual), Id(residual))

\* mutant: the representatives of the torn loops are not taken out
withoutResidualAll == FixedPoints(rmap)

withoutResidual == FixedPoints(rmap) \ DOMAIN toEndpoint

endPoints ==
  /\ stage = "endPoints"
  /\ stage' = "addDependencies"
  /\ end_points' = Range(After(guess_offset, toEndpoint)) \cup withoutResidual
  /\ reps_to_endpoints' = Combine(toEndpoint, Id(dsbg.V))
  /\ UNCHANGED <<bsbg, M, dsbg, rmap, Ediff, residual, out, guess_offset, out_rmap>>

(***************************************************************************)
(* The new edges are numbered from the largest edge on.  The restriction   *)
(* is to not_loops, a set of residual VERTICES without the loop EDGES, so  *)
(* that an edge survives only when its number is that of a residual vertex *)
(* too.  edges_to_start_point is never given a value.                      *)
(***************************************************************************)
addDependencies ==
  LET maxe                 == MaxElem(EdgesOf(dsbg))
      residual_to_endpoint == After(reps_to_endpoints, Only(rmap, residual))
      edges_offset         == Translate(residual, maxe)
      edges_to_residual    == AntiFunction(edges_offset)
      edges_to_endpoint    == After(residual_to_endpoint, edges_to_residual)
      loops                == EqualImage(edges_to_residual, edges_to_endpoint)
      not_loops            == DOMAIN edges_offset \ loops
      edges_to_start_point == Empty
      both                 == DOMAIN edges_to_residual \cap not_loops \cap DOMAIN guess_offset
      edges_to_guess       == [e \in both |-> edges_to_residual[e] + guess_offset[e]]
  IN  /\ stage = "addDependencies"
      /\ stage' = "redirectEdiff"
      /\ out' = AddEdges(AddEdges(out, Only(edges_to_residual, not_loops),
                                       Only(edges_to_endpoint, not_loops)),
                         Only(edges_to_start_point, not_loops), edges_to_guess)
      /\ UNCHANGED <<bsbg, M, dsbg, rmap, Ediff, residual, guess_offset, out_rmap,
                     end_points, reps_to_endpoints>>

\* mutant: the representative of the loop is taken for its end point
endpointOfRepresentative(f) == After(rmap, Only(f, Ediff))

(* An edge between loops goes from the last vertex of one to the first of the other. *)
endpointOf(f) == After(reps_to_endpoints, After(rmap, Only(f, Ediff)))

redirectEdiff ==
  /\ stage = "redirectEdiff"
  /\ stage' = "TopologicalSorting"
  /\ out' = AddEdges(EraseEdges(out, Ediff),
                     endpointOf(dsbg.mapB), After(guess_offset, endpointOf(dsbg.mapD)))
  /\ UNCHANGED <<bsbg, M, dsbg, rmap, Ediff, residual, guess_offset, out_rmap,
                 end_points, reps_to_endpoints>>

build == addGuessVertices \/ endPoints \/ addDependencies \/ redirectEdiff

BuilderNext ==
  HorizontalSorting \/ AlgebraicLoopsDetector \/ TearingDetector \/ build

BuilderSpec == Init /\ [][BuilderNext]_bvars
-----------------------------------------------------------------------------
(* Properties *)

(***************************************************************************)
(* Types: what each stage hands over.                                      *)
(***************************************************************************)
TypeOK ==
  /\ IsSystem(bsbg)
  /\ M \subseteq E
  /\ dsbg.V \subseteq M
  /\ residual \subseteq dsbg.V
  /\ \A g \in {dsbg, out} : /\ DOMAIN g.mapD = EdgesOf(g)
                            /\ g.mapB \in [EdgesOf(g) -> g.V]
                            /\ g.mapD \in [EdgesOf(g) -> g.V]
  /\ Ediff \subseteq EdgesOf(dsbg)
  /\ rmap \in [dsbg.V -> dsbg.V]
  /\ out_rmap \in [DOMAIN out_rmap -> dsbg.V] /\ DOMAIN out_rmap \subseteq out.V
  /\ end_points \subseteq out.V
  /\ reps_to_endpoints \in [DOMAIN reps_to_endpoints -> dsbg.V]

(***************************************************************************)
(* The vertical sorting builder leaves a graph that can be ordered,        *)
(* whatever tearing variables it is given: the only cycle that is left is  *)
(* a vertex reading its own unknown.  TopologicalSorting relies on it.     *)
(***************************************************************************)
OutputOrderable ==
  stage = "TopologicalSorting" =>
    \A T \in Parts(out.V) : \E v \in T : Precedes(out, T \ {v}, v) = {}

(***************************************************************************)
(* No dependency is lost.  What an equation reads within its loop comes    *)
(* before it in the graph, as itself or as its guess; what it reads of     *)
(* another loop orders the two loops, last vertex before first vertex.     *)
(***************************************************************************)
DependenciesKept ==
  stage = "TopologicalSorting" =>
    \A e \in EdgesOf(dsbg) :
      LET u == dsbg.mapB[e]
          v == dsbg.mapD[e]
          first(w) == CHOOSE p \in end_points : out_rmap[p] = rmap[w]
      IN  IF rmap[u] = rmap[v]
          THEN guess_offset[u] \in Precedes(out, out.V, v)
          ELSE reps_to_endpoints[rmap[u]] \in Precedes(out, out.V, first(v))

(***************************************************************************)
(* sortLoops finds a loop by its first vertex, so every loop must have one *)
(* vertex in end_points, however many tearing variables it has.            *)
(***************************************************************************)
OneStartPerLoop ==
  stage = "TopologicalSorting" =>
    \A c \in FixedPoints(rmap) : Cardinality(end_points \cap preImage(out_rmap, {c})) = 1

(***************************************************************************)
(* "Adds edges between tearing variables to induce an order between them": *)
(* the residual vertices of a loop come before the one the loop ends in.   *)
(***************************************************************************)
TearingOrdered ==
  stage = "TopologicalSorting" =>
    \A x \in residual :
      LET last == reps_to_endpoints[rmap[x]]
      IN  x # last => x \in Precedes(out, out.V, last)

=============================================================================
