--------------------------- MODULE VerticalSorting ---------------------------
(***************************************************************************)
(* The whole causalization: the stages of CausalizationBuilders, then the  *)
(* topological order of the graph they build, and VerticalSortingResult    *)
(* walking that order to write the causal model.  The order is handed over *)
(* as the program represents it, a map from each vertex to the one before  *)
(* it (the first vertex to itself); both walks look for "the vertex whose  *)
(* predecessor I have just written" and dereference what they find.        *)
(***************************************************************************)
EXTENDS CausalizationBuilders, SequencesExt

CONSTANT Pinned   \* does TopologicalSorting keep to rmap_starts and rmap_ends?

ASSUME PinnedAssumption == Pinned \in BOOLEAN

VARIABLES
  order,              \* the vertices ordered so far, as a sequence
  unsorted_sccs,      \* sortLoops: representatives not written yet
  sccs_smap,          \* sortLoops: first vertex of a loop -> that of the one before
  jth_scc,            \* sortLoops: the first vertex of the loop in turn
  unsorted_vertices,  \* sortLoop: vertices of the loop not written yet
  vertices_smap,      \* sortLoop: the order, on those vertices
  jth_vertices,       \* sortLoop: the vertex in turn
  matchs,             \* sortLoop: what is written of this loop
  residual_zero,      \* MatchToModelicaFormat: the equations res = 0 set aside
  model               \* the loops written, in order

svars == <<unsorted_sccs, sccs_smap, jth_scc, unsorted_vertices, vertices_smap,
           jth_vertices, matchs, residual_zero, model>>
vars == <<bvars, order, svars>>

Entry(kind, v) == [kind |-> kind, vertex |-> v]

(* The order as the map the program reads. *)
sort == [v \in Range(order) |->
           LET i == CHOOSE i \in DOMAIN order : order[i] = v
           IN  order[IF i = 1 THEN 1 ELSE i - 1]]

Loop(r) == preImage(out_rmap, {r})

-----------------------------------------------------------------------------
SortInit ==
  /\ Init
  /\ order = <<>> /\ unsorted_sccs = {} /\ sccs_smap = Empty /\ jth_scc = {}
  /\ unsorted_vertices = {} /\ vertices_smap = Empty /\ jth_vertices = {}
  /\ matchs = <<>> /\ residual_zero = <<>> /\ model = <<>>

(***************************************************************************)
(* SBG::LIB::TopologicalSorting puts a vertex after all that precede it (a *)
(* vertex may precede itself) and keeps the vertices of a loop together.   *)
(* When Pinned, a loop also starts and ends with the vertices given for it.*)
(***************************************************************************)
Orderable(v) ==
  LET placed == Range(order)
      open   == {u \in placed : ~ Loop(out_rmap[u]) \subseteq placed}
      loop   == Loop(out_rmap[v])
      last   == reps_to_endpoints[out_rmap[v]]
  IN  /\ v \notin placed
      /\ Precedes(out, out.V \ {v}, v) \subseteq placed
      /\ open \subseteq loop
      /\ Pinned => /\ open = {} => v = guess_offset[last]
                   /\ v = last => loop \subseteq placed \cup {v}

TopologicalSorting ==
  /\ stage = "TopologicalSorting"
  /\ \E v \in out.V : Orderable(v) /\ order' = Append(order, v)
  /\ stage' = IF Range(order') = out.V THEN "toModelicaFormat" ELSE stage
  /\ UNCHANGED <<bsbg, M, dsbg, rmap, Ediff, residual, out, guess_offset,
                 out_rmap, end_points, reps_to_endpoints, svars>>

\* mutant: every vertex is taken, not the first ones of the loops
sccsSmapUnrestricted == After(guess_offset, sort)

\* mutant: the vertex before a loop is not taken back to the first vertex of its loop
sccsSmapNoOffset == Only(sort, end_points)

sccsSmap == After(guess_offset, Only(sort, end_points))

(* sortLoops, up to its loop *)
sortLoops ==
  /\ stage = "toModelicaFormat"
  /\ stage' = "sortLoops"
  /\ unsorted_sccs' = FixedPoints(out_rmap)
  /\ sccs_smap' = sccsSmap
  /\ jth_scc' = FixedPoints(sccs_smap')
  /\ UNCHANGED <<bsbg, M, dsbg, rmap, Ediff, residual, out, guess_offset,
                 out_rmap, end_points, reps_to_endpoints, order,
                 unsorted_vertices, vertices_smap, jth_vertices, matchs,
                 residual_zero, model>>

(***************************************************************************)
(* *(smap.restrict(turn).begin()): nothing is there to dereference when no *)
(* vertex in turn is left, and what happens then is undefined.             *)
(***************************************************************************)
InTurn(smap, turn) == DOMAIN smap \cap turn

\* mutant: the residual vertices of the loop are left out
representedWithoutResidual(v) == Loop(out_rmap[v]) \ residual

represented(v) == Loop(out_rmap[v])

sortLoop ==
  /\ stage = "sortLoops"
  /\ unsorted_sccs # {}
  /\ IF InTurn(sccs_smap, jth_scc) = {}
     THEN /\ stage' = "undefined"
          /\ UNCHANGED svars
     ELSE \E v \in InTurn(sccs_smap, jth_scc) :
            /\ stage' = "sortLoop"
            /\ unsorted_vertices' = represented(v)
            /\ vertices_smap' = Only(sort, represented(v))
            /\ jth_vertices' = {v}
            /\ matchs' = <<>>
            /\ residual_zero' = <<>>
            /\ UNCHANGED <<unsorted_sccs, sccs_smap, jth_scc, model>>
  /\ UNCHANGED <<bsbg, M, dsbg, rmap, Ediff, residual, out, guess_offset,
                 out_rmap, end_points, reps_to_endpoints, order>>

\* mutant: a guess vertex is written as a solved one
kindOfGuessSolved(v) == IF v \in residual THEN "residual" ELSE "solve"

(***************************************************************************)
(* equationToModelicaFormat: the entry of a vertex; a residual vertex also *)
(* sets an equation res = 0 aside.                                         *)
(***************************************************************************)
kindOf(v) == IF v \in residual THEN "residual"
             ELSE IF v \in dsbg.V THEN "solve" ELSE "guess"

setAside(v) == IF v \in residual THEN <<Entry("zero", v)>> ELSE <<>>

\* mutant: the equations set aside are written before the entry
formatZeroFirst(v) ==
  /\ matchs' = matchs \o residual_zero \o setAside(v) \o <<Entry(kindOf(v), v)>>
  /\ residual_zero' = [i \in DOMAIN (residual_zero \o setAside(v)) |-> Entry("moved", 0)]

(***************************************************************************)
(* format ends by moving the equations set aside to the result.  They stay *)
(* in _residual_zero as moved-from equations, and are written again by the *)
(* next call.                                                              *)
(***************************************************************************)
format(v) ==
  /\ matchs' = matchs \o <<Entry(kindOf(v), v)>> \o residual_zero \o setAside(v)
  /\ residual_zero' = [i \in DOMAIN (residual_zero \o setAside(v)) |-> Entry("moved", 0)]

(* One turn of the loop of sortLoop *)
sortVertex ==
  /\ stage = "sortLoop"
  /\ unsorted_vertices # {}
  /\ IF InTurn(vertices_smap, jth_vertices) = {}
     THEN /\ stage' = "undefined"
          /\ UNCHANGED <<unsorted_vertices, vertices_smap, jth_vertices, matchs,
                         residual_zero>>
     ELSE \E v \in InTurn(vertices_smap, jth_vertices) :
            /\ format(v)
            /\ unsorted_vertices' = unsorted_vertices \ {v}
            /\ vertices_smap' = Only(vertices_smap, unsorted_vertices')
            /\ LET next == preImage(vertices_smap', {v})
               IN  jth_vertices' \in IF next = {} THEN {jth_vertices}
                                                  ELSE {{w} : w \in next}
            /\ UNCHANGED stage
  /\ UNCHANGED <<bsbg, M, dsbg, rmap, Ediff, residual, out, guess_offset,
                 out_rmap, end_points, reps_to_endpoints, order,
                 unsorted_sccs, sccs_smap, jth_scc, model>>

(* The end of sortLoop, and of the turn of sortLoops that called it *)
nextLoop ==
  /\ stage = "sortLoop"
  /\ unsorted_vertices = {}
  /\ stage' = "sortLoops"
  /\ model' = Append(model, matchs)
  /\ unsorted_sccs' = unsorted_sccs \ Image(out_rmap, jth_scc)
  /\ sccs_smap' = Only(sccs_smap, preImage(out_rmap, unsorted_sccs'))
  /\ LET next == preImage(sccs_smap', jth_scc)
     IN  jth_scc' \in IF next = {} THEN {jth_scc} ELSE {{w} : w \in next}
  /\ matchs' = <<>>
  /\ UNCHANGED <<bsbg, M, dsbg, rmap, Ediff, residual, out, guess_offset,
                 out_rmap, end_points, reps_to_endpoints, order,
                 unsorted_vertices, vertices_smap, jth_vertices, residual_zero>>

Sorted ==
  /\ stage = "sortLoops"
  /\ unsorted_sccs = {}
  /\ stage' = "sorted"
  /\ UNCHANGED <<bsbg, M, dsbg, rmap, Ediff, residual, out, guess_offset,
                 out_rmap, end_points, reps_to_endpoints, order, svars>>

Stages ==
  {"HorizontalSorting", "AlgebraicLoopsDetector", "TearingDetector", "addGuessVertices",
   "endPoints", "addDependencies", "redirectEdiff", "TopologicalSorting",
   "toModelicaFormat", "sortLoops", "sortLoop", "sorted", "unbalanced", "higher index",
   "out of bound", "undefined"}

Stopped == stage \in {"sorted", "unbalanced", "higher index", "out of bound", "undefined"}

Work == \/ BuilderNext /\ UNCHANGED <<order, svars>>
        \/ TopologicalSorting \/ sortLoops \/ sortLoop \/ sortVertex
        \/ nextLoop \/ Sorted

Next == Work \/ (Stopped /\ UNCHANGED vars)

Spec == SortInit /\ [][Next]_vars /\ WF_vars(Work)
=============================================================================
