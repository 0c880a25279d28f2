----------------------------- MODULE CausalFormat -----------------------------
(***************************************************************************)
(* Causalize::causalize as a whole: the graph of the model, the stages on  *)
(* its elements, and after each stage the Modelica text it is shown as.    *)
(* SBGInput gives the graph and CausalizationBuilders the stages; here are *)
(* the ModelicaSBG that goes along with them, which says what equation and *)
(* what unknown an element stands for, and the operations toModelicaFormat *)
(* of HorizontalSortingResult, AlgebraicLoopsResult and TearingResult.     *)
(* ModelicaSBGModifier goes on from here.                                  *)
(*                                                                         *)
(* An equation is shown as [info, range]: the EquationInfo of a set-vertex *)
(* inside a for of that range, or without one.  The counters of for        *)
(* equations are all called i, and the vertices are taken one at a time    *)
(* from the sort, which TopologicalSorting of the library computes.        *)
(***************************************************************************)
EXTENDS SBGInput

CONSTANT MaxTearing       \* bound: the tearing variables of a loop

VARIABLES
  cstage,           \* the stage of causalize() that comes next
  M, dsbg, rmap, Ediff, residual, out, guess_offset, out_rmap, end_points,
  reps_to_endpoints,    \* the variables of CausalizationBuilders
  matched,          \* the ModelicaSBG of HorizontalSortingResult
  horizontal_sort,  \* ModelMatch: [info, range, var]
  loops,            \* AlgebraicLoops: [range, equations]
  tearing,          \* TearingVariables: [var, range]
  output,           \* _output_modelica_bsbg of the modifier
  added_variables   \* [name, size]

Builders ==
  INSTANCE CausalizationBuilders WITH Systems <- {NoSystem}, stage <- cstage

builder == <<cstage, M, dsbg, rmap, Ediff, residual, out, guess_offset, out_rmap,
             end_points, reps_to_endpoints>>

texts == <<matched, horizontal_sort, loops, tearing, output, added_variables>>

cvars == <<ivars, builder, texts>>

FormatInit ==
  /\ InputInit /\ Builders!Init
  /\ matched = NewModelicaSBG /\ output = NewModelicaSBG
  /\ horizontal_sort = <<>> /\ loops = <<>> /\ tearing = {} /\ added_variables = <<>>

GenerateSBGInput == InputNext /\ ~ InputStopped /\ UNCHANGED <<builder, texts>>

-----------------------------------------------------------------------------
(* From the numbers of a graph back to the counters of an equation *)

Progressions(S) == {<<Min(S), step, Max(S)>> : step \in 1..(Max(S) - Min(S) + 1)}

(***************************************************************************)
(* The pieces of a Set of the library: one if the numbers go up by a step, *)
(* and otherwise a piece for each run of consecutive numbers.              *)
(***************************************************************************)
pieces(S) ==
  IF \E r \in Progressions(S) : Counter(r) = S
  THEN <<CHOOSE r \in Progressions(S) : Counter(r) = S /\ (Min(S) = Max(S) => r[2] = 1)>>
  ELSE LET first == SetToSortSeq({x \in S : x - 1 \notin S}, <)
           last  == SetToSortSeq({x \in S : x + 1 \notin S}, <)
       IN  [k \in DOMAIN first |-> <<first[k], 1, last[k]>>]

\* mutant: the numbers are given as they are in the graph
toModelicaIndicesUntranslated(S, t) ==
  [k \in DOMAIN pieces(S) |-> [set |-> Counter(pieces(S)[k]), indexes |-> pieces(S)[k]]]

(***************************************************************************)
(* toModelicaIndices: for each piece its elements and the range of the     *)
(* counter.  The law of the pieces is the identity, which turns no range.  *)
(***************************************************************************)
toModelicaIndices(S, t) ==
  LET p == pieces(S)
  IN  [k \in DOMAIN p |-> [set |-> Counter(p[k]), indexes |-> <<p[k][1] - t, p[k][2], p[k][3] - t>>]]

svOf(g, id) == g.set_vertices[setVertex(g, id)]

getAccess(g, se, S) ==
  [info |-> svOf(g, se.eq_id).info, accesses |-> toModelicaIndices(S, se.translation)]

isScalarInfo(info) == IsScalar(model.eqs[info.of])

\* mutant: a for equation keeps the bounds it had in the model
restrictBoundsNot(info, range) == [info |-> info, range |-> model.eqs[info.of].range]

restrictBounds(info, range) ==
  [info |-> info, range |-> IF isScalarInfo(info) THEN Scalar ELSE range]

(* The set-edges of a graph with what a set holds of each, in their order *)
PartOf(se, S) == translatedDomain(se) \cap S

EdgesMeeting(g, S) == SelectSeq(g.set_edges, LAMBDA se : PartOf(se, S) # {})

-----------------------------------------------------------------------------
(* Horizontal sorting *)

(* Every set-vertex, and of the set-edges what is matched. *)
constructNewModelicaSBG(old, S) ==
  FoldLeft(LAMBDA g, se : copySetEdge(g, restrict(se, S)),
           FoldLeft(copySetVertex, NewModelicaSBG, old.set_vertices), old.set_edges)

matchOf(g, se, S) ==
  LET found == getAccess(g, se, PartOf(se, S))
  IN  [k \in DOMAIN found.accesses |->
         restrictBounds(found.info, found.accesses[k].indexes) @@ [var |-> se.access]]

horizontalToModelica(g, S) ==
  FlattenSeq([k \in DOMAIN EdgesMeeting(g, S) |-> matchOf(g, EdgesMeeting(g, S)[k], S)])

HorizontalSorting ==
  /\ stage = "done"
  /\ Builders!HorizontalSorting
  /\ IF cstage' = "AlgebraicLoopsDetector"
     THEN /\ matched' = constructNewModelicaSBG(sbg, M')
          /\ horizontal_sort' = horizontalToModelica(matched', M')
     ELSE UNCHANGED <<matched, horizontal_sort>>
  /\ UNCHANGED <<ivars, loops, tearing, output, added_variables>>

-----------------------------------------------------------------------------
(* Algebraic loops *)

represented(r, reps) == preImage(r, reps)

(***************************************************************************)
(* The equations of the loops of some representatives.  In an array of     *)
(* loops every equation takes its counter from the for around the array.   *)
(***************************************************************************)
innerBounds(info, reps, range) ==
  IF Cardinality(reps) = 1 THEN restrictBounds(info, range)
                           ELSE [info |-> info, range |-> Scalar]

accessesOfLoop(g, r, reps) ==
  LET S == represented(r, reps)
      eqs(se) == LET found == getAccess(g, se, PartOf(se, S))
                 IN  [k \in DOMAIN found.accesses |->
                        [info |-> found.info, range |-> found.accesses[k].indexes]]
  IN  FlattenSeq([k \in DOMAIN EdgesMeeting(g, S) |-> eqs(EdgesMeeting(g, S)[k])])

\* mutant: only the number of counters is compared
AdjustableCounted(g, r, piece) ==
  Cardinality(piece.set) > 1 =>
    \A eq \in Range(accessesOfLoop(g, r, piece.set)) : ~ isScalarInfo(eq.info)

(* "conversion not yet supported": the counters of an array of loops differ. *)
Adjustable(g, r, piece) ==
  Cardinality(piece.set) > 1 =>
    \A eq \in Range(accessesOfLoop(g, r, piece.set)) :
      ~ isScalarInfo(eq.info) /\ eq.range = piece.indexes

loopToModelica(g, r, piece) ==
  LET eqs == accessesOfLoop(g, r, piece.set)
  IN  [range     |-> IF Cardinality(piece.set) = 1 THEN Scalar ELSE piece.indexes,
       equations |-> [k \in DOMAIN eqs |-> innerBounds(eqs[k].info, piece.set, eqs[k].range)]]

(* The pieces of the representatives, set-edge by set-edge *)
piecesOfLoops(g, r) ==
  LET reps == FixedPoints(r)
      edges == EdgesMeeting(g, reps)
  IN  FlattenSeq([k \in DOMAIN edges |-> getAccess(g, edges[k], PartOf(edges[k], reps)).accesses])

loopsToModelica(g, r) ==
  LET p == piecesOfLoops(g, r)
  IN  [k \in DOMAIN p |-> loopToModelica(g, r, p[k])]

AlgebraicLoopsDetector ==
  Builders!AlgebraicLoopsDetector /\ UNCHANGED <<ivars, texts>>

LoopsToShow == cstage = "TearingDetector" /\ loops = <<>>

loopsToModelicaFormat ==
  /\ LoopsToShow
  /\ \A p \in Range(piecesOfLoops(matched, rmap)) : Adjustable(matched, rmap, p)
  /\ loops' = loopsToModelica(matched, rmap)
  /\ UNCHANGED <<ivars, builder, matched, horizontal_sort, tearing, output, added_variables>>

refuseLoops ==
  /\ LoopsToShow
  /\ \E p \in Range(piecesOfLoops(matched, rmap)) : ~ Adjustable(matched, rmap, p)
  /\ cstage' = "not supported"
  /\ UNCHANGED <<ivars, M, dsbg, rmap, Ediff, residual, out, guess_offset, out_rmap,
                 end_points, reps_to_endpoints, texts>>

-----------------------------------------------------------------------------
(* Tearing *)

\* mutant: the variable is shown at the counters of the equation
variableToModelicaAtEquation(g, se, S) ==
  {[var |-> svOf(g, se.var_id).info.of, range |-> a.indexes] :
     a \in Range(toModelicaIndices(PartOf(se, S), se.translation))}

(* The elements of a variable that a set-edge accesses, shown as name[range]. *)
variableToModelica(g, se, S) ==
  LET img == {se.map2.m * x + se.map2.h : x \in PartOf(se, S)}
      v   == svOf(g, se.var_id)
  IN  {[var |-> v.info.of, range |-> a.indexes] : a \in Range(toModelicaIndices(img, v.translation))}

tearingToModelica(g, S) ==
  UNION {variableToModelica(g, se, S) : se \in Range(EdgesMeeting(g, S))}

TearingDetector ==
  /\ ~ LoopsToShow
  /\ Builders!TearingDetector
  /\ tearing' = tearingToModelica(matched, residual')
  /\ UNCHANGED <<ivars, matched, horizontal_sort, loops, output, added_variables>>

(* VerticalSorting::sort, up to the order of the vertices *)
VerticalSortingBuilder == Builders!build /\ UNCHANGED <<ivars, texts>>

=============================================================================
