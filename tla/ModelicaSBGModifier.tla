------------------------- MODULE ModelicaSBGModifier -------------------------
(***************************************************************************)
(* VerticalSortingResult::toModelicaFormat: the graph of the model is      *)
(* changed to have the vertices that the sort has and the model has not,   *)
(* a guess and a residual for every tearing variable.  One action is one   *)
(* call of ModelicaSBGModifier::modify.                                    *)
(*                                                                         *)
(* An auxiliary variable is named by <<prefix, var, size>>, with the size  *)
(* of the array in the name when it stands for one element, and by         *)
(* <<prefix, var>> when it is an array itself.                             *)
(***************************************************************************)
EXTENDS CausalFormat

kTearingGuessPrefix == "tearing_var_guess_"
kTearingResPrefix   == "tearing_var_res_"

(* The tearing variables among the matchings of a set-edge *)
se_res(se) == PartOf(se, residual)

variableOf(g, se) == svOf(g, se.var_id).info.of

sizeOf(v) == model.vars[v].size

auxVarName(prefix, se, res) ==
  IF Cardinality(res) = 1
  THEN <<prefix, variableOf(matched, se), sizeOf(variableOf(matched, se))>>
  ELSE <<prefix, variableOf(matched, se)>>

(* An element is declared without subscripts; the array keeps those of the access. *)
auxVarAccess(prefix, se, res) ==
  [name |-> auxVarName(prefix, se, res),
   sub  |-> IF Cardinality(res) = 1 THEN <<>> ELSE <<se.access.a, se.access.b>>]

isAux(access) == "name" \in DOMAIN access

Torn(g) == SelectSeq(g.set_edges, LAMBDA se : se_res(se) # {})

-----------------------------------------------------------------------------
\* mutant: an array of one element is taken for a scalar
NoSubscriptsOfOne(se) == sizeOf(variableOf(matched, se)) =< 1

(***************************************************************************)
(* The subscripts of a variable declared without any are read all the      *)
(* same, and der(..) is taken for a reference.                             *)
(***************************************************************************)
NoSubscripts(se) == sizeOf(variableOf(matched, se)) = 0
NoReference(se)  == se.access.der

\* mutant: as large as what is not torn of the array
declaredSizeOfRest(se, res) ==
  IF Cardinality(res) = 1 THEN 0 ELSE sizeOf(variableOf(matched, se)) - Cardinality(res)

(* "decl - (cardinal of the variable - cardinal of the residuals)" *)
declaredSize(se, res) ==
  IF Cardinality(res) = 1 THEN 0
  ELSE sizeOf(variableOf(matched, se))
         - (Cardinality(svOf(matched, se.var_id).set) - Cardinality(res))

addVarDeclaration(vars, se) ==
  vars \o [k \in 1..2 |-> [name |-> auxVarName(<<kTearingGuessPrefix, kTearingResPrefix>>[k], se, se_res(se)),
                           size |-> declaredSize(se, se_res(se))]]

addVarsDeclarations ==
  /\ cstage = "TopologicalSorting"
  /\ \A se \in Range(Torn(matched)) : ~ NoSubscripts(se) /\ ~ NoReference(se)
  /\ cstage' = "partition"
  /\ added_variables' = FoldLeft(addVarDeclaration, <<>>, Torn(matched))
  /\ UNCHANGED <<ivars, M, dsbg, rmap, Ediff, residual, out, guess_offset, out_rmap, end_points,
                 reps_to_endpoints, matched, horizontal_sort, loops, tearing, output>>

(* The first of them that cannot be declared ends the program. *)
failDeclaration ==
  LET failing == SelectSeq(Torn(matched), LAMBDA se : NoSubscripts(se) \/ NoReference(se))
  IN  /\ cstage = "TopologicalSorting"
      /\ failing # <<>>
      /\ cstage' = IF NoSubscripts(failing[1]) THEN "undefined" ELSE "bad_get"
      /\ UNCHANGED <<ivars, M, dsbg, rmap, Ediff, residual, out, guess_offset, out_rmap, end_points,
                     reps_to_endpoints, texts>>

-----------------------------------------------------------------------------
\* mutant: what is not residual is left out
partitionResidualOnly(g, se, not_residual) == copySetEdge(g, restrict(se, residual))

partitionEdge(g, se, not_residual) ==
  copySetEdge(copySetEdge(g, restrict(se, residual)), restrict(se, not_residual))

(* A set-edge that is residual in part becomes two; the vertices stay whole. *)
partition ==
  /\ cstage = "partition"
  /\ cstage' = "addGuessMatchs"
  /\ output' = FoldLeft(LAMBDA g, se : partitionEdge(g, se, out.V \ residual),
                        FoldLeft(copySetVertex, NewModelicaSBG, matched.set_vertices),
                        matched.set_edges)
  /\ UNCHANGED <<ivars, M, dsbg, rmap, Ediff, residual, out, guess_offset, out_rmap, end_points,
                 reps_to_endpoints, matched, horizontal_sort, loops, tearing, added_variables>>

guess_vertices == Image(guess_offset, residual)

max_elem == MaxElem(out.V \ guess_vertices)

GuessInfo(info, access, aux) == [info EXCEPT !.added = <<>>, !.sides = <<access, aux>>]

\* mutant: the guess edges go right after the residuals
addGuessUnoffset(g, se) ==
  LET res  == se_res(se)
      aux  == auxVarAccess(kTearingGuessPrefix, se, res)
      info == svOf(g, se.eq_id).info
      made == addSetVertex(g, translate(res, -se.translation), "guess", GuessInfo(info, se.access, aux))
  IN  addSetEdgeAt(made, se.var_id, Last(made.set_vertices).node_id, se.domain,
                   Max(residual) + se.translation, se.access)

(* The equation  x = guess_x, matched to x at the guess vertices of the sort. *)
addGuess(g, se) ==
  LET res  == se_res(se)
      aux  == auxVarAccess(kTearingGuessPrefix, se, res)
      info == svOf(g, se.eq_id).info
      made == addSetVertex(g, translate(res, -se.translation), "guess", GuessInfo(info, se.access, aux))
  IN  addSetEdgeAt(made, se.var_id, Last(made.set_vertices).node_id, se.domain,
                   max_elem + se.translation, se.access)

addGuessMatchs ==
  /\ cstage = "addGuessMatchs"
  /\ cstage' = "modifyResidualMatchs"
  /\ output' = FoldLeft(addGuess, output, Torn(matched))
  /\ UNCHANGED <<ivars, M, dsbg, rmap, Ediff, residual, out, guess_offset, out_rmap, end_points,
                 reps_to_endpoints, matched, horizontal_sort, loops, tearing, added_variables>>

-----------------------------------------------------------------------------
(* res + left = right; what is added last comes first. *)
ResidualEqVisitor(info, aux) == [info EXCEPT !.added = <<aux>> \o @]

\* mutant: the matching stays with the variable of the model
modifyResidualUnmatched(g, k) ==
  LET se  == g.set_edges[k]
      aux == auxVarAccess(kTearingResPrefix, se, se_res(se))
      at  == setVertex(g, se.eq_id)
  IN  IF se_res(se) = {} THEN g
      ELSE [g EXCEPT !.set_vertices[at].info = ResidualEqVisitor(@, aux)]

(***************************************************************************)
(* The equation of the set-edge, all of it, takes the residual, and the    *)
(* matching is now to the residual, a variable without information.        *)
(***************************************************************************)
modifyResidual(g, k) ==
  LET se  == g.set_edges[k]
      res == se_res(se)
      aux == auxVarAccess(kTearingResPrefix, se, res)
      at  == setVertex(g, se.eq_id)
      h   == [g EXCEPT !.set_vertices[at].info = ResidualEqVisitor(@, aux)]
      made == addSetVertex(h, translate(res, -se.translation), "res", [of |-> 0])
  IN  IF res = {} THEN g
      ELSE [made EXCEPT !.set_edges[k].var_id = Last(made.set_vertices).node_id,
                        !.set_edges[k].access = aux]

modifyResidualMatchs ==
  /\ cstage = "modifyResidualMatchs"
  /\ cstage' = "sortLoops"
  /\ output' = FoldLeft(modifyResidual, output, [k \in DOMAIN output.set_edges |-> k])
  /\ UNCHANGED <<ivars, M, dsbg, rmap, Ediff, residual, out, guess_offset, out_rmap, end_points,
                 reps_to_endpoints, matched, horizontal_sort, loops, tearing, added_variables>>

(***************************************************************************)
(* equationToModelicaFormat for a vertex of the sort: an equation with its *)
(* unknown for every set-edge of the vertex, and for a residual that it is *)
(* zero.  outerBounds shows the counter of an equation that has one.       *)
(***************************************************************************)
equationToModelicaFormat(se, v) ==
  [info |-> svOf(output, se.eq_id).info, at |-> v - se.translation, var |-> se.access,
   zero |-> IF v \in residual THEN <<se.access>> ELSE <<>>]

format(v) ==
  LET edges == EdgesMeeting(output, {v})
  IN  [k \in DOMAIN edges |-> equationToModelicaFormat(edges[k], v)]

FormatStopped ==
  \/ stage = "ERROR"
  \/ cstage \in {"sortLoops", "unbalanced", "higher index", "out of bound", "not supported",
                 "undefined", "bad_get"}

causalize ==
  \/ GenerateSBGInput \/ HorizontalSorting
  \/ AlgebraicLoopsDetector \/ loopsToModelicaFormat \/ refuseLoops
  \/ TearingDetector \/ VerticalSortingBuilder
  \/ addVarsDeclarations \/ failDeclaration \/ partition \/ addGuessMatchs \/ modifyResidualMatchs

FormatNext ==
  \/ causalize
  \/ FormatStopped /\ UNCHANGED cvars

FormatSpec == FormatInit /\ [][FormatNext]_cvars
=============================================================================
