------------------------------- MODULE SBGInput -------------------------------
(***************************************************************************)
(* GenerateSBGInput: from the variables and the equations of a flat model  *)
(* to the bipartite graph that is causalized.  One action is one turn of a *)
(* loop of addVariableNodes, addEquationNodes or addEdges.                 *)
(*                                                                         *)
(* A model is a record of                                                  *)
(*   vars: [kind, size] with kind "state", "algebraic" or "parameter";     *)
(*         size 0 is a variable declared without an index;                 *)
(*   eqs:  [kind, range, terms] with the range of the for loop around the  *)
(*         equation, or Scalar.  A term is an operand of the equation: a   *)
(*         sequence of accesses, one for a reference, more for the         *)
(*         arguments of a function call.                                   *)
(* An access [var, der, a, b] is var[a*i + b], inside der(..) when der;    *)
(* the subscripts are those AccessToSBGExpr supports: i + b, b - i and b.  *)
(***************************************************************************)
EXTENDS ModelicaSBG

CONSTANT Models    \* the models that may be read

Scalar == <<>>
IsScalar(eq) == eq.range = Scalar

(* The values of a counter in start:step:end *)
Counter(range) ==
  {i \in range[1]..range[3] : (i - range[1]) % range[2] = 0}

Elements(var) == IF var.size = 0 THEN {1} ELSE 1..var.size

Instances(eq) == IF IsScalar(eq) THEN {1} ELSE Counter(eq.range)

Subscript(var, acc, i) == IF var.size = 0 THEN 1 ELSE acc.a * i + acc.b

Accesses(eq) == UNION {Range(eq.terms[k]) : k \in DOMAIN eq.terms}

(***************************************************************************)
(* The models are valid: every subscript is an index of its array, a       *)
(* scalar equation has no counter, and der is applied to states only.      *)
(* Counters count from one on: one from zero has an element whose number   *)
(* is that of the element before.                                          *)
(***************************************************************************)
IsRange(range) ==
  range # Scalar => Len(range) = 3 /\ range[1] > 0 /\ (range[1] =< range[3] => range[2] > 0)

IsAccess(m, eq, acc) ==
  LET var == m.vars[acc.var]
  IN  /\ acc.der => var.kind = "state"
      /\ IsScalar(eq) => acc.a = 0
      /\ \A i \in Instances(eq) : Subscript(var, acc, i) \in Elements(var)

IsModel(m) ==
  /\ m.vars \in Seq([kind : {"state", "algebraic", "parameter"}, size : Nat]) \ {<<>>}
  /\ m.eqs \in Seq([kind : STRING, range : Seq(Int),
                    terms : Seq(Seq([var : DOMAIN m.vars, der : BOOLEAN, a : {-1, 0, 1}, b : Int]))]) \ {<<>>}
  /\ \A k \in DOMAIN m.eqs : /\ IsRange(m.eqs[k].range)
                             /\ \A acc \in Accesses(m.eqs[k]) : IsAccess(m, m.eqs[k], acc)

ASSUME ModelsAssumption == \A m \in Models : IsModel(m)

VARIABLES
  model,          \* _mmo_class
  stage,          \* the loop that runs
  turn,           \* its turns, from 1
  matched_exprs,  \* addEdge: the occurrences that have no set-edge yet
  sbg,            \* _modelica_bsbg
  bsbg            \* the bipartite graph of the result

ivars == <<model, stage, turn, matched_exprs, sbg, bsbg>>

NoSystem == [X |-> {}, Y |-> {}, map1 |-> Id({}), map2 |-> Id({})]

isVariable(var) == var.kind \in {"state", "algebraic"}

InputInit ==
  /\ model \in Models
  /\ stage = "addVariableNodes" /\ turn = 1
  /\ matched_exprs = {}
  /\ sbg = NewModelicaSBG /\ bsbg = NoSystem

(* The next turn of the loop, or the first turn of the loop after it. *)
Continue(last, loop, next) ==
  \/ turn < last /\ turn' = turn + 1 /\ stage' = loop
  \/ turn = last /\ turn' = 1 /\ stage' = next

-----------------------------------------------------------------------------
(* ERROR ends the program. *)
ERROR == stage' = "ERROR" /\ UNCHANGED <<model, turn, matched_exprs, sbg, bsbg>>

addVariableNodes ==
  LET var == model.vars[turn]
  IN  /\ stage = "addVariableNodes"
      /\ sbg' = IF isVariable(var)
                THEN addSetVertex(sbg, Elements(var), "var", [of |-> turn])
                ELSE sbg
      /\ Continue(Len(model.vars), stage, "addEquationNodes")
      /\ UNCHANGED <<model, matched_exprs, bsbg>>

\* mutant: a decreasing range is let through
ConvertibleAnyRange(eq) == eq.kind \in {"Equality", "Connect"}

(***************************************************************************)
(* An equation of a decreasing range, and one that is neither an equality  *)
(* nor a connection, is refused.                                           *)
(***************************************************************************)
Convertible(eq) ==
  /\ eq.kind \in {"Equality", "Connect"}
  /\ ~ IsScalar(eq) => eq.range[1] =< eq.range[3]

(***************************************************************************)
(* EquationInfo stands for the counters and the body of the equation; for  *)
(* what the vertical sorting does to them later: the terms it adds to the  *)
(* left side, and the two sides of an equation that it made itself.        *)
(***************************************************************************)
EquationInfo(k) == [of |-> k, added |-> <<>>, sides |-> <<>>]

addEquationNodes ==
  LET eq == model.eqs[turn]
  IN  /\ stage = "addEquationNodes"
      /\ Convertible(eq)
      /\ sbg' = addSetVertex(sbg, Instances(eq), "eq_", EquationInfo(turn))
      /\ Continue(Len(model.eqs), stage, "addEdges")
      /\ UNCHANGED <<model, matched_exprs, bsbg>>

refuseEquation ==
  /\ stage = "addEquationNodes"
  /\ ~ Convertible(model.eqs[turn])
  /\ ERROR

(* addEdges: every set-vertex of an equation, with every set-vertex *)
svs   == sbg.set_vertices
eq_sv == svs[1 + ((turn - 1) \div Len(svs))]
sv    == svs[1 + ((turn - 1) % Len(svs))]

isEquation(v) == v.name = "eq_"

(* A state is an unknown of the equation only inside der(..). *)
Unknown(var, acc) == var.kind = "state" => acc.der

\* mutant: a state is matched wherever it occurs
matchedExpsAnyState(eq, v) ==
  {acc \in Accesses(eq) : acc.var = v}

(***************************************************************************)
(* MatchingExps: the accesses to an unknown.  The arguments of a call are  *)
(* visited from left to right until one of them matches.                   *)
(***************************************************************************)
matchedExps(eq, v) ==
  LET matches(acc) == acc.var = v /\ Unknown(model.vars[v], acc)
      first(term)  == SelectInSeq(term, matches)
  IN  {eq.terms[k][first(eq.terms[k])] :
         k \in {k \in DOMAIN eq.terms : first(eq.terms[k]) # 0}}

addEdge ==
  /\ stage = "addEdges"
  /\ isEquation(eq_sv)
  /\ model.eqs[eq_sv.info.of].kind = "Equality"
  /\ ~ isEquation(sv)
  /\ stage' = "addEdge"
  /\ matched_exprs' = matchedExps(model.eqs[eq_sv.info.of], sv.info.of)
  /\ UNCHANGED <<model, turn, sbg, bsbg>>

(* addEdges passes over the pair: its first is a variable, or its second an equation. *)
noEdge ==
  /\ stage = "addEdges"
  /\ isEquation(eq_sv) => isEquation(sv) /\ model.eqs[eq_sv.info.of].kind = "Equality"
  /\ Continue(Len(svs) * Len(svs), stage, "generateSBGInput")
  /\ UNCHANGED <<model, matched_exprs, sbg, bsbg>>

(* "only equality equations supported" *)
refuseEdges ==
  /\ stage = "addEdges"
  /\ isEquation(eq_sv) /\ model.eqs[eq_sv.info.of].kind # "Equality"
  /\ ERROR

-----------------------------------------------------------------------------
(* The maps of a set-edge, on the numbers its translation gives the elements *)

\* mutant: the translation of the set-edge is not taken back
createMap1Untranslated(se, eqv) == Affine(1, eqv.translation)

createMap1(se, eqv) == Affine(1, eqv.translation - se.translation)

(* AccessToSBGExpr: the subscript as an expression of the counter; no subscript is 1. *)
referenceToExpression(var, acc) ==
  IF var.size = 0 THEN Affine(0, 1) ELSE Affine(acc.a, acc.b)

(* Only the constant part takes the translation of the set-edge back. *)
createMap2(se, eq, v) ==
  LET expr   == referenceToExpression(model.vars[v.info.of], se.access)
      offset == v.translation - se.translation
      scalar == IsScalar(eq) \/ Cardinality(v.set) = 1
  IN  Affine(expr.m, expr.h + (IF scalar THEN offset + se.translation ELSE offset))

(* One occurrence: the new set-edge is looked up by its number to set its maps. *)
addSetEdgeOf(acc) ==
  LET g  == addSetEdge(sbg, sv.node_id, eq_sv.node_id, eq_sv.set, acc)
      at == setEdge(g, Last(g.set_edges).edge_id)
      se == g.set_edges[at]
  IN  [g EXCEPT !.set_edges[at] =
         [se EXCEPT !.map1 = createMap1(se, eq_sv),
                    !.map2 = createMap2(se, model.eqs[eq_sv.info.of], sv)]]

addOccurrence ==
  /\ stage = "addEdge"
  /\ \E acc \in matched_exprs :
       /\ sbg' = addSetEdgeOf(acc)
       /\ matched_exprs' = matched_exprs \ {acc}
  /\ UNCHANGED <<model, stage, turn, bsbg>>

edgeDone ==
  /\ stage = "addEdge"
  /\ matched_exprs = {}
  /\ Continue(Len(svs) * Len(svs), "addEdges", "generateSBGInput")
  /\ UNCHANGED <<model, matched_exprs, sbg, bsbg>>

-----------------------------------------------------------------------------
(* The program that is written, and evaluated by the library. *)
SetEdges == Range(sbg.set_edges)

generatePartition(equations) ==
  UNION {Vertices(v) : v \in {v \in Range(svs) : isEquation(v) = equations}}

generateMap(maps) ==
  [e \in UNION {translatedDomain(se) : se \in SetEdges} |->
     LET k == CHOOSE k \in DOMAIN maps : e \in translatedDomain(sbg.set_edges[k])
     IN  maps[k].m * e + maps[k].h]

generateSBGInput ==
  /\ stage = "generateSBGInput"
  /\ stage' = "done"
  /\ bsbg' = [X |-> generatePartition(TRUE), Y |-> generatePartition(FALSE),
              map1 |-> generateMap([k \in DOMAIN sbg.set_edges |-> sbg.set_edges[k].map1]),
              map2 |-> generateMap([k \in DOMAIN sbg.set_edges |-> sbg.set_edges[k].map2])]
  /\ UNCHANGED <<model, turn, matched_exprs, sbg>>

addVertices == addVariableNodes \/ addEquationNodes \/ refuseEquation

addEdges == addEdge \/ noEdge \/ refuseEdges \/ addOccurrence \/ edgeDone

InputStopped == stage \in {"done", "ERROR"}

InputNext ==
  \/ addVertices \/ addEdges \/ generateSBGInput
  \/ InputStopped /\ UNCHANGED ivars

(* The program is sequential: it goes on while it can. *)
InputSpec == InputInit /\ [][InputNext]_ivars /\ WF_ivars(InputNext)

-----------------------------------------------------------------------------
(***************************************************************************)
(* Numbers are given out once.  The offsets of addSetVertex and addSetEdge *)
(* keep the set-vertices apart from each other and the set-edges too,      *)
(* whatever the bounds of their counters, when these count from one on;    *)
(* and no two set-edges share the number by which they are looked up when  *)
(* their maps are set.                                                     *)
(***************************************************************************)
NumbersGivenOnce ==
  /\ \A u, v \in Range(svs) : u # v => Vertices(u) \cap Vertices(v) = {}
  /\ \A s, t \in SetEdges : s # t => translatedDomain(s) \cap translatedDomain(t) = {}
  /\ \A j, k \in DOMAIN sbg.set_edges :
       sbg.set_edges[j].edge_id = sbg.set_edges[k].edge_id => j = k

(* No loop gives an array of unknowns a subscript other than its counter and a number, and
   none reads an array of one element with a counter. *)
UnitSubscripts(m) ==
  \A k \in DOMAIN m.eqs : \A acc \in Accesses(m.eqs[k]) :
    LET var == m.vars[acc.var]
    IN  ~ IsScalar(m.eqs[k]) /\ isVariable(var) /\ Unknown(var, acc) /\ var.size # 0
          => acc.a = 1 /\ var.size > 1

(* No two arguments of a call are different elements of the same array of unknowns. *)
OneMatchPerTerm(m) ==
  \A k \in DOMAIN m.eqs : \A t \in DOMAIN m.eqs[k].terms :
    \A acc, other \in Range(m.eqs[k].terms[t]) :
      LET var == m.vars[acc.var]
      IN  isVariable(var) /\ other.var = acc.var /\ Unknown(var, acc) /\ Unknown(var, other) => other = acc

(* The graph that is written is one the causalization accepts. *)
BuildsSystem == stage = "done" => IsSystem(bsbg)

(* The unknowns that occur in each instance of an equation of the model *)
Occurrences ==
  UNION {{<<k, i, acc.var, Subscript(model.vars[acc.var], acc, i)>> :
            i \in Instances(model.eqs[k]),
            acc \in {acc \in Accesses(model.eqs[k]) :
                      isVariable(model.vars[acc.var]) /\ Unknown(model.vars[acc.var], acc)}} :
         k \in DOMAIN model.eqs}

(* The vertex of an instance of the k-th equation, or of an element of the k-th variable *)
NodeOf(k, equation, i) ==
  i + (CHOOSE v \in Range(svs) : isEquation(v) = equation /\ v.info.of = k).translation

(***************************************************************************)
(* "adds an edge between a variable and an equation if it is one of its    *)
(* unknowns": the pairs that the graph joins are those of the model.       *)
(***************************************************************************)
OccurrencesJoined ==
  stage = "done" =>
    {<<bsbg.map1[e], bsbg.map2[e]>> : e \in DOMAIN bsbg.map1}
      = {<<NodeOf(o[1], TRUE, o[2]), NodeOf(o[3], FALSE, o[4])>> : o \in Occurrences}

(***************************************************************************)
(* The model is translated to the end or refused, and it is refused only   *)
(* for an equation that cannot be translated.                              *)
(***************************************************************************)
Supported(m) ==
  \A k \in DOMAIN m.eqs : /\ m.eqs[k].kind = "Equality"
                          /\ IsScalar(m.eqs[k]) \/ Counter(m.eqs[k].range) # {}

AnswersTheModel ==
  <> IF Supported(model) THEN stage = "done" ELSE stage = "ERROR"
=============================================================================
