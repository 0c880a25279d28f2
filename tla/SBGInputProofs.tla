--------------------------- MODULE SBGInputProofs ---------------------------
(***************************************************************************)
(* GenerateSBGInput gives out every number once, and writes a graph that   *)
(* the causalization accepts and that joins the pairs the model joins, for *)
(* every set of models.                                                    *)
(***************************************************************************)
EXTENDS SBGInput, SBGraphLemmas

(* What a set-vertex or a set-edge may stand for: indices of arrays *)
Indices == {S \in SUBSET (Nat \ {0}) : S # {} /\ IsFiniteSet(S)}

(* What IsModel says of the models *)
Variable == [kind : {"state", "algebraic", "parameter"}, size : Nat]

AccessTo(m) == [var : DOMAIN m.vars, der : BOOLEAN, a : {-1, 0, 1}, b : Int]

EquationOf(m) == [kind : STRING, range : Seq(Int), terms : Seq(Seq(AccessTo(m)))]

LEMMA ModelFacts ==
  ASSUME model \in Models
  PROVE  /\ model.vars \in Seq(Variable) /\ Len(model.vars) > 0
         /\ model.eqs \in Seq(EquationOf(model)) /\ Len(model.eqs) > 0
         /\ \A k \in DOMAIN model.eqs : IsRange(model.eqs[k].range)
         /\ \A k \in DOMAIN model.eqs : \A acc \in Accesses(model.eqs[k]) :
              acc \in AccessTo(model) /\ IsAccess(model, model.eqs[k], acc)
<1>1. IsModel(model)
  BY ModelsAssumption
<1>2. /\ model.vars \in Seq(Variable) \ {<<>>}
      /\ model.eqs \in Seq(EquationOf(model)) \ {<<>>}
  BY <1>1 DEF IsModel, Variable, EquationOf, AccessTo
<1>3. Len(model.vars) > 0 /\ Len(model.eqs) > 0
  BY <1>2
<1>4. ASSUME NEW k \in DOMAIN model.eqs, NEW acc \in Accesses(model.eqs[k])
      PROVE  acc \in AccessTo(model)
  <2>1. model.eqs[k] \in EquationOf(model)
    BY <1>2
  <2>2. model.eqs[k].terms \in Seq(Seq(AccessTo(model)))
    BY <2>1 DEF EquationOf
  <2> QED
    BY <2>2 DEF Accesses, Range
<1> QED
  BY <1>1, <1>2, <1>3, <1>4 DEF IsModel

(* The sets addSetVertex is called with *)
LEMMA ElementsFacts ==
  ASSUME NEW var \in Variable
  PROVE  Elements(var) \in Indices
<1>1. IsFiniteSet(1..var.size)
  <2>1. var.size \in Int
    BY DEF Variable
  <2> QED
    BY <2>1, FS_Interval
<1>2. var.size # 0 => 1 \in 1..var.size
  BY DEF Variable
<1>3. IsFiniteSet({1})
  BY FS_Singleton
<1>4. var.size \in Nat
  BY DEF Variable
<1>5. CASE var.size = 0
  BY <1>3, <1>5 DEF Elements, Indices
<1>6. CASE var.size # 0
  BY <1>1, <1>2, <1>4, <1>6 DEF Elements, Indices
<1> QED
  BY <1>5, <1>6

LEMMA InstancesFacts ==
  ASSUME NEW eq \in EquationOf(model), IsRange(eq.range), Convertible(eq)
  PROVE  Instances(eq) \in Indices
<1>1. CASE IsScalar(eq)
  BY <1>1, FS_Singleton DEF Instances, Indices
<1>2. CASE ~ IsScalar(eq)
  <2> DEFINE r == eq.range
  <2>1. /\ r \in Seq(Int) /\ Len(r) = 3
        /\ r[1] \in Nat \ {0} /\ r[2] \in Nat \ {0} /\ r[3] \in Int /\ r[1] =< r[3]
    BY <1>2 DEF EquationOf, IsRange, Convertible, IsScalar
  <2>2. Counter(r) \subseteq r[1]..r[3]
    BY DEF Counter
  <2>3. IsFiniteSet(Counter(r))
    <3>1. IsFiniteSet(r[1]..r[3])
      <4>1. r[1] \in Int /\ r[3] \in Int
        BY <2>1
      <4> HIDE DEF r
      <4> QED
        BY <4>1, FS_Interval
    <3> QED
      BY <2>2, <3>1, FS_Subset
  <2>4. r[1] \in Counter(r)
    <3>1. (r[1] - r[1]) % r[2] = 0
      BY <2>1
    <3> QED
      BY <2>1, <3>1 DEF Counter
  <2>5. Counter(r) \subseteq Nat \ {0}
    BY <2>1 DEF Counter
  <2> QED
    BY <1>2, <2>3, <2>4, <2>5 DEF Instances, Indices
<1> QED
  BY <1>1, <1>2

(* The numbers after those of an offset *)
LEMMA TranslateFacts ==
  ASSUME NEW S \in Indices, NEW t \in Nat
  PROVE  /\ translate(S, t) \in Indices
         /\ \A x \in translate(S, t) : x > t
         /\ maxDimPerimetral(translate(S, t)) \in Nat
         /\ \A x \in translate(S, t) : x =< maxDimPerimetral(translate(S, t))
         /\ t < maxDimPerimetral(translate(S, t))
<1> DEFINE T == translate(S, t)
<1>1. S \subseteq Nat \ {0} /\ S # {} /\ IsFiniteSet(S)
  BY DEF Indices
<1>2. T \subseteq Nat \ {0} /\ T # {} /\ \A x \in T : x > t
  <2>1. \A y \in S : y + t \in Nat \ {0} /\ y + t > t
    BY <1>1
  <2>2. PICK y \in S : TRUE
    BY <1>1
  <2> QED
    BY <2>1, <2>2 DEF translate
<1>3. IsFiniteSet(T)
  <2> DEFINE f == [x \in S |-> x + t]
  <2>1. T = {f[x] : x \in S}
    BY DEF translate
  <2>2. f \in Surjection(S, T)
    BY <2>1 DEF Surjection
  <2> QED
    BY <1>1, <2>2, FS_Surjection
<1>4. T \cup {0} \in SUBSET Nat /\ IsFiniteSet(T \cup {0})
  BY <1>2, <1>3, FS_AddElement
<1>5. MaxElem(T \cup {0}) = maxDimPerimetral(T)
  BY DEF MaxElem, maxDimPerimetral
<1>6. maxDimPerimetral(T) \in Nat /\ \A x \in T : x =< maxDimPerimetral(T)
  BY <1>4, <1>5, LargestElement
<1>7. t < maxDimPerimetral(T)
  BY <1>2, <1>6
<1> QED
  BY <1>2, <1>3, <1>6, <1>7 DEF Indices

-----------------------------------------------------------------------------
(* The invariant *)
Info == [of : Nat] \cup [of : Nat, added : {<<>>}, sides : {<<>>}]

VertexRecord == [node_id : Nat, set : Indices, translation : Nat, name : {"var", "eq_"}, info : Info]

Map == [m : Int, h : Int]

EdgeRecord ==
  [edge_id : Nat, var_id : Nat, eq_id : Nat, domain : Indices, translation : Nat,
   access : AccessTo(model), map1 : Map, map2 : Map]

SBGRecord ==
  [set_vertices : Seq(VertexRecord), set_edges : Seq(EdgeRecord), vertex_offset : Nat, edge_offset : Nat]

(* A set-vertex stands for an equation or for a variable of the model. *)
StandsFor(v) ==
  IF isEquation(v)
  THEN /\ v.info.of \in DOMAIN model.eqs
       /\ v.set = Instances(model.eqs[v.info.of])
  ELSE /\ v.info.of \in DOMAIN model.vars /\ isVariable(model.vars[v.info.of])
       /\ v.set = Elements(model.vars[v.info.of])

(* The accesses that give an equation set-edges to a variable *)
Occurring(e, v) ==
  {acc \in Accesses(model.eqs[e.info.of]) :
     acc.var = v.info.of /\ Unknown(model.vars[v.info.of], acc)}

(* A set-edge joins one of the first kind with one of the second, which an access reads. *)
Joins(se, e, v) ==
  /\ isEquation(e) /\ ~ isEquation(v)
  /\ se.domain = e.set
  /\ se.access \in Occurring(e, v)
  /\ se.map1 = createMap1(se, e)
  /\ se.map2 = createMap2(se, model.eqs[e.info.of], v)

(* The numbers of a set-vertex are above those of the ones before, and none is above the
   offset. *)
VerticesApart ==
  /\ \A k \in DOMAIN svs : \A x \in Vertices(svs[k]) : x =< sbg.vertex_offset
  /\ \A j, k \in DOMAIN svs : j < k =>
       \A x \in Vertices(svs[j]), y \in Vertices(svs[k]) : x < y

EdgesApart ==
  LET ses == sbg.set_edges
  IN  /\ \A k \in DOMAIN ses : \A x \in translatedDomain(ses[k]) : x =< sbg.edge_offset
      /\ \A j, k \in DOMAIN ses : j < k =>
           \A x \in translatedDomain(ses[j]), y \in translatedDomain(ses[k]) : x < y
      /\ \A k \in DOMAIN ses : ses[k].edge_id = k - 1

VerticesStand == \A k \in DOMAIN svs : StandsFor(svs[k])

EdgesJoin == \A k \in DOMAIN sbg.set_edges : \E e, v \in Range(svs) : Joins(sbg.set_edges[k], e, v)

Stages == {"addVariableNodes", "addEquationNodes", "addEdges", "addEdge",
           "generateSBGInput", "done", "ERROR"}

TurnOK ==
  /\ stage \in Stages /\ turn \in Nat \ {0}
  /\ stage = "addVariableNodes" => turn \in DOMAIN model.vars
  /\ stage = "addEquationNodes" => turn \in DOMAIN model.eqs
  /\ stage \in {"addEdges", "addEdge"} => Len(svs) > 0 /\ turn =< Len(svs) * Len(svs)

PairOK ==
  stage = "addEdge" =>
    /\ isEquation(eq_sv) /\ ~ isEquation(sv)
    /\ matched_exprs \subseteq Occurring(eq_sv, sv)

InputInv ==
  /\ model \in Models
  /\ TurnOK
  /\ sbg \in SBGRecord
  /\ VerticesStand
  /\ VerticesApart
  /\ EdgesApart
  /\ PairOK
  /\ EdgesJoin

LEMMA InputStart == InputInit => InputInv
<1> SUFFICES ASSUME InputInit PROVE InputInv
  OBVIOUS
<1>1. sbg = [set_vertices |-> <<>>, set_edges |-> <<>>, vertex_offset |-> 0, edge_offset |-> 0]
  BY DEF InputInit, NewModelicaSBG
<1>2. sbg \in SBGRecord
  BY <1>1 DEF SBGRecord
<1>3. TurnOK /\ PairOK
  <2>1. model.vars \in Seq(Variable) /\ Len(model.vars) > 0
    BY ModelFacts DEF InputInit
  <2> QED
    BY <2>1 DEF TurnOK, PairOK, Stages, InputInit
<1> QED
  BY <1>1, <1>2, <1>3 DEF InputInv, InputInit, VerticesApart, EdgesApart, VerticesStand, EdgesJoin, svs

-----------------------------------------------------------------------------
(* What is said of a set-vertex or a set-edge depends on the model only. *)
LEMMA MeaningStays ==
  ASSUME model' = model
  PROVE  /\ SBGRecord' = SBGRecord
         /\ \A v : StandsFor(v) <=> StandsFor(v)'
         /\ \A se, e, v : Joins(se, e, v) <=> Joins(se, e, v)'
<1>1. SBGRecord' = SBGRecord
  BY DEF SBGRecord, EdgeRecord, AccessTo
<1>2. \A v : StandsFor(v) <=> StandsFor(v)'
  BY DEF StandsFor, isEquation, isVariable, Instances, Elements
<1>3. \A se, e, v : Joins(se, e, v) <=> Joins(se, e, v)'
  BY DEF Joins, Occurring, createMap1, createMap2, referenceToExpression, Affine
<1> QED
  BY <1>1, <1>2, <1>3

LEMMA GraphStays ==
  ASSUME InputInv, model' = model, sbg' = sbg
  PROVE  /\ (model \in Models)' /\ (sbg \in SBGRecord)' /\ VerticesApart' /\ EdgesApart'
         /\ VerticesStand' /\ EdgesJoin'
<1>1. svs' = svs
  BY DEF svs
<1>2. VerticesApart' /\ EdgesApart'
  BY <1>1 DEF InputInv, VerticesApart, EdgesApart, Vertices, translatedDomain
<1>3. VerticesStand' /\ EdgesJoin'
  BY <1>1, MeaningStays DEF InputInv, VerticesStand, EdgesJoin
<1> QED
  BY <1>2, <1>3, MeaningStays DEF InputInv

(* addVariableNodes and addEquationNodes: a set-vertex more, above all others *)
LEMMA VertexAdded ==
  ASSUME InputInv, NEW S \in Indices, NEW name \in {"var", "eq_"}, NEW info \in Info,
         sbg' = addSetVertex(sbg, S, name, info), model' = model
  PROVE  /\ sbg' \in SBGRecord /\ VerticesApart' /\ EdgesApart'
         /\ sbg'.set_edges = sbg.set_edges
         /\ Len(svs') = Len(svs) + 1
         /\ \A k \in DOMAIN svs : svs'[k] = svs[k]
         /\ LET v == svs'[Len(svs')] IN v.set = S /\ v.name = name /\ v.info = info
<1> DEFINE v == SetVertex(Len(svs) + 1, S, sbg.vertex_offset, name, info)
           n == Len(svs) + 1
<1>1. sbg \in SBGRecord /\ VerticesApart /\ EdgesApart
  BY DEF InputInv
<1>2. /\ svs \in Seq(VertexRecord) /\ sbg.vertex_offset \in Nat
      /\ sbg.set_edges \in Seq(EdgeRecord) /\ sbg.edge_offset \in Nat
  BY <1>1 DEF SBGRecord, svs
<1>3. v \in VertexRecord
  BY <1>2 DEF VertexRecord, SetVertex
<1>4. /\ Vertices(v) = translate(S, sbg.vertex_offset)
      /\ v.set = S /\ v.name = name /\ v.info = info
  BY DEF Vertices, SetVertex
<1>5. sbg' = [sbg EXCEPT !.set_vertices = Append(svs, v), !.vertex_offset = maxDimPerimetral(Vertices(v))]
  BY DEF addSetVertex, svs
<1>6. /\ svs' = Append(svs, v) /\ sbg'.vertex_offset = maxDimPerimetral(Vertices(v))
      /\ sbg'.set_edges = sbg.set_edges /\ sbg'.edge_offset = sbg.edge_offset
  BY <1>1, <1>5 DEF SBGRecord, svs
<1>7. /\ maxDimPerimetral(Vertices(v)) \in Nat
      /\ \A x \in Vertices(v) : x > sbg.vertex_offset /\ x =< maxDimPerimetral(Vertices(v))
      /\ sbg.vertex_offset < maxDimPerimetral(Vertices(v))
      /\ Vertices(v) \subseteq Nat
  BY <1>2, <1>4, TranslateFacts DEF Indices
<1> HIDE DEF v
<1>8. /\ Len(svs') = n /\ svs'[n] = v /\ DOMAIN svs' = 1..n
      /\ \A k \in DOMAIN svs : k \in 1..(n - 1) /\ svs'[k] = svs[k]
      /\ \A k \in DOMAIN svs' : k # n => k \in DOMAIN svs
  BY <1>2, <1>3, <1>6
<1>9. sbg' \in SBGRecord
  <2>1. Append(svs, v) \in Seq(VertexRecord)
    BY <1>2, <1>3
  <2> QED
    BY <1>1, <1>5, <1>7, <2>1 DEF SBGRecord
<1>10. \A k \in DOMAIN svs : Vertices(svs[k]) \subseteq Nat
  <2> SUFFICES ASSUME NEW k \in DOMAIN svs PROVE Vertices(svs[k]) \subseteq Nat
    OBVIOUS
  <2>1. svs[k] \in VertexRecord
    BY <1>2
  <2>2. svs[k].set \in Indices /\ svs[k].translation \in Nat
    BY <2>1 DEF VertexRecord
  <2> QED
    BY <2>2 DEF Vertices, translate, Indices
<1>11. VerticesApart'
  <2>1. ASSUME NEW k \in DOMAIN svs', NEW x \in Vertices(svs'[k]) PROVE x =< sbg'.vertex_offset
    BY <1>1, <1>2, <1>6, <1>7, <1>8, <1>10, <2>1 DEF VerticesApart
  <2>2. ASSUME NEW j \in DOMAIN svs', NEW k \in DOMAIN svs', j < k,
               NEW x \in Vertices(svs'[j]), NEW y \in Vertices(svs'[k])
        PROVE  x < y
    <3>1. j \in DOMAIN svs /\ svs'[j] = svs[j]
      BY <1>8, <2>2
    <3>2. x \in Nat /\ x =< sbg.vertex_offset
      BY <1>1, <1>10, <3>1 DEF VerticesApart
    <3>3. CASE k = n
      BY <1>2, <1>7, <1>8, <3>2, <3>3
    <3>4. CASE k # n
      BY <1>1, <1>8, <2>2, <3>1, <3>4 DEF VerticesApart
    <3> QED
      BY <3>3, <3>4
  <2> QED
    BY <2>1, <2>2 DEF VerticesApart, Vertices
<1>12. EdgesApart'
  BY <1>1, <1>6 DEF EdgesApart
<1> QED
  BY <1>4, <1>6, <1>8, <1>9, <1>11, <1>12

(* What the set-vertices and the set-edges say of the model stays when there is one more. *)
LEMMA VertexStays ==
  ASSUME InputInv, model' = model, sbg'.set_edges = sbg.set_edges,
         svs' \in Seq(VertexRecord), Len(svs') = Len(svs) + 1,
         \A k \in DOMAIN svs : svs'[k] = svs[k], StandsFor(svs'[Len(svs')])
  PROVE  VerticesStand' /\ EdgesJoin'
<1>1. svs \in Seq(VertexRecord)
  BY DEF InputInv, SBGRecord, svs
<1>2. Range(svs) \subseteq Range(svs')
  BY <1>1 DEF Range
<1>3. ASSUME NEW k \in DOMAIN svs' PROVE k \in DOMAIN svs \/ k = Len(svs')
  BY <1>1
<1>4. \A v : StandsFor(v) => StandsFor(v)'
  BY MeaningStays
<1>5. \A k \in DOMAIN svs' : StandsFor(svs'[k])
  BY <1>3 DEF InputInv, VerticesStand
<1>6. VerticesStand'
  BY <1>4, <1>5 DEF VerticesStand
<1>7. \A se, e, v : Joins(se, e, v) => Joins(se, e, v)'
  BY MeaningStays
<1>8. EdgesJoin'
  BY <1>2, <1>7 DEF InputInv, EdgesJoin
<1> QED
  BY <1>6, <1>8

LEMMA VariableStep == InputInv /\ addVariableNodes => InputInv'
<1> SUFFICES ASSUME InputInv, addVariableNodes PROVE InputInv'
  OBVIOUS
<1> DEFINE var == model.vars[turn]
<1>1. /\ model \in Models /\ sbg \in SBGRecord /\ turn \in DOMAIN model.vars /\ turn \in Nat
      /\ model' = model /\ stage = "addVariableNodes"
  BY DEF InputInv, TurnOK, addVariableNodes
<1>2. /\ model.vars \in Seq(Variable) /\ model.eqs \in Seq(EquationOf(model))
      /\ Len(model.eqs) > 0
  BY <1>1, ModelFacts
<1>3. stage' \in {"addVariableNodes", "addEquationNodes"} /\ TurnOK'
  <2>1. \/ turn < Len(model.vars) /\ turn' = turn + 1 /\ stage' = "addVariableNodes"
        \/ turn = Len(model.vars) /\ turn' = 1 /\ stage' = "addEquationNodes"
    BY DEF addVariableNodes, Continue
  <2>2. 1 \in DOMAIN model.eqs
    BY <1>2
  <2>3. turn < Len(model.vars) => turn + 1 \in DOMAIN model.vars
    BY <1>1, <1>2
  <2> QED
    BY <1>1, <2>1, <2>2, <2>3 DEF TurnOK, Stages
<1>4. PairOK'
  BY <1>3 DEF PairOK
<1>5. CASE ~ isVariable(var)
  <2>1. sbg' = sbg
    BY <1>5 DEF addVariableNodes
  <2> QED
    BY <1>1, <1>3, <1>4, <2>1, GraphStays DEF InputInv
<1>6. CASE isVariable(var)
  <2>1. sbg' = addSetVertex(sbg, Elements(var), "var", [of |-> turn])
    BY <1>6 DEF addVariableNodes
  <2>2. Elements(var) \in Indices /\ [of |-> turn] \in Info
    BY <1>1, <1>2, ElementsFacts DEF Info
  <2>3. /\ sbg' \in SBGRecord /\ VerticesApart' /\ EdgesApart'
        /\ sbg'.set_edges = sbg.set_edges
        /\ Len(svs') = Len(svs) + 1
        /\ \A k \in DOMAIN svs : svs'[k] = svs[k]
        /\ LET v == svs'[Len(svs')] IN v.set = Elements(var) /\ v.name = "var" /\ v.info = [of |-> turn]
    BY <1>1, <2>1, <2>2, VertexAdded
  <2>4. svs \in Seq(VertexRecord) /\ svs' \in Seq(VertexRecord)
    BY <1>1, <2>3 DEF SBGRecord, svs
  <2>5. StandsFor(svs'[Len(svs')])
    BY <1>1, <1>6, <2>3 DEF StandsFor, isEquation
  <2>6. VerticesStand' /\ EdgesJoin'
    BY <1>1, <2>3, <2>4, <2>5, VertexStays
  <2> QED
    BY <1>1, <1>3, <1>4, <2>3, <2>6, MeaningStays DEF InputInv
<1> QED
  BY <1>5, <1>6

LEMMA EquationStep == InputInv /\ addEquationNodes => InputInv'
<1> SUFFICES ASSUME InputInv, addEquationNodes PROVE InputInv'
  OBVIOUS
<1> DEFINE eq == model.eqs[turn]
<1>1. /\ model \in Models /\ sbg \in SBGRecord /\ turn \in DOMAIN model.eqs /\ turn \in Nat
      /\ model' = model /\ stage = "addEquationNodes" /\ Convertible(eq)
  BY DEF InputInv, TurnOK, addEquationNodes
<1>2. /\ model.eqs \in Seq(EquationOf(model)) /\ IsRange(eq.range)
  BY <1>1, ModelFacts
<1>3. sbg' = addSetVertex(sbg, Instances(eq), "eq_", EquationInfo(turn))
  BY DEF addEquationNodes
<1>4. Instances(eq) \in Indices /\ EquationInfo(turn) \in Info
  <2>1. eq \in EquationOf(model)
    BY <1>1, <1>2
  <2> QED
    BY <1>1, <1>2, <2>1, InstancesFacts DEF Info, EquationInfo
<1>5. /\ sbg' \in SBGRecord /\ VerticesApart' /\ EdgesApart'
      /\ sbg'.set_edges = sbg.set_edges
      /\ Len(svs') = Len(svs) + 1
      /\ \A k \in DOMAIN svs : svs'[k] = svs[k]
      /\ LET v == svs'[Len(svs')] IN v.set = Instances(eq) /\ v.name = "eq_" /\ v.info = EquationInfo(turn)
  BY <1>1, <1>3, <1>4, VertexAdded
<1>6. svs \in Seq(VertexRecord) /\ svs' \in Seq(VertexRecord)
  BY <1>1, <1>5 DEF SBGRecord, svs
<1>7. Len(svs') >= Len(svs) /\ Len(svs') > 0
  BY <1>5, <1>6
<1>8. stage' \in {"addEquationNodes", "addEdges"} /\ TurnOK'
  <2>1. \/ turn < Len(model.eqs) /\ turn' = turn + 1 /\ stage' = "addEquationNodes"
        \/ turn = Len(model.eqs) /\ turn' = 1 /\ stage' = "addEdges"
    BY DEF addEquationNodes, Continue
  <2>2. turn < Len(model.eqs) => turn + 1 \in DOMAIN model.eqs
    BY <1>1, <1>2
  <2>3. 1 =< Len(svs') * Len(svs')
    <3>1. Len(svs') \in Nat \ {0}
      BY <1>6, <1>7
    <3> HIDE DEF svs
    <3> QED
      BY <3>1
  <2> QED
    BY <1>1, <1>7, <2>1, <2>2, <2>3 DEF TurnOK, Stages
<1>9. PairOK'
  BY <1>8 DEF PairOK
<1>10. VerticesStand' /\ EdgesJoin'
  <2>1. StandsFor(svs'[Len(svs')])
    BY <1>1, <1>5 DEF StandsFor, isEquation, EquationInfo
  <2> QED
    BY <1>1, <1>5, <1>6, <2>1, VertexStays
<1> QED
  BY <1>1, <1>5, <1>8, <1>9, <1>10, MeaningStays DEF InputInv

-----------------------------------------------------------------------------
(* addEdges: the pair of a turn *)
LEMMA PairFacts ==
  ASSUME InputInv, stage \in {"addEdges", "addEdge"}
  PROVE  /\ eq_sv \in Range(svs) /\ sv \in Range(svs)
         /\ eq_sv \in VertexRecord /\ sv \in VertexRecord
         /\ StandsFor(eq_sv) /\ StandsFor(sv)
<1> DEFINE n == Len(svs)
<1>1. /\ svs \in Seq(VertexRecord) /\ n \in Nat \ {0}
      /\ turn \in Nat \ {0} /\ turn =< n * n
  BY DEF InputInv, TurnOK, SBGRecord, svs
<1>2. /\ (turn - 1) \div n \in 0..(n - 1)
      /\ (turn - 1) % n \in 0..(n - 1)
  <2> HIDE DEF n
  <2> QED
    BY <1>1
<1>3. /\ 1 + ((turn - 1) \div n) \in DOMAIN svs
      /\ 1 + ((turn - 1) % n) \in DOMAIN svs
  BY <1>1, <1>2
<1>4. eq_sv = svs[1 + ((turn - 1) \div n)] /\ sv = svs[1 + ((turn - 1) % n)]
  BY DEF eq_sv, sv
<1> QED
  BY <1>1, <1>3, <1>4 DEF InputInv, VerticesStand, Range

(* The next pair, or generateSBGInput *)
LEMMA NextPair ==
  ASSUME InputInv, stage \in {"addEdges", "addEdge"}, sbg' = sbg,
         Continue(Len(svs) * Len(svs), "addEdges", "generateSBGInput")
  PROVE  TurnOK' /\ PairOK'
<1>1. svs \in Seq(VertexRecord) /\ Len(svs) \in Nat /\ Len(svs) > 0 /\ svs' = svs /\ turn \in Nat \ {0}
  BY DEF InputInv, TurnOK, SBGRecord, svs
<1>2. Len(svs) * Len(svs) \in Nat
  <2> HIDE DEF svs
  <2> QED
    BY <1>1
<1>3. \/ stage' = "addEdges" /\ turn' \in Nat \ {0} /\ turn' =< Len(svs) * Len(svs)
      \/ stage' = "generateSBGInput" /\ turn' = 1
  <2> DEFINE n == Len(svs) * Len(svs)
  <2>1. \/ turn < n /\ turn' = turn + 1 /\ stage' = "addEdges"
        \/ turn = n /\ turn' = 1 /\ stage' = "generateSBGInput"
    BY DEF Continue
  <2> HIDE DEF n
  <2>2. n \in Nat
    BY <1>2 DEF n
  <2>3. \/ stage' = "addEdges" /\ turn' \in Nat \ {0} /\ turn' =< n
        \/ stage' = "generateSBGInput" /\ turn' = 1
    BY <1>1, <2>1, <2>2
  <2> QED
    BY <2>3 DEF n
<1> QED
  BY <1>1, <1>3 DEF TurnOK, PairOK, Stages

(* The accesses that matchedExps finds *)
LEMMA MatchedFacts ==
  ASSUME NEW eq, NEW v, \A k \in DOMAIN eq.terms : eq.terms[k] \in Seq(AccessTo(model))
  PROVE  matchedExps(eq, v) \subseteq {acc \in Accesses(eq) : acc.var = v /\ Unknown(model.vars[v], acc)}
<1> DEFINE matches(acc) == acc.var = v /\ Unknown(model.vars[v], acc)
           found(t) == {i \in 1..Len(t) : matches(t[i])}
           first(t) == SelectInSeq(t, matches)
<1>1. ASSUME NEW k \in DOMAIN eq.terms, first(eq.terms[k]) # 0
      PROVE  /\ eq.terms[k][first(eq.terms[k])] \in Accesses(eq)
             /\ matches(eq.terms[k][first(eq.terms[k])])
  <2> DEFINE t == eq.terms[k]
  <2>1. t \in Seq(AccessTo(model))
    OBVIOUS
  <2>2. first(t) = IF found(t) # {} THEN Min(found(t)) ELSE 0
    BY DEF SelectInSeq
  <2>3. first(t) \in found(t)
    <3>1. found(t) # {} /\ found(t) \in SUBSET Nat
      BY <1>1, <2>1, <2>2
    <3> QED
      BY <2>2, <3>1, LeastElement
  <2> HIDE DEF first
  <2> QED
    BY <2>1, <2>3 DEF Accesses, Range
<1> QED
  BY <1>1 DEF matchedExps

LEMMA PairStep == InputInv /\ addEdge => InputInv'
<1> SUFFICES ASSUME InputInv, addEdge PROVE InputInv'
  OBVIOUS
<1> DEFINE eq == model.eqs[eq_sv.info.of]
<1>1. /\ stage = "addEdges" /\ stage' = "addEdge"
      /\ isEquation(eq_sv) /\ ~ isEquation(sv)
      /\ matched_exprs' = matchedExps(eq, sv.info.of)
      /\ turn' = turn /\ model' = model /\ sbg' = sbg
  BY DEF addEdge
<1>2. model \in Models /\ eq_sv.info.of \in DOMAIN model.eqs
  BY <1>1, PairFacts DEF InputInv, StandsFor
<1>3. eq \in EquationOf(model)
  BY <1>2, ModelFacts
<1>4. matched_exprs' \subseteq Occurring(eq_sv, sv)
  <2>1. \A k \in DOMAIN eq.terms : eq.terms[k] \in Seq(AccessTo(model))
    BY <1>3 DEF EquationOf
  <2> QED
    BY <1>1, <2>1, MatchedFacts DEF Occurring
<1>5. svs' = svs /\ eq_sv' = eq_sv /\ sv' = sv
  BY <1>1 DEF svs, eq_sv, sv
<1>6. PairOK'
  BY <1>1, <1>4, <1>5 DEF PairOK, isEquation, Occurring
<1>7. TurnOK'
  BY <1>1, <1>5 DEF InputInv, TurnOK, Stages
<1> QED
  BY <1>1, <1>6, <1>7, GraphStays DEF InputInv

LEMMA PassStep == InputInv /\ (noEdge \/ edgeDone) => InputInv'
<1> SUFFICES ASSUME InputInv, noEdge \/ edgeDone PROVE InputInv'
  OBVIOUS
<1>1. /\ stage \in {"addEdges", "addEdge"} /\ model' = model /\ sbg' = sbg
      /\ Continue(Len(svs) * Len(svs), "addEdges", "generateSBGInput")
  BY DEF noEdge, edgeDone
<1> QED
  BY <1>1, NextPair, GraphStays DEF InputInv

LEMMA EndStep ==
  InputInv /\ (refuseEquation \/ refuseEdges \/ generateSBGInput \/ UNCHANGED ivars) => InputInv'
<1> SUFFICES ASSUME InputInv, refuseEquation \/ refuseEdges \/ generateSBGInput \/ UNCHANGED ivars
             PROVE  InputInv'
  OBVIOUS
<1>1. /\ model' = model /\ sbg' = sbg /\ turn' = turn
      /\ (stage' \in {"ERROR", "done"} \/ (stage' = stage /\ matched_exprs' = matched_exprs))
  BY DEF refuseEquation, refuseEdges, ERROR, generateSBGInput, ivars
<1>2. svs' = svs /\ eq_sv' = eq_sv /\ sv' = sv
  BY <1>1 DEF svs, eq_sv, sv
<1>3. TurnOK' /\ PairOK'
  BY <1>1, <1>2 DEF InputInv, TurnOK, Stages, PairOK, isEquation, Occurring
<1> QED
  BY <1>1, <1>3, GraphStays DEF InputInv

(* addSetEdge numbers set-edges so that the look-up finds the one that was added. *)
LEMMA LastFound ==
  ASSUME NEW g, g.set_edges \in Seq(EdgeRecord), Len(g.set_edges) > 0,
         \A k \in DOMAIN g.set_edges : g.set_edges[k].edge_id = k - 1
  PROVE  setEdge(g, Last(g.set_edges).edge_id) = Len(g.set_edges)
<1> DEFINE n     == Len(g.set_edges)
           id    == g.set_edges[n].edge_id
           found == {k \in 1..n : g.set_edges[k].edge_id = id}
<1>1. n \in Nat \ {0} /\ n \in DOMAIN g.set_edges /\ DOMAIN g.set_edges = 1..n
  OBVIOUS
<1>2. setEdge(g, id) = IF found # {} THEN Min(found) ELSE 0
  BY DEF setEdge, SelectInSeq
<1>3. found = {n}
  BY <1>1
<1>4. Min(found) = n
  BY <1>1, <1>3 DEF Min
<1> QED
  BY <1>2, <1>3, <1>4 DEF Last

(* A sequence whose last element is added and then replaced *)
LEMMA LastReplaced ==
  ASSUME NEW S, NEW s \in Seq(S), NEW x \in S, NEW y \in S, NEW t,
         t = [Append(s, x) EXCEPT ![Len(s) + 1] = y]
  PROVE  /\ t \in Seq(S) /\ Len(t) = Len(s) + 1 /\ t[Len(s) + 1] = y
         /\ DOMAIN t = 1..(Len(s) + 1)
         /\ \A k \in DOMAIN s : k \in 1..(Len(s) + 1 - 1) /\ t[k] = s[k]
         /\ \A k \in 1..(Len(s) + 1) : k # Len(s) + 1 => k \in DOMAIN s
<1> DEFINE a == Append(s, x)
<1>1. /\ a \in Seq(S) /\ Len(a) = Len(s) + 1 /\ Len(s) \in Nat
      /\ DOMAIN a = 1..(Len(s) + 1) /\ DOMAIN s = 1..Len(s)
      /\ \A k \in DOMAIN s : a[k] = s[k]
  OBVIOUS
<1> HIDE DEF a
<1>2. DOMAIN t = 1..(Len(s) + 1) /\ t[Len(s) + 1] = y
  BY <1>1 DEF a
<1>3. ASSUME NEW k \in DOMAIN s PROVE k \in 1..(Len(s) + 1 - 1) /\ t[k] = s[k]
  <2>1. k \in 1..Len(s) /\ k \in DOMAIN a /\ k # Len(s) + 1
    BY <1>1
  <2>2. t[k] = a[k]
    BY <2>1 DEF a
  <2> QED
    BY <1>1, <2>1, <2>2
<1>4. t \in Seq(S) /\ Len(t) = Len(s) + 1
  BY <1>1 DEF a
<1> QED
  BY <1>1, <1>2, <1>3, <1>4

(* addOccurrence: a set-edge more, that joins the pair of the turn *)
LEMMA EdgeAdded ==
  ASSUME InputInv, stage = "addEdge", NEW acc \in matched_exprs, sbg' = addSetEdgeOf(acc)
  PROVE  LET ses == sbg.set_edges
             n   == Len(ses) + 1
         IN  \E final \in EdgeRecord :
               /\ final.translation = sbg.edge_offset /\ final.domain = eq_sv.set
               /\ final.edge_id = n - 1 /\ final.access = acc
               /\ Joins(final, eq_sv, sv)
               /\ sbg' = [sbg EXCEPT !.set_edges = sbg'.set_edges, !.edge_offset = sbg'.edge_offset]
               /\ sbg'.edge_offset = maxDimPerimetral(translatedDomain(final))
               /\ sbg'.set_edges \in Seq(EdgeRecord) /\ DOMAIN sbg'.set_edges = 1..n
               /\ sbg'.set_edges[n] = final
               /\ \A k \in 1..n : k # n => k \in DOMAIN ses /\ sbg'.set_edges[k] = ses[k]
<1> DEFINE ses == sbg.set_edges
           n   == Len(ses) + 1
           eq  == model.eqs[eq_sv.info.of]
<1>1. sbg \in SBGRecord /\ VerticesApart /\ EdgesApart /\ model \in Models
  BY DEF InputInv
<1>2. /\ svs \in Seq(VertexRecord) /\ ses \in Seq(EdgeRecord)
      /\ sbg.vertex_offset \in Nat /\ sbg.edge_offset \in Nat
  BY <1>1 DEF SBGRecord, svs
<1>3. /\ eq_sv \in Range(svs) /\ sv \in Range(svs)
      /\ eq_sv \in VertexRecord /\ sv \in VertexRecord
      /\ StandsFor(eq_sv) /\ StandsFor(sv)
      /\ isEquation(eq_sv) /\ ~ isEquation(sv)
      /\ acc \in Occurring(eq_sv, sv) /\ acc \in Accesses(eq)
  BY PairFacts DEF InputInv, PairOK, Occurring
<1>4. acc \in AccessTo(model)
  BY <1>1, <1>3, ModelFacts DEF StandsFor
<1> DEFINE new   == SetEdge(Len(ses), sv.node_id, eq_sv.node_id, eq_sv.set, sbg.edge_offset, acc)
           g     == addSetEdge(sbg, sv.node_id, eq_sv.node_id, eq_sv.set, acc)
           final == [new EXCEPT !.map1 = createMap1(new, eq_sv), !.map2 = createMap2(new, eq, sv)]
<1>5. new \in EdgeRecord
  BY <1>2, <1>3, <1>4 DEF EdgeRecord, VertexRecord, SetEdge, Affine, Map
<1>6. /\ g = [sbg EXCEPT !.set_edges = Append(ses, new), !.edge_offset = maxDimPerimetral(translatedDomain(new))]
      /\ g.set_edges = Append(ses, new) /\ g.set_edges \in Seq(EdgeRecord)
      /\ Len(g.set_edges) = n /\ g.set_edges[n] = new
      /\ \A k \in DOMAIN ses : g.set_edges[k] = ses[k]
  <2>1. g = [sbg EXCEPT !.set_edges = Append(ses, new), !.edge_offset = maxDimPerimetral(translatedDomain(new))]
    BY DEF addSetEdge
  <2>2. g.set_edges = Append(ses, new)
    BY <1>1, <2>1 DEF SBGRecord
  <2> HIDE DEF new, g
  <2> QED
    BY <1>2, <1>5, <2>1, <2>2
<1>7. setEdge(g, Last(g.set_edges).edge_id) = n
  <2>1. \A k \in DOMAIN ses : ses[k].edge_id = k - 1
    BY <1>1 DEF EdgesApart
  <2>2. new.edge_id = n - 1
    BY <1>2 DEF SetEdge
  <2> HIDE DEF new, g
  <2>3. \A k \in DOMAIN g.set_edges : g.set_edges[k].edge_id = k - 1
    BY <1>2, <1>6, <2>1, <2>2
  <2>4. g.set_edges \in Seq(EdgeRecord) /\ Len(g.set_edges) = n /\ n > 0
    BY <1>2, <1>6
  <2>5. Len(g.set_edges) > 0
    BY <2>4
  <2>6. setEdge(g, Last(g.set_edges).edge_id) = Len(g.set_edges)
    BY <2>3, <2>4, <2>5, LastFound
  <2> QED
    BY <2>4, <2>6
<1>8. sbg' = [g EXCEPT !.set_edges[n] = final]
  BY <1>6, <1>7 DEF addSetEdgeOf
<1>9. final \in EdgeRecord
  <2>1. createMap1(new, eq_sv) \in Map
    BY <1>3, <1>5 DEF createMap1, Affine, Map, EdgeRecord, VertexRecord
  <2>2. createMap2(new, eq, sv) \in Map
    BY <1>3, <1>5 DEF createMap2, referenceToExpression, Affine, Map, EdgeRecord, VertexRecord, AccessTo
  <2> HIDE DEF new
  <2> QED
    BY <1>5, <2>1, <2>2 DEF EdgeRecord
<1>10. /\ final.translation = sbg.edge_offset /\ final.domain = eq_sv.set
       /\ final.edge_id = n - 1 /\ final.access = acc
       /\ translatedDomain(new) = translatedDomain(final)
       /\ final.map1 = createMap1(final, eq_sv) /\ final.map2 = createMap2(final, eq, sv)
  BY <1>2 DEF SetEdge, translatedDomain, createMap1, createMap2
<1> HIDE DEF new, final
<1>11. /\ sbg'.set_vertices = sbg.set_vertices /\ sbg'.vertex_offset = sbg.vertex_offset
       /\ sbg'.edge_offset = maxDimPerimetral(translatedDomain(final))
       /\ sbg'.set_edges = [Append(ses, new) EXCEPT ![n] = final]
  BY <1>1, <1>6, <1>8, <1>10 DEF SBGRecord
<1>12. /\ sbg'.set_edges \in Seq(EdgeRecord) /\ Len(sbg'.set_edges) = n /\ sbg'.set_edges[n] = final
       /\ DOMAIN sbg'.set_edges = 1..n
       /\ \A k \in DOMAIN ses : k \in 1..(n - 1) /\ sbg'.set_edges[k] = ses[k]
       /\ \A k \in 1..n : k # n => k \in DOMAIN ses
  <2>1. sbg'.set_edges = [Append(ses, new) EXCEPT ![Len(ses) + 1] = final]
    BY <1>11
  <2> HIDE DEF ses
  <2> QED
    BY <1>2, <1>5, <1>9, <2>1, LastReplaced
<1>13. sbg' = [sbg EXCEPT !.set_edges = sbg'.set_edges, !.edge_offset = sbg'.edge_offset]
  BY <1>1, <1>6, <1>8, <1>11 DEF SBGRecord
<1>14. Joins(final, eq_sv, sv)
  BY <1>3, <1>10 DEF Joins
<1> QED
  BY <1>9, <1>10, <1>11, <1>12, <1>13, <1>14

(* It is above all others. *)
LEMMA OccurrenceStep == InputInv /\ addOccurrence => InputInv'
<1> SUFFICES ASSUME InputInv, addOccurrence PROVE InputInv'
  OBVIOUS
<1> DEFINE ses == sbg.set_edges
           n   == Len(ses) + 1
<1>1. PICK acc \in matched_exprs :
        sbg' = addSetEdgeOf(acc) /\ matched_exprs' = matched_exprs \ {acc}
  BY DEF addOccurrence
<1>2. /\ stage = "addEdge" /\ stage' = stage /\ turn' = turn /\ model' = model
      /\ sbg \in SBGRecord /\ VerticesApart /\ EdgesApart /\ model \in Models
  BY DEF addOccurrence, InputInv
<1>3. /\ svs \in Seq(VertexRecord) /\ ses \in Seq(EdgeRecord)
      /\ sbg.vertex_offset \in Nat /\ sbg.edge_offset \in Nat
  BY <1>2 DEF SBGRecord, svs
<1>4. eq_sv \in Range(svs) /\ sv \in Range(svs) /\ eq_sv \in VertexRecord
  BY <1>2, PairFacts
<1>5. PICK final \in EdgeRecord :
         /\ final.translation = sbg.edge_offset /\ final.domain = eq_sv.set
         /\ final.edge_id = n - 1 /\ final.access = acc
         /\ Joins(final, eq_sv, sv)
         /\ sbg' = [sbg EXCEPT !.set_edges = sbg'.set_edges, !.edge_offset = sbg'.edge_offset]
         /\ sbg'.edge_offset = maxDimPerimetral(translatedDomain(final))
         /\ sbg'.set_edges \in Seq(EdgeRecord) /\ DOMAIN sbg'.set_edges = 1..n
         /\ sbg'.set_edges[n] = final
         /\ \A k \in 1..n : k # n => k \in DOMAIN ses /\ sbg'.set_edges[k] = ses[k]
  BY <1>1, <1>2, EdgeAdded
<1>6. /\ sbg'.set_vertices = sbg.set_vertices /\ sbg'.vertex_offset = sbg.vertex_offset
      /\ sbg'.edge_offset = maxDimPerimetral(translatedDomain(final))
  BY <1>2, <1>5 DEF SBGRecord
<1>7. /\ sbg'.set_edges \in Seq(EdgeRecord) /\ DOMAIN sbg'.set_edges = 1..n
      /\ sbg'.set_edges[n] = final
      /\ \A k \in 1..n : k # n => k \in DOMAIN ses /\ sbg'.set_edges[k] = ses[k]
  BY <1>5
<1>8. /\ maxDimPerimetral(translatedDomain(final)) \in Nat
      /\ \A x \in translatedDomain(final) :
           x > sbg.edge_offset /\ x =< maxDimPerimetral(translatedDomain(final))
      /\ sbg.edge_offset < maxDimPerimetral(translatedDomain(final))
      /\ translatedDomain(final) \subseteq Nat
  <2>1. eq_sv.set \in Indices
    BY <1>4 DEF VertexRecord
  <2>2. translatedDomain(final) = translate(eq_sv.set, sbg.edge_offset)
    BY <1>5 DEF translatedDomain
  <2> QED
    BY <1>3, <2>1, <2>2, TranslateFacts DEF Indices
<1>9. svs' = svs /\ eq_sv' = eq_sv /\ sv' = sv
  BY <1>2, <1>6 DEF svs, eq_sv, sv
<1>10. sbg' \in SBGRecord
  BY <1>2, <1>5, <1>7, <1>8 DEF SBGRecord
<1>11. \A k \in DOMAIN ses : translatedDomain(ses[k]) \subseteq Nat
  <2> SUFFICES ASSUME NEW k \in DOMAIN ses PROVE translatedDomain(ses[k]) \subseteq Nat
    OBVIOUS
  <2>1. ses[k] \in EdgeRecord
    BY <1>3
  <2>2. ses[k].domain \in Indices /\ ses[k].translation \in Nat
    BY <2>1 DEF EdgeRecord
  <2> QED
    BY <2>2 DEF translatedDomain, translate, Indices
<1>12. EdgesApart'
  <2>1. ASSUME NEW k \in 1..n, NEW x \in translatedDomain(sbg'.set_edges[k])
        PROVE  x =< sbg'.edge_offset
    <3>1. CASE k = n
      BY <1>6, <1>7, <1>8, <2>1, <3>1
    <3>2. CASE k # n
      <4> HIDE DEF n, ses
      <4>1. k \in DOMAIN ses /\ sbg'.set_edges[k] = ses[k]
        BY <1>7, <3>2
      <4> USE DEF ses
      <4>2. x \in Nat /\ x =< sbg.edge_offset
        BY <1>2, <1>11, <2>1, <4>1 DEF EdgesApart
      <4> QED
        BY <1>3, <1>6, <1>8, <4>2
    <3> QED
      BY <3>1, <3>2
  <2>2. ASSUME NEW j \in 1..n, NEW k \in 1..n, j < k,
               NEW x \in translatedDomain(sbg'.set_edges[j]), NEW y \in translatedDomain(sbg'.set_edges[k])
        PROVE  x < y
    <3>1. j \in DOMAIN ses /\ sbg'.set_edges[j] = ses[j]
      <4>1. n \in Nat /\ j # n
        BY <1>3, <2>2
      <4> HIDE DEF n, ses
      <4> QED
        BY <1>7, <4>1
    <3>2. x \in Nat /\ x =< sbg.edge_offset
      BY <1>2, <1>11, <3>1 DEF EdgesApart
    <3>3. CASE k = n
      BY <1>3, <1>7, <1>8, <3>2, <3>3
    <3>4. CASE k # n
      BY <1>2, <1>7, <2>2, <3>1, <3>4 DEF EdgesApart
    <3> QED
      BY <3>3, <3>4
  <2>3. \A k \in 1..n : sbg'.set_edges[k].edge_id = k - 1
    BY <1>2, <1>3, <1>5, <1>7 DEF EdgesApart
  <2> QED
    BY <1>7, <2>1, <2>2, <2>3 DEF EdgesApart, translatedDomain
<1>13. EdgesJoin'
  <2>1. Joins(final, eq_sv, sv)
    BY <1>5
  <2>2. \A k \in DOMAIN ses : \E e, v \in Range(svs) : Joins(ses[k], e, v)
    BY DEF InputInv, EdgesJoin
  <2>3. \A k \in 1..n : \E e, v \in Range(svs) : Joins(sbg'.set_edges[k], e, v)
    <3> HIDE DEF n, ses
    <3> QED
      BY <1>4, <1>7, <2>1, <2>2
  <2> QED
    BY <1>2, <1>7, <1>9, <2>3, MeaningStays DEF EdgesJoin
<1>14. VerticesApart' /\ VerticesStand'
  BY <1>2, <1>6, <1>9, MeaningStays DEF InputInv, VerticesApart, VerticesStand, Vertices
<1>15. TurnOK' /\ PairOK'
  BY <1>1, <1>2, <1>9 DEF InputInv, TurnOK, PairOK, Stages, isEquation, Occurring
<1> QED
  BY <1>2, <1>10, <1>12, <1>13, <1>14, <1>15, MeaningStays DEF InputInv

THEOREM InputInvariance == InputSpec => []InputInv
<1>1. InputInit => InputInv
  BY InputStart
<1>2. InputInv /\ [InputNext]_ivars => InputInv'
  BY VariableStep, EquationStep, PairStep, PassStep, EndStep, OccurrenceStep
     DEF InputNext, addVertices, addEdges
<1> QED
  BY <1>1, <1>2, PTL DEF InputSpec

-----------------------------------------------------------------------------
(* Above one another, and so apart *)
LEMMA InvNumbers == InputInv => NumbersGivenOnce
<1> SUFFICES ASSUME InputInv PROVE NumbersGivenOnce
  OBVIOUS
<1> DEFINE ses == sbg.set_edges
<1>1. /\ svs \in Seq(VertexRecord) /\ ses \in Seq(EdgeRecord)
  BY DEF InputInv, SBGRecord, svs
<1>2. ASSUME NEW u \in Range(svs), NEW v \in Range(svs), u # v PROVE Vertices(u) \cap Vertices(v) = {}
  <2>1. PICK j \in DOMAIN svs, k \in DOMAIN svs : u = svs[j] /\ v = svs[k]
    BY DEF Range
  <2>2. Vertices(u) \cup Vertices(v) \subseteq Nat
    <3>1. \A w \in VertexRecord : w.set \in Indices /\ w.translation \in Nat
      BY DEF VertexRecord
    <3>2. u \in VertexRecord /\ v \in VertexRecord
      BY <1>1, <2>1
    <3> QED
      BY <3>1, <3>2 DEF Vertices, translate, Indices
  <2>3. j \in Nat /\ k \in Nat /\ j # k
    BY <1>1, <1>2, <2>1
  <2> QED
    BY <2>1, <2>2, <2>3 DEF InputInv, VerticesApart
<1>3. ASSUME NEW s \in SetEdges, NEW t \in SetEdges, s # t
      PROVE  translatedDomain(s) \cap translatedDomain(t) = {}
  <2>1. PICK j \in DOMAIN ses, k \in DOMAIN ses : s = ses[j] /\ t = ses[k]
    BY DEF Range, SetEdges
  <2>2. translatedDomain(s) \cup translatedDomain(t) \subseteq Nat
    <3>1. \A w \in EdgeRecord : w.domain \in Indices /\ w.translation \in Nat
      BY DEF EdgeRecord
    <3>2. s \in EdgeRecord /\ t \in EdgeRecord
      BY <1>1, <2>1
    <3> QED
      BY <3>1, <3>2 DEF translatedDomain, translate, Indices
  <2>3. j \in Nat /\ k \in Nat /\ j # k
    BY <1>1, <1>3, <2>1
  <2>4. \A a, b \in DOMAIN ses : a < b =>
          \A x \in translatedDomain(ses[a]), y \in translatedDomain(ses[b]) : x < y
    BY DEF InputInv, EdgesApart
  <2>5. CASE j < k
    BY <2>1, <2>2, <2>4, <2>5
  <2>6. CASE k < j
    BY <2>1, <2>2, <2>4, <2>6
  <2> QED
    BY <2>3, <2>5, <2>6
<1>4. ASSUME NEW j \in DOMAIN ses, NEW k \in DOMAIN ses, ses[j].edge_id = ses[k].edge_id PROVE j = k
  BY <1>1, <1>4 DEF InputInv, EdgesApart
<1> QED
  BY <1>2, <1>3, <1>4 DEF NumbersGivenOnce

(***************************************************************************)
(* No two set-vertices and no two set-edges share a number, and the        *)
(* look-up of a set-edge finds the one that was added, whatever the sizes  *)
(* of arrays, the ranges of loops and the number of occurrences.           *)
(***************************************************************************)
THEOREM NumbersOnce == InputSpec => []NumbersGivenOnce
<1>1. InputInv => NumbersGivenOnce
  BY InvNumbers
<1> QED
  BY <1>1, InputInvariance, PTL

-----------------------------------------------------------------------------
(* The graph that is written *)
LEMMA VerticesFacts ==
  ASSUME InputInv, NEW v \in Range(svs)
  PROVE  /\ v \in VertexRecord /\ StandsFor(v)
         /\ Vertices(v) \in Indices
         /\ \A i \in v.set : i + v.translation \in Vertices(v)
<1>1. PICK k \in DOMAIN svs : v = svs[k]
  BY DEF Range
<1>2. v \in VertexRecord /\ StandsFor(v)
  BY <1>1 DEF InputInv, SBGRecord, svs, VerticesStand
<1>3. v.set \in Indices /\ v.translation \in Nat
  BY <1>2 DEF VertexRecord
<1> QED
  BY <1>2, <1>3, TranslateFacts DEF Vertices, translate

LEMMA PartitionFacts ==
  ASSUME InputInv, NEW b \in BOOLEAN
  PROVE  /\ IsFiniteSet(generatePartition(b)) /\ generatePartition(b) \subseteq Nat \ {0}
         /\ \A v \in Range(svs) : isEquation(v) = b => Vertices(v) \subseteq generatePartition(b)
<1> DEFINE V  == {v \in Range(svs) : isEquation(v) = b}
           Vs == {Vertices(v) : v \in V}
<1>1. IsFiniteSet(Range(svs))
  <2> DEFINE f == [k \in 1..Len(svs) |-> svs[k]]
  <2>1. svs \in Seq(VertexRecord) /\ Len(svs) \in Nat
    BY DEF InputInv, SBGRecord, svs
  <2>2. IsFiniteSet(1..Len(svs))
    BY <2>1, FS_Interval
  <2>3. f \in Surjection(1..Len(svs), Range(svs))
    BY <2>1 DEF Surjection, Range
  <2> QED
    BY <2>2, <2>3, FS_Surjection
<1>2. IsFiniteSet(V)
  BY <1>1, FS_Subset
<1>3. IsFiniteSet(Vs)
  <2> DEFINE f == [v \in V |-> Vertices(v)]
  <2>1. f \in Surjection(V, Vs)
    BY DEF Surjection
  <2> QED
    BY <1>2, <2>1, FS_Surjection
<1>4. \A S \in Vs : IsFiniteSet(S) /\ S \subseteq Nat \ {0}
  BY VerticesFacts DEF Indices
<1>5. generatePartition(b) = UNION Vs
  BY DEF generatePartition
<1> QED
  BY <1>3, <1>4, <1>5, FS_UNION

LEMMA EdgesFacts ==
  ASSUME InputInv
  PROVE  LET E == UNION {translatedDomain(se) : se \in SetEdges}
         IN  IsFiniteSet(E) /\ E \subseteq Nat \ {0}
<1> DEFINE ses == sbg.set_edges
           Ds  == {translatedDomain(se) : se \in SetEdges}
<1>1. ses \in Seq(EdgeRecord) /\ Len(ses) \in Nat
  BY DEF InputInv, SBGRecord
<1>2. IsFiniteSet(SetEdges)
  <2> DEFINE f == [k \in 1..Len(ses) |-> ses[k]]
  <2>1. IsFiniteSet(1..Len(ses))
    BY <1>1, FS_Interval
  <2>2. f \in Surjection(1..Len(ses), SetEdges)
    BY <1>1 DEF Surjection, Range, SetEdges
  <2> QED
    BY <2>1, <2>2, FS_Surjection
<1>3. IsFiniteSet(Ds)
  <2> DEFINE f == [se \in SetEdges |-> translatedDomain(se)]
  <2>1. f \in Surjection(SetEdges, Ds)
    BY DEF Surjection
  <2> QED
    BY <1>2, <2>1, FS_Surjection
<1>4. ASSUME NEW se \in SetEdges PROVE translatedDomain(se) \in Indices
  <2>1. se \in EdgeRecord
    BY <1>1 DEF SetEdges, Range
  <2>2. se.domain \in Indices /\ se.translation \in Nat
    BY <2>1 DEF EdgeRecord
  <2> QED
    BY <2>2, TranslateFacts DEF translatedDomain
<1>5. \A S \in Ds : IsFiniteSet(S) /\ S \subseteq Nat \ {0}
  BY <1>4 DEF Indices
<1> QED
  BY <1>3, <1>5, FS_UNION

(* The edge x of a set-edge stands for the instance i of the equation of e. *)
EdgeOf(se, x, e, v, i) ==
  LET j == Subscript(model.vars[v.info.of], se.access, i)
  IN  /\ Joins(se, e, v) /\ i \in e.set /\ j \in v.set
      /\ x = i + se.translation
      /\ se.map1.m * x + se.map1.h = i + e.translation
      /\ se.map2.m * x + se.map2.h = j + v.translation

(* Where the maps of a set-edge take the edge of an instance of its equation *)
LEMMA EdgeValues ==
  ASSUME InputInv, UnitSubscripts(model), NEW se \in EdgeRecord,
         NEW e \in Range(svs), NEW v \in Range(svs), Joins(se, e, v), NEW i \in e.set
  PROVE  EdgeOf(se, i + se.translation, e, v, i)
<1> DEFINE acc == se.access
           eq  == model.eqs[e.info.of]
           var == model.vars[v.info.of]
           t   == se.translation
           x   == i + t
<1>1. /\ isEquation(e) /\ ~ isEquation(v) /\ se.domain = e.set
      /\ acc \in Occurring(e, v)
      /\ se.map1 = createMap1(se, e) /\ se.map2 = createMap2(se, eq, v)
  BY DEF Joins
<1>2. /\ e.info.of \in DOMAIN model.eqs /\ e.set = Instances(eq) /\ e.translation \in Nat
      /\ v.info.of \in DOMAIN model.vars /\ v.set = Elements(var) /\ v.translation \in Nat
      /\ isVariable(var) /\ e.set \in Indices /\ v.set \in Indices
  BY <1>1, VerticesFacts DEF StandsFor, VertexRecord
<1>3. /\ model \in Models /\ acc \in Accesses(eq) /\ acc.var = v.info.of /\ Unknown(var, acc)
  BY <1>1 DEF InputInv, Occurring
<1>4. /\ acc \in AccessTo(model) /\ IsAccess(model, eq, acc) /\ var \in Variable
  <2>1. /\ model.vars \in Seq(Variable)
        /\ \A j \in DOMAIN model.eqs : \A a \in Accesses(model.eqs[j]) :
             a \in AccessTo(model) /\ IsAccess(model, model.eqs[j], a)
    BY <1>3, ModelFacts
  <2>2. var \in Variable
    BY <1>2, <2>1
  <2> QED
    BY <1>2, <1>3, <2>1, <2>2
<1>5. t \in Nat /\ acc.a \in Int /\ acc.b \in Int /\ var.size \in Nat
  BY <1>4 DEF EdgeRecord, AccessTo, Variable
<1>6. i \in Nat /\ x \in Nat
  BY <1>2, <1>5 DEF Indices
<1>7. se.map1.m * x + se.map1.h = i + e.translation
  <2>1. se.map1.m = 1 /\ se.map1.h = e.translation - t
    BY <1>1 DEF createMap1, Affine
  <2> HIDE DEF t
  <2> QED
    BY <1>2, <1>5, <1>6, <2>1
<1>8. Subscript(var, acc, i) \in Elements(var)
  BY <1>2, <1>3, <1>4 DEF IsAccess
<1>9. se.map2.m * x + se.map2.h = Subscript(var, acc, i) + v.translation
  <2> DEFINE h == IF IsScalar(eq) \/ Cardinality(v.set) = 1
                  THEN v.translation - t + t ELSE v.translation - t
             r == referenceToExpression(var, acc)
  <2>1. se.map2.m = r.m /\ se.map2.h = r.h + h
    BY <1>1 DEF createMap2, Affine
  <2>2. CASE var.size = 0
    <3>1. r.m = 0 /\ r.h = 1 /\ Subscript(var, acc, i) = 1
      BY <2>2 DEF referenceToExpression, Affine, Subscript
    <3>2. Cardinality(v.set) = 1
      BY <1>2, <2>2, FS_Singleton DEF Elements
    <3>3. h = v.translation
      BY <1>2, <1>5, <3>2
    <3> HIDE DEF h, r, t
    <3> QED
      BY <1>2, <1>6, <2>1, <3>1, <3>3
  <2>3. CASE var.size # 0
    <3>1. r.m = acc.a /\ r.h = acc.b /\ Subscript(var, acc, i) = acc.a * i + acc.b
      BY <2>3 DEF referenceToExpression, Affine, Subscript
    <3>2. CASE IsScalar(eq)
      <4>1. acc.a = 0
        BY <1>4, <3>2 DEF IsAccess
      <4>2. h = v.translation
        BY <1>2, <1>5, <3>2
      <4> HIDE DEF h, r, t, acc
      <4> QED
        BY <1>2, <1>5, <1>6, <2>1, <3>1, <4>1, <4>2
    <3>3. CASE ~ IsScalar(eq)
      <4>1. acc.a = 1 /\ var.size > 1
        BY <1>2, <1>3, <2>3, <3>3 DEF UnitSubscripts
      <4>2. Cardinality(v.set) # 1
        <5>1. v.set = 1..var.size
          BY <1>2, <2>3 DEF Elements
        <5>2. Cardinality(1..var.size) = var.size
          BY <1>5, <4>1, FS_Interval
        <5> QED
          BY <4>1, <5>1, <5>2
      <4>3. h = v.translation - t
        BY <3>3, <4>2
      <4> HIDE DEF h, r, t, acc
      <4> QED
        BY <1>2, <1>5, <1>6, <2>1, <3>1, <4>1, <4>3
    <3> QED
      BY <3>2, <3>3
  <2> QED
    BY <2>2, <2>3
<1> QED
  BY <1>2, <1>7, <1>8, <1>9 DEF EdgeOf

LEMMA EdgeFacts ==
  ASSUME InputInv, UnitSubscripts(model), NEW se \in SetEdges, NEW x \in translatedDomain(se)
  PROVE  \E e, v \in Range(svs) : \E i : EdgeOf(se, x, e, v, i)
<1>1. se \in EdgeRecord
  BY DEF InputInv, SBGRecord, SetEdges, Range
<1>2. PICK e \in Range(svs), v \in Range(svs) : Joins(se, e, v)
  BY DEF InputInv, EdgesJoin, SetEdges, Range
<1>3. PICK i \in e.set : x = i + se.translation
  BY <1>2 DEF Joins, translatedDomain, translate
<1> QED
  BY <1>1, <1>2, <1>3, EdgeValues

LEMMA EdgeWithin ==
  ASSUME InputInv, UnitSubscripts(model), NEW se \in SetEdges, NEW x \in translatedDomain(se)
  PROVE  /\ se.map1.m * x + se.map1.h \in generatePartition(TRUE)
         /\ se.map2.m * x + se.map2.h \in generatePartition(FALSE)
<1>1. PICK e \in Range(svs), v \in Range(svs) : \E i : EdgeOf(se, x, e, v, i)
  BY EdgeFacts
<1>2. PICK i : EdgeOf(se, x, e, v, i)
  BY <1>1
<1> DEFINE j == Subscript(model.vars[v.info.of], se.access, i)
<1>3. i + e.translation \in Vertices(e) /\ j + v.translation \in Vertices(v)
  BY <1>2, VerticesFacts DEF EdgeOf
<1>4. Vertices(e) \subseteq generatePartition(TRUE) /\ Vertices(v) \subseteq generatePartition(FALSE)
  BY <1>2, PartitionFacts DEF EdgeOf, Joins, isEquation
<1> QED
  BY <1>2, <1>3, <1>4 DEF EdgeOf

LEMMA GraphWritten ==
  ASSUME InputInv, UnitSubscripts(model), generateSBGInput
  PROVE  IsSystem(bsbg')
<1> DEFINE ses   == sbg.set_edges
           X     == generatePartition(TRUE)
           Y     == generatePartition(FALSE)
           E     == UNION {translatedDomain(se) : se \in SetEdges}
           maps1 == [k \in DOMAIN ses |-> ses[k].map1]
           maps2 == [k \in DOMAIN ses |-> ses[k].map2]
           map1  == generateMap(maps1)
           map2  == generateMap(maps2)
<1>1. bsbg' = [X |-> X, Y |-> Y, map1 |-> map1, map2 |-> map2]
  BY DEF generateSBGInput
<1>2. IsFiniteSet(X) /\ X \subseteq Nat \ {0} /\ IsFiniteSet(Y) /\ Y \subseteq Nat \ {0}
  BY PartitionFacts
<1>3. IsFiniteSet(E) /\ E \subseteq Nat \ {0}
  BY EdgesFacts
<1>4. X \cap Y = {}
  <2> SUFFICES ASSUME NEW n \in X \cap Y PROVE FALSE
    OBVIOUS
  <2>1. PICK u \in Range(svs) : isEquation(u) /\ n \in Vertices(u)
    BY DEF generatePartition
  <2>2. PICK v \in Range(svs) : ~ isEquation(v) /\ n \in Vertices(v)
    BY DEF generatePartition, isEquation
  <2>3. u # v
    BY <2>1, <2>2
  <2> QED
    BY <2>1, <2>2, <2>3, InvNumbers DEF NumbersGivenOnce
<1>5. DOMAIN map1 = E /\ DOMAIN map2 = E
  BY DEF generateMap
<1>6. \A x \in E : map1[x] \in X /\ map2[x] \in Y
  <2> SUFFICES ASSUME NEW x \in E PROVE map1[x] \in X /\ map2[x] \in Y
    OBVIOUS
  <2> DEFINE k == CHOOSE k \in DOMAIN ses : x \in translatedDomain(ses[k])
  <2>1. k \in DOMAIN ses /\ x \in translatedDomain(ses[k])
    <3>1. \E j \in DOMAIN ses : x \in translatedDomain(ses[j])
      BY DEF SetEdges, Range
    <3> QED
      BY <3>1
  <2>2. map1[x] = maps1[k].m * x + maps1[k].h
    BY DEF generateMap
  <2>3. map2[x] = maps2[k].m * x + maps2[k].h
    BY DEF generateMap
  <2>4. maps1[k] = ses[k].map1 /\ maps2[k] = ses[k].map2
    BY <2>1
  <2>5. /\ ses[k].map1.m * x + ses[k].map1.h \in X
        /\ ses[k].map2.m * x + ses[k].map2.h \in Y
    <3>1. ses[k] \in SetEdges
      BY <2>1 DEF SetEdges, Range
    <3> QED
      BY <2>1, <3>1, EdgeWithin
  <2> HIDE DEF map1, map2, maps1, maps2, k, X, Y
  <2> QED
    BY <2>2, <2>3, <2>4, <2>5
<1>7. map1 = [x \in E |-> map1[x]] /\ map2 = [x \in E |-> map2[x]]
  BY DEF generateMap
<1> HIDE DEF X, Y, E, map1, map2
<1>8. map1 \in [E -> X \cup Y] /\ map2 \in [E -> X \cup Y]
  BY <1>5, <1>6, <1>7
<1>9. \A x \in E : map1[x] \in X <=> map2[x] \in Y
  BY <1>6
<1> QED
  BY <1>1, <1>2, <1>3, <1>4, <1>5, <1>8, <1>9 DEF IsSystem

(***************************************************************************)
(* The graph that is written is one the causalization accepts, whatever    *)
(* the models, as long as no loop gives an array a subscript other than    *)
(* its counter and a number.                                               *)
(***************************************************************************)
THEOREM GraphIsSystem ==
  ASSUME \A m \in Models : UnitSubscripts(m)
  PROVE  InputSpec => []BuildsSystem
<1>1. InputInit => BuildsSystem
  BY DEF InputInit, BuildsSystem
<1>2. InputInv /\ BuildsSystem /\ [InputNext]_ivars => BuildsSystem'
  <2> SUFFICES ASSUME InputInv, BuildsSystem, [InputNext]_ivars PROVE BuildsSystem'
    OBVIOUS
  <2>1. CASE generateSBGInput
    BY <2>1, GraphWritten DEF InputInv, BuildsSystem
  <2>2. CASE UNCHANGED ivars
    BY <2>2 DEF BuildsSystem, ivars
  <2>3. CASE addVertices \/ addEdges
    <3>1. stage' # "done"
      BY <2>3 DEF addVertices, addEdges, addVariableNodes, addEquationNodes, refuseEquation, addEdge,
                  noEdge, refuseEdges, addOccurrence, edgeDone, ERROR, Continue
    <3> QED
      BY <3>1 DEF BuildsSystem
  <2> QED
    BY <2>1, <2>2, <2>3 DEF InputNext
<1> QED
  BY <1>1, <1>2, InputInvariance, PTL DEF InputSpec
-----------------------------------------------------------------------------
(***************************************************************************)
(* The pairs that the graph joins.  Every equation and every variable gets *)
(* its set-vertex once, and every pair whose turn is over has a set-edge   *)
(* for each occurrence of the one in the other.                            *)
(***************************************************************************)
VerticesOf(b) == {k \in DOMAIN svs : isEquation(svs[k]) = b}

Placed(b) == {svs[k].info.of : k \in VerticesOf(b)}

VariablesTo(n) == {i \in 1..n : isVariable(model.vars[i])}

PlacedOnce ==
  \A j, k \in DOMAIN svs :
    isEquation(svs[j]) = isEquation(svs[k]) /\ svs[j].info.of = svs[k].info.of => j = k

PlacedSoFar ==
  CASE stage = "addVariableNodes" -> Placed(FALSE) = VariablesTo(turn - 1) /\ Placed(TRUE) = {}
    [] stage = "addEquationNodes" ->
         Placed(FALSE) = VariablesTo(Len(model.vars)) /\ Placed(TRUE) = 1..(turn - 1)
    [] OTHER ->
         stage # "ERROR" =>
           Placed(FALSE) = VariablesTo(Len(model.vars)) /\ Placed(TRUE) = 1..Len(model.eqs)

Joined(e, v, acc) == \E se \in SetEdges : se.access = acc /\ Joins(se, e, v)

Handled(t) ==
  LET e == svs[1 + ((t - 1) \div Len(svs))]
      v == svs[1 + ((t - 1) % Len(svs))]
  IN  isEquation(e) /\ ~ isEquation(v) => \A acc \in Occurring(e, v) : Joined(e, v, acc)

JoinedSoFar ==
  /\ stage \in {"addEdges", "addEdge"} => \A t \in 1..(turn - 1) : Handled(t)
  /\ stage = "addEdge" =>
       \A acc \in Occurring(eq_sv, sv) \ matched_exprs : Joined(eq_sv, sv, acc)
  /\ stage = "generateSBGInput" => \A t \in 1..(Len(svs) * Len(svs)) : Handled(t)

GraphInv == PlacedOnce /\ PlacedSoFar /\ JoinedSoFar

LEMMA GraphStart == InputInit => GraphInv
<1> SUFFICES ASSUME InputInit PROVE GraphInv
  OBVIOUS
<1>1. svs = <<>> /\ turn = 1 /\ stage = "addVariableNodes"
  BY DEF InputInit, NewModelicaSBG, svs
<1>2. \A b : VerticesOf(b) = {}
  BY <1>1 DEF VerticesOf
<1>3. Placed(FALSE) = {} /\ Placed(TRUE) = {}
  BY <1>2 DEF Placed
<1>4. VariablesTo(turn - 1) = {}
  BY <1>1 DEF VariablesTo
<1>5. PlacedOnce
  BY <1>1 DEF PlacedOnce
<1>6. PlacedSoFar
  BY <1>1, <1>3, <1>4 DEF PlacedSoFar
<1>7. JoinedSoFar
  BY <1>1 DEF JoinedSoFar
<1> QED
  BY <1>5, <1>6, <1>7 DEF GraphInv

(* A set-vertex more, of an equation or a variable that has none *)
LEMMA OnePlaced ==
  ASSUME InputInv, PlacedOnce, svs' \in Seq(VertexRecord), Len(svs') = Len(svs) + 1,
         \A k \in DOMAIN svs : svs'[k] = svs[k],
         NEW v, v = svs'[Len(svs')], v.info.of \notin Placed(isEquation(v))
  PROVE  /\ PlacedOnce'
         /\ \A b \in BOOLEAN :
              Placed(b)' = IF b = isEquation(v) THEN Placed(b) \cup {v.info.of} ELSE Placed(b)
<1> DEFINE n == Len(svs')
<1>1. svs \in Seq(VertexRecord)
  BY DEF InputInv, SBGRecord, svs
<1>2. /\ n \in DOMAIN svs' /\ n \notin DOMAIN svs /\ svs'[n] = v
      /\ \A k \in DOMAIN svs : k \in DOMAIN svs' /\ k # n /\ svs'[k] = svs[k]
      /\ \A k \in DOMAIN svs' : k # n => k \in DOMAIN svs
  BY <1>1
<1> HIDE DEF n
<1>3. \A k \in DOMAIN svs' : (svs[k])' = svs'[k] /\ (isEquation(svs[k]))' = isEquation(svs'[k])
  BY DEF isEquation
<1>4. PlacedOnce'
  <2> SUFFICES ASSUME NEW j \in DOMAIN svs', NEW k \in DOMAIN svs',
                      isEquation(svs'[j]) = isEquation(svs'[k]), svs'[j].info.of = svs'[k].info.of
               PROVE  j = k
    BY <1>3 DEF PlacedOnce, isEquation
  <2>1. \A i \in DOMAIN svs : isEquation(svs[i]) = isEquation(v) => svs[i].info.of # v.info.of
    BY DEF Placed, VerticesOf
  <2>2. CASE j = n \/ k = n
    BY <1>2, <2>1, <2>2
  <2>3. CASE j # n /\ k # n
    BY <1>2, <2>3 DEF PlacedOnce
  <2> QED
    BY <2>2, <2>3
<1>5. ASSUME NEW b \in BOOLEAN
      PROVE  Placed(b)' = IF b = isEquation(v) THEN Placed(b) \cup {v.info.of} ELSE Placed(b)
  <2>1. Placed(b)' = {svs'[k].info.of : k \in {k \in DOMAIN svs' : isEquation(svs'[k]) = b}}
    BY DEF Placed, VerticesOf, isEquation
  <2>2. {k \in DOMAIN svs' : isEquation(svs'[k]) = b}
          = VerticesOf(b) \cup (IF b = isEquation(v) THEN {n} ELSE {})
    BY <1>2 DEF VerticesOf
  <2>3. \A k \in VerticesOf(b) : svs'[k] = svs[k]
    BY <1>2 DEF VerticesOf
  <2>4. {svs'[k].info.of : k \in VerticesOf(b)} = Placed(b)
    BY <2>3 DEF Placed
  <2>5. CASE b = isEquation(v)
    <3>1. Placed(b)' = {svs'[k].info.of : k \in VerticesOf(b) \cup {n}}
      BY <2>1, <2>2, <2>5
    <3>2. Placed(b)' = {svs'[k].info.of : k \in VerticesOf(b)} \cup {svs'[n].info.of}
      BY <3>1
    <3> QED
      BY <1>2, <2>4, <2>5, <3>2
  <2>6. CASE b # isEquation(v)
    BY <2>1, <2>2, <2>4, <2>6
  <2> QED
    BY <2>5, <2>6
<1> QED
  BY <1>4, <1>5

(* Placed does not change with the stage. *)
LEMMA PlacesStay ==
  ASSUME PlacedOnce, sbg'.set_vertices = sbg.set_vertices, model' = model
  PROVE  PlacedOnce' /\ Placed(TRUE)' = Placed(TRUE) /\ Placed(FALSE)' = Placed(FALSE)
         /\ \A n : VariablesTo(n)' = VariablesTo(n)
<1>1. svs' = svs
  BY DEF svs
<1> QED
  BY <1>1 DEF PlacedOnce, Placed, VerticesOf, VariablesTo, isEquation, isVariable

LEMMA VariablePlaced == InputInv /\ GraphInv /\ addVariableNodes => GraphInv'
<1> SUFFICES ASSUME InputInv, GraphInv, addVariableNodes PROVE GraphInv'
  OBVIOUS
<1> DEFINE var == model.vars[turn]
<1>1. /\ model \in Models /\ turn \in DOMAIN model.vars /\ turn \in Nat \ {0}
      /\ model' = model /\ stage = "addVariableNodes"
      /\ PlacedOnce /\ Placed(FALSE) = VariablesTo(turn - 1) /\ Placed(TRUE) = {}
  BY DEF InputInv, TurnOK, GraphInv, PlacedSoFar, addVariableNodes
<1>2. model.vars \in Seq(Variable) /\ model.eqs \in Seq(EquationOf(model))
  BY <1>1, ModelFacts
<1>3. \/ turn < Len(model.vars) /\ turn' = turn + 1 /\ stage' = "addVariableNodes"
      \/ turn = Len(model.vars) /\ turn' = 1 /\ stage' = "addEquationNodes"
  BY <1>1 DEF addVariableNodes, Continue
<1>4. /\ \A n : VariablesTo(n)' = VariablesTo(n)
      /\ VariablesTo(turn) = IF isVariable(var) THEN VariablesTo(turn - 1) \cup {turn} ELSE VariablesTo(turn - 1)
  <2>1. 1..turn = (1..(turn - 1)) \cup {turn}
    BY <1>1
  <2> QED
    BY <1>1, <2>1 DEF VariablesTo, isVariable
<1>5. PlacedOnce' /\ Placed(FALSE)' = VariablesTo(turn) /\ Placed(TRUE)' = {}
  <2>1. CASE ~ isVariable(var)
    <3>1. sbg' = sbg
      BY <2>1 DEF addVariableNodes
    <3> QED
      BY <1>1, <1>4, <2>1, <3>1, PlacesStay
  <2>2. CASE isVariable(var)
    <3>1. sbg' = addSetVertex(sbg, Elements(var), "var", [of |-> turn])
      BY <2>2 DEF addVariableNodes
    <3>2. Elements(var) \in Indices /\ [of |-> turn] \in Info
      BY <1>1, <1>2, ElementsFacts DEF Info
    <3>3. /\ sbg' \in SBGRecord /\ Len(svs') = Len(svs) + 1
          /\ \A k \in DOMAIN svs : svs'[k] = svs[k]
          /\ LET v == svs'[Len(svs')] IN v.name = "var" /\ v.info = [of |-> turn]
      BY <1>1, <3>1, <3>2, VertexAdded
    <3> DEFINE v == svs'[Len(svs')]
    <3>4. svs' \in Seq(VertexRecord)
      BY <3>3 DEF SBGRecord, svs
    <3>5. isEquation(v) = FALSE /\ v.info.of = turn
      BY <3>3 DEF isEquation
    <3>6. turn \notin VariablesTo(turn - 1)
      BY <1>1 DEF VariablesTo
    <3> HIDE DEF v
    <3>7. v.info.of \notin Placed(isEquation(v))
      BY <1>1, <3>5, <3>6
    <3>8. /\ PlacedOnce'
          /\ \A b \in BOOLEAN :
               Placed(b)' = IF b = isEquation(v) THEN Placed(b) \cup {v.info.of} ELSE Placed(b)
      BY <1>1, <3>3, <3>4, <3>7, OnePlaced DEF v
    <3> QED
      BY <1>1, <1>4, <2>2, <3>5, <3>8
  <2> QED
    BY <2>1, <2>2
<1>6. PlacedSoFar'
  <2>1. CASE turn < Len(model.vars)
    <3>1. turn' - 1 = turn /\ stage' = "addVariableNodes"
      BY <1>1, <1>3, <2>1
    <3> QED
      BY <1>4, <1>5, <3>1 DEF PlacedSoFar
  <2>2. CASE turn = Len(model.vars)
    <3>1. turn' - 1 = 0 /\ stage' = "addEquationNodes"
      BY <1>1, <1>3, <2>2
    <3>2. 1..0 = {}
      OBVIOUS
    <3> QED
      BY <1>1, <1>4, <1>5, <2>2, <3>1, <3>2 DEF PlacedSoFar
  <2> QED
    BY <1>3, <2>1, <2>2
<1>7. JoinedSoFar'
  BY <1>3 DEF JoinedSoFar
<1> QED
  BY <1>5, <1>6, <1>7 DEF GraphInv

LEMMA EquationPlaced == InputInv /\ GraphInv /\ addEquationNodes => GraphInv'
<1> SUFFICES ASSUME InputInv, GraphInv, addEquationNodes PROVE GraphInv'
  OBVIOUS
<1> DEFINE eq == model.eqs[turn]
<1>1. /\ model \in Models /\ turn \in DOMAIN model.eqs /\ turn \in Nat \ {0}
      /\ model' = model /\ stage = "addEquationNodes" /\ Convertible(eq)
      /\ PlacedOnce /\ Placed(FALSE) = VariablesTo(Len(model.vars)) /\ Placed(TRUE) = 1..(turn - 1)
  BY DEF InputInv, TurnOK, GraphInv, PlacedSoFar, addEquationNodes
<1>2. model.eqs \in Seq(EquationOf(model)) /\ IsRange(eq.range)
  BY <1>1, ModelFacts
<1>3. \/ turn < Len(model.eqs) /\ turn' = turn + 1 /\ stage' = "addEquationNodes"
      \/ turn = Len(model.eqs) /\ turn' = 1 /\ stage' = "addEdges"
  BY <1>1 DEF addEquationNodes, Continue
<1>4. \A n : VariablesTo(n)' = VariablesTo(n)
  BY <1>1 DEF VariablesTo, isVariable
<1>5. PlacedOnce' /\ Placed(FALSE)' = VariablesTo(Len(model.vars)) /\ Placed(TRUE)' = 1..turn
  <2>1. sbg' = addSetVertex(sbg, Instances(eq), "eq_", EquationInfo(turn))
    BY DEF addEquationNodes
  <2>2. Instances(eq) \in Indices /\ EquationInfo(turn) \in Info
    <3>1. eq \in EquationOf(model)
      BY <1>1, <1>2
    <3> QED
      BY <1>1, <1>2, <3>1, InstancesFacts DEF Info, EquationInfo
  <2>3. /\ sbg' \in SBGRecord /\ Len(svs') = Len(svs) + 1
        /\ \A k \in DOMAIN svs : svs'[k] = svs[k]
        /\ LET v == svs'[Len(svs')] IN v.name = "eq_" /\ v.info = EquationInfo(turn)
    BY <1>1, <2>1, <2>2, VertexAdded
  <2> DEFINE v == svs'[Len(svs')]
  <2>4. svs' \in Seq(VertexRecord)
    BY <2>3 DEF SBGRecord, svs
  <2>5. isEquation(v) = TRUE /\ v.info.of = turn
    BY <2>3 DEF isEquation, EquationInfo
  <2>6. turn \notin 1..(turn - 1) /\ 1..turn = (1..(turn - 1)) \cup {turn}
    BY <1>1
  <2> HIDE DEF v
  <2>7. v.info.of \notin Placed(isEquation(v))
    BY <1>1, <2>5, <2>6
  <2>8. /\ PlacedOnce'
        /\ \A b \in BOOLEAN :
             Placed(b)' = IF b = isEquation(v) THEN Placed(b) \cup {v.info.of} ELSE Placed(b)
    BY <1>1, <2>3, <2>4, <2>7, OnePlaced DEF v
  <2> QED
    BY <1>1, <2>5, <2>6, <2>8
<1>6. PlacedSoFar'
  <2>1. CASE turn < Len(model.eqs)
    <3>1. turn' - 1 = turn /\ stage' = "addEquationNodes"
      BY <1>1, <1>3, <2>1
    <3> QED
      BY <1>1, <1>4, <1>5, <3>1 DEF PlacedSoFar
  <2>2. CASE turn = Len(model.eqs)
    <3>1. stage' = "addEdges"
      BY <1>3, <2>2
    <3> QED
      BY <1>1, <1>4, <1>5, <2>2, <3>1 DEF PlacedSoFar
  <2> QED
    BY <1>3, <2>1, <2>2
<1>7. JoinedSoFar'
  <2>1. CASE stage' = "addEquationNodes"
    BY <2>1 DEF JoinedSoFar
  <2>2. CASE stage' = "addEdges"
    <3>1. 1..(turn' - 1) = {}
      BY <1>1, <1>3, <2>2
    <3> QED
      BY <2>2, <3>1 DEF JoinedSoFar
  <2> QED
    BY <1>3, <2>1, <2>2
<1> QED
  BY <1>5, <1>6, <1>7 DEF GraphInv

(* An occurrence that has its set-edge keeps it. *)
LEMMA JoinedStays ==
  ASSUME svs' = svs, model' = model, SetEdges \subseteq SetEdges'
  PROVE  /\ \A e, v : Occurring(e, v)' = Occurring(e, v)
         /\ \A e, v, acc : Joined(e, v, acc) => Joined(e, v, acc)'
         /\ \A t : Handled(t) => Handled(t)'
<1>1. \A e, v : Occurring(e, v)' = Occurring(e, v)
  BY DEF Occurring
<1>2. \A e, v, acc : Joined(e, v, acc) => Joined(e, v, acc)'
  BY MeaningStays DEF Joined
<1>3. \A t : Handled(t) => Handled(t)'
  BY <1>1, <1>2 DEF Handled, isEquation
<1> QED
  BY <1>1, <1>2, <1>3

(* Where every term has one match, matchedExps misses none. *)
LEMMA NoneMissed ==
  ASSUME InputInv, OneMatchPerTerm(model), NEW e \in Range(svs), NEW v \in Range(svs),
         isEquation(e), ~ isEquation(v)
  PROVE  Occurring(e, v) \subseteq matchedExps(model.eqs[e.info.of], v.info.of)
<1> DEFINE eq  == model.eqs[e.info.of]
           var == v.info.of
           matches(acc) == acc.var = var /\ Unknown(model.vars[var], acc)
           found(t) == {i \in 1..Len(t) : matches(t[i])}
           first(t) == SelectInSeq(t, matches)
<1>1. /\ model \in Models /\ e.info.of \in DOMAIN model.eqs /\ isVariable(model.vars[var])
  BY VerticesFacts DEF InputInv, StandsFor
<1>2. \A k \in DOMAIN eq.terms : eq.terms[k] \in Seq(AccessTo(model))
  <2>1. eq \in EquationOf(model)
    BY <1>1, ModelFacts
  <2> QED
    BY <2>1 DEF EquationOf
<1> SUFFICES ASSUME NEW acc \in Occurring(e, v) PROVE acc \in matchedExps(eq, var)
  OBVIOUS
<1>3. matches(acc) /\ acc \in Accesses(eq)
  BY DEF Occurring
<1>4. PICK k \in DOMAIN eq.terms : acc \in Range(eq.terms[k])
  BY <1>3 DEF Accesses
<1> DEFINE t == eq.terms[k]
<1>5. t \in Seq(AccessTo(model))
  BY <1>2
<1>6. PICK i \in 1..Len(t) : acc = t[i]
  BY <1>4, <1>5 DEF Range
<1>7. first(t) = IF found(t) # {} THEN Min(found(t)) ELSE 0
  BY DEF SelectInSeq
<1>8. first(t) \in found(t)
  <2>1. matches(t[i])
    BY <1>3, <1>6
  <2> HIDE DEF matches
  <2>2. i \in found(t)
    BY <1>6, <2>1, Zenon
  <2>3. found(t) \in SUBSET Nat
    BY 1..Len(t) \subseteq Nat, Zenon
  <2> HIDE DEF found
  <2> QED
    BY <1>7, <2>2, <2>3, LeastElement
<1>9. first(t) # 0 /\ first(t) \in DOMAIN t /\ matches(t[first(t)])
  <2>1. \A j \in found(t) : j # 0 /\ j \in DOMAIN t /\ matches(t[j])
    BY <1>5 DEF Unknown
  <2> HIDE DEF first, found, matches
  <2> QED
    BY <1>8, <2>1
<1>10. t[first(t)] \in Range(t)
  BY <1>9 DEF Range
<1>11. t[first(t)] = acc
  BY <1>1, <1>3, <1>4, <1>9, <1>10 DEF OneMatchPerTerm
<1>12. eq.terms[k][first(eq.terms[k])] \in matchedExps(eq, var)
  BY <1>9 DEF matchedExps
<1> QED
  BY <1>11, <1>12

LEMMA PairJoined == InputInv /\ GraphInv /\ OneMatchPerTerm(model) /\ addEdge => GraphInv'
<1> SUFFICES ASSUME InputInv, GraphInv, OneMatchPerTerm(model), addEdge PROVE GraphInv'
  OBVIOUS
<1>1. /\ stage = "addEdges" /\ stage' = "addEdge"
      /\ isEquation(eq_sv) /\ ~ isEquation(sv)
      /\ matched_exprs' = matchedExps(model.eqs[eq_sv.info.of], sv.info.of)
      /\ turn' = turn /\ model' = model /\ sbg' = sbg
  BY DEF addEdge
<1>2. svs' = svs /\ eq_sv' = eq_sv /\ sv' = sv /\ SetEdges' = SetEdges
  BY <1>1 DEF svs, eq_sv, sv, SetEdges
<1>3. Occurring(eq_sv, sv) \subseteq matched_exprs'
  BY <1>1, PairFacts, NoneMissed
<1>4. JoinedSoFar'
  <2>1. \A t \in 1..(turn' - 1) : Handled(t)'
    BY <1>1, <1>2, JoinedStays DEF GraphInv, JoinedSoFar
  <2>2. Occurring(eq_sv, sv)' \ matched_exprs' = {}
    BY <1>1, <1>2, <1>3 DEF Occurring
  <2> QED
    BY <1>1, <2>1, <2>2 DEF JoinedSoFar
<1>5. PlacedOnce' /\ PlacedSoFar'
  <2>1. PlacedOnce /\ PlacedSoFar
    BY DEF GraphInv
  <2> QED
    BY <1>1, <2>1, PlacesStay DEF PlacedSoFar
<1> QED
  BY <1>4, <1>5 DEF GraphInv

(* The turn of a pair is over. *)
LEMMA PassJoined == InputInv /\ GraphInv /\ (noEdge \/ edgeDone) => GraphInv'
<1> SUFFICES ASSUME InputInv, GraphInv, noEdge \/ edgeDone PROVE GraphInv'
  OBVIOUS
<1> DEFINE n == Len(svs) * Len(svs)
<1>1. /\ stage \in {"addEdges", "addEdge"} /\ model' = model /\ sbg' = sbg
      /\ Continue(n, "addEdges", "generateSBGInput")
  BY DEF noEdge, edgeDone
<1>2. svs' = svs /\ SetEdges' = SetEdges
  BY <1>1 DEF svs, SetEdges
<1>3. Handled(turn)
  <2>1. CASE noEdge
    BY <2>1 DEF noEdge, Handled, eq_sv, sv
  <2>2. CASE edgeDone
    <3>1. \A acc \in Occurring(eq_sv, sv) : Joined(eq_sv, sv, acc)
      BY <2>2 DEF edgeDone, GraphInv, JoinedSoFar
    <3> QED
      BY <3>1 DEF Handled, eq_sv, sv
  <2> QED
    BY <2>1, <2>2
<1>4. turn \in Nat \ {0}
  BY DEF InputInv, TurnOK
<1>5. \A t \in 1..turn : Handled(t)'
  <2>1. \A t \in 1..(turn - 1) : Handled(t)
    BY <1>1 DEF GraphInv, JoinedSoFar
  <2>2. \A t \in 1..turn : Handled(t)
    BY <1>3, <1>4, <2>1
  <2> QED
    BY <1>1, <1>2, <2>2, JoinedStays
<1>6. \/ turn' = turn + 1 /\ stage' = "addEdges"
      \/ turn = n /\ stage' = "generateSBGInput"
  BY <1>1 DEF Continue
<1>7. JoinedSoFar'
  <2>1. CASE turn' = turn + 1 /\ stage' = "addEdges"
    <3>1. turn' - 1 = turn
      BY <1>4, <2>1
    <3> QED
      BY <1>5, <2>1, <3>1 DEF JoinedSoFar
  <2>2. CASE turn = n /\ stage' = "generateSBGInput"
    <3>1. (Len(svs) * Len(svs))' = turn
      BY <1>2, <2>2
    <3> QED
      BY <1>5, <2>2, <3>1 DEF JoinedSoFar
  <2> QED
    BY <1>6, <2>1, <2>2
<1>8. PlacedOnce' /\ PlacedSoFar'
  <2>1. PlacedOnce /\ PlacedSoFar
    BY DEF GraphInv
  <2> QED
    BY <1>1, <1>6, <2>1, PlacesStay DEF PlacedSoFar
<1> QED
  BY <1>7, <1>8 DEF GraphInv

LEMMA EndJoined ==
  InputInv /\ GraphInv /\ (refuseEquation \/ refuseEdges \/ generateSBGInput \/ UNCHANGED ivars)
    => GraphInv'
<1> SUFFICES ASSUME InputInv, GraphInv,
                    refuseEquation \/ refuseEdges \/ generateSBGInput \/ UNCHANGED ivars
             PROVE  GraphInv'
  OBVIOUS
<1>1. /\ model' = model /\ sbg' = sbg /\ turn' = turn
      /\ \/ stage' = "ERROR"
         \/ stage = "generateSBGInput" /\ stage' = "done"
         \/ stage' = stage /\ matched_exprs' = matched_exprs
  BY DEF refuseEquation, refuseEdges, ERROR, generateSBGInput, ivars
<1>2. svs' = svs /\ SetEdges' = SetEdges /\ eq_sv' = eq_sv /\ sv' = sv
  BY <1>1 DEF svs, SetEdges, eq_sv, sv
<1>3. JoinedSoFar'
  BY <1>1, <1>2, JoinedStays DEF GraphInv, JoinedSoFar
<1>4. PlacedOnce' /\ PlacedSoFar'
  <2>1. PlacedOnce /\ PlacedSoFar
    BY DEF GraphInv
  <2>2. /\ PlacedOnce' /\ Placed(TRUE)' = Placed(TRUE) /\ Placed(FALSE)' = Placed(FALSE)
        /\ \A n : VariablesTo(n)' = VariablesTo(n)
    BY <1>1, <2>1, PlacesStay
  <2> QED
    BY <1>1, <2>1, <2>2 DEF PlacedSoFar
<1> QED
  BY <1>3, <1>4 DEF GraphInv

LEMMA OccurrenceJoined == InputInv /\ GraphInv /\ addOccurrence => GraphInv'
<1> SUFFICES ASSUME InputInv, GraphInv, addOccurrence PROVE GraphInv'
  OBVIOUS
<1> DEFINE ses == sbg.set_edges
           n   == Len(ses) + 1
<1>1. PICK acc \in matched_exprs :
        sbg' = addSetEdgeOf(acc) /\ matched_exprs' = matched_exprs \ {acc}
  BY DEF addOccurrence
<1>2. /\ stage = "addEdge" /\ stage' = stage /\ turn' = turn /\ model' = model
      /\ sbg \in SBGRecord /\ PlacedOnce /\ PlacedSoFar /\ JoinedSoFar
  BY DEF addOccurrence, InputInv, GraphInv
<1>3. PICK final \in EdgeRecord :
         /\ final.access = acc /\ Joins(final, eq_sv, sv)
         /\ sbg' = [sbg EXCEPT !.set_edges = sbg'.set_edges, !.edge_offset = sbg'.edge_offset]
         /\ DOMAIN sbg'.set_edges = 1..n
         /\ sbg'.set_edges[n] = final
         /\ \A k \in 1..n : k # n => k \in DOMAIN ses /\ sbg'.set_edges[k] = ses[k]
  BY <1>1, <1>2, EdgeAdded
<1>4. sbg'.set_vertices = sbg.set_vertices
  BY <1>2, <1>3 DEF SBGRecord
<1>5. svs' = svs /\ eq_sv' = eq_sv /\ sv' = sv
  BY <1>2, <1>4 DEF svs, eq_sv, sv
<1>6. SetEdges \subseteq SetEdges' /\ final \in SetEdges'
  <2>1. Len(ses) \in Nat /\ DOMAIN ses = 1..Len(ses)
    BY <1>2 DEF SBGRecord
  <2>2. n \in 1..n /\ \A k \in DOMAIN ses : k \in 1..n /\ k # n
    BY <2>1
  <2> HIDE DEF n, ses
  <2>3. \A k \in DOMAIN ses : k \in DOMAIN sbg'.set_edges /\ sbg'.set_edges[k] = ses[k]
    BY <1>3, <2>2
  <2>4. n \in DOMAIN sbg'.set_edges /\ sbg'.set_edges[n] = final
    BY <1>3, <2>2
  <2> QED
    BY <2>3, <2>4 DEF SetEdges, Range, ses
<1>7. Joined(eq_sv, sv, acc)'
  BY <1>2, <1>3, <1>5, <1>6, MeaningStays DEF Joined
<1>8. JoinedSoFar'
  <2>1. \A t \in 1..(turn' - 1) : Handled(t)'
    BY <1>2, <1>5, <1>6, JoinedStays DEF JoinedSoFar
  <2>2. ASSUME NEW a \in Occurring(eq_sv, sv), a \notin matched_exprs'
        PROVE  Joined(eq_sv, sv, a)'
    <3>1. CASE a = acc
      BY <1>7, <3>1
    <3>2. CASE a # acc
      <4>1. a \notin matched_exprs
        BY <1>1, <2>2, <3>2
      <4>2. Joined(eq_sv, sv, a)
        BY <1>2, <4>1 DEF JoinedSoFar
      <4> QED
        BY <1>2, <1>5, <1>6, <4>2, JoinedStays
    <3> QED
      BY <3>1, <3>2
  <2>3. Occurring(eq_sv, sv)' = Occurring(eq_sv, sv)
    BY <1>2, <1>5 DEF Occurring
  <2> QED
    BY <1>2, <2>1, <2>2, <2>3 DEF JoinedSoFar
<1>9. PlacedOnce' /\ PlacedSoFar'
  BY <1>2, <1>4, PlacesStay DEF PlacedSoFar
<1> QED
  BY <1>8, <1>9 DEF GraphInv

LEMMA GraphInvariance ==
  ASSUME \A m \in Models : OneMatchPerTerm(m)
  PROVE  InputSpec => []GraphInv
<1>1. InputInit => GraphInv
  BY GraphStart
<1>2. InputInv /\ GraphInv /\ [InputNext]_ivars => GraphInv'
  <2> SUFFICES ASSUME InputInv, GraphInv, [InputNext]_ivars PROVE GraphInv'
    OBVIOUS
  <2>1. OneMatchPerTerm(model)
    BY DEF InputInv
  <2> QED
    BY <2>1, VariablePlaced, EquationPlaced, PairJoined, PassJoined, EndJoined, OccurrenceJoined
       DEF InputNext, addVertices, addEdges
<1> QED
  BY <1>1, <1>2, InputInvariance, PTL DEF InputSpec

(* addEdges has a turn for each pair. *)
LEMMA PairTurn ==
  ASSUME NEW n \in Nat \ {0}, NEW a \in 0..(n - 1), NEW b \in 0..(n - 1)
  PROVE  /\ a * n + b + 1 \in 1..(n * n)
         /\ (a * n + b) \div n = a /\ (a * n + b) % n = b
<1>1. (a * n + b) \div n = a
  OBVIOUS
<1>2. (a * n + b) % n = b
  OBVIOUS
<1>3. a * n + b + 1 \in 1..(n * n)
  OBVIOUS
<1> QED
  BY <1>1, <1>2, <1>3

LEMMA AllJoined ==
  ASSUME InputInv, GraphInv, stage = "generateSBGInput",
         NEW e \in Range(svs), NEW v \in Range(svs), isEquation(e), ~ isEquation(v),
         NEW acc \in Occurring(e, v)
  PROVE  Joined(e, v, acc)
<1> DEFINE n == Len(svs)
<1>1. svs \in Seq(VertexRecord)
  BY DEF InputInv, SBGRecord, svs
<1>2. PICK j \in 1..n, k \in 1..n : e = svs[j] /\ v = svs[k]
  BY <1>1 DEF Range
<1> DEFINE a == j - 1
           b == k - 1
           t == a * n + b + 1
<1>3. n \in Nat \ {0} /\ a \in 0..(n - 1) /\ b \in 0..(n - 1)
  BY <1>1, <1>2
<1>4. t \in 1..(n * n) /\ (a * n + b) \div n = a /\ (a * n + b) % n = b
  <2> HIDE DEF n, a, b
  <2> QED
    BY <1>3, PairTurn
<1>5. t - 1 = a * n + b
  <2>1. a * n + b \in Int
    <3> HIDE DEF n, a, b
    <3> QED
      BY <1>3
  <2> QED
    BY <2>1
<1>6. svs[1 + ((t - 1) \div n)] = e /\ svs[1 + ((t - 1) % n)] = v
  <2>1. 1 + a = j /\ 1 + b = k
    BY <1>2
  <2> HIDE DEF a, b, t, n
  <2> QED
    BY <1>2, <1>4, <1>5, <2>1
<1>7. Handled(t)
  BY <1>4 DEF GraphInv, JoinedSoFar
<1> HIDE DEF t
<1> QED
  BY <1>6, <1>7 DEF Handled

(* The set-vertex of an equation or a variable is the one NodeOf chooses. *)
LEMMA NodeFacts ==
  ASSUME PlacedOnce, NEW v \in Range(svs), NEW i
  PROVE  NodeOf(v.info.of, isEquation(v), i) = i + v.translation
<1> DEFINE u == CHOOSE u \in Range(svs) : isEquation(u) = isEquation(v) /\ u.info.of = v.info.of
<1>1. u \in Range(svs) /\ isEquation(u) = isEquation(v) /\ u.info.of = v.info.of
  OBVIOUS
<1> HIDE DEF u
<1>2. u = v
  BY <1>1 DEF PlacedOnce, Range
<1> QED
  BY <1>2 DEF NodeOf, u

(* An edge has the maps of the only set-edge it is in. *)
LEMMA MapAt ==
  ASSUME InputInv, NEW k \in DOMAIN sbg.set_edges, NEW x \in translatedDomain(sbg.set_edges[k]),
         NEW maps, DOMAIN maps = DOMAIN sbg.set_edges
  PROVE  /\ x \in DOMAIN generateMap(maps)
         /\ generateMap(maps)[x] = maps[k].m * x + maps[k].h
<1> DEFINE ses == sbg.set_edges
           j   == CHOOSE j \in DOMAIN maps : x \in translatedDomain(ses[j])
<1>1. ses \in Seq(EdgeRecord)
  BY DEF InputInv, SBGRecord
<1>2. j \in DOMAIN ses /\ x \in translatedDomain(ses[j])
  OBVIOUS
<1>3. x \in Nat
  <2>1. ses[k] \in EdgeRecord
    BY <1>1
  <2>2. ses[k].domain \in Indices /\ ses[k].translation \in Nat
    BY <2>1 DEF EdgeRecord
  <2> QED
    BY <2>2 DEF translatedDomain, translate, Indices
<1>4. j = k
  <2>1. \A a, b \in DOMAIN ses : a < b =>
          \A y \in translatedDomain(ses[a]), z \in translatedDomain(ses[b]) : y < z
    BY DEF InputInv, EdgesApart
  <2>2. j \in Int /\ k \in Int
    BY <1>1, <1>2
  <2> HIDE DEF j, ses
  <2>3. ~ j < k /\ ~ k < j
    BY <1>2, <1>3, <2>1 DEF ses
  <2> QED
    BY <2>2, <2>3
<1>5. x \in UNION {translatedDomain(se) : se \in SetEdges}
  BY DEF SetEdges, Range
<1> QED
  BY <1>4, <1>5 DEF generateMap

(* The pair that an edge of the graph joins, and an edge for each pair *)
LEMMA PairsWritten ==
  ASSUME InputInv, GraphInv, UnitSubscripts(model), generateSBGInput
  PROVE  {<<bsbg'.map1[x], bsbg'.map2[x]>> : x \in DOMAIN bsbg'.map1}
           = {<<NodeOf(o[1], TRUE, o[2]), NodeOf(o[3], FALSE, o[4])>> : o \in Occurrences}
<1> DEFINE ses   == sbg.set_edges
           E     == UNION {translatedDomain(se) : se \in SetEdges}
           maps1 == [k \in DOMAIN ses |-> ses[k].map1]
           maps2 == [k \in DOMAIN ses |-> ses[k].map2]
           map1  == generateMap(maps1)
           map2  == generateMap(maps2)
<1>1. bsbg'.map1 = map1 /\ bsbg'.map2 = map2 /\ stage = "generateSBGInput"
  BY DEF generateSBGInput
<1>2. DOMAIN map1 = E
  BY DEF generateMap
<1>3. ASSUME NEW k \in DOMAIN ses, NEW x \in translatedDomain(ses[k])
      PROVE  /\ x \in DOMAIN map1
             /\ map1[x] = ses[k].map1.m * x + ses[k].map1.h
             /\ map2[x] = ses[k].map2.m * x + ses[k].map2.h
  <2>1. DOMAIN maps1 = DOMAIN ses /\ DOMAIN maps2 = DOMAIN ses
    OBVIOUS
  <2>2. maps1[k] = ses[k].map1 /\ maps2[k] = ses[k].map2
    OBVIOUS
  <2> HIDE DEF maps1, maps2
  <2> QED
    BY <2>1, <2>2, MapAt
<1> HIDE DEF map1, map2
<1>4. PlacedOnce /\ model \in Models
  BY DEF GraphInv, InputInv
<1>5. ASSUME NEW x \in DOMAIN map1
      PROVE  \E o \in Occurrences :
               map1[x] = NodeOf(o[1], TRUE, o[2]) /\ map2[x] = NodeOf(o[3], FALSE, o[4])
  <2>1. PICK k \in DOMAIN ses : x \in translatedDomain(ses[k])
    BY <1>2 DEF SetEdges, Range
  <2> DEFINE se == ses[k]
  <2>2. PICK e \in Range(svs), v \in Range(svs) : \E i : EdgeOf(se, x, e, v, i)
    <3>1. se \in SetEdges
      BY DEF SetEdges, Range
    <3> QED
      BY <2>1, <3>1, EdgeFacts
  <2>3. PICK i : EdgeOf(se, x, e, v, i)
    BY <2>2
  <2> DEFINE acc == se.access
             j   == Subscript(model.vars[acc.var], acc, i)
             o   == <<e.info.of, i, acc.var, j>>
  <2>4. /\ isEquation(e) = TRUE /\ isEquation(v) = FALSE
        /\ acc \in Occurring(e, v) /\ acc.var = v.info.of
    BY <2>3 DEF EdgeOf, Joins, Occurring, isEquation
  <2>5. o \in Occurrences
    <3>1. /\ e.info.of \in DOMAIN model.eqs /\ i \in Instances(model.eqs[e.info.of])
          /\ isVariable(model.vars[acc.var])
      BY <2>3, <2>4, VerticesFacts DEF EdgeOf, StandsFor
    <3>2. acc \in Accesses(model.eqs[e.info.of]) /\ Unknown(model.vars[acc.var], acc)
      BY <2>4 DEF Occurring
    <3> HIDE DEF acc
    <3> QED
      BY <3>1, <3>2 DEF Occurrences
  <2>6. map1[x] = NodeOf(o[1], TRUE, o[2])
    <3>1. NodeOf(e.info.of, TRUE, i) = i + e.translation
      BY <1>4, <2>4, NodeFacts
    <3> QED
      BY <1>3, <2>1, <2>3, <3>1 DEF EdgeOf
  <2>7. map2[x] = NodeOf(o[3], FALSE, o[4])
    <3>1. NodeOf(acc.var, FALSE, j) = j + v.translation
      BY <1>4, <2>4, NodeFacts
    <3> QED
      BY <1>3, <2>1, <2>3, <2>4, <3>1 DEF EdgeOf
  <2> HIDE DEF o
  <2> QED
    BY <2>5, <2>6, <2>7
<1>6. ASSUME NEW o \in Occurrences
      PROVE  \E x \in DOMAIN map1 :
               map1[x] = NodeOf(o[1], TRUE, o[2]) /\ map2[x] = NodeOf(o[3], FALSE, o[4])
  <2>1. PICK n \in DOMAIN model.eqs : \E i \in Instances(model.eqs[n]), acc \in Accesses(model.eqs[n]) :
          /\ isVariable(model.vars[acc.var]) /\ Unknown(model.vars[acc.var], acc)
          /\ o = <<n, i, acc.var, Subscript(model.vars[acc.var], acc, i)>>
    BY DEF Occurrences
  <2>2. PICK i \in Instances(model.eqs[n]), acc \in Accesses(model.eqs[n]) :
          /\ isVariable(model.vars[acc.var]) /\ Unknown(model.vars[acc.var], acc)
          /\ o = <<n, i, acc.var, Subscript(model.vars[acc.var], acc, i)>>
    BY <2>1
  <2>3. /\ acc.var \in 1..Len(model.vars)
        /\ DOMAIN model.eqs = 1..Len(model.eqs)
    BY <1>4, ModelFacts DEF AccessTo
  <2>4. Placed(FALSE) = VariablesTo(Len(model.vars)) /\ Placed(TRUE) = 1..Len(model.eqs)
    BY <1>1 DEF GraphInv, PlacedSoFar
  <2>5. PICK e \in Range(svs) : isEquation(e) = TRUE /\ e.info.of = n
    <3>1. n \in Placed(TRUE)
      BY <2>3, <2>4, Zenon
    <3> QED
      BY <3>1 DEF Placed, VerticesOf, Range
  <2>6. PICK v \in Range(svs) : isEquation(v) = FALSE /\ v.info.of = acc.var
    <3>1. acc.var \in Placed(FALSE)
      BY <2>2, <2>3, <2>4, Zenon DEF VariablesTo
    <3> QED
      BY <3>1 DEF Placed, VerticesOf, Range
  <2>7. acc \in Occurring(e, v)
    BY <2>2, <2>5, <2>6 DEF Occurring
  <2>8. PICK se \in SetEdges : se.access = acc /\ Joins(se, e, v)
    BY <1>1, <2>5, <2>6, <2>7, AllJoined DEF Joined
  <2>9. PICK k \in DOMAIN ses : se = ses[k]
    BY DEF SetEdges, Range
  <2>10. se \in EdgeRecord
    BY <2>9 DEF InputInv, SBGRecord
  <2> DEFINE x == i + se.translation
             j == Subscript(model.vars[acc.var], acc, i)
  <2>11. i \in e.set
    BY <2>2, <2>5, VerticesFacts DEF StandsFor
  <2>12. x \in translatedDomain(ses[k])
    BY <2>8, <2>9, <2>11 DEF Joins, translatedDomain, translate
  <2>13. /\ se.map1.m * x + se.map1.h = i + e.translation
         /\ se.map2.m * x + se.map2.h = j + v.translation
    BY <2>6, <2>8, <2>10, <2>11, EdgeValues DEF EdgeOf
  <2>14. NodeOf(n, TRUE, i) = i + e.translation /\ NodeOf(acc.var, FALSE, j) = j + v.translation
    BY <1>4, <2>5, <2>6, NodeFacts
  <2>15. /\ x \in DOMAIN map1
         /\ map1[x] = ses[k].map1.m * x + ses[k].map1.h
         /\ map2[x] = ses[k].map2.m * x + ses[k].map2.h
    BY <1>3, <2>12
  <2>16. o[1] = n /\ o[2] = i /\ o[3] = acc.var /\ o[4] = j
    BY <2>2
  <2> HIDE DEF x, j
  <2> QED
    BY <2>9, <2>13, <2>14, <2>15, <2>16
<1> DEFINE Pairs == {<<map1[x], map2[x]>> : x \in DOMAIN map1}
           Nodes == {<<NodeOf(o[1], TRUE, o[2]), NodeOf(o[3], FALSE, o[4])>> : o \in Occurrences}
<1>7. Pairs \subseteq Nodes
  BY <1>5
<1>8. Nodes \subseteq Pairs
  BY <1>6
<1> QED
  BY <1>1, <1>7, <1>8

LEMMA OccurrencesStay ==
  ASSUME model' = model, svs' = svs
  PROVE  /\ Occurrences' = Occurrences
         /\ \A k, b, i : NodeOf(k, b, i)' = NodeOf(k, b, i)
BY DEF Occurrences, NodeOf, Instances, isVariable, isEquation

(***************************************************************************)
(* The graph joins an instance of an equation with an unknown if and only  *)
(* if the unknown occurs in it, whatever the models, as long as loops only *)
(* give arrays their counter and a number, and no call has two elements of *)
(* an array among its arguments.                                           *)
(***************************************************************************)
THEOREM GraphIsModel ==
  ASSUME \A m \in Models : UnitSubscripts(m) /\ OneMatchPerTerm(m)
  PROVE  InputSpec => []OccurrencesJoined
<1>1. InputInit => OccurrencesJoined
  BY DEF InputInit, OccurrencesJoined
<1>2. InputInv /\ GraphInv /\ OccurrencesJoined /\ [InputNext]_ivars => OccurrencesJoined'
  <2> SUFFICES ASSUME InputInv, GraphInv, OccurrencesJoined, [InputNext]_ivars
               PROVE  OccurrencesJoined'
    OBVIOUS
  <2>1. CASE generateSBGInput
    <3>1. model' = model /\ svs' = svs
      BY <2>1 DEF generateSBGInput, svs
    <3>2. /\ Occurrences' = Occurrences
          /\ \A k, b, i : NodeOf(k, b, i)' = NodeOf(k, b, i)
      BY <3>1, OccurrencesStay
    <3>3. UnitSubscripts(model)
      BY DEF InputInv
    <3>4. {<<bsbg'.map1[x], bsbg'.map2[x]>> : x \in DOMAIN bsbg'.map1}
            = {<<NodeOf(o[1], TRUE, o[2]), NodeOf(o[3], FALSE, o[4])>> : o \in Occurrences}
      BY <2>1, <3>3, PairsWritten
    <3> QED
      BY <3>2, <3>4 DEF OccurrencesJoined
  <2>2. CASE UNCHANGED ivars
    <3>1. model' = model /\ svs' = svs /\ stage' = stage /\ bsbg' = bsbg
      BY <2>2 DEF ivars, svs
    <3>2. /\ Occurrences' = Occurrences
          /\ \A k, b, i : NodeOf(k, b, i)' = NodeOf(k, b, i)
      BY <3>1, OccurrencesStay
    <3> QED
      BY <3>1, <3>2 DEF OccurrencesJoined
  <2>3. CASE addVertices \/ addEdges
    <3>1. stage' # "done"
      BY <2>3 DEF addVertices, addEdges, addVariableNodes, addEquationNodes, refuseEquation, addEdge,
                  noEdge, refuseEdges, addOccurrence, edgeDone, ERROR, Continue
    <3> QED
      BY <3>1 DEF OccurrencesJoined
  <2> QED
    BY <2>1, <2>2, <2>3 DEF InputNext
<1>3. InputSpec => []GraphInv
  BY GraphInvariance
<1> QED
  BY <1>1, <1>2, <1>3, InputInvariance, PTL DEF InputSpec
=============================================================================
