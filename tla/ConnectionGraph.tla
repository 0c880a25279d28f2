---------------------------- MODULE ConnectionGraph ----------------------------
(***************************************************************************)
(* GenerateSBGInput of src/flatter: after the flattening, the graph whose  *)
(* vertices are the elements of the symbols and whose edges are the        *)
(* connections.  One step is one of the functions buildFromModel calls, or *)
(* one turn of the loop of addSetEdges.  Models of one dimension only;     *)
(* with others nothing follows the flattening here.                        *)
(***************************************************************************)
EXTENDS Flattening, ModelicaSBG

VARIABLES
  connect_list,  \* the connections that have no set-edge yet
  sbg,           \* _modelica_sbg
  graph,         \* the graph of the result: [V, map1, map2]
  stage

gvars == <<connect_list, sbg, graph, stage>>
flat  == top.class

NoGraph == [V |-> {}, map1 |-> <<>>, map2 |-> <<>>]

GraphInit == Init /\ connect_list = <<>> /\ sbg = NewModelicaSBG /\ graph = NoGraph /\ stage = "flatten"

Flatten == stage = "flatten" /\ ~ Ended /\ Next /\ UNCHANGED gvars

OneDimension == pc = "done" /\ \A n \in DOMAIN flat.syms : Len(flat.syms[n].indices) =< 1

(* varInfoToSBGSet *)
varInfoToSBGSet(v) == IF v.indices = <<>> THEN {1} ELSE 1..EvalExpression(flat.syms, v.indices[1])

(* Every symbol: also time, parameters, and the components themselves *)
addVariableNodes ==
  /\ stage = "flatten" /\ OneDimension
  /\ LET Add(n, g) == addSetVertex(g, varInfoToSBGSet(flat.syms[n]), n, [of |-> n])
     IN  sbg' = FoldSet(Add, sbg, DOMAIN flat.syms)
  /\ stage' = "addSetEdges"
  /\ UNCHANGED <<vars, connect_list, graph>>

(***************************************************************************)
(* FlatterForVisitor: one loop for every equation inside of loops.  The    *)
(* loops a visit has entered are never left again.                         *)
(***************************************************************************)
RECURSIVE flatterFor(_, _)
flatterFor(acc, eq) ==
  LET inner == [acc EXCEPT !.bounds = @ \o eq.index]
      bounded == IF acc.bounds = <<>> THEN eq ELSE [kind |-> "for", index |-> acc.bounds, elements |-> <<eq>>]
  IN  IF eq.kind = "for" THEN FoldLeft(flatterFor, inner, eq.elements)
      ELSE [acc EXCEPT !.result = Append(@, bounded)]

isConnect(eq) == "connect" \in {eq.kind, IF eq.kind = "for" THEN eq.elements[1].kind ELSE eq.kind}

addSetEdges ==
  /\ stage = "addSetEdges"
  /\ LET eqs == flat.sec["equation"]
         one(k) == flatterFor([bounds |-> <<>>, result |-> <<>>], eqs[k]).result
     IN  connect_list' = SelectSeq(FlattenSeq([k \in DOMAIN eqs |-> one(k)]), isConnect)
  /\ stage' = "addSetEdge"
  /\ UNCHANGED <<vars, sbg, graph>>

-----------------------------------------------------------------------------
connected(eq) == LET c == IF eq.kind = "for" THEN eq.elements[1] ELSE eq
              IN  {c.exps[k].args[1] : k \in 1..2}
ranges(eq) == IF eq.kind = "for" THEN eq.index ELSE <<>>

(* endpoints: the first set-vertex that occurs, with one end or with both, and the next *)
matched(eq, sv) == {e \in connected(eq) : e.parts[1][1] = sv.name}
touched(eq) == SelectSeq(sbg.set_vertices, LAMBDA sv : matched(eq, sv) # {})

endpoints(eq) ==
  LET svs == touched(eq)
      twice == Cardinality(matched(eq, svs[1])) = 2
      other == IF twice THEN svs[1] ELSE svs[2]
  IN  IF svs = <<>> \/ Cardinality(UNION {matched(eq, svs[k]) : k \in DOMAIN svs}) # 2 THEN {}
      ELSE {[left |-> svs[1], l |-> l, right |-> other, r |-> r] :
              l \in matched(eq, svs[1]), r \in matched(eq, other)}
             \ {[left |-> svs[1], l |-> l, right |-> other, r |-> l] : l \in connected(eq)}

(* ExprVisitor: a subscript as an affine function of the counter of the loop *)
RECURSIVE ExprVisitor(_, _)
ExprVisitor(e, loop) ==
  LET a == ExprVisitor(e.args[1], loop)
      b == ExprVisitor(e.args[2], loop)
  IN  CASE e.kind = "num" -> Affine(0, e.n)
        [] e.kind = "ref" -> IF e.parts[1][1] \in loop THEN Affine(1, 0)
                             ELSE Affine(0, EvalExpression(flat.syms, e))
        [] e.kind = "op"  -> IF e.f = "+" THEN Affine(a.m + b.m, a.h + b.h) ELSE Affine(a.m - b.m, a.h - b.h)

referenceToExpression(access, loop) ==
  LET subs == access.parts[1][2] IN IF subs = <<>> THEN Affine(0, 1) ELSE ExprVisitor(subs[1], loop)

\* mutant: the translation of the set-edge is not taken back
createEdgeVarMapRaw(eq, se, sv, access) ==
  LET expr == referenceToExpression(access, {ranges(eq)[k][1] : k \in DOMAIN ranges(eq)})
  IN  Affine(expr.m, expr.h + sv.translation)
createEdgeVarMap(eq, se, sv, access) ==
  LET expr   == referenceToExpression(access, {ranges(eq)[k][1] : k \in DOMAIN ranges(eq)})
      scalar == ranges(eq) = <<>> \/ Cardinality(sv.set) = 1
      offset == sv.translation - se.translation + (IF scalar THEN se.translation ELSE 0)
  IN  Affine(expr.m, expr.h + offset)

(* EquationToSBGSet: a range that goes down ends the program. *)
bound(eq, k)    == EvalExpression(flat.syms, ranges(eq)[1][2].args[k])
\* mutant: every range is taken to go up
decreasingNever(eq) == FALSE
decreasing(eq)  == ranges(eq) # <<>> /\ bound(eq, 1) > bound(eq, 2)
domainOf(eq)    == IF ranges(eq) = <<>> THEN {1} ELSE bound(eq, 1)..bound(eq, 2)

edgeBetween(eq, p) ==
  LET g  == addSetEdge(sbg, p.left.node_id, p.right.node_id, domainOf(eq), NoExp)
      at == setEdge(g, Last(g.set_edges).edge_id)
      se == g.set_edges[at]
  IN  [g EXCEPT !.set_edges[at].map1 = createEdgeVarMap(eq, se, p.left, p.l),
                !.set_edges[at].map2 = createEdgeVarMap(eq, se, p.right, p.r)]

addSetEdgeOf ==
  /\ stage = "addSetEdge" /\ connect_list # <<>>
  /\ \E eq \in {Head(connect_list)} : \E pairs \in {endpoints(eq)} :
       IF pairs = {} \/ decreasing(eq)
       THEN stage' = "exit" /\ UNCHANGED <<connect_list, sbg>>
       ELSE /\ \E p \in pairs : sbg' = edgeBetween(eq, p)
            /\ connect_list' = Tail(connect_list) /\ stage' = stage
  /\ UNCHANGED <<vars, graph>>

(* The program that is written and evaluated; then the elements no edge ends in are erased. *)
generateMap(maps) ==
  [e \in UNION {translatedDomain(se) : se \in Range(sbg.set_edges)} |->
     LET k == CHOOSE k \in DOMAIN maps : e \in translatedDomain(sbg.set_edges[k]) IN maps[k].m * e + maps[k].h]

generateSBGInput ==
  LET map1 == generateMap([k \in DOMAIN sbg.set_edges |-> sbg.set_edges[k].map1])
      map2 == generateMap([k \in DOMAIN sbg.set_edges |-> sbg.set_edges[k].map2])
      V    == UNION {Vertices(sv) : sv \in Range(sbg.set_vertices)}
  IN  [V |-> V \cap (Range(map1) \cup Range(map2)), map1 |-> map1, map2 |-> map2]

buildGraph ==
  /\ stage = "addSetEdge" /\ connect_list = <<>>
  /\ graph' = generateSBGInput /\ stage' = "done"
  /\ UNCHANGED <<vars, connect_list, sbg>>

AllStopped ==
  /\ \/ stage \in {"done", "exit"}
     \/ stage = "flatten" /\ Ended /\ ~ OneDimension
  /\ UNCHANGED <<vars, gvars>>

GraphNext == Flatten \/ addVariableNodes \/ addSetEdges \/ addSetEdgeOf \/ buildGraph \/ AllStopped

GraphSpec == GraphInit /\ [][GraphNext]_<<vars, gvars>>
=============================================================================
