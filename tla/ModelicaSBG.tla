----------------------------- MODULE ModelicaSBG -----------------------------
(***************************************************************************)
(* The class ModelicaSBG, which keeps for every set-vertex and set-edge of *)
(* a graph the equation or the variable it stands for.  The elements of a  *)
(* set-vertex are the indices of the Modelica array; its translation gives *)
(* them numbers of their own in the graph.  One dimension only.            *)
(***************************************************************************)
EXTENDS SBGraphs, SequencesExt

(* Set::translate *)
translate(S, t) == {x + t : x \in S}

maxDimPerimetral(S) == Max(S \cup {0})

NewModelicaSBG ==
  [set_vertices |-> <<>>, set_edges |-> <<>>, vertex_offset |-> 0, edge_offset |-> 0]

Affine(m, h) == [m |-> m, h |-> h]          \* Expression: m*x + h

SetVertex(id, set, translation, name, info) ==
  [node_id |-> id, set |-> set, translation |-> translation, name |-> name, info |-> info]

SetEdge(id, var_id, eq_id, domain, translation, access) ==
  [edge_id |-> id, var_id |-> var_id, eq_id |-> eq_id, domain |-> domain,
   translation |-> translation, access |-> access, map1 |-> Affine(1, 0), map2 |-> Affine(1, 0)]

Vertices(sv) == translate(sv.set, sv.translation)

translatedDomain(se) == translate(se.domain, se.translation)

\* mutant: the offset is taken before the translation
addSetVertexUntranslated(g, elems, name, info) ==
  LET sv == SetVertex(Len(g.set_vertices) + 1, elems, g.vertex_offset, name, info)
  IN  [g EXCEPT !.set_vertices = Append(@, sv), !.vertex_offset = maxDimPerimetral(elems)]

(* Set-vertices are numbered from 1, and their elements after those of the last one. *)
addSetVertex(g, elems, name, info) ==
  LET sv == SetVertex(Len(g.set_vertices) + 1, elems, g.vertex_offset, name, info)
  IN  [g EXCEPT !.set_vertices = Append(@, sv),
                !.vertex_offset = maxDimPerimetral(Vertices(sv))]

\* mutant: the number of the set-edge is taken from the set-vertices
addSetEdgeMisnumbered(g, var_id, eq_id, domain, access) ==
  LET se == SetEdge(Len(g.set_vertices), var_id, eq_id, domain, g.edge_offset, access)
  IN  [g EXCEPT !.set_edges = Append(@, se),
                !.edge_offset = maxDimPerimetral(translatedDomain(se))]

(* Set-edges are numbered from 0. *)
addSetEdge(g, var_id, eq_id, domain, access) ==
  LET se == SetEdge(Len(g.set_edges), var_id, eq_id, domain, g.edge_offset, access)
  IN  [g EXCEPT !.set_edges = Append(@, se),
                !.edge_offset = maxDimPerimetral(translatedDomain(se))]

(***************************************************************************)
(* A set-vertex or a set-edge of another graph keeps its translation and   *)
(* gets a number of this graph; set-edges are numbered from 1 here.  One   *)
(* without elements is not added.                                          *)
(***************************************************************************)
copySetVertex(g, sv) ==
  IF sv.set = {} THEN g
  ELSE [g EXCEPT !.set_vertices = Append(@, [sv EXCEPT !.node_id = Len(g.set_vertices) + 1]),
                 !.vertex_offset = maxDimPerimetral(Vertices(sv))]

copySetEdge(g, se) ==
  IF se.domain = {} THEN g
  ELSE [g EXCEPT !.set_edges = Append(@, [se EXCEPT !.edge_id = Len(g.set_edges) + 1]),
                 !.edge_offset = maxDimPerimetral(translatedDomain(se))]

(* A set-edge with a translation of its own. *)
addSetEdgeAt(g, var_id, eq_id, domain, t, access) ==
  LET se == SetEdge(Len(g.set_edges), var_id, eq_id, domain, t, access)
  IN  [g EXCEPT !.set_edges = Append(@, se),
                !.edge_offset = maxDimPerimetral(translatedDomain(se))]

\* mutant: the translation of the set-edge is not taken back
restrictUntranslated(se, restriction) ==
  [se EXCEPT !.domain = restriction \cap @]

(* SetEdge::restrict: the part of a set-edge whose edges are in the set. *)
restrict(se, restriction) ==
  [se EXCEPT !.domain = translate(restriction, -se.translation) \cap @]

(* The place of the first set-vertex, or set-edge, with the number. *)
setVertex(g, id) == SelectInSeq(g.set_vertices, LAMBDA sv : sv.node_id = id)
setEdge(g, id)   == SelectInSeq(g.set_edges, LAMBDA se : se.edge_id = id)
=============================================================================
