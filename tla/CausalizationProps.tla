------------------------- MODULE CausalizationProps -------------------------
(***************************************************************************)
(* Properties of the causalization, from a system of equations to the      *)
(* causal model.                                                           *)
(***************************************************************************)
EXTENDS VerticalSorting

(***************************************************************************)
(* Types: the order is a sequence of distinct vertices of the built graph, *)
(* and the walks hold vertices of it.                                      *)
(***************************************************************************)
SortTypeOK ==
  /\ stage \in Stages
  /\ Range(order) \subseteq out.V /\ IsInjective(order)
  /\ unsorted_sccs \subseteq FixedPoints(rmap)
  /\ unsorted_vertices \subseteq out.V
  /\ DOMAIN vertices_smap \subseteq out.V /\ DOMAIN sccs_smap \subseteq end_points
  /\ jth_scc \subseteq end_points /\ jth_vertices \subseteq out.V

-----------------------------------------------------------------------------
(* The causal model *)

(* The loops written, the one in turn the last of them. *)
Loops == Append(model, matchs)

(* The places of the entries: a loop, and the entry in it. *)
Places == UNION {{k} \X DOMAIN Loops[k] : k \in DOMAIN Loops}

EntryAt(a) == Loops[a[1]][a[2]]

Earlier(a, b) == a[1] < b[1] \/ (a[1] = b[1] /\ a[2] < b[2])

Kind(k) == {EntryAt(a).vertex : a \in {b \in Places : EntryAt(b).kind = k}}

GuessedVertices == {x \in residual : \E g \in Kind("guess") : g = guess_offset[x]}

(* The vertices whose unknowns occur in the equation of v, in the given system. *)
Reads == [v \in dsbg.V |->
            {w \in dsbg.V : \E e \in E : mapF[e] = mapF[v] /\ mapU[e] = mapU[w]}]

(***************************************************************************)
(* The walks over the order never dereference an empty map.                *)
(***************************************************************************)
NeverUndefined == stage # "undefined"

(* The vertices whose unknowns an entry gives a value, and those it reads. *)
Gives(e) == IF e.kind = "solve" THEN {e.vertex}
            ELSE IF e.kind = "guess" THEN {x \in residual : guess_offset[x] = e.vertex} ELSE {}

Needs(e) == IF e.kind = "solve" THEN Reads[e.vertex] \ {e.vertex}
            ELSE IF e.kind = "residual" THEN Reads[e.vertex] ELSE {}

(***************************************************************************)
(* The entries can be executed in the order they are written: an equation  *)
(* comes after the entries that give its other unknowns a value, and a     *)
(* residual equation also after the guess of its own unknown.              *)
(***************************************************************************)
Executable ==
  \A a \in Places :
    Needs(EntryAt(a)) \subseteq UNION {Gives(EntryAt(b)) : b \in {c \in Places : Earlier(c, a)}}

(***************************************************************************)
(* When the model is finished every equation is in it exactly once, solved *)
(* for its unknown or, if that is a tearing variable, as a residual        *)
(* equation, and the guess of every tearing variable is in it exactly once.*)
(***************************************************************************)
EveryEquationOnce ==
  stage = "sorted" =>
    \A v \in out.V :
      Cardinality({a \in Places : EntryAt(a) = Entry(kindOf(v), v)}) = 1

(***************************************************************************)
(* Within a loop, the equations res = 0 come once each, after all other    *)
(* equations ("Add res(...) = 0 equations at the end").                    *)
(***************************************************************************)
ResidualsZeroAtEnd ==
  \A k \in DOMAIN model :
    LET zeros == {i \in DOMAIN model[k] : model[k][i].kind \in {"zero", "moved"}}
        torn  == {i \in DOMAIN model[k] : model[k][i].kind = "residual"}
    IN  /\ Cardinality(zeros) = Cardinality(torn)
        /\ \A i \in zeros : \A j \in DOMAIN model[k] \ zeros : j < i

(***************************************************************************)
(* The causalization of a system comes to an end.                          *)
(***************************************************************************)
Terminates == <>(Stopped /\ stage # "undefined")

(***************************************************************************)
(* With one tearing variable in a loop the program implements CausalOrder. *)
(***************************************************************************)
Abstract == INSTANCE CausalOrder WITH
  reads   <- Reads,
  known   <- GuessedVertices \cup Kind("solve"),
  guessed <- GuessedVertices,
  used    <- Kind("solve") \cup Kind("residual")

ImplementsCausalOrder == Abstract!AbsSpec
=============================================================================
