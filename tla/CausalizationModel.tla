------------------------- MODULE CausalizationModel -------------------------
(***************************************************************************)
(* What VerticalSortingResult writes: the vertices of the order, once each *)
(* and one after the other, for every system, every choice of its          *)
(* matching, components and tearing variables, and every order that keeps  *)
(* the loops together between their ends: every order, when one tearing    *)
(* variable in a loop is enough.                                           *)
(***************************************************************************)
EXTENDS CausalizationWalk, FiniteSetTheorems

Main  == {"guess", "solve", "residual"}
Apart == {"zero", "moved"}

Entries == [kind : Main \cup Apart, vertex : out.V \cup {0}]

WrittenOK ==
  /\ model \in Seq(Seq(Entries)) /\ matchs \in Seq(Entries) /\ residual_zero \in Seq(Entries)
  /\ \A i \in DOMAIN residual_zero : residual_zero[i].kind \in Apart

EntryOf(t) == Entry(kindOf(order[t]), order[t])

(***************************************************************************)
(* The entries, but for the equations res = 0, are those of the vertices   *)
(* before position q of the order, each at one place and in that order.    *)
(***************************************************************************)
OnlyBefore(q) ==
  \A a \in Places : EntryAt(a).kind \in Main =>
    \E t \in DOMAIN order : t < q /\ EntryAt(a) = EntryOf(t)

AllBefore(q) == \A t \in DOMAIN order : t < q => \E a \in Places : EntryAt(a) = EntryOf(t)

InOrder ==
  \A a, b \in Places : \A t, u \in DOMAIN order :
    EntryAt(a) = EntryOf(t) /\ EntryAt(b) = EntryOf(u)
      => /\ t < u => Earlier(a, b)
         /\ t = u => a = b

PlacedUpTo(q) == OnlyBefore(q) /\ AllBefore(q) /\ InOrder

-----------------------------------------------------------------------------
(* Places *)

LEMMA PlacesAre ==
  /\ \A k, i : <<k, i>> \in Places <=> k \in DOMAIN Loops /\ i \in DOMAIN Loops[k]
  /\ \A a \in Places : \E k, i : a = <<k, i>>
BY DEF Places

LEMMA KindFacts ==
  /\ \A v : kindOf(v) \in Main
  /\ Main \cap Apart = {}
  /\ \A k, v : Entry(k, v).kind = k /\ Entry(k, v).vertex = v
BY DEF kindOf, Main, Apart, Entry

(* Zeros are written behind what is there. *)
LEMMA ZerosBehind ==
  ASSUME NEW s \in Seq(Entries), NEW z \in Seq(Entries), \A i \in DOMAIN z : z[i].kind \in Apart
  PROVE  /\ s \o z \in Seq(Entries) /\ Len(s \o z) >= Len(s) /\ Len(s) \in Nat
         /\ \A i \in 1..Len(s) : (s \o z)[i] = s[i]
         /\ \A i \in DOMAIN (s \o z) : i =< Len(s) \/ (s \o z)[i].kind \in Apart
<1>1. s \o z \in Seq(Entries) /\ Len(s \o z) = Len(s) + Len(z) /\ Len(s) \in Nat /\ Len(z) \in Nat
  OBVIOUS
<1>2. \A i \in 1..Len(s) : (s \o z)[i] = s[i]
  OBVIOUS
<1>3. ASSUME NEW i \in DOMAIN (s \o z), ~ (i =< Len(s)) PROVE (s \o z)[i].kind \in Apart
  <2>1. i - Len(s) \in DOMAIN z /\ (s \o z)[i] = z[i - Len(s)]
    BY <1>1, <1>3
  <2> QED
    BY <2>1
<1> QED
  BY <1>1, <1>2, <1>3

LEMMA AsideFacts ==
  ASSUME NEW v \in out.V
  PROVE  /\ Entry(kindOf(v), v) \in Entries
         /\ setAside(v) \in Seq(Entries)
         /\ \A i \in DOMAIN setAside(v) : setAside(v)[i].kind \in Apart
<1>1. Entry(kindOf(v), v) \in Entries
  BY KindFacts DEF Entry, Entries
<1>2. Entry("zero", v) \in Entries /\ Entry("zero", v).kind \in Apart
  BY DEF Entry, Entries, Apart
<1>3. CASE v \in residual
  <2>1. setAside(v) = <<Entry("zero", v)>>
    BY <1>3 DEF setAside
  <2> QED
    BY <1>1, <1>2, <2>1
<1>4. CASE v \notin residual
  <2>1. setAside(v) = <<>>
    BY <1>4 DEF setAside
  <2> QED
    BY <1>1, <2>1
<1> QED
  BY <1>3, <1>4

(* An entry is written behind those that are there, and zeros behind it. *)
LEMMA VertexPlaced ==
  ASSUME WrittenOK, NEW v \in out.V, format(v), model' = model
  PROVE  /\ matchs' \in Seq(Entries)
         /\ \E n \in Places' :
              /\ EntryAt(n)' = Entry(kindOf(v), v)
              /\ \A a \in Places : a \in Places' /\ EntryAt(a)' = EntryAt(a) /\ Earlier(a, n)
              /\ \A a \in Places' : a \in Places \/ a = n \/ EntryAt(a)'.kind \in Apart
<1>1. PICK K \in Nat \ {0} : K = Len(model) + 1
  BY DEF WrittenOK
<1>2. PICK l \in Nat : l = Len(matchs)
  BY DEF WrittenOK
<1> DEFINE entry == Entry(kindOf(v), v)
           front == matchs \o <<entry>>
           mid   == front \o residual_zero
<1>3. /\ entry \in Entries
      /\ setAside(v) \in Seq(Entries) /\ \A i \in DOMAIN setAside(v) : setAside(v)[i].kind \in Apart
      /\ residual_zero \in Seq(Entries)
      /\ \A i \in DOMAIN residual_zero : residual_zero[i].kind \in Apart
  BY AsideFacts DEF WrittenOK
<1>4. matchs' = mid \o setAside(v)
  BY DEF format
<1> HIDE DEF entry
<1>5. /\ front \in Seq(Entries) /\ Len(front) = l + 1 /\ front[l + 1] = entry
      /\ \A i \in 1..l : front[i] = matchs[i]
  BY <1>2, <1>3 DEF WrittenOK
<1> HIDE DEF front
<1>6. /\ mid \in Seq(Entries) /\ Len(mid) >= l + 1 /\ Len(mid) \in Nat
      /\ \A i \in 1..l + 1 : mid[i] = front[i]
      /\ \A i \in DOMAIN mid : i =< l + 1 \/ mid[i].kind \in Apart
  BY <1>3, <1>5, ZerosBehind
<1> HIDE DEF mid
<1>7. /\ matchs' \in Seq(Entries) /\ Len(matchs') >= l + 1
      /\ \A i \in 1..l : matchs'[i] = matchs[i]
      /\ matchs'[l + 1] = entry
      /\ \A i \in DOMAIN matchs' : i =< l \/ i = l + 1 \/ matchs'[i].kind \in Apart
  <2>1. /\ matchs' \in Seq(Entries) /\ Len(matchs') >= Len(mid) /\ Len(matchs') \in Nat
        /\ \A i \in 1..Len(mid) : matchs'[i] = mid[i]
        /\ \A i \in DOMAIN matchs' : i =< Len(mid) \/ matchs'[i].kind \in Apart
    BY <1>3, <1>4, <1>6, ZerosBehind
  <2>2. \A i \in 1..l + 1 : matchs'[i] = front[i]
    BY <1>6, <2>1
  <2>3. ASSUME NEW i \in DOMAIN matchs', ~ (i =< l), i # l + 1 PROVE matchs'[i].kind \in Apart
    <3>1. i \in 1..Len(matchs')
      BY <2>1
    <3>2. CASE i =< Len(mid)
      <4>1. i \in DOMAIN mid /\ matchs'[i] = mid[i]
        BY <1>6, <2>1, <3>1, <3>2
      <4> QED
        BY <1>6, <2>3, <3>1, <4>1
    <3> QED
      BY <2>1, <3>2
  <2>4. Len(matchs') >= l + 1
    BY <1>6, <2>1
  <2>5. l + 1 \in 1..l + 1 /\ \A i \in 1..l : i \in 1..l + 1
    OBVIOUS
  <2> QED
    BY <1>5, <2>1, <2>2, <2>3, <2>4, <2>5
<1>8. /\ DOMAIN Loops = 1..K /\ Loops[K] = matchs /\ DOMAIN Loops' = 1..K /\ Loops'[K] = matchs'
      /\ \A k \in 1..K : k # K => Loops'[k] = Loops[k]
  BY <1>1, <1>7 DEF WrittenOK, Loops
<1>9. DOMAIN matchs = 1..l /\ l + 1 \in DOMAIN matchs' /\ 1..l \subseteq DOMAIN matchs'
  BY <1>2, <1>7 DEF WrittenOK
<1>10. /\ \A k, i : <<k, i>> \in Places' <=> k \in DOMAIN Loops' /\ i \in DOMAIN Loops'[k]
       /\ \A a \in Places' : \E k, i : a = <<k, i>>
  BY DEF Places
<1>11. /\ <<K, l + 1>> \in Places'
       /\ EntryAt(<<K, l + 1>>)' = entry
  <2>1. K \in DOMAIN Loops' /\ l + 1 \in DOMAIN Loops'[K]
    BY <1>8, <1>9
  <2>2. <<K, l + 1>> \in Places'
    BY <1>10, <2>1
  <2>3. EntryAt(<<K, l + 1>>)' = Loops'[K][l + 1]
    BY DEF EntryAt
  <2>4. Loops'[K][l + 1] = entry
    BY <1>7, <1>8
  <2> QED
    BY <2>2, <2>3, <2>4
<1>12. ASSUME NEW a \in Places
       PROVE  a \in Places' /\ EntryAt(a)' = EntryAt(a) /\ Earlier(a, <<K, l + 1>>)
  <2>1. PICK k, i : a = <<k, i>> /\ k \in 1..K /\ i \in DOMAIN Loops[k]
    BY <1>8, PlacesAre
  <2>2. CASE k = K
    BY <1>8, <1>9, <1>10, <1>7, <2>1, <2>2 DEF EntryAt, Earlier
  <2>3. CASE k # K
    BY <1>8, <1>10, <2>1, <2>3 DEF EntryAt, Earlier
  <2> QED
    BY <2>2, <2>3
<1>13. ASSUME NEW a \in Places', a \notin Places
       PROVE  a = <<K, l + 1>> \/ EntryAt(a)'.kind \in Apart
  <2>1. PICK k, i : a = <<k, i>> /\ k \in 1..K /\ i \in DOMAIN Loops'[k]
    BY <1>8, <1>10
  <2>2. k = K /\ i \in DOMAIN matchs' /\ i \notin 1..l
    BY <1>8, <1>9, <1>13, <2>1, PlacesAre
  <2>3. i = l + 1 \/ matchs'[i].kind \in Apart
    <3>1. i \in 1..Len(matchs') /\ Len(matchs') \in Nat
      BY <1>7, <2>2
    <3>2. ~ (i =< l)
      BY <2>2, <3>1
    <3> QED
      BY <1>7, <2>2, <3>2
  <2> QED
    BY <1>8, <2>1, <2>2, <2>3 DEF EntryAt
<1> QED
  BY <1>7, <1>11, <1>12, <1>13 DEF entry

-----------------------------------------------------------------------------
(* The steps of the walks *)

LEMMA EntriesStay ==
  ASSUME UNCHANGED <<graph, out, order>>
  PROVE  /\ \A t : EntryOf(t)' = EntryOf(t)
         /\ \A v : kindOf(v)' = kindOf(v)
         /\ Entries' = Entries
BY DEF EntryOf, kindOf, Entries, graph

LEMMA VertexTurn ==
  ASSUME OrderKnown, sortVertex, NEW p, NEW q, AtVertex(p, q)
  PROVE  /\ q \in DOMAIN order /\ order[q] \in out.V /\ format(order[q])
         /\ model' = model /\ UNCHANGED <<graph, out, order>>
<1>1. /\ q \in DOMAIN order
      /\ InTurn(vertices_smap, jth_vertices) = {order[q]}
  BY VertexFound DEF sortVertex
<1>2. format(order[q])
  BY <1>1 DEF sortVertex
<1> QED
  BY <1>1, <1>2, LoopsOnOrder DEF sortVertex, graph

LEMMA WrittenKept ==
  ASSUME OrderKnown, WrittenOK, sortVertex, NEW p, NEW q, AtVertex(p, q)
  PROVE  WrittenOK'
<1>1. /\ order \in Seq(out.V) /\ q \in DOMAIN order
      /\ format(order[q]) /\ UNCHANGED <<model, out>>
  BY VertexTurn, LoopsOnOrder
<1>2. PICK v \in out.V : format(v)
  BY <1>1
<1>3. matchs' \in Seq(Entries)
  BY <1>1, <1>2, VertexPlaced
<1>4. /\ residual_zero' \in Seq(Entries)
      /\ \A i \in DOMAIN residual_zero' : residual_zero'[i].kind \in Apart
  <2>1. PICK s \in Seq(Entries) : residual_zero' = [i \in DOMAIN s |-> Entry("moved", 0)]
    <3>1. setAside(v) \in Seq(Entries)
      BY AsideFacts
    <3>2. residual_zero \o setAside(v) \in Seq(Entries)
      BY <3>1 DEF WrittenOK
    <3> QED
      BY <1>2, <3>2 DEF format
  <2>2. Entry("moved", 0) \in Entries /\ Entry("moved", 0).kind \in Apart
    BY DEF Entry, Entries, Apart
  <2> QED
    BY <2>1, <2>2
<1> QED
  BY <1>1, <1>3, <1>4 DEF WrittenOK, Entries

(* A turn of sortLoop places the vertex that comes next on the order. *)
LEMMA VertexStep ==
  ASSUME OrderKnown, WrittenOK, sortVertex, NEW p, NEW q, AtVertex(p, q), PlacedUpTo(q)
  PROVE  PlacedUpTo(q + 1)'
<1>1. /\ order \in Seq(out.V) /\ Len(order) \in Nat /\ DOMAIN order = 1..Len(order)
      /\ \A i, j \in DOMAIN order : order[i] = order[j] => i = j
  BY LoopsOnOrder
<1>2. /\ q \in DOMAIN order /\ order[q] \in out.V /\ format(order[q])
      /\ model' = model /\ UNCHANGED <<graph, out, order>>
  BY VertexTurn
<1>3. PICK n \in Places' :
        /\ EntryAt(n)' = EntryOf(q)
        /\ \A a \in Places : a \in Places' /\ EntryAt(a)' = EntryAt(a) /\ Earlier(a, n)
        /\ \A a \in Places' : a \in Places \/ a = n \/ EntryAt(a)'.kind \in Apart
  BY <1>2, VertexPlaced DEF EntryOf
<1>4. \A t : EntryOf(t)' = EntryOf(t)
  BY <1>2, EntriesStay
<1>5. /\ \A t \in DOMAIN order : EntryOf(t).kind \in Main /\ EntryOf(t).kind \notin Apart
      /\ \A t, u \in DOMAIN order : EntryOf(t) = EntryOf(u) => t = u
  BY <1>1, KindFacts DEF EntryOf
<1>6. \A t \in DOMAIN order : t < q + 1 <=> t < q \/ t = q
  BY <1>1, <1>2
<1>7. OnlyBefore(q + 1)'
  <2> SUFFICES ASSUME NEW a \in Places', EntryAt(a)'.kind \in Main
               PROVE  \E t \in DOMAIN order : t < q + 1 /\ EntryAt(a)' = EntryOf(t)
    BY <1>2, <1>4 DEF OnlyBefore
  <2>1. a \in Places \/ a = n
    BY <1>3, KindFacts
  <2> QED
    BY <1>2, <1>3, <1>6, <2>1 DEF PlacedUpTo, OnlyBefore
<1>8. AllBefore(q + 1)'
  <2> SUFFICES ASSUME NEW t \in DOMAIN order, t < q + 1
               PROVE  \E a \in Places' : EntryAt(a)' = EntryOf(t)
    BY <1>2, <1>4 DEF AllBefore
  <2>1. CASE t < q
    BY <1>3, <2>1 DEF PlacedUpTo, AllBefore
  <2>2. CASE t = q
    BY <1>3, <2>2
  <2> QED
    BY <1>6, <2>1, <2>2
<1>9. InOrder'
  <2> SUFFICES ASSUME NEW a \in Places', NEW b \in Places', NEW t \in DOMAIN order, NEW u \in DOMAIN order,
                      EntryAt(a)' = EntryOf(t), EntryAt(b)' = EntryOf(u)
               PROVE  /\ t < u => Earlier(a, b)
                      /\ t = u => a = b
    BY <1>2, <1>4 DEF InOrder, Earlier
  <2>1. \A c \in Places : \A w \in DOMAIN order : EntryAt(c)' = EntryOf(w) => w < q
    <3> SUFFICES ASSUME NEW c \in Places, NEW w \in DOMAIN order, EntryAt(c)' = EntryOf(w) PROVE w < q
      OBVIOUS
    <3>1. EntryAt(c) = EntryOf(w)
      BY <1>3
    <3>2. PICK x \in DOMAIN order : x < q /\ EntryAt(c) = EntryOf(x)
      BY <1>5, <3>1 DEF PlacedUpTo, OnlyBefore
    <3> QED
      BY <1>5, <3>1, <3>2
  <2>2. (a \in Places \/ a = n) /\ (b \in Places \/ b = n)
    BY <1>3, <1>5
  <2>3. /\ a = n => t = q
        /\ b = n => u = q
    BY <1>2, <1>3, <1>5
  <2>4. CASE a \in Places /\ b \in Places
    BY <1>3, <2>4 DEF PlacedUpTo, InOrder
  <2>5. CASE a \in Places /\ b = n
    <3>1. t < q /\ u = q /\ Earlier(a, b)
      BY <1>3, <2>1, <2>3, <2>5
    <3> QED
      BY <1>1, <3>1
  <2>6. CASE a = n
    <3>1. t = q /\ (b \in Places => u < q) /\ (b = n => u = q)
      BY <2>1, <2>3, <2>6
    <3>2. \A x \in DOMAIN order : x \in Nat
      BY <1>1
    <3> QED
      BY <1>2, <2>2, <2>6, <3>1, <3>2
  <2> QED
    BY <2>2, <2>4, <2>5, <2>6
<1> QED
  BY <1>7, <1>8, <1>9 DEF PlacedUpTo
-----------------------------------------------------------------------------
(***************************************************************************)
(* What has been written at each stage, next to WInv.                      *)
(***************************************************************************)
Writing == {"sortLoops", "sortLoop", "sorted"}

MInv ==
  /\ WrittenOK
  /\ stage \notin Writing => model = <<>> /\ residual_zero = <<>>
  /\ stage # "sortLoop" => matchs = <<>>
  /\ stage = "sortLoops" => \E p : AtLoop(p) /\ PlacedUpTo(p)
  /\ stage = "sortLoop" => \E p, q : AtLoop(p) /\ AtVertex(p, q) /\ PlacedUpTo(q)
  /\ stage = "sorted" => PlacedUpTo(Len(order) + 1)

LEMMA InitMInv == SortInit => MInv
BY DEF SortInit, Init, MInv, WrittenOK, Writing

(* Nothing is written as long as there are no places. *)
LEMMA NothingWritten ==
  ASSUME model = <<>>, matchs = <<>>, order \in Seq(out.V)
  PROVE  PlacedUpTo(1)
<1>1. DOMAIN Loops = {1} /\ Loops[1] = <<>>
  BY DEF Loops
<1>2. Places = {}
  BY <1>1, PlacesAre
<1>3. \A t \in DOMAIN order : ~ (t < 1)
  OBVIOUS
<1> QED
  BY <1>2, <1>3 DEF PlacedUpTo, OnlyBefore, AllBefore, InOrder

(* What is written stays where it is, when the loop in turn is handed over. *)
LEMMA PlacesStay ==
  ASSUME WrittenOK,
         \/ UNCHANGED <<model, matchs>>
         \/ model' = Append(model, matchs) /\ matchs' = <<>>
  PROVE  Places' = Places /\ \A a \in Places : EntryAt(a)' = EntryAt(a)
<1>1. CASE UNCHANGED <<model, matchs>>
  <2>1. Loops' = Loops
    BY <1>1 DEF Loops
  <2> QED
    BY <2>1 DEF Places, EntryAt
<1>2. CASE model' = Append(model, matchs) /\ matchs' = <<>>
  <2>1. Loops \in Seq(Seq(Entries)) /\ Loops' = Append(Loops, <<>>)
    BY <1>2 DEF Loops, WrittenOK
  <2>2. /\ DOMAIN Loops' = DOMAIN Loops \cup {Len(Loops) + 1}
        /\ Loops'[Len(Loops) + 1] = <<>>
        /\ \A k \in DOMAIN Loops : Loops'[k] = Loops[k]
    BY <2>1
  <2>3. Places' = UNION {{k} \X DOMAIN Loops'[k] : k \in DOMAIN Loops'}
    BY DEF Places
  <2>4. Places' = Places
    BY <2>2, <2>3 DEF Places
  <2> QED
    BY <2>2, <2>4, PlacesAre DEF EntryAt
<1> QED
  BY <1>1, <1>2

LEMMA PlacedStays ==
  ASSUME WrittenOK, UNCHANGED <<graph, out, order>>,
         \/ UNCHANGED <<model, matchs>>
         \/ model' = Append(model, matchs) /\ matchs' = <<>>
  PROVE  \A q : PlacedUpTo(q) => PlacedUpTo(q)'
<1>1. Places' = Places /\ \A a \in Places : EntryAt(a)' = EntryAt(a)
  BY PlacesStay
<1>2. order' = order /\ \A t : EntryOf(t)' = EntryOf(t)
  BY EntriesStay
<1>3. SUFFICES ASSUME NEW q, PlacedUpTo(q) PROVE PlacedUpTo(q)'
  OBVIOUS
<1>4. OnlyBefore(q)'
  BY <1>1, <1>2, <1>3 DEF PlacedUpTo, OnlyBefore
<1>5. AllBefore(q)'
  BY <1>1, <1>2, <1>3 DEF PlacedUpTo, AllBefore
<1>6. InOrder'
  BY <1>1, <1>2, <1>3 DEF PlacedUpTo, InOrder, Earlier
<1> QED
  BY <1>4, <1>5, <1>6 DEF PlacedUpTo

LEMMA LoopHandedOver ==
  ASSUME WrittenOK, nextLoop
  PROVE  WrittenOK' /\ matchs' = <<>>
<1>1. /\ model' = Append(model, matchs) /\ matchs' = <<>>
      /\ UNCHANGED <<residual_zero, out>>
  BY DEF nextLoop
<1>2. model' \in Seq(Seq(Entries)) /\ matchs' \in Seq(Entries) /\ Entries' = Entries
  BY <1>1 DEF WrittenOK, Entries
<1> QED
  BY <1>1, <1>2 DEF WrittenOK
LEMMA WalkKnown ==
  ASSUME IInv, KInv, SInv, WInv, sortLoops \/ sortLoop \/ sortVertex \/ nextLoop
  PROVE  OrderKnown /\ UNCHANGED <<graph, out, end_points, reps_to_endpoints, order>>
<1>1. stage \in Built \ {"TopologicalSorting"} /\ stage \notin Untorn \cup {"addGuessVertices"}
  BY DEF sortLoops, sortLoop, sortVertex, nextLoop, Built, Stages, Untorn, Early
<1>2. OrderKnown
  BY <1>1 DEF WInv, OrderKnown
<1> QED
  BY <1>2 DEF sortLoops, sortLoop, sortVertex, nextLoop, graph

(* The stages before the walks leave the model empty. *)
LEMMA NotYetWritten ==
  ASSUME IInv, MInv, BuilderNext \/ TopologicalSorting, UNCHANGED svars
  PROVE  MInv'
<1>1. /\ stage \notin Writing /\ stage' \notin Writing
      /\ stage # "sortLoop" /\ UNCHANGED <<model, matchs, residual_zero>>
  BY DEF BuilderNext, HorizontalSorting, AlgebraicLoopsDetector, TearingDetector, build,
     addGuessVertices, endPoints, addDependencies, redirectEdiff, TopologicalSorting, Writing, svars
<1>2. model' = <<>> /\ matchs' = <<>> /\ residual_zero' = <<>>
  BY <1>1 DEF MInv
<1>3. WrittenOK'
  BY <1>2 DEF WrittenOK
<1> QED
  BY <1>1, <1>2, <1>3 DEF MInv, Writing

LEMMA NextMInv == IInv /\ KInv /\ SInv /\ WInv /\ MInv /\ [Next]_vars => MInv'
<1> SUFFICES ASSUME IInv, KInv, SInv, WInv, MInv, [Next]_vars PROVE MInv'
  OBVIOUS
<1>1. CASE BuilderNext /\ UNCHANGED <<order, svars>>
  BY <1>1, NotYetWritten
<1>2. CASE TopologicalSorting
  BY <1>2, NotYetWritten DEF TopologicalSorting
<1>3. ASSUME sortLoops \/ sortLoop \/ sortVertex \/ nextLoop
      PROVE  OrderKnown /\ UNCHANGED <<graph, out, end_points, reps_to_endpoints, order>>
  BY <1>3, WalkKnown
<1>4. CASE sortLoops
  <2>1. /\ stage = "toModelicaFormat" /\ stage' = "sortLoops"
        /\ UNCHANGED <<model, matchs, residual_zero, out, order>>
    BY <1>4 DEF sortLoops
  <2>2. model = <<>> /\ matchs = <<>> /\ WrittenOK
    BY <2>1 DEF MInv, Writing
  <2>3. AtLoop(1)'
    BY <1>3, <1>4, LoopsBegin
  <2>4. PlacedUpTo(1)'
    <3>1. PlacedUpTo(1)
      BY <2>2, NothingWritten DEF SInv
    <3> QED
      BY <1>3, <1>4, <2>1, <2>2, <3>1, PlacedStays
  <2>5. WrittenOK' /\ matchs' = <<>>
    BY <2>1, <2>2 DEF WrittenOK, Entries
  <2> QED
    BY <2>1, <2>3, <2>4, <2>5 DEF MInv, Writing
<1>5. CASE sortLoop
  <2>1. PICK p : AtLoop(p) /\ PlacedUpTo(p)
    BY <1>5 DEF MInv, sortLoop
  <2>2. stage = "sortLoops" /\ stage' = "sortLoop" /\ AtVertex(p, p)'
    BY <1>3, <1>5, <2>1, LoopBegins DEF sortLoop
  <2>3. matchs = <<>> /\ WrittenOK
    BY <2>2 DEF MInv
  <2>4. /\ matchs' = <<>> /\ residual_zero' = <<>>
        /\ UNCHANGED <<model, unsorted_sccs, sccs_smap, jth_scc>>
    BY <1>5, <2>2 DEF sortLoop
  <2>5. AtLoop(p)'
    BY <1>3, <1>5, <2>1, <2>4, OrderStays DEF AtLoop
  <2>6. PlacedUpTo(p)'
    BY <1>3, <1>5, <2>1, <2>3, <2>4, PlacedStays
  <2>7. WrittenOK'
    BY <1>3, <1>5, <2>3, <2>4 DEF WrittenOK, Entries
  <2> QED
    BY <2>2, <2>5, <2>6, <2>7 DEF MInv, Writing
<1>6. CASE sortVertex
  <2>1. PICK p, q : AtLoop(p) /\ AtVertex(p, q) /\ PlacedUpTo(q)
    BY <1>6 DEF MInv, sortVertex
  <2>2. stage = "sortLoop" /\ stage' = "sortLoop" /\ AtVertex(p, q + 1)'
    BY <1>3, <1>6, <2>1, VertexWritten DEF sortVertex
  <2>3. WrittenOK
    BY DEF MInv
  <2>4. WrittenOK' /\ PlacedUpTo(q + 1)'
    BY <1>3, <1>6, <2>1, <2>3, WrittenKept, VertexStep
  <2>5. AtLoop(p)'
    <3>1. UNCHANGED <<unsorted_sccs, sccs_smap, jth_scc>>
      BY <1>6 DEF sortVertex
    <3> QED
      BY <1>3, <1>6, <2>1, <3>1, OrderStays DEF AtLoop
  <2> QED
    BY <2>2, <2>4, <2>5 DEF MInv, Writing
<1>7. CASE nextLoop
  <2>1. PICK p, q : AtLoop(p) /\ AtVertex(p, q) /\ PlacedUpTo(q)
    BY <1>7 DEF MInv, nextLoop
  <2>2. stage' = "sortLoops" /\ AtLoop(q)'
    BY <1>3, <1>7, <2>1, LoopFollows DEF nextLoop
  <2>3. WrittenOK /\ WrittenOK' /\ matchs' = <<>>
    BY <1>7, LoopHandedOver DEF MInv
  <2>4. PlacedUpTo(q)'
    <3>1. model' = Append(model, matchs)
      BY <1>7 DEF nextLoop
    <3> QED
      BY <1>3, <1>7, <2>1, <2>3, <3>1, PlacedStays
  <2> QED
    BY <2>2, <2>3, <2>4 DEF MInv, Writing
<1>8. CASE Sorted
  <2>1. /\ stage = "sortLoops" /\ stage' = "sorted" /\ unsorted_sccs = {}
        /\ UNCHANGED <<model, matchs, residual_zero, graph, out, order>>
    BY <1>8 DEF Sorted, svars, graph
  <2>2. PICK p : AtLoop(p) /\ PlacedUpTo(p)
    BY <2>1 DEF MInv
  <2>3. PlacedUpTo(Len(order) + 1)
    <3>1. PICK n \in Nat : n = Len(order) /\ DOMAIN order = 1..n
      BY DEF SInv
    <3>2. From(p) = {} /\ p \in Nat
      <4>1. {LoopOf(i) : i \in From(p)} = {} /\ p \in Nat
        BY <2>1, <2>2 DEF AtLoop
      <4>2. \A i \in From(p) : LoopOf(i) \in {LoopOf(j) : j \in From(p)}
        OBVIOUS
      <4> QED
        BY <4>1, <4>2
    <3>3. n < p
      BY <3>1, <3>2 DEF From
    <3>4. \A t \in DOMAIN order : t < p /\ t < n + 1
      BY <3>1, <3>2, <3>3
    <3> QED
      BY <2>2, <3>1, <3>4 DEF PlacedUpTo, OnlyBefore, AllBefore
  <2>4. PlacedUpTo(Len(order) + 1)'
    BY <2>1, <2>3, PlacedStays DEF MInv
  <2>5. WrittenOK' /\ matchs' = <<>>
    BY <2>1 DEF MInv, WrittenOK, Entries
  <2> QED
    BY <2>1, <2>4, <2>5 DEF MInv, Writing
<1>9. CASE UNCHANGED vars
  <2>1. /\ UNCHANGED <<graph, out, end_points, reps_to_endpoints, order, stage, svars>>
        /\ UNCHANGED <<model, matchs, residual_zero>>
    BY <1>9 DEF vars, bvars, graph, svars
  <2>2. \A p, q : AtLoop(p)' = AtLoop(p) /\ AtVertex(p, q)' = AtVertex(p, q)
    BY <2>1, OrderStays DEF AtLoop, AtVertex, svars
  <2>3. WrittenOK /\ WrittenOK'
    BY <2>1 DEF MInv, WrittenOK, Entries
  <2>4. \A q : PlacedUpTo(q) => PlacedUpTo(q)'
    BY <2>1, <2>3, PlacedStays
  <2> QED
    BY <2>1, <2>2, <2>3, <2>4 DEF MInv
<1> QED
  BY <1>1, <1>2, <1>4, <1>5, <1>6, <1>7, <1>8, <1>9 DEF Next, Work

(***************************************************************************)
(* What the walks write, at each stage.                                    *)
(***************************************************************************)
THEOREM ModelInvariance ==
  ASSUME KeepsEnds
  PROVE  Spec => [](IInv /\ KInv /\ SInv /\ RInv /\ WInv /\ MInv)
<1> QED
  BY WalkInvariance, InitMInv, NextMInv, PTL DEF Spec

(***************************************************************************)
(* When the model is finished every equation is in it exactly once, and so *)
(* is the guess of every tearing variable: VerticalSortingResult neither   *)
(* leaves a vertex out nor writes one in two loops.  With several tearing  *)
(* variables in a loop the order has to keep to the ends of the loops.     *)
(***************************************************************************)
THEOREM WrittenOnce ==
  ASSUME KeepsEnds
  PROVE  Spec => []EveryEquationOnce
<1>1. ASSUME SInv, WInv, MInv PROVE EveryEquationOnce
  <2> SUFFICES ASSUME stage = "sorted", NEW v \in out.V
               PROVE  Cardinality({a \in Places : EntryAt(a) = Entry(kindOf(v), v)}) = 1
    BY DEF EveryEquationOnce
  <2>1. Range(order) = out.V /\ PlacedUpTo(Len(order) + 1)
    BY <1>1 DEF WInv, MInv, Whole, Built, Stages, Untorn, Early
  <2>2. PICK t \in DOMAIN order : order[t] = v
    BY <2>1 DEF Range
  <2>3. t < Len(order) + 1
    BY <1>1 DEF SInv
  <2>4. PICK a \in Places : EntryAt(a) = Entry(kindOf(v), v)
    BY <2>1, <2>2, <2>3 DEF PlacedUpTo, AllBefore, EntryOf
  <2>5. \A b \in Places : EntryAt(b) = Entry(kindOf(v), v) => a = b
    BY <2>1, <2>2, <2>4 DEF PlacedUpTo, InOrder, EntryOf
  <2>6. {b \in Places : EntryAt(b) = Entry(kindOf(v), v)} = {a}
    BY <2>4, <2>5
  <2> QED
    BY <2>6, FS_Singleton
<1> QED
  BY ModelInvariance, <1>1, PTL

-----------------------------------------------------------------------------
(***************************************************************************)
(* The causal model can be executed from its first entry to its last, for  *)
(* every system that one tearing variable in a loop is enough for, every   *)
(* choice of the matching, the components and the tearing variables, and   *)
(* every order that respects the edges and keeps the loops together,       *)
(* whether or not it keeps to the ends it is given for them: the           *)
(* causalization implements CausalOrder.                                   *)
(***************************************************************************)

-----------------------------------------------------------------------------
(* What an equation reads *)

(* The matching takes every equation and every unknown once. *)
LEMMA MatchingInjective ==
  ASSUME IsSystem(bsbg), Matched
  PROVE  /\ M \subseteq E /\ mapF \in [E -> bsbg.X] /\ mapU \in [E -> bsbg.Y]
         /\ \A a, b \in M : mapF[a] = mapF[b] => a = b
         /\ \A a, b \in M : mapU[a] = mapU[b] => a = b
<1>1. /\ M \subseteq E /\ IsFiniteSet(M)
      /\ mapF \in [E -> bsbg.X] /\ mapU \in [E -> bsbg.Y]
  BY SideFacts, FS_Subset DEF Matched, FullMatchings
<1>2. /\ Cardinality(M) = Cardinality(bsbg.Y) /\ Cardinality(M) = Cardinality(bsbg.X)
      /\ Image(mapU, M) = bsbg.Y /\ Image(mapF, M) = bsbg.X
  BY DEF Matched, FullMatchings, Balanced
<1>3. ASSUME NEW g, NEW S, g \in [E -> S], Image(g, M) = S, Cardinality(M) = Cardinality(S),
             NEW a \in M, NEW b \in M, g[a] = g[b]
      PROVE  a = b
  <2> DEFINE h == [x \in M |-> g[x]]
  <2>1. h \in Surjection(M, S)
    BY <1>1, <1>3 DEF Surjection, Image
  <2>2. h \in Injection(M, S)
    BY <1>1, <1>3, <2>1, FS_SurjSameCardinalityImpliesInj
  <2> QED
    BY <1>3, <2>2 DEF Injection, IsInjective
<1> QED
  BY <1>1, <1>2, <1>3

(* An edge of the loop detection graph leads from what is read to what reads. *)
LEMMA ReadEdge ==
  ASSUME IsSystem(bsbg), Matched, NEW v \in M, NEW w \in Reads[v]
  PROVE  w \in M /\ (w # v => \E e \in EdgesOf(dsbg) : dsbg.mapB[e] = w /\ dsbg.mapD[e] = v)
<1>1. dsbg.V = M /\ dsbg = buildLoopDetectionSBG
  BY DEF Matched, buildLoopDetectionSBG, buildSCCVertices, Graph
<1>2. PICK e \in E : w \in M /\ mapF[e] = mapF[v] /\ mapU[e] = mapU[w]
  BY <1>1 DEF Reads
<1>3. /\ M \subseteq E /\ mapF \in [E -> bsbg.X] /\ mapU \in [E -> bsbg.Y]
      /\ \A a, b \in M : mapF[a] = mapF[b] => a = b
      /\ \A a, b \in M : mapU[a] = mapU[b] => a = b
  BY MatchingInjective
<1>4. SUFFICES ASSUME w # v
               PROVE  e \in EdgesOf(dsbg) /\ dsbg.mapB[e] = w /\ dsbg.mapD[e] = v
  BY <1>2
<1>5. e \in E \ M
  BY <1>2, <1>3, <1>4
<1>6. ASSUME NEW g, NEW S, g \in [E -> S], \A a, b \in M : g[a] = g[b] => a = b,
             NEW m \in M, g[e] = g[m]
      PROVE  LET h == After(AntiFunction(Only(g, M)), Only(g, E \ M))
             IN  e \in DOMAIN h /\ h[e] = m
  <2> DEFINE k == Only(g, M)
             r == Only(g, E \ M)
  <2>1. /\ DOMAIN k = M /\ \A x \in M : k[x] = g[x]
        /\ DOMAIN r = E \ M /\ \A x \in E \ M : r[x] = g[x]
    BY <1>3, <1>6, OnlyWithin
  <2> HIDE DEF k, r
  <2>2. r[e] = k[m] /\ k[m] \in Range(k)
    BY <1>5, <1>6, <2>1 DEF Range
  <2>3. /\ DOMAIN AntiFunction(k) = Range(k)
        /\ AntiFunction(k)[k[m]] \in M /\ k[AntiFunction(k)[k[m]]] = k[m]
    BY <2>1, <2>2, InverseFacts
  <2>4. AntiFunction(k)[k[m]] = m
    BY <1>6, <2>1, <2>3
  <2>5. e \in DOMAIN After(AntiFunction(k), r) /\ After(AntiFunction(k), r)[e] = m
    BY <1>5, <2>1, <2>2, <2>3, <2>4 DEF After
  <2> QED
    BY <2>5 DEF k, r
<1>7. /\ e \in DOMAIN buildSCCEdges.mapB /\ buildSCCEdges.mapB[e] = w
      /\ e \in DOMAIN buildSCCEdges.mapD /\ buildSCCEdges.mapD[e] = v
  BY <1>2, <1>3, <1>6 DEF buildSCCEdges
<1> QED
  BY <1>1, <1>7 DEF buildLoopDetectionSBG, Graph, EdgesOf
(* A vertex gives the unknown of w a value: w itself, or the guess of w. *)
LEMMA GivenAtLeast ==
  ASSUME GuessesApart, OthersStay, residual \subseteq M, dsbg.V = M, NEW w \in M
  PROVE  w \in Gives(Entry(kindOf(guess_offset[w]), guess_offset[w]))
<1>1. CASE w \in residual
  <2>1. guess_offset[w] \notin M /\ kindOf(guess_offset[w]) = "guess"
    BY <1>1 DEF GuessesApart, kindOf
  <2> QED
    BY <1>1, <2>1 DEF Gives, Entry
<1>2. CASE w \notin residual
  <2>1. guess_offset[w] = w /\ kindOf(w) = "solve"
    BY <1>2 DEF OthersStay, kindOf
  <2> QED
    BY <2>1 DEF Gives, Entry
<1> QED
  BY <1>1, <1>2

(* A loop has begun with its start. *)
LEMMA LoopStarted ==
  ASSUME OrderKnown, NEW t \in DOMAIN order
  PROVE  \E i \in DOMAIN order : i =< t /\ order[i] = StartOf(LoopOf(t))
<1>1. PICK n \in Nat : n = Len(order) /\ DOMAIN order = 1..n
  BY LoopsOnOrder
<1> DEFINE S == {i \in 1..n : LoopOf(i) = LoopOf(t)}
<1>2. S \in SUBSET Nat /\ t \in S
  BY <1>1
<1>3. Min(S) \in S /\ \A x \in S : Min(S) =< x
  BY <1>2, LeastElement
<1>4. PICK i \in 1..n : i = Min(S) /\ LoopOf(i) = LoopOf(t)
  BY <1>3
<1> HIDE DEF S
<1>5. i =< t
  BY <1>2, <1>3, <1>4
<1>6. IsStart(i)
  <2>1. ASSUME i # 1 PROVE LoopOf(i - 1) # LoopOf(i)
    <3>1. i - 1 \in 1..n /\ ~ (i =< i - 1)
      BY <1>4, <2>1
    <3>2. i - 1 \notin S
      BY <1>3, <1>4, <3>1
    <3> QED
      BY <1>4, <3>1, <3>2 DEF S
  <2> QED
    BY <1>1, <2>1 DEF IsStart
<1>7. order[i] = StartOf(LoopOf(i))
  BY <1>1, <1>6 DEF OrderKnown, OrderOK, StartsFirst
<1> QED
  BY <1>1, <1>4, <1>5, <1>7

Ordered == OrderKnown /\ Matched /\ GuessesApart /\ PredecessorsFirst

LEMMA OrderedFacts ==
  ASSUME Ordered
  PROVE  /\ IsSystem(bsbg) /\ GraphOK /\ LoopsOK /\ GuessOK /\ EndpointsOK
         /\ residual \subseteq M /\ dsbg.V = M
         /\ OthersStay /\ InnerKept /\ OuterKept
<1>1. stage \in Built /\ IInv /\ KInv
  BY DEF Ordered, OrderKnown
<1>2. TornOK /\ GraphOK /\ OthersStay /\ InnerKept /\ OuterKept
  BY <1>1 DEF IInv, KInv, Built, Untorn, Early
<1> QED
  BY <1>1, <1>2, StartsTyped DEF IInv, StageOK, TornOK, Cuts, GraphOK

(* What an equation reads has its value before it, as it is or as its guess. *)
LEMMA ReadBefore ==
  ASSUME Ordered, NEW t \in DOMAIN order, order[t] \in M,
         NEW w \in Reads[order[t]], w # order[t]
  PROVE  \E s \in DOMAIN order : s < t /\ order[s] = guess_offset[w]
<1> DEFINE v == order[t]
           g == guess_offset[w]
<1>1. /\ IsSystem(bsbg) /\ GraphOK /\ LoopsOK /\ GuessOK /\ EndpointsOK
      /\ residual \subseteq M /\ dsbg.V = M /\ OthersStay /\ InnerKept /\ OuterKept
      /\ OrderKnown /\ Matched /\ GuessesApart /\ PredecessorsFirst
  BY OrderedFacts DEF Ordered
<1>2. PICK e \in EdgesOf(dsbg) : w \in M /\ dsbg.mapB[e] = w /\ dsbg.mapD[e] = v
  BY <1>1, ReadEdge
<1>3. v \in M /\ M \subseteq out.V /\ g \in out.V /\ out_rmap[g] = rmap[w] /\ out_rmap[v] = rmap[v]
  BY <1>1, <1>2 DEF GuessOK
<1> HIDE DEF v, g
<1>4. CASE rmap[w] = rmap[v]
  <2>1. e \notin Ediff
    BY <1>1, <1>2, <1>4 DEF LoopsOK
  <2>2. e \in EdgesOf(out) /\ out.mapB[e] = g /\ out.mapD[e] = v
    BY <1>1, <1>2, <2>1 DEF InnerKept, g
  <2>3. g # v
    <3>1. CASE w \in residual
      BY <1>1, <1>3, <3>1 DEF GuessesApart, g
    <3>2. CASE w \notin residual
      BY <1>1, <1>2, <3>2 DEF OthersStay, g, v
    <3> QED
      BY <3>1, <3>2
  <2>4. g \in Precedes(out, out.V \ {v}, v)
    BY <1>3, <2>2, <2>3 DEF Precedes
  <2> QED
    BY <1>1, <2>4 DEF PredecessorsFirst, v, g
<1>5. CASE rmap[w] # rmap[v]
  <2> DEFINE last  == reps_to_endpoints[rmap[w]]
             first == StartOf(rmap[v])
  <2>1. e \in Ediff
    BY <1>1, <1>2, <1>5 DEF LoopsOK
  <2>2. e \in EdgesOf(out) /\ out.mapB[e] = last /\ out.mapD[e] = first
    BY <1>1, <1>2, <2>1 DEF OuterKept
  <2>3. PICK i \in DOMAIN order : i =< t /\ order[i] = first
    BY <1>1, <1>3, LoopStarted DEF LoopOf, v
  <2>4. /\ rmap[w] \in FixedPoints(rmap) /\ rmap[v] \in FixedPoints(rmap)
        /\ last \in M /\ out_rmap[last] = rmap[w] /\ out_rmap[first] = rmap[v]
    <3>1. rmap[w] \in FixedPoints(rmap) /\ rmap[v] \in FixedPoints(rmap)
      BY <1>1, <1>2, <1>3 DEF GuessOK
    <3> QED
      BY <1>1, <3>1, StartsTyped DEF OrderKnown
  <2> HIDE DEF last, first
  <2>5. last \in Precedes(out, out.V \ {first}, first)
    BY <1>3, <1>5, <2>2, <2>4 DEF Precedes
  <2>6. PICK j \in DOMAIN order : j < i /\ order[j] = last
    BY <1>1, <2>3, <2>5 DEF PredecessorsFirst
  <2>7. order[j] = reps_to_endpoints[LoopOf(j)] /\ LoopOf(j) = rmap[w]
    BY <2>4, <2>6 DEF LoopOf, last
  <2>8. g \in Loop(LoopOf(j))
    BY <1>1, <1>3, <2>7 DEF Loop, preImage, GuessOK
  <2>9. PICK s \in DOMAIN order : s =< j /\ order[s] = g
    BY <1>1, <2>7, <2>8 DEF OrderKnown, OrderOK, EndedComplete
  <2>10. t \in Nat /\ i \in Nat /\ j \in Nat /\ s \in Nat
    BY <1>1, LoopsOnOrder
  <2> QED
    BY <2>3, <2>6, <2>9, <2>10 DEF g
<1> QED
  BY <1>4, <1>5

(* A tearing variable that is alone in its loop has its guess before its equation. *)
LEMMA GuessBefore ==
  ASSUME Ordered, OneTorn, NEW t \in DOMAIN order, order[t] \in residual
  PROVE  \E s \in DOMAIN order : s < t /\ order[s] = guess_offset[order[t]]
<1> DEFINE v == order[t]
<1>1. /\ GraphOK /\ LoopsOK /\ GuessOK /\ EndpointsOK /\ residual \subseteq M
      /\ OrderKnown /\ GuessesApart
  BY OrderedFacts DEF Ordered
<1>2. reps_to_endpoints[rmap[v]] = v
  <2>1. /\ reps_to_endpoints[rmap[v]] \in residual
        /\ rmap[reps_to_endpoints[rmap[v]]] = rmap[v]
    BY <1>1 DEF EndpointsOK
  <2> QED
    BY <2>1 DEF OneTorn
<1>3. LoopOf(t) = rmap[v]
  BY <1>1 DEF GuessOK, LoopOf
<1>4. PICK s \in DOMAIN order : s =< t /\ order[s] = guess_offset[v]
  BY <1>1, <1>2, <1>3, LoopStarted DEF StartOf
<1>5. s # t /\ s \in Nat /\ t \in Nat
  BY <1>1, <1>4, LoopsOnOrder DEF GuessesApart
<1> QED
  BY <1>4, <1>5

(* What an entry needs is given by the entries of vertices before. *)
LEMMA NeedsBefore ==
  ASSUME Ordered, OneTorn, NEW t \in DOMAIN order, NEW w \in Needs(EntryOf(t))
  PROVE  \E s \in DOMAIN order : s < t /\ w \in Gives(EntryOf(s))
<1>1. /\ residual \subseteq M /\ dsbg.V = M /\ OthersStay /\ GuessesApart /\ IsSystem(bsbg) /\ Matched
  BY OrderedFacts DEF Ordered
<1>2. /\ kindOf(order[t]) \in {"solve", "residual"} /\ order[t] \in M
      /\ w \in Reads[order[t]]
      /\ w = order[t] => order[t] \in residual
  BY <1>1 DEF Needs, EntryOf, Entry, kindOf
<1>3. w \in M
  BY <1>1, <1>2, ReadEdge
<1>4. PICK s \in DOMAIN order : s < t /\ order[s] = guess_offset[w]
  BY <1>2, ReadBefore, GuessBefore
<1>5. w \in Gives(EntryOf(s))
  BY <1>1, <1>3, <1>4, GivenAtLeast DEF EntryOf
<1> QED
  BY <1>4, <1>5

LEMMA PlacedExecutable ==
  ASSUME Ordered, OneTorn, NEW q, PlacedUpTo(q), q \in Int
  PROVE  Executable
<1> SUFFICES ASSUME NEW a \in Places, NEW w \in Needs(EntryAt(a))
             PROVE  \E b \in Places : Earlier(b, a) /\ w \in Gives(EntryAt(b))
  BY DEF Executable
<1>1. EntryAt(a).kind \in Main
  BY DEF Needs, Main
<1>2. PICK t \in DOMAIN order : t < q /\ EntryAt(a) = EntryOf(t)
  BY <1>1 DEF PlacedUpTo, OnlyBefore
<1>3. PICK s \in DOMAIN order : s < t /\ w \in Gives(EntryOf(s))
  BY <1>2, NeedsBefore
<1>4. s < q
  BY <1>2, <1>3, LoopsOnOrder DEF Ordered
<1>5. PICK b \in Places : EntryAt(b) = EntryOf(s)
  BY <1>4 DEF PlacedUpTo, AllBefore
<1> QED
  BY <1>2, <1>3, <1>5 DEF PlacedUpTo, InOrder
All == IInv /\ KInv /\ SInv /\ WInv /\ MInv /\ RInv

LEMMA WhileWriting ==
  ASSUME All, stage \in Writing \cup {"toModelicaFormat"}
  PROVE  Ordered
<1>1. /\ stage \in Built \ {"TopologicalSorting"} /\ stage \notin Untorn \cup {"addGuessVertices"}
      /\ stage \notin Early
  BY DEF Writing, Built, Stages, Untorn, Early
<1> QED
  BY <1>1 DEF All, WInv, RInv, Ordered, OrderKnown

LEMMA NoPlaces ==
  ASSUME MInv, stage \notin Writing
  PROVE  Places = {}
<1>1. model = <<>> /\ matchs = <<>>
  BY DEF MInv, Writing
<1>2. DOMAIN Loops = {1} /\ Loops[1] = <<>>
  BY <1>1 DEF Loops
<1> QED
  BY <1>2, PlacesAre

LEMMA AlwaysExecutable ==
  ASSUME All, MaxTearing =< 1
  PROVE  Executable
<1>1. CASE stage \in Writing
  <2>1. Ordered /\ OneTorn
    BY <1>1, WhileWriting DEF All, RInv, LoopsTorn, Writing, Untorn, Early
  <2>2. \E q \in Int : PlacedUpTo(q)
    <3>1. CASE stage = "sortLoops"
      <4>1. PICK q : AtLoop(q) /\ PlacedUpTo(q)
        BY <3>1 DEF All, MInv
      <4> QED
        BY <4>1 DEF AtLoop
    <3>2. CASE stage = "sortLoop"
      <4>1. PICK p, q : AtVertex(p, q) /\ PlacedUpTo(q)
        BY <3>2 DEF All, MInv
      <4> QED
        BY <4>1 DEF AtVertex
    <3>3. CASE stage = "sorted"
      <4>1. Len(order) + 1 \in Int
        BY DEF All, SInv
      <4> QED
        BY <3>3, <4>1 DEF All, MInv
    <3> QED
      BY <1>1, <3>1, <3>2, <3>3 DEF Writing
  <2> QED
    BY <2>1, <2>2, PlacedExecutable
<1>2. CASE stage \notin Writing
  <2>1. Places = {}
    BY <1>2, NoPlaces DEF All
  <2> QED
    BY <2>1 DEF Executable
<1> QED
  BY <1>1, <1>2

THEOREM AllInvariance ==
  ASSUME MaxTearing =< 1
  PROVE  Spec => []All
<1>1. KeepsEnds
  BY DEF KeepsEnds
<1> QED
  BY <1>1, ModelInvariance, PTL DEF All

(***************************************************************************)
(* The entries can be executed in the order they are written: when an      *)
(* equation is solved its other unknowns have a value, and when a residual *)
(* equation is evaluated all its unknowns have, its own from its guess.    *)
(***************************************************************************)
THEOREM CanBeExecuted ==
  ASSUME MaxTearing =< 1
  PROVE  Spec => []Executable
<1>1. All => Executable
  BY AlwaysExecutable
<1> QED
  BY AllInvariance, <1>1, PTL

-----------------------------------------------------------------------------
(* The steps, seen from CausalOrder *)

(* What has been written, by kind: the vertices before q. *)
Before(q, k) == {order[t] : t \in {s \in DOMAIN order : s < q /\ kindOf(order[s]) = k}}

KindsAsPlaced == \A q : \A k \in Main : PlacedUpTo(q) => Kind(k) = Before(q, k)

LEMMA KindsPlaced == KindsAsPlaced
<1> SUFFICES ASSUME NEW q, PlacedUpTo(q), NEW k \in Main PROVE Kind(k) = Before(q, k)
  BY DEF KindsAsPlaced
<1>1. ASSUME NEW v \in Kind(k) PROVE v \in Before(q, k)
  <2>1. PICK a \in Places : EntryAt(a).kind = k /\ v = EntryAt(a).vertex
    BY DEF Kind
  <2>2. PICK t \in DOMAIN order : t < q /\ EntryAt(a) = EntryOf(t)
    BY <2>1 DEF PlacedUpTo, OnlyBefore
  <2> QED
    BY <2>1, <2>2 DEF EntryOf, Entry, Before
<1>2. ASSUME NEW v \in Before(q, k) PROVE v \in Kind(k)
  <2>1. PICK t \in DOMAIN order : t < q /\ kindOf(order[t]) = k /\ v = order[t]
    BY DEF Before
  <2>2. PICK a \in Places : EntryAt(a) = EntryOf(t)
    BY <2>1 DEF PlacedUpTo, AllBefore
  <2> QED
    BY <2>1, <2>2 DEF EntryOf, Entry, Kind
<1> QED
  BY <1>1, <1>2

LEMMA KindsPlacedNext == KindsAsPlaced'
BY KindsPlaced, PTL

(* A turn of sortLoop adds the vertex it writes to those of its kind. *)
LEMMA KindsGrow ==
  ASSUME OrderKnown, WrittenOK, sortVertex, NEW p, NEW q, AtVertex(p, q), PlacedUpTo(q),
         NEW k \in Main
  PROVE  /\ order[q] \notin Kind(k)
         /\ Kind(k)' = Kind(k) \cup (IF kindOf(order[q]) = k THEN {order[q]} ELSE {})
<1>1. /\ Len(order) \in Nat /\ DOMAIN order = 1..Len(order) /\ q \in DOMAIN order
      /\ \A i, j \in DOMAIN order : order[i] = order[j] => i = j
  BY LoopsOnOrder, VertexTurn
<1>2. PlacedUpTo(q + 1)'
  BY VertexStep
<1>3. /\ order' = order
      /\ \A v : kindOf(v)' = kindOf(v)
  BY VertexTurn, EntriesStay
<1>4. Kind(k) = Before(q, k)
  BY KindsPlaced DEF KindsAsPlaced
<1>5. Kind(k)' = Before(q + 1, k)
  <2>1. Kind(k)' = Before(q + 1, k)'
    BY <1>2, KindsPlacedNext DEF KindsAsPlaced
  <2> QED
    BY <1>3, <2>1 DEF Before
<1>6. \A s \in DOMAIN order : s < q + 1 <=> s < q \/ s = q
  BY <1>1
<1>7. order[q] \notin Kind(k)
  BY <1>1, <1>4 DEF Before
<1> QED
  BY <1>1, <1>4, <1>5, <1>6, <1>7 DEF Before
LEMMA ReadsStay ==
  ASSUME UNCHANGED <<bsbg, M, dsbg>>
  PROVE  Reads' = Reads
<1>1. mapF' = mapF /\ mapU' = mapU /\ E' = E
  BY DEF mapF, mapU, Side, E
<1> QED
  BY <1>1 DEF Reads

LEMMA WrittenStays ==
  ASSUME WrittenOK, UNCHANGED <<residual, guess_offset>>,
         \/ UNCHANGED <<model, matchs>>
         \/ model' = Append(model, matchs) /\ matchs' = <<>>
  PROVE  GuessedVertices' = GuessedVertices /\ \A k : Kind(k)' = Kind(k)
<1>1. Places' = Places /\ \A a \in Places : EntryAt(a)' = EntryAt(a)
  BY PlacesStay
<1>2. \A k : Kind(k)' = Kind(k)
  BY <1>1 DEF Kind
<1> QED
  BY <1>2 DEF GuessedVertices

LEMMA InitRefines == SortInit => Abstract!AbsInit
<1> SUFFICES ASSUME SortInit PROVE Abstract!AbsInit
  OBVIOUS
<1>1. dsbg.V = {} /\ MInv /\ stage \notin Writing
  BY InitMInv DEF SortInit, Init, NoGraph, Graph, Writing
<1>2. Reads = [v \in {} |-> {}]
  BY <1>1 DEF Reads
<1>3. Kind("guess") = {} /\ Kind("solve") = {} /\ Kind("residual") = {} /\ GuessedVertices = {}
  BY <1>1, NoPlaces DEF Kind, GuessedVertices
<1> QED
  BY <1>2, <1>3 DEF Abstract!AbsInit

(* Until the walks begin nothing is known; at most a matching is chosen. *)
LEMMA BeginningRefines ==
  ASSUME All, (BuilderNext /\ UNCHANGED svars) \/ TopologicalSorting \/ sortLoops
  PROVE  Abstract!AbsNext \/ UNCHANGED Abstract!avars
<1>1. Places = {} /\ Places' = {}
  <2>1. stage \notin Writing /\ UNCHANGED <<model, matchs>>
    BY DEF BuilderNext, HorizontalSorting, AlgebraicLoopsDetector, TearingDetector, build,
       addGuessVertices, endPoints, addDependencies, redirectEdiff, TopologicalSorting, sortLoops,
       Writing, svars
  <2>2. WrittenOK /\ Places = {}
    BY <2>1, NoPlaces DEF All, MInv
  <2> QED
    BY <2>1, <2>2, PlacesStay
<1>2. \A k : Kind(k) = {} /\ Kind(k)' = {}
  BY <1>1 DEF Kind
<1>3. GuessedVertices = {} /\ GuessedVertices' = {}
  BY <1>2 DEF GuessedVertices
<1>4. CASE HorizontalSorting
  <2>1. dsbg = NoGraph /\ dsbg' = NoGraph
    BY <1>4 DEF HorizontalSorting, All, RInv, Early
  <2>2. Reads' = Reads
    <3>1. dsbg.V = {} /\ dsbg'.V = {}
      BY <2>1 DEF NoGraph, Graph
    <3> QED
      BY <3>1 DEF Reads
  <2> QED
    BY <1>2, <1>3, <2>2 DEF Abstract!avars
<1>5. CASE AlgebraicLoopsDetector
  <2>1. DOMAIN Reads = {}
    BY <1>5 DEF AlgebraicLoopsDetector, All, RInv, Early, NoGraph, Graph, Reads
  <2>2. \A v \in DOMAIN Reads' : Reads'[v] \subseteq DOMAIN Reads'
    BY DEF Reads
  <2>3. CASE DOMAIN Reads' = {}
    <3>1. dsbg.V = {} /\ dsbg'.V = {}
      BY <2>1, <2>3 DEF Reads
    <3>2. Reads' = Reads
      BY <3>1 DEF Reads
    <3> QED
      BY <1>2, <1>3, <3>2 DEF Abstract!avars
  <2>4. CASE DOMAIN Reads' # {}
    BY <1>2, <1>3, <2>1, <2>2, <2>4 DEF Abstract!AbsNext, Abstract!Match
  <2> QED
    BY <2>3, <2>4
<1>6. CASE TearingDetector \/ build \/ TopologicalSorting \/ sortLoops
  <2>1. UNCHANGED <<bsbg, M, dsbg>>
    BY <1>6 DEF TearingDetector, build, addGuessVertices, endPoints, addDependencies, redirectEdiff,
       TopologicalSorting, sortLoops
  <2> QED
    BY <1>2, <1>3, <2>1, ReadsStay DEF Abstract!avars
<1> QED
  BY <1>4, <1>5, <1>6 DEF BuilderNext

(* Between the turns of sortLoop nothing is written. *)
LEMMA BetweenRefines ==
  ASSUME All, sortLoop \/ nextLoop \/ Sorted \/ UNCHANGED vars
  PROVE  UNCHANGED Abstract!avars
<1>1. WrittenOK /\ (stage # "sortLoop" => matchs = <<>>)
  BY DEF All, MInv
<1>2. UNCHANGED <<bsbg, M, dsbg, residual, guess_offset>>
  BY DEF sortLoop, nextLoop, Sorted, vars, bvars
<1>3. \/ UNCHANGED <<model, matchs>>
      \/ model' = Append(model, matchs) /\ matchs' = <<>>
  <2>1. CASE sortLoop
    BY <1>1, <2>1 DEF sortLoop, svars
  <2>2. CASE nextLoop
    BY <2>2 DEF nextLoop
  <2>3. CASE Sorted \/ UNCHANGED vars
    BY <2>3 DEF Sorted, vars, svars
  <2> QED
    BY <2>1, <2>2, <2>3
<1> QED
  BY <1>1, <1>2, <1>3, ReadsStay, WrittenStays DEF Abstract!avars

(* What a vertex in turn needs is known. *)
LEMMA NeedsKnown ==
  ASSUME Ordered, OneTorn, NEW q \in DOMAIN order, PlacedUpTo(q)
  PROVE  Needs(EntryOf(q)) \subseteq GuessedVertices \cup Kind("solve")
<1> SUFFICES ASSUME NEW w \in Needs(EntryOf(q)) PROVE w \in GuessedVertices \cup Kind("solve")
  OBVIOUS
<1>1. PICK s \in DOMAIN order : s < q /\ w \in Gives(EntryOf(s))
  BY NeedsBefore
<1>2. Kind("solve") = Before(q, "solve") /\ Kind("guess") = Before(q, "guess")
  BY KindsPlaced DEF KindsAsPlaced, Main
<1>3. CASE kindOf(order[s]) = "solve"
  BY <1>1, <1>2, <1>3 DEF Gives, EntryOf, Entry, Before
<1>4. CASE kindOf(order[s]) = "guess"
  BY <1>1, <1>2, <1>4 DEF Gives, EntryOf, Entry, Before, GuessedVertices
<1>5. CASE kindOf(order[s]) = "residual"
  BY <1>1, <1>5 DEF Gives, EntryOf, Entry
<1> QED
  BY <1>3, <1>4, <1>5, KindFacts DEF Main

(* A turn of sortLoop guesses, solves or evaluates the vertex it writes. *)
LEMMA TurnRefines ==
  ASSUME All, MaxTearing =< 1, sortVertex
  PROVE  Abstract!AbsNext
<1>1. /\ stage = "sortLoop" /\ Ordered /\ OneTorn /\ WrittenOK
      /\ UNCHANGED <<bsbg, M, dsbg, residual, guess_offset>>
  BY WhileWriting DEF sortVertex, All, RInv, LoopsTorn, MInv, Writing, Untorn, Early
<1>2. PICK p, q : AtVertex(p, q) /\ PlacedUpTo(q)
  BY <1>1 DEF All, MInv
<1>3. PICK v \in out.V : v = order[q] /\ q \in DOMAIN order
  BY <1>1, <1>2, VertexTurn DEF Ordered
<1>4. \A k \in Main : /\ v \notin Kind(k)
                      /\ Kind(k)' = Kind(k) \cup (IF kindOf(v) = k THEN {v} ELSE {})
  BY <1>1, <1>2, <1>3, KindsGrow DEF Ordered
<1>5. Reads' = Reads /\ DOMAIN Reads = M
  BY <1>1, ReadsStay, OrderedFacts DEF Reads
<1>6. Needs(Entry(kindOf(v), v)) \subseteq GuessedVertices \cup Kind("solve")
  BY <1>1, <1>2, <1>3, NeedsKnown DEF EntryOf
<1>7. /\ residual \subseteq M /\ dsbg.V = M /\ GuessesApart
      /\ \A k \in Main : \A w \in Kind(k) : kindOf(w) = k
  <2>1. \A k \in Main : Kind(k) = Before(q, k)
    BY <1>2, KindsPlaced DEF KindsAsPlaced
  <2> QED
    BY <1>1, <2>1, OrderedFacts DEF Ordered, Before
<1>8. GuessedVertices' = {x \in residual : \E g \in Kind("guess")' : g = guess_offset[x]}
  BY <1>1 DEF GuessedVertices
<1>9. CASE kindOf(v) = "solve"
  <2>1. v \in M /\ v \notin residual
    BY <1>7, <1>9 DEF kindOf
  <2>2. /\ Kind("solve")' = Kind("solve") \cup {v}
        /\ Kind("guess")' = Kind("guess") /\ Kind("residual")' = Kind("residual")
        /\ v \notin Kind("solve") /\ v \notin Kind("residual")
    BY <1>4, <1>9 DEF Main
  <2>3. GuessedVertices' = GuessedVertices /\ v \notin GuessedVertices
    BY <1>8, <2>1, <2>2 DEF GuessedVertices
  <2>4. Reads[v] \ {v} \subseteq GuessedVertices \cup Kind("solve")
    BY <1>6, <1>9 DEF Needs, Entry
  <2>5. Abstract!Solve(v)
    BY <1>5, <2>2, <2>3, <2>4 DEF Abstract!Solve
  <2> QED
    BY <1>5, <2>1, <2>5 DEF Abstract!AbsNext
<1>10. CASE kindOf(v) = "guess"
  <2>1. v \in out.V \ M
    BY <1>7, <1>10 DEF kindOf
  <2>2. PICK x \in residual : guess_offset[x] = v
    BY <1>7, <2>1 DEF GuessesApart
  <2>3. /\ Kind("guess")' = Kind("guess") \cup {v}
        /\ Kind("solve")' = Kind("solve") /\ Kind("residual")' = Kind("residual")
        /\ v \notin Kind("guess")
    BY <1>4, <1>10 DEF Main
  <2>4. GuessedVertices' = GuessedVertices \cup {x} /\ x \notin GuessedVertices
    BY <1>7, <1>8, <2>2, <2>3 DEF GuessedVertices, GuessesApart
  <2>5. x \notin Kind("solve")
    <3>1. kindOf(x) = "residual"
      BY DEF kindOf
    <3> QED
      BY <1>7, <3>1 DEF Main
  <2>6. Abstract!Guess(x)
    BY <1>5, <2>3, <2>4, <2>5 DEF Abstract!Guess
  <2> QED
    BY <1>5, <1>7, <2>6 DEF Abstract!AbsNext
<1>11. CASE kindOf(v) = "residual"
  <2>1. v \in residual
    BY <1>7, <1>11 DEF kindOf
  <2>2. /\ Kind("residual")' = Kind("residual") \cup {v}
        /\ Kind("guess")' = Kind("guess") /\ Kind("solve")' = Kind("solve")
        /\ v \notin Kind("solve") /\ v \notin Kind("residual")
    BY <1>4, <1>11 DEF Main
  <2>3. GuessedVertices' = GuessedVertices
    BY <1>8, <2>2 DEF GuessedVertices
  <2>4. v \in GuessedVertices
    <3>1. PICK s \in DOMAIN order : s < q /\ order[s] = guess_offset[v]
      BY <1>1, <1>3, <2>1, GuessBefore
    <3>2. kindOf(guess_offset[v]) = "guess"
      BY <1>7, <2>1 DEF GuessesApart, kindOf
    <3>3. guess_offset[v] \in Kind("guess")
      BY <1>2, <3>1, <3>2, KindsPlaced DEF KindsAsPlaced, Before, Main
    <3> QED
      BY <2>1, <3>3 DEF GuessedVertices
  <2>5. Reads[v] \subseteq GuessedVertices \cup Kind("solve")
    BY <1>6, <1>11 DEF Needs, Entry
  <2>6. Abstract!Residual(v)
    BY <1>5, <2>2, <2>3, <2>4, <2>5 DEF Abstract!Residual
  <2> QED
    BY <1>5, <1>7, <2>1, <2>6 DEF Abstract!AbsNext
<1> QED
  BY <1>9, <1>10, <1>11, KindFacts DEF Main

(***************************************************************************)
(* The causalization implements CausalOrder, step by step: it chooses a    *)
(* matching, and each turn of sortLoop guesses an unknown, solves an       *)
(* equation for its unknown or evaluates a residual equation when the      *)
(* abstract specification allows it; every other step is a stutter.        *)
(***************************************************************************)
THEOREM Implements ==
  ASSUME MaxTearing =< 1
  PROVE  Spec => ImplementsCausalOrder
<1>1. All /\ [Next]_vars => [Abstract!AbsNext]_Abstract!avars
  <2> SUFFICES ASSUME All, [Next]_vars PROVE [Abstract!AbsNext]_Abstract!avars
    OBVIOUS
  <2>1. CASE (BuilderNext /\ UNCHANGED <<order, svars>>) \/ TopologicalSorting \/ sortLoops
    BY <2>1, BeginningRefines
  <2>2. CASE sortLoop \/ nextLoop \/ Sorted \/ UNCHANGED vars
    BY <2>2, BetweenRefines
  <2>3. CASE sortVertex
    BY <2>3, TurnRefines
  <2> QED
    BY <2>1, <2>2, <2>3 DEF Next, Work
<1> QED
  BY AllInvariance, InitRefines, <1>1, PTL DEF Spec, ImplementsCausalOrder, Abstract!AbsSpec
-----------------------------------------------------------------------------
(* The equations res = 0 *)

ZerosOf(s) == {i \in DOMAIN s : s[i].kind \in Apart}
TornOf(s)  == {i \in DOMAIN s : s[i].kind = "residual"}

ZerosLast(s) ==
  /\ Cardinality(ZerosOf(s)) = Cardinality(TornOf(s))
  /\ \A i \in ZerosOf(s) : \A j \in DOMAIN s \ ZerosOf(s) : j < i

Untouched(s) == ZerosOf(s) = {} /\ TornOf(s) = {}

(* A loop has no residual equation yet, or none of its vertices is left. *)
ZInv ==
  /\ \A k \in DOMAIN model : ZerosLast(model[k])
  /\ stage = "sortLoop" => ZerosLast(matchs)
  /\ stage = "sortLoop" /\ unsorted_vertices # {} => residual_zero = <<>> /\ Untouched(matchs)

LEMMA UntouchedLast == \A s : Untouched(s) => ZerosLast(s)
BY DEF Untouched, ZerosLast

LEMMA InitZInv == SortInit => ZInv
BY DEF SortInit, Init, ZInv

(* The tearing variable of a loop is the last of its vertices in turn. *)
LEMMA TornInTurn ==
  ASSUME Ordered, OneTorn, NEW p, NEW q, AtVertex(p, q), q \in DOMAIN order,
         LoopOf(q) = LoopOf(p), order[q] \in residual
  PROVE  unsorted_vertices \subseteq {order[q]}
<1> SUFFICES ASSUME NEW u \in unsorted_vertices PROVE u = order[q]
  OBVIOUS
<1>1. /\ GuessOK /\ EndpointsOK /\ residual \subseteq M /\ OrderKnown
  BY OrderedFacts DEF Ordered
<1>2. /\ Len(order) \in Nat /\ DOMAIN order = 1..Len(order)
      /\ \A i, j \in DOMAIN order : order[i] = order[j] => i = j
      /\ \A i \in DOMAIN order : order[i] \in out.V
  BY <1>1, LoopsOnOrder
<1>3. order[q] = reps_to_endpoints[LoopOf(q)]
  <2>1. LoopOf(q) = rmap[order[q]]
    BY <1>1 DEF GuessOK, LoopOf
  <2>2. /\ reps_to_endpoints[rmap[order[q]]] \in residual
        /\ rmap[reps_to_endpoints[rmap[order[q]]]] = rmap[order[q]]
    BY <1>1 DEF EndpointsOK
  <2> QED
    BY <2>1, <2>2 DEF OneTorn
<1>4. PICK i \in From(q) : LoopOf(i) = LoopOf(q) /\ u = order[i]
  BY DEF AtVertex
<1>5. i \in DOMAIN order /\ q =< i
  BY <1>2, <1>4 DEF From
<1>6. order[i] \in Loop(LoopOf(q))
  BY <1>1, <1>2, <1>4, <1>5 DEF Loop, preImage, GuessOK, LoopOf
<1>7. PICK j \in DOMAIN order : j =< q /\ order[j] = order[i]
  BY <1>1, <1>3, <1>6 DEF OrderKnown, OrderOK, EndedComplete
<1>8. i = q
  BY <1>2, <1>5, <1>7
<1> QED
  BY <1>4, <1>8

(* The first residual equation of a loop is written with its res = 0 behind it. *)
LEMMA ZeroBehind ==
  ASSUME NEW s \in Seq(Entries), Untouched(s),
         NEW e \in Entries, e.kind = "residual", NEW z \in Entries, z.kind \in Apart
  PROVE  ZerosLast(s \o <<e>> \o <<>> \o <<z>>)
<1> DEFINE w == s \o <<e>> \o <<>> \o <<z>>
<1>1. PICK l \in Nat : l = Len(s) /\ DOMAIN s = 1..l
  OBVIOUS
<1>2. /\ DOMAIN w = 1..(l + 2) /\ w[l + 1] = e /\ w[l + 2] = z
      /\ \A i \in 1..l : w[i] = s[i]
  BY <1>1
<1> HIDE DEF w
<1>3. \A i \in 1..l : w[i].kind \notin Apart /\ w[i].kind # "residual"
  BY <1>1, <1>2 DEF Untouched, ZerosOf, TornOf
<1>4. ZerosOf(w) = {l + 2} /\ TornOf(w) = {l + 1}
  <2>1. \A i \in DOMAIN w : i \in 1..l \/ i = l + 1 \/ i = l + 2
    BY <1>2
  <2>2. e.kind \notin Apart /\ z.kind # "residual"
    BY DEF Apart
  <2> QED
    BY <1>2, <1>3, <2>1, <2>2 DEF ZerosOf, TornOf
<1>5. \A j \in DOMAIN w \ {l + 2} : j < l + 2
  BY <1>2
<1>6. ZerosLast(w)
  <2>1. Cardinality(ZerosOf(w)) = Cardinality(TornOf(w))
    <3>1. \A x : Cardinality({x}) = 1
      BY FS_Singleton
    <3> QED
      BY <1>4, <3>1
  <2> QED
    BY <1>4, <1>5, <2>1 DEF ZerosLast
<1> QED
  BY <1>6 DEF w

LEMMA StillUntouched ==
  ASSUME NEW s \in Seq(Entries), Untouched(s), NEW e \in Entries, e.kind \in {"guess", "solve"}
  PROVE  Untouched(s \o <<e>> \o <<>> \o <<>>)
<1> DEFINE w == s \o <<e>> \o <<>> \o <<>>
<1>1. PICK l \in Nat : l = Len(s) /\ DOMAIN s = 1..l
  OBVIOUS
<1>2. /\ DOMAIN w = 1..(l + 1) /\ w[l + 1] = e
      /\ \A i \in 1..l : w[i] = s[i]
  BY <1>1
<1> HIDE DEF w
<1>3. \A i \in DOMAIN w : w[i].kind \notin Apart /\ w[i].kind # "residual"
  <2>1. \A i \in 1..l : w[i].kind \notin Apart /\ w[i].kind # "residual"
    BY <1>1, <1>2 DEF Untouched, ZerosOf, TornOf
  <2>2. \A i \in DOMAIN w : i \in 1..l \/ i = l + 1
    BY <1>2
  <2> QED
    BY <1>2, <2>1, <2>2 DEF Apart
<1> QED
  BY <1>3 DEF Untouched, ZerosOf, TornOf, w

LEMMA TurnZInv ==
  ASSUME All, ZInv, MaxTearing =< 1, sortVertex
  PROVE  ZInv'
<1>1. /\ stage = "sortLoop" /\ Ordered /\ OneTorn /\ WrittenOK
  BY WhileWriting DEF sortVertex, All, RInv, LoopsTorn, MInv, Writing, Untorn, Early
<1>2. PICK p, q : AtVertex(p, q) /\ PlacedUpTo(q)
  BY <1>1 DEF All, MInv
<1>3. /\ q \in DOMAIN order /\ LoopOf(q) = LoopOf(p) /\ unsorted_vertices # {}
      /\ InTurn(vertices_smap, jth_vertices) = {order[q]}
  BY <1>1, <1>2, VertexFound DEF Ordered, sortVertex
<1>4. PICK v \in out.V : v = order[q] /\ format(v) /\ model' = model
  BY <1>1, <1>2, VertexTurn DEF Ordered
<1>5. unsorted_vertices' = unsorted_vertices \ {v} /\ stage' = stage
  BY <1>3, <1>4 DEF sortVertex
<1>6. residual_zero = <<>> /\ Untouched(matchs) /\ matchs \in Seq(Entries)
  BY <1>1, <1>3 DEF ZInv, WrittenOK
<1>7. /\ matchs' = matchs \o <<Entry(kindOf(v), v)>> \o <<>> \o setAside(v)
      /\ residual_zero' = [i \in DOMAIN (<<>> \o setAside(v)) |-> Entry("moved", 0)]
  BY <1>4, <1>6 DEF format
<1>8. Entry(kindOf(v), v) \in Entries
  BY AsideFacts
<1>9. CASE v \in residual
  <2>1. /\ setAside(v) = <<Entry("zero", v)>> /\ Entry("zero", v) \in Entries
        /\ Entry("zero", v).kind \in Apart /\ Entry(kindOf(v), v).kind = "residual"
    BY <1>9 DEF setAside, kindOf, Entry, Entries, Apart
  <2>2. ZerosLast(matchs')
    BY <1>6, <1>7, <1>8, <2>1, ZeroBehind
  <2>3. unsorted_vertices' = {}
    BY <1>1, <1>2, <1>3, <1>4, <1>5, <1>9, TornInTurn
  <2> QED
    BY <1>4, <2>2, <2>3 DEF ZInv
<1>10. CASE v \notin residual
  <2>1. setAside(v) = <<>> /\ Entry(kindOf(v), v).kind \in {"guess", "solve"}
    BY <1>10 DEF setAside, kindOf, Entry
  <2>2. Untouched(matchs')
    BY <1>6, <1>7, <1>8, <2>1, StillUntouched
  <2>3. residual_zero' = <<>>
    BY <1>7, <2>1
  <2>4. ZerosLast(matchs')
    BY <2>2, UntouchedLast
  <2> QED
    BY <1>4, <2>2, <2>3, <2>4 DEF ZInv
<1> QED
  BY <1>9, <1>10

LEMMA NextZInv == MaxTearing =< 1 => (All /\ ZInv /\ [Next]_vars => ZInv')
<1> SUFFICES ASSUME MaxTearing =< 1, All, ZInv, [Next]_vars PROVE ZInv'
  OBVIOUS
<1>1. CASE (BuilderNext /\ UNCHANGED <<order, svars>>) \/ TopologicalSorting \/ sortLoops \/ Sorted
  <2>1. model' = model /\ stage' # "sortLoop"
    BY <1>1 DEF BuilderNext, HorizontalSorting, AlgebraicLoopsDetector, TearingDetector, build,
       addGuessVertices, endPoints, addDependencies, redirectEdiff, TopologicalSorting, sortLoops,
       Sorted, svars
  <2> QED
    BY <2>1 DEF ZInv
<1>2. CASE sortLoop
  <2>1. CASE UNCHANGED svars /\ stage' = "undefined"
    BY <2>1 DEF ZInv, svars
  <2>2. CASE matchs' = <<>> /\ residual_zero' = <<>> /\ model' = model
    <3>1. Untouched(<<>>)
      BY DEF Untouched, ZerosOf, TornOf
    <3> QED
      BY <2>2, <3>1, UntouchedLast DEF ZInv
  <2> QED
    BY <1>2, <2>1, <2>2 DEF sortLoop
<1>3. CASE sortVertex
  BY <1>3, TurnZInv
<1>4. CASE nextLoop
  <2>1. stage = "sortLoop" /\ stage' = "sortLoops" /\ model' = Append(model, matchs)
    BY <1>4 DEF nextLoop
  <2>2. model \in Seq(Seq(Entries)) /\ ZerosLast(matchs)
    BY <2>1 DEF ZInv, All, MInv, WrittenOK
  <2>3. \A k \in DOMAIN model' : (k \in DOMAIN model /\ model'[k] = model[k]) \/ model'[k] = matchs
    BY <2>1, <2>2
  <2>4. \A k \in DOMAIN model' : ZerosLast(model'[k])
    BY <2>2, <2>3 DEF ZInv
  <2> QED
    BY <2>1, <2>4 DEF ZInv
<1>5. CASE UNCHANGED vars
  BY <1>5 DEF vars, bvars, svars, ZInv
<1> QED
  BY <1>1, <1>2, <1>3, <1>4, <1>5 DEF Next, Work

(***************************************************************************)
(* Within a loop, the equations res = 0 come once each, after all others.  *)
(* With more tearing variables they would not: what format has moved stays *)
(* in _residual_zero, and is written again by the next call.               *)
(***************************************************************************)
THEOREM ZerosAtEnd ==
  ASSUME MaxTearing =< 1
  PROVE  Spec => []ResidualsZeroAtEnd
<1>1. ZInv => ResidualsZeroAtEnd
  BY DEF ZInv, ResidualsZeroAtEnd, ZerosLast, ZerosOf, TornOf, Apart
<1> QED
  BY AllInvariance, InitZInv, NextZInv, <1>1, PTL DEF Spec
=============================================================================
