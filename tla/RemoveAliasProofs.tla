--------------------------- MODULE RemoveAliasProofs ---------------------------
(***************************************************************************)
(* Proofs about RemoveAlias.                                               *)
(***************************************************************************)
EXTENDS RemoveAlias, ExpressionLemmas, SBGraphLemmas, TLAPS

-----------------------------------------------------------------------------
(* Lists *)

LEMMA ConcatFacts ==
  ASSUME NEW T, NEW s \in Seq(T), NEW t \in Seq(T)
  PROVE  /\ s \o t \in Seq(T) /\ Len(s \o t) = Len(s) + Len(t)
         /\ \A k \in 1..(Len(s) + Len(t)) :
              (s \o t)[k] = IF k =< Len(s) THEN s[k] ELSE t[k - Len(s)]
  OBVIOUS

(* What is looked for is removed where it is found first, and the rest moves up. *)
LEMMA RemoveFirstFacts ==
  ASSUME NEW T, NEW list \in Seq(T), NEW x, x \in Range(list)
  PROVE  /\ RemoveFirst(list, x) \in Seq(T)
         /\ Len(list) > 0 /\ Len(RemoveFirst(list, x)) = Len(list) - 1
         /\ \E i \in DOMAIN list :
              /\ list[i] = x
              /\ \A k \in DOMAIN RemoveFirst(list, x) :
                   RemoveFirst(list, x)[k] = list[IF k < i THEN k ELSE k + 1]
<1> DEFINE I == {k \in 1..Len(list) : list[k] = x}
           i == Min(I)
           s == SubSeq(list, 1, i - 1)
           t == SubSeq(list, i + 1, Len(list))
<1>1. I \in SUBSET Nat /\ I # {}
  BY DEF Range
<1>2. i \in 1..Len(list) /\ list[i] = x
  BY <1>1, LeastElement
<1>3. RemoveFirst(list, x) = s \o t
  BY <1>1 DEF RemoveFirst, SelectInSeq, RemoveAt
<1> HIDE DEF i
<1>4. s \in Seq(T) /\ t \in Seq(T)
  BY <1>2
<1>5. /\ Len(s) = i - 1 /\ Len(t) = Len(list) - i
      /\ \A k \in 1..(i - 1) : s[k] = list[k]
      /\ \A k \in 1..(Len(list) - i) : t[k] = list[k + i]
  BY <1>2
<1> HIDE DEF s, t
<1>6. RemoveFirst(list, x) \in Seq(T) /\ Len(RemoveFirst(list, x)) = Len(list) - 1
  <2>1. s \o t \in Seq(T) /\ Len(s \o t) = Len(s) + Len(t)
    BY <1>4, ConcatFacts
  <2>2. Len(list) \in Nat /\ i \in Int
    BY <1>2
  <2>3. Len(s \o t) = Len(list) - 1
    BY <2>1, <2>2, <1>5
  <2> QED
    BY <2>1, <2>3, <1>3
<1>7. ASSUME NEW k \in 1..(Len(list) - 1)
      PROVE  RemoveFirst(list, x)[k] = list[IF k < i THEN k ELSE k + 1]
  <2>1. RemoveFirst(list, x)[k] = IF k =< i - 1 THEN s[k] ELSE t[k - (i - 1)]
    BY <1>2, <1>3, <1>4, <1>5, ConcatFacts
  <2>2. CASE k < i
    BY <2>1, <2>2, <1>2, <1>5
  <2>3. CASE ~(k < i)
    BY <2>1, <2>3, <1>2, <1>5
  <2> QED
    BY <2>2, <2>3
<1>8. DOMAIN RemoveFirst(list, x) = 1..(Len(list) - 1)
  BY <1>6
<1> QED
  BY <1>2, <1>6, <1>7, <1>8

LEMMA ReplaceAtFacts ==
  ASSUME NEW T, NEW list \in Seq(T), NEW k \in DOMAIN list, NEW x \in T
  PROVE  /\ ReplaceAt(list, k, x) \in Seq(T)
         /\ Len(ReplaceAt(list, k, x)) = Len(list)
         /\ \A j \in DOMAIN list : ReplaceAt(list, k, x)[j] = IF j = k THEN x ELSE list[j]
         /\ x \in Range(ReplaceAt(list, k, x))
<1>1. /\ ReplaceAt(list, k, x) \in Seq(T)
      /\ Len(ReplaceAt(list, k, x)) = Len(list)
      /\ \A j \in DOMAIN list : ReplaceAt(list, k, x)[j] = IF j = k THEN x ELSE list[j]
  BY DEF ReplaceAt
<1> QED
  BY <1>1 DEF Range

LEMMA ReplaceInFacts ==
  ASSUME NEW T, NEW list \in Seq(T), NEW a, NEW b
  PROVE  /\ Len(replaceIn(a, b, list)) = Len(list)
         /\ DOMAIN replaceIn(a, b, list) = 1..Len(list)
         /\ replaceIn(a, b, list) \in Seq(Range(replaceIn(a, b, list)))
         /\ \A k \in 1..Len(list) : replaceIn(a, b, list)[k] = replaceEquation(a, b, list[k])
  BY DEF replaceIn, Range

-----------------------------------------------------------------------------
(***************************************************************************)
(* The walk over the list.                                                 *)
(***************************************************************************)
Walked ==
  /\ equations \in Seq(Range(equations))
  /\ pos \in Nat \ {0} /\ aliased \in BOOLEAN
  /\ pc \in {"scan", "test", "done", "error"}
  /\ pc \in {"scan", "done"} => aliased = FALSE
  /\ pc \in {"test", "done"} /\ aliased = FALSE => pos = Len(equations) + 1
  /\ aliased = FALSE => pos =< Len(equations) + 1

(* An alias leaves one equation less. *)
LEMMA AliasLowers ==
  ASSUME Walked, NEW eq, Turn(eq), AliasEquality \/ AliasForEq
  PROVE  /\ equations' \in Seq(Range(equations'))
         /\ Len(equations') = Len(equations) - 1
<1>1. pos \in DOMAIN equations /\ eq = equations[pos]
  BY DEF Turn
<1>2. ASSUME NEW T, NEW list \in Seq(T), Len(list) = Len(equations), NEW e, e \in Range(list),
             NEW a, NEW b, equations' = replaceIn(a, b, RemoveFirst(list, e))
      PROVE  /\ equations' \in Seq(Range(equations'))
             /\ Len(equations') = Len(equations) - 1
  <2>1. /\ RemoveFirst(list, e) \in Seq(T)
        /\ Len(RemoveFirst(list, e)) = Len(equations) - 1
    BY <1>2, RemoveFirstFacts
  <2> QED
    BY <2>1, <1>2, ReplaceInFacts
<1>3. CASE AliasEquality
  <2> DEFINE e == evaluated(eq)
             T == Range(equations) \cup {e}
             list == ReplaceAt(equations, pos, e)
  <2>1. PICK a, b : equations' = replaceIn(a, b, RemoveFirst(list, e))
    BY <1>3, <1>1 DEF AliasEquality, Turn, alias
  <2>2. equations \in Seq(T) /\ e \in T
    BY DEF Walked
  <2> HIDE DEF e, T
  <2>3. list \in Seq(T) /\ Len(list) = Len(equations) /\ e \in Range(list)
    BY <1>1, <2>2, ReplaceAtFacts
  <2> QED
    BY <2>1, <2>3, <1>2
<1>4. CASE AliasForEq
  <2>1. PICK a, b : equations' = replaceIn(a, b, RemoveFirst(equations, eq))
    BY <1>4, <1>1 DEF AliasForEq, Turn, alias
  <2>2. equations \in Seq(Range(equations)) /\ eq \in Range(equations)
    BY <1>1 DEF Walked, Range
  <2> QED
    BY <2>1, <2>2, <1>2
<1> QED
  BY <1>3, <1>4

(* At the start of a scan there is nothing to say yet. *)
LEMMA ScanStarts ==
  /\ equations \in Seq(Range(equations)) /\ pos = 1 /\ aliased = FALSE /\ pc = "scan"
  => Walked
<1> SUFFICES ASSUME equations \in Seq(Range(equations)), pos = 1, aliased = FALSE, pc = "scan"
             PROVE  Walked
  OBVIOUS
<1>1. pos \in Nat \ {0} /\ Len(equations) \in Nat
  OBVIOUS
<1>2. aliased \in BOOLEAN
  OBVIOUS
<1>3. pc \in {"scan", "test", "done", "error"}
  OBVIOUS
<1>4. pc \in {"scan", "done"} => aliased = FALSE
  OBVIOUS
<1>5. pc \in {"test", "done"} /\ aliased = FALSE => pos = Len(equations) + 1
  OBVIOUS
<1>6. pos =< Len(equations) + 1
  BY <1>1
<1> QED
  BY <1>1, <1>2, <1>3, <1>4, <1>5, <1>6 DEF Walked

LEMMA InitWalked == AInit => Walked
<1>1. AInit => equations \in Seq(Range(equations))
  BY ModelsAssumption DEF AInit
<1> QED
  BY <1>1, ScanStarts DEF AInit

LEMMA NextWalked == Walked /\ [ANext]_avars => Walked'
<1> SUFFICES ASSUME Walked, [ANext]_avars PROVE Walked'
  OBVIOUS
<1>1. CASE NoSymbol
  <2>1. pc' = "error" /\ UNCHANGED <<equations, pos, aliased>>
    BY <1>1 DEF NoSymbol
  <2> QED
    BY <2>1 DEF Walked
<1>2. CASE AliasEquality \/ AliasForEq
  <2>1. PICK eq : Turn(eq)
    BY <1>2 DEF AliasEquality, AliasForEq
  <2>2. aliased' = TRUE /\ pc' = "test" /\ pos' = pos
    BY <1>2 DEF AliasEquality, AliasForEq
  <2> QED
    BY <1>2, <2>1, <2>2, AliasLowers DEF Walked
<1>3. CASE PassEquality \/ PassForEq
  <2>1. PICK eq : /\ Turn(eq)
                  /\ \/ equations' = ReplaceAt(equations, pos, evaluated(eq))
                     \/ equations' = equations
    BY <1>3 DEF PassEquality, PassForEq
  <2> DEFINE T == Range(equations) \cup {evaluated(eq)}
  <2>2. equations \in Seq(T) /\ evaluated(eq) \in T /\ pos \in DOMAIN equations
    BY <2>1 DEF Walked, Turn
  <2> HIDE DEF T
  <2>3. equations' \in Seq(T) /\ Len(equations') = Len(equations)
    <3>1. CASE equations' = ReplaceAt(equations, pos, evaluated(eq))
      BY <3>1, <2>2, ReplaceAtFacts
    <3>2. CASE equations' = equations
      BY <3>2, <2>2
    <3> QED
      BY <3>1, <3>2, <2>1
  <2>4. equations' \in Seq(Range(equations'))
    BY <2>3 DEF Range
  <2>5. UNCHANGED <<aliased, pc>> /\ pos' = pos + 1 /\ pc = "scan"
    BY <1>3 DEF PassEquality, PassForEq, Turn
  <2> QED
    BY <2>2, <2>3, <2>4, <2>5 DEF Walked
<1>4. CASE ListEnds
  <2>1. /\ pc = "scan" /\ pos > Len(equations) /\ pc' = "test"
        /\ UNCHANGED <<equations, pos, aliased>>
    BY <1>4 DEF ListEnds
  <2> QED
    BY <2>1 DEF Walked
<1>5. CASE While
  <2>1. CASE aliased = TRUE
    <3>1. /\ aliased' = FALSE /\ pos' = 1 /\ pc' = "scan" /\ equations' = equations
      BY <1>5, <2>1 DEF While, startScan
    <3>2. (equations \in Seq(Range(equations)))'
      BY <3>1 DEF Walked
    <3>3. (/\ equations \in Seq(Range(equations)) /\ pos = 1 /\ aliased = FALSE /\ pc = "scan"
           => Walked)'
      BY ScanStarts, PTL
    <3> QED
      BY <3>1, <3>2, <3>3
  <2>2. CASE aliased = FALSE
    <3>1. pc' = "done" /\ pc = "test" /\ UNCHANGED <<equations, pos, aliased>>
      BY <1>5, <2>2 DEF While
    <3> QED
      BY <3>1, <2>2 DEF Walked
  <2> QED
    BY <2>1, <2>2 DEF Walked
<1>6. CASE UNCHANGED avars
  <2>1. UNCHANGED <<equations, pos, aliased, pc>>
    BY <1>6 DEF avars
  <2> QED
    BY <2>1 DEF Walked
<1> QED
  BY <1>1, <1>2, <1>3, <1>4, <1>5, <1>6 DEF ANext

(* The invariant of the walk, whatever the visitors return. *)
THEOREM ScanInvariance == ASpec => []Walked
<1> QED
  BY InitWalked, NextWalked, PTL DEF ASpec

(* The walk starts again after each alias and ends all the same: every step leaves fewer
   equations, or as many and less of a scan to do. *)
THEOREM StepsLower == ASpec => EachStepLowers
<1> DEFINE Lowers == \/ Len(equations') < Len(equations)
                     \/ /\ Len(equations') = Len(equations)
                        /\ 0 =< phase' /\ phase' < phase
<1>1. Walked /\ [ANext]_avars => [Lowers]_avars
  <2> SUFFICES ASSUME Walked, ANext PROVE Lowers
    OBVIOUS
  <2>0. Len(equations) \in Nat /\ pos \in Nat
    BY DEF Walked
  <2>1. CASE NoSymbol
    <3>1. pos =< Len(equations) /\ pc = "scan" /\ pc' = "error" /\ equations' = equations
      BY <2>1 DEF NoSymbol, Turn, Walked
    <3> QED
      BY <3>1, <2>0 DEF phase
  <2>2. CASE AliasEquality \/ AliasForEq
    <3>1. PICK eq : Turn(eq)
      BY <2>2 DEF AliasEquality, AliasForEq
    <3> QED
      BY <2>2, <3>1, <2>0, AliasLowers
  <2>3. CASE PassEquality \/ PassForEq
    <3>1. /\ pos =< Len(equations) /\ pc = "scan" /\ pc' = "scan" /\ pos' = pos + 1
      BY <2>3 DEF PassEquality, PassForEq, Turn, Walked
    <3>2. Len(equations') = Len(equations)
      BY <2>3 DEF PassEquality, PassForEq, ReplaceAt, Walked
    <3> QED
      BY <3>1, <3>2, <2>0 DEF phase
  <2>4. CASE ListEnds
    <3>1. /\ pc = "scan" /\ pc' = "test" /\ equations' = equations
          /\ pos = Len(equations) + 1 /\ aliased' = FALSE
      BY <2>4 DEF ListEnds, Walked
    <3> QED
      BY <3>1, <2>0 DEF phase
  <2>5. CASE While
    <3>1. CASE aliased = TRUE
      <4>1. /\ pc = "test" /\ pc' = "scan" /\ equations' = equations /\ pos' = 1
        BY <2>5, <3>1 DEF While, startScan
      <4> QED
        BY <4>1, <3>1, <2>0 DEF phase
    <3>2. CASE aliased = FALSE
      <4>1. /\ pc = "test" /\ pc' = "done" /\ equations' = equations
        BY <2>5, <3>2 DEF While
      <4> QED
        BY <4>1, <3>2, <2>0 DEF phase
    <3> QED
      BY <3>1, <3>2 DEF Walked
  <2> QED
    BY <2>1, <2>2, <2>3, <2>4, <2>5 DEF ANext
<1> QED
  BY <1>1, ScanInvariance, PTL DEF ASpec, EachStepLowers

-----------------------------------------------------------------------------
(***************************************************************************)
(* The models.  E is the set of the expressions.                           *)
(***************************************************************************)
Eqs(E) == [loop : {Scalar} \cup Int \X Int \X Int, left : E, right : E]

Written(list, E) ==
  /\ list \in Seq(Eqs(E))
  /\ \A k \in DOMAIN list : \A r \in RefsOf(list[k]) : Subscripted(r)

FlatModel(m, E) ==
  /\ m.equations \in Seq(Eqs(E)) /\ m.initial_eqs \in Seq(Eqs(E))
  /\ m.statements \in Seq(Eqs(E)) /\ m.initial_sts \in Seq(Eqs(E))
  /\ Regular(m)

(* What is put in the place of a variable *)
Simple(b) == \/ unsubscripted(b) \/ Is("Number", b)
             \/ Is("Minus", b) /\ unsubscripted(b.exp)

ScalarPair(a, b, E) == a \in Refs /\ a.sub = Whole /\ b \in E /\ Simple(b)
ArrayPair(a, b) == /\ a \in Refs /\ a.name \in Arrays /\ a.sub # Whole
                   /\ b \in Refs /\ b.name \in Arrays /\ b.sub # Whole

Replacement(a, b, E) ==
  /\ a \in Refs /\ b \in E
  /\ \A r \in references(b) : Subscripted(r) /\ (r.name \in Arrays <=> a.name \in Arrays)
  /\ \/ ScalarPair(a, b, E) /\ a.name \notin Arrays
     \/ ArrayPair(a, b)

LEMMA NamesOfList ==
  ASSUME NEW list
  PROVE  \A L : NamesOf(list) \subseteq L
                  <=> \A k \in DOMAIN list : \A r \in RefsOf(list[k]) : r.name \in L
<1> SUFFICES ASSUME NEW L
             PROVE  NamesOf(list) \subseteq L
                      <=> \A k \in DOMAIN list : \A r \in RefsOf(list[k]) : r.name \in L
  OBVIOUS
<1>1. \A k \in DOMAIN list :
        UNION {refNames(f) : f \in Sides(list[k])} = {r.name : r \in RefsOf(list[k])}
  BY DEF Sides, refNames, RefsOf
<1> QED
  BY <1>1 DEF NamesOf

LEMMA NormalizedParts ==
  ASSUME NEW E, NEW elseifs \in BOOLEAN, IsExpressionSet(E, elseifs), Visitors(E),
         NEW eq, eq.left \in E, eq.right \in E
  PROVE  /\ normalized(eq).left \in E /\ normalized(eq).right \in E
         /\ RefsOf(normalized(eq)) \subseteq RefsOf(eq)
<1> DEFINE Kept(p) == p.left \in E /\ p.right \in E /\ RefsOf(p) \subseteq RefsOf(eq)
<1>0. \A l, r : Pair(l, r).left = l /\ Pair(l, r).right = r
  BY DEF Pair
<1>1. Kept(Pair(eq.left, eq.right))
  BY <1>0 DEF RefsOf
<1>2. ASSUME NEW p, Kept(p) PROVE Kept(signToRight(p))
  <2>1. CASE Is("Minus", p.left) /\ Is("Reference", p.left.exp)
    <3>1. signToRight(p) = Pair(p.left.exp, PartialEval(Neg(p.right)))
      BY <2>1 DEF signToRight
    <3>2. p.left.exp \in E /\ p.left = Neg(p.left.exp)
      BY <1>2, <2>1, KindOf DEF Is
    <3>3. references(p.left) = references(p.left.exp)
      BY <3>2, AtNeg
    <3>4. Neg(p.right) \in E /\ references(Neg(p.right)) = references(p.right)
      BY <1>2, AtNeg
    <3>5. /\ PartialEval(Neg(p.right)) \in E
          /\ references(PartialEval(Neg(p.right))) \subseteq references(p.right)
      BY <3>4, PartialEvalNames
    <3> QED
      BY <3>1, <3>2, <3>3, <3>5, <1>0, <1>2 DEF RefsOf
  <2>2. CASE ~(Is("Minus", p.left) /\ Is("Reference", p.left.exp))
    BY <1>2, <2>2 DEF signToRight
  <2> QED
    BY <2>1, <2>2
<1>3. ASSUME NEW p, Kept(p) PROVE Kept(numberToRight(p))
  BY <1>0, <1>3 DEF numberToRight, RefsOf
<1>4. ASSUME NEW p, Kept(p) PROVE Kept(splitZero(p))
  <2>1. CASE isZero(p.right) /\ IsBinOp(p.left)
    <3>1. p.left.left \in E /\ p.left.right \in E
          /\ p.left = BinOp(p.left.kind, p.left.left, p.left.right)
      BY <1>4, <2>1, KindOf DEF IsBinOp
    <3>2. references(p.left) = references(p.left.left) \cup references(p.left.right)
      BY <3>1, <2>1, AtBinOp DEF IsBinOp
    <3>3. /\ PartialEval(Neg(p.left.right)) \in E
          /\ references(PartialEval(Neg(p.left.right))) \subseteq references(p.left.right)
      BY <3>1, AtNeg, PartialEvalNames
    <3>4. splitZero(p) \in {Pair(p.left.left, PartialEval(Neg(p.left.right))),
                            Pair(p.left.left, p.left.right)}
      BY <2>1 DEF splitZero, IsBinOp, Is
    <3> QED
      BY <3>1, <3>2, <3>3, <3>4, <1>0, <1>4 DEF RefsOf
  <2>2. CASE ~(isZero(p.right) /\ IsBinOp(p.left))
    BY <1>4, <2>2 DEF splitZero, IsBinOp, Is
  <2> QED
    BY <2>1, <2>2
<1> HIDE DEF Kept
<1>5. Kept(normalized(eq))
  BY <1>1, <1>2, <1>3, <1>4 DEF normalized
<1> QED
  BY <1>5 DEF Kept

(* What an equality says is one of its variables, and made of its references. *)
LEMMA SaidPairs ==
  ASSUME NEW E, NEW elseifs \in BOOLEAN, IsExpressionSet(E, elseifs), Visitors(E),
         NEW eq, eq.left \in E, eq.right \in E, NEW a, NEW b, <<a, b>> \in AliasesOf(eq)
  PROVE  /\ ScalarPair(a, b, E)
         /\ a \in RefsOf(eq) /\ references(b) \subseteq RefsOf(eq)
<1> DEFINE l == normalized(eq).left
           r == normalized(eq).right
<1>1. l \in E /\ r \in E /\ references(l) \cup references(r) \subseteq RefsOf(eq)
  BY NormalizedParts DEF RefsOf
<1>2. <<a, b>> \in saidBy(l, r)
  BY DEF AliasesOf
<1> HIDE DEF l, r
<1>3. ASSUME NEW e \in E, unsubscripted(e)
      PROVE  e \in Refs /\ e.sub = Whole /\ references(e) = {e}
  <2>1. e \in Refs
    BY <1>3, KindOf DEF unsubscripted, Is
  <2> QED
    BY <2>1, <1>3, AtReference DEF unsubscripted
<1>4. \/ a = l /\ b = r /\ unsubscripted(l) /\ Simple(r)
      \/ a = r /\ b = l /\ unsubscripted(l) /\ unsubscripted(r)
  BY <1>2 DEF saidBy, Simple
<1>5. CASE a = l /\ b = r /\ unsubscripted(l) /\ Simple(r)
  <2>1. l \in Refs /\ l.sub = Whole /\ references(l) = {l}
    BY <1>1, <1>3, <1>5
  <2> QED
    BY <2>1, <1>1, <1>5 DEF ScalarPair
<1>6. CASE a = r /\ b = l /\ unsubscripted(l) /\ unsubscripted(r)
  <2>1. r \in Refs /\ r.sub = Whole /\ references(r) = {r}
    BY <1>1, <1>3, <1>6
  <2> QED
    BY <2>1, <1>1, <1>6 DEF ScalarPair, Simple
<1> QED
  BY <1>4, <1>5, <1>6

LEMMA ForPairs ==
  ASSUME NEW E, NEW elseifs \in BOOLEAN, IsExpressionSet(E, elseifs), Visitors(E),
         NEW eq, eq.left \in E, eq.right \in E, \A r \in RefsOf(eq) : Subscripted(r),
         NEW a, NEW b, <<a, b>> \in ForAliasesOf(eq)
  PROVE  /\ ArrayPair(a, b)
         /\ a \in RefsOf(eq) /\ references(b) \subseteq RefsOf(eq)
         /\ {a, b} = {eq.left, eq.right}
<1> DEFINE l == forSides(eq).left
           r == forSides(eq).right
<1>1. a = l /\ b = r /\ Is("Reference", l) /\ Is("Reference", r) /\ isArray1(l.name) /\ isArray1(r.name)
  BY DEF ForAliasesOf, covered
<1>2. {l, r} = {eq.left, eq.right}
  BY DEF forSides, Pair
<1> HIDE DEF l, r
<1>3. a \in Refs /\ b \in Refs
  BY <1>1, <1>2, KindOf DEF Is
<1>4. references(a) = {a} /\ references(b) = {b}
  BY <1>3, AtReference
<1>5. a \in RefsOf(eq) /\ b \in RefsOf(eq)
  BY <1>1, <1>2, <1>4 DEF RefsOf
<1> QED
  BY <1>1, <1>2, <1>3, <1>4, <1>5 DEF ArrayPair, Subscripted, isArray1

(* q comes from S or, when a occurs in S, from what replaces it: a is gone unless it
   occurs there itself. *)
Comes(q, S, a, b) ==
  /\ Subscripted(q)
  /\ \/ \E r \in S : q.name = r.name /\ r.name # a.name
     \/ (\E r \in S : r.name = a.name) /\ \E r \in references(b) : q.name = r.name
AllCome(Q, S, a, b) == \A q \in Q : Comes(q, S, a, b)

LEMMA ReplacedReferences ==
  ASSUME NEW E, NEW elseifs \in BOOLEAN, IsExpressionSet(E, elseifs), Visitors(E),
         NEW a, NEW b, Replacement(a, b, E), NEW ign \in BOOLEAN,
         NEW e \in E, \A r \in references(e) : Subscripted(r),
         ign = FALSE => \A r \in references(e) : r.name \notin Arrays
  PROVE  /\ ReplaceExpression(a, b, ign, e) \in E
         /\ AllCome(references(ReplaceExpression(a, b, ign, e)), references(e), a, b)
<1> DEFINE R(d) == ReplaceExpression(a, b, ign, d)
<1> USE DEF Replacement
<1>1. R(e) \in E /\ references(R(e)) \subseteq UNION {references(R(r)) : r \in references(e)}
  BY ReplacementNames
<1>2. \A r \in Refs : R(r) = IF r = a THEN b ELSE renameReference(a, b, ign, r)
  BY ReplacementAt
<1> HIDE DEF R
<1>3. SUFFICES ASSUME NEW r \in references(e), NEW q \in references(R(r))
               PROVE  Comes(q, references(e), a, b)
  BY <1>1 DEF R, AllCome
<1>4. r \in Refs /\ Subscripted(r)
  BY ReferencesAreRefs
<1>5. CASE r = a
  <2>1. q \in references(b)
    BY <1>2, <1>4, <1>5
  <2> QED
    BY <2>1, <1>5 DEF Comes
<1>6. CASE r.name # a.name
  <2>1. R(r) = r
    BY <1>2, <1>4, <1>6 DEF renameReference
  <2>2. q = r
    BY <2>1, <1>4, AtReference
  <2> QED
    BY <2>2, <1>4, <1>6 DEF Comes
<1>7. CASE r # a /\ r.name = a.name
  <2>1. ~(ScalarPair(a, b, E) /\ a.name \notin Arrays)
    BY <1>4, <1>7 DEF ScalarPair, Subscripted, Refs
  <2>0. ArrayPair(a, b) /\ ~(ign = FALSE)
    BY <2>1, <1>7 DEF ArrayPair
  <2>2. ArrayPair(a, b) /\ ign = TRUE
    BY <2>0
  <2>3. R(r) = [r EXCEPT !.name = b.name]
    BY <1>2, <1>4, <1>7, <2>2 DEF renameReference, Is, ArrayPair, Refs
  <2>4. R(r) \in Refs /\ R(r).name = b.name /\ R(r).sub = r.sub
    BY <2>3, <2>2, <1>4 DEF Refs, ArrayPair
  <2>5. q = R(r) /\ references(b) = {b}
    BY <2>4, <2>2, AtReference DEF ArrayPair
  <2>6. q.name = b.name /\ b.name \in Arrays /\ q.sub # Whole
    BY <2>2, <2>4, <2>5, <1>4, <1>7 DEF ArrayPair, Subscripted
  <2> QED
    BY <2>5, <2>6, <1>7 DEF Subscripted, Comes
<1> QED
  BY <1>5, <1>6, <1>7

rewritten(a, b, ign, eq) ==
  [eq EXCEPT !.left = ReplaceExpression(a, b, ign, @), !.right = ReplaceExpression(a, b, ign, @)]

LEMMA EquationReplaced ==
  ASSUME NEW E, NEW elseifs \in BOOLEAN, IsExpressionSet(E, elseifs), Visitors(E),
         NEW a, NEW b, Replacement(a, b, E), NEW ign \in BOOLEAN,
         NEW eq \in Eqs(E), \A r \in RefsOf(eq) : Subscripted(r),
         ign = FALSE => \A r \in RefsOf(eq) : r.name \notin Arrays
  PROVE  /\ rewritten(a, b, ign, eq) \in Eqs(E)
         /\ AllCome(RefsOf(rewritten(a, b, ign, eq)), RefsOf(eq), a, b)
<1> DEFINE R(d) == ReplaceExpression(a, b, ign, d)
<1>0. eq.left \in E /\ eq.right \in E /\ eq.loop \in {Scalar} \cup Int \X Int \X Int
  BY DEF Eqs
<1>1. R(eq.left) \in E /\ AllCome(references(R(eq.left)), references(eq.left), a, b)
  <2>1. \A r \in references(eq.left) : Subscripted(r)
    BY DEF RefsOf
  <2>2. ign = FALSE => \A r \in references(eq.left) : r.name \notin Arrays
    BY DEF RefsOf
  <2> QED
    BY <1>0, <2>1, <2>2, ReplacedReferences
<1>b. R(eq.right) \in E /\ AllCome(references(R(eq.right)), references(eq.right), a, b)
  <2>1. \A r \in references(eq.right) : Subscripted(r)
    BY DEF RefsOf
  <2>2. ign = FALSE => \A r \in references(eq.right) : r.name \notin Arrays
    BY DEF RefsOf
  <2> QED
    BY <1>0, <2>1, <2>2, ReplacedReferences
<1> HIDE DEF R
<1>a. rewritten(a, b, ign, eq) = [eq EXCEPT !.left = R(eq.left), !.right = R(eq.right)]
  BY DEF rewritten, R
<1>2. /\ rewritten(a, b, ign, eq).left = R(eq.left) /\ rewritten(a, b, ign, eq).right = R(eq.right)
      /\ rewritten(a, b, ign, eq) = [loop |-> eq.loop, left |-> R(eq.left), right |-> R(eq.right)]
  BY <1>a DEF Eqs
<1>3. rewritten(a, b, ign, eq) \in Eqs(E)
  BY <1>0, <1>1, <1>b, <1>2 DEF Eqs
<1>4. RefsOf(rewritten(a, b, ign, eq)) = references(R(eq.left)) \cup references(R(eq.right))
  BY <1>2 DEF RefsOf
<1>5. ASSUME NEW q, NEW e \in {eq.left, eq.right}, Comes(q, references(e), a, b)
      PROVE  Comes(q, RefsOf(eq), a, b)
  BY <1>5 DEF RefsOf, Comes
<1> QED
  BY <1>1, <1>b, <1>3, <1>4, <1>5 DEF AllCome

LEMMA ListReplaced ==
  ASSUME NEW E, NEW a, NEW b, NEW list, Written(list, E),
         NEW new, new = [k \in DOMAIN list |-> new[k]],
         \A k \in DOMAIN list :
           new[k] \in Eqs(E) /\ AllCome(RefsOf(new[k]), RefsOf(list[k]), a, b)
  PROVE  /\ Written(new, E)
         /\ NamesOf(new) \subseteq (NamesOf(list) \ {a.name}) \cup refNames(b)
<1>1. DOMAIN list = 1..Len(list) /\ Len(list) \in Nat
  BY DEF Written
<1>2. ASSUME NEW k \in DOMAIN list
      PROVE  /\ new[k] \in Eqs(E)
             /\ AllCome(RefsOf(new[k]), RefsOf(list[k]), a, b)
  OBVIOUS
<1>3. DOMAIN new = 1..Len(list)
  BY <1>1
<1> HIDE DEF Eqs
<1>4. new \in Seq(Eqs(E))
  BY <1>1, <1>2, <1>3
<1>5. Written(new, E)
  BY <1>1, <1>2, <1>3, <1>4 DEF Written, AllCome, Comes
<1>6. \A k \in DOMAIN list : \A r \in RefsOf(list[k]) : r.name \in NamesOf(list)
  BY NamesOfList
<1>7. \A k \in DOMAIN new : \A q \in RefsOf(new[k]) :
        q.name \in (NamesOf(list) \ {a.name}) \cup refNames(b)
  <2> SUFFICES ASSUME NEW k \in DOMAIN list, NEW q \in RefsOf(new[k])
               PROVE  q.name \in (NamesOf(list) \ {a.name}) \cup refNames(b)
    BY <1>1, <1>3
  <2>1. Comes(q, RefsOf(list[k]), a, b)
    BY <1>2 DEF AllCome
  <2>2. CASE \E r \in RefsOf(list[k]) : q.name = r.name /\ r.name # a.name
    BY <2>2, <1>6
  <2>3. CASE \E r \in references(b) : q.name = r.name
    BY <2>3 DEF refNames
  <2> QED
    BY <2>1, <2>2, <2>3 DEF Comes
<1>8. NamesOf(new) \subseteq (NamesOf(list) \ {a.name}) \cup refNames(b)
  <2> DEFINE X == (NamesOf(list) \ {a.name}) \cup refNames(b)
  <2> HIDE DEF X
  <2>1. \A k \in DOMAIN new : \A q \in RefsOf(new[k]) : q.name \in X
    BY <1>7 DEF X
  <2>2. NamesOf(new) \subseteq X <=> \A k \in DOMAIN new : \A q \in RefsOf(new[k]) : q.name \in X
    BY NamesOfList
  <2> QED
    BY <2>1, <2>2 DEF X
<1> QED
  BY <1>5, <1>8

-----------------------------------------------------------------------------
(***************************************************************************)
(* What a turn does to the model                                           *)
(***************************************************************************)
FormInv(E) ==
  /\ Written(equations, E) /\ Written(initial_eqs, E)
  /\ Written(statements, E) /\ Written(initial_sts, E)
  /\ Plain(statements) /\ Plain(initial_sts)
  /\ removed \in Seq(Refs \X E)

(* The turn of eq, that has become e, says that b replaces a; rest is left. *)
Aliased(eq, e, a, b, rest) ==
  /\ Turn(eq)
  /\ \/ ~IsForEq(eq) /\ e = evaluated(eq) /\ <<a, b>> \in AliasesOf(e)
     \/ IsForEq(eq) /\ e = eq /\ <<a, b>> \in ForAliasesOf(eq)
  /\ rest = RemoveFirst(ReplaceAt(equations, pos, e), e)

LEMMA AliasSteps ==
  ASSUME NEW E, FormInv(E), AliasEquality \/ AliasForEq
  PROVE  \E eq, e, a, b, rest : Aliased(eq, e, a, b, rest) /\ alias(a, b, rest)
<1>1. CASE AliasEquality
  <2>1. PICK eq, ab : /\ Turn(eq) /\ ~IsForEq(eq) /\ ab \in AliasesOf(evaluated(eq))
                      /\ alias(ab[1], ab[2], RemoveFirst(ReplaceAt(equations, pos, evaluated(eq)), evaluated(eq)))
    BY <1>1 DEF AliasEquality
  <2>2. ab = <<ab[1], ab[2]>>
    BY <2>1 DEF AliasesOf, saidBy
  <2>3. Aliased(eq, evaluated(eq), ab[1], ab[2],
                RemoveFirst(ReplaceAt(equations, pos, evaluated(eq)), evaluated(eq)))
    BY <2>1, <2>2 DEF Aliased
  <2> QED
    BY <2>1, <2>3
<1>2. CASE AliasForEq
  <2>1. PICK eq, ab : /\ Turn(eq) /\ IsForEq(eq) /\ ab \in ForAliasesOf(eq)
                      /\ alias(ab[1], ab[2], RemoveFirst(equations, eq))
    BY <1>2 DEF AliasForEq
  <2>2. ab = <<ab[1], ab[2]>>
    BY <2>1 DEF ForAliasesOf
  <2>3. ReplaceAt(equations, pos, eq) = equations
    BY <2>1 DEF ReplaceAt, Turn, FormInv, Written
  <2>4. Aliased(eq, eq, ab[1], ab[2], RemoveFirst(equations, eq))
    BY <2>1, <2>2, <2>3 DEF Aliased
  <2> QED
    BY <2>1, <2>4
<1> QED
  BY <1>1, <1>2

LEMMA EvaluatedEquation ==
  ASSUME NEW E, NEW elseifs \in BOOLEAN, IsExpressionSet(E, elseifs), Visitors(E), NEW eq \in Eqs(E)
  PROVE  /\ evaluated(eq) \in Eqs(E)
         /\ evaluated(eq).left = PartialEval(eq.left) /\ evaluated(eq).right = PartialEval(eq.right)
         /\ evaluated(eq).loop = eq.loop
         /\ RefsOf(evaluated(eq)) \subseteq RefsOf(eq)
<1>0. eq.left \in E /\ eq.right \in E /\ eq.loop \in {Scalar} \cup Int \X Int \X Int
  BY DEF Eqs
<1>1. /\ PartialEval(eq.left) \in E /\ PartialEval(eq.right) \in E
      /\ references(PartialEval(eq.left)) \subseteq references(eq.left)
      /\ references(PartialEval(eq.right)) \subseteq references(eq.right)
  BY <1>0, PartialEvalNames
<1>a. evaluated(eq) = [eq EXCEPT !.left = PartialEval(eq.left), !.right = PartialEval(eq.right)]
  BY DEF evaluated
<1>2. evaluated(eq) = [loop |-> eq.loop, left |-> PartialEval(eq.left), right |-> PartialEval(eq.right)]
  BY <1>a DEF Eqs
<1> QED
  BY <1>0, <1>1, <1>2 DEF Eqs, RefsOf

(* The list with one equation evaluated in place *)
LEMMA EvaluatedList ==
  ASSUME NEW E, NEW elseifs \in BOOLEAN, IsExpressionSet(E, elseifs), Visitors(E),
         FormInv(E), NEW eq, Turn(eq), NEW e, e = evaluated(eq) \/ e = eq
  PROVE  /\ eq \in Eqs(E) /\ \A r \in RefsOf(eq) : Subscripted(r) /\ r.name \in NamesOf(equations)
         /\ e \in Eqs(E) /\ RefsOf(e) \subseteq RefsOf(eq)
         /\ Written(ReplaceAt(equations, pos, e), E)
         /\ NamesOf(ReplaceAt(equations, pos, e)) \subseteq NamesOf(equations)
         /\ e \in Range(ReplaceAt(equations, pos, e))
<1> DEFINE list == ReplaceAt(equations, pos, e)
<1>0. /\ equations \in Seq(Eqs(E)) /\ pos \in DOMAIN equations /\ eq = equations[pos]
      /\ \A k \in DOMAIN equations : \A r \in RefsOf(equations[k]) : Subscripted(r)
  BY DEF FormInv, Written, Turn
<1>1. eq \in Eqs(E)
  BY <1>0
<1>2. e \in Eqs(E) /\ RefsOf(e) \subseteq RefsOf(eq)
  BY <1>1, EvaluatedEquation
<1>3. \A k \in DOMAIN equations : \A r \in RefsOf(equations[k]) : r.name \in NamesOf(equations)
  BY NamesOfList
<1> HIDE DEF Eqs
<1>4. /\ list \in Seq(Eqs(E)) /\ Len(list) = Len(equations)
      /\ \A j \in DOMAIN equations : list[j] = IF j = pos THEN e ELSE equations[j]
      /\ e \in Range(list)
  BY <1>0, <1>2, ReplaceAtFacts
<1> HIDE DEF list
<1>5. DOMAIN list = DOMAIN equations
  BY <1>0, <1>4
<1>6. \A k \in DOMAIN list : RefsOf(list[k]) \subseteq RefsOf(equations[k])
  BY <1>0, <1>2, <1>4, <1>5
<1>7. Written(list, E)
  BY <1>0, <1>4, <1>5, <1>6 DEF Written
<1>8. NamesOf(list) \subseteq NamesOf(equations)
  <2>1. \A k \in DOMAIN list : \A r \in RefsOf(list[k]) : r.name \in NamesOf(equations)
    BY <1>3, <1>5, <1>6
  <2> DEFINE L == NamesOf(equations)
  <2> HIDE DEF L
  <2>2. NamesOf(list) \subseteq L <=> \A k \in DOMAIN list : \A r \in RefsOf(list[k]) : r.name \in L
    BY NamesOfList
  <2> QED
    BY <2>1, <2>2 DEF L
<1> QED
  BY <1>0, <1>1, <1>2, <1>3, <1>4, <1>7, <1>8 DEF list

(* What is left of a list when one equation is removed *)
LEMMA RestOfList ==
  ASSUME NEW E, NEW list, Written(list, E), NEW e \in Range(list)
  PROVE  /\ Written(RemoveFirst(list, e), E)
         /\ NamesOf(RemoveFirst(list, e)) \subseteq NamesOf(list)
         /\ Range(RemoveFirst(list, e)) \cup {e} = Range(list)
<1> DEFINE rest == RemoveFirst(list, e)
<1> HIDE DEF Eqs
<1>0. list \in Seq(Eqs(E)) /\ \A k \in DOMAIN list : \A r \in RefsOf(list[k]) : Subscripted(r)
  BY DEF Written
<1>1. rest \in Seq(Eqs(E)) /\ Len(list) > 0 /\ Len(rest) = Len(list) - 1
  BY <1>0, RemoveFirstFacts
<1>2. PICK i \in DOMAIN list :
        /\ list[i] = e
        /\ \A k \in DOMAIN rest : rest[k] = list[IF k < i THEN k ELSE k + 1]
  BY <1>0, RemoveFirstFacts
<1> HIDE DEF rest
<1>3. \A k \in DOMAIN rest : \E j \in DOMAIN list : rest[k] = list[j]
  BY <1>0, <1>1, <1>2
<1>4. \A j \in DOMAIN list : list[j] = e \/ \E k \in DOMAIN rest : rest[k] = list[j]
  <2> SUFFICES ASSUME NEW j \in DOMAIN list, list[j] # e PROVE \E k \in DOMAIN rest : rest[k] = list[j]
    OBVIOUS
  <2>0. DOMAIN list = 1..Len(list) /\ DOMAIN rest = 1..(Len(list) - 1) /\ Len(list) \in Nat
    BY <1>0, <1>1
  <2>1. CASE j < i
    <3>1. j \in DOMAIN rest /\ rest[j] = list[j]
      BY <2>0, <2>1, <1>2
    <3> QED
      BY <3>1
  <2>2. CASE j > i
    <3>1. j - 1 \in DOMAIN rest /\ ~(j - 1 < i) /\ (j - 1) + 1 = j
      BY <2>0, <2>2, <1>2
    <3>2. rest[j - 1] = list[j]
      BY <3>1, <1>2
    <3> QED
      BY <3>1, <3>2
  <2> QED
    BY <2>0, <2>1, <2>2, <1>2
<1>5. Written(rest, E)
  BY <1>0, <1>1, <1>3 DEF Written
<1>6. NamesOf(rest) \subseteq NamesOf(list)
  <2> DEFINE L == NamesOf(list)
  <2>0. \A k \in DOMAIN list : \A r \in RefsOf(list[k]) : r.name \in L
    BY NamesOfList
  <2> HIDE DEF L
  <2>1. \A k \in DOMAIN rest : \A r \in RefsOf(rest[k]) : r.name \in L
    BY <2>0, <1>3
  <2>2. NamesOf(rest) \subseteq L <=> \A k \in DOMAIN rest : \A r \in RefsOf(rest[k]) : r.name \in L
    BY NamesOfList
  <2> QED
    BY <2>1, <2>2 DEF L
<1>7. Range(rest) \cup {e} = Range(list)
  BY <1>2, <1>3, <1>4 DEF Range
<1> QED
  BY <1>5, <1>6, <1>7 DEF rest

(* What replaces a variable *)
LEMMA AliasIsReplacement ==
  ASSUME NEW E, NEW elseifs \in BOOLEAN, IsExpressionSet(E, elseifs), Visitors(E),
         FormInv(E), NEW eq, NEW e, NEW a, NEW b, NEW rest, Aliased(eq, e, a, b, rest)
  PROVE  /\ Replacement(a, b, E)
         /\ a \in RefsOf(e) /\ references(b) \subseteq RefsOf(e)
         /\ a.name \in NamesOf(equations) /\ refNames(b) \subseteq NamesOf(equations)
         /\ Written(rest, E) /\ NamesOf(rest) \subseteq NamesOf(equations)
         /\ Range(rest) \cup {e} = Range(ReplaceAt(equations, pos, e))
<1>1. Turn(eq) /\ (e = evaluated(eq) \/ e = eq)
  BY DEF Aliased
<1>2. /\ e \in Eqs(E) /\ RefsOf(e) \subseteq RefsOf(eq)
      /\ \A r \in RefsOf(eq) : Subscripted(r) /\ r.name \in NamesOf(equations)
      /\ Written(ReplaceAt(equations, pos, e), E)
      /\ NamesOf(ReplaceAt(equations, pos, e)) \subseteq NamesOf(equations)
      /\ e \in Range(ReplaceAt(equations, pos, e))
  BY <1>1, EvaluatedList
<1>3. e.left \in E /\ e.right \in E /\ \A r \in RefsOf(e) : Subscripted(r) /\ r.name \in NamesOf(equations)
  BY <1>2 DEF Eqs
<1>4. /\ Written(rest, E) /\ NamesOf(rest) \subseteq NamesOf(equations)
      /\ Range(rest) \cup {e} = Range(ReplaceAt(equations, pos, e))
  BY <1>2, RestOfList DEF Aliased
<1>5. CASE ~IsForEq(eq) /\ e = evaluated(eq) /\ <<a, b>> \in AliasesOf(e)
  <2>1. ScalarPair(a, b, E) /\ a \in RefsOf(e) /\ references(b) \subseteq RefsOf(e)
    BY <1>3, <1>5, SaidPairs
  <2>2. Subscripted(a) /\ a.name \notin Arrays
    BY <2>1, <1>3 DEF ScalarPair, Subscripted
  <2>3. \A r \in references(b) : r.sub = Whole
    <3>1. CASE unsubscripted(b)
      <4>1. b \in Refs
        BY <2>1, <3>1, KindOf DEF ScalarPair, unsubscripted, Is
      <4> QED
        BY <4>1, <3>1, AtReference DEF unsubscripted
    <3>2. CASE Is("Number", b)
      <4>1. b.val \in Int /\ b = Number(b.val)
        BY <2>1, <3>2, KindOf DEF ScalarPair, Is
      <4>2. references(b) = {}
        BY <4>1, AtNumber
      <4> QED
        BY <4>2
    <3>3. CASE Is("Minus", b) /\ unsubscripted(b.exp)
      <4>1. b.exp \in E /\ b = Neg(b.exp)
        BY <2>1, <3>3, KindOf DEF ScalarPair, Is
      <4>2. b.exp \in Refs
        BY <4>1, <3>3, KindOf DEF unsubscripted, Is
      <4>3. references(b) = {b.exp}
        BY <4>1, <4>2, AtNeg, AtReference
      <4> QED
        BY <4>3, <3>3 DEF unsubscripted
    <3> QED
      BY <2>1, <3>1, <3>2, <3>3 DEF ScalarPair, Simple
  <2>4. Replacement(a, b, E)
    BY <2>1, <2>2, <2>3, <1>3 DEF Replacement, ScalarPair, Subscripted
  <2> QED
    BY <2>1, <2>4, <1>3, <1>4 DEF refNames
<1>6. CASE IsForEq(eq) /\ e = eq /\ <<a, b>> \in ForAliasesOf(eq)
  <2>1. ArrayPair(a, b) /\ a \in RefsOf(e) /\ references(b) \subseteq RefsOf(e)
    BY <1>3, <1>6, ForPairs
  <2>2. references(b) = {b} /\ b \in E /\ Refs \subseteq E
    BY <2>1, AtReference, Closed DEF ArrayPair
  <2>3. Replacement(a, b, E)
    BY <2>1, <2>2, <1>3 DEF Replacement, ArrayPair
  <2> QED
    BY <2>1, <2>3, <1>3, <1>4 DEF refNames
<1> QED
  BY <1>5, <1>6 DEF Aliased

LEMMA ReplacedLists ==
  ASSUME NEW E, NEW elseifs \in BOOLEAN, IsExpressionSet(E, elseifs), Visitors(E),
         NEW a, NEW b, Replacement(a, b, E), NEW list, Written(list, E)
  PROVE  /\ Written(replaceIn(a, b, list), E)
         /\ NamesOf(replaceIn(a, b, list)) \subseteq (NamesOf(list) \ {a.name}) \cup refNames(b)
<1> DEFINE yes == TRUE
           new == replaceIn(a, b, list)
<1>1. ASSUME NEW k \in DOMAIN list PROVE new[k] = rewritten(a, b, yes, list[k])
  BY DEF replaceIn, replaceEquation, rewritten
<1>2. yes \in BOOLEAN /\ ~(yes = FALSE)
  OBVIOUS
<1> HIDE DEF yes
<1>3. new = [k \in DOMAIN list |-> new[k]]
  BY DEF replaceIn
<1> HIDE DEF new
<1>4. ASSUME NEW k \in DOMAIN list
      PROVE  new[k] \in Eqs(E) /\ AllCome(RefsOf(new[k]), RefsOf(list[k]), a, b)
  <2>1. list[k] \in Eqs(E) /\ \A r \in RefsOf(list[k]) : Subscripted(r)
    BY DEF Written
  <2>2. /\ rewritten(a, b, yes, list[k]) \in Eqs(E)
        /\ AllCome(RefsOf(rewritten(a, b, yes, list[k])), RefsOf(list[k]), a, b)
    BY <1>2, <2>1, EquationReplaced
  <2> QED
    BY <1>1, <2>2
<1>5. /\ Written(new, E)
      /\ NamesOf(new) \subseteq (NamesOf(list) \ {a.name}) \cup refNames(b)
  BY <1>3, <1>4, ListReplaced
<1> QED
  BY <1>5 DEF new

LEMMA ReplacedStatements ==
  ASSUME NEW E, NEW elseifs \in BOOLEAN, IsExpressionSet(E, elseifs), Visitors(E),
         NEW a, NEW b, Replacement(a, b, E), NEW list, Written(list, E), Plain(list),
         NEW new, new = replaceInStatements(a, b, list)
  PROVE  /\ Written(new, E) /\ Plain(new)
         /\ NamesOf(new) \subseteq (NamesOf(list) \ {a.name}) \cup refNames(b)
<1> DEFINE no == FALSE
<1>1. ASSUME NEW k \in DOMAIN list PROVE new[k] = rewritten(a, b, no, list[k])
  BY DEF replaceInStatements, replaceStatement, rewritten
<1>2. no \in BOOLEAN
  OBVIOUS
<1> HIDE DEF no
<1>3. new = [k \in DOMAIN list |-> new[k]]
  BY DEF replaceInStatements
<1>4. ASSUME NEW k \in DOMAIN list
      PROVE  new[k] \in Eqs(E) /\ AllCome(RefsOf(new[k]), RefsOf(list[k]), a, b)
  <2>1. /\ list[k] \in Eqs(E) /\ \A r \in RefsOf(list[k]) : Subscripted(r)
        /\ \A r \in RefsOf(list[k]) : r.name \notin Arrays
    BY DEF Written, Plain
  <2>2. /\ rewritten(a, b, no, list[k]) \in Eqs(E)
        /\ AllCome(RefsOf(rewritten(a, b, no, list[k])), RefsOf(list[k]), a, b)
    BY <1>2, <2>1, EquationReplaced
  <2> QED
    BY <1>1, <2>2
<1>5. /\ Written(new, E)
      /\ NamesOf(new) \subseteq (NamesOf(list) \ {a.name}) \cup refNames(b)
  BY <1>3, <1>4, ListReplaced
<1>6. ASSUME NEW k \in DOMAIN list, NEW q \in RefsOf(new[k]) PROVE q.name \notin Arrays
  <2>1. \A r \in RefsOf(list[k]) : r.name \notin Arrays
    BY DEF Plain
  <2>2. Comes(q, RefsOf(list[k]), a, b)
    BY <1>4 DEF AllCome
  <2> QED
    BY <2>1, <2>2 DEF Comes, Replacement
<1>7. Plain(new)
  BY <1>3, <1>6 DEF Plain
<1> QED
  BY <1>5, <1>7

-----------------------------------------------------------------------------
(***************************************************************************)
(* What was removed does not come back.                                    *)
(***************************************************************************)
Acyclic == \A k \in DOMAIN removed : removed[k][1].name \notin refNames(removed[k][2])

GoneInv ==
  Acyclic => /\ variables \in Seq(Names) /\ IsInjective(variables)
             /\ Left = syms /\ Occurring \subseteq syms
             /\ pc # "error"

LEMMA InitForm ==
  ASSUME NEW E, \A m \in Models : FlatModel(m, E)
  PROVE  AInit => FormInv(E)
<1> SUFFICES ASSUME AInit PROVE FormInv(E)
  OBVIOUS
<1>1. FlatModel(input, E)
  BY DEF AInit
<1>2. removed = <<>> /\ <<>> \in Seq(Refs \X E)
  BY DEF AInit
<1> QED
  BY <1>1, <1>2 DEF AInit, FlatModel, Regular, WellSubscripted, Written, FormInv, Plain

LEMMA NextForm ==
  ASSUME NEW E, NEW elseifs \in BOOLEAN, IsExpressionSet(E, elseifs), Visitors(E)
  PROVE  FormInv(E) /\ [ANext]_avars => FormInv(E)'
<1> SUFFICES ASSUME FormInv(E), [ANext]_avars PROVE FormInv(E)'
  OBVIOUS
<1>1. CASE UNCHANGED <<equations, initial_eqs, statements, initial_sts, removed>>
  BY <1>1 DEF FormInv, Written, Plain
<1>2. CASE AliasEquality \/ AliasForEq
  <2>1. PICK eq, e, a, b, rest : Aliased(eq, e, a, b, rest) /\ alias(a, b, rest)
    BY <1>2, AliasSteps
  <2>2. Replacement(a, b, E) /\ Written(rest, E)
    BY <2>1, AliasIsReplacement
  <2>3. Written(equations', E) /\ Written(initial_eqs', E)
    BY <2>1, <2>2, ReplacedLists DEF alias, FormInv
  <2>4. Written(statements', E) /\ Plain(statements')
    BY <2>1, <2>2, ReplacedStatements DEF alias, FormInv
  <2>5. Written(initial_sts', E) /\ Plain(initial_sts')
    BY <2>1, <2>2, ReplacedStatements DEF alias, FormInv
  <2>6. removed' \in Seq(Refs \X E)
    <3>1. <<a, b>> \in Refs \X E
      BY <2>2 DEF Replacement
    <3>2. removed' = Append(removed, <<a, b>>) /\ removed \in Seq(Refs \X E)
      BY <2>1 DEF alias, FormInv
    <3> QED
      BY <3>1, <3>2
  <2> QED
    BY <2>3, <2>4, <2>5, <2>6 DEF FormInv, Plain, Written
<1>3. CASE PassEquality
  <2>1. PICK eq : Turn(eq) /\ equations' = ReplaceAt(equations, pos, evaluated(eq))
    BY <1>3 DEF PassEquality
  <2>2. Written(equations', E)
    BY <2>1, EvaluatedList
  <2>3. UNCHANGED <<initial_eqs, statements, initial_sts, removed>>
    BY <1>3 DEF PassEquality
  <2> QED
    BY <2>2, <2>3 DEF FormInv, Plain, Written
<1> QED
  BY <1>1, <1>2, <1>3 DEF ANext, NoSymbol, PassForEq, ListEnds, While, avars

-----------------------------------------------------------------------------
(***************************************************************************)
(* No alias is left.                                                       *)
(***************************************************************************)
(* The opposite of a variable, of its opposite, and of a number *)
LEMMA Opposites ==
  ASSUME NEW E, NEW elseifs \in BOOLEAN, IsExpressionSet(E, elseifs), Visitors(E)
  PROVE  /\ \A r \in Refs : PartialEval(Neg(r)) = Neg(r) /\ PartialEval(Neg(Neg(r))) = r
         /\ \A v \in Int :
              /\ v < 0 => PartialEval(Neg(Number(v))) = Neg(Parens(Number(v)))
              /\ ~(v < 0) => PartialEval(Neg(Number(v))) = Number(-v)
              /\ v < 0 => PartialEval(Neg(Neg(Parens(Number(v))))) = Number(v)
<1>1. ASSUME NEW r \in Refs
      PROVE  PartialEval(Neg(r)) = Neg(r) /\ PartialEval(Neg(Neg(r))) = r
  <2>1. r \in E /\ Neg(r) \in E /\ r.kind = "Reference"
    BY Closed, NodeParts
  <2>2. PartialEval(r) = r /\ PartialEval(Neg(r)) = evalMinus(r)
    BY <2>1, PartialEvalAt
  <2>3. evalMinus(r) = Neg(r)
    BY <2>1 DEF evalMinus, Is
  <2>4. PartialEval(Neg(Neg(r))) = evalMinus(Neg(r))
    BY <2>1, <2>2, <2>3, PartialEvalAt
  <2>5. evalMinus(Neg(r)) = r
    BY NodeParts DEF evalMinus, Is
  <2> QED
    BY <2>2, <2>3, <2>4, <2>5
<1>2. ASSUME NEW v \in Int
      PROVE  /\ Number(v) \in E /\ Parens(Number(v)) \in E /\ Neg(Parens(Number(v))) \in E
             /\ evalMinus(Number(v)) = Number(-v)
             /\ PartialEval(Neg(Number(v))) = evalMinus(PartialEval(Number(v)))
             /\ PartialEval(Parens(Number(v))) = Number(v)
  <2>1. Number(v) \in E /\ Parens(Number(v)) \in E /\ Neg(Parens(Number(v))) \in E
    BY Closed
  <2>2. evalMinus(Number(v)) = Number(-v)
    BY NodeParts DEF evalMinus, Is
  <2>3. PartialEval(Parens(Number(v))) = Number(v)
    BY <2>1, NodeParts, PartialEvalAt DEF Is
  <2> QED
    BY <2>1, <2>2, <2>3, PartialEvalAt
<1>3. ASSUME NEW v \in Int, v < 0 PROVE PartialEval(Neg(Number(v))) = Neg(Parens(Number(v)))
  <2>1. PartialEval(Number(v)) = Parens(Number(v))
    BY <1>3, PartialEvalAt
  <2>2. evalMinus(Parens(Number(v))) = Neg(Parens(Number(v)))
    BY NodeParts DEF evalMinus, Is
  <2> QED
    BY <2>1, <2>2, <1>2
<1>4. ASSUME NEW v \in Int, ~(v < 0) PROVE PartialEval(Neg(Number(v))) = Number(-v)
  <2>1. PartialEval(Number(v)) = Number(v)
    BY <1>4, PartialEvalAt
  <2> QED
    BY <2>1, <1>2
<1>5. ASSUME NEW v \in Int PROVE PartialEval(Neg(Neg(Parens(Number(v))))) = Number(v)
  <2> DEFINE n == Number(v)
  <2>1. n \in E /\ Parens(n) \in E /\ Neg(Parens(n)) \in E /\ PartialEval(Parens(n)) = n
    BY <1>2
  <2>2. evalMinus(n) = Number(-v) /\ evalMinus(Number(-v)) = Number(-(-v))
    BY <1>2
  <2> HIDE DEF n
  <2>3. PartialEval(Neg(Parens(n))) = Number(-v)
    BY <2>1, <2>2, PartialEvalAt
  <2>4. PartialEval(Neg(Neg(Parens(n)))) = Number(-(-v))
    BY <2>1, <2>2, <2>3, PartialEvalAt
  <2>5. -(-v) = v
    OBVIOUS
  <2> QED
    BY <2>4, <2>5 DEF n
<1> QED
  BY <1>1, <1>3, <1>4, <1>5

(* What becomes of the term u that is compared to s, when s is left alone on the left *)
Negated(u)       == PartialEval(Neg(u))
NegatedIf(c, u)  == IF c THEN Negated(u) ELSE u
Carried(p, s, u) == NegatedIf(Is("Minus", s), NegatedIf(Is("Add", p), u))

LEMMA PlainTerm ==
  ASSUME NEW s, isPlainTerm(s)
  PROVE  /\ bare(s) = inner(s)
         /\ Is("Number", s) => inner(s) = s
         /\ ~Is("Number", s) => Is("Reference", inner(s))
         /\ Is("Reference", s) => inner(s) = s
         /\ Is("Minus", s) => inner(s) = s.exp
         /\ ~Is("Number", s) /\ ~Is("Minus", s) => Is("Reference", s)
         /\ ~IsBinOp(s)
  BY DEF isPlainTerm, bare, inner, Is, IsBinOp

LEMMA SignMoved ==
  ASSUME NEW s, isPlainTerm(s), ~Is("Number", s), NEW w
  PROVE  signToRight(Pair(s, w)) = Pair(inner(s), NegatedIf(Is("Minus", s), w))
<1>1. CASE Is("Minus", s)
  <2>1. inner(s) = s.exp /\ Is("Reference", s.exp)
    BY <1>1, PlainTerm
  <2> QED
    BY <2>1, <1>1 DEF signToRight, Pair, NegatedIf, Negated
<1>2. CASE ~Is("Minus", s)
  <2>1. inner(s) = s
    BY <1>2, PlainTerm
  <2> QED
    BY <2>1, <1>2 DEF signToRight, Pair, NegatedIf
<1> QED
  BY <1>1, <1>2

LEMMA SumNormalized ==
  ASSUME NEW d, IsBinOp(d), isPlainTerm(d.left), ~Is("Number", d.left), NEW z, isZero(z)
  PROVE  /\ signToRight(splitZero(numberToRight(signToRight(Pair(d, z))))) =
              Pair(inner(d.left), Carried(d, d.left, d.right))
         /\ signToRight(splitZero(numberToRight(signToRight(Pair(z, d))))) =
              Pair(inner(d.left), Carried(d, d.left, d.right))
<1>1. z.kind = "Number"
  BY NodeParts DEF isZero
<1>2. signToRight(Pair(d, z)) = Pair(d, z) /\ numberToRight(Pair(d, z)) = Pair(d, z)
  BY DEF signToRight, numberToRight, Pair, IsBinOp, Is
<1>3. signToRight(Pair(z, d)) = Pair(z, d) /\ numberToRight(Pair(z, d)) = Pair(d, z)
  BY <1>1 DEF signToRight, numberToRight, Pair, Is
<1>4. splitZero(Pair(d, z)) = Pair(d.left, NegatedIf(Is("Add", d), d.right))
  <2>1. CASE d.kind = "Add"
    BY <2>1 DEF splitZero, Pair, Is, NegatedIf, Negated
  <2>2. CASE d.kind = "Sub"
    BY <2>2 DEF splitZero, Pair, Is, NegatedIf
  <2> QED
    BY <2>1, <2>2 DEF IsBinOp
<1> QED
  BY <1>2, <1>3, <1>4, SignMoved DEF Carried

(* One of the terms is brought to the left, as a variable, and the other one to the right. *)
LEMMA ComparedRead ==
  ASSUME NEW eq, NEW p \in Compared(eq), isPlainTerm(p.left), isPlainTerm(p.right),
         ~Is("Number", p.left) \/ ~Is("Number", p.right), ~NumberFirst(p)
  PROVE  \E t \in Orders(p) :
           /\ ~Is("Number", t[1])
           /\ t = <<p.left, p.right>> \/ Is("Number", t[2])
           /\ normalized(eq) = Pair(inner(t[1]), Carried(p, t[1], t[2]))
<1> DEFINE l == eq.left
           r == eq.right
<1>1. normalized(eq) = signToRight(splitZero(numberToRight(signToRight(Pair(l, r)))))
  BY DEF normalized
<1>2. CASE p = BinOp("Equal", l, r)
  <2>1. p.left = l /\ p.right = r /\ ~Is("Add", p)
    BY <1>2, NodeParts DEF Is
  <2>2. \A s, u : Carried(p, s, u) = NegatedIf(Is("Minus", s), u)
    BY <2>1 DEF Carried, NegatedIf
  <2>3. CASE ~Is("Number", l)
    <3>1. signToRight(Pair(l, r)) = Pair(inner(l), Carried(p, l, r)) /\ Is("Reference", inner(l))
      BY <2>1, <2>2, <2>3, SignMoved, PlainTerm
    <3>2. \A w : /\ numberToRight(Pair(inner(l), w)) = Pair(inner(l), w)
                 /\ splitZero(Pair(inner(l), w)) = Pair(inner(l), w)
                 /\ signToRight(Pair(inner(l), w)) = Pair(inner(l), w)
      BY <3>1 DEF numberToRight, splitZero, signToRight, Pair, Is
    <3>3. normalized(eq) = Pair(inner(l), Carried(p, l, r))
      BY <1>1, <3>1, <3>2
    <3> QED
      BY <2>1, <2>3, <3>3 DEF Orders
  <2>4. CASE Is("Number", l)
    <3>1. signToRight(Pair(l, r)) = Pair(l, r) /\ numberToRight(Pair(l, r)) = Pair(r, l)
      BY <2>4 DEF signToRight, numberToRight, Pair, Is
    <3>2. ~Is("Number", r) /\ isPlainTerm(r) /\ ~IsBinOp(r)
      BY <2>1, <2>4, PlainTerm
    <3>3. splitZero(Pair(r, l)) = Pair(r, l)
      BY <3>2 DEF splitZero, Pair, IsBinOp, Is
    <3>4. signToRight(Pair(r, l)) = Pair(inner(r), Carried(p, r, l))
      BY <2>2, <3>2, SignMoved
    <3>5. normalized(eq) = Pair(inner(r), Carried(p, r, l))
      BY <1>1, <3>1, <3>3, <3>4
    <3> QED
      BY <2>1, <2>4, <3>2, <3>5 DEF Orders
  <2> QED
    BY <2>3, <2>4
<1>3. CASE IsBinOp(p) /\ ((p = l /\ isZero(r)) \/ (p = r /\ isZero(l)))
  <2>1. ~Is("Number", p.left)
    BY <1>3 DEF NumberFirst
  <2>2. normalized(eq) = Pair(inner(p.left), Carried(p, p.left, p.right))
    BY <1>1, <1>3, <2>1, SumNormalized
  <2> QED
    BY <2>1, <2>2 DEF Orders
<1>4. \/ p = BinOp("Equal", l, r)
      \/ IsBinOp(p) /\ ((p = l /\ isZero(r)) \/ (p = r /\ isZero(l)))
  BY DEF Compared
<1> QED
  BY <1>2, <1>3, <1>4

(* A variable on the left is an alias of the other one unless both are states, of its
   opposite unless it is a state itself, and of every number. *)
LEMMA SaidByVariable ==
  ASSUME NEW r, unsubscripted(r), isVariable(r.name), NEW q
  PROVE  /\ Is("Number", q) => saidBy(r, q) # {}
         /\ /\ unsubscripted(q) /\ isVariable(q.name)
            /\ ~isState(r.name) \/ ~isState(q.name)
            => saidBy(r, q) # {}
         /\ unsubscripted(q) /\ isVariable(q.name) /\ ~isState(r.name) => saidBy(r, Neg(q)) # {}
<1>1. ASSUME Is("Number", q) PROVE saidBy(r, q) # {}
  BY <1>1 DEF saidBy, unsubscripted, Is
<1>2. ASSUME unsubscripted(q), isVariable(q.name), ~isState(r.name) \/ ~isState(q.name)
      PROVE  saidBy(r, q) # {}
  <2>1. saidBy(r, q) = IF ~isState(r.name) THEN {<<r, q>>} ELSE {<<q, r>>}
    BY <1>2 DEF saidBy, unsubscripted, Is, isVariable, isState
  <2> QED
    BY <2>1
<1>3. ASSUME unsubscripted(q), isVariable(q.name), ~isState(r.name)
      PROVE  saidBy(r, Neg(q)) # {}
  <2>1. Neg(q).kind = "Minus" /\ Neg(q).exp = q
    BY NodeParts
  <2>2. saidBy(r, Neg(q)) = {<<r, Neg(q)>>}
    BY <2>1, <1>3 DEF saidBy, unsubscripted, Is, isVariable, isState
  <2> QED
    BY <2>2
<1> QED
  BY <1>1, <1>2, <1>3

(* A number on the other side ends as a number, and a variable as itself or its opposite. *)
LEMMA NumberCarried ==
  ASSUME NEW E, NEW elseifs \in BOOLEAN, IsExpressionSet(E, elseifs), Visitors(E),
         NEW p, NEW t \in Orders(p), ~NegativeToNegate(p), t[2] \in E, Is("Number", t[2])
  PROVE  Is("Number", Carried(p, t[1], t[2]))
<1> DEFINE v == t[2].val
           sign == Is("Minus", t[1])
           sum == Is("Add", p)
<1>1. v \in Int /\ t[2] = Number(v)
  BY KindOf DEF Is
<1>2. opposite(p) <=> (~sign <=> sum)
  BY DEF opposite, Orders, Is
<1>3. ~(opposite(p) /\ v < 0) /\ ~(sum /\ sign /\ v > 0)
  BY DEF NegativeToNegate
<1> HIDE DEF v, sign, sum
<1>4. \A n : Is("Number", Number(n))
  BY NodeParts DEF Is
<1>5. ~(v < 0) => Negated(Number(v)) = Number(-v)
  BY <1>1, Opposites DEF Negated
<1>6. CASE ~sign /\ ~sum
  <2>1. Carried(p, t[1], t[2]) = Number(v)
    BY <1>1, <1>6 DEF Carried, NegatedIf, sign, sum
  <2> QED
    BY <2>1, <1>4
<1>7. CASE ~(sign <=> sum)
  <2>1. Carried(p, t[1], t[2]) = Negated(Number(v))
    BY <1>1, <1>7 DEF Carried, NegatedIf, sign, sum
  <2>2. ~(v < 0)
    BY <1>2, <1>3, <1>7
  <2> QED
    BY <2>1, <2>2, <1>4, <1>5
<1>8. CASE sign /\ sum
  <2>1. Carried(p, t[1], t[2]) = Negated(Negated(Number(v)))
    BY <1>1, <1>8 DEF Carried, NegatedIf, sign, sum
  <2>2. CASE v < 0
    <3>1. Negated(Negated(Number(v))) = Number(v)
      BY <1>1, <2>2, Opposites DEF Negated
    <3> QED
      BY <2>1, <3>1, <1>4
  <2>3. CASE ~(v < 0)
    <3>1. v = 0 /\ -v = 0
      BY <1>1, <1>3, <1>8, <2>3
    <3>2. Negated(Number(v)) = Number(v)
      BY <1>5, <2>3, <3>1
    <3> QED
      BY <2>1, <3>2, <1>4
  <2> QED
    BY <2>2, <2>3
<1> QED
  BY <1>6, <1>7, <1>8

LEMMA VariableCarried ==
  ASSUME NEW E, NEW elseifs \in BOOLEAN, IsExpressionSet(E, elseifs), Visitors(E),
         NEW p, isPlainTerm(p.left), isPlainTerm(p.right), p.right \in E, ~Is("Number", p.right)
  PROVE  Carried(p, p.left, p.right) =
           IF opposite(p) THEN Neg(inner(p.right)) ELSE inner(p.right)
<1> DEFINE b == inner(p.right)
           sign == Is("Minus", p.left)
           sum == Is("Add", p)
           own == Is("Minus", p.right)
<1>1. b \in Refs /\ p.right = IF own THEN Neg(b) ELSE b
  <2>1. CASE own
    <3>1. p.right = Neg(b) /\ b \in E /\ Is("Reference", b)
      BY <2>1, KindOf, PlainTerm DEF Is
    <3> QED
      BY <3>1, <2>1, KindOf DEF Is
  <2>2. CASE ~own
    <3>1. Is("Reference", p.right) /\ b = p.right
      BY <2>2, PlainTerm
    <3> QED
      BY <3>1, <2>2, KindOf DEF Is
  <2> QED
    BY <2>1, <2>2
<1>2. opposite(p) <=> ((sign <=> own) <=> sum)
  BY DEF opposite
<1>3. Carried(p, p.left, p.right) = NegatedIf(sign, NegatedIf(sum, p.right))
  BY DEF Carried
<1> HIDE DEF b, sign, sum, own
<1>4. Negated(b) = Neg(b) /\ Negated(Neg(b)) = b
  BY <1>1, Opposites DEF Negated
<1>5. CASE own
  <2>1. p.right = Neg(b)
    BY <1>1, <1>5
  <2>2. opposite(p) <=> (sign <=> sum)
    BY <1>2, <1>5
  <2>3. NegatedIf(sign, NegatedIf(sum, Neg(b))) = IF sign <=> sum THEN Neg(b) ELSE b
    BY <1>4 DEF NegatedIf
  <2> QED
    BY <2>1, <2>2, <2>3, <1>3 DEF b
<1>6. CASE ~own
  <2>1. p.right = b
    BY <1>1, <1>6
  <2>2. opposite(p) <=> ~(sign <=> sum)
    BY <1>2, <1>6
  <2>3. NegatedIf(sign, NegatedIf(sum, b)) = IF sign <=> sum THEN b ELSE Neg(b)
    BY <1>4 DEF NegatedIf
  <2> QED
    BY <2>1, <2>2, <2>3, <1>3 DEF b
<1> QED
  BY <1>5, <1>6

(* Whatever is useful and has a form that is recognised is read off the equality. *)
LEMMA UsefulIsRead ==
  ASSUME NEW E, NEW elseifs \in BOOLEAN, IsExpressionSet(E, elseifs), Visitors(E),
         NEW eq, eq.left \in E, eq.right \in E, AliasesOf(eq) = {},
         NEW p \in Compared(eq), Useful(p)
  PROVE  NotRecognised(p)
<1> SUFFICES ASSUME ~NotRecognised(p) PROVE FALSE
  OBVIOUS
<1>1. /\ isPlainTerm(p.left) /\ isPlainTerm(p.right)
      /\ ~OppositeOfState(p) /\ ~NumberFirst(p) /\ ~NegativeToNegate(p)
  BY DEF NotRecognised, Wrapped
<1>2. p.left \in E /\ p.right \in E
  <2>1. CASE p = BinOp("Equal", eq.left, eq.right)
    BY <2>1, NodeParts
  <2>2. CASE IsBinOp(p) /\ p \in {eq.left, eq.right}
    BY <2>2, KindOf DEF IsBinOp
  <2> QED
    BY <2>1, <2>2 DEF Compared
<1>3. \A e \in {p.left, p.right} :
        /\ isPlainTerm(e) /\ e \in E /\ bare(e) = inner(e)
        /\ isTermOfVariable(e) => ~Is("Number", e)
        /\ Is("Number", bare(e)) => Is("Number", e)
  <2> SUFFICES ASSUME NEW e \in {p.left, p.right}
               PROVE  /\ isPlainTerm(e) /\ e \in E /\ bare(e) = inner(e)
                      /\ isTermOfVariable(e) => ~Is("Number", e)
                      /\ Is("Number", bare(e)) => Is("Number", e)
    OBVIOUS
  <2>1. isPlainTerm(e) /\ e \in E
    BY <1>1, <1>2
  <2> QED
    BY <2>1, PlainTerm DEF isTermOfVariable, unsubscripted, Is
<1>4. PICK o \in Orders(p) :
        /\ isTermOfVariable(o[1]) /\ ~isState(bare(o[1]).name)
        /\ isTermOfVariable(o[2]) \/ Is("Number", bare(o[2]))
  BY DEF Useful
<1>5. o[1] \in {p.left, p.right} /\ o[2] \in {p.left, p.right} /\ {p.left, p.right} = {o[1], o[2]}
  BY DEF Orders
<1>6. ~Is("Number", p.left) \/ ~Is("Number", p.right)
  BY <1>3, <1>4, <1>5
<1>7. PICK t \in Orders(p) :
        /\ ~Is("Number", t[1])
        /\ t = <<p.left, p.right>> \/ Is("Number", t[2])
        /\ normalized(eq) = Pair(inner(t[1]), Carried(p, t[1], t[2]))
  BY <1>1, <1>6, ComparedRead
<1>8. t[1] \in {p.left, p.right} /\ t[2] \in {p.left, p.right} /\ {t[1], t[2]} = {o[1], o[2]}
  BY <1>5 DEF Orders
<1>9. saidBy(inner(t[1]), Carried(p, t[1], t[2])) = {}
  BY <1>7 DEF AliasesOf, Pair
<1>10. isTermOfVariable(t[1])
  BY <1>3, <1>4, <1>5, <1>7, <1>8
<1>11. unsubscripted(inner(t[1])) /\ isVariable(inner(t[1]).name)
  BY <1>3, <1>8, <1>10 DEF isTermOfVariable
<1>12. CASE Is("Number", t[2])
  <2>1. Is("Number", Carried(p, t[1], t[2]))
    BY <1>1, <1>3, <1>8, <1>12, NumberCarried
  <2> QED
    BY <2>1, <1>9, <1>11, SaidByVariable
<1>13. CASE ~Is("Number", t[2])
  <2> DEFINE a == inner(p.left)
             b == inner(p.right)
  <2>1. t[1] = p.left /\ t[2] = p.right
    BY <1>7, <1>13
  <2>2. isTermOfVariable(p.right)
    BY <1>3, <1>4, <1>5, <1>8, <1>13, <2>1
  <2>3. unsubscripted(b) /\ isVariable(b.name) /\ bare(p.left) = a /\ bare(p.right) = b
    BY <1>3, <2>2 DEF isTermOfVariable
  <2>4. ~isState(a.name) \/ ~isState(b.name)
    BY <1>4, <1>5, <2>3
  <2>5. saidBy(a, IF opposite(p) THEN Neg(b) ELSE b) = {}
    BY <1>1, <1>2, <1>9, <1>13, <2>1, VariableCarried
  <2>6. opposite(p) => ~isState(a.name)
    BY <1>1, <1>10, <2>1, <2>2, <2>3 DEF OppositeOfState
  <2>7. unsubscripted(a) /\ isVariable(a.name)
    BY <1>11, <2>1
  <2> HIDE DEF a, b
  <2> QED
    BY <2>3, <2>4, <2>5, <2>6, <2>7, SaidByVariable
<1> QED
  BY <1>12, <1>13

(* While nothing was an alias yet, no equation that the scan has passed is one. *)
Passed(eq) == ~IsForEq(eq) => \A p \in Compared(eq) : Useful(p) => NotRecognised(p)

PassedUpTo(n) == \A k \in 1..(n - 1) : Passed(equations[k])
PassedInv     == aliased = FALSE => PassedUpTo(pos)

LEMMA SamePassed == ASSUME NEW eq, states' = states PROVE Passed(eq)' <=> Passed(eq)
<1>1. \A n : isState(n)' <=> isState(n)
  BY DEF isState
<1>2. \A p : OppositeOfState(p)' <=> OppositeOfState(p)
  BY DEF OppositeOfState, isState
<1>3. \A p : NotRecognised(p)' <=> NotRecognised(p)
  BY <1>2 DEF NotRecognised
<1>4. \A p : Useful(p)' <=> Useful(p)
  BY DEF Useful, isState
<1> QED
  BY <1>3, <1>4 DEF Passed

LEMMA NextPassed ==
  ASSUME NEW E, NEW elseifs \in BOOLEAN, IsExpressionSet(E, elseifs), Visitors(E)
  PROVE  FormInv(E) /\ Walked /\ PassedInv /\ [ANext]_avars => PassedInv'
<1> SUFFICES ASSUME FormInv(E), Walked, PassedInv, [ANext]_avars, aliased' = FALSE
             PROVE  PassedUpTo(pos)'
  BY DEF PassedInv
<1>1. states' = states
  BY DEF ANext, NoSymbol, AliasEquality, PassEquality, AliasForEq, PassForEq, ListEnds, While, avars
<1>2. ASSUME UNCHANGED <<equations, pos, aliased>> PROVE PassedUpTo(pos)'
  <2>1. PassedUpTo(pos)
    BY <1>2 DEF PassedInv
  <2> SUFFICES ASSUME NEW k \in 1..(pos - 1) PROVE Passed(equations[k])'
    BY <1>2 DEF PassedUpTo
  <2>2. PICK eq : eq = equations[k]
    OBVIOUS
  <2>3. Passed(eq) /\ eq = equations[k]'
    BY <2>1, <2>2, <1>2 DEF PassedUpTo
  <2> QED
    BY <2>3, <1>1, SamePassed
<1>3. ASSUME NEW eq, Turn(eq), NEW e, Passed(e), pos' = pos + 1,
             \A k \in DOMAIN equations : equations'[k] = IF k = pos THEN e ELSE equations[k]
      PROVE  PassedUpTo(pos)'
  <2>1. /\ PassedUpTo(pos) /\ DOMAIN equations = 1..Len(equations)
        /\ pos \in Nat \ {0} /\ pos =< Len(equations) /\ Len(equations) \in Nat
    BY <1>3 DEF Walked, PassedInv, Turn
  <2> SUFFICES ASSUME NEW k \in 1..pos PROVE Passed(equations[k])'
    BY <1>3, <2>1 DEF PassedUpTo
  <2>2. equations'[k] = IF k = pos THEN e ELSE equations[k]
    BY <1>3, <2>1
  <2>3. PICK f : f = equations'[k] /\ Passed(f)
    <3>1. CASE k = pos
      BY <3>1, <2>2, <1>3
    <3>2. CASE k # pos
      <4>1. k \in 1..(pos - 1)
        BY <3>2, <2>1
      <4>2. Passed(equations[k]) /\ equations'[k] = equations[k]
        BY <4>1, <3>2, <2>1, <2>2 DEF PassedUpTo
      <4> QED
        BY <4>2
    <3> QED
      BY <3>1, <3>2
  <2> QED
    BY <2>3, <1>1, SamePassed
<1>4. CASE NoSymbol \/ ListEnds \/ UNCHANGED avars
  BY <1>2, <1>4 DEF NoSymbol, ListEnds, avars
<1>5. CASE AliasEquality \/ AliasForEq
  BY <1>5 DEF AliasEquality, AliasForEq
<1>6. CASE PassEquality
  <2>1. PICK eq : /\ Turn(eq) /\ AliasesOf(evaluated(eq)) = {} /\ pos' = pos + 1
                  /\ equations' = ReplaceAt(equations, pos, evaluated(eq))
    BY <1>6 DEF PassEquality
  <2> DEFINE e == evaluated(eq)
  <2>2. e \in Eqs(E)
    BY <2>1, EvaluatedList
  <2>3. e.left \in E /\ e.right \in E
    BY <2>2 DEF Eqs
  <2>4. \A k \in DOMAIN equations : equations'[k] = IF k = pos THEN e ELSE equations[k]
    <3> DEFINE T == Range(equations) \cup {e}
    <3>1. equations \in Seq(T) /\ e \in T /\ pos \in DOMAIN equations
      BY <2>1 DEF Walked, Turn
    <3>2. equations' = ReplaceAt(equations, pos, e)
      BY <2>1
    <3> HIDE DEF e, T
    <3>3. /\ ReplaceAt(equations, pos, e) \in Seq(T)
          /\ Len(ReplaceAt(equations, pos, e)) = Len(equations)
          /\ \A j \in DOMAIN equations :
               ReplaceAt(equations, pos, e)[j] = IF j = pos THEN e ELSE equations[j]
      BY <3>1, ReplaceAtFacts
    <3> QED
      BY <3>2, <3>3
  <2>5. AliasesOf(e) = {}
    BY <2>1
  <2> HIDE DEF e
  <2>6. Passed(e)
    BY <2>3, <2>5, UsefulIsRead DEF Passed
  <2> QED
    BY <1>3, <2>1, <2>4, <2>6
<1>7. CASE PassForEq
  <2>1. PICK eq : Turn(eq) /\ IsForEq(eq) /\ pos' = pos + 1 /\ equations' = equations
    BY <1>7 DEF PassForEq
  <2>2. Passed(eq) /\ eq = equations[pos]
    BY <2>1 DEF Passed, Turn
  <2>3. \A k \in DOMAIN equations : equations'[k] = IF k = pos THEN eq ELSE equations[k]
    BY <2>1, <2>2
  <2> QED
    BY <1>3, <2>1, <2>2, <2>3
<1>8. CASE While
  <2>1. CASE aliased = TRUE
    <3>1. pos' = 1
      BY <1>8, <2>1 DEF While, startScan
    <3> QED
      BY <3>1 DEF PassedUpTo
  <2>2. CASE aliased # TRUE
    <3>1. UNCHANGED <<equations, pos, aliased>>
      BY <1>8, <2>2 DEF While, Walked
    <3> QED
      BY <3>1, <1>2
  <2> QED
    BY <2>1, <2>2
<1> QED
  BY <1>4, <1>5, <1>6, <1>7, <1>8 DEF ANext

(* removeAliasEquations leaves no equality that says that a variable that is no state is
   another variable, its opposite or a number, in none of the forms it recognises: the walk
   ends only with a scan that passed every equation since the last one was erased. *)
THEOREM NoneLeft ==
  ASSUME NEW E, NEW elseifs \in BOOLEAN, IsExpressionSet(E, elseifs), Visitors(E),
         \A m \in Models : FlatModel(m, E)
  PROVE  ASpec => []NoAliasLeft
<1>1. AInit => FormInv(E) /\ Walked /\ PassedInv
  <2>1. AInit => PassedInv
    BY DEF AInit, PassedInv, PassedUpTo
  <2> QED
    BY <2>1, InitForm, InitWalked
<1>2. FormInv(E) /\ Walked /\ PassedInv /\ [ANext]_avars => FormInv(E)' /\ Walked' /\ PassedInv'
  BY NextForm, NextWalked, NextPassed
<1>3. Walked /\ PassedInv => NoAliasLeft
  <2> SUFFICES ASSUME Walked, PassedInv, pc = "done", NEW eq \in Range(equations),
                      NEW p \in Compared(eq), ~IsForEq(eq), Useful(p)
               PROVE  NotRecognised(p)
    BY DEF NoAliasLeft
  <2>1. PICK k \in 1..Len(equations) : eq = equations[k]
    BY DEF Walked, Range
  <2>2. Passed(eq)
    BY <2>1 DEF Walked, PassedInv, PassedUpTo
  <2> QED
    BY <2>2 DEF Passed
<1> QED
  BY <1>1, <1>2, <1>3, PTL DEF ASpec

(* Every list of names is injective, and has every name. *)
LEMMA NamesAsList ==
  ASSUME NEW S, IsFiniteSet(S)
  PROVE  SetToSeq(S) \in Seq(S) /\ IsInjective(SetToSeq(S)) /\ Range(SetToSeq(S)) = S
<1> DEFINE n == Cardinality(S)
<1>1. n \in Nat /\ ExistsBijection(1..n, S)
  BY FS_CardinalityType
<1>2. PICK g : g \in Bijection(1..n, S)
  BY <1>1 DEF ExistsBijection
<1>3. g \in [1..n -> S] /\ IsInjective(g)
  BY <1>2 DEF Bijection, Injection
<1>4. SetToSeq(S) \in [1..n -> S] /\ IsInjective(SetToSeq(S))
  BY <1>3 DEF SetToSeq
<1>5. SetToSeq(S) \in Injection(1..n, S)
  BY <1>4 DEF Injection
<1>6. Cardinality(1..n) = n
  BY <1>1, FS_Interval
<1>7. SetToSeq(S) \in Surjection(1..n, S)
  BY <1>5, <1>6, FS_Injection
<1> QED
  BY <1>1, <1>4, <1>7 DEF Surjection, Range

LEMMA RemovedFromList ==
  ASSUME NEW T, NEW list \in Seq(T), IsInjective(list), NEW x \in Range(list)
  PROVE  /\ RemoveFirst(list, x) \in Seq(T) /\ IsInjective(RemoveFirst(list, x))
         /\ Range(RemoveFirst(list, x)) = Range(list) \ {x}
<1> DEFINE rest == RemoveFirst(list, x)
<1>1. rest \in Seq(T) /\ Len(list) > 0 /\ Len(rest) = Len(list) - 1
  BY RemoveFirstFacts
<1>2. PICK i \in DOMAIN list :
        /\ list[i] = x
        /\ \A k \in DOMAIN rest : rest[k] = list[IF k < i THEN k ELSE k + 1]
  BY RemoveFirstFacts
<1> HIDE DEF rest
<1> DEFINE at(k) == IF k < i THEN k ELSE k + 1
<1>3. \A k \in DOMAIN rest : at(k) \in DOMAIN list /\ at(k) # i /\ rest[k] = list[at(k)]
  BY <1>1, <1>2
<1>4. \A j, k \in DOMAIN rest : at(j) = at(k) => j = k
  BY <1>1, <1>2
<1>5. \A j \in DOMAIN list : j # i => \E k \in DOMAIN rest : at(k) = j
  <2> SUFFICES ASSUME NEW j \in DOMAIN list, j # i PROVE \E k \in DOMAIN rest : at(k) = j
    OBVIOUS
  <2>0. DOMAIN list = 1..Len(list) /\ DOMAIN rest = 1..(Len(list) - 1) /\ Len(list) \in Nat
    BY <1>1
  <2>1. CASE j < i
    <3>1. j \in DOMAIN rest /\ at(j) = j
      BY <2>0, <2>1, <1>2
    <3> QED
      BY <3>1
  <2>2. CASE j > i
    <3>1. j - 1 \in DOMAIN rest /\ at(j - 1) = j
      BY <2>0, <2>2, <1>2
    <3> QED
      BY <3>1
  <2> QED
    BY <2>0, <2>1, <2>2, <1>2
<1> HIDE DEF at
<1>6. IsInjective(rest)
  <2> SUFFICES ASSUME NEW j \in DOMAIN rest, NEW k \in DOMAIN rest, rest[j] = rest[k] PROVE j = k
    BY DEF IsInjective
  <2>1. at(j) = at(k)
    BY <1>3 DEF IsInjective
  <2> QED
    BY <2>1, <1>4
<1>7. Range(rest) = Range(list) \ {x}
  <2>1. ASSUME NEW y \in Range(rest) PROVE y \in Range(list) \ {x}
    <3>1. PICK k \in DOMAIN rest : y = rest[k]
      BY DEF Range
    <3>2. y = list[at(k)] /\ at(k) \in DOMAIN list /\ at(k) # i
      BY <3>1, <1>3
    <3> QED
      BY <3>2, <1>2 DEF Range, IsInjective
  <2>2. ASSUME NEW y \in Range(list), y # x PROVE y \in Range(rest)
    <3>1. PICK j \in DOMAIN list : y = list[j]
      BY DEF Range
    <3>2. PICK k \in DOMAIN rest : at(k) = j
      BY <3>1, <2>2, <1>2, <1>5
    <3> QED
      BY <3>1, <3>2, <1>3 DEF Range
  <2> QED
    BY <2>1, <2>2
<1> QED
  BY <1>1, <1>6, <1>7 DEF rest

LEMMA InitGone ==
  ASSUME NEW E, \A m \in Models : FlatModel(m, E)
  PROVE  AInit => GoneInv
<1> SUFFICES ASSUME AInit PROVE GoneInv
  OBVIOUS
<1>1. /\ input \in Models /\ FlatModel(input, E)
      /\ equations = input.equations /\ initial_eqs = input.initial_eqs
      /\ statements = input.statements /\ initial_sts = input.initial_sts
      /\ syms = input.names /\ variables = SetToSeq(input.names) /\ pc = "scan"
  BY DEF AInit
<1>2. IsFiniteSet(input.names) /\ input.names \subseteq Names
  BY <1>1, ModelsAssumption
<1>3. variables \in Seq(input.names) /\ IsInjective(variables) /\ Left = input.names
  BY <1>1, <1>2, NamesAsList DEF Left
<1>4. variables \in Seq(Names)
  BY <1>2, <1>3
<1>5. Occurring \subseteq syms
  BY <1>1 DEF FlatModel, Regular, Occurring
<1> QED
  BY <1>1, <1>3, <1>4, <1>5 DEF GoneInv

(* The names that are looked up occur. *)
LEMMA LookedUpOccur ==
  ASSUME NEW E, NEW elseifs \in BOOLEAN, IsExpressionSet(E, elseifs), Visitors(E),
         FormInv(E), NEW eq, Turn(eq)
  PROVE  lookedUp(eq) \subseteq NamesOf(equations)
<1>1. eq \in Eqs(E) /\ \A r \in RefsOf(eq) : r.name \in NamesOf(equations)
  BY EvaluatedList
<1>2. eq.left \in E /\ eq.right \in E
  BY <1>1 DEF Eqs
<1>3. CASE ~IsForEq(eq)
  <2>1. evalNames(eq.left) \subseteq refNames(eq.left) /\ evalNames(eq.right) \subseteq refNames(eq.right)
    BY <1>2, NamesOccur
  <2> QED
    BY <2>1, <1>1, <1>3 DEF lookedUp, refNames, RefsOf
<1>4. CASE IsForEq(eq) /\ covered(eq)
  <2> DEFINE l == forSides(eq).left
             r == forSides(eq).right
  <2>1. {l, r} = {eq.left, eq.right} /\ Is("Reference", l) /\ Is("Reference", r)
    BY <1>4 DEF forSides, Pair, covered
  <2>2. lookedUp(eq) = {l.name, r.name}
    BY <1>4 DEF lookedUp
  <2> HIDE DEF l, r
  <2>3. l \in Refs /\ r \in Refs
    BY <2>1, <1>2, KindOf DEF Is
  <2>4. references(l) = {l} /\ references(r) = {r}
    BY <2>3, AtReference
  <2> QED
    BY <2>1, <2>2, <2>4, <1>1 DEF RefsOf
<1> QED
  BY <1>3, <1>4 DEF lookedUp

LEMMA NextGone ==
  ASSUME NEW E, NEW elseifs \in BOOLEAN, IsExpressionSet(E, elseifs), Visitors(E)
  PROVE  FormInv(E) /\ GoneInv /\ [ANext]_avars => GoneInv'
<1> SUFFICES ASSUME FormInv(E), GoneInv, [ANext]_avars, Acyclic' PROVE GoneInv'
  BY DEF GoneInv
<1>1. CASE AliasEquality \/ AliasForEq
  <2>1. PICK eq, e, a, b, rest : Aliased(eq, e, a, b, rest) /\ alias(a, b, rest)
    BY <1>1, AliasSteps
  <2>2. /\ Replacement(a, b, E) /\ Written(rest, E) /\ NamesOf(rest) \subseteq NamesOf(equations)
        /\ a.name \in NamesOf(equations) /\ refNames(b) \subseteq NamesOf(equations)
    BY <2>1, AliasIsReplacement
  <2>3. removed' = Append(removed, <<a, b>>) /\ removed \in Seq(Refs \X E)
    BY <2>1 DEF alias, FormInv
  <2>4. Acyclic /\ a.name \notin refNames(b)
    <3>1. /\ Len(removed) + 1 \in DOMAIN removed' /\ removed'[Len(removed) + 1] = <<a, b>>
          /\ \A k \in DOMAIN removed : k \in DOMAIN removed' /\ removed'[k] = removed[k]
      BY <2>3
    <3> QED
      BY <3>1 DEF Acyclic
  <2>5. /\ variables \in Seq(Names) /\ IsInjective(variables)
        /\ Left = syms /\ Occurring \subseteq syms
    BY <2>4 DEF GoneInv
  <2>6. a.name \in Left
    BY <2>2, <2>5 DEF Occurring
  <2>7. /\ variables' \in Seq(Names) /\ IsInjective(variables)'
        /\ Left' = Left \ {a.name}
    BY <2>1, <2>5, <2>6, RemovedFromList DEF alias, Left
  <2>8. syms' = syms \ {a.name} /\ pc' = "test"
    BY <2>1, <1>1 DEF alias, AliasEquality, AliasForEq
  <2>9. /\ NamesOf(equations') \subseteq (NamesOf(rest) \ {a.name}) \cup refNames(b)
        /\ NamesOf(initial_eqs') \subseteq (NamesOf(initial_eqs) \ {a.name}) \cup refNames(b)
    BY <2>1, <2>2, ReplacedLists DEF alias, FormInv
  <2>10. /\ NamesOf(statements') \subseteq (NamesOf(statements) \ {a.name}) \cup refNames(b)
         /\ NamesOf(initial_sts') \subseteq (NamesOf(initial_sts) \ {a.name}) \cup refNames(b)
    BY <2>1, <2>2, ReplacedStatements DEF alias, FormInv
  <2>11. Occurring' = NamesOf(equations') \cup NamesOf(initial_eqs')
                       \cup NamesOf(statements') \cup NamesOf(initial_sts')
    BY DEF Occurring, NamesOf, Sides
  <2>12. Occurring' \subseteq syms'
    BY <2>2, <2>4, <2>5, <2>8, <2>9, <2>10, <2>11 DEF Occurring
  <2> QED
    BY <2>5, <2>7, <2>8, <2>12 DEF GoneInv
<1>2. ASSUME removed' = removed
      PROVE  /\ variables \in Seq(Names) /\ IsInjective(variables)
             /\ Left = syms /\ Occurring \subseteq syms /\ pc # "error"
  BY <1>2 DEF GoneInv, Acyclic
<1>3. CASE PassEquality
  <2>1. PICK eq : Turn(eq) /\ equations' = ReplaceAt(equations, pos, evaluated(eq))
    BY <1>3 DEF PassEquality
  <2>2. NamesOf(ReplaceAt(equations, pos, evaluated(eq))) \subseteq NamesOf(equations)
    BY <2>1, EvaluatedList
  <2>3. UNCHANGED <<initial_eqs, statements, initial_sts, removed, variables, syms, pc>>
    BY <1>3 DEF PassEquality
  <2>4. Occurring' \subseteq Occurring
    <3>1. Occurring' = NamesOf(equations') \cup NamesOf(initial_eqs')
                       \cup NamesOf(statements') \cup NamesOf(initial_sts')
      BY DEF Occurring, NamesOf, Sides
    <3> QED
      BY <2>1, <2>2, <2>3, <3>1 DEF Occurring
  <2> QED
    BY <1>2, <2>3, <2>4 DEF GoneInv, Left
<1>4. CASE NoSymbol
  <2>1. PICK eq : Turn(eq) /\ ~(lookedUp(eq) \subseteq syms) /\ removed' = removed
    BY <1>4 DEF NoSymbol
  <2>2. lookedUp(eq) \subseteq NamesOf(equations)
    BY <2>1, LookedUpOccur
  <2> QED
    BY <1>2, <2>1, <2>2 DEF Occurring
<1>5. CASE PassForEq \/ ListEnds \/ While \/ UNCHANGED avars
  <2>1. UNCHANGED <<equations, initial_eqs, statements, initial_sts, removed, variables, syms>>
    BY <1>5 DEF PassForEq, ListEnds, While, avars
  <2>2. pc' = "error" => pc = "error"
    BY <1>5 DEF PassForEq, ListEnds, While, startScan, avars
  <2> QED
    BY <1>2, <2>1, <2>2 DEF GoneInv, Left, Occurring, NamesOf
<1> QED
  BY <1>1, <1>3, <1>4, <1>5 DEF ANext

(* As long as no variable is replaced by an expression it occurs in, what is removed is
   gone from the equations, the initial equations, the statements, the list of variables
   and the symbol table, and no name is missing in the table: in models of any size, with
   expressions of any depth. *)
THEOREM RemovedForGood ==
  ASSUME NEW E, NEW elseifs \in BOOLEAN, IsExpressionSet(E, elseifs), Visitors(E),
         \A m \in Models : FlatModel(m, E)
  PROVE  ASpec => []RemovedUnlessCyclic
<1>1. AInit => FormInv(E) /\ GoneInv
  BY InitForm, InitGone
<1>2. FormInv(E) /\ GoneInv /\ [ANext]_avars => FormInv(E)' /\ GoneInv'
  BY NextForm, NextGone
<1>3. GoneInv => RemovedUnlessCyclic
  BY DEF GoneInv, RemovedUnlessCyclic, RemovedEverywhere, Acyclic
<1> QED
  BY <1>1, <1>2, <1>3, PTL DEF ASpec

-----------------------------------------------------------------------------
(***************************************************************************)
(* The solutions                                                           *)
(***************************************************************************)
(* Opposites of values are values. *)
Symmetric == \A x \in Values : -x \in Values

(* The values one name may have *)
Tables(n) == IF n \in Arrays THEN [1..N -> Values] ELSE [1..1 -> Values]

LEMMA ValuationsAre ==
  ASSUME NEW S
  PROVE  \A v : v \in Valuations(S) <=> /\ v = [n \in S |-> v[n]]
                                        /\ \A n \in S : v[n] \in Tables(n)
<1>1. ASSUME NEW v \in Valuations(S)
      PROVE  v = [n \in S |-> v[n]] /\ \A n \in S : v[n] \in Tables(n)
  <2>1. PICK w \in [one  : [S \ Arrays -> [1..1 -> Values]],
                   many : [S \cap Arrays -> [1..N -> Values]]] :
          v = [n \in S |-> IF n \in Arrays THEN w.many[n] ELSE w.one[n]]
    BY DEF Valuations
  <2> QED
    BY <2>1 DEF Tables
<1>2. ASSUME NEW v, v = [n \in S |-> v[n]], \A n \in S : v[n] \in Tables(n)
      PROVE  v \in Valuations(S)
  <2> DEFINE w == [one |-> [n \in S \ Arrays |-> v[n]], many |-> [n \in S \cap Arrays |-> v[n]]]
  <2>1. w \in [one  : [S \ Arrays -> [1..1 -> Values]],
              many : [S \cap Arrays -> [1..N -> Values]]]
    BY <1>2 DEF Tables
  <2>2. v = [n \in S |-> IF n \in Arrays THEN w.many[n] ELSE w.one[n]]
    BY <1>2
  <2> HIDE DEF w
  <2> QED
    BY <2>1, <2>2 DEF Valuations
<1> QED
  BY <1>1, <1>2

NoDer(eq) == derNames(eq.left) \cup derNames(eq.right) = {}
twice(v) == [val |-> v, next |-> v]

Still(Q, S) == {v \in Valuations(S) : \A eq \in Q : NoDer(eq) => Holds(eq, twice(v))}

(* The solutions of the equations Q and initial equations I for the names S, of which St
   are the states *)
Solves(s, Q, I, S, St) ==
  /\ Instants(s)
  /\ s.val \in Still(Q, S)
  /\ \E v \in Still(Q, S) : s.next = Restrict(v, S \cap St)
  /\ \A eq \in Q \cup I : Holds(eq, s)

onto(s, S, St) == [val |-> Restrict(s.val, S), next |-> Restrict(s.next, S \cap St)]

LEMMA SolutionsSolve ==
  ASSUME NEW T, NEW list \in Seq(T), NEW init \in Seq(T), NEW S
  PROVE  \A s : s \in Solutions(list, init, S) <=> Solves(s, Range(list), Range(init), S, states)
<1> DEFINE still == Still(Range(list), S)
           next == {Restrict(v, S \cap states) : v \in still}
<1>1. still = {v \in Valuations(S) : \A eq \in Static(list) : Holds(eq, [val |-> v, next |-> v])}
  BY DEF Still, Static, NoDer, twice
<1>2. Range(list \o init) = Range(list) \cup Range(init)
  <2> DEFINE both == list \o init
  <2>1. \A k \in DOMAIN list : k \in DOMAIN both /\ both[k] = list[k]
    OBVIOUS
  <2>2. \A k \in DOMAIN init : k + Len(list) \in DOMAIN both /\ both[k + Len(list)] = init[k]
    OBVIOUS
  <2>3. \A k \in DOMAIN both :
          \/ k \in DOMAIN list /\ both[k] = list[k]
          \/ k - Len(list) \in DOMAIN init /\ both[k] = init[k - Len(list)]
    OBVIOUS
  <2> HIDE DEF both
  <2>4. Range(both) = Range(list) \cup Range(init)
    BY <2>1, <2>2, <2>3 DEF Range
  <2> QED
    BY <2>4 DEF both
<1> HIDE DEF still
<1>3. Solutions(list, init, S) = {s \in [val : still, next : next] :
                                    \A eq \in Range(list \o init) : Holds(eq, s)}
  BY <1>1 DEF Solutions
<1>4. ASSUME NEW s PROVE s \in [val : still, next : next] <=> Instants(s) /\ s.val \in still /\ s.next \in next
  BY DEF Instants
<1> QED
  BY <1>2, <1>3, <1>4 DEF Solves, still

-----------------------------------------------------------------------------
(* s gives values to the names S, at the next instant to those of St. *)
Fits(s, S, St) ==
  /\ Instants(s)
  /\ s.val \in Valuations(S)
  /\ \A n \in S \cap St : s.next[n] \in Tables(n)

(* e speaks of S, and derives names of St only. *)
Within(e, S, St) ==
  /\ \A r \in references(e) : Subscripted(r) /\ r.name \in S
  /\ derNames(e) \subseteq St

LEMMA ElementsOfArray ==
  /\ Element(Whole, 1) = 1 /\ Element(First, 1) = 1
  /\ \A i : Element(Counter, i) = i
  /\ Element(Reversed, 1) = N
<1>1. N + 1 - 1 = N
  BY NamesAssumption
<1>2. Element(Reversed, 1) = N + 1 - 1
  BY DEF Element, Whole, First, Counter, Reversed
<1>3. Element(Whole, 1) = 1 /\ Element(First, 1) = 1
  BY DEF Element, Whole, First, Counter, Reversed
<1>4. \A i : Element(Counter, i) = i
  BY DEF Element, Whole, First, Counter, Reversed
<1> QED
  BY <1>1, <1>2, <1>3, <1>4

LEMMA FitsGiven ==
  ASSUME NEW E, NEW elseifs \in BOOLEAN, IsExpressionSet(E, elseifs), Visitors(E),
         NEW S, NEW St, NEW e \in E, Within(e, S, St), NEW s, Fits(s, S, St)
  PROVE  Given(e, s, 1)
<1>1. ASSUME NEW r \in references(e), NEW table \in Tables(r.name)
      PROVE  table[Element(r.sub, 1)] \in Int
  <2>1. r \in Refs /\ Subscripted(r)
    BY ReferencesAreRefs DEF Within
  <2>2. Values \subseteq Int /\ N \in Nat \ {0}
    BY NamesAssumption
  <2>3. CASE r.name \in Arrays
    <3>1. table \in [1..N -> Values] /\ r.sub \in {Counter, First, Reversed}
      BY <1>1, <2>1, <2>3 DEF Tables, Subscripted, Refs, Subscripts
    <3>2. Element(r.sub, 1) \in {1, N}
      BY <3>1, ElementsOfArray
    <3>3. Element(r.sub, 1) \in 1..N
      BY <3>2, <2>2
    <3> QED
      BY <3>1, <3>3, <2>2
  <2>4. CASE r.name \notin Arrays
    <3>1. table \in [1..1 -> Values] /\ r.sub = Whole
      BY <1>1, <2>1, <2>4 DEF Tables, Subscripted
    <3>2. Element(r.sub, 1) = 1
      BY <3>1, ElementsOfArray
    <3>3. table[1] \in Values
      BY <3>1
    <3> QED
      BY <3>2, <3>3, <2>2
  <2> QED
    BY <2>3, <2>4
<1>2. ASSUME NEW r \in references(e)
      PROVE  /\ s.val[r.name] \in Tables(r.name)
             /\ r.name \in derNames(e) => s.next[r.name] \in Tables(r.name)
  <2>1. r.name \in S /\ derNames(e) \subseteq St
    BY DEF Within
  <2>2. \A n \in S : s.val[n] \in Tables(n)
    BY ValuationsAre DEF Fits
  <2> QED
    BY <2>1, <2>2 DEF Fits
<1> QED
  BY <1>1, <1>2 DEF Given

LEMMA ValuationsFit ==
  ASSUME NEW S, NEW St
  PROVE  /\ \A v \in Valuations(S) : Fits(twice(v), S, St)
         /\ \A s, Q, I : Solves(s, Q, I, S, St) => Fits(s, S, St)
<1>1. ASSUME NEW v \in Valuations(S) PROVE Fits(twice(v), S, St)
  BY ValuationsAre DEF Fits, twice, Instants
<1>2. ASSUME NEW s, NEW Q, NEW I, Solves(s, Q, I, S, St) PROVE Fits(s, S, St)
  <2>1. PICK v \in Valuations(S) : s.next = Restrict(v, S \cap St)
    BY <1>2 DEF Solves, Still
  <2>2. \A n \in S \cap St : s.next[n] = v[n]
    BY <2>1 DEF Restrict
  <2>3. \A n \in S : v[n] \in Tables(n)
    BY ValuationsAre
  <2> QED
    BY <1>2, <2>2, <2>3 DEF Fits, Solves, Still
<1> QED
  BY <1>1, <1>2

(* Two equations that say the same *)
Alike(p, q, S, St) ==
  /\ NoDer(p) <=> NoDer(q)
  /\ \A s : Fits(s, S, St) => (Holds(p, s) <=> Holds(q, s))

LEMMA AlikeSolve ==
  ASSUME NEW S, NEW St, NEW P, NEW Q, NEW I,
         \A p \in P : \E q \in Q : Alike(p, q, S, St),
         \A q \in Q : \E p \in P : Alike(p, q, S, St)
  PROVE  \A s : Solves(s, P, I, S, St) <=> Solves(s, Q, I, S, St)
<1>1. \A v \in Valuations(S) : Fits(twice(v), S, St)
  BY ValuationsFit
<1>2. ASSUME NEW v \in Valuations(S)
      PROVE  (\A p \in P : NoDer(p) => Holds(p, twice(v))) <=> (\A q \in Q : NoDer(q) => Holds(q, twice(v)))
  BY <1>1 DEF Alike
<1>3. Still(P, S) = Still(Q, S)
  BY <1>2 DEF Still
<1>4. ASSUME NEW s, Fits(s, S, St)
      PROVE  (\A p \in P \cup I : Holds(p, s)) <=> (\A q \in Q \cup I : Holds(q, s))
  BY <1>4 DEF Alike
<1>5. \A s : Solves(s, P, I, S, St) \/ Solves(s, Q, I, S, St) => Fits(s, S, St)
  BY ValuationsFit
<1> QED
  BY <1>3, <1>4, <1>5 DEF Solves

LEMMA EvaluatedAlike ==
  ASSUME NEW E, NEW elseifs \in BOOLEAN, IsExpressionSet(E, elseifs), Visitors(E),
         Branches(E, elseifs) = {<<>>}, NEW S, NEW St, NEW eq \in Eqs(E), ~IsForEq(eq),
         Within(eq.left, S, St), Within(eq.right, S, St)
  PROVE  Alike(eq, evaluated(eq), S, St)
<1>0. eq.left \in E /\ eq.right \in E
  BY DEF Eqs
<1>1. /\ evaluated(eq).left = PartialEval(eq.left) /\ evaluated(eq).right = PartialEval(eq.right)
      /\ evaluated(eq).loop = eq.loop
  BY EvaluatedEquation
<1>2. derNames(PartialEval(eq.left)) = derNames(eq.left) /\ derNames(PartialEval(eq.right)) = derNames(eq.right)
  BY <1>0, PartialEvalNames
<1>3. ASSUME NEW s, Fits(s, S, St) PROVE Holds(eq, s) <=> Holds(evaluated(eq), s)
  <2>1. Instants(s) /\ Given(eq.left, s, 1) /\ Given(eq.right, s, 1)
    BY <1>0, <1>3, FitsGiven DEF Fits
  <2>2. /\ Value(PartialEval(eq.left), s, 1) = Value(eq.left, s, 1)
        /\ Value(PartialEval(eq.right), s, 1) = Value(eq.right, s, 1)
    BY <1>0, <2>1, PartialEvalValue
  <2>3. Iterations(eq) = {1} /\ Iterations(evaluated(eq)) = {1}
    BY <1>1 DEF Iterations, IsForEq
  <2> QED
    BY <2>2, <2>3, <1>1 DEF Holds
<1> QED
  BY <1>1, <1>2, <1>3 DEF Alike, NoDer

-----------------------------------------------------------------------------
(* What an alias says *)

Equal(p, s) == Value(p.left, s, 1) = Value(p.right, s, 1)
DersOf(p) == derNames(p.left) \cup derNames(p.right)

(* p says the same as q of the values that s gives. *)
Means(p, q, s, E) ==
  /\ p.left \in E /\ p.right \in E
  /\ Given(p.left, s, 1) /\ Given(p.right, s, 1)
  /\ Equal(p, s) <=> Equal(q, s)
  /\ DersOf(p) = DersOf(q)

(* The sign goes to the other side. *)
LEMMA OppositeValue ==
  ASSUME NEW E, NEW elseifs \in BOOLEAN, IsExpressionSet(E, elseifs), Visitors(E),
         Branches(E, elseifs) = {<<>>}, NEW s, Instants(s),
         NEW d \in E, Given(d, s, 1)
  PROVE  /\ PartialEval(Neg(d)) \in E
         /\ Given(PartialEval(Neg(d)), s, 1)
         /\ Value(PartialEval(Neg(d)), s, 1) = -Value(d, s, 1)
         /\ Value(d, s, 1) \in Int
         /\ derNames(PartialEval(Neg(d))) = derNames(d)
<1>1. Neg(d) \in E /\ references(Neg(d)) = references(d) /\ derNames(Neg(d)) = derNames(d)
  BY AtNeg
<1>2. Given(Neg(d), s, 1)
  BY <1>1, GivenBelow
<1>3. /\ PartialEval(Neg(d)) \in E
      /\ references(PartialEval(Neg(d))) = references(d)
      /\ derNames(PartialEval(Neg(d))) = derNames(d)
  BY <1>1, PartialEvalNames
<1>4. Given(PartialEval(Neg(d)), s, 1)
  BY <1>3, GivenBelow
<1>5. Value(PartialEval(Neg(d)), s, 1) = Value(Neg(d), s, 1)
  BY <1>1, <1>2, PartialEvalValue
<1>6. Value(Neg(d), s, 1) = -Value(d, s, 1)
  BY ValueAtNeg
<1>7. Value(d, s, 1) \in Int
  BY ValueIsNumber
<1> QED
  BY <1>3, <1>4, <1>5, <1>6, <1>7

LEMMA SignMeans ==
  ASSUME NEW E, NEW elseifs \in BOOLEAN, IsExpressionSet(E, elseifs), Visitors(E),
         Branches(E, elseifs) = {<<>>}, NEW s, Instants(s),
         NEW q, NEW p, Means(p, q, s, E)
  PROVE  Means(signToRight(p), q, s, E)
<1>1. CASE Is("Minus", p.left) /\ Is("Reference", p.left.exp)
  <2> DEFINE l == p.left.exp
             r == PartialEval(Neg(p.right))
  <2>0. signToRight(p) = Pair(l, r)
    BY <1>1 DEF signToRight
  <2>1. l \in E /\ p.left = Neg(l)
    BY <1>1, KindOf DEF Is, Means
  <2>2. references(p.left) = references(l) /\ derNames(p.left) = derNames(l)
    BY <2>1, AtNeg
  <2>3. Given(l, s, 1)
    BY <2>2, GivenBelow DEF Means
  <2>4. Value(p.left, s, 1) = -Value(l, s, 1)
    BY <2>1, ValueAtNeg
  <2>5. Value(l, s, 1) \in Int
    BY <2>1, <2>3, ValueIsNumber
  <2>6. /\ r \in E /\ Given(r, s, 1) /\ derNames(r) = derNames(p.right)
        /\ Value(r, s, 1) = -Value(p.right, s, 1) /\ Value(p.right, s, 1) \in Int
    BY OppositeValue DEF Means
  <2> HIDE DEF l, r
  <2>7. Pair(l, r).left = l /\ Pair(l, r).right = r
    BY DEF Pair
  <2>8. Equal(Pair(l, r), s) <=> Equal(p, s)
    BY <2>4, <2>5, <2>6, <2>7 DEF Equal
  <2>9. DersOf(Pair(l, r)) = DersOf(p)
    BY <2>2, <2>6, <2>7 DEF DersOf
  <2> QED
    BY <2>0, <2>1, <2>3, <2>6, <2>7, <2>8, <2>9 DEF Means
<1>2. CASE ~(Is("Minus", p.left) /\ Is("Reference", p.left.exp))
  BY <1>2 DEF signToRight
<1> QED
  BY <1>1, <1>2

LEMMA ZeroMeans ==
  ASSUME NEW E, NEW elseifs \in BOOLEAN, IsExpressionSet(E, elseifs), Visitors(E),
         Branches(E, elseifs) = {<<>>}, NEW s, Instants(s),
         NEW q, NEW p, Means(p, q, s, E)
  PROVE  Means(splitZero(p), q, s, E)
<1>1. CASE isZero(p.right) /\ IsBinOp(p.left)
  <2> DEFINE l == p.left.left
             r == p.left.right
             o == PartialEval(Neg(r))
  <2>1. l \in E /\ r \in E /\ p.left.kind \in {"Add", "Sub"} /\ p.left = BinOp(p.left.kind, l, r)
    BY <1>1, KindOf DEF IsBinOp, Means
  <2>2. references(p.left) = references(l) \cup references(r) /\ derNames(p.left) = derNames(l) \cup derNames(r)
    BY <2>1, AtBinOp
  <2>3. Given(l, s, 1) /\ Given(r, s, 1)
    BY <2>2, GivenBelow DEF Means
  <2>4. Value(l, s, 1) \in Int /\ Value(r, s, 1) \in Int
    BY <2>1, <2>3, ValueIsNumber
  <2>5. /\ o \in E /\ Given(o, s, 1) /\ derNames(o) = derNames(r)
        /\ Value(o, s, 1) = -Value(r, s, 1)
    BY <2>1, <2>3, OppositeValue
  <2>6. /\ Value(BinOp("Add", l, r), s, 1) = Value(l, s, 1) + Value(r, s, 1)
        /\ Value(BinOp("Sub", l, r), s, 1) = Value(l, s, 1) - Value(r, s, 1)
    BY <2>1, ValueAtBinOp
  <2>7. p.right = Number(0) /\ Value(p.right, s, 1) = 0 /\ derNames(p.right) = {}
    <3>1. p.right = Number(0)
      BY <1>1 DEF isZero
    <3> QED
      BY <3>1, ValueAtNumber, AtNumber
  <2>8. \A d : Pair(l, d).left = l /\ Pair(l, d).right = d
    BY DEF Pair
  <2> HIDE DEF l, r, o
  <2>9. CASE p.left.kind = "Add"
    <3>1. splitZero(p) = Pair(l, o)
      BY <2>9, <1>1 DEF splitZero, Is, l, r, o
    <3>2. Value(p.left, s, 1) = Value(l, s, 1) + Value(r, s, 1)
      BY <2>1, <2>6, <2>9
    <3>3. Equal(Pair(l, o), s) <=> Equal(p, s)
      BY <3>2, <2>4, <2>5, <2>7, <2>8 DEF Equal
    <3>4. DersOf(Pair(l, o)) = DersOf(p)
      BY <2>2, <2>5, <2>7, <2>8 DEF DersOf
    <3> QED
      BY <3>1, <3>3, <3>4, <2>1, <2>3, <2>5, <2>8 DEF Means
  <2>10. CASE p.left.kind = "Sub"
    <3>1. splitZero(p) = Pair(l, r)
      BY <2>10, <1>1 DEF splitZero, Is, l, r
    <3>2. Value(p.left, s, 1) = Value(l, s, 1) - Value(r, s, 1)
      BY <2>1, <2>6, <2>10
    <3>3. Equal(Pair(l, r), s) <=> Equal(p, s)
      BY <3>2, <2>4, <2>7, <2>8 DEF Equal
    <3>4. DersOf(Pair(l, r)) = DersOf(p)
      BY <2>2, <2>7, <2>8 DEF DersOf
    <3> QED
      BY <3>1, <3>3, <3>4, <2>1, <2>3, <2>8 DEF Means
  <2> QED
    BY <2>1, <2>9, <2>10
<1>2. CASE ~(isZero(p.right) /\ IsBinOp(p.left))
  BY <1>2 DEF splitZero, IsBinOp, Is
<1> QED
  BY <1>1, <1>2

LEMMA NormalizedMeans ==
  ASSUME NEW E, NEW elseifs \in BOOLEAN, IsExpressionSet(E, elseifs), Visitors(E),
         Branches(E, elseifs) = {<<>>}, NEW s, Instants(s),
         NEW q, q.left \in E, q.right \in E, Given(q.left, s, 1), Given(q.right, s, 1)
  PROVE  Means(normalized(q), q, s, E)
<1>0. \A l, r : Pair(l, r).left = l /\ Pair(l, r).right = r
  BY DEF Pair
<1>1. Means(Pair(q.left, q.right), q, s, E)
  BY <1>0 DEF Means, Equal, DersOf
<1>2. ASSUME NEW p, Means(p, q, s, E) PROVE Means(numberToRight(p), q, s, E)
  BY <1>0, <1>2 DEF numberToRight, Means, Equal, DersOf
<1>3. Means(signToRight(Pair(q.left, q.right)), q, s, E)
  BY <1>1, SignMeans
<1>4. Means(numberToRight(signToRight(Pair(q.left, q.right))), q, s, E)
  BY <1>2, <1>3
<1>5. Means(splitZero(numberToRight(signToRight(Pair(q.left, q.right)))), q, s, E)
  BY <1>4, ZeroMeans
<1>6. Means(signToRight(splitZero(numberToRight(signToRight(Pair(q.left, q.right))))), q, s, E)
  BY <1>5, SignMeans
<1> QED
  BY <1>6 DEF normalized

(* The values of a variable that b replaces, given those of the others *)
TableOf(b, w) ==
  CASE Is("Reference", b) -> w[b.name]
    [] Is("Minus", b)  -> [j \in 1..1 |-> -w[b.exp.name][1]]
    [] Is("Number", b) -> [j \in 1..1 |-> b.val]

LEMMA SimpleParts ==
  ASSUME NEW E, NEW elseifs \in BOOLEAN, IsExpressionSet(E, elseifs), Visitors(E),
         NEW b \in E, Simple(b)
  PROVE  /\ derNames(b) = {}
         /\ \/ b \in Refs /\ b.sub = Whole /\ Is("Reference", b)
            \/ /\ b.exp \in Refs /\ b.exp.sub = Whole /\ b = Neg(b.exp) /\ Is("Minus", b)
               /\ refNames(b) = {b.exp.name} /\ references(b) = {b.exp}
            \/ b.val \in Int /\ b = Number(b.val) /\ Is("Number", b)
<1>1. CASE unsubscripted(b)
  <2>1. b \in Refs
    BY <1>1, KindOf DEF unsubscripted, Is
  <2> QED
    BY <1>1, <2>1, AtReference DEF unsubscripted
<1>2. CASE Is("Number", b)
  <2>1. b.val \in Int /\ b = Number(b.val)
    BY <1>2, KindOf DEF Is
  <2> QED
    BY <1>2, <2>1, AtNumber
<1>3. CASE Is("Minus", b) /\ unsubscripted(b.exp)
  <2>1. b.exp \in E /\ b = Neg(b.exp)
    BY <1>3, KindOf DEF Is
  <2>2. b.exp \in Refs
    BY <2>1, <1>3, KindOf DEF unsubscripted, Is
  <2>3. derNames(b.exp) = {} /\ references(b.exp) = {b.exp} /\ refNames(b.exp) = {b.exp.name}
    BY <2>2, AtReference
  <2>4. derNames(b) = derNames(b.exp) /\ refNames(b) = refNames(b.exp) /\ references(b) = references(b.exp)
    BY <2>1, AtNeg
  <2> QED
    BY <1>3, <2>1, <2>2, <2>3, <2>4 DEF unsubscripted
<1> QED
  BY <1>1, <1>2, <1>3 DEF Simple

(* What replaces a scalar has the value its table has. *)
LEMMA SimpleValue ==
  ASSUME NEW E, NEW elseifs \in BOOLEAN, IsExpressionSet(E, elseifs), Visitors(E),
         NEW b \in E, Simple(b), NEW s, Instants(s), NEW i
  PROVE  Value(b, s, i) = TableOf(b, s.val)[1]
<1>1. CASE b \in Refs /\ b.sub = Whole /\ Is("Reference", b)
  <2>1. Value(b, s, i) = s.val[b.name][Element(b.sub, i)]
    BY <1>1, ValueAtReference
  <2>2. Element(b.sub, i) = 1
    BY <1>1 DEF Element, Whole, First, Counter, Reversed
  <2> QED
    BY <2>1, <2>2, <1>1 DEF TableOf, Is
<1>2. CASE b.exp \in Refs /\ b.exp.sub = Whole /\ b = Neg(b.exp) /\ Is("Minus", b)
  <2>1. Value(b.exp, s, i) = s.val[b.exp.name][Element(b.exp.sub, i)]
    BY <1>2, ValueAtReference
  <2>2. Element(b.exp.sub, i) = 1
    BY <1>2 DEF Element, Whole, First, Counter, Reversed
  <2>3. Value(Neg(b.exp), s, i) = -Value(b.exp, s, i)
    BY <1>2, AtReference, ValueAtNeg
  <2> DEFINE d == b.exp.name
  <2>4. TableOf(b, s.val) = [j \in 1..1 |-> -s.val[d][1]]
    BY <1>2 DEF TableOf, Is
  <2>5. TableOf(b, s.val)[1] = -s.val[d][1]
    BY <2>4
  <2> QED
    BY <2>1, <2>2, <2>3, <2>5, <1>2
<1>3. CASE b.val \in Int /\ b = Number(b.val) /\ Is("Number", b)
  <2>1. Value(Number(b.val), s, i) = b.val
    BY <1>3, ValueAtNumber
  <2>2. TableOf(b, s.val) = [j \in 1..1 |-> b.val]
    BY <1>3 DEF TableOf, Is
  <2> QED
    BY <2>1, <2>2, <1>3
<1> QED
  BY <1>1, <1>2, <1>3, SimpleParts

(* A table of one value *)
LEMMA SimpleTable ==
  ASSUME NEW E, NEW elseifs \in BOOLEAN, IsExpressionSet(E, elseifs), Visitors(E),
         NEW b \in E, Simple(b), NEW S, NEW w \in Valuations(S), refNames(b) \subseteq S,
         \A r \in references(b) : r.name \notin Arrays,
         Is("Number", b) => b.val \in Values, Symmetric
  PROVE  TableOf(b, w) \in [1..1 -> Values]
<1>0. \A n \in S : w[n] \in Tables(n)
  BY ValuationsAre
<1>1. CASE b \in Refs /\ b.sub = Whole /\ Is("Reference", b)
  <2>1. b.name \in S /\ b.name \notin Arrays
    BY <1>1, AtReference
  <2>2. TableOf(b, w) = w[b.name]
    BY <1>1 DEF TableOf, Is
  <2> QED
    BY <1>0, <2>1, <2>2 DEF Tables
<1>2. CASE /\ b.exp \in Refs /\ b = Neg(b.exp) /\ Is("Minus", b)
           /\ refNames(b) = {b.exp.name} /\ references(b) = {b.exp}
  <2> DEFINE d == b.exp.name
  <2>1. d \in S /\ d \notin Arrays
    BY <1>2
  <2>2. TableOf(b, w) = [j \in 1..1 |-> -w[d][1]]
    BY <1>2 DEF TableOf, Is
  <2>3. w[d] \in [1..1 -> Values]
    BY <1>0, <2>1 DEF Tables
  <2>4. -w[d][1] \in Values
    BY <2>3 DEF Symmetric
  <2> QED
    BY <2>2, <2>4
<1>3. CASE b.val \in Int /\ b = Number(b.val) /\ Is("Number", b)
  <2>1. TableOf(b, w) = [j \in 1..1 |-> b.val]
    BY <1>3 DEF TableOf, Is
  <2> QED
    BY <2>1, <1>3
<1> QED
  BY <1>1, <1>2, <1>3, SimpleParts

(* e says that a has the values b has. *)
Says(e, a, b, S, St) ==
  /\ NoDer(e)
  /\ \A s : Fits(s, S, St) => (Holds(e, s) <=> s.val[a.name] = TableOf(b, s.val))

(* Where nothing is derived, nothing is derived in what is said. *)
LEMMA EqualityNoDer ==
  ASSUME NEW E, NEW elseifs \in BOOLEAN, IsExpressionSet(E, elseifs), Visitors(E),
         Branches(E, elseifs) = {<<>>}, NEW e \in Eqs(E),
         NEW a, NEW b, <<a, b>> \in AliasesOf(e), ScalarPair(a, b, E)
  PROVE  NoDer(e)
<1> DEFINE zero == [n \in Names |-> [i \in Int |-> 0]]
           s == [val |-> zero, next |-> zero]
<1>0. e.left \in E /\ e.right \in E /\ a \in Refs /\ b \in E /\ Simple(b)
  BY DEF Eqs, ScalarPair
<1>1. ASSUME NEW d \in E PROVE Given(d, s, 1)
  <2>1. ASSUME NEW r \in references(d) PROVE zero[r.name][Element(r.sub, 1)] = 0
    <3>1. r \in Refs
      BY ReferencesAreRefs
    <3>2. Element(r.sub, 1) \in Int
      BY <3>1, ElementsOfArray, NamesAssumption DEF Refs, Subscripts
    <3> QED
      BY <3>1, <3>2 DEF Refs
  <2>2. s.val = zero /\ s.next = zero
    OBVIOUS
  <2> HIDE DEF s, zero
  <2> QED
    BY <2>1, <2>2 DEF Given
<1>2. Instants(s)
  BY DEF Instants
<1> HIDE DEF s
<1>3. Means(normalized(e), e, s, E)
  BY <1>0, <1>1, <1>2, NormalizedMeans
<1>4. {normalized(e).left, normalized(e).right} = {a, b}
  <2>1. <<a, b>> \in saidBy(normalized(e).left, normalized(e).right)
    BY DEF AliasesOf
  <2> QED
    BY <2>1 DEF saidBy
<1>5. derNames(a) = {} /\ derNames(b) = {}
  BY <1>0, AtReference, SimpleParts
<1> QED
  BY <1>3, <1>4, <1>5 DEF Means, DersOf, NoDer

(* An equality says that one scalar has the values of what replaces it. *)
LEMMA EqualitySays ==
  ASSUME NEW E, NEW elseifs \in BOOLEAN, IsExpressionSet(E, elseifs), Visitors(E),
         Branches(E, elseifs) = {<<>>}, NEW e \in Eqs(E), ~IsForEq(e),
         NEW a, NEW b, <<a, b>> \in AliasesOf(e), Replacement(a, b, E), ScalarPair(a, b, E),
         NEW S, NEW St, Within(e.left, S, St), Within(e.right, S, St), a.name \in S, refNames(b) \subseteq S,
         Is("Number", b) => b.val \in Values, Symmetric
  PROVE  Says(e, a, b, S, St)
<1>n. NoDer(e)
  BY EqualityNoDer
<1>s. SUFFICES ASSUME NEW s, Fits(s, S, St)
               PROVE  Holds(e, s) <=> s.val[a.name] = TableOf(b, s.val)
  BY <1>n DEF Says
<1>0. e.left \in E /\ e.right \in E /\ Instants(s) /\ a \in Refs /\ b \in E /\ a.sub = Whole /\ Simple(b)
      /\ s.val \in Valuations(S)
  BY <1>s DEF Eqs, Fits, ScalarPair
<1>1. Given(e.left, s, 1) /\ Given(e.right, s, 1)
  BY <1>0, <1>s, FitsGiven
<1>2. Means(normalized(e), e, s, E)
  BY <1>0, <1>1, NormalizedMeans
<1>3. {normalized(e).left, normalized(e).right} = {a, b}
  <2>1. <<a, b>> \in saidBy(normalized(e).left, normalized(e).right)
    BY DEF AliasesOf
  <2> QED
    BY <2>1 DEF saidBy
<1>6. Holds(e, s) <=> Value(a, s, 1) = Value(b, s, 1)
  <2>1. Holds(e, s) <=> Equal(e, s)
    BY DEF Holds, Iterations, Equal
  <2>2. Equal(normalized(e), s) <=> Value(a, s, 1) = Value(b, s, 1)
    BY <1>3 DEF Equal
  <2> QED
    BY <2>1, <2>2, <1>2 DEF Means
<1>7. Value(b, s, 1) = TableOf(b, s.val)[1]
  BY <1>0, SimpleValue
<1>8. Value(a, s, 1) = s.val[a.name][1]
  <2>1. Value(a, s, 1) = s.val[a.name][Element(a.sub, 1)]
    BY <1>0, ValueAtReference
  <2> QED
    BY <2>1, <1>0, ElementsOfArray
<1>9. a.name \notin Arrays /\ \A r \in references(b) : r.name \notin Arrays
  BY <1>0 DEF Replacement, ArrayPair
<1>10. s.val[a.name] \in [1..1 -> Values]
  BY <1>0, <1>9, ValuationsAre DEF Tables
<1>11. TableOf(b, s.val) \in [1..1 -> Values]
  BY <1>0, <1>9, SimpleTable
<1>12. \A f, g \in [1..1 -> Values] : f[1] = g[1] <=> f = g
  OBVIOUS
<1> QED
  BY <1>6, <1>7, <1>8, <1>10, <1>11, <1>12

(* A for equation over two arrays says that they are the same. *)
LEMMA ForEquationSays ==
  ASSUME NEW E, NEW elseifs \in BOOLEAN, IsExpressionSet(E, elseifs), Visitors(E),
         NEW e \in Eqs(E), IsForEq(e), NEW a, NEW b, <<a, b>> \in ForAliasesOf(e),
         ArrayPair(a, b), {a, b} = {e.left, e.right}, SideBySide(e),
         NEW S, NEW St, a.name \in S, b.name \in S,
         NEW s, Fits(s, S, St)
  PROVE  Holds(e, s) <=> s.val[a.name] = TableOf(b, s.val)
<1>0. a \in Refs /\ b \in Refs /\ a.name \in Arrays /\ b.name \in Arrays /\ Is("Reference", a) /\ Is("Reference", b)
  BY NodeParts DEF ArrayPair, Is
<1>1. e.loop[1] = 1 /\ e.loop[3] = N
  BY DEF ForAliasesOf, covered
<1>2. e.loop[2] = 1 /\ a.sub = Counter /\ b.sub = Counter
  BY <1>0 DEF SideBySide, Sides
<1>4. Instants(s) /\ s.val \in Valuations(S)
  BY DEF Fits
<1>5. Iterations(e) = 1..N
  <2>1. Iterations(e) = {i \in 1..N : (i - 1) % 1 = 0}
    BY <1>1, <1>2 DEF Iterations
  <2>2. \A i \in 1..N : (i - 1) % 1 = 0
    BY NamesAssumption
  <2> QED
    BY <2>1, <2>2
<1>6. ASSUME NEW i
      PROVE  Value(a, s, i) = s.val[a.name][i] /\ Value(b, s, i) = s.val[b.name][i]
  <2>1. Element(Counter, i) = i
    BY ElementsOfArray
  <2> QED
    BY <2>1, <1>0, <1>2, <1>4, ValueAtReference
<1>7. Holds(e, s) <=> \A i \in 1..N : s.val[a.name][i] = s.val[b.name][i]
  <2>1. Holds(e, s) <=> \A i \in 1..N : Value(e.left, s, i) = Value(e.right, s, i)
    BY <1>5 DEF Holds
  <2>2. \A i : Value(e.left, s, i) = Value(e.right, s, i) <=> Value(a, s, i) = Value(b, s, i)
    <3>1. \/ e.left = a /\ e.right = b
          \/ e.left = b /\ e.right = a
      OBVIOUS
    <3> QED
      BY <3>1
  <2> QED
    BY <2>1, <2>2, <1>6
<1>8. s.val[a.name] \in [1..N -> Values] /\ s.val[b.name] \in [1..N -> Values]
  BY <1>0, <1>4, ValuationsAre DEF Tables
<1>9. ASSUME NEW f \in [1..N -> Values], NEW g \in [1..N -> Values]
      PROVE  (\A i \in 1..N : f[i] = g[i]) <=> f = g
  <2>1. f = [i \in 1..N |-> f[i]] /\ g = [i \in 1..N |-> g[i]]
    OBVIOUS
  <2> QED
    BY <2>1
<1>10. TableOf(b, s.val) = s.val[b.name]
  BY <1>0 DEF TableOf, Is
<1> QED
  BY <1>7, <1>8, <1>9, <1>10

-----------------------------------------------------------------------------
(***************************************************************************)
(* One alias: e says that b replaces a in the equations Q and I.           *)
(***************************************************************************)
Replaces(a, b, Q, I, S, St, E) ==
  /\ Replacement(a, b, E)
  /\ ArrayPair(a, b) => a.sub = b.sub
  /\ a.name \in S /\ a.name \notin St /\ refNames(b) \subseteq S \ {a.name}
  /\ Is("Number", b) => b.val \in Values
  /\ \A q \in Q \cup I : q \in Eqs(E) /\ Within(q.left, S, St) /\ Within(q.right, S, St)

(* The values w of the other names, and that of a *)
with(w, a, b, S) == [n \in S |-> IF n = a.name THEN TableOf(b, w) ELSE w[n]]

LEMMA WithoutAndWith ==
  ASSUME NEW E, NEW elseifs \in BOOLEAN, IsExpressionSet(E, elseifs), Visitors(E),
         NEW a, NEW b, NEW Q, NEW I, NEW S, NEW St, Replaces(a, b, Q, I, S, St, E),
         Symmetric
  PROVE  /\ \A w \in Valuations(S \ {a.name}) :
              /\ with(w, a, b, S) \in Valuations(S)
              /\ with(w, a, b, S)[a.name] = TableOf(b, w)
              /\ TableOf(b, with(w, a, b, S)) = TableOf(b, w)
              /\ Restrict(with(w, a, b, S), S \ {a.name}) = w
         /\ \A v \in Valuations(S) :
              /\ Restrict(v, S \ {a.name}) \in Valuations(S \ {a.name})
              /\ TableOf(b, Restrict(v, S \ {a.name})) = TableOf(b, v)
              /\ v[a.name] = TableOf(b, v) => v = with(Restrict(v, S \ {a.name}), a, b, S)
<1> DEFINE L == S \ {a.name}
<1>0. /\ a \in Refs /\ b \in E /\ refNames(b) \subseteq L /\ a.name \in S /\ L \subseteq S
      /\ \/ Simple(b) /\ a.name \notin Arrays /\ \A r \in references(b) : r.name \notin Arrays
         \/ b \in Refs /\ Is("Reference", b) /\ a.name \in Arrays /\ b.name \in Arrays
  BY NodeParts DEF Replaces, Replacement, ScalarPair, ArrayPair, Is
<1>1. ASSUME NEW v, NEW w, \A n \in L : v[n] = w[n]
      PROVE  TableOf(b, v) = TableOf(b, w)
  <2>1. CASE b \in Refs /\ Is("Reference", b)
    <3>1. b.name \in L
      BY <2>1, <1>0, AtReference
    <3> QED
      BY <3>1, <2>1, <1>1 DEF TableOf, Is
  <2>2. CASE b = Neg(b.exp) /\ Is("Minus", b) /\ refNames(b) = {b.exp.name}
    <3> DEFINE d == b.exp.name
    <3>1. TableOf(b, v) = [j \in 1..1 |-> -v[d][1]] /\ TableOf(b, w) = [j \in 1..1 |-> -w[d][1]]
      BY <2>2 DEF TableOf, Is
    <3>2. v[d] = w[d]
      BY <2>2, <1>0, <1>1
    <3> QED
      BY <3>1, <3>2
  <2>3. CASE Is("Number", b)
    BY <2>3 DEF TableOf, Is
  <2> QED
    BY <2>1, <2>2, <2>3, <1>0, SimpleParts
<1>2. ASSUME NEW w \in Valuations(L) PROVE TableOf(b, w) \in Tables(a.name)
  <2>1. CASE Simple(b) /\ a.name \notin Arrays /\ \A r \in references(b) : r.name \notin Arrays
    <3>1. TableOf(b, w) \in [1..1 -> Values]
      BY <2>1, <1>0, SimpleTable DEF Replaces
    <3> QED
      BY <3>1, <2>1 DEF Tables
  <2>2. CASE b \in Refs /\ Is("Reference", b) /\ a.name \in Arrays /\ b.name \in Arrays
    <3>1. b.name \in L /\ TableOf(b, w) = w[b.name]
      BY <2>2, <1>0, AtReference DEF TableOf, Is
    <3>2. w[b.name] \in Tables(b.name)
      BY <3>1, ValuationsAre
    <3> QED
      BY <3>1, <3>2, <2>2 DEF Tables
  <2> QED
    BY <2>1, <2>2, <1>0
<1>3. ASSUME NEW w \in Valuations(L)
      PROVE  /\ with(w, a, b, S) \in Valuations(S)
             /\ with(w, a, b, S)[a.name] = TableOf(b, w)
             /\ TableOf(b, with(w, a, b, S)) = TableOf(b, w)
             /\ Restrict(with(w, a, b, S), L) = w
  <2> DEFINE v == with(w, a, b, S)
  <2>1. w = [n \in L |-> w[n]] /\ \A n \in L : w[n] \in Tables(n)
    BY ValuationsAre
  <2>2. v = [n \in S |-> v[n]] /\ v[a.name] = TableOf(b, w) /\ \A n \in L : v[n] = w[n]
    BY <1>0 DEF with
  <2> HIDE DEF v
  <2>3. \A n \in S : v[n] \in Tables(n)
    BY <2>1, <2>2, <1>2
  <2>4. v \in Valuations(S)
    BY <2>2, <2>3, ValuationsAre
  <2>5. Restrict(v, L) = w
    BY <2>1, <2>2 DEF Restrict
  <2> QED
    BY <2>2, <2>4, <2>5, <1>1 DEF v
<1>4. ASSUME NEW v \in Valuations(S)
      PROVE  /\ Restrict(v, L) \in Valuations(L)
             /\ TableOf(b, Restrict(v, L)) = TableOf(b, v)
             /\ v[a.name] = TableOf(b, v) => v = with(Restrict(v, L), a, b, S)
  <2> DEFINE w == Restrict(v, L)
  <2>1. v = [n \in S |-> v[n]] /\ \A n \in S : v[n] \in Tables(n)
    BY ValuationsAre
  <2>2. w = [n \in L |-> w[n]] /\ \A n \in L : w[n] = v[n]
    BY DEF Restrict
  <2> HIDE DEF w
  <2>3. w \in Valuations(L)
    <3>1. \A n \in L : w[n] \in Tables(n)
      BY <2>1, <2>2
    <3> QED
      BY <3>1, <2>2, ValuationsAre
  <2>4. TableOf(b, w) = TableOf(b, v)
    BY <2>2, <1>1
  <2>5. v[a.name] = TableOf(b, v) => v = with(w, a, b, S)
    BY <2>1, <2>2, <2>4 DEF with
  <2> QED
    BY <2>3, <2>4, <2>5 DEF w
<1> QED
  BY <1>3, <1>4

(* s and t give the same values to what is left, and s gives a the values b has. *)
Extends(s, t, a, b, S, St) ==
  /\ Instants(s) /\ Instants(t)
  /\ t.val \in Valuations(S \ {a.name})
  /\ s.val = with(t.val, a, b, S)
  /\ \A n \in (S \cap St) \ {a.name} : s.next[n] = t.next[n]

inPlace(a, b, e) == ReplaceExpression(a, b, TRUE, e)

LEMMA ReplacedValue ==
  ASSUME NEW E, NEW elseifs \in BOOLEAN, IsExpressionSet(E, elseifs), Visitors(E),
         Branches(E, elseifs) = {<<>>},
         NEW a, NEW b, NEW Q, NEW I, NEW S, NEW St, Replaces(a, b, Q, I, S, St, E),
         NEW e \in E, Within(e, S, St), NEW s, NEW t, Extends(s, t, a, b, S, St),
         NEW i
  PROVE  Value(inPlace(a, b, e), t, i) = Value(e, s, i)
<1> DEFINE yes == TRUE
           R(d) == ReplaceExpression(a, b, yes, d)
<1>y. yes \in BOOLEAN
  OBVIOUS
<1>r. \A r : renameReference(a, b, yes, r) =
              IF Is("Reference", b) /\ r.name = a.name THEN [r EXCEPT !.name = b.name] ELSE r
  BY DEF renameReference
<1>v. \A d : R(d) = inPlace(a, b, d)
  BY DEF inPlace
<1> HIDE DEF yes
<1>0. /\ Instants(s) /\ Instants(t) /\ Replacement(a, b, E) /\ a \in Refs /\ b \in E
      /\ a.name \notin St /\ refNames(b) \subseteq S \ {a.name} /\ a.name \in S
  BY DEF Extends, Replaces, Replacement
<1>a. a \in Refs /\ b \in E
  BY <1>0
<1>1. \A r \in Refs : R(r) = IF r = a THEN b ELSE renameReference(a, b, yes, r)
  BY <1>a, <1>y, ReplacementAt
<1> HIDE DEF R
<1>2. s.val[a.name] = TableOf(b, t.val) /\ \A n \in S \ {a.name} : s.val[n] = t.val[n]
  BY <1>0 DEF Extends, with
<1>3. ASSUME NEW r \in references(e), r.name # a.name PROVE R(r) = r
  BY <1>1, <1>r, <1>3, ReferencesAreRefs
<1>4. ASSUME NEW r \in references(e)
      PROVE  Value(R(r), t, i) = Value(r, s, i)
  <2>0. r \in Refs /\ Subscripted(r) /\ r.name \in S
    BY ReferencesAreRefs DEF Within
  <2>s. Value(r, s, i) = s.val[r.name][Element(r.sub, i)]
    BY <2>0, <1>0, ValueAtReference
  <2>1. CASE r.name # a.name
    <3>1. Value(r, t, i) = t.val[r.name][Element(r.sub, i)]
      BY <2>0, <1>0, ValueAtReference
    <3> QED
      BY <3>1, <2>s, <2>0, <2>1, <1>2, <1>3
  <2>2. CASE r.name = a.name /\ ScalarPair(a, b, E) /\ a.name \notin Arrays
    <3>0. r.sub = Whole /\ a.sub = Whole /\ a \in Refs
      BY <2>0, <2>2, <1>0 DEF ScalarPair, Subscripted
    <3>1. r = a
      BY <2>0, <2>2, <3>0 DEF Refs
    <3>a. R(r) = b
      BY <3>1, <2>0, <1>1
    <3>2. Value(b, t, i) = TableOf(b, t.val)[1]
      BY <2>2, <1>0, SimpleValue DEF ScalarPair
    <3>3. Element(a.sub, i) = 1
      BY <2>2 DEF ScalarPair, Element, Whole, First, Counter, Reversed
    <3> QED
      BY <3>1, <3>a, <3>2, <3>3, <2>s, <1>2
  <2>3. CASE r.name = a.name /\ ArrayPair(a, b)
    <3>0. b \in Refs /\ Is("Reference", b) /\ a.sub = b.sub
      BY <2>3, NodeParts DEF ArrayPair, Is, Replaces
    <3>1. R(r) \in Refs /\ R(r).name = b.name /\ R(r).sub = r.sub
      <4>1. CASE r = a
        BY <4>1, <3>0, <2>0, <1>1
      <4>2. CASE r # a
        <5>1. R(r) = [r EXCEPT !.name = b.name]
          BY <4>2, <3>0, <2>0, <2>3, <1>1, <1>r
        <5> QED
          BY <5>1, <3>0, <2>0 DEF Refs
      <4> QED
        BY <4>1, <4>2
    <3>2. Value(R(r), t, i) = t.val[b.name][Element(r.sub, i)]
      BY <3>1, <1>0, ValueAtReference
    <3>3. TableOf(b, t.val) = t.val[b.name]
      BY <3>0 DEF TableOf, Is
    <3> QED
      BY <3>2, <3>3, <2>s, <2>3, <1>2
  <2> QED
    BY <2>1, <2>2, <2>3, <1>0 DEF Replacement
<1>5. ASSUME NEW r \in references(e), r.name \in derNames(e)
      PROVE  Value(R(r), atNext(t), i) = Value(r, atNext(s), i)
  <2>1. r \in Refs /\ r.name \in S \cap St /\ r.name # a.name
    BY <1>0, <1>5, ReferencesAreRefs DEF Within
  <2>2. R(r) = r
    BY <2>1, <1>3
  <2>3. Instants(atNext(t)) /\ Instants(atNext(s)) /\ atNext(t).val = t.next /\ atNext(s).val = s.next
    BY DEF Instants, atNext
  <2>4. /\ Value(r, atNext(t), i) = t.next[r.name][Element(r.sub, i)]
        /\ Value(r, atNext(s), i) = s.next[r.name][Element(r.sub, i)]
    BY <2>1, <2>3, ValueAtReference
  <2>5. s.next[r.name] = t.next[r.name]
    BY <2>1 DEF Extends
  <2> QED
    BY <2>2, <2>4, <2>5
<1>6. Instants(s) /\ Instants(t)
  BY <1>0
<1>7. \A d \in E : \A x, y, j :
        /\ Instants(x) /\ Instants(y)
        /\ \A r \in references(d) : Value(R(r), y, j) = Value(r, x, j)
        /\ \A r \in references(d) : r.name \in derNames(d) =>
             Value(R(r), atNext(y), j) = Value(r, atNext(x), j)
        => Value(R(d), y, j) = Value(d, x, j)
  BY <1>a, <1>y, ReplacementValue DEF R
<1>8. Value(R(e), t, i) = Value(e, s, i)
  BY <1>4, <1>5, <1>6, <1>7
<1> QED
  BY <1>8, <1>v

LEMMA ReplacedEquation ==
  ASSUME NEW E, NEW elseifs \in BOOLEAN, IsExpressionSet(E, elseifs), Visitors(E),
         Branches(E, elseifs) = {<<>>},
         NEW a, NEW b, NEW Q, NEW I, NEW S, NEW St, Replaces(a, b, Q, I, S, St, E),
         NEW q \in Q \cup I
  PROVE  /\ DersOf(replaceEquation(a, b, q)) = DersOf(q)
         /\ NoDer(replaceEquation(a, b, q)) <=> NoDer(q)
         /\ \A s, t : Extends(s, t, a, b, S, St) => (Holds(replaceEquation(a, b, q), t) <=> Holds(q, s))
<1> DEFINE yes == TRUE
           R(d) == ReplaceExpression(a, b, yes, d)
           new == replaceEquation(a, b, q)
<1>0. /\ q.left \in E /\ q.right \in E /\ Within(q.left, S, St) /\ Within(q.right, S, St)
      /\ a \in Refs /\ b \in E /\ a.name \notin St /\ q \in Eqs(E)
  BY DEF Replaces, Replacement, Eqs
<1>a. new = [q EXCEPT !.left = R(q.left), !.right = R(q.right)]
  BY DEF replaceEquation
<1>1. new.left = R(q.left) /\ new.right = R(q.right) /\ new.loop = q.loop
  BY <1>0, <1>a DEF Eqs
<1>y. yes \in BOOLEAN
  OBVIOUS
<1>v. \A d : R(d) = inPlace(a, b, d)
  BY DEF inPlace
<1> HIDE DEF yes, new
<1>2. derNames(b) = {}
  <2>1. CASE Simple(b)
    BY <2>1, <1>0, SimpleParts
  <2>2. CASE b \in Refs
    BY <2>2, AtReference
  <2> QED
    BY <2>1, <2>2 DEF Replaces, Replacement, ScalarPair, ArrayPair
<1>3. \A d \in E : a.name \notin derNames(d) => derNames(R(d)) = derNames(d)
  <2>1. a \in Refs /\ b \in E
    BY <1>0
  <2> QED
    BY <2>1, <1>2, <1>y, ReplacementDer
<1>4. a.name \notin derNames(q.left) /\ a.name \notin derNames(q.right)
  BY <1>0 DEF Within
<1>5. derNames(new.left) = derNames(q.left) /\ derNames(new.right) = derNames(q.right)
  BY <1>0, <1>1, <1>3, <1>4
<1>6. NoDer(new) <=> NoDer(q)
  BY <1>5 DEF NoDer
<1>d. ASSUME NEW d \in E, Within(d, S, St), NEW s, NEW t, Extends(s, t, a, b, S, St), NEW i
      PROVE  Value(inPlace(a, b, d), t, i) = Value(d, s, i)
  BY <1>d, ReplacedValue
<1>7. ASSUME NEW s, NEW t, Extends(s, t, a, b, S, St), NEW i
      PROVE  Value(new.left, t, i) = Value(q.left, s, i) /\ Value(new.right, t, i) = Value(q.right, s, i)
  <2>1. /\ Value(inPlace(a, b, q.left), t, i) = Value(q.left, s, i)
        /\ Value(inPlace(a, b, q.right), t, i) = Value(q.right, s, i)
    BY <1>0, <1>7, <1>d
  <2> QED
    BY <2>1, <1>1, <1>v
<1>8. Iterations(new) = Iterations(q)
  BY <1>1 DEF Iterations, IsForEq
<1>9. ASSUME NEW s, NEW t, Extends(s, t, a, b, S, St) PROVE Holds(new, t) <=> Holds(q, s)
  BY <1>7, <1>8, <1>9 DEF Holds
<1> QED
  BY <1>5, <1>6, <1>9 DEF new, DersOf

(* The solutions of the equations Q and J for the names L are those of P and I for S,
   without the values of the other names. *)
Projects(P, I, S, Q, J, L, St) ==
  /\ \A s : Solves(s, P, I, S, St) => Solves(onto(s, L, St), Q, J, L, St)
  /\ \A t : Solves(t, Q, J, L, St) => \E s : Solves(s, P, I, S, St) /\ t = onto(s, L, St)

LEMMA AliasSolves ==
  ASSUME NEW E, NEW elseifs \in BOOLEAN, IsExpressionSet(E, elseifs), Visitors(E),
         Branches(E, elseifs) = {<<>>}, Symmetric,
         NEW a, NEW b, NEW Q, NEW I, NEW S, NEW St, Replaces(a, b, Q, I, S, St, E),
         NEW e, Says(e, a, b, S, St),
         NEW Q2, Q2 = {replaceEquation(a, b, q) : q \in Q},
         NEW I2, I2 = {replaceEquation(a, b, q) : q \in I}
  PROVE  Projects(Q \cup {e}, I, S, Q2, I2, S \ {a.name}, St)
<1> DEFINE L == S \ {a.name}
           ext(w) == with(w, a, b, S)
<1>0. a.name \in S /\ a.name \notin St
  BY DEF Replaces
<1>1. L \cap St = S \cap St /\ L \subseteq S
  BY <1>0
<1>u. /\ \A w \in Valuations(L) :
           /\ ext(w) \in Valuations(S)
           /\ ext(w)[a.name] = TableOf(b, w)
           /\ TableOf(b, ext(w)) = TableOf(b, w)
           /\ Restrict(ext(w), L) = w
      /\ \A v \in Valuations(S) :
           /\ Restrict(v, L) \in Valuations(L)
           /\ TableOf(b, Restrict(v, L)) = TableOf(b, v)
           /\ v[a.name] = TableOf(b, v) => v = ext(Restrict(v, L))
  BY WithoutAndWith
<1>q. \A q \in Q \cup I :
        /\ NoDer(replaceEquation(a, b, q)) <=> NoDer(q)
        /\ \A s, t : Extends(s, t, a, b, S, St) => (Holds(replaceEquation(a, b, q), t) <=> Holds(q, s))
  BY ReplacedEquation
<1>x. \A n \in L : \A w : ext(w)[n] = w[n]
  BY DEF with
<1> HIDE DEF ext
<1>f. ASSUME NEW s, NEW t, Instants(s), Instants(t), t.val \in Valuations(L), s.val = ext(t.val),
             \A n \in L \cap St : s.next[n] = t.next[n]
      PROVE  Extends(s, t, a, b, S, St)
  BY <1>f, <1>1 DEF Extends, ext
<1>e. ASSUME NEW w \in Valuations(L)
      PROVE  ext(w) \in Valuations(S) /\ ext(w)[a.name] = TableOf(b, ext(w))
  BY <1>u
<1>2. ASSUME NEW w \in Valuations(L) PROVE w \in Still(Q2, L) <=> ext(w) \in Still(Q \cup {e}, S)
  <2>1. Extends(twice(ext(w)), twice(w), a, b, S, St)
    <3>1. /\ Instants(twice(ext(w))) /\ Instants(twice(w))
          /\ twice(ext(w)).val = ext(w) /\ twice(w).val = w
          /\ twice(ext(w)).next = ext(w) /\ twice(w).next = w
      BY DEF twice, Instants
    <3> QED
      BY <3>1, <1>f, <1>x
  <2>2. Holds(e, twice(ext(w)))
    <3>1. Fits(twice(ext(w)), S, St)
      BY <1>u, ValuationsFit
    <3>2. twice(ext(w)).val = ext(w)
      BY DEF twice
    <3> QED
      BY <3>1, <3>2, <1>e DEF Says
  <2>3. \A q \in Q : (NoDer(replaceEquation(a, b, q)) => Holds(replaceEquation(a, b, q), twice(w)))
                       <=> (NoDer(q) => Holds(q, twice(ext(w))))
    BY <2>1, <1>q
  <2>4. w \in Still(Q2, L) <=>
          \A q \in Q : NoDer(replaceEquation(a, b, q)) => Holds(replaceEquation(a, b, q), twice(w))
    BY DEF Still
  <2>5. ext(w) \in Still(Q \cup {e}, S) <=> \A q \in Q : NoDer(q) => Holds(q, twice(ext(w)))
    BY <2>2, <1>u DEF Still
  <2> QED
    BY <2>3, <2>4, <2>5
<1>3. ASSUME NEW v \in Still(Q \cup {e}, S)
      PROVE  v = ext(Restrict(v, L)) /\ Restrict(v, L) \in Still(Q2, L)
  <2>1. v \in Valuations(S) /\ Holds(e, twice(v))
    BY DEF Still, Says
  <2>2. Fits(twice(v), S, St) /\ twice(v).val = v
    BY <2>1, ValuationsFit DEF twice
  <2>3. v[a.name] = TableOf(b, v)
    BY <2>1, <2>2 DEF Says
  <2> QED
    BY <2>1, <2>3, <1>u, <1>2
<1>4. ASSUME NEW s, NEW t, Extends(s, t, a, b, S, St)
      PROVE  (\A q \in Q2 \cup I2 : Holds(q, t)) <=> (\A q \in Q \cup I : Holds(q, s))
  <2>1. \A q \in Q \cup I : Holds(replaceEquation(a, b, q), t) <=> Holds(q, s)
    BY <1>4, <1>q
  <2>2. Q2 \cup I2 = {replaceEquation(a, b, q) : q \in Q \cup I}
    OBVIOUS
  <2> QED
    BY <2>1, <2>2
<1>5. ASSUME NEW s, Solves(s, Q \cup {e}, I, S, St)
      PROVE  Solves(onto(s, L, St), Q2, I2, L, St)
  <2> DEFINE t == onto(s, L, St)
  <2>1. Instants(t) /\ t.val = Restrict(s.val, L) /\ t.next = Restrict(s.next, L \cap St)
    BY DEF onto, Instants
  <2>2. /\ Instants(s) /\ s.val \in Still(Q \cup {e}, S)
        /\ \A q \in Q \cup {e} \cup I : Holds(q, s)
    BY <1>5 DEF Solves
  <2>3. PICK v \in Still(Q \cup {e}, S) : s.next = Restrict(v, S \cap St)
    BY <1>5 DEF Solves
  <2> HIDE DEF t
  <2>4. t.val \in Still(Q2, L) /\ s.val = ext(t.val) /\ t.val \in Valuations(L)
    BY <2>1, <2>2, <1>3 DEF Still
  <2>5. t.next = Restrict(Restrict(v, L), L \cap St)
    BY <2>1, <2>3, <1>1 DEF Restrict
  <2>6. \A n \in L \cap St : s.next[n] = t.next[n]
    BY <2>1 DEF Restrict
  <2>7. Extends(s, t, a, b, S, St)
    BY <2>1, <2>2, <2>4, <2>6, <1>f
  <2>8. \A q \in Q2 \cup I2 : Holds(q, t)
    BY <2>2, <2>7, <1>4
  <2> QED
    BY <2>1, <2>3, <2>4, <2>5, <2>8, <1>3 DEF Solves, t
<1>6. ASSUME NEW t, Solves(t, Q2, I2, L, St)
      PROVE  \E s : Solves(s, Q \cup {e}, I, S, St) /\ t = onto(s, L, St)
  <2> DEFINE s == [val |-> ext(t.val), next |-> t.next]
  <2>1. /\ Instants(t) /\ t.val \in Still(Q2, L) /\ t.val \in Valuations(L)
        /\ \A q \in Q2 \cup I2 : Holds(q, t)
    BY <1>6 DEF Solves, Still
  <2>2. PICK w \in Still(Q2, L) : t.next = Restrict(w, L \cap St)
    BY <1>6 DEF Solves
  <2>3. Instants(s) /\ s.val = ext(t.val) /\ s.next = t.next
    BY DEF Instants
  <2> HIDE DEF s
  <2>4. s.val \in Still(Q \cup {e}, S)
    BY <2>1, <2>3, <1>2
  <2>5. ext(w) \in Still(Q \cup {e}, S)
    BY <2>2, <1>2 DEF Still
  <2>6. s.next = Restrict(ext(w), S \cap St)
    <3>1. \A n \in S \cap St : ext(w)[n] = w[n]
      BY <1>x, <1>1
    <3> QED
      BY <3>1, <2>2, <2>3, <1>1 DEF Restrict
  <2>7. Extends(s, t, a, b, S, St)
    BY <2>1, <2>3, <1>f
  <2>8. \A q \in Q \cup I : Holds(q, s)
    BY <2>1, <2>7, <1>4
  <2>9. Holds(e, s)
    <3>1. s.val \in Valuations(S) /\ s.val[a.name] = TableOf(b, s.val)
      BY <2>1, <2>3, <1>e
    <3>2. Fits(s, S, St)
      <4>1. ext(w) \in Valuations(S)
        BY <2>5 DEF Still
      <4>2. \A n \in S : ext(w)[n] \in Tables(n)
        BY <4>1, ValuationsAre
      <4> QED
        BY <4>2, <3>1, <2>3, <2>6 DEF Fits, Restrict
    <3> QED
      BY <3>1, <3>2 DEF Says
  <2>10. Solves(s, Q \cup {e}, I, S, St)
    BY <2>3, <2>4, <2>5, <2>6, <2>8, <2>9 DEF Solves
  <2>11. t = onto(s, L, St)
    <3>1. Restrict(s.val, L) = t.val
      BY <2>1, <2>3, <1>u
    <3>2. Restrict(s.next, L \cap St) = t.next
      BY <2>2, <2>3 DEF Restrict
    <3> QED
      BY <3>1, <3>2, <2>1 DEF onto, Instants
  <2> QED
    BY <2>10, <2>11
<1> QED
  BY <1>5, <1>6 DEF Projects

-----------------------------------------------------------------------------
(* The solutions of the model that was read, step by step *)

LEMMA ProjectsSelf ==
  ASSUME NEW P, NEW I, NEW S, NEW St
  PROVE  Projects(P, I, S, P, I, S, St)
<1>1. ASSUME NEW s, Solves(s, P, I, S, St) PROVE onto(s, S, St) = s
  <2>1. Instants(s) /\ s.val \in Valuations(S)
    BY <1>1 DEF Solves, Still
  <2>2. PICK v \in Still(P, S) : s.next = Restrict(v, S \cap St)
    BY <1>1 DEF Solves
  <2>3. s.val = [n \in S |-> s.val[n]]
    BY <2>1, ValuationsAre
  <2>4. Restrict(s.val, S) = s.val
    BY <2>3 DEF Restrict
  <2>5. Restrict(s.next, S \cap St) = s.next
    BY <2>2 DEF Restrict
  <2> QED
    BY <2>1, <2>4, <2>5 DEF onto, Instants
<1> QED
  BY <1>1 DEF Projects

LEMMA ProjectsTwice ==
  ASSUME NEW P, NEW I, NEW S, NEW St, NEW Q, NEW J, NEW L, NEW Q2, NEW J2, NEW M, M \subseteq L,
         Projects(P, I, S, Q, J, L, St), Projects(Q, J, L, Q2, J2, M, St)
  PROVE  Projects(P, I, S, Q2, J2, M, St)
<1>1. ASSUME NEW s PROVE onto(onto(s, L, St), M, St) = onto(s, M, St)
  <2>1. onto(s, L, St).val = Restrict(s.val, L) /\ onto(s, L, St).next = Restrict(s.next, L \cap St)
    BY DEF onto
  <2>2. \A f : Restrict(Restrict(f, L), M) = Restrict(f, M)
    BY DEF Restrict
  <2>3. \A f : Restrict(Restrict(f, L \cap St), M \cap St) = Restrict(f, M \cap St)
    BY DEF Restrict
  <2> QED
    BY <2>1, <2>2, <2>3 DEF onto
<1>2. ASSUME NEW s, Solves(s, P, I, S, St) PROVE Solves(onto(s, M, St), Q2, J2, M, St)
  BY <1>1, <1>2 DEF Projects
<1>3. ASSUME NEW u, Solves(u, Q2, J2, M, St)
      PROVE  \E s : Solves(s, P, I, S, St) /\ u = onto(s, M, St)
  <2>1. PICK t : Solves(t, Q, J, L, St) /\ u = onto(t, M, St)
    BY <1>3 DEF Projects
  <2>2. PICK s : Solves(s, P, I, S, St) /\ t = onto(s, L, St)
    BY <2>1 DEF Projects
  <2> QED
    BY <2>1, <2>2, <1>1
<1> QED
  BY <1>2, <1>3 DEF Projects

(* Equations that say the same have the same solutions. *)
LEMMA ProjectsAlike ==
  ASSUME NEW P, NEW I, NEW S, NEW St, NEW Q, NEW J, NEW L, NEW Q2,
         Projects(P, I, S, Q, J, L, St),
         \A s : Solves(s, Q, J, L, St) <=> Solves(s, Q2, J, L, St)
  PROVE  Projects(P, I, S, Q2, J, L, St)
  BY DEF Projects

(* What becomes a reference was one. *)
LEMMA StaysReference ==
  ASSUME NEW E, NEW elseifs \in BOOLEAN, IsExpressionSet(E, elseifs), Visitors(E),
         NEW look \in Refs, NEW rep \in E, NEW ign \in BOOLEAN
  PROVE  \A e \in E : ReplaceExpression(look, rep, ign, e).kind = "Reference" => e \in Refs
<1> DEFINE R(e) == ReplaceExpression(look, rep, ign, e)
           G == {e \in E : R(e).kind = "Reference" => e \in Refs}
<1>0. /\ \A v \in Int : R(Number(v)) = Number(v)
      /\ \A d \in E : R(Neg(d)) = Neg(R(d)) /\ R(Der(d)) = Der(R(d)) /\ R(Parens(d)) = Parens(R(d))
      /\ \A op \in {"Add", "Sub"}, l, r \in E : R(BinOp(op, l, r)) = BinOp(op, R(l), R(r))
      /\ \A c, t, d \in E, branches \in Branches(E, elseifs) :
           R(IfExp(c, t, branches, d)) = IfExp(R(c), R(t), <<>>, R(d))
  BY ReplacementAt
<1> HIDE DEF R
<1>1. ASSUME NEW v \in Int PROVE Number(v) \in G
  <2>1. Number(v) \in E
    BY AtNumber
  <2>2. R(Number(v)) = Number(v)
    BY <1>0
  <2>3. Number(v).kind = "Number"
    BY NodeParts
  <2> QED
    BY <2>1, <2>2, <2>3
<1>2. ASSUME NEW r \in Refs PROVE r \in G
  BY Closed
<1>3. ASSUME NEW d \in G PROVE Neg(d) \in G /\ Der(d) \in G /\ Parens(d) \in G
  <2>1. Neg(d) \in E /\ Der(d) \in E /\ Parens(d) \in E
    BY Closed
  <2> QED
    BY <2>1, <1>0, NodeParts
<1>4. ASSUME NEW op \in {"Add", "Sub"}, NEW l \in G, NEW r \in G PROVE BinOp(op, l, r) \in G
  <2>1. BinOp(op, l, r) \in E
    BY Closed
  <2>2. R(BinOp(op, l, r)).kind = op
    BY <1>0, NodeParts
  <2> QED
    BY <2>1, <2>2
<1>5. ASSUME NEW c \in G, NEW t \in G, NEW d \in G, NEW branches \in Branches(G, elseifs)
      PROVE  IfExp(c, t, branches, d) \in G
  <2>1. branches \in Branches(E, elseifs)
    BY BranchesGrow
  <2>2. IfExp(c, t, branches, d) \in E
    BY <2>1, Closed
  <2>3. R(IfExp(c, t, branches, d)).kind = "IfExp"
    BY <2>1, <1>0, NodeParts
  <2> QED
    BY <2>2, <2>3
<1>g. G \subseteq E
  OBVIOUS
<1> HIDE DEF G
<1>c. ClosedUnder(G, elseifs)
  BY <1>1, <1>2, <1>3, <1>4, <1>5 DEF ClosedUnder
<1>6. G = E
  BY <1>g, <1>c, Induction
<1> QED
  BY <1>6 DEF G, R

LEMMA SideBySideReplaced ==
  ASSUME NEW E, NEW elseifs \in BOOLEAN, IsExpressionSet(E, elseifs), Visitors(E),
         NEW a, NEW b, Replacement(a, b, E), ArrayPair(a, b) => a.sub = b.sub,
         NEW q \in Eqs(E), SideBySide(q)
  PROVE  SideBySide(replaceEquation(a, b, q))
<1> DEFINE yes == TRUE
           R(d) == ReplaceExpression(a, b, yes, d)
           new == replaceEquation(a, b, q)
<1>0. q.left \in E /\ q.right \in E /\ q \in Eqs(E) /\ a \in Refs /\ b \in E
  BY DEF Eqs, Replacement
<1>a. new = [q EXCEPT !.left = R(q.left), !.right = R(q.right)]
  BY DEF replaceEquation
<1>1. new.left = R(q.left) /\ new.right = R(q.right) /\ new.loop = q.loop
  BY <1>0, <1>a DEF Eqs
<1>y. yes \in BOOLEAN
  OBVIOUS
<1> HIDE DEF yes, new
<1>2. \A r \in Refs : R(r) = IF r = a THEN b ELSE renameReference(a, b, yes, r)
  BY <1>0, <1>y, ReplacementAt
<1>3. \A d \in E : R(d).kind = "Reference" => d \in Refs
  BY <1>0, <1>y, StaysReference
<1>r. \A r : renameReference(a, b, yes, r) =
              IF Is("Reference", b) /\ r.name = a.name THEN [r EXCEPT !.name = b.name] ELSE r
  BY DEF renameReference, yes
<1> HIDE DEF R
<1>4. ASSUME NEW d \in E, Is("Reference", R(d)), R(d).name \in Arrays
      PROVE  Is("Reference", d) /\ d.name \in Arrays /\ d.sub = R(d).sub
  <2>1. d \in Refs /\ Is("Reference", d)
    BY <1>3, <1>4, NodeParts DEF Is
  <2>2. ASSUME Is("Reference", b), b.name \in Arrays PROVE ArrayPair(a, b)
    <3>1. b \in Refs
      BY <2>2, <1>0, KindOf DEF Is
    <3>2. b \in references(b)
      BY <3>1, AtReference
    <3> QED
      BY <3>2, <2>2 DEF Replacement
  <2>3. CASE d = a
    <3>1. R(d) = b
      BY <2>3, <1>0, <1>2
    <3>2. ArrayPair(a, b)
      BY <3>1, <1>4, <2>2
    <3> QED
      BY <3>1, <3>2, <2>1, <2>3 DEF ArrayPair
  <2>4. CASE d # a /\ Is("Reference", b) /\ d.name = a.name
    <3>1. R(d) = [d EXCEPT !.name = b.name]
      BY <2>1, <2>4, <1>2, <1>r
    <3>2. R(d).name = b.name /\ R(d).sub = d.sub
      BY <3>1, <2>1 DEF Refs
    <3>3. ArrayPair(a, b)
      BY <3>2, <2>4, <1>4, <2>2
    <3> QED
      BY <3>2, <3>3, <2>1, <2>4 DEF ArrayPair
  <2>5. CASE d # a /\ ~(Is("Reference", b) /\ d.name = a.name)
    <3>1. R(d) = d
      BY <2>1, <2>5, <1>2, <1>r
    <3> QED
      BY <3>1, <2>1, <1>4
  <2> QED
    BY <2>3, <2>4, <2>5
<1>5. SideBySide(new)
  <2> SUFFICES ASSUME IsForEq(new), \A f \in Sides(new) : Is("Reference", f) /\ f.name \in Arrays
               PROVE  new.loop[2] = 1 /\ \A f \in Sides(new) : f.sub = Counter
    BY DEF SideBySide
  <2>1. /\ Is("Reference", R(q.left)) /\ R(q.left).name \in Arrays
        /\ Is("Reference", R(q.right)) /\ R(q.right).name \in Arrays
    BY <1>1 DEF Sides
  <2>2. /\ Is("Reference", q.left) /\ q.left.name \in Arrays /\ q.left.sub = R(q.left).sub
        /\ Is("Reference", q.right) /\ q.right.name \in Arrays /\ q.right.sub = R(q.right).sub
    BY <2>1, <1>0, <1>4
  <2>3. IsForEq(q)
    BY <1>1 DEF IsForEq
  <2>4. q.loop[2] = 1 /\ q.left.sub = Counter /\ q.right.sub = Counter
    BY <2>2, <2>3 DEF SideBySide, Sides
  <2> QED
    BY <2>2, <2>4, <1>1 DEF Sides
<1> QED
  BY <1>5 DEF new

(* What the turn of an equation says *)
LEMMA AliasedSays ==
  ASSUME NEW E, NEW elseifs \in BOOLEAN, IsExpressionSet(E, elseifs), Visitors(E),
         Branches(E, elseifs) = {<<>>}, Symmetric, FormInv(E),
         NEW eq, NEW e, NEW a, NEW b, NEW rest, Aliased(eq, e, a, b, rest),
         NEW S, NEW St, Within(e.left, S, St), Within(e.right, S, St), SideBySide(e),
         Is("Number", b) => b.val \in Values
  PROVE  /\ Says(e, a, b, S, St)
         /\ ArrayPair(a, b) => a.sub = b.sub
<1>0. /\ Replacement(a, b, E) /\ a \in Refs /\ b \in E
      /\ a \in RefsOf(e) /\ references(b) \subseteq RefsOf(e)
  BY AliasIsReplacement DEF Replacement
<1>1. a.name \in S /\ refNames(b) \subseteq S
  BY <1>0 DEF RefsOf, Within, refNames
<1>2. Turn(eq) /\ (e = evaluated(eq) \/ e = eq)
  BY DEF Aliased
<1>3. e \in Eqs(E) /\ eq \in Eqs(E) /\ \A r \in RefsOf(eq) : Subscripted(r)
  BY <1>2, EvaluatedList
<1>4. CASE ~IsForEq(eq) /\ e = evaluated(eq) /\ <<a, b>> \in AliasesOf(e)
  <2>1. e.loop = eq.loop
    BY <1>3, <1>4, EvaluatedEquation
  <2>2. ~IsForEq(e)
    BY <2>1, <1>4 DEF IsForEq
  <2>3. ScalarPair(a, b, E)
    BY <1>3, <1>4, SaidPairs DEF Eqs
  <2>a. /\ e \in Eqs(E) /\ <<a, b>> \in AliasesOf(e)
        /\ Replacement(a, b, E) /\ a.name \in S /\ refNames(b) \subseteq S
    BY <1>0, <1>1, <1>3, <1>4
  <2>5. Says(e, a, b, S, St)
    BY <2>a, <2>2, <2>3, EqualitySays
  <2> QED
    BY <2>3, <2>5 DEF ScalarPair, ArrayPair
<1>5. CASE IsForEq(eq) /\ e = eq /\ <<a, b>> \in ForAliasesOf(eq)
  <2>0. eq.left \in E /\ eq.right \in E
    BY <1>3 DEF Eqs
  <2>1. ArrayPair(a, b) /\ {a, b} = {e.left, e.right}
    BY <2>0, <1>3, <1>5, ForPairs
  <2>2. b \in Refs /\ derNames(a) = {} /\ derNames(b) = {} /\ refNames(b) = {b.name}
    BY <1>0, <2>1, AtReference DEF ArrayPair
  <2>3. NoDer(e)
    BY <2>1, <2>2 DEF NoDer
  <2>4. ASSUME NEW s, Fits(s, S, St) PROVE Holds(e, s) <=> s.val[a.name] = TableOf(b, s.val)
    <3>1. /\ e \in Eqs(E) /\ IsForEq(e) /\ <<a, b>> \in ForAliasesOf(e)
          /\ a.name \in S /\ b.name \in S
      BY <2>2, <1>1, <1>3, <1>5
    <3> QED
      BY <2>1, <2>4, <3>1, ForEquationSays
  <2>5. a.sub = b.sub
    <3>1. Is("Reference", a) /\ Is("Reference", b) /\ a.name \in Arrays /\ b.name \in Arrays
      BY <1>0, <2>1, <2>2, NodeParts DEF Is, ArrayPair
    <3>2. a.sub = Counter /\ b.sub = Counter
      BY <3>1, <2>1, <1>5 DEF SideBySide, Sides
    <3> QED
      BY <3>2
  <2> QED
    BY <2>3, <2>4, <2>5 DEF Says
<1> QED
  BY <1>4, <1>5 DEF Aliased

-----------------------------------------------------------------------------
(***************************************************************************)
(* What is left has the solutions of the model that was read, as long as   *)
(* no variable was replaced by an expression it occurs in, no state was    *)
(* replaced by a number, and the numbers are values a variable may have.   *)
(***************************************************************************)
Sound ==
  /\ Acyclic
  /\ \A k \in DOMAIN removed :
       /\ ~isState(removed[k][1].name)
       /\ Is("Number", removed[k][2]) => removed[k][2].val \in Values

(* The equations the list has, and those of the initial equations *)
Posed(Q, I, S, St, E) ==
  /\ \A q \in Q : SideBySide(q)
  /\ \A q \in Q \cup I : /\ q \in Eqs(E) /\ DersOf(q) \subseteq St
                         /\ Within(q.left, S, St) /\ Within(q.right, S, St)

(* The equations Q and I for the names L are what is left of the model that was read. *)
Leaves(Q, I, L) ==
  /\ \A q \in Q : SideBySide(q)
  /\ \A q \in Q \cup I : DersOf(q) \subseteq states
  /\ L \subseteq input.names
  /\ Projects(Range(input.equations), Range(input.initial_eqs), input.names, Q, I, L, states)

SolvedInv ==
  /\ input \in Models
  /\ Sound => Leaves(Range(equations), Range(initial_eqs), Left)

LEMMA ModelPosed ==
  ASSUME NEW E, FormInv(E), GoneInv, SolvedInv, Sound
  PROVE  Posed(Range(equations), Range(initial_eqs), Left, states, E)
<1>1. NamesOf(equations) \subseteq Left /\ NamesOf(initial_eqs) \subseteq Left
  BY DEF GoneInv, Sound, Occurring
<1>2. ASSUME NEW list, Written(list, E), NamesOf(list) \subseteq Left, NEW q \in Range(list),
             DersOf(q) \subseteq states
      PROVE  q \in Eqs(E) /\ Within(q.left, Left, states) /\ Within(q.right, Left, states)
  <2>1. PICK k \in DOMAIN list : q = list[k]
    BY DEF Range
  <2>2. q \in Eqs(E) /\ \A r \in RefsOf(q) : Subscripted(r)
    BY <1>2, <2>1 DEF Written
  <2> DEFINE L == Left
  <2> HIDE DEF L
  <2>3. NamesOf(list) \subseteq L <=> \A j \in DOMAIN list : \A r \in RefsOf(list[j]) : r.name \in L
    BY NamesOfList
  <2>4. \A r \in RefsOf(q) : r.name \in Left
    BY <2>1, <2>3, <1>2 DEF L
  <2> QED
    BY <2>2, <2>4, <1>2 DEF RefsOf, Within, DersOf
<1>3. Written(equations, E) /\ Written(initial_eqs, E)
  BY DEF FormInv
<1>4. /\ \A q \in Range(equations) : SideBySide(q)
      /\ \A q \in Range(equations) \cup Range(initial_eqs) : DersOf(q) \subseteq states
  BY DEF SolvedInv, Leaves
<1> QED
  BY <1>1, <1>2, <1>3, <1>4 DEF Posed

(* The turn of an equation, evaluated in place or not *)
LEMMA TurnSolves ==
  ASSUME NEW E, NEW elseifs \in BOOLEAN, IsExpressionSet(E, elseifs), Visitors(E),
         Branches(E, elseifs) = {<<>>}, FormInv(E),
         NEW eq, Turn(eq), NEW e, e = eq \/ (~IsForEq(eq) /\ e = evaluated(eq)),
         NEW I, NEW S, NEW St, Posed(Range(equations), I, S, St, E)
  PROVE  /\ Posed(Range(ReplaceAt(equations, pos, e)), I, S, St, E)
         /\ \A s : Solves(s, Range(equations), I, S, St)
                     <=> Solves(s, Range(ReplaceAt(equations, pos, e)), I, S, St)
<1> DEFINE Q == Range(equations)
           Q2 == Range(ReplaceAt(equations, pos, e))
<1>0. equations \in Seq(Eqs(E)) /\ pos \in DOMAIN equations /\ eq = equations[pos] /\ eq \in Q
  BY DEF FormInv, Written, Turn, Range
<1>1. eq \in Eqs(E) /\ Within(eq.left, S, St) /\ Within(eq.right, S, St)
      /\ SideBySide(eq) /\ DersOf(eq) \subseteq St
  BY <1>0 DEF Posed
<1>2. Alike(eq, e, S, St)
  <2>1. CASE e = eq
    BY <2>1 DEF Alike
  <2>2. CASE ~IsForEq(eq) /\ e = evaluated(eq)
    <3>1. Alike(eq, evaluated(eq), S, St)
      BY <1>1, <2>2, EvaluatedAlike
    <3> QED
      BY <3>1, <2>2
  <2> QED
    BY <2>1, <2>2
<1>3. e \in Eqs(E) /\ Within(e.left, S, St) /\ Within(e.right, S, St)
      /\ SideBySide(e) /\ DersOf(e) \subseteq St
  <2>1. CASE e = eq
    BY <2>1, <1>1
  <2>2. CASE ~IsForEq(eq) /\ e = evaluated(eq)
    <3>1. /\ e \in Eqs(E) /\ e.left = PartialEval(eq.left) /\ e.right = PartialEval(eq.right)
          /\ e.loop = eq.loop
      BY <1>1, <2>2, EvaluatedEquation
    <3>2. eq.left \in E /\ eq.right \in E
      BY <1>1 DEF Eqs
    <3>3. /\ references(e.left) = references(eq.left) /\ derNames(e.left) = derNames(eq.left)
          /\ references(e.right) = references(eq.right) /\ derNames(e.right) = derNames(eq.right)
      BY <3>1, <3>2, PartialEvalNames
    <3>4. ~IsForEq(e)
      BY <3>1, <2>2 DEF IsForEq
    <3> QED
      BY <3>1, <3>3, <3>4, <1>1 DEF Within, DersOf, SideBySide
  <2> QED
    BY <2>1, <2>2
<1> HIDE DEF Eqs
<1>4. /\ ReplaceAt(equations, pos, e) \in Seq(Eqs(E)) /\ Len(ReplaceAt(equations, pos, e)) = Len(equations)
      /\ \A j \in DOMAIN equations :
           ReplaceAt(equations, pos, e)[j] = IF j = pos THEN e ELSE equations[j]
  BY <1>0, <1>3, ReplaceAtFacts
<1>5. DOMAIN ReplaceAt(equations, pos, e) = DOMAIN equations
  BY <1>0, <1>4
<1>6. /\ \A q \in Q2 : q = e \/ q \in Q
      /\ \A q \in Q : q = eq \/ q \in Q2
      /\ e \in Q2
  BY <1>0, <1>4, <1>5 DEF Range
<1> HIDE DEF Q, Q2
<1>7. \A q : Alike(q, q, S, St)
  BY DEF Alike
<1>8. /\ \A p \in Q : \E q \in Q2 : Alike(p, q, S, St)
      /\ \A q \in Q2 : \E p \in Q : Alike(p, q, S, St)
  BY <1>0, <1>2, <1>6, <1>7
<1>9. \A s : Solves(s, Q, I, S, St) <=> Solves(s, Q2, I, S, St)
  BY <1>8, AlikeSolve
<1>10. Posed(Q2, I, S, St, E)
  <2>1. Posed(Q, I, S, St, E)
    BY DEF Q
  <2> QED
    BY <2>1, <1>3, <1>6 DEF Posed
<1> QED
  BY <1>9, <1>10 DEF Q, Q2

LEMMA RangeReplaced ==
  ASSUME NEW a, NEW b, NEW list
  PROVE  Range(replaceIn(a, b, list)) = {replaceEquation(a, b, q) : q \in Range(list)}
  BY DEF replaceIn, Range

LEMMA InitSolved ==
  ASSUME NEW E, \A m \in Models : FlatModel(m, E) /\ Comparable(m)
  PROVE  AInit => SolvedInv
<1> SUFFICES ASSUME AInit PROVE SolvedInv
  OBVIOUS
<1>1. /\ input \in Models /\ Comparable(input) /\ equations = input.equations
      /\ initial_eqs = input.initial_eqs /\ variables = SetToSeq(input.names)
      /\ states = StateNames(input.equations)
  BY DEF AInit
<1>2. Left = input.names
  BY <1>1, ModelsAssumption, NamesAsList DEF Left
<1>3. ASSUME NEW list, NEW q \in Range(list) PROVE DersOf(q) \subseteq StateNames(list)
  BY DEF Range, StateNames, Sides, DersOf
<1>4. /\ \A q \in Range(equations) : SideBySide(q)
      /\ \A q \in Range(equations) \cup Range(initial_eqs) : DersOf(q) \subseteq states
  <2>1. StateNames(initial_eqs) \subseteq states /\ \A k \in DOMAIN equations : SideBySide(equations[k])
    BY <1>1 DEF Comparable
  <2> QED
    BY <2>1, <1>1, <1>3 DEF Range
<1>5. Projects(Range(input.equations), Range(input.initial_eqs), input.names,
               Range(equations), Range(initial_eqs), Left, states)
  BY <1>1, <1>2, ProjectsSelf
<1> QED
  BY <1>1, <1>2, <1>4, <1>5 DEF SolvedInv, Leaves

(* What is removed in a sound step *)
LEMMA SoundAlias ==
  ASSUME NEW E, FormInv(E), NEW a, NEW b, removed' = Append(removed, <<a, b>>),
         states' = states, Sound'
  PROVE  /\ Sound /\ a.name \notin refNames(b) /\ a.name \notin states
         /\ Is("Number", b) => b.val \in Values
<1>1. removed \in Seq(Refs \X E)
  BY DEF FormInv
<1>2. /\ Len(removed) + 1 \in DOMAIN removed' /\ removed'[Len(removed) + 1] = <<a, b>>
      /\ \A k \in DOMAIN removed : k \in DOMAIN removed' /\ removed'[k] = removed[k]
  BY <1>1
<1>3. /\ \A k \in DOMAIN removed' : removed'[k][1].name \notin refNames(removed'[k][2])
      /\ \A k \in DOMAIN removed' :
           /\ removed'[k][1].name \notin states
           /\ Is("Number", removed'[k][2]) => removed'[k][2].val \in Values
  BY DEF Sound, Acyclic, isState
<1>4. <<a, b>>[1] = a /\ <<a, b>>[2] = b
  OBVIOUS
<1> QED
  BY <1>2, <1>3, <1>4 DEF Sound, Acyclic, isState

(* An alias: the equation that says it is gone, and the rest speaks of what is left. *)
LEMMA AliasSolved ==
  ASSUME NEW E, NEW elseifs \in BOOLEAN, IsExpressionSet(E, elseifs), Visitors(E),
         Branches(E, elseifs) = {<<>>}, Symmetric,
         FormInv(E), GoneInv, SolvedInv, Sound,
         NEW eq, NEW e, NEW a, NEW b, NEW rest, Aliased(eq, e, a, b, rest),
         a.name \notin refNames(b), a.name \notin states, Is("Number", b) => b.val \in Values
  PROVE  Leaves({replaceEquation(a, b, q) : q \in Range(rest)},
                {replaceEquation(a, b, q) : q \in Range(initial_eqs)}, Left \ {a.name})
<1> DEFINE L == Left
           I == Range(initial_eqs)
           Q == Range(rest)
           Q1 == Range(ReplaceAt(equations, pos, e))
           St == states
           Q2 == {replaceEquation(a, b, q) : q \in Range(rest)}
           I2 == {replaceEquation(a, b, q) : q \in Range(initial_eqs)}
<1>e. /\ Q2 = {replaceEquation(a, b, q) : q \in Q}
      /\ I2 = {replaceEquation(a, b, q) : q \in I}
  OBVIOUS
<1>1. Turn(eq) /\ (e = eq \/ (~IsForEq(eq) /\ e = evaluated(eq)))
  BY DEF Aliased
<1>2. /\ Replacement(a, b, E)
      /\ a.name \in NamesOf(equations) /\ refNames(b) \subseteq NamesOf(equations)
      /\ Q \cup {e} = Q1
  BY AliasIsReplacement
<1>3. Posed(Range(equations), I, L, St, E)
  BY ModelPosed
<1>4. /\ Posed(Q1, I, L, St, E)
      /\ \A s : Solves(s, Range(equations), I, L, St) <=> Solves(s, Q1, I, L, St)
  BY <1>1, <1>3, TurnSolves
<1>5. a.name \in L /\ refNames(b) \subseteq L \ {a.name}
  BY <1>2 DEF GoneInv, Sound, Occurring
<1>6. Projects(Range(input.equations), Range(input.initial_eqs), input.names, Range(equations), I, L, St)
  BY DEF SolvedInv, Leaves
<1>n. a.name \notin St
  OBVIOUS
<1> HIDE DEF L, I, Q, Q1, St, Q2, I2
<1>7. /\ \A q \in Q \cup {e} : SideBySide(q)
      /\ \A q \in Q \cup {e} \cup I : /\ q \in Eqs(E) /\ DersOf(q) \subseteq St
                                      /\ Within(q.left, L, St) /\ Within(q.right, L, St)
  BY <1>2, <1>4 DEF Posed
<1>8. Within(e.left, L, St) /\ Within(e.right, L, St) /\ SideBySide(e)
  BY <1>7
<1>9. Says(e, a, b, L, St) /\ (ArrayPair(a, b) => a.sub = b.sub)
  BY <1>8, AliasedSays
<1>10. Replaces(a, b, Q, I, L, St, E)
  BY <1>2, <1>5, <1>7, <1>9, <1>n DEF Replaces
<1>11. Projects(Q \cup {e}, I, L, Q2, I2, L \ {a.name}, St)
  BY <1>9, <1>10, <1>e, AliasSolves
<1>12. Projects(Range(input.equations), Range(input.initial_eqs), input.names, Q1, I, L, St)
  BY <1>4, <1>6, ProjectsAlike
<1>13. Projects(Range(input.equations), Range(input.initial_eqs), input.names,
                Q2, I2, L \ {a.name}, St)
  <2>1. Projects(Q1, I, L, Q2, I2, L \ {a.name}, St)
    BY <1>2, <1>11
  <2>2. L \ {a.name} \subseteq L
    OBVIOUS
  <2> QED
    BY <2>1, <2>2, <1>12, ProjectsTwice
<1>14. \A q \in Q \cup I : DersOf(replaceEquation(a, b, q)) = DersOf(q)
  BY <1>10, ReplacedEquation
<1>15. \A q \in Q2 \cup I2 : DersOf(q) \subseteq St
  BY <1>7, <1>14, <1>e
<1>16. ASSUME NEW q \in Q PROVE SideBySide(replaceEquation(a, b, q))
  BY <1>2, <1>7, <1>9, SideBySideReplaced
<1>17. \A q \in Q2 : SideBySide(q)
  BY <1>16, <1>e
<1>18. L \ {a.name} \subseteq input.names
  BY DEF SolvedInv, Leaves, L
<1> QED
  BY <1>13, <1>15, <1>17, <1>18 DEF Leaves, L, St, Q2, I2

LEMMA NextSolved ==
  ASSUME NEW E, NEW elseifs \in BOOLEAN, IsExpressionSet(E, elseifs), Visitors(E),
         Branches(E, elseifs) = {<<>>}, Symmetric
  PROVE  FormInv(E) /\ GoneInv /\ SolvedInv /\ [ANext]_avars => SolvedInv'
<1> SUFFICES ASSUME FormInv(E), GoneInv, SolvedInv, [ANext]_avars PROVE SolvedInv'
  OBVIOUS
<1>0. states' = states /\ input' = input
  BY DEF ANext, NoSymbol, AliasEquality, PassEquality, AliasForEq, PassForEq, ListEnds, While, avars
<1>m. (input \in Models)'
  BY <1>0 DEF SolvedInv
<1> SUFFICES ASSUME Sound' PROVE Leaves(Range(equations), Range(initial_eqs), Left)'
  BY <1>m DEF SolvedInv
<1>1. CASE AliasEquality \/ AliasForEq
  <2>1. PICK eq, e, a, b, rest : Aliased(eq, e, a, b, rest) /\ alias(a, b, rest)
    BY <1>1, AliasSteps
  <2> DEFINE Q2 == {replaceEquation(a, b, q) : q \in Range(rest)}
             I2 == {replaceEquation(a, b, q) : q \in Range(initial_eqs)}
  <2>2. /\ Sound /\ a.name \notin refNames(b) /\ a.name \notin states
        /\ Is("Number", b) => b.val \in Values
    BY <2>1, <1>0, SoundAlias DEF alias
  <2>3. Leaves(Q2, I2, Left \ {a.name})
    BY <2>1, <2>2, AliasSolved
  <2>4. Range(equations') = Q2 /\ Range(initial_eqs') = I2
    BY <2>1, RangeReplaced DEF alias
  <2>5. Left' = Left \ {a.name}
    <3>1. /\ variables \in Seq(Names) /\ IsInjective(variables)
          /\ Left = syms /\ Occurring \subseteq syms
      BY <2>2 DEF GoneInv, Sound
    <3>2. a.name \in NamesOf(equations)
      BY <2>1, AliasIsReplacement
    <3>3. a.name \in Range(variables)
      BY <3>1, <3>2 DEF Left, Occurring
    <3> QED
      BY <2>1, <3>1, <3>3, RemovedFromList DEF alias, Left
  <2> HIDE DEF Q2, I2
  <2> QED
    BY <2>3, <2>4, <2>5, <1>0 DEF Leaves
<1>2. ASSUME removed' = removed, variables' = variables, initial_eqs' = initial_eqs
      PROVE  Sound /\ Left' = Left /\ Leaves(Range(equations), Range(initial_eqs), Left)
  <2>1. Sound
    BY <1>0, <1>2 DEF Sound, Acyclic, isState
  <2> QED
    BY <2>1, <1>2 DEF SolvedInv, Left
<1>3. CASE PassEquality
  <2>1. PICK eq : /\ Turn(eq) /\ ~IsForEq(eq)
                  /\ equations' = ReplaceAt(equations, pos, evaluated(eq))
    BY <1>3 DEF PassEquality
  <2>2. UNCHANGED <<initial_eqs, removed, variables>>
    BY <1>3 DEF PassEquality
  <2>3. Posed(Range(equations), Range(initial_eqs), Left, states, E)
    BY <1>2, <2>2, ModelPosed
  <2> DEFINE I == Range(initial_eqs)
             L == Left
             St == states
  <2> HIDE DEF I, L, St
  <2>4. /\ Posed(Range(equations'), I, L, St, E)
        /\ \A s : Solves(s, Range(equations), I, L, St) <=> Solves(s, Range(equations'), I, L, St)
    BY <2>1, <2>3, TurnSolves DEF I, L, St
  <2>5. Projects(Range(input.equations), Range(input.initial_eqs), input.names,
                 Range(equations'), I, L, St)
    BY <1>2, <2>2, <2>4, ProjectsAlike DEF Leaves, I, L, St
  <2>6. /\ \A q \in Range(equations') : SideBySide(q)
        /\ \A q \in Range(equations') \cup I : DersOf(q) \subseteq St
    BY <2>4 DEF Posed
  <2> QED
    BY <1>0, <1>2, <2>2, <2>5, <2>6 DEF Leaves, I, L, St
<1>4. CASE NoSymbol \/ PassForEq \/ ListEnds \/ While \/ UNCHANGED avars
  <2>1. UNCHANGED <<equations, initial_eqs, removed, variables>>
    BY <1>4 DEF NoSymbol, PassForEq, ListEnds, While, avars
  <2> QED
    BY <1>0, <1>2, <2>1 DEF Leaves, Left
<1> QED
  BY <1>1, <1>3, <1>4 DEF ANext

LEMMA SolvedKeeps ==
  ASSUME NEW E, FormInv(E), SolvedInv, Sound
  PROVE  SameSolutions
<1>1. /\ input.equations \in Seq(Range(input.equations))
      /\ input.initial_eqs \in Seq(Range(input.initial_eqs))
      /\ equations \in Seq(Eqs(E)) /\ initial_eqs \in Seq(Eqs(E))
  BY ModelsAssumption DEF SolvedInv, Leaves, FormInv, Written
<1> DEFINE P == Solutions(input.equations, input.initial_eqs, input.names)
           Q == Solutions(equations, initial_eqs, Left)
           S == Range(input.equations) \cup Range(input.initial_eqs)
<1> HIDE DEF Eqs
<1>2. \A s : s \in P <=> Solves(s, Range(input.equations), Range(input.initial_eqs), input.names, states)
  <2>1. input.equations \in Seq(S) /\ input.initial_eqs \in Seq(S)
    BY <1>1
  <2> HIDE DEF S
  <2> QED
    BY <2>1, SolutionsSolve
<1>3. \A s : s \in Q <=> Solves(s, Range(equations), Range(initial_eqs), Left, states)
  BY <1>1, SolutionsSolve
<1>4. Projects(Range(input.equations), Range(input.initial_eqs), input.names,
               Range(equations), Range(initial_eqs), Left, states)
  BY DEF SolvedInv, Leaves
<1>5. \A s : project(s, Left) = onto(s, Left, states)
  BY DEF project, onto
<1> HIDE DEF P, Q
<1>6. {project(s, Left) : s \in P} = Q
  <2>1. \A s \in P : project(s, Left) \in Q
    BY <1>2, <1>3, <1>4, <1>5 DEF Projects
  <2>2. \A t \in Q : \E s \in P : t = project(s, Left)
    BY <1>2, <1>3, <1>4, <1>5 DEF Projects
  <2> QED
    BY <2>1, <2>2
<1> QED
  BY <1>6 DEF SameSolutions, P, Q

(* RemoveAlias keeps the solutions: those of what is left are those of the model that was
   read, without the values of the variables that were removed.  In models of any size,
   over any range of values that has the opposites of its values and the numbers that
   replace variables, unless a variable is replaced by an expression it occurs in or a
   state by a number. *)
THEOREM SolutionsKept ==
  ASSUME NEW E, NEW elseifs \in BOOLEAN, IsExpressionSet(E, elseifs), Visitors(E),
         Branches(E, elseifs) = {<<>>}, Symmetric,
         \A m \in Models : FlatModel(m, E) /\ Comparable(m)
  PROVE  ASpec => [](Sound => SameSolutions)
<1>0. \A m \in Models : FlatModel(m, E)
  OBVIOUS
<1>1. AInit => FormInv(E) /\ GoneInv /\ SolvedInv
  BY <1>0, InitForm, InitGone, InitSolved
<1>2. FormInv(E) /\ GoneInv /\ SolvedInv /\ [ANext]_avars => FormInv(E)' /\ GoneInv' /\ SolvedInv'
  BY NextForm, NextGone, NextSolved
<1>3. FormInv(E) /\ SolvedInv => (Sound => SameSolutions)
  BY SolvedKeeps
<1> QED
  BY <1>1, <1>2, <1>3, PTL DEF ASpec
=============================================================================
