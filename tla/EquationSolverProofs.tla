------------------------ MODULE EquationSolverProofs ------------------------
(***************************************************************************)
(* Proofs about EquationSolver.  A member of the causal model is named by  *)
(* a pair <<k, j>>: member j of match k.  Two maps carry the proofs: Taken *)
(* says which member every solved equation comes from, and Placed where    *)
(* every solved equation is in the grouped list.                           *)
(***************************************************************************)
EXTENDS EquationSolver, TLAPS

USE ModelsAssumption

Written == [range : Ranges \cup (Int \X Int), body : Seq([var : Accesses, uses : SUBSET Accesses])]

-----------------------------------------------------------------------------
(* What is written of a member *)

(* A member goes into one of the four lists, *)
LEMMA ListOfType == ASSUME NEW s PROVE listOf(s) \in 1..4
  BY DEF listOf, guess_eqs, rest_eqs, res_eqs, unmatched_eqs

(* and is kept as it is in the first and the last; in the last it has no unknown. *)
LEMMA KeptList ==
  ASSUME NEW s
  PROVE  /\ isKept(s) <=> listOf(s) = 1 \/ listOf(s) = 4
         /\ listOf(s) = 4 <=> s.var = Unmatched
  BY DEF listOf, isKept, guess_eqs, rest_eqs, res_eqs, unmatched_eqs

(* What is assigned is the unknown of the member, and a member without one is left alone. *)
LEMMA AssignmentType ==
  ASSUME NEW body \in Seq(Members), NEW j \in DOMAIN body
  PROVE  /\ assignment(body, j) = [var |-> body[j].var, uses |-> assignment(body, j).uses]
         /\ assignment(body, j).var = body[j].var /\ body[j].var \in Accesses
         /\ assignment(body, j).uses \in SUBSET Accesses
         /\ body[j].var = Unmatched => assignment(body, j).uses = body[j].uses
<1>1. body[j] \in Members /\ body[j].var \in Accesses
  <2>1. body[j] \in Members  OBVIOUS
  <2> QED  BY <2>1 DEF Members
<1>2. CASE isKept(body[j])
  BY <1>1, <1>2 DEF assignment, Members, Solved
<1>3. CASE ~isKept(body[j])
  <2>1. j \in Matched(body)  BY <1>3, KeptList DEF Matched
  <2>2. \A k \in Closure(body, j) : body[k].uses \in SUBSET Accesses
    <3>1. Closure(body, j) \subseteq Matched(body)  BY DEF Closure
    <3>2. \A k \in Matched(body) : body[k] \in Members  BY DEF Matched
    <3> QED  BY <3>1, <3>2 DEF Members
  <2>3. assignment(body, j)
          = Solved(body[j].var, UNION {body[k].uses : k \in Closure(body, j)}
                                  \ {body[k].var : k \in Matched(body)})
    BY <1>3, <2>1 DEF assignment, lsolve
  <2> HIDE DEF Closure, Matched
  <2>4. body[j].var # Unmatched  BY <1>3, KeptList
  <2> QED  BY <1>1, <2>2, <2>3, <2>4 DEF Solved
<1> QED  BY <1>2, <1>3

(* Turning gives an access, and never the mark of a member without an unknown. *)
LEMMA TurnRoundType ==
  ASSUME NEW acc \in Accesses, NEW r \in Int \X Int \X Int
  PROVE  /\ turnRound(acc, r) = [var |-> acc.var, a |-> -acc.a, b |-> acc.b + acc.a * (r[1] + r[3])]
         /\ turnRound(acc, r) \in Accesses
         /\ turnRound(acc, r) = Unmatched <=> acc = Unmatched
<1>1. acc = [var |-> acc.var, a |-> acc.a, b |-> acc.b] /\ acc.a \in Int /\ acc.b \in Int
      /\ acc.var \in STRING
  BY DEF Accesses
<1>2. turnRound(acc, r) = [var |-> acc.var, a |-> -acc.a, b |-> acc.b + acc.a * (r[1] + r[3])]
  BY <1>1 DEF turnRound
<1>3. acc.a * (r[1] + r[3]) \in Int /\ (acc.a = 0 => acc.a * (r[1] + r[3]) = 0)
  BY <1>1
<1> HIDE DEF turnRound
<1>4. turnRound(acc, r) \in Accesses  BY <1>1, <1>2, <1>3 DEF Accesses
<1>5. turnRound(acc, r) = Unmatched => acc = Unmatched
  <2> SUFFICES ASSUME turnRound(acc, r) = Unmatched PROVE acc = Unmatched  OBVIOUS
  <2>1. acc.var = "0" /\ -acc.a = 0 /\ acc.b + acc.a * (r[1] + r[3]) = 0
    BY <1>2 DEF Unmatched
  <2>2. acc.a = 0  BY <2>1, <1>1
  <2>3. acc.b = 0  BY <2>1, <2>2, <1>1, <1>3
  <2> QED  BY <1>1, <2>1, <2>2, <2>3 DEF Unmatched
<1>6. acc = Unmatched => turnRound(acc, r) = Unmatched
  BY <1>1, <1>2, <1>3 DEF Unmatched
<1> QED  BY <1>2, <1>4, <1>5, <1>6

(* What is written of a member is one equation with one member. *)
LEMMA WrittenType ==
  ASSUME NEW eq \in Equations, NEW j \in DOMAIN eq.body
  PROVE  /\ written(eq, j) \in Written
         /\ Len(written(eq, j).body) = 1
         /\ written(eq, j).range = Scalar <=> eq.range = Scalar
<1>1. eq.body \in Seq(Members) /\ eq.range \in Ranges /\ eq.body[j] \in Members
  BY DEF Equations
<1> DEFINE s == assignment(eq.body, j)
<1>2. s = [var |-> eq.body[j].var, uses |-> s.uses] /\ s.uses \in SUBSET Accesses
      /\ s.var \in Accesses
  <2>1. eq.body[j].var \in Accesses  BY <1>1 DEF Members
  <2> QED  BY <1>1, <2>1, AssignmentType
<1> HIDE DEF s
<1>3. CASE IsForEq(eq) /\ ~isKept(eq.body[j]) /\ eq.range[2] < 0
  <2>1. eq.range \in Int \X Int \X Int  BY <1>1, <1>3 DEF Ranges, IsForEq
  <2>2. turnRound(s.var, eq.range) \in Accesses
        /\ {turnRound(acc, eq.range) : acc \in s.uses} \in SUBSET Accesses
    BY <2>1, <1>2, TurnRoundType
  <2>3. written(eq, j) = [range |-> <<eq.range[3], eq.range[1]>>,
                          body |-> <<[var |-> turnRound(s.var, eq.range),
                                      uses |-> {turnRound(acc, eq.range) : acc \in s.uses}]>>]
    BY <1>3 DEF written, updateForEquationRange, Single, Solved, s
  <2>4. eq.range # Scalar /\ <<eq.range[3], eq.range[1]>> # Scalar
    BY <1>3 DEF IsForEq, Scalar
  <2>5. <<eq.range[3], eq.range[1]>> \in Int \X Int  BY <2>1
  <2> HIDE DEF turnRound
  <2> QED  BY <2>2, <2>3, <2>4, <2>5 DEF Written
<1>4. CASE ~(IsForEq(eq) /\ ~isKept(eq.body[j]) /\ eq.range[2] < 0)
  <2>1. written(eq, j) = [range |-> eq.range, body |-> <<s>>]
    BY <1>4 DEF written, updateForEquationRange, Single, s
  <2> QED  BY <1>1, <1>2, <2>1 DEF Written
<1> QED  BY <1>3, <1>4

(* Written or kept, what has no unknown has none, and nothing else becomes such. *)
LEMMA ZeroWritten ==
  ASSUME NEW eq \in Equations, NEW j \in DOMAIN eq.body
  PROVE  /\ written(eq, j).body[1].var = Unmatched <=> eq.body[j].var = Unmatched
         /\ isKept(eq.body[j]) => written(eq, j) = Single(eq.range, assignment(eq.body, j))
<1>1. eq.body \in Seq(Members) /\ eq.range \in Ranges /\ eq.body[j] \in Members
  BY DEF Equations
<1>2. assignment(eq.body, j).var = eq.body[j].var /\ eq.body[j].var \in Accesses
  BY <1>1, AssignmentType
<1>3. isKept(eq.body[j]) => written(eq, j) = Single(eq.range, assignment(eq.body, j))
  BY DEF written
<1>4. CASE IsForEq(eq) /\ ~isKept(eq.body[j]) /\ eq.range[2] < 0
  <2>1. eq.range \in Int \X Int \X Int  BY <1>1, <1>4 DEF Ranges, IsForEq
  <2>2. written(eq, j).body[1].var = turnRound(eq.body[j].var, eq.range)
    BY <1>4, <1>2 DEF written, updateForEquationRange, Single, Solved
  <2> QED  BY <1>2, <1>3, <2>1, <2>2, TurnRoundType
<1>5. CASE ~(IsForEq(eq) /\ ~isKept(eq.body[j]) /\ eq.range[2] < 0)
  BY <1>5, <1>2, <1>3 DEF written, updateForEquationRange, Single
<1> QED  BY <1>4, <1>5

(* The turned access at the turned counter is the access at the counter. *)
LEMMA TurnedAt ==
  ASSUME NEW r \in Int \X Int \X Int, r[2] = -1, NEW acc \in Accesses, NEW c \in Int
  PROVE  /\ Steps(<<r[3], r[1]>>) = Steps(r)
         /\ At(turnRound(acc, r), CounterAt(<<r[3], r[1]>>, c)) = At(acc, CounterAt(r, c))
<1> DEFINE t == <<r[3], r[1]>>
<1>1. r[1] \in Int /\ r[3] \in Int /\ r # Scalar /\ t # Scalar /\ r = <<r[1], r[2], r[3]>>
  BY DEF Scalar
<1>2. Len(r) = 3 /\ Len(t) = 2 /\ Last(r) = r[3] /\ Last(t) = r[1] /\ t[1] = r[3]
  BY <1>1 DEF Last
<1>3. StepOf(r) = -1 /\ StepOf(t) = 1  BY <1>2 DEF StepOf
<1> HIDE DEF t
<1>4. Steps(t) = 1 + (r[1] - r[3]) \div 1 /\ Steps(r) = 1 + (r[1] - r[3]) \div (-(-1))
  BY <1>1, <1>2, <1>3 DEF Steps
<1>5. CounterAt(t, c) = r[3] + (c - 1) /\ CounterAt(r, c) = r[1] - (c - 1)
  BY <1>1, <1>2, <1>3 DEF CounterAt
<1>6. turnRound(acc, r).var = acc.var /\ turnRound(acc, r).a = -acc.a
      /\ turnRound(acc, r).b = acc.b + acc.a * (r[1] + r[3])
  BY DEF turnRound
<1>7. acc.a \in Int /\ acc.b \in Int  BY DEF Accesses
<1>8. (-acc.a) * (r[3] + (c - 1)) + (acc.b + acc.a * (r[1] + r[3])) = acc.a * (r[1] - (c - 1)) + acc.b
  BY <1>1, <1>7
<1>9. At(turnRound(acc, r), CounterAt(t, c)) = At(acc, CounterAt(r, c))
  BY <1>5, <1>6, <1>8 DEF At
<1> QED  BY <1>4, <1>9 DEF t

(* In every turn of its loop what is written is what the member stands for. *)
LEMMA WrittenAt ==
  ASSUME NEW eq \in Equations, NEW j \in DOMAIN eq.body, NEW c \in Int,
         IsForEq(eq) /\ ~isKept(eq.body[j]) => eq.range[2] >= -1
  PROVE  LET w == written(eq, j)
             s == assignment(eq.body, j)
         IN  /\ Steps(w.range) = Steps(eq.range)
             /\ At(w.body[1].var, CounterAt(w.range, c))
                  = At(eq.body[j].var, CounterAt(eq.range, c))
             /\ {At(acc, CounterAt(w.range, c)) : acc \in w.body[1].uses}
                  = {At(acc, CounterAt(eq.range, c)) : acc \in s.uses}
<1> DEFINE w == written(eq, j)
           s == assignment(eq.body, j)
<1>1. eq.body \in Seq(Members) /\ eq.range \in Ranges /\ eq.body[j] \in Members
  BY DEF Equations
<1>2. s.var = eq.body[j].var /\ eq.body[j].var \in Accesses /\ s.uses \in SUBSET Accesses
  BY <1>1, AssignmentType
<1>3. CASE IsForEq(eq) /\ ~isKept(eq.body[j]) /\ eq.range[2] < 0
  <2>1. eq.range \in Int \X Int \X Int  BY <1>1, <1>3 DEF Ranges, IsForEq
  <2>2. eq.range[2] = -1  BY <2>1, <1>3
  <2>3. /\ w.range = <<eq.range[3], eq.range[1]>>
        /\ w.body[1].var = turnRound(s.var, eq.range)
        /\ w.body[1].uses = {turnRound(acc, eq.range) : acc \in s.uses}
    BY <1>3, <1>2 DEF written, updateForEquationRange, Single, Solved
  <2> HIDE DEF w, s
  <2>4. \A acc \in Accesses :
          /\ Steps(w.range) = Steps(eq.range)
          /\ At(turnRound(acc, eq.range), CounterAt(w.range, c)) = At(acc, CounterAt(eq.range, c))
    BY <2>1, <2>2, <2>3, TurnedAt
  <2>5. {At(acc, CounterAt(w.range, c)) : acc \in w.body[1].uses}
          = {At(turnRound(acc, eq.range), CounterAt(w.range, c)) : acc \in s.uses}
    <3> HIDE DEF At, turnRound, CounterAt
    <3> QED  BY <2>3
  <2>6. {At(turnRound(acc, eq.range), CounterAt(w.range, c)) : acc \in s.uses}
          = {At(acc, CounterAt(eq.range, c)) : acc \in s.uses}
    <3> HIDE DEF At, turnRound, CounterAt
    <3> QED  BY <2>4, <1>2
  <2> QED  BY <2>3, <2>4, <2>5, <2>6, <1>2 DEF w, s
<1>4. CASE ~(IsForEq(eq) /\ ~isKept(eq.body[j]) /\ eq.range[2] < 0)
  <2>1. w = [range |-> eq.range, body |-> <<s>>]
    BY <1>4 DEF written, updateForEquationRange, Single
  <2> HIDE DEF w, s
  <2>2. w.range = eq.range /\ w.body[1] = s  BY <2>1
  <2> QED  BY <2>2, <1>2 DEF w, s
<1> QED  BY <1>3, <1>4

(* Under TurnsByOne loops of different ranges are not written with one range. *)
LEMMA WrittenRange ==
  ASSUME NEW eq \in Equations, NEW j \in DOMAIN eq.body,
         NEW eq2 \in Equations, NEW j2 \in DOMAIN eq2.body,
         IsForEq(eq) => eq.range[2] >= -1, IsForEq(eq2) => eq2.range[2] >= -1,
         written(eq, j).range = written(eq2, j2).range
  PROVE  eq.range = eq2.range
<1> DEFINE turned(e, i) == IsForEq(e) /\ ~isKept(e.body[i]) /\ e.range[2] < 0
<1>1. \A e \in Equations : \A i \in DOMAIN e.body :
        /\ turned(e, i) => written(e, i).range = <<e.range[3], e.range[1]>>
        /\ ~turned(e, i) => written(e, i).range = e.range
  BY DEF written, updateForEquationRange, Single
<1>2. eq.range \in Ranges /\ eq2.range \in Ranges  BY DEF Equations
<1>3. CASE turned(eq, j) /\ turned(eq2, j2)
  <2>1. <<eq.range[3], eq.range[1]>> = <<eq2.range[3], eq2.range[1]>>  BY <1>1, <1>3
  <2>2. eq.range \in Int \X Int \X Int /\ eq2.range \in Int \X Int \X Int
    BY <1>2, <1>3 DEF Ranges, IsForEq
  <2>3. eq.range[2] = -1 /\ eq2.range[2] = -1  BY <1>3, <2>2
  <2> QED  BY <2>1, <2>2, <2>3
<1>4. CASE ~turned(eq, j) /\ ~turned(eq2, j2)  BY <1>1, <1>4
<1>5. ASSUME NEW e \in Equations, NEW r \in Ranges, r = <<e.range[3], e.range[1]>> PROVE FALSE
  <2>1. CASE r = Scalar  BY <1>5, <2>1 DEF Scalar
  <2>2. CASE r \in Int \X Int \X Int
    <3>1. r = <<r[1], r[2], r[3]>>  BY <2>2
    <3> QED  BY <3>1, <1>5
  <2> QED  BY <2>1, <2>2 DEF Ranges
<1>6. CASE turned(eq, j) /\ ~turned(eq2, j2)
  <2>1. eq2.range = <<eq.range[3], eq.range[1]>>  BY <1>1, <1>6
  <2> QED  BY <2>1, <1>2, <1>5
<1>7. CASE ~turned(eq, j) /\ turned(eq2, j2)
  <2>1. eq.range = <<eq2.range[3], eq2.range[1]>>  BY <1>1, <1>7
  <2> QED  BY <2>1, <1>2, <1>5
<1> QED  BY <1>3, <1>4, <1>6, <1>7

-----------------------------------------------------------------------------
(* Which member every solved equation is written of *)

Pairs(m, turn) ==
  {e \in Nat \X Nat : e[1] \in DOMAIN m /\ e[1] < turn /\ e[2] \in DOMAIN m[e[1]].body}

Ahead(m, e, f) == e[1] < f[1] \/ (e[1] = f[1] /\ Earlier(m[e[1]].body, e[2], f[2]))

Taken(m, list, turn, S) ==
  /\ S \in [DOMAIN list -> Pairs(m, turn)]
  /\ \A n \in DOMAIN list : list[n] = written(m[S[n][1]], S[n][2])
  /\ \A e \in Pairs(m, turn) : \E n \in DOMAIN list : S[n] = e
  /\ \A n1, n2 \in DOMAIN list : n1 < n2 => Ahead(m, S[n1], S[n2])

(* The positions of a body in the order of the result *)
Sorted(body, s) ==
  /\ s \in Seq(Nat)
  /\ \A n \in DOMAIN s : s[n] \in DOMAIN body
  /\ \A n1, n2 \in DOMAIN s : n1 < n2 => Earlier(body, s[n1], s[n2])

(* Two sorted lists, the first of which is earlier, are sorted one after the other. *)
LEMMA SortedConcat ==
  ASSUME NEW body, NEW s, NEW t, Sorted(body, s), Sorted(body, t),
         \A n1 \in DOMAIN s, n2 \in DOMAIN t : Earlier(body, s[n1], t[n2])
  PROVE  Sorted(body, s \o t)
<1>1. s \in Seq(Nat) /\ t \in Seq(Nat)  BY DEF Sorted
<1>2. s \o t \in Seq(Nat) /\ Len(s \o t) = Len(s) + Len(t)  BY <1>1
<1>3. \A n \in DOMAIN (s \o t) :
        \/ n \in DOMAIN s /\ (s \o t)[n] = s[n]
        \/ n > Len(s) /\ n - Len(s) \in DOMAIN t /\ (s \o t)[n] = t[n - Len(s)]
  BY <1>1
<1>4. \A n1, n2 \in DOMAIN (s \o t) : n1 < n2 => Earlier(body, (s \o t)[n1], (s \o t)[n2])
  <2> SUFFICES ASSUME NEW n1 \in DOMAIN (s \o t), NEW n2 \in DOMAIN (s \o t), n1 < n2
               PROVE  Earlier(body, (s \o t)[n1], (s \o t)[n2])
    OBVIOUS
  <2>1. CASE n1 \in DOMAIN s /\ n2 \in DOMAIN s
    BY <1>1, <2>1 DEF Sorted
  <2>2. CASE n1 \in DOMAIN s /\ n2 \notin DOMAIN s
    BY <1>1, <1>3, <2>2
  <2>3. CASE n1 \notin DOMAIN s
    <3>1. n1 > Len(s) /\ n2 > Len(s)  BY <1>1, <1>3, <2>3
    <3>2. n1 \in Int /\ n2 \in Int /\ Len(s) \in Int  BY <1>1, <1>2
    <3>3. n1 - Len(s) \in DOMAIN t /\ n2 - Len(s) \in DOMAIN t /\ n1 - Len(s) < n2 - Len(s)
      BY <1>1, <1>3, <3>1, <3>2
    <3> QED  BY <1>1, <1>3, <3>1, <3>3 DEF Sorted
  <2> QED  BY <2>1, <2>2, <2>3
<1>5. \A n \in DOMAIN (s \o t) : (s \o t)[n] \in DOMAIN body
  BY <1>1, <1>3 DEF Sorted
<1> QED  BY <1>2, <1>4, <1>5 DEF Sorted

(* The list l of a match of which the members before n have been split *)
Part(body, s, l, n) ==
  /\ s \in Seq(Nat)
  /\ \A i \in DOMAIN s : s[i] \in DOMAIN body /\ s[i] < n /\ listOf(body[s[i]]) = l
  /\ \A i1, i2 \in DOMAIN s : i1 < i2 => s[i1] < s[i2]

Split(body, ls, n) ==
  /\ ls \in [1..4 -> Seq(Nat)]
  /\ \A l \in 1..4 : Part(body, ls[l], l, n)
  /\ \A j \in DOMAIN body : j < n => \E i \in DOMAIN ls[listOf(body[j])] : ls[listOf(body[j])][i] = j

(* At first no member has been split, *)
LEMMA SplitStart ==
  ASSUME NEW body \in Seq(Members)
  PROVE  Split(body, NoLists, 1)
  BY DEF Split, Part, NoLists

(* and SplitMember puts the next one at the end of its list. *)
LEMMA SplitNext ==
  ASSUME NEW body \in Seq(Members), NEW ls, NEW n \in DOMAIN body, Split(body, ls, n)
  PROVE  Split(body, [ls EXCEPT ![listOf(body[n])] = Append(@, n)], n + 1)
<1> DEFINE k == listOf(body[n])
           new == [ls EXCEPT ![k] = Append(@, n)]
<1>1. k \in 1..4  BY ListOfType
<1>2. n \in Nat /\ DOMAIN body = 1..Len(body)  OBVIOUS
<1>3. ls \in [1..4 -> Seq(Nat)]  BY DEF Split
<1> DEFINE s == ls[k]
           t == Append(s, n)
<1>4. s \in Seq(Nat) /\ t \in Seq(Nat) /\ Len(t) = Len(s) + 1
      /\ t[Len(s) + 1] = n /\ \A i \in DOMAIN s : i \in DOMAIN t /\ i # Len(s) + 1 /\ t[i] = s[i]
  <2>1. s \in Seq(Nat)  BY <1>1, <1>3
  <2> HIDE DEF s
  <2> QED  BY <2>1, <1>2
<1>5. new \in [1..4 -> Seq(Nat)] /\ new[k] = t /\ \A l \in 1..4 : l # k => new[l] = ls[l]
  BY <1>1, <1>3, <1>4
<1>6. Part(body, t, k, n + 1)
  <2>0. Part(body, s, k, n)  BY <1>1 DEF Split
  <2>1. \A i \in DOMAIN t : i \in DOMAIN s \/ i = Len(s) + 1  BY <1>4
  <2> HIDE DEF t
  <2>2. \A i \in DOMAIN t : t[i] \in DOMAIN body /\ t[i] < n + 1 /\ listOf(body[t[i]]) = k
    <3> HIDE DEF s
    <3> QED  BY <2>0, <2>1, <1>2, <1>4 DEF Part
  <2>3. \A i1, i2 \in DOMAIN t : i1 < i2 => t[i1] < t[i2]
    <3> HIDE DEF s, k
    <3> QED  BY <2>0, <2>1, <1>2, <1>4 DEF Part
  <2> QED  BY <1>4, <2>2, <2>3 DEF Part
<1>7. \A l \in 1..4 : Part(body, new[l], l, n + 1)
  <2> SUFFICES ASSUME NEW l \in 1..4 PROVE Part(body, new[l], l, n + 1)  OBVIOUS
  <2>1. CASE l = k  BY <1>5, <1>6, <2>1
  <2>2. CASE l # k
    <3>1. Part(body, ls[l], l, n) /\ new[l] = ls[l]  BY <1>5, <2>2 DEF Split
    <3> HIDE DEF new
    <3> QED  BY <3>1, <1>2 DEF Part
  <2> QED  BY <2>1, <2>2
<1>8. ASSUME NEW j \in DOMAIN body, j < n + 1
      PROVE  \E i \in DOMAIN new[listOf(body[j])] : new[listOf(body[j])][i] = j
  <2> HIDE DEF new
  <2>1. CASE j = n
    BY <1>4, <1>5, <2>1
  <2>2. CASE j < n
    <3>1. PICK i \in DOMAIN ls[listOf(body[j])] : ls[listOf(body[j])][i] = j
      BY <2>2 DEF Split
    <3>2. listOf(body[j]) \in 1..4  BY ListOfType
    <3>3. CASE listOf(body[j]) = k  BY <3>1, <3>3, <1>4, <1>5
    <3>4. CASE listOf(body[j]) # k  BY <3>1, <3>2, <3>4, <1>5
    <3> QED  BY <3>3, <3>4
  <2> QED  BY <2>1, <2>2, <1>2, <1>8
<1> QED  BY <1>5, <1>7, <1>8 DEF Split

ConcatOf(ls) == ls[1] \o ls[2] \o ls[3] \o ls[4]

Holds(s, j) == \E n \in DOMAIN s : s[n] = j

(* What stands where in two sequences one after the other *)
LEMMA InConcat ==
  ASSUME NEW A, NEW s \in Seq(A), NEW t \in Seq(A)
  PROVE  /\ s \o t \in Seq(A) /\ Len(s \o t) = Len(s) + Len(t)
         /\ \A n \in DOMAIN s : n \in DOMAIN (s \o t) /\ (s \o t)[n] = s[n]
         /\ \A n \in DOMAIN t : /\ Len(s) + n \in DOMAIN (s \o t) /\ Len(s) + n \notin DOMAIN s
                                /\ (s \o t)[Len(s) + n] = t[n]
         /\ \A n \in DOMAIN (s \o t) :
              \/ n \in DOMAIN s /\ (s \o t)[n] = s[n]
              \/ n > Len(s) /\ n - Len(s) \in DOMAIN t /\ (s \o t)[n] = t[n - Len(s)]
<1>1. s \o t \in Seq(A) /\ Len(s \o t) = Len(s) + Len(t)  OBVIOUS
<1>2. ASSUME NEW n \in DOMAIN s PROVE n \in DOMAIN (s \o t) /\ (s \o t)[n] = s[n]
  OBVIOUS
<1>3. ASSUME NEW n \in DOMAIN t
      PROVE  /\ Len(s) + n \in DOMAIN (s \o t) /\ Len(s) + n \notin DOMAIN s
             /\ (s \o t)[Len(s) + n] = t[n]
  OBVIOUS
<1>4. ASSUME NEW n \in DOMAIN (s \o t)
      PROVE  \/ n \in DOMAIN s /\ (s \o t)[n] = s[n]
             \/ n > Len(s) /\ n - Len(s) \in DOMAIN t /\ (s \o t)[n] = t[n - Len(s)]
  OBVIOUS
<1> QED  BY <1>1, <1>2, <1>3, <1>4

(* The same where the second has one element *)
LEMMA ConcatOne ==
  ASSUME NEW A, NEW s \in Seq(A), NEW t \in Seq(A), Len(t) = 1
  PROVE  /\ s \o t \in Seq(A) /\ DOMAIN (s \o t) = 1..Len(s) + 1
         /\ Len(s) \in Nat /\ DOMAIN s = 1..Len(s) /\ DOMAIN t = 1..1
         /\ (s \o t)[Len(s) + 1] = t[1]
         /\ \A j \in DOMAIN s : (s \o t)[j] = s[j]
<1>1. s \o t \in Seq(A) /\ Len(s \o t) = Len(s) + Len(t)  BY InConcat
<1>2. Len(s) \in Nat /\ DOMAIN s = 1..Len(s) /\ DOMAIN t = 1..1  OBVIOUS
<1>3. DOMAIN (s \o t) = 1..Len(s) + 1  BY <1>1
<1>4. (s \o t)[Len(s) + 1] = t[1]
  <2>1. \A n \in DOMAIN t : (s \o t)[Len(s) + n] = t[n]  BY InConcat
  <2>2. 1 \in DOMAIN t  BY <1>2
  <2> QED  BY <2>1, <2>2
<1>5. ASSUME NEW j \in DOMAIN s PROVE (s \o t)[j] = s[j]  OBVIOUS
<1> QED  BY <1>1, <1>2, <1>3, <1>4, <1>5

(* What is sorted, and of the lists up to l *)
UpTo(body, s, l) == Sorted(body, s) /\ \A n \in DOMAIN s : listOf(body[s[n]]) \in 1..l

(* A list more keeps the order, and loses nothing. *)
LEMMA UpToNext ==
  ASSUME NEW body \in Seq(Members), NEW l \in Nat, NEW k, k = l + 1, NEW s, UpTo(body, s, l),
         NEW t, Part(body, t, k, Len(body) + 1)
  PROVE  /\ UpTo(body, s \o t, k)
         /\ \A j : Holds(s, j) \/ Holds(t, j) => Holds(s \o t, j)
<1>1. s \in Seq(Nat) /\ t \in Seq(Nat)  BY DEF UpTo, Sorted, Part
<1>2. Sorted(body, s) /\ Sorted(body, t)  BY DEF UpTo, Sorted, Part, Earlier
<1>3. \A n1 \in DOMAIN s, n2 \in DOMAIN t : Earlier(body, s[n1], t[n2])
  BY DEF UpTo, Part, Earlier
<1>4. Sorted(body, s \o t)  BY <1>2, <1>3, SortedConcat
<1> DEFINE u == s \o t
<1>5. /\ \A n \in DOMAIN s : n \in DOMAIN u /\ u[n] = s[n]
      /\ \A n \in DOMAIN t : Len(s) + n \in DOMAIN u /\ u[Len(s) + n] = t[n]
      /\ \A n \in DOMAIN u : \/ n \in DOMAIN s /\ u[n] = s[n]
                             \/ n - Len(s) \in DOMAIN t /\ u[n] = t[n - Len(s)]
  BY <1>1, InConcat
<1> HIDE DEF u
<1>6. \A n \in DOMAIN u : listOf(body[u[n]]) \in 1..k
  <2> SUFFICES ASSUME NEW n \in DOMAIN u PROVE listOf(body[u[n]]) \in 1..k  OBVIOUS
  <2>1. CASE n \in DOMAIN s /\ u[n] = s[n]
    <3>1. listOf(body[s[n]]) \in 1..l  BY <2>1 DEF UpTo
    <3> QED  BY <2>1, <3>1
  <2>2. CASE n - Len(s) \in DOMAIN t /\ u[n] = t[n - Len(s)]
    <3>1. listOf(body[t[n - Len(s)]]) = k  BY <2>2 DEF Part
    <3> QED  BY <2>2, <3>1
  <2> QED  BY <1>5, <2>1, <2>2
<1>7. \A j : Holds(s, j) \/ Holds(t, j) => Holds(u, j)
  BY <1>5 DEF Holds
<1> QED  BY <1>4, <1>6, <1>7 DEF UpTo, u

(* The four lists one after another hold every member once, and in order. *)
LEMMA SplitOrder ==
  ASSUME NEW body \in Seq(Members), NEW ls, Split(body, ls, Len(body) + 1)
  PROVE  /\ Sorted(body, ConcatOf(ls))
         /\ \A j \in DOMAIN body : \E n \in DOMAIN ConcatOf(ls) : ConcatOf(ls)[n] = j
<1> DEFINE p == ls[1]  q == ls[2]  r == ls[3]  s == ls[4]
<1>1. /\ Part(body, p, 1, Len(body) + 1) /\ Part(body, q, 2, Len(body) + 1)
      /\ Part(body, r, 3, Len(body) + 1) /\ Part(body, s, 4, Len(body) + 1)
  BY DEF Split
<1>2. \A j \in DOMAIN body : Holds(p, j) \/ Holds(q, j) \/ Holds(r, j) \/ Holds(s, j)
  <2> SUFFICES ASSUME NEW j \in DOMAIN body
               PROVE  \E l \in 1..4 : Holds(ls[l], j)
    OBVIOUS
  <2>1. listOf(body[j]) \in 1..4 /\ j < Len(body) + 1  BY ListOfType
  <2> QED  BY <2>1 DEF Split, Holds
<1>3. ConcatOf(ls) = p \o q \o r \o s  BY DEF ConcatOf
<1> HIDE DEF p, q, r, s
<1>4. UpTo(body, p, 1)  BY <1>1 DEF UpTo, Sorted, Part, Earlier
<1> DEFINE pq == p \o q  pqr == pq \o r  pqrs == pqr \o s
<1>5. UpTo(body, pq, 2) /\ \A j : Holds(p, j) \/ Holds(q, j) => Holds(pq, j)
  BY <1>1, <1>4, UpToNext, 2 = 1 + 1
<1> HIDE DEF pq
<1>6. UpTo(body, pqr, 3) /\ \A j : Holds(pq, j) \/ Holds(r, j) => Holds(pqr, j)
  BY <1>1, <1>5, UpToNext, 3 = 2 + 1
<1> HIDE DEF pqr
<1>7. UpTo(body, pqrs, 4) /\ \A j : Holds(pqr, j) \/ Holds(s, j) => Holds(pqrs, j)
  BY <1>1, <1>6, UpToNext, 4 = 3 + 1
<1> HIDE DEF pqrs
<1>8. ConcatOf(ls) = pqrs  BY <1>3 DEF pq, pqr, pqrs
<1>9. \A j \in DOMAIN body : Holds(pqrs, j)
  BY <1>2, <1>5, <1>6, <1>7
<1> QED  BY <1>7, <1>8, <1>9 DEF UpTo, Holds

(* One more match is taken. *)
LEMMA TakenNext ==
  ASSUME NEW m \in Seq(Equations), NEW list \in Seq(Written), NEW turn \in DOMAIN m,
         NEW S, Taken(m, list, turn, S), NEW o, Sorted(m[turn].body, o),
         \A j \in DOMAIN m[turn].body : \E n \in DOMAIN o : o[n] = j
  PROVE  LET new == list \o [n \in DOMAIN o |-> written(m[turn], o[n])]
         IN  new \in Seq(Written) /\ \E T : Taken(m, new, turn + 1, T)
<1> DEFINE tail == [n \in DOMAIN o |-> written(m[turn], o[n])]
           new  == list \o tail
           N    == Len(list)
           T    == [n \in DOMAIN new |-> IF n \in DOMAIN list THEN S[n] ELSE <<turn, o[n - N]>>]
           body == m[turn].body
<1>1. m[turn] \in Equations /\ turn \in Nat /\ body \in Seq(Members)
  <2>1. m[turn] \in Equations  OBVIOUS
  <2> QED  BY <2>1 DEF Equations
<1>2. o \in Seq(Nat) /\ \A n \in DOMAIN o : o[n] \in DOMAIN body  BY DEF Sorted
<1>3. tail \in Seq(Written) /\ Len(tail) = Len(o) /\ \A n \in DOMAIN o : tail[n] = written(m[turn], o[n])
  <2>1. \A n \in DOMAIN o : written(m[turn], o[n]) \in Written  BY <1>1, <1>2, WrittenType
  <2> HIDE DEF Written
  <2>2. DOMAIN o = 1..Len(o) /\ Len(o) \in Nat  BY <1>2
  <2> QED  BY <2>1, <2>2
<1> HIDE DEF tail, body
<1>4. /\ new \in Seq(Written) /\ Len(new) = N + Len(o) /\ N \in Nat
      /\ \A n \in DOMAIN list : n \in DOMAIN new /\ new[n] = list[n]
      /\ \A n \in DOMAIN o : N + n \in DOMAIN new /\ N + n \notin DOMAIN list /\ new[N + n] = tail[n]
      /\ \A n \in DOMAIN new : n \in DOMAIN list
                               \/ (n > N /\ n \notin DOMAIN list /\ n - N \in DOMAIN o /\ new[n] = tail[n - N])
  <2> HIDE DEF Written
  <2>1. DOMAIN tail = DOMAIN o /\ Len(list) \in Nat  BY <1>2, <1>3
  <2> HIDE DEF new, Written
  <2>2. /\ new \in Seq(Written) /\ Len(new) = Len(list) + Len(tail)
        /\ \A n \in DOMAIN list : n \in DOMAIN new /\ new[n] = list[n]
        /\ \A n \in DOMAIN tail : /\ Len(list) + n \in DOMAIN new /\ Len(list) + n \notin DOMAIN list
                                 /\ new[Len(list) + n] = tail[n]
        /\ \A n \in DOMAIN new :
             \/ n \in DOMAIN list /\ new[n] = list[n]
             \/ n > Len(list) /\ n - Len(list) \in DOMAIN tail /\ new[n] = tail[n - Len(list)]
    BY <1>3, InConcat DEF new
  <2>3. \A n \in DOMAIN list : ~(n > Len(list))  OBVIOUS
  <2> QED  BY <1>3, <2>1, <2>2, <2>3
<1> HIDE DEF new, N
<1>5. S \in [DOMAIN list -> Pairs(m, turn)]  BY DEF Taken
<1>6. /\ \A n \in DOMAIN list : T[n] = S[n] /\ T[n] \in Pairs(m, turn)
      /\ \A n \in DOMAIN new : n \notin DOMAIN list => T[n] = <<turn, o[n - N]>>
  BY <1>4, <1>5
<1>7. /\ Pairs(m, turn) \subseteq Pairs(m, turn + 1)
      /\ \A j \in DOMAIN body : <<turn, j>> \in Pairs(m, turn + 1)
      /\ \A e \in Pairs(m, turn + 1) : e \in Pairs(m, turn) \/ (e = <<turn, e[2]>> /\ e[2] \in DOMAIN body)
      /\ \A e \in Pairs(m, turn) : e[1] < turn
  BY <1>1 DEF Pairs, body
<1>8. T \in [DOMAIN new -> Pairs(m, turn + 1)]
  <2>1. \A n \in DOMAIN new : T[n] \in Pairs(m, turn + 1)
    BY <1>2, <1>4, <1>6, <1>7
  <2> QED  BY <2>1
<1> HIDE DEF T
<1>9. \A n \in DOMAIN new : new[n] = written(m[T[n][1]], T[n][2])
  <2> SUFFICES ASSUME NEW n \in DOMAIN new PROVE new[n] = written(m[T[n][1]], T[n][2])  OBVIOUS
  <2>1. CASE n \in DOMAIN list
    <3>1. list[n] = written(m[S[n][1]], S[n][2])  BY <2>1 DEF Taken
    <3> QED  BY <2>1, <3>1, <1>4, <1>6
  <2>2. CASE n \notin DOMAIN list
    <3>1. n - N \in DOMAIN o /\ new[n] = tail[n - N] /\ T[n] = <<turn, o[n - N]>>  BY <1>4, <1>6, <2>2
    <3> QED  BY <3>1, <1>3
  <2> QED  BY <2>1, <2>2
<1>10. \A e \in Pairs(m, turn + 1) : \E n \in DOMAIN new : T[n] = e
  <2> SUFFICES ASSUME NEW e \in Pairs(m, turn + 1) PROVE \E n \in DOMAIN new : T[n] = e  OBVIOUS
  <2>1. CASE e \in Pairs(m, turn)
    <3>1. PICK n \in DOMAIN list : S[n] = e  BY <2>1 DEF Taken
    <3> QED  BY <3>1, <1>4, <1>6
  <2>2. CASE e \notin Pairs(m, turn)
    <3>1. e = <<turn, e[2]>> /\ e[2] \in DOMAIN body  BY <2>2, <1>7
    <3>2. PICK n \in DOMAIN o : o[n] = e[2]  BY <3>1 DEF body
    <3>3. N + n \in DOMAIN new /\ N + n \notin DOMAIN list /\ (N + n) - N = n  BY <1>2, <1>4
    <3> QED  BY <3>1, <3>2, <3>3, <1>6
  <2> QED  BY <2>1, <2>2
<1>11. \A n1, n2 \in DOMAIN new : n1 < n2 => Ahead(m, T[n1], T[n2])
  <2> SUFFICES ASSUME NEW n1 \in DOMAIN new, NEW n2 \in DOMAIN new, n1 < n2
               PROVE  Ahead(m, T[n1], T[n2])
    OBVIOUS
  <2>0. n1 \in Int /\ n2 \in Int /\ DOMAIN list = 1..N  BY <1>4 DEF N
  <2>1. CASE n1 \in DOMAIN list /\ n2 \in DOMAIN list
    BY <2>1, <1>6 DEF Taken
  <2>2. CASE n1 \in DOMAIN list /\ n2 \notin DOMAIN list
    BY <2>2, <1>6, <1>7 DEF Ahead
  <2>3. CASE n1 \notin DOMAIN list
    <3>1. n1 - N \in DOMAIN o /\ n2 - N \in DOMAIN o /\ n2 \notin DOMAIN list /\ n1 - N < n2 - N
      BY <2>0, <2>3, <1>4
    <3>2. Earlier(body, o[n1 - N], o[n2 - N])  BY <3>1 DEF Sorted, body
    <3>3. T[n1] = <<turn, o[n1 - N]>> /\ T[n2] = <<turn, o[n2 - N]>>  BY <2>3, <3>1, <1>6
    <3> QED  BY <3>2, <3>3 DEF Ahead, body
  <2> QED  BY <2>1, <2>2, <2>3
<1>12. Taken(m, new, turn + 1, T)  BY <1>8, <1>9, <1>10, <1>11 DEF Taken
<1> QED  BY <1>4, <1>12 DEF new, tail

-----------------------------------------------------------------------------
(* Where every solved equation is in the grouped list *)

InGroup(g, e) == e[1] \in DOMAIN g /\ e[2] \in DOMAIN g[e[1]].body
Lower(e, f) == e[1] < f[1] \/ (e[1] = f[1] /\ e[2] < f[2])

(* Nothing but loops of one range stands from n1 to n2. *)
OneRange(list, n1, n2) ==
  list[n1].range # Scalar /\ \A i \in n1..n2 : list[i].range = list[n1].range

(* The first len equations of the list are in g. *)
Placed(list, g, last, len, L) ==
  /\ L \in [1..len -> Nat \X Nat]
  /\ \A n \in 1..len : /\ InGroup(g, L[n])
                       /\ g[L[n][1]].range = list[n].range
                       /\ g[L[n][1]].body[L[n][2]] = list[n].body[1]
  /\ \A k \in DOMAIN g : \A j \in DOMAIN g[k].body : \E n \in 1..len : L[n] = <<k, j>>
  /\ \A n1, n2 \in 1..len : n1 < n2 => Lower(L[n1], L[n2])
  /\ len > 0 => L[len][1] = Len(g)
  /\ g # <<>> /\ g[Len(g)].range # Scalar => last = g[Len(g)].range
  /\ \A n1, n2 \in 1..len : n1 <= n2 /\ OneRange(list, n1, n2) => L[n1][1] = L[n2][1]

(* The next equation is put at x, and g becomes h. *)
Put(list, len, g, h, x) ==
  /\ \A k \in DOMAIN g :
       /\ k \in DOMAIN h /\ h[k].range = g[k].range
       /\ \A j \in DOMAIN g[k].body : j \in DOMAIN h[k].body /\ h[k].body[j] = g[k].body[j]
  /\ InGroup(h, x)
  /\ h[x[1]].range = list[len + 1].range
  /\ h[x[1]].body[x[2]] = list[len + 1].body[1]
  /\ x[1] = Len(h)
  /\ \A k \in DOMAIN h : \A j \in DOMAIN h[k].body : <<k, j>> = x \/ InGroup(g, <<k, j>>)
  /\ \A e \in Nat \X Nat : InGroup(g, e) => Lower(e, x)
  /\ len > 0 /\ OneRange(list, len, len + 1) => x[1] = Len(g)

(* However the next equation is put into the grouped list, it is placed. *)
LEMMA PlacedPut ==
  ASSUME NEW list, NEW len \in Nat, NEW g, NEW last, NEW L, Placed(list, g, last, len, L),
         NEW h, NEW new, NEW x \in Nat \X Nat, Put(list, len, g, h, x),
         h[Len(h)].range # Scalar => new = h[Len(h)].range
  PROVE  \E M : Placed(list, h, new, len + 1, M)
<1> DEFINE t == len + 1
           M == [n \in 1..t |-> IF n = t THEN x ELSE L[n]]
<1>1. /\ t \in 1..t /\ t > 0
      /\ \A n \in 1..len : n \in 1..t /\ n # t /\ n < t
      /\ \A n \in 1..t : n = t \/ n \in 1..len
  OBVIOUS
<1>2. L \in [1..len -> Nat \X Nat]  BY DEF Placed
<1>3. /\ M \in [1..t -> Nat \X Nat]
      /\ M[t] = x
      /\ \A n \in 1..len : M[n] = L[n]
  <2> HIDE DEF t
  <2> QED  BY <1>1, <1>2
<1> HIDE DEF M
<1>4. ASSUME NEW n \in 1..t
      PROVE  /\ InGroup(h, M[n])
             /\ h[M[n][1]].range = list[n].range
             /\ h[M[n][1]].body[M[n][2]] = list[n].body[1]
  <2>1. CASE n = t  BY <1>3, <2>1 DEF Put
  <2>2. CASE n \in 1..len
    <3>1. /\ InGroup(g, L[n])
          /\ g[L[n][1]].range = list[n].range
          /\ g[L[n][1]].body[L[n][2]] = list[n].body[1]
      BY <2>2 DEF Placed
    <3>2. M[n] = L[n]  BY <1>3, <2>2
    <3> QED  BY <3>1, <3>2 DEF InGroup, Put
  <2> QED  BY <1>1, <2>1, <2>2
<1>5. ASSUME NEW k \in DOMAIN h, NEW j \in DOMAIN h[k].body
      PROVE  \E n \in 1..t : M[n] = <<k, j>>
  <2>1. CASE <<k, j>> = x
    <3> HIDE DEF t
    <3> QED  BY <1>1, <1>3, <2>1
  <2>2. CASE InGroup(g, <<k, j>>)
    <3>1. PICK n \in 1..len : L[n] = <<k, j>>  BY <2>2 DEF Placed, InGroup
    <3> QED  BY <1>1, <1>3, <3>1
  <2> QED  BY <2>1, <2>2 DEF Put
<1>6. ASSUME NEW n1 \in 1..t, NEW n2 \in 1..t, n1 < n2
      PROVE  Lower(M[n1], M[n2])
  <2>1. n1 \in 1..len  BY <1>6
  <2>2. CASE n2 = t
    <3>1. InGroup(g, L[n1]) /\ L[n1] \in Nat \X Nat  BY <2>1, <1>2 DEF Placed
    <3> HIDE DEF t
    <3> QED  BY <1>3, <2>1, <2>2, <3>1 DEF Put
  <2>3. CASE n2 \in 1..len  BY <1>3, <1>6, <2>1, <2>3 DEF Placed
  <2> QED  BY <1>1, <2>2, <2>3
<1>7. ASSUME NEW n1 \in 1..t, NEW n2 \in 1..t, n1 <= n2, OneRange(list, n1, n2)
      PROVE  M[n1][1] = M[n2][1]
  <2>1. CASE n1 = t  BY <1>7, <2>1
  <2>2. CASE n1 \in 1..len /\ n2 = t
    <3>1. len \in 1..len /\ len > 0 /\ len \in n1..t /\ n1 <= len
      BY <2>2
    <3>2. \A i \in n1..t : list[i].range = list[n1].range
      BY <1>7, <2>2 DEF OneRange
    <3>3. list[n1].range # Scalar  BY <1>7 DEF OneRange
    <3>4. OneRange(list, len, t)
      <4>1. list[len].range = list[n1].range  BY <3>1, <3>2
      <4>2. \A i \in len..t : i \in n1..t  BY <2>2
      <4> HIDE DEF t
      <4> QED  BY <3>2, <3>3, <4>1, <4>2 DEF OneRange
    <3>5. OneRange(list, n1, len)
      <4>1. \A i \in n1..len : i \in n1..t  BY <2>2
      <4> QED  BY <3>2, <3>3, <4>1 DEF OneRange
    <3>6. L[n1][1] = L[len][1] /\ L[len][1] = Len(g)
      BY <2>2, <3>1, <3>5 DEF Placed
    <3>7. x[1] = Len(g)  BY <3>1, <3>4 DEF Put
    <3> QED  BY <1>3, <2>2, <3>1, <3>6, <3>7
  <2>3. CASE n1 \in 1..len /\ n2 \in 1..len
    BY <1>3, <1>7, <2>3 DEF Placed
  <2>4. n1 = t \/ (n1 \in 1..len /\ n2 = t) \/ (n1 \in 1..len /\ n2 \in 1..len)
    BY <1>1
  <2> QED  BY <2>1, <2>2, <2>3, <2>4
<1>8. M[t][1] = Len(h)  BY <1>3 DEF Put
<1> HIDE DEF t
<1>9. Placed(list, h, new, t, M)
  BY ONLY <1>3, <1>4, <1>5, <1>6, <1>7, <1>8, h[Len(h)].range # Scalar => new = h[Len(h)].range DEF Placed
<1> QED  BY <1>9 DEF t

(* GroupEquation appends an equation, *)
LEMMA PlacedAppend ==
  ASSUME NEW list \in Seq(Written), NEW len \in Nat, len + 1 \in DOMAIN list,
         Len(list[len + 1].body) = 1,
         NEW g \in Seq(Written), NEW last, NEW L, Placed(list, g, last, len, L),
         ~(/\ list[len + 1].range # Scalar /\ g # <<>>
           /\ g[Len(g)].range # Scalar /\ list[len + 1].range = last),
         NEW new, list[len + 1].range # Scalar => new = list[len + 1].range
  PROVE  /\ Append(g, list[len + 1]) \in Seq(Written)
         /\ \E M : Placed(list, Append(g, list[len + 1]), new, len + 1, M)
<1> DEFINE eq == list[len + 1]
           h == Append(g, eq)
           N == Len(g)
           x == <<N + 1, 1>>
<1> HIDE DEF Written
<1>1. eq \in Written /\ N \in Nat  OBVIOUS
<1> HIDE DEF eq
<1>2. /\ h \in Seq(Written) /\ Len(h) = N + 1 /\ h[N + 1] = eq /\ N + 1 \in DOMAIN h
      /\ \A k \in DOMAIN g : k \in DOMAIN h /\ h[k] = g[k] /\ k < N + 1
      /\ \A k \in DOMAIN h : k = N + 1 \/ k \in DOMAIN g
  BY <1>1
<1> HIDE DEF h
<1>3. DOMAIN eq.body = 1..1
  <2>1. eq.body \in Seq([var : Accesses, uses : SUBSET Accesses])  BY <1>1 DEF Written
  <2>2. Len(eq.body) = 1  BY DEF eq
  <2> QED  BY <2>1, <2>2
<1>4. x \in Nat \X Nat /\ x[1] = N + 1 /\ x[2] = 1 /\ 1 \in 1..1  BY <1>1
<1>5. InGroup(h, x) /\ h[x[1]].range = eq.range /\ h[x[1]].body[x[2]] = eq.body[1]
  BY <1>2, <1>3, <1>4 DEF InGroup
<1>6. \A k \in DOMAIN h : \A j \in DOMAIN h[k].body : <<k, j>> = x \/ InGroup(g, <<k, j>>)
  BY <1>2, <1>3 DEF InGroup
<1>7. \A e \in Nat \X Nat : InGroup(g, e) => Lower(e, x)
  BY <1>2, <1>4 DEF InGroup, Lower
<1>8. ~(len > 0 /\ OneRange(list, len, len + 1))
  <2> SUFFICES ASSUME len > 0, OneRange(list, len, len + 1) PROVE FALSE  OBVIOUS
  <2>1. len \in 1..len /\ len + 1 \in len..len + 1 /\ len \in len..len + 1  OBVIOUS
  <2>2. list[len].range = eq.range /\ eq.range # Scalar
    BY <2>1 DEF OneRange, eq
  <2>3. InGroup(g, L[len]) /\ g[L[len][1]].range = list[len].range /\ L[len][1] = N
    BY <2>1 DEF Placed
  <2>4. g # <<>> /\ g[N].range = eq.range  BY <2>2, <2>3 DEF InGroup
  <2>5. last = g[N].range  BY <2>2, <2>4 DEF Placed
  <2> QED  BY <2>2, <2>4, <2>5 DEF eq
<1>9. Put(list, len, g, h, x)
  BY <1>2, <1>4, <1>5, <1>6, <1>7, <1>8 DEF Put, eq
<1>10. h[Len(h)].range # Scalar => new = h[Len(h)].range  BY <1>2 DEF eq
<1> HIDE DEF x, N
<1>11. \E M : Placed(list, h, new, len + 1, M)
  BY <1>4, <1>9, <1>10, PlacedPut
<1> QED  BY <1>2, <1>11 DEF h, eq

(* or puts it into the body of the last one. *)
LEMMA PlacedMerge ==
  ASSUME NEW list \in Seq(Written), NEW len \in Nat, len + 1 \in DOMAIN list,
         Len(list[len + 1].body) = 1,
         NEW g \in Seq(Written), NEW last, NEW L, Placed(list, g, last, len, L),
         g # <<>>, g[Len(g)].range # Scalar, list[len + 1].range = last
  PROVE  LET h == [g EXCEPT ![Len(g)] = merged(@, list[len + 1])]
         IN  h \in Seq(Written) /\ \E M : Placed(list, h, last, len + 1, M)
<1> DEFINE N == Len(g)
           eq == list[len + 1]
           old == g[N].body
           h == [g EXCEPT ![N] = merged(@, eq)]
           x == <<N, Len(old) + 1>>
           A == [var : Accesses, uses : SUBSET Accesses]
<1>1. /\ N \in Nat /\ N \in DOMAIN g /\ DOMAIN g = 1..N
      /\ g[N] \in Written /\ eq \in Written
  <2> HIDE DEF Written
  <2> QED  OBVIOUS
<1>2. /\ old \in Seq(A) /\ eq.body \in Seq(A) /\ Len(eq.body) = 1
      /\ g[N].range \in Ranges \cup (Int \X Int)
  BY <1>1 DEF Written
<1>3. last = g[N].range  BY DEF Placed
<1> DEFINE both == old \o eq.body
           new == [range |-> g[N].range, body |-> both]
<1>4. merged(g[N], eq) = new  BY DEF merged
<1> HIDE DEF eq, old, A
<1>5. /\ both \in Seq(A) /\ DOMAIN both = 1..Len(old) + 1 /\ Len(old) \in Nat
      /\ DOMAIN old = 1..Len(old) /\ DOMAIN eq.body = 1..1
      /\ both[Len(old) + 1] = eq.body[1]
      /\ \A j \in DOMAIN old : both[j] = old[j]
  BY <1>2, ConcatOne
<1> HIDE DEF both
<1>6. new \in Written /\ new.range = g[N].range /\ new.body = both
  BY <1>2, <1>5 DEF Written, A
<1> HIDE DEF new
<1>7. /\ h = [k \in 1..N |-> IF k = N THEN new ELSE g[k]]
  BY <1>1, <1>4
<1> HIDE DEF h
<1>8. h \in Seq(Written) /\ Len(h) = N /\ DOMAIN h = 1..N
      /\ h[N] = new /\ \A k \in DOMAIN g : k # N => h[k] = g[k]
  <2> HIDE DEF Written, N
  <2>1. \A k \in 1..N : h[k] \in Written  BY <1>1, <1>6, <1>7
  <2> QED  BY <1>1, <1>7, <2>1
<1>9. x \in Nat \X Nat /\ x[1] = N /\ x[2] = Len(old) + 1  BY <1>1, <1>5
<1> HIDE DEF x
<1>10. \A k \in DOMAIN g :
         /\ k \in DOMAIN h /\ h[k].range = g[k].range
         /\ \A j \in DOMAIN g[k].body : j \in DOMAIN h[k].body /\ h[k].body[j] = g[k].body[j]
  <2> SUFFICES ASSUME NEW k \in DOMAIN g
               PROVE  /\ k \in DOMAIN h /\ h[k].range = g[k].range
                      /\ \A j \in DOMAIN g[k].body : j \in DOMAIN h[k].body /\ h[k].body[j] = g[k].body[j]
    OBVIOUS
  <2>1. CASE k = N
    <3>1. h[k].body = both /\ h[k].range = g[k].range /\ g[k].body = old /\ k \in DOMAIN h
      BY <1>1, <1>6, <1>8, <2>1 DEF old
    <3>2. \A j \in DOMAIN old : j \in DOMAIN both /\ both[j] = old[j]  BY <1>5
    <3> QED  BY <3>1, <3>2
  <2>2. CASE k # N  BY <1>1, <1>8, <2>2
  <2> QED  BY <2>1, <2>2
<1>11. InGroup(h, x) /\ h[x[1]].range = eq.range /\ h[x[1]].body[x[2]] = eq.body[1]
  <2>1. eq.range = last  BY DEF eq
  <2>2. Len(old) + 1 \in DOMAIN both  BY <1>5
  <2> QED  BY <1>1, <1>3, <1>5, <1>6, <1>8, <1>9, <2>1, <2>2 DEF InGroup
<1>12. ASSUME NEW k \in DOMAIN h, NEW j \in DOMAIN h[k].body
       PROVE  <<k, j>> = x \/ InGroup(g, <<k, j>>)
  <2>1. CASE k = N
    <3>1. j \in 1..Len(old) + 1 /\ g[k].body = old  BY <1>5, <1>6, <1>8, <2>1 DEF old
    <3>2. j = Len(old) + 1 \/ j \in DOMAIN old  BY <3>1, <1>5
    <3> QED  BY <1>1, <2>1, <3>1, <3>2 DEF InGroup, x
  <2>2. CASE k # N  BY <1>1, <1>8, <2>2 DEF InGroup
  <2> QED  BY <2>1, <2>2
<1>13. ASSUME NEW e \in Nat \X Nat, InGroup(g, e) PROVE Lower(e, x)
  <2>1. e[1] \in 1..N /\ (e[1] = N => e[2] \in 1..Len(old))
    BY <1>1, <1>5, <1>13 DEF InGroup, old
  <2> QED  BY <2>1, <1>1, <1>5, <1>9 DEF Lower
<1>14. Put(list, len, g, h, x)
  BY <1>8, <1>9, <1>10, <1>11, <1>12, <1>13 DEF Put, eq
<1>15. h[Len(h)].range # Scalar => last = h[Len(h)].range  BY <1>3, <1>6, <1>8
<1>16. \E M : Placed(list, h, last, len + 1, M)
  BY <1>9, <1>14, <1>15, PlacedPut
<1> QED  BY <1>8, <1>16 DEF h, N, eq

-----------------------------------------------------------------------------
(* The points of the result and of the causal model *)

(* What a point of a list is *)
LEMMA InPoints ==
  ASSUME NEW list, NEW k, NEW c, NEW j
  PROVE  <<k, c, j>> \in Points(list)
           <=> k \in DOMAIN list /\ c \in 1..Steps(list[k].range) /\ j \in DOMAIN list[k].body
<1> HIDE DEF Steps
<1> QED  BY DEF Points

(* A point is a triple. *)
LEMMA PointForm ==
  ASSUME NEW list, NEW p \in Points(list)
  PROVE  p = <<p[1], p[2], p[3]>>
<1> HIDE DEF Steps
<1> QED  BY DEF Points

Finished(m, list, g, last, S, L) ==
  /\ m \in Seq(Equations) /\ list \in Seq(Written) /\ g \in Seq(Written)
  /\ Taken(m, list, Len(m) + 1, S)
  /\ Placed(list, g, last, Len(list), L)

(* What equation n of the list has become in turn c, and what it was *)
Became(L, n, c) == <<L[n][1], c, L[n][2]>>
Was(S, n, c)    == <<S[n][1], c, S[n][2]>>

(* Equation n of the list: its member of the model, and its place in the result *)
LEMMA FinishedFacts ==
  ASSUME NEW m, NEW list, NEW g, NEW last, NEW S, NEW L, Finished(m, list, g, last, S, L),
         NEW n \in DOMAIN list
  PROVE  LET eq == m[S[n][1]]
             j == S[n][2]
         IN  /\ S[n][1] \in DOMAIN m /\ eq \in Equations /\ j \in DOMAIN eq.body
             /\ list[n] = written(eq, j) /\ DOMAIN list[n].body = 1..1
             /\ L[n][1] \in DOMAIN g /\ L[n][2] \in DOMAIN g[L[n][1]].body
             /\ g[L[n][1]].range = written(eq, j).range
             /\ g[L[n][1]].body[L[n][2]] = written(eq, j).body[1]
<1> DEFINE eq == m[S[n][1]]
           j == S[n][2]
<1>1. m \in Seq(Equations) /\ Taken(m, list, Len(m) + 1, S) /\ list \in Seq(Written)
      /\ Placed(list, g, last, Len(list), L)
  BY DEF Finished
<1>2. S[n] \in Pairs(m, Len(m) + 1) /\ list[n] = written(eq, j)  BY <1>1 DEF Taken
<1>3. S[n][1] \in DOMAIN m /\ j \in DOMAIN eq.body  BY <1>2 DEF Pairs
<1>4. eq \in Equations  BY <1>1, <1>3
<1>5. n \in 1..Len(list)  BY <1>1
<1>6. /\ InGroup(g, L[n]) /\ g[L[n][1]].range = list[n].range
      /\ g[L[n][1]].body[L[n][2]] = list[n].body[1]
  BY <1>1, <1>5 DEF Placed
<1>7. DOMAIN list[n].body = 1..1
  <2>1. list[n] \in Written /\ Len(list[n].body) = 1  BY <1>2, <1>3, <1>4, WrittenType
  <2>2. list[n].body \in Seq([var : Accesses, uses : SUBSET Accesses])  BY <2>1 DEF Written
  <2> QED  BY <2>1, <2>2
<1> QED  BY <1>2, <1>3, <1>4, <1>6, <1>7 DEF InGroup

(* Every point of the result, and every point of the model, is one of them. *)
LEMMA EveryPoint ==
  ASSUME NEW m, NEW list, NEW g, NEW last, NEW S, NEW L, Finished(m, list, g, last, S, L)
  PROVE  /\ \A p \in Points(g) : \E n \in DOMAIN list : p = Became(L, n, p[2])
         /\ \A p \in Points(m) : \E n \in DOMAIN list : p = Was(S, n, p[2])
<1>1. m \in Seq(Equations) /\ list \in Seq(Written) /\ Taken(m, list, Len(m) + 1, S)
      /\ Placed(list, g, last, Len(list), L)
  BY DEF Finished
<1>2. DOMAIN list = 1..Len(list) /\ DOMAIN m = 1..Len(m) /\ Len(m) \in Nat
  <2> HIDE DEF Written
  <2> QED  BY <1>1
<1>3. ASSUME NEW p \in Points(g) PROVE \E n \in DOMAIN list : p = Became(L, n, p[2])
  <2>1. p = <<p[1], p[2], p[3]>>  BY PointForm
  <2>2. p[1] \in DOMAIN g /\ p[3] \in DOMAIN g[p[1]].body  BY <2>1, InPoints
  <2>3. PICK n \in 1..Len(list) : L[n] = <<p[1], p[3]>>  BY <1>1, <2>2 DEF Placed
  <2> QED  BY <1>2, <2>1, <2>3 DEF Became
<1>4. ASSUME NEW p \in Points(m) PROVE \E n \in DOMAIN list : p = Was(S, n, p[2])
  <2>1. p = <<p[1], p[2], p[3]>>  BY PointForm
  <2>2. p[1] \in DOMAIN m /\ p[3] \in DOMAIN m[p[1]].body  BY <2>1, InPoints
  <2>3. p[3] \in Nat
    <3>1. m[p[1]] \in Equations  BY <1>1, <2>2
    <3>2. m[p[1]].body \in Seq(Members)  BY <3>1 DEF Equations
    <3> QED  BY <2>2, <3>2
  <2>4. <<p[1], p[3]>> \in Pairs(m, Len(m) + 1)  BY <1>2, <2>2, <2>3 DEF Pairs
  <2>5. PICK n \in DOMAIN list : S[n] = <<p[1], p[3]>>  BY <1>1, <2>4 DEF Taken
  <2> QED  BY <2>1, <2>5 DEF Was
<1> QED  BY <1>3, <1>4

(* Where the range can be turned round, the two points say the same. *)
LEMMA SamePoint ==
  ASSUME NEW m, NEW list, NEW g, NEW last, NEW S, NEW L, Finished(m, list, g, last, S, L),
         NEW n \in DOMAIN list, NEW c,
         IsForEq(m[S[n][1]]) /\ ~isKept(m[S[n][1]].body[S[n][2]]) => m[S[n][1]].range[2] >= -1
  PROVE  /\ Became(L, n, c) \in Points(g) <=> Was(S, n, c) \in Points(m)
         /\ c \in Int => defines(g, Became(L, n, c)) = defines(m, Was(S, n, c))
         /\ c \in Int => reads(g, Became(L, n, c)) = assignedReads(m, Was(S, n, c))
<1> DEFINE eq == m[S[n][1]]
           j == S[n][2]
           w == written(eq, j)
           p == Became(L, n, c)
           q == Was(S, n, c)
<1>1. /\ S[n][1] \in DOMAIN m /\ eq \in Equations /\ j \in DOMAIN eq.body
      /\ L[n][1] \in DOMAIN g /\ L[n][2] \in DOMAIN g[L[n][1]].body
      /\ g[L[n][1]].range = w.range /\ g[L[n][1]].body[L[n][2]] = w.body[1]
  BY FinishedFacts
<1>2. /\ p[1] = L[n][1] /\ p[2] = c /\ p[3] = L[n][2]
      /\ q[1] = S[n][1] /\ q[2] = c /\ q[3] = j
  BY DEF Became, Was
<1>3. IsForEq(eq) /\ ~isKept(eq.body[j]) => eq.range[2] >= -1  OBVIOUS
<1> HIDE DEF eq, j, w
<1>4. Steps(w.range) = Steps(eq.range)  BY <1>1, <1>3, WrittenAt, 1 \in Int DEF w
<1>5. p \in Points(g) <=> c \in 1..Steps(w.range)  BY <1>1, InPoints DEF Became
<1>6. q \in Points(m) <=> c \in 1..Steps(eq.range)  BY <1>1, InPoints DEF Was, eq, j
<1>7. ASSUME c \in Int
      PROVE  /\ defines(g, p) = defines(m, q)
             /\ reads(g, p) = assignedReads(m, q)
  <2>1. /\ At(w.body[1].var, CounterAt(w.range, c)) = At(eq.body[j].var, CounterAt(eq.range, c))
        /\ {At(acc, CounterAt(w.range, c)) : acc \in w.body[1].uses}
             = {At(acc, CounterAt(eq.range, c)) : acc \in assignment(eq.body, j).uses}
    BY <1>1, <1>3, <1>7, WrittenAt DEF w
  <2>2. w.body[1].var = Unmatched <=> eq.body[j].var = Unmatched  BY <1>1, ZeroWritten DEF w
  <2>3. counter(g, p) = CounterAt(w.range, c) /\ counter(m, q) = CounterAt(eq.range, c)
    BY <1>1, <1>2 DEF counter, eq
  <2> HIDE DEF p, q
  <2>4. g[p[1]].body[p[3]] = w.body[1] /\ m[q[1]].body[q[3]] = eq.body[j] /\ m[q[1]] = eq
    BY <1>1, <1>2 DEF eq
  <2>5. defines(g, p) = IF w.body[1].var = Unmatched THEN {} ELSE {At(w.body[1].var, counter(g, p))}
    BY <2>4 DEF defines
  <2>6. defines(m, q) = IF eq.body[j].var = Unmatched THEN {} ELSE {At(eq.body[j].var, counter(m, q))}
    BY <2>4 DEF defines
  <2>7. reads(g, p) = {At(acc, counter(g, p)) : acc \in w.body[1].uses}
    BY <2>4 DEF reads
  <2>8. assignedReads(m, q) = {At(acc, counter(m, q)) : acc \in assignment(eq.body, j).uses}
    BY <1>2, <2>4 DEF assignedReads
  <2> QED  BY <2>1, <2>2, <2>3, <2>5, <2>6, <2>7, <2>8
<1> QED  BY <1>4, <1>5, <1>6, <1>7

(* What defines nothing is the same in both, and is read as a whole. *)
LEMMA ZeroPoint ==
  ASSUME NEW m, NEW list, NEW g, NEW last, NEW S, NEW L, Finished(m, list, g, last, S, L),
         NEW n \in DOMAIN list, NEW c
  PROVE  /\ defines(g, Became(L, n, c)) = {} <=> defines(m, Was(S, n, c)) = {}
         /\ defines(m, Was(S, n, c)) = {} =>
              /\ isKept(m[S[n][1]].body[S[n][2]])
              /\ assignedReads(m, Was(S, n, c)) = reads(m, Was(S, n, c))
<1> DEFINE eq == m[S[n][1]]
           j == S[n][2]
           w == written(eq, j)
           p == Became(L, n, c)
           q == Was(S, n, c)
<1>1. /\ eq \in Equations /\ j \in DOMAIN eq.body
      /\ g[L[n][1]].body[L[n][2]] = w.body[1]
  BY FinishedFacts
<1>2. /\ p[1] = L[n][1] /\ p[3] = L[n][2] /\ q[1] = S[n][1] /\ q[3] = j
  BY DEF Became, Was
<1> HIDE DEF j, w, p, q
<1>3. defines(g, p) = {} <=> w.body[1].var = Unmatched  BY <1>1, <1>2 DEF defines
<1>4. defines(m, q) = {} <=> eq.body[j].var = Unmatched  BY <1>2 DEF defines
<1>5. w.body[1].var = Unmatched <=> eq.body[j].var = Unmatched  BY <1>1, ZeroWritten DEF w
<1>6. ASSUME eq.body[j].var = Unmatched
      PROVE  isKept(eq.body[j]) /\ assignedReads(m, q) = reads(m, q)
  <2>1. eq.body \in Seq(Members)  BY <1>1 DEF Equations
  <2>2. assignment(eq.body, j).uses = eq.body[j].uses  BY <1>1, <1>6, <2>1, AssignmentType
  <2>3. reads(m, q) = {At(acc, counter(m, q)) : acc \in eq.body[j].uses}  BY <1>2 DEF reads
  <2>4. assignedReads(m, q) = {At(acc, counter(m, q)) : acc \in assignment(eq.body, j).uses}
    BY <1>2 DEF assignedReads
  <2>5. isKept(eq.body[j])  BY <1>6, KeptList
  <2> QED  BY <2>2, <2>3, <2>4, <2>5
<1> QED  BY <1>3, <1>4, <1>5, <1>6 DEF j, p, q

-----------------------------------------------------------------------------
(* The inductive invariant *)

SolvingInv ==
  /\ pc.turn \in 1..Len(causal_model) + 1
  /\ grouped = <<>>
  /\ \E S : Taken(causal_model, causalized, pc.turn, S)
  /\ pc.turn \in DOMAIN causal_model =>
       pc.member \in 1..Len(Match.body) + 1 /\ Split(Match.body, lists, pc.member)
  /\ pc.turn \notin DOMAIN causal_model => lists = NoLists

GroupingInv ==
  /\ pc.turn \in 1..Len(causalized) + 1
  /\ \E S : Taken(causal_model, causalized, Len(causal_model) + 1, S)
  /\ \E L : Placed(causalized, grouped, last_range, pc.turn - 1, L)

EInv ==
  /\ causal_model \in Models
  /\ causalized \in Seq(Written) /\ grouped \in Seq(Written)
  /\ pc \in [at : {"solve", "abort", "group", "done"}, turn : Nat, member : Nat]
  /\ pc.at = "solve" => SolvingInv
  /\ pc.at \in {"group", "done"} => GroupingInv
  /\ pc.at = "done" => pc.turn = Len(causalized) + 1

(* Every solved equation has one member. *)
LEMMA TakenBodies ==
  ASSUME NEW m \in Seq(Equations), NEW list, NEW turn, NEW S, Taken(m, list, turn, S),
         NEW n \in DOMAIN list
  PROVE  Len(list[n].body) = 1
<1>1. S[n] \in Pairs(m, turn) /\ list[n] = written(m[S[n][1]], S[n][2])  BY DEF Taken
<1>2. S[n][1] \in DOMAIN m /\ S[n][2] \in DOMAIN m[S[n][1]].body  BY <1>1 DEF Pairs
<1>3. m[S[n][1]] \in Equations  BY <1>2
<1> QED  BY <1>1, <1>2, <1>3, WrittenType

(* It holds at first, *)
LEMMA InitInv == EInit => EInv
<1> SUFFICES ASSUME EInit PROVE EInv  OBVIOUS
<1>1. causal_model \in Models /\ causal_model \in Seq(Equations)  BY DEF EInit
<1>2. /\ lists = NoLists /\ causalized = <<>> /\ grouped = <<>>
      /\ pc = [at |-> "solve", turn |-> 1, member |-> 1]
  BY DEF EInit
<1>3. causalized \in Seq(Written) /\ grouped \in Seq(Written)
  <2> HIDE DEF Written
  <2> QED  BY <1>2
<1>4. \E S : Taken(causal_model, causalized, 1, S)
  <2>1. Pairs(causal_model, 1) = {}
    <3>1. \A k \in DOMAIN causal_model : ~(k < 1)  BY <1>1
    <3> QED  BY <3>1 DEF Pairs
  <2>2. Taken(causal_model, causalized, 1, [n \in {} |-> 1])
    <3>1. DOMAIN causalized = {}  BY <1>2
    <3> QED  BY <2>1, <3>1 DEF Taken
  <2> QED  BY <2>2
<1>5. pc.turn \in DOMAIN causal_model =>
        pc.member \in 1..Len(Match.body) + 1 /\ Split(Match.body, lists, pc.member)
  <2> SUFFICES ASSUME 1 \in DOMAIN causal_model
               PROVE  1 \in 1..Len(causal_model[1].body) + 1 /\ Split(causal_model[1].body, NoLists, 1)
    BY <1>2 DEF Match
  <2>1. causal_model[1] \in Equations  BY <1>1
  <2>2. causal_model[1].body \in Seq(Members)  BY <2>1 DEF Equations
  <2>3. Len(causal_model[1].body) \in Nat  BY <2>2
  <2> QED  BY <2>2, <2>3, SplitStart
<1>6. pc.turn \in 1..Len(causal_model) + 1
  <2>1. Len(causal_model) \in Nat  BY <1>1
  <2> QED  BY <1>2, <2>1
<1> QED  BY <1>1, <1>2, <1>3, <1>4, <1>5, <1>6 DEF EInv, SolvingInv

(* and every step keeps it. *)
LEMMA NextInv == EInv /\ [ENext]_evars => EInv'
<1> SUFFICES ASSUME EInv, [ENext]_evars PROVE EInv'  OBVIOUS
<1> USE DEF EInv
<1>0. /\ causal_model \in Seq(Equations) /\ Len(causal_model) \in Nat
      /\ DOMAIN causal_model = 1..Len(causal_model)
      /\ causalized \in Seq(Written) /\ Len(causalized) \in Nat
      /\ DOMAIN causalized = 1..Len(causalized)
      /\ pc.turn \in Nat /\ pc.member \in Nat
      /\ pc = [at |-> pc.at, turn |-> pc.turn, member |-> pc.member]
  <2> HIDE DEF Written
  <2> QED  OBVIOUS
<1>1. CASE SplitMember
  <2>1. SolvingInv /\ pc.turn \in DOMAIN causal_model  BY <1>1 DEF SplitMember, Solving
  <2>2. Match \in Equations  BY <1>0, <2>1 DEF Match
  <2>3. Match.body \in Seq(Members)  BY <2>2 DEF Equations
  <2>4. pc.member \in DOMAIN Match.body /\ Split(Match.body, lists, pc.member)
    BY <1>1, <2>1 DEF SplitMember, SolvingInv
  <2>5. Split(Match.body, lists', pc.member + 1)
    BY <1>1, <2>3, <2>4, SplitNext DEF SplitMember
  <2>6. pc' = [at |-> pc.at, turn |-> pc.turn, member |-> pc.member + 1] /\ pc.at = "solve"
    BY <1>0, <1>1 DEF SplitMember, Solving
  <2>7. UNCHANGED <<causal_model, causalized, grouped, last_range>> /\ Match' = Match
    BY <1>1, <2>6 DEF SplitMember, Match
  <2>8. pc.member + 1 \in 1..Len(Match.body) + 1
    <3>1. Len(Match.body) \in Nat /\ pc.member \in 1..Len(Match.body)  BY <2>3, <2>4
    <3> QED  BY <3>1
  <2>9. SolvingInv'
    BY <2>1, <2>5, <2>6, <2>7, <2>8 DEF SolvingInv
  <2> HIDE DEF Written
  <2> QED  BY <1>0, <2>6, <2>7, <2>9
<1>2. CASE SolveMatch
  <2>1. SolvingInv /\ pc.turn \in DOMAIN causal_model /\ pc.at = "solve"
    BY <1>2 DEF SolveMatch, Solving
  <2>2. Match \in Equations /\ Match = causal_model[pc.turn]  BY <1>0, <2>1 DEF Match
  <2>3. Match.body \in Seq(Members) /\ Len(Match.body) \in Nat
    <3>1. Match.body \in Seq(Members)  BY <2>2 DEF Equations
    <3> QED  BY <3>1
  <2>4. Split(Match.body, lists, Len(Match.body) + 1)
    <3>1. pc.member \in 1..Len(Match.body) + 1 /\ pc.member > Len(Match.body)
      BY <1>2, <2>1 DEF SolveMatch, SolvingInv
    <3>2. pc.member = Len(Match.body) + 1  BY <3>1, <2>3
    <3> QED  BY <2>1, <3>2 DEF SolvingInv
  <2>5. order = ConcatOf(lists)
    BY DEF order, ConcatOf, guess_eqs, rest_eqs, res_eqs, unmatched_eqs
  <2>6. Sorted(Match.body, order) /\ \A j \in DOMAIN Match.body : \E n \in DOMAIN order : order[n] = j
    BY <2>3, <2>4, <2>5, SplitOrder
  <2>7. PICK S : Taken(causal_model, causalized, pc.turn, S)  BY <2>1 DEF SolvingInv
  <2>8. causalized' \in Seq(Written) /\ \E T : Taken(causal_model, causalized', pc.turn + 1, T)
    <3>1. causalized' = causalized \o [n \in DOMAIN order |-> written(causal_model[pc.turn], order[n])]
      BY <1>2, <2>2 DEF SolveMatch
    <3> HIDE DEF Written, EInv
    <3>2. /\ Sorted(causal_model[pc.turn].body, order)
          /\ \A j \in DOMAIN causal_model[pc.turn].body : \E n \in DOMAIN order : order[n] = j
      BY <2>2, <2>6
    <3> DEFINE o == order
               new == causalized \o [n \in DOMAIN o |-> written(causal_model[pc.turn], o[n])]
    <3> HIDE DEF o
    <3>3. new \in Seq(Written) /\ \E T : Taken(causal_model, new, pc.turn + 1, T)
      BY <1>0, <2>1, <2>7, <3>2, TakenNext DEF o
    <3> QED  BY <3>1, <3>3 DEF o
  <2>9. /\ pc' = [at |-> pc.at, turn |-> pc.turn + 1, member |-> 1] /\ lists' = NoLists
        /\ UNCHANGED <<causal_model, grouped, last_range>>
    BY <1>0, <1>2 DEF SolveMatch
  <2>10. pc'.turn \in DOMAIN causal_model =>
           pc'.member \in 1..Len(Match'.body) + 1 /\ Split(Match'.body, lists', pc'.member)
    <3> SUFFICES ASSUME pc.turn + 1 \in DOMAIN causal_model
                 PROVE  /\ 1 \in 1..Len(causal_model[pc.turn + 1].body) + 1
                        /\ Split(causal_model[pc.turn + 1].body, NoLists, 1)
      BY <2>9 DEF Match
    <3>1. causal_model[pc.turn + 1] \in Equations  BY <1>0
    <3>2. causal_model[pc.turn + 1].body \in Seq(Members)  BY <3>1 DEF Equations
    <3>3. Len(causal_model[pc.turn + 1].body) \in Nat  BY <3>2
    <3> QED  BY <3>2, <3>3, SplitStart
  <2>11. pc.turn + 1 \in 1..Len(causal_model) + 1  BY <1>0, <2>1
  <2>12. SolvingInv'
    BY <2>1, <2>8, <2>9, <2>10, <2>11 DEF SolvingInv
  <2> HIDE DEF Written
  <2> QED  BY <1>0, <2>1, <2>8, <2>9, <2>12
<1>3. CASE CannotSolve
  <2>1. pc' = [at |-> "abort", turn |-> pc.turn, member |-> pc.member]
        /\ UNCHANGED <<causal_model, lists, causalized, grouped, last_range>>
    BY <1>0, <1>3 DEF CannotSolve
  <2> HIDE DEF Written
  <2> QED  BY <1>0, <2>1
<1>4. CASE StartGrouping
  <2>1. SolvingInv /\ pc.turn = Len(causal_model) + 1
    BY <1>0, <1>4 DEF StartGrouping, SolvingInv
  <2>2. pc' = [at |-> "group", turn |-> 1, member |-> pc.member]
        /\ UNCHANGED <<causal_model, lists, causalized, grouped, last_range>>
    BY <1>0, <1>4 DEF StartGrouping
  <2>3. grouped = <<>>  BY <2>1 DEF SolvingInv
  <2>4. Placed(causalized, grouped, last_range, 0, [n \in {} |-> 1])
    <3>1. DOMAIN grouped = {} /\ 1..0 = {}  BY <2>3
    <3> QED  BY <2>3, <3>1 DEF Placed
  <2>5. GroupingInv'
    <3>1. pc'.turn - 1 = 0 /\ pc'.turn \in 1..Len(causalized) + 1  BY <1>0, <2>2
    <3> QED  BY <2>1, <2>2, <2>4, <3>1 DEF GroupingInv, SolvingInv
  <2> HIDE DEF Written
  <2> QED  BY <1>0, <2>2, <2>5
<1>5. CASE GroupEquation
  <2> DEFINE len == pc.turn - 1
             eq  == causalized[pc.turn]
  <2>1. GroupingInv /\ pc.turn \in DOMAIN causalized /\ pc.at = "group"
    BY <1>5 DEF GroupEquation
  <2>2. len \in Nat /\ len + 1 = pc.turn /\ pc.turn + 1 - 1 = pc.turn  BY <1>0, <2>1
  <2>3. PICK S : Taken(causal_model, causalized, Len(causal_model) + 1, S)
    BY <2>1 DEF GroupingInv
  <2>4. PICK L : Placed(causalized, grouped, last_range, len, L)
    BY <2>1 DEF GroupingInv
  <2>5. Len(eq.body) = 1  BY <1>0, <2>1, <2>3, TakenBodies
  <2>6. mergeable(eq) <=> /\ eq.range # Scalar /\ grouped # <<>>
                          /\ grouped[Len(grouped)].range # Scalar /\ eq.range = last_range
    BY DEF mergeable, IsForEq, Last
  <2> HIDE DEF len
  <2>7. grouped' \in Seq(Written) /\ \E M : Placed(causalized, grouped', last_range', pc.turn, M)
    <3>1. CASE mergeable(eq)
      <4>1. /\ grouped' = [grouped EXCEPT ![Len(grouped)] = merged(@, causalized[len + 1])]
            /\ last_range' = last_range
        BY <1>5, <2>2, <3>1 DEF GroupEquation
      <4> DEFINE h == [grouped EXCEPT ![Len(grouped)] = merged(@, causalized[len + 1])]
      <4>2. /\ grouped # <<>> /\ grouped[Len(grouped)].range # Scalar
            /\ causalized[len + 1].range = last_range /\ len + 1 \in DOMAIN causalized
            /\ Len(causalized[len + 1].body) = 1 /\ grouped \in Seq(Written)
        BY <2>1, <2>2, <2>5, <2>6, <3>1
      <4> HIDE DEF Written, EInv, eq
      <4>3. h \in Seq(Written) /\ \E M : Placed(causalized, h, last_range, len + 1, M)
        BY <1>0, <2>2, <2>4, <4>2, PlacedMerge
      <4> QED  BY <2>2, <4>1, <4>3
    <3>2. CASE ~mergeable(eq)
      <4>1. /\ grouped' = Append(grouped, causalized[len + 1])
            /\ eq.range # Scalar => last_range' = eq.range
        BY <1>5, <2>2, <3>2 DEF GroupEquation, IsForEq
      <4> DEFINE h == Append(grouped, causalized[len + 1])
      <4>2. /\ ~(/\ causalized[len + 1].range # Scalar /\ grouped # <<>>
                /\ grouped[Len(grouped)].range # Scalar /\ causalized[len + 1].range = last_range)
            /\ causalized[len + 1].range # Scalar => last_range' = causalized[len + 1].range
            /\ len + 1 \in DOMAIN causalized
            /\ Len(causalized[len + 1].body) = 1 /\ grouped \in Seq(Written)
        BY <2>1, <2>2, <2>5, <2>6, <3>2, <4>1
      <4> HIDE DEF Written, EInv, eq
      <4>3. h \in Seq(Written) /\ \E M : Placed(causalized, h, last_range', len + 1, M)
        BY <1>0, <2>2, <2>4, <4>2, PlacedAppend
      <4> QED  BY <2>2, <4>1, <4>3
    <3> QED  BY <3>1, <3>2
  <2>8. pc' = [at |-> pc.at, turn |-> pc.turn + 1, member |-> pc.member]
        /\ UNCHANGED <<causal_model, lists, causalized>>
    BY <1>0, <1>5 DEF GroupEquation
  <2>9. GroupingInv'
    <3>1. pc'.turn = pc.turn + 1 /\ pc'.turn - 1 = pc.turn /\ pc'.turn \in 1..Len(causalized) + 1
      BY <1>0, <2>1, <2>8
    <3> QED  BY <2>3, <2>7, <2>8, <3>1 DEF GroupingInv
  <2> HIDE DEF Written
  <2> QED  BY <1>0, <2>1, <2>7, <2>8, <2>9
<1>6. CASE Return
  <2>1. GroupingInv /\ pc.turn = Len(causalized) + 1
    BY <1>0, <1>6 DEF Return, GroupingInv
  <2>2. pc' = [at |-> "done", turn |-> pc.turn, member |-> pc.member]
        /\ UNCHANGED <<causal_model, lists, causalized, grouped, last_range>>
    BY <1>0, <1>6 DEF Return
  <2>3. GroupingInv'  BY <2>1, <2>2 DEF GroupingInv
  <2> HIDE DEF Written
  <2> QED  BY <1>0, <2>1, <2>2, <2>3
<1>7. CASE UNCHANGED evars
  <2> HIDE DEF Written
  <2> QED  BY <1>7 DEF evars, SolvingInv, GroupingInv, Match
<1> QED  BY <1>1, <1>2, <1>3, <1>4, <1>5, <1>6, <1>7 DEF ENext

(***************************************************************************)
(* While Solve runs, the members of the matches that were solved are the   *)
(* equations of causalized, each once, and in the order of the four lists; *)
(* while groupForEquations runs, what it has seen has a place in grouped,  *)
(* in the same order, under its own range, and neighbours of one range are *)
(* in one loop.                                                            *)
(***************************************************************************)
THEOREM Invariance == ESpec => []EInv
<1>1. EInit => EInv  BY InitInv
<1>2. EInv /\ [ENext]_evars => EInv'  BY NextInv
<1> QED  BY <1>1, <1>2, PTL DEF ESpec

-----------------------------------------------------------------------------
(* What is finished keeps zeros, unknowns and the order. *)

(* Zeros are kept whatever the ranges are: what is kept is not turned. *)
LEMMA FinishedZeros ==
  ASSUME NEW m, NEW list, NEW g, NEW last, NEW S, NEW L, Finished(m, list, g, last, S, L)
  PROVE  Zeros(g) = Zeros(m)
<1>1. ASSUME NEW n \in DOMAIN list, NEW c \in Int
      PROVE  /\ defines(g, Became(L, n, c)) = {} <=> defines(m, Was(S, n, c)) = {}
             /\ defines(m, Was(S, n, c)) = {} =>
                  /\ Became(L, n, c) \in Points(g) <=> Was(S, n, c) \in Points(m)
                  /\ reads(g, Became(L, n, c)) = reads(m, Was(S, n, c))
  BY ZeroPoint, SamePoint
<1>2. \A list2 : \A p \in Points(list2) : p[2] \in Int
  <2> SUFFICES ASSUME NEW list2, NEW p \in Points(list2) PROVE p[2] \in Int  OBVIOUS
  <2>1. <<p[1], p[2], p[3]>> \in Points(list2)  BY PointForm
  <2>2. p[2] \in 1..Steps(list2[p[1]].range)  BY <2>1, InPoints
  <2> QED  BY <2>2
<1>3. ASSUME NEW p \in Points(g), defines(g, p) = {}
      PROVE  \E q \in Points(m) : defines(m, q) = {} /\ reads(m, q) = reads(g, p)
  <2>1. PICK n \in DOMAIN list : p = Became(L, n, p[2])  BY EveryPoint
  <2>2. p[2] \in Int  BY <1>2
  <2> QED  BY <1>1, <1>3, <2>1, <2>2
<1>4. ASSUME NEW p \in Points(m), defines(m, p) = {}
      PROVE  \E q \in Points(g) : defines(g, q) = {} /\ reads(g, q) = reads(m, p)
  <2>1. PICK n \in DOMAIN list : p = Was(S, n, p[2])  BY EveryPoint
  <2>2. p[2] \in Int  BY <1>2
  <2> QED  BY <1>1, <1>4, <2>1, <2>2
<1> HIDE DEF defines, reads, Points
<1>5. Zeros(g) \subseteq Zeros(m)  BY <1>3 DEF Zeros
<1>6. Zeros(m) \subseteq Zeros(g)  BY <1>4 DEF Zeros
<1> QED  BY <1>5, <1>6

(* The equation and the turn of a point *)
LEMMA PointTurn ==
  ASSUME NEW list, NEW p \in Points(list)
  PROVE  p[1] \in DOMAIN list /\ p[2] \in Int /\ p[2] \in 1..Steps(list[p[1]].range)
<1>1. <<p[1], p[2], p[3]>> \in Points(list)  BY PointForm
<1>2. p[1] \in DOMAIN list /\ p[2] \in 1..Steps(list[p[1]].range)  BY <1>1, InPoints
<1> QED  BY <1>2

(* SamePoint for every equation and turn *)
LEMMA SamePoints ==
  ASSUME NEW m, NEW list, NEW g, NEW last, NEW S, NEW L, Finished(m, list, g, last, S, L),
         TurnsByOne(m), NEW n \in DOMAIN list, NEW c \in Int
  PROVE  /\ Became(L, n, c) \in Points(g) <=> Was(S, n, c) \in Points(m)
         /\ defines(g, Became(L, n, c)) = defines(m, Was(S, n, c))
         /\ reads(g, Became(L, n, c)) = assignedReads(m, Was(S, n, c))
<1>1. S[n][1] \in DOMAIN m  BY FinishedFacts
<1>2. IsForEq(m[S[n][1]]) => m[S[n][1]].range[2] >= -1  BY <1>1 DEF TurnsByOne
<1> QED  BY <1>2, SamePoint

(* The members are in their order, *)
LEMMA InTheirOrder ==
  ASSUME NEW m, NEW list, NEW g, NEW last, NEW S, NEW L, Finished(m, list, g, last, S, L),
         NEW n1 \in DOMAIN list, NEW n2 \in DOMAIN list
  PROVE  /\ n1 \in Nat
         /\ n1 < n2 => Ahead(m, S[n1], S[n2]) /\ Lower(L[n1], L[n2])
         /\ Ahead(m, S[n1], S[n2]) => n1 < n2
         /\ S[n1] = S[n2] => n1 = n2
<1>1. list \in Seq(Written) /\ Taken(m, list, Len(m) + 1, S) /\ Placed(list, g, last, Len(list), L)
      /\ m \in Seq(Equations)
  BY DEF Finished
<1>2. DOMAIN list = 1..Len(list) /\ n1 \in Nat /\ n2 \in Nat
  <2> HIDE DEF Written
  <2> QED  BY <1>1
<1>3. \A i1, i2 \in DOMAIN list : i1 < i2 => Ahead(m, S[i1], S[i2]) /\ Lower(L[i1], L[i2])
  BY <1>1, <1>2 DEF Taken, Placed
<1>4. \A i \in DOMAIN list : S[i] \in Nat \X Nat  BY <1>1 DEF Taken, Pairs
<1>5. ~(Ahead(m, S[n1], S[n2]) /\ Ahead(m, S[n2], S[n1]))
  <2>1. S[n1] \in Nat \X Nat /\ S[n2] \in Nat \X Nat  BY <1>4
  <2>2. \A s : listOf(s) \in Int  BY ListOfType
  <2> QED  BY <2>1, <2>2 DEF Ahead, Earlier
<1>6. ~Ahead(m, S[n1], S[n1])
  <2>1. S[n1] \in Nat \X Nat  BY <1>4
  <2>2. \A s : listOf(s) \in Int  BY ListOfType
  <2> QED  BY <2>1, <2>2 DEF Ahead, Earlier
<1>7. n1 = n2 \/ n1 < n2 \/ n2 < n1  BY <1>2
<1> HIDE DEF Ahead
<1> QED  BY <1>2, <1>3, <1>5, <1>6, <1>7

(* and with one point for each, no unknown is defined twice. *)
LEMMA FinishedUnknowns ==
  ASSUME NEW m, NEW list, NEW g, NEW last, NEW S, NEW L, Finished(m, list, g, last, S, L),
         TurnsByOne(m), Unambiguous(m)
  PROVE  Unknowns(g) = Unknowns(m) /\ Unambiguous(g)
<1>1. ASSUME NEW p \in Points(g)
      PROVE  \E n \in DOMAIN list : /\ p = Became(L, n, p[2]) /\ Was(S, n, p[2]) \in Points(m)
                                    /\ defines(g, p) = defines(m, Was(S, n, p[2]))
  <2>1. PICK n \in DOMAIN list : p = Became(L, n, p[2])  BY EveryPoint
  <2>2. p[2] \in Int  BY PointTurn
  <2>3. /\ Became(L, n, p[2]) \in Points(g) <=> Was(S, n, p[2]) \in Points(m)
        /\ defines(g, Became(L, n, p[2])) = defines(m, Was(S, n, p[2]))
    BY <2>2, SamePoints
  <2> QED  BY <2>1, <2>3
<1>2. ASSUME NEW p \in Points(m)
      PROVE  \E q \in Points(g) : defines(g, q) = defines(m, p)
  <2>1. PICK n \in DOMAIN list : p = Was(S, n, p[2])  BY EveryPoint
  <2>2. p[2] \in Int  BY PointTurn
  <2>3. /\ Became(L, n, p[2]) \in Points(g) <=> Was(S, n, p[2]) \in Points(m)
        /\ defines(g, Became(L, n, p[2])) = defines(m, Was(S, n, p[2]))
    BY <2>2, SamePoints
  <2> QED  BY <2>1, <2>3
<1> HIDE DEF defines, Points
<1>3. Unknowns(g) = Unknowns(m)
  <2>1. Unknowns(g) \subseteq Unknowns(m)  BY <1>1 DEF Unknowns
  <2>2. Unknowns(m) \subseteq Unknowns(g)  BY <1>2 DEF Unknowns
  <2> QED  BY <2>1, <2>2
<1>4. ASSUME NEW p \in Points(g), NEW q \in Points(g), defines(g, p) \cap defines(g, q) # {}
      PROVE  p = q
  <2>1. PICK n1 \in DOMAIN list : /\ p = Became(L, n1, p[2]) /\ Was(S, n1, p[2]) \in Points(m)
                                  /\ defines(g, p) = defines(m, Was(S, n1, p[2]))
    BY <1>1
  <2>2. PICK n2 \in DOMAIN list : /\ q = Became(L, n2, q[2]) /\ Was(S, n2, q[2]) \in Points(m)
                                  /\ defines(g, q) = defines(m, Was(S, n2, q[2]))
    BY <1>1
  <2>3. Was(S, n1, p[2]) = Was(S, n2, q[2])  BY <1>4, <2>1, <2>2 DEF Unambiguous
  <2>4. p[2] = q[2] /\ S[n1][1] = S[n2][1] /\ S[n1][2] = S[n2][2]  BY <2>3 DEF Was
  <2>5. S[n1] = S[n2]
    <3>1. S[n1] \in Nat \X Nat /\ S[n2] \in Nat \X Nat  BY DEF Finished, Taken, Pairs
    <3> QED  BY <2>4, <3>1
  <2>6. n1 = n2  BY <2>5, InTheirOrder
  <2> QED  BY <2>1, <2>2, <2>4, <2>6
<1> QED  BY <1>3, <1>4 DEF Unambiguous

(* and between two members of a match that are written with one range, all are. *)
LEMMA OneRangeBetween ==
  ASSUME NEW m, NEW list, NEW g, NEW last, NEW S, NEW L, Finished(m, list, g, last, S, L),
         NEW n1 \in DOMAIN list, NEW n2 \in DOMAIN list, n1 < n2,
         S[n1][1] = S[n2][1], m[S[n1][1]].range # Scalar, list[n1].range = list[n2].range,
         m[S[n2][1]].body[S[n2][2]].var # Unmatched
  PROVE  OneRange(list, n1, n2)
<1> DEFINE eq == m[S[n1][1]]
           lo(i) == listOf(eq.body[S[i][2]])
           kept(i) == isKept(eq.body[S[i][2]])
<1>1. \A i \in DOMAIN list : lo(i) \in 1..4 /\ (kept(i) <=> lo(i) = 1 \/ lo(i) = 4)
  BY ListOfType, KeptList
<1>2. lo(n2) # 4  BY KeptList
<1>3. DOMAIN list = 1..Len(list) /\ Len(list) \in Nat /\ \A i \in DOMAIN list : S[i] \in Nat \X Nat
  <2> HIDE DEF Written
  <2> QED  BY DEF Finished, Taken, Pairs
<1>4. ASSUME NEW i \in n1..n2
      PROVE  i \in DOMAIN list /\ S[i][1] = S[n1][1] /\ lo(n1) <= lo(i) /\ lo(i) <= lo(n2)
  <2>1. i \in DOMAIN list  BY <1>3
  <2>2. (n1 < i => Ahead(m, S[n1], S[i])) /\ (i < n2 => Ahead(m, S[i], S[n2]))
    BY <2>1, InTheirOrder
  <2>3. i = n1 \/ n1 < i  BY <1>3
  <2>4. i = n2 \/ i < n2  BY <1>3
  <2>5. S[i][1] \in Nat /\ S[n1][1] \in Nat  BY <1>3, <2>1
  <2>6. S[n1][1] <= S[i][1] /\ S[i][1] <= S[n1][1]
    BY <2>2, <2>3, <2>4, <2>5 DEF Ahead
  <2>7. S[i][1] = S[n1][1]  BY <2>5, <2>6
  <2>8. lo(n1) \in Int /\ lo(i) \in Int /\ lo(n2) \in Int  BY <1>1, <2>1
  <2>9. (n1 < i => Earlier(eq.body, S[n1][2], S[i][2])) /\ (i < n2 => Earlier(eq.body, S[i][2], S[n2][2]))
    BY <2>2, <2>5, <2>7 DEF Ahead
  <2>10. lo(n1) <= lo(i) /\ lo(i) <= lo(n2)
    BY <2>3, <2>4, <2>8, <2>9 DEF Earlier
  <2> QED  BY <2>1, <2>7, <2>10
<1>5. eq \in Equations /\ eq.range \in Ranges
  <2>1. eq \in Equations  BY FinishedFacts
  <2> QED  BY <2>1 DEF Equations
<1>6. eq.range \in Int \X Int \X Int  BY <1>5 DEF Ranges
<1>7. ASSUME NEW i \in DOMAIN list, S[i][1] = S[n1][1]
      PROVE  list[i].range = IF ~kept(i) /\ eq.range[2] < 0 THEN <<eq.range[3], eq.range[1]>> ELSE eq.range
  <2>1. list[i] = written(eq, S[i][2])  BY <1>7, FinishedFacts
  <2> QED  BY <2>1 DEF written, updateForEquationRange, Single, IsForEq
<1>8. <<eq.range[3], eq.range[1]>> # eq.range /\ <<eq.range[3], eq.range[1]>> # Scalar
  <2>1. eq.range = <<eq.range[1], eq.range[2], eq.range[3]>>  BY <1>6
  <2> QED  BY <2>1 DEF Scalar
<1> HIDE DEF eq, lo, kept
<1>9. ASSUME NEW i \in n1..n2 PROVE list[i].range = list[n1].range
  <2>1. i \in DOMAIN list /\ S[i][1] = S[n1][1] /\ lo(n1) <= lo(i) /\ lo(i) <= lo(n2)
    BY <1>4
  <2>2. /\ list[i].range = IF ~kept(i) /\ eq.range[2] < 0 THEN <<eq.range[3], eq.range[1]>> ELSE eq.range
        /\ list[n1].range = IF ~kept(n1) /\ eq.range[2] < 0 THEN <<eq.range[3], eq.range[1]>> ELSE eq.range
        /\ list[n2].range = IF ~kept(n2) /\ eq.range[2] < 0 THEN <<eq.range[3], eq.range[1]>> ELSE eq.range
    BY <1>7, <2>1
  <2>3. eq.range[2] < 0 => (kept(n1) <=> kept(n2))  BY <1>8, <2>2
  <2>4. (kept(n1) <=> kept(n2)) => (kept(i) <=> kept(n1))
    <3>1. lo(n1) \in 1..4 /\ lo(i) \in 1..4 /\ lo(n2) \in 1..4
          /\ (kept(n1) <=> lo(n1) = 1 \/ lo(n1) = 4)
          /\ (kept(i) <=> lo(i) = 1 \/ lo(i) = 4)
          /\ (kept(n2) <=> lo(n2) = 1 \/ lo(n2) = 4)
      BY <1>1, <2>1
    <3>2. lo(n2) # 4  BY <1>2
    <3> QED  BY <2>1, <3>1, <3>2
  <2> QED  BY <2>2, <2>3, <2>4
<1>10. list[n1].range # Scalar  BY <1>7, <1>8 DEF eq
<1> QED  BY <1>9, <1>10 DEF OneRange

(* What is behind in the model comes before in the result. *)
LEMMA BehindBefore ==
  ASSUME NEW m, NEW list, NEW g, NEW last, NEW S, NEW L, Finished(m, list, g, last, S, L),
         TurnsByOne(m),
         NEW n \in DOMAIN list, NEW c \in Int, Was(S, n, c) \in Points(m),
         NEW n2 \in DOMAIN list, NEW c2 \in Int, Was(S, n2, c2) \in Points(m),
         defines(m, Was(S, n2, c2)) # {}, Behind(m, Was(S, n2, c2), Was(S, n, c))
  PROVE  Before(Became(L, n2, c2), Became(L, n, c))
<1> DEFINE k == S[n][1]  k2 == S[n2][1]
<1>1. /\ k \in DOMAIN m /\ m[k] \in Equations /\ S[n][2] \in DOMAIN m[k].body
      /\ list[n] = written(m[k], S[n][2])
      /\ L[n][1] \in DOMAIN g /\ g[L[n][1]].range = list[n].range
  BY FinishedFacts
<1>2. /\ k2 \in DOMAIN m /\ m[k2] \in Equations /\ S[n2][2] \in DOMAIN m[k2].body
      /\ list[n2] = written(m[k2], S[n2][2])
      /\ L[n2][1] \in DOMAIN g /\ g[L[n2][1]].range = list[n2].range
  BY FinishedFacts
<1>3. L[n][1] \in Int /\ L[n][2] \in Int /\ L[n2][1] \in Int /\ L[n2][2] \in Int
  <2>1. list \in Seq(Written) /\ L \in [1..Len(list) -> Nat \X Nat]  BY DEF Finished, Placed
  <2>2. n \in 1..Len(list) /\ n2 \in 1..Len(list)
    <3> HIDE DEF Written
    <3> QED  BY <2>1
  <2> QED  BY <2>1, <2>2
<1>4. k \in Int /\ k2 \in Int
  <2>1. m \in Seq(Equations)  BY DEF Finished
  <2> HIDE DEF k, k2
  <2> QED  BY <1>1, <1>2, <2>1
<1>5. ASSUME L[n2][1] = L[n][1] PROVE m[k2].range = m[k].range
  <2>1. written(m[k2], S[n2][2]).range = written(m[k], S[n][2]).range  BY <1>1, <1>2, <1>5
  <2>2. (IsForEq(m[k]) => m[k].range[2] >= -1) /\ (IsForEq(m[k2]) => m[k2].range[2] >= -1)
    BY <1>1, <1>2 DEF TurnsByOne
  <2> HIDE DEF k, k2
  <2> QED  BY <1>1, <1>2, <2>1, <2>2, WrittenRange
<1>6. ASSUME n2 < n, m[k2].range = m[k].range => c2 <= c
      PROVE  Before(Became(L, n2, c2), Became(L, n, c))
  <2>1. Lower(L[n2], L[n])  BY <1>6, InTheirOrder
  <2>2. L[n2][1] < L[n][1] \/ (L[n2][1] = L[n][1] /\ L[n2][2] < L[n][2] /\ c2 <= c)
    BY <1>5, <1>6, <2>1 DEF Lower
  <2> QED  BY <1>3, <2>2 DEF Before, Became
<1>7. \/ k2 < k /\ (m[k2].range = m[k].range => c2 <= c)
      \/ /\ k2 = k /\ c2 <= c
         /\ \/ Earlier(m[k].body, S[n2][2], S[n][2])
            \/ c2 < c /\ list[n2].range = list[n].range
  <2> HIDE DEF Earlier, written
  <2> QED  BY <1>1, <1>2 DEF Behind, Was
<1>8. CASE k2 < k /\ (m[k2].range = m[k].range => c2 <= c)
  <2>1. n2 < n  BY <1>8, InTheirOrder DEF Ahead
  <2> QED  BY <1>6, <1>8, <2>1
<1>9. CASE k2 = k /\ c2 <= c /\ Earlier(m[k].body, S[n2][2], S[n][2])
  <2>1. n2 < n  BY <1>9, InTheirOrder DEF Ahead
  <2> QED  BY <1>6, <1>9, <2>1
<1>10. CASE k2 = k /\ c2 < c /\ list[n2].range = list[n].range
  <2>1. m[k].range # Scalar
    <3>1. c2 \in 1..Steps(m[k].range) /\ c \in 1..Steps(m[k].range)
      BY <1>10, PointTurn DEF Was
    <3>2. Steps(Scalar) = 1  BY DEF Steps
    <3> HIDE DEF k
    <3> QED  BY <1>10, <3>1, <3>2
  <2>2. CASE n2 < n  BY <1>6, <1>10, <2>2
  <2>3. CASE n2 = n  BY <1>3, <1>10, <2>3 DEF Before, Became
  <2>4. CASE n < n2
    <3>1. m[k2].body[S[n2][2]].var # Unmatched  BY DEF defines, Was
    <3>2. OneRange(list, n, n2)  BY <1>10, <2>1, <2>4, <3>1, OneRangeBetween
    <3>3. L[n][1] = L[n2][1]
      <4>1. list \in Seq(Written) /\ Placed(list, g, last, Len(list), L)  BY DEF Finished
      <4>2. n \in 1..Len(list) /\ n2 \in 1..Len(list) /\ n <= n2
        <5> HIDE DEF Written
        <5> QED  BY <2>4, <4>1
      <4> QED  BY <3>2, <4>1, <4>2 DEF Placed
    <3> QED  BY <1>3, <1>10, <3>3 DEF Before, Became
  <2>5. n2 < n \/ n2 = n \/ n < n2
    <3>1. n \in Nat /\ n2 \in Nat  BY InTheirOrder
    <3> QED  BY <3>1
  <2> QED  BY <2>2, <2>3, <2>4, <2>5
<1> QED  BY <1>7, <1>8, <1>9, <1>10

(* Nothing is read before it is defined. *)
LEMMA FinishedOrder ==
  ASSUME NEW m, NEW list, NEW g, NEW last, NEW S, NEW L, Finished(m, list, g, last, S, L),
         TurnsByOne(m), ReadsBehind(m)
  PROVE  InOrder(g, Unknowns(m))
<1> SUFFICES ASSUME NEW p \in Points(g), NEW u \in reads(g, p) \cap Unknowns(m)
             PROVE  \E q \in Points(g) : Before(q, p) /\ u \in defines(g, q)
  BY DEF InOrder
<1>1. PICK n \in DOMAIN list : p = Became(L, n, p[2])  BY EveryPoint
<1> DEFINE c == p[2]
<1>2. c \in Int  BY PointTurn
<1>3. Was(S, n, c) \in Points(m) /\ u \in assignedReads(m, Was(S, n, c))
  <2>1. /\ Became(L, n, c) \in Points(g) <=> Was(S, n, c) \in Points(m)
        /\ reads(g, Became(L, n, c)) = assignedReads(m, Was(S, n, c))
    BY <1>2, SamePoints
  <2> QED  BY <1>1, <2>1
<1>4. PICK r \in Points(m) : Behind(m, r, Was(S, n, c)) /\ u \in defines(m, r)
  <2> HIDE DEF Points, Behind, defines, assignedReads
  <2> QED  BY <1>3 DEF ReadsBehind
<1>5. PICK n2 \in DOMAIN list : r = Was(S, n2, r[2])  BY EveryPoint
<1> DEFINE c2 == r[2]
<1>6. c2 \in Int  BY PointTurn
<1>7. /\ Became(L, n2, c2) \in Points(g) <=> Was(S, n2, c2) \in Points(m)
      /\ defines(g, Became(L, n2, c2)) = defines(m, Was(S, n2, c2))
  BY <1>6, SamePoints
<1>8. Before(Became(L, n2, c2), Became(L, n, c))
  <2>1. /\ Was(S, n2, c2) \in Points(m) /\ defines(m, Was(S, n2, c2)) # {}
        /\ Behind(m, Was(S, n2, c2), Was(S, n, c))
    BY <1>4, <1>5
  <2> HIDE DEF c, c2
  <2> QED  BY <1>2, <1>3, <1>6, <2>1, BehindBefore
<1> QED  BY <1>1, <1>4, <1>5, <1>7, <1>8

-----------------------------------------------------------------------------
(* When Solve returns, every equation has been taken, and placed. *)
LEMMA DoneFinished ==
  EInv /\ pc.at = "done" =>
    \E S, L : Finished(causal_model, causalized, grouped, last_range, S, L)
<1> SUFFICES ASSUME EInv, pc.at = "done"
             PROVE  \E S, L : Finished(causal_model, causalized, grouped, last_range, S, L)
  OBVIOUS
<1>1. GroupingInv /\ pc.turn = Len(causalized) + 1 /\ causal_model \in Seq(Equations)
      /\ causalized \in Seq(Written) /\ grouped \in Seq(Written)
  BY DEF EInv
<1>2. pc.turn - 1 = Len(causalized)
  <2>1. Len(causalized) \in Nat
    <3> HIDE DEF Written
    <3> QED  BY <1>1
  <2> QED  BY <1>1, <2>1
<1>3. PICK S : Taken(causal_model, causalized, Len(causal_model) + 1, S)
  BY <1>1 DEF GroupingInv
<1>4. PICK L : Placed(causalized, grouped, last_range, Len(causalized), L)
  BY <1>1, <1>2 DEF GroupingInv
<1> QED  BY <1>1, <1>3, <1>4 DEF Finished

(* Splitting, turning and grouping keep what is checked to be zero (ZerosKept), whatever
   the causal model is. *)
THEOREM ZerosAreKept == ESpec => []ZerosKept
<1>1. EInv => ZerosKept
  BY DoneFinished, FinishedZeros DEF ZerosKept
<1> QED  BY <1>1, Invariance, PTL

(* A causal model in which no unknown is matched twice, and whose descending loops go
   down by one, is solved for every unknown once (EachUnknownOnce). *)
THEOREM UnknownsOnce ==
  ASSUME \A model \in Models : TurnsByOne(model) /\ Unambiguous(model)
  PROVE  ESpec => []EachUnknownOnce
<1>1. EInv => EachUnknownOnce
  <2> SUFFICES ASSUME EInv, pc.at = "done"
               PROVE  Unknowns(grouped) = Unknowns(causal_model) /\ Unambiguous(grouped)
    BY DEF EachUnknownOnce
  <2>1. PICK S, L : Finished(causal_model, causalized, grouped, last_range, S, L)
    BY DoneFinished
  <2>2. causal_model \in Models  BY DEF EInv
  <2> QED  BY <2>1, <2>2, FinishedUnknowns
<1> QED  BY <1>1, Invariance, PTL

(* If, besides, every read is of something that is behind also when loops of one range
   are run turn by turn, nothing is read before it is defined (OrderKept). *)
THEOREM OrderIsKept ==
  ASSUME \A model \in Models : TurnsByOne(model) /\ ReadsBehind(model)
  PROVE  ESpec => []OrderKept
<1>1. EInv => OrderKept
  <2> SUFFICES ASSUME EInv, pc.at = "done"
               PROVE  InOrder(grouped, Unknowns(causal_model))
    BY DEF OrderKept
  <2>1. PICK S, L : Finished(causal_model, causalized, grouped, last_range, S, L)
    BY DoneFinished
  <2>2. causal_model \in Models  BY DEF EInv
  <2> QED  BY <2>1, <2>2, FinishedOrder
<1> QED  BY <1>1, Invariance, PTL
=============================================================================
