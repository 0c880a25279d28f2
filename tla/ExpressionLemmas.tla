---------------------------- MODULE ExpressionLemmas ----------------------------
(***************************************************************************)
(* What the visitors of Expressions return, for expressions of any size.   *)
(* Expressions are the least set that is closed under the constructors, so *)
(* that a set of expressions that contains an expression whenever it       *)
(* contains its parts is the set of all of them.  This is the form in      *)
(* which induction is used here.                                           *)
(***************************************************************************)
EXTENDS Expressions, TLAPS

Refs == [kind : {"Reference"}, name : Names, sub : Subscripts]

(* The elseif branches over G; none when the models have none. *)
Branches(G, elseifs) == IF elseifs THEN Seq([cond : G, then : G]) ELSE {<<>>}

ClosedUnder(G, elseifs) ==
  /\ \A v \in Int : Number(v) \in G
  /\ Refs \subseteq G
  /\ \A d \in G : Neg(d) \in G /\ Der(d) \in G /\ Parens(d) \in G
  /\ \A op \in {"Add", "Sub"}, l, r \in G : BinOp(op, l, r) \in G
  /\ \A c, t, d \in G, branches \in Branches(G, elseifs) : IfExp(c, t, branches, d) \in G

(* E is the set of the expressions. *)
IsExpressionSet(E, elseifs) ==
  /\ ClosedUnder(E, elseifs)
  /\ \A G \in SUBSET E : ClosedUnder(G, elseifs) => G = E

(* The visitors do on each node of E what is said of it in Expressions. *)
Visitors(E) ==
  \A e \in E :
    /\ references(e) = referencesBy(references, e)
    /\ evalNames(e) = evalNamesBy(evalNames, e)
    /\ derNames(e) = derNamesBy(derNames, e)
    /\ PartialEval(e) = partialEvalBy(PartialEval, e)
    /\ \A look \in Refs, rep \in E, ign \in BOOLEAN :
         ReplaceExpression(look, rep, ign, e) = replaceBy(ReplaceExpression, look, rep, ign, e)
    /\ \A s, i : Value(e, s, i) = valueBy(Value, e, s, i)

-----------------------------------------------------------------------------
(* Each visitor at each constructor *)

LEMMA Closed ==
  ASSUME NEW E, NEW elseifs \in BOOLEAN, IsExpressionSet(E, elseifs)
  PROVE  /\ \A v \in Int : Number(v) \in E
         /\ Refs \subseteq E
         /\ \A d \in E : Neg(d) \in E /\ Der(d) \in E /\ Parens(d) \in E
         /\ \A op \in {"Add", "Sub"}, l, r \in E : BinOp(op, l, r) \in E
         /\ \A c, t, d \in E, branches \in Branches(E, elseifs) : IfExp(c, t, branches, d) \in E
  BY DEF IsExpressionSet, ClosedUnder

(* The parts of a node *)
LEMMA NodeParts ==
  /\ \A v : Number(v).kind = "Number" /\ Number(v).val = v
  /\ \A r \in Refs : r.kind = "Reference"
  /\ \A d : Neg(d).kind = "Minus" /\ Neg(d).exp = d
  /\ \A d : Der(d).kind = "der" /\ Der(d).exp = d
  /\ \A d : Parens(d).kind = "Output" /\ Parens(d).exp = d
  /\ \A op, l, r : BinOp(op, l, r).kind = op /\ BinOp(op, l, r).left = l /\ BinOp(op, l, r).right = r
  /\ \A c, t, b, d : /\ IfExp(c, t, b, d).kind = "IfExp" /\ IfExp(c, t, b, d).cond = c
                     /\ IfExp(c, t, b, d).then = t /\ IfExp(c, t, b, d).elseif = b
                     /\ IfExp(c, t, b, d).elseexp = d
  BY DEF Number, Refs, Neg, Der, Parens, BinOp, IfExp

LEMMA ReferencesAt ==
  ASSUME NEW E, NEW elseifs \in BOOLEAN, IsExpressionSet(E, elseifs), Visitors(E)
  PROVE  /\ \A v \in Int : references(Number(v)) = {}
         /\ \A r \in Refs : references(r) = {r}
         /\ \A d \in E : /\ references(Neg(d)) = references(d)
                         /\ references(Der(d)) = references(d)
                         /\ references(Parens(d)) = references(d)
         /\ \A op \in {"Add", "Sub"}, l, r \in E :
              references(BinOp(op, l, r)) = references(l) \cup references(r)
         /\ \A c, t, d \in E, branches \in Branches(E, elseifs) :
              references(IfExp(c, t, branches, d)) =
                references(c) \cup references(t) \cup references(d)
                  \cup UNION {references(branches[k].cond) \cup references(branches[k].then)
                                : k \in DOMAIN branches}
<1>0. ASSUME NEW e \in E
      PROVE  /\ e.kind = "Number" => references(e) = {}
             /\ e.kind = "Reference" => references(e) = {e}
             /\ e.kind \in {"Minus", "der", "Output"} => references(e) = references(e.exp)
             /\ e.kind \in {"Add", "Sub"} => references(e) = references(e.left) \cup references(e.right)
             /\ e.kind = "IfExp" => references(e) =
                  references(e.cond) \cup references(e.then) \cup references(e.elseexp)
                  \cup UNION {references(e.elseif[k].cond) \cup references(e.elseif[k].then)
                                : k \in DOMAIN e.elseif}
  <2>1. references(e) = referencesBy(references, e)
    BY DEF Visitors
  <2> QED
    BY <2>1 DEF referencesBy, IsBinOp
<1>1. ASSUME NEW v \in Int PROVE references(Number(v)) = {}
  BY <1>0, Closed, NodeParts
<1>2. ASSUME NEW r \in Refs PROVE references(r) = {r}
  BY <1>0, Closed, NodeParts
<1>3. ASSUME NEW d \in E
      PROVE  /\ references(Neg(d)) = references(d)
             /\ references(Der(d)) = references(d)
             /\ references(Parens(d)) = references(d)
  <2>1. Neg(d) \in E /\ Der(d) \in E /\ Parens(d) \in E
    BY Closed
  <2> QED
    BY <1>0, <2>1, NodeParts
<1>6. ASSUME NEW op \in {"Add", "Sub"}, NEW l \in E, NEW r \in E
      PROVE  references(BinOp(op, l, r)) = references(l) \cup references(r)
  <2>1. BinOp(op, l, r) \in E
    BY Closed
  <2> QED
    BY <1>0, <2>1, NodeParts
<1>7. ASSUME NEW c \in E, NEW t \in E, NEW d \in E, NEW branches \in Branches(E, elseifs)
      PROVE  references(IfExp(c, t, branches, d)) =
               references(c) \cup references(t) \cup references(d)
                 \cup UNION {references(branches[k].cond) \cup references(branches[k].then)
                               : k \in DOMAIN branches}
  <2>1. IfExp(c, t, branches, d) \in E
    BY Closed
  <2> QED
    BY <1>0, <2>1, NodeParts
<1> QED
  BY <1>1, <1>2, <1>3, <1>6, <1>7

LEMMA NamesAt ==
  ASSUME NEW E, NEW elseifs \in BOOLEAN, IsExpressionSet(E, elseifs), Visitors(E)
  PROVE  /\ \A v \in Int : evalNames(Number(v)) = {} /\ derNames(Number(v)) = {}
         /\ \A r \in Refs : evalNames(r) = {r.name} /\ derNames(r) = {}
         /\ \A d \in E : /\ evalNames(Neg(d)) = evalNames(d) /\ derNames(Neg(d)) = derNames(d)
                         /\ evalNames(Der(d)) = evalNames(d) /\ derNames(Der(d)) = refNames(d)
                         /\ evalNames(Parens(d)) = evalNames(d) /\ derNames(Parens(d)) = derNames(d)
         /\ \A op \in {"Add", "Sub"}, l, r \in E :
              /\ evalNames(BinOp(op, l, r)) = evalNames(l) \cup evalNames(r)
              /\ derNames(BinOp(op, l, r)) = derNames(l) \cup derNames(r)
         /\ \A c, t, d \in E, branches \in Branches(E, elseifs) :
              /\ evalNames(IfExp(c, t, branches, d)) = {}
              /\ derNames(IfExp(c, t, branches, d)) = derNames(c) \cup derNames(t) \cup derNames(d)
<1>0. ASSUME NEW e \in E
      PROVE  /\ e.kind \in {"Number", "IfExp"} => evalNames(e) = {}
             /\ e.kind = "Reference" => evalNames(e) = {e.name}
             /\ e.kind \in {"Minus", "der", "Output"} => evalNames(e) = evalNames(e.exp)
             /\ e.kind \in {"Add", "Sub"} => evalNames(e) = evalNames(e.left) \cup evalNames(e.right)
  <2>1. evalNames(e) = evalNamesBy(evalNames, e)
    BY DEF Visitors
  <2> QED
    BY <2>1 DEF evalNamesBy, IsBinOp
<1>1. ASSUME NEW e \in E
      PROVE  /\ e.kind \in {"Number", "Reference"} => derNames(e) = {}
             /\ e.kind = "der" => derNames(e) = refNames(e.exp)
             /\ e.kind \in {"Minus", "Output"} => derNames(e) = derNames(e.exp)
             /\ e.kind \in {"Add", "Sub"} => derNames(e) = derNames(e.left) \cup derNames(e.right)
             /\ e.kind = "IfExp" =>
                  derNames(e) = derNames(e.cond) \cup derNames(e.then) \cup derNames(e.elseexp)
  <2>1. derNames(e) = derNamesBy(derNames, e)
    BY DEF Visitors
  <2> QED
    BY <2>1 DEF derNamesBy, IsBinOp
<1>2. ASSUME NEW v \in Int PROVE evalNames(Number(v)) = {} /\ derNames(Number(v)) = {}
  BY <1>0, <1>1, Closed, NodeParts
<1>3. ASSUME NEW r \in Refs PROVE evalNames(r) = {r.name} /\ derNames(r) = {}
  BY <1>0, <1>1, Closed, NodeParts
<1>4. ASSUME NEW d \in E
      PROVE  /\ evalNames(Neg(d)) = evalNames(d) /\ derNames(Neg(d)) = derNames(d)
             /\ evalNames(Der(d)) = evalNames(d) /\ derNames(Der(d)) = refNames(d)
             /\ evalNames(Parens(d)) = evalNames(d) /\ derNames(Parens(d)) = derNames(d)
  <2>1. Neg(d) \in E /\ Der(d) \in E /\ Parens(d) \in E
    BY Closed
  <2> QED
    BY <1>0, <1>1, <2>1, NodeParts
<1>5. ASSUME NEW op \in {"Add", "Sub"}, NEW l \in E, NEW r \in E
      PROVE  /\ evalNames(BinOp(op, l, r)) = evalNames(l) \cup evalNames(r)
             /\ derNames(BinOp(op, l, r)) = derNames(l) \cup derNames(r)
  <2>1. BinOp(op, l, r) \in E
    BY Closed
  <2> QED
    BY <1>0, <1>1, <2>1, NodeParts
<1>6. ASSUME NEW c \in E, NEW t \in E, NEW d \in E, NEW branches \in Branches(E, elseifs)
      PROVE  /\ evalNames(IfExp(c, t, branches, d)) = {}
             /\ derNames(IfExp(c, t, branches, d)) = derNames(c) \cup derNames(t) \cup derNames(d)
  <2>1. IfExp(c, t, branches, d) \in E
    BY Closed
  <2> QED
    BY <1>0, <1>1, <2>1, NodeParts
<1> QED
  BY <1>2, <1>3, <1>4, <1>5, <1>6

LEMMA PartialEvalAt ==
  ASSUME NEW E, NEW elseifs \in BOOLEAN, IsExpressionSet(E, elseifs), Visitors(E)
  PROVE  /\ \A v \in Int : PartialEval(Number(v)) = IF v < 0 THEN Parens(Number(v)) ELSE Number(v)
         /\ \A r \in Refs : PartialEval(r) = r
         /\ \A d \in E : /\ PartialEval(Neg(d)) = evalMinus(PartialEval(d))
                         /\ PartialEval(Der(d)) = Der(PartialEval(d))
                         /\ PartialEval(Parens(d)) =
                              IF Is("Number", d) THEN d
                              ELSE IF Is("Minus", d) THEN PartialEval(d) ELSE Parens(PartialEval(d))
         /\ \A op \in {"Add", "Sub"}, l, r \in E :
              PartialEval(BinOp(op, l, r)) = evalBinOp(op, PartialEval(l), PartialEval(r))
         /\ \A c, t, d \in E, branches \in Branches(E, elseifs) :
              PartialEval(IfExp(c, t, branches, d)) = IfExp(c, t, branches, d)
<1>0. ASSUME NEW e \in E
      PROVE  /\ e.kind = "Number" => PartialEval(e) = IF e.val < 0 THEN Parens(e) ELSE e
             /\ e.kind \in {"Reference", "IfExp"} => PartialEval(e) = e
             /\ e.kind = "Output" => PartialEval(e) =
                  IF Is("Number", e.exp) THEN e.exp
                  ELSE IF Is("Minus", e.exp) THEN PartialEval(e.exp) ELSE Parens(PartialEval(e.exp))
             /\ e.kind = "der" => PartialEval(e) = Der(PartialEval(e.exp))
             /\ e.kind = "Minus" => PartialEval(e) = evalMinus(PartialEval(e.exp))
             /\ e.kind \in {"Add", "Sub"} =>
                  PartialEval(e) = evalBinOp(e.kind, PartialEval(e.left), PartialEval(e.right))
  <2>1. PartialEval(e) = partialEvalBy(PartialEval, e)
    BY DEF Visitors
  <2> QED
    BY <2>1 DEF partialEvalBy, IsBinOp
<1>2. ASSUME NEW v \in Int
      PROVE  PartialEval(Number(v)) = IF v < 0 THEN Parens(Number(v)) ELSE Number(v)
  BY <1>0, Closed, NodeParts
<1>3. ASSUME NEW r \in Refs PROVE PartialEval(r) = r
  BY <1>0, Closed, NodeParts
<1>4. ASSUME NEW d \in E
      PROVE  /\ PartialEval(Neg(d)) = evalMinus(PartialEval(d))
             /\ PartialEval(Der(d)) = Der(PartialEval(d))
             /\ PartialEval(Parens(d)) =
                  IF Is("Number", d) THEN d
                  ELSE IF Is("Minus", d) THEN PartialEval(d) ELSE Parens(PartialEval(d))
  <2>1. Neg(d) \in E /\ Der(d) \in E /\ Parens(d) \in E
    BY Closed
  <2>2. PartialEval(Neg(d)) = evalMinus(PartialEval(d)) /\ PartialEval(Der(d)) = Der(PartialEval(d))
    BY <1>0, <2>1, NodeParts
  <2>3. PartialEval(Parens(d)) =
          IF Is("Number", d) THEN d
          ELSE IF Is("Minus", d) THEN PartialEval(d) ELSE Parens(PartialEval(d))
    BY <1>0, <2>1, NodeParts
  <2> QED
    BY <2>2, <2>3
<1>5. ASSUME NEW op \in {"Add", "Sub"}, NEW l \in E, NEW r \in E
      PROVE  PartialEval(BinOp(op, l, r)) = evalBinOp(op, PartialEval(l), PartialEval(r))
  <2>1. BinOp(op, l, r) \in E
    BY Closed
  <2> QED
    BY <1>0, <2>1, NodeParts
<1>6. ASSUME NEW c \in E, NEW t \in E, NEW d \in E, NEW branches \in Branches(E, elseifs)
      PROVE  PartialEval(IfExp(c, t, branches, d)) = IfExp(c, t, branches, d)
  <2>1. IfExp(c, t, branches, d) \in E
    BY Closed
  <2> QED
    BY <1>0, <2>1, NodeParts
<1> QED
  BY <1>2, <1>3, <1>4, <1>5, <1>6

LEMMA ReplacementAt ==
  ASSUME NEW E, NEW elseifs \in BOOLEAN, IsExpressionSet(E, elseifs), Visitors(E),
         NEW look \in Refs, NEW rep \in E, NEW ign \in BOOLEAN
  PROVE  LET R(e) == ReplaceExpression(look, rep, ign, e)
         IN  /\ \A v \in Int : R(Number(v)) = Number(v)
             /\ \A r \in Refs : R(r) = IF r = look THEN rep ELSE renameReference(look, rep, ign, r)
             /\ \A d \in E : R(Neg(d)) = Neg(R(d)) /\ R(Der(d)) = Der(R(d)) /\ R(Parens(d)) = Parens(R(d))
             /\ \A op \in {"Add", "Sub"}, l, r \in E : R(BinOp(op, l, r)) = BinOp(op, R(l), R(r))
             /\ \A c, t, d \in E, branches \in Branches(E, elseifs) :
                  R(IfExp(c, t, branches, d)) = IfExp(R(c), R(t), <<>>, R(d))
<1> DEFINE R(e) == ReplaceExpression(look, rep, ign, e)
<1>a. look.kind = "Reference"
  BY NodeParts
<1>0. ASSUME NEW e \in E
      PROVE  /\ e.kind = "Number" => R(e) = e
             /\ e.kind = "Reference" =>
                  R(e) = IF e = look THEN rep ELSE renameReference(look, rep, ign, e)
             /\ e.kind = "Minus" => R(e) = Neg(R(e.exp))
             /\ e.kind = "der" => R(e) = Der(R(e.exp))
             /\ e.kind = "Output" => R(e) = Parens(R(e.exp))
             /\ e.kind \in {"Add", "Sub"} => R(e) = BinOp(e.kind, R(e.left), R(e.right))
             /\ e.kind = "IfExp" => R(e) = IfExp(R(e.cond), R(e.then), <<>>, R(e.elseexp))
  <2>1. R(e) = replaceBy(ReplaceExpression, look, rep, ign, e)
    BY DEF Visitors
  <2> QED
    BY <2>1, <1>a DEF replaceBy, IsBinOp
<1> HIDE DEF R
<1>2. ASSUME NEW v \in Int PROVE R(Number(v)) = Number(v)
  BY <1>0, Closed, NodeParts
<1>3. ASSUME NEW r \in Refs
      PROVE  R(r) = IF r = look THEN rep ELSE renameReference(look, rep, ign, r)
  BY <1>0, Closed, NodeParts
<1>4. ASSUME NEW d \in E
      PROVE  R(Neg(d)) = Neg(R(d)) /\ R(Der(d)) = Der(R(d)) /\ R(Parens(d)) = Parens(R(d))
  <2>1. Neg(d) \in E /\ Der(d) \in E /\ Parens(d) \in E
    BY Closed
  <2> QED
    BY <1>0, <2>1, NodeParts
<1>5. ASSUME NEW op \in {"Add", "Sub"}, NEW l \in E, NEW r \in E
      PROVE  R(BinOp(op, l, r)) = BinOp(op, R(l), R(r))
  <2>1. BinOp(op, l, r) \in E
    BY Closed
  <2> QED
    BY <1>0, <2>1, NodeParts
<1>6. ASSUME NEW c \in E, NEW t \in E, NEW d \in E, NEW branches \in Branches(E, elseifs)
      PROVE  R(IfExp(c, t, branches, d)) = IfExp(R(c), R(t), <<>>, R(d))
  <2>1. IfExp(c, t, branches, d) \in E
    BY Closed
  <2> QED
    BY <1>0, <2>1, NodeParts
<1> QED
  BY <1>2, <1>3, <1>4, <1>5, <1>6 DEF R

(* The same, one constructor at a time *)

LEMMA AtNumber ==
  ASSUME NEW E, NEW elseifs \in BOOLEAN, IsExpressionSet(E, elseifs), Visitors(E),
         NEW v \in Int
  PROVE  /\ Number(v) \in E
         /\ references(Number(v)) = {} /\ refNames(Number(v)) = {}
         /\ evalNames(Number(v)) = {} /\ derNames(Number(v)) = {}
<1>1. Number(v) \in E
  BY Closed
<1>2. references(Number(v)) = {}
  BY ReferencesAt
<1>3. refNames(Number(v)) = {}
  BY <1>2 DEF refNames
<1>4. evalNames(Number(v)) = {} /\ derNames(Number(v)) = {}
  BY NamesAt
<1> QED
  BY <1>1, <1>2, <1>3, <1>4

LEMMA AtReference ==
  ASSUME NEW E, NEW elseifs \in BOOLEAN, IsExpressionSet(E, elseifs), Visitors(E),
         NEW r \in Refs
  PROVE  /\ r \in E
         /\ references(r) = {r} /\ refNames(r) = {r.name}
         /\ evalNames(r) = {r.name} /\ derNames(r) = {}
<1>1. r \in E
  BY Closed
<1>2. references(r) = {r}
  BY ReferencesAt
<1>3. refNames(r) = {r.name}
  BY <1>2 DEF refNames
<1>4. evalNames(r) = {r.name} /\ derNames(r) = {}
  BY NamesAt
<1> QED
  BY <1>1, <1>2, <1>3, <1>4

LEMMA AtNeg ==
  ASSUME NEW E, NEW elseifs \in BOOLEAN, IsExpressionSet(E, elseifs), Visitors(E),
         NEW d \in E
  PROVE  /\ Neg(d) \in E
         /\ references(Neg(d)) = references(d) /\ refNames(Neg(d)) = refNames(d)
         /\ evalNames(Neg(d)) = evalNames(d) /\ derNames(Neg(d)) = derNames(d)
<1>1. Neg(d) \in E
  BY Closed
<1>2. references(Neg(d)) = references(d)
  BY ReferencesAt
<1>3. refNames(Neg(d)) = refNames(d)
  BY <1>2 DEF refNames
<1>4. evalNames(Neg(d)) = evalNames(d) /\ derNames(Neg(d)) = derNames(d)
  BY NamesAt
<1> QED
  BY <1>1, <1>2, <1>3, <1>4

LEMMA AtDer ==
  ASSUME NEW E, NEW elseifs \in BOOLEAN, IsExpressionSet(E, elseifs), Visitors(E),
         NEW d \in E
  PROVE  /\ Der(d) \in E
         /\ references(Der(d)) = references(d) /\ refNames(Der(d)) = refNames(d)
         /\ evalNames(Der(d)) = evalNames(d) /\ derNames(Der(d)) = refNames(d)
<1>1. Der(d) \in E
  BY Closed
<1>2. references(Der(d)) = references(d)
  BY ReferencesAt
<1>3. refNames(Der(d)) = refNames(d)
  BY <1>2 DEF refNames
<1>4. evalNames(Der(d)) = evalNames(d) /\ derNames(Der(d)) = refNames(d)
  BY NamesAt
<1> QED
  BY <1>1, <1>2, <1>3, <1>4

LEMMA AtParens ==
  ASSUME NEW E, NEW elseifs \in BOOLEAN, IsExpressionSet(E, elseifs), Visitors(E),
         NEW d \in E
  PROVE  /\ Parens(d) \in E
         /\ references(Parens(d)) = references(d) /\ refNames(Parens(d)) = refNames(d)
         /\ evalNames(Parens(d)) = evalNames(d) /\ derNames(Parens(d)) = derNames(d)
<1>1. Parens(d) \in E
  BY Closed
<1>2. references(Parens(d)) = references(d)
  BY ReferencesAt
<1>3. refNames(Parens(d)) = refNames(d)
  BY <1>2 DEF refNames
<1>4. evalNames(Parens(d)) = evalNames(d) /\ derNames(Parens(d)) = derNames(d)
  BY NamesAt
<1> QED
  BY <1>1, <1>2, <1>3, <1>4

LEMMA AtBinOp ==
  ASSUME NEW E, NEW elseifs \in BOOLEAN, IsExpressionSet(E, elseifs), Visitors(E),
         NEW op \in {"Add", "Sub"}, NEW l \in E, NEW r \in E
  PROVE  /\ BinOp(op, l, r) \in E
         /\ references(BinOp(op, l, r)) = references(l) \cup references(r) /\ refNames(BinOp(op, l, r)) = refNames(l) \cup refNames(r)
         /\ evalNames(BinOp(op, l, r)) = evalNames(l) \cup evalNames(r) /\ derNames(BinOp(op, l, r)) = derNames(l) \cup derNames(r)
<1>1. BinOp(op, l, r) \in E
  BY Closed
<1>2. references(BinOp(op, l, r)) = references(l) \cup references(r)
  BY ReferencesAt
<1>3. refNames(BinOp(op, l, r)) = refNames(l) \cup refNames(r)
  BY <1>2 DEF refNames
<1>4. evalNames(BinOp(op, l, r)) = evalNames(l) \cup evalNames(r) /\ derNames(BinOp(op, l, r)) = derNames(l) \cup derNames(r)
  BY NamesAt
<1> QED
  BY <1>1, <1>2, <1>3, <1>4

LEMMA AtIfExp ==
  ASSUME NEW E, NEW elseifs \in BOOLEAN, IsExpressionSet(E, elseifs), Visitors(E),
         NEW c \in E, NEW t \in E, NEW d \in E, NEW branches \in Branches(E, elseifs)
  PROVE  LET e == IfExp(c, t, branches, d)
         IN  /\ e \in E
             /\ references(c) \cup references(t) \cup references(d) \subseteq references(e)
             /\ refNames(c) \cup refNames(t) \cup refNames(d) \subseteq refNames(e)
             /\ evalNames(e) = {} /\ derNames(e) = derNames(c) \cup derNames(t) \cup derNames(d)
<1> DEFINE e == IfExp(c, t, branches, d)
<1>1. e \in E
  BY Closed
<1>2. references(e) = references(c) \cup references(t) \cup references(d)
        \cup UNION {references(branches[k].cond) \cup references(branches[k].then)
                      : k \in DOMAIN branches}
  BY ReferencesAt
<1>3. evalNames(e) = {} /\ derNames(e) = derNames(c) \cup derNames(t) \cup derNames(d)
  BY NamesAt
<1>4. references(c) \cup references(t) \cup references(d) \subseteq references(e)
  BY <1>2
<1> HIDE DEF e
<1>5. refNames(c) \cup refNames(t) \cup refNames(d) \subseteq refNames(e)
  BY <1>4 DEF refNames
<1> QED
  BY <1>1, <1>2, <1>3, <1>4, <1>5 DEF e

LEMMA AtPlainIf ==
  ASSUME NEW E, NEW elseifs \in BOOLEAN, IsExpressionSet(E, elseifs), Visitors(E),
         NEW c \in E, NEW t \in E, NEW d \in E
  PROVE  /\ IfExp(c, t, <<>>, d) \in E /\ <<>> \in Branches(E, elseifs)
         /\ references(IfExp(c, t, <<>>, d)) = references(c) \cup references(t) \cup references(d)
<1>1. <<>> \in Branches(E, elseifs)
  BY DEF Branches
<1>2. DOMAIN <<>> = {}
  OBVIOUS
<1>3. references(IfExp(c, t, <<>>, d)) = references(c) \cup references(t) \cup references(d)
        \cup UNION {references(<<>>[k].cond) \cup references(<<>>[k].then) : k \in DOMAIN <<>>}
  BY <1>1, ReferencesAt
<1> QED
  BY <1>1, <1>2, <1>3, AtIfExp

-----------------------------------------------------------------------------
(* Induction, and the kinds of expressions *)

LEMMA Induction ==
  ASSUME NEW E, NEW elseifs \in BOOLEAN, IsExpressionSet(E, elseifs),
         NEW G \in SUBSET E, ClosedUnder(G, elseifs)
  PROVE  G = E
  BY DEF IsExpressionSet

LEMMA BranchesGrow ==
  ASSUME NEW E, NEW elseifs \in BOOLEAN, NEW G \in SUBSET E
  PROVE  /\ Branches(G, elseifs) \subseteq Branches(E, elseifs)
         /\ \A branches \in Branches(G, elseifs) : \A k \in DOMAIN branches :
              branches[k].cond \in G /\ branches[k].then \in G
<1>1. CASE elseifs = TRUE
  <2> DEFINE S == [cond : G, then : G]
             T == [cond : E, then : E]
  <2>1. Branches(G, elseifs) = Seq(S) /\ Branches(E, elseifs) = Seq(T)
    BY <1>1 DEF Branches
  <2>2. S \subseteq T /\ \A b \in S : b.cond \in G /\ b.then \in G
    OBVIOUS
  <2> HIDE DEF S, T
  <2>3. ASSUME NEW branches \in Seq(S)
        PROVE  branches \in Seq(T) /\ \A k \in DOMAIN branches : branches[k] \in S
    BY <2>2
  <2> QED
    BY <2>1, <2>2, <2>3
<1>2. CASE elseifs = FALSE
  <2>1. Branches(G, elseifs) = {<<>>} /\ Branches(E, elseifs) = {<<>>}
    BY <1>2 DEF Branches
  <2>2. DOMAIN <<>> = {}
    OBVIOUS
  <2> QED
    BY <2>1, <2>2
<1> QED
  BY <1>1, <1>2

LEMMA KindOf ==
  ASSUME NEW E, NEW elseifs \in BOOLEAN, IsExpressionSet(E, elseifs)
  PROVE  \A e \in E :
           /\ e.kind = "Number" => e.val \in Int /\ e = Number(e.val)
           /\ e.kind = "Reference" => e \in Refs
           /\ e.kind = "Minus" => e.exp \in E /\ e = Neg(e.exp)
           /\ e.kind = "der" => e.exp \in E /\ e = Der(e.exp)
           /\ e.kind = "Output" => e.exp \in E /\ e = Parens(e.exp)
           /\ e.kind \in {"Add", "Sub"} =>
                e.left \in E /\ e.right \in E /\ e = BinOp(e.kind, e.left, e.right)
<1> DEFINE P(e) == /\ e.kind = "Number" => e.val \in Int /\ e = Number(e.val)
                   /\ e.kind = "Reference" => e \in Refs
                   /\ e.kind = "Minus" => e.exp \in E /\ e = Neg(e.exp)
                   /\ e.kind = "der" => e.exp \in E /\ e = Der(e.exp)
                   /\ e.kind = "Output" => e.exp \in E /\ e = Parens(e.exp)
                   /\ e.kind \in {"Add", "Sub"} =>
                        e.left \in E /\ e.right \in E /\ e = BinOp(e.kind, e.left, e.right)
           G == {e \in E : P(e)}
<1>1. ASSUME NEW v \in Int PROVE Number(v) \in G
  BY Closed, NodeParts
<1>2. ASSUME NEW r \in Refs PROVE r \in G
  BY Closed, NodeParts
<1>3. ASSUME NEW d \in G PROVE Neg(d) \in G /\ Der(d) \in G /\ Parens(d) \in G
  <2>1. Neg(d) \in E /\ Der(d) \in E /\ Parens(d) \in E
    BY Closed
  <2> QED
    BY <2>1, NodeParts
<1>4. ASSUME NEW op \in {"Add", "Sub"}, NEW l \in G, NEW r \in G PROVE BinOp(op, l, r) \in G
  <2>1. BinOp(op, l, r) \in E
    BY Closed
  <2> QED
    BY <2>1, NodeParts
<1>5. ASSUME NEW c \in G, NEW t \in G, NEW d \in G, NEW branches \in Branches(G, elseifs)
      PROVE  IfExp(c, t, branches, d) \in G
  <2>1. branches \in Branches(E, elseifs)
    BY BranchesGrow
  <2>2. IfExp(c, t, branches, d) \in E
    BY <2>1, Closed
  <2> QED
    BY <2>2, NodeParts
<1>g. G \subseteq E
  OBVIOUS
<1> HIDE DEF G
<1>c. ClosedUnder(G, elseifs)
  BY <1>1, <1>2, <1>3, <1>4, <1>5 DEF ClosedUnder
<1>6. G = E
  BY <1>g, <1>c, Induction
<1> QED
  BY <1>6 DEF G

-----------------------------------------------------------------------------
(* The names that occur *)

LEMMA ReferencesAreRefs ==
  ASSUME NEW E, NEW elseifs \in BOOLEAN, IsExpressionSet(E, elseifs), Visitors(E)
  PROVE  \A e \in E : references(e) \subseteq Refs
<1> DEFINE G == {e \in E : references(e) \subseteq Refs}
<1>1. /\ \A v \in Int : Number(v) \in G
      /\ Refs \subseteq G
  BY AtNumber, AtReference
<1>2. /\ \A d \in G : Neg(d) \in G /\ Der(d) \in G /\ Parens(d) \in G
      /\ \A op \in {"Add", "Sub"}, l, r \in G : BinOp(op, l, r) \in G
  BY AtNeg, AtDer, AtParens, AtBinOp
<1>3. ASSUME NEW c \in G, NEW t \in G, NEW d \in G, NEW branches \in Branches(G, elseifs)
      PROVE  IfExp(c, t, branches, d) \in G
  <2>1. branches \in Branches(E, elseifs)
    BY BranchesGrow
  <2>2. \A k \in DOMAIN branches : branches[k].cond \in G /\ branches[k].then \in G
    BY BranchesGrow
  <2>3. IfExp(c, t, branches, d) \in E
    BY <2>1, Closed
  <2>4. references(IfExp(c, t, branches, d)) =
          references(c) \cup references(t) \cup references(d)
            \cup UNION {references(branches[k].cond) \cup references(branches[k].then)
                          : k \in DOMAIN branches}
    BY <2>1, ReferencesAt
  <2> QED
    BY <2>2, <2>3, <2>4
<1>g. G \subseteq E
  OBVIOUS
<1> HIDE DEF G
<1>c. ClosedUnder(G, elseifs)
  BY <1>1, <1>2, <1>3 DEF ClosedUnder
<1>4. G = E
  BY <1>g, <1>c, Induction
<1> QED
  BY <1>4 DEF G

(* What is looked up while an expression is evaluated, and what is found inside of der,
   occurs in it. *)
LEMMA NamesOccur ==
  ASSUME NEW E, NEW elseifs \in BOOLEAN, IsExpressionSet(E, elseifs), Visitors(E)
  PROVE  \A e \in E : evalNames(e) \cup derNames(e) \subseteq refNames(e)
<1> DEFINE G == {e \in E : evalNames(e) \cup derNames(e) \subseteq refNames(e)}
<1>1. /\ \A v \in Int : Number(v) \in G
      /\ Refs \subseteq G
  BY AtNumber, AtReference
<1>2. ASSUME NEW d \in G PROVE Neg(d) \in G /\ Der(d) \in G /\ Parens(d) \in G
  BY AtNeg, AtDer, AtParens
<1>3. ASSUME NEW op \in {"Add", "Sub"}, NEW l \in G, NEW r \in G PROVE BinOp(op, l, r) \in G
  BY AtBinOp
<1>4. ASSUME NEW c \in G, NEW t \in G, NEW d \in G, NEW branches \in Branches(G, elseifs)
      PROVE  IfExp(c, t, branches, d) \in G
  <2>1. branches \in Branches(E, elseifs)
    BY BranchesGrow
  <2>2. c \in E /\ t \in E /\ d \in E
    OBVIOUS
  <2>3. /\ evalNames(c) \cup derNames(c) \subseteq refNames(c)
        /\ evalNames(t) \cup derNames(t) \subseteq refNames(t)
        /\ evalNames(d) \cup derNames(d) \subseteq refNames(d)
    OBVIOUS
  <2> HIDE DEF G
  <2>4. IfExp(c, t, branches, d) \in E
    BY <2>1, <2>2, AtIfExp
  <2>5. refNames(c) \cup refNames(t) \cup refNames(d) \subseteq refNames(IfExp(c, t, branches, d))
    BY <2>1, <2>2, AtIfExp
  <2>6. evalNames(IfExp(c, t, branches, d)) = {}
    BY <2>1, <2>2, AtIfExp
  <2>7. derNames(IfExp(c, t, branches, d)) = derNames(c) \cup derNames(t) \cup derNames(d)
    BY <2>1, <2>2, AtIfExp
  <2> QED
    BY <2>3, <2>4, <2>5, <2>6, <2>7 DEF G
<1>g. G \subseteq E
  OBVIOUS
<1> HIDE DEF G
<1>c. ClosedUnder(G, elseifs)
  BY <1>1, <1>2, <1>3, <1>4 DEF ClosedUnder
<1>5. G = E
  BY <1>g, <1>c, Induction
<1> QED
  BY <1>5 DEF G

LEMMA EvalBinOpNames ==
  ASSUME NEW E, NEW elseifs \in BOOLEAN, IsExpressionSet(E, elseifs), Visitors(E),
         NEW op \in {"Add", "Sub"}, NEW l \in E, NEW r \in E
  PROVE  /\ evalBinOp(op, l, r) \in E
         /\ references(evalBinOp(op, l, r)) = references(l) \cup references(r)
         /\ derNames(evalBinOp(op, l, r)) = derNames(l) \cup derNames(r)
<1>1. CASE Is("Number", l) /\ Is("Number", r)
  <2>1. l.val \in Int /\ r.val \in Int
    BY <1>1, KindOf DEF Is
  <2>2. PICK v \in Int : evalBinOp(op, l, r) = Number(v)
    BY <1>1, <2>1 DEF evalBinOp
  <2>3. l = Number(l.val) /\ r = Number(r.val)
    BY <1>1, KindOf DEF Is
  <2>4. references(l) = {} /\ references(r) = {} /\ derNames(l) = {} /\ derNames(r) = {}
    BY <2>1, <2>3, AtNumber
  <2> QED
    BY <2>2, <2>4, AtNumber
<1>2. CASE ~(Is("Number", l) /\ Is("Number", r))
  <2>1. \/ evalBinOp(op, l, r) = l /\ r = Number(0)
        \/ evalBinOp(op, l, r) \in {r, Neg(r)} /\ l = Number(0)
        \/ evalBinOp(op, l, r) = BinOp(op, l, r)
    BY <1>2 DEF evalBinOp, isZero
  <2>2. references(Number(0)) = {} /\ derNames(Number(0)) = {}
    BY AtNumber
  <2> QED
    BY <2>1, <2>2, AtNeg, AtBinOp
<1> QED
  BY <1>1, <1>2

LEMMA EvalMinusNames ==
  ASSUME NEW E, NEW elseifs \in BOOLEAN, IsExpressionSet(E, elseifs), Visitors(E), NEW d \in E
  PROVE  /\ evalMinus(d) \in E
         /\ references(evalMinus(d)) = references(d)
         /\ derNames(evalMinus(d)) = derNames(d)
<1>1. CASE Is("Number", d)
  <2>1. d.val \in Int
    BY <1>1, KindOf DEF Is
  <2>2. evalMinus(d) = Number(-d.val)
    BY <1>1 DEF evalMinus, Is, Number
  <2>3. -d.val \in Int /\ d = Number(d.val)
    BY <2>1, <1>1, KindOf DEF Is
  <2>4. references(d) = {} /\ derNames(d) = {}
    BY <2>1, <2>3, AtNumber
  <2> QED
    BY <2>2, <2>3, <2>4, AtNumber
<1>2. CASE Is("Minus", d)
  <2>1. d.exp \in E /\ d = Neg(d.exp)
    BY <1>2, KindOf DEF Is
  <2>2. evalMinus(d) = d.exp
    BY <1>2 DEF evalMinus, Is
  <2>3. references(d) = references(d.exp) /\ derNames(d) = derNames(d.exp)
    BY <2>1, AtNeg
  <2> QED
    BY <2>1, <2>2, <2>3
<1>3. CASE ~Is("Number", d) /\ ~Is("Minus", d)
  <2>1. evalMinus(d) = Neg(d)
    BY <1>3 DEF evalMinus
  <2> QED
    BY <2>1, AtNumber, AtReference, AtNeg, AtDer, AtParens, AtBinOp
<1> QED
  BY <1>1, <1>2, <1>3

(* Partial evaluation keeps the references, and which of them are inside of der. *)
LEMMA PartialEvalNames ==
  ASSUME NEW E, NEW elseifs \in BOOLEAN, IsExpressionSet(E, elseifs), Visitors(E)
  PROVE  \A e \in E : /\ PartialEval(e) \in E
                     /\ references(PartialEval(e)) = references(e)
                     /\ derNames(PartialEval(e)) = derNames(e)
<1> DEFINE P(e) == /\ PartialEval(e) \in E
                   /\ references(PartialEval(e)) = references(e)
                   /\ derNames(PartialEval(e)) = derNames(e)
           G == {e \in E : P(e)}
<1>1. ASSUME NEW v \in Int PROVE Number(v) \in G
  <2>1. PartialEval(Number(v)) \in {Number(v), Parens(Number(v))}
    BY PartialEvalAt
  <2> QED
    BY <2>1, AtNumber, AtReference, AtNeg, AtDer, AtParens, AtBinOp
<1>2. ASSUME NEW r \in Refs PROVE r \in G
  <2>1. PartialEval(r) = r
    BY PartialEvalAt
  <2> QED
    BY <2>1, Closed
<1>3. ASSUME NEW d \in G PROVE Neg(d) \in G
  <2>1. PartialEval(Neg(d)) = evalMinus(PartialEval(d))
    BY PartialEvalAt
  <2>2. references(Neg(d)) = references(d) /\ derNames(Neg(d)) = derNames(d)
    BY AtNeg, AtDer, AtParens, AtBinOp
  <2> QED
    BY <2>1, <2>2, Closed, EvalMinusNames
<1>4. ASSUME NEW d \in G PROVE Der(d) \in G
  <2>1. PartialEval(d) \in E /\ PartialEval(Der(d)) = Der(PartialEval(d))
    BY PartialEvalAt
  <2>2. refNames(PartialEval(d)) = refNames(d)
    BY DEF refNames
  <2> QED
    BY <2>1, <2>2, AtDer
<1>5. ASSUME NEW d \in G PROVE Parens(d) \in G
  <2>1. PartialEval(Parens(d)) \in {d, PartialEval(d), Parens(PartialEval(d))}
    BY PartialEvalAt
  <2> QED
    BY <2>1, AtNumber, AtReference, AtNeg, AtDer, AtParens, AtBinOp
<1>6. ASSUME NEW op \in {"Add", "Sub"}, NEW l \in G, NEW r \in G PROVE BinOp(op, l, r) \in G
  <2>1. PartialEval(BinOp(op, l, r)) = evalBinOp(op, PartialEval(l), PartialEval(r))
    BY PartialEvalAt
  <2>2. /\ references(BinOp(op, l, r)) = references(l) \cup references(r)
        /\ derNames(BinOp(op, l, r)) = derNames(l) \cup derNames(r)
    BY AtNeg, AtDer, AtParens, AtBinOp
  <2>3. P(l) /\ P(r) /\ BinOp(op, l, r) \in E
    BY Closed
  <2>4. P(BinOp(op, l, r))
    BY <2>1, <2>2, <2>3, EvalBinOpNames
  <2> QED
    BY <2>3, <2>4
<1>7. ASSUME NEW c \in G, NEW t \in G, NEW d \in G, NEW branches \in Branches(G, elseifs)
      PROVE  IfExp(c, t, branches, d) \in G
  <2>1. branches \in Branches(E, elseifs)
    BY BranchesGrow
  <2>2. IfExp(c, t, branches, d) \in E
        /\ PartialEval(IfExp(c, t, branches, d)) = IfExp(c, t, branches, d)
    BY <2>1, Closed, PartialEvalAt
  <2> QED
    BY <2>2
<1>g. G \subseteq E
  OBVIOUS
<1> HIDE DEF G
<1>c. ClosedUnder(G, elseifs)
  BY <1>1, <1>2, <1>3, <1>4, <1>5, <1>6, <1>7 DEF ClosedUnder
<1>8. G = E
  BY <1>g, <1>c, Induction
<1> QED
  BY <1>8 DEF G

(* What occurs after a replacement comes from what has become of a reference. *)
LEMMA ReplacementNames ==
  ASSUME NEW E, NEW elseifs \in BOOLEAN, IsExpressionSet(E, elseifs), Visitors(E),
         NEW look \in Refs, NEW rep \in E, NEW ign \in BOOLEAN
  PROVE  \A e \in E :
           /\ ReplaceExpression(look, rep, ign, e) \in E
           /\ references(ReplaceExpression(look, rep, ign, e)) \subseteq
                UNION {references(ReplaceExpression(look, rep, ign, r)) : r \in references(e)}
<1> DEFINE R(e) == ReplaceExpression(look, rep, ign, e)
           From(e) == UNION {references(R(r)) : r \in references(e)}
           P(e) == R(e) \in E /\ references(R(e)) \subseteq From(e)
           G == {e \in E : P(e)}
<1>0. /\ \A v \in Int : R(Number(v)) = Number(v)
      /\ \A r \in Refs : R(r) = IF r = look THEN rep ELSE renameReference(look, rep, ign, r)
      /\ \A d \in E : R(Neg(d)) = Neg(R(d)) /\ R(Der(d)) = Der(R(d)) /\ R(Parens(d)) = Parens(R(d))
      /\ \A op \in {"Add", "Sub"}, l, r \in E : R(BinOp(op, l, r)) = BinOp(op, R(l), R(r))
      /\ \A c, t, d \in E, branches \in Branches(E, elseifs) :
           R(IfExp(c, t, branches, d)) = IfExp(R(c), R(t), <<>>, R(d))
  BY ReplacementAt
<1> HIDE DEF R
<1>a. ASSUME NEW e, NEW d, references(d) \subseteq references(e)
      PROVE  From(d) \subseteq From(e)
  BY <1>a
<1>1. ASSUME NEW v \in Int PROVE Number(v) \in G
  <2>1. R(Number(v)) = Number(v)
    BY <1>0
  <2> QED
    BY <2>1, AtNumber
<1>2. ASSUME NEW r \in Refs PROVE r \in G
  <2>1. R(r) \in E
    <3>1. CASE r = look
      BY <3>1, <1>0
    <3>2. CASE r # look
      <4>1. R(r) = renameReference(look, rep, ign, r)
        BY <3>2, <1>0
      <4>2. renameReference(look, rep, ign, r) \in Refs
        <5>1. Is("Reference", rep) => rep.name \in Names
          BY KindOf DEF Is, Refs
        <5> QED
          BY <5>1 DEF renameReference, Refs
      <4> QED
        BY <4>1, <4>2, Closed
    <3> QED
      BY <3>1, <3>2
  <2>2. references(r) = {r}
    BY ReferencesAt
  <2> QED
    BY <2>1, <2>2, Closed
<1>3. ASSUME NEW d \in G PROVE Neg(d) \in G /\ Der(d) \in G /\ Parens(d) \in G
  <2>1. P(d)
    OBVIOUS
  <2>2. /\ references(Neg(d)) = references(d) /\ references(Der(d)) = references(d)
        /\ references(Parens(d)) = references(d)
    BY ReferencesAt
  <2>3. /\ R(Neg(d)) \in E /\ R(Der(d)) \in E /\ R(Parens(d)) \in E
        /\ references(R(Neg(d))) = references(R(d))
        /\ references(R(Der(d))) = references(R(d))
        /\ references(R(Parens(d))) = references(R(d))
    BY <2>1, <1>0, Closed, ReferencesAt
  <2> QED
    BY <2>1, <2>2, <2>3, Closed
<1>4. ASSUME NEW op \in {"Add", "Sub"}, NEW l \in G, NEW r \in G PROVE BinOp(op, l, r) \in G
  <2>1. P(l) /\ P(r)
    OBVIOUS
  <2>2. references(BinOp(op, l, r)) = references(l) \cup references(r)
    BY ReferencesAt
  <2>3. /\ R(BinOp(op, l, r)) \in E
        /\ references(R(BinOp(op, l, r))) = references(R(l)) \cup references(R(r))
    <3>1. R(BinOp(op, l, r)) = BinOp(op, R(l), R(r))
      BY <1>0
    <3> QED
      BY <2>1, <3>1, AtBinOp
  <2>4. From(l) \subseteq From(BinOp(op, l, r)) /\ From(r) \subseteq From(BinOp(op, l, r))
    BY <2>2, <1>a
  <2> QED
    BY <2>1, <2>3, <2>4, Closed
<1>5. ASSUME NEW c \in G, NEW t \in G, NEW d \in G, NEW branches \in Branches(G, elseifs)
      PROVE  IfExp(c, t, branches, d) \in G
  <2> DEFINE e == IfExp(c, t, branches, d)
  <2>0. branches \in Branches(E, elseifs)
    BY BranchesGrow
  <2>1. P(c) /\ P(t) /\ P(d)
    OBVIOUS
  <2>2. /\ references(c) \subseteq references(e) /\ references(t) \subseteq references(e)
        /\ references(d) \subseteq references(e)
    BY <2>0, ReferencesAt
  <2>3. R(e) = IfExp(R(c), R(t), <<>>, R(d))
    BY <2>0, <1>0
  <2>4. /\ R(e) \in E
        /\ references(R(e)) \subseteq references(R(c)) \cup references(R(t)) \cup references(R(d))
    BY <2>1, <2>3, AtPlainIf
  <2>5. e \in E
    BY <2>0, Closed
  <2>6. From(c) \subseteq From(e) /\ From(t) \subseteq From(e) /\ From(d) \subseteq From(e)
    BY <2>2, <1>a
  <2> QED
    BY <2>1, <2>4, <2>5, <2>6
<1>g. G \subseteq E
  OBVIOUS
<1> HIDE DEF G
<1>c. ClosedUnder(G, elseifs)
  BY <1>1, <1>2, <1>3, <1>4, <1>5 DEF ClosedUnder
<1>6. G = E
  BY <1>g, <1>c, Induction
<1> QED
  BY <1>6 DEF G, R

-----------------------------------------------------------------------------
(***************************************************************************)
(* Values.  Here expressions have no elseif branches.                      *)
(***************************************************************************)
Instants(s) == s = [val |-> s.val, next |-> s.next]
atNext(s) == [val |-> s.next, next |-> s.next]

LEMMA ValueOfKind ==
  ASSUME NEW E, NEW elseifs \in BOOLEAN, IsExpressionSet(E, elseifs), Visitors(E),
         NEW s, Instants(s), NEW i,
         NEW e \in E, e.kind # "IfExp"
  PROVE  /\ e.kind = "Number" => Value(e, s, i) = e.val
         /\ e.kind = "Reference" => Value(e, s, i) = s.val[e.name][Element(e.sub, i)]
         /\ e.kind = "Minus" => Value(e, s, i) = -Value(e.exp, s, i)
         /\ e.kind = "Output" => Value(e, s, i) = Value(e.exp, s, i)
         /\ e.kind = "der" => Value(e, s, i) = Value(e.exp, atNext(s), i) - Value(e.exp, s, i)
         /\ e.kind = "Add" => Value(e, s, i) = Value(e.left, s, i) + Value(e.right, s, i)
         /\ e.kind = "Sub" => Value(e, s, i) = Value(e.left, s, i) - Value(e.right, s, i)
<1>0. [s EXCEPT !.val = s.next] = atNext(s)
  BY DEF Instants, atNext
<1>1. Value(e, s, i) = valueBy(Value, e, s, i)
  BY DEF Visitors
<1>2. CASE e.kind = "der"
  BY <1>1, <1>2, <1>0 DEF valueBy
<1>3. CASE e.kind # "der"
  BY <1>1, <1>3 DEF valueBy
<1> QED
  BY <1>2, <1>3

LEMMA ValueAtNumber ==
  ASSUME NEW E, NEW elseifs \in BOOLEAN, IsExpressionSet(E, elseifs), Visitors(E),
         NEW s, Instants(s), NEW i,
         NEW v \in Int
  PROVE  Value(Number(v), s, i) = v
<1>1. Number(v) \in E /\ Number(v).kind = "Number" /\ Number(v).val = v
  BY Closed, NodeParts
<1> QED
  BY <1>1, ValueOfKind

LEMMA ValueAtReference ==
  ASSUME NEW E, NEW elseifs \in BOOLEAN, IsExpressionSet(E, elseifs), Visitors(E),
         NEW s, Instants(s), NEW i,
         NEW r \in Refs
  PROVE  Value(r, s, i) = s.val[r.name][Element(r.sub, i)]
<1>1. r \in E /\ r.kind = "Reference"
  BY Closed, NodeParts
<1> QED
  BY <1>1, ValueOfKind

LEMMA ValueAtNeg ==
  ASSUME NEW E, NEW elseifs \in BOOLEAN, IsExpressionSet(E, elseifs), Visitors(E),
         NEW s, Instants(s), NEW i,
         NEW d \in E
  PROVE  Value(Neg(d), s, i) = -Value(d, s, i)
<1>1. Neg(d) \in E
  BY Closed
<1> QED
  BY <1>1, ValueOfKind, NodeParts

LEMMA ValueAtParens ==
  ASSUME NEW E, NEW elseifs \in BOOLEAN, IsExpressionSet(E, elseifs), Visitors(E),
         NEW s, Instants(s), NEW i,
         NEW d \in E
  PROVE  Value(Parens(d), s, i) = Value(d, s, i)
<1>1. Parens(d) \in E
  BY Closed
<1> QED
  BY <1>1, ValueOfKind, NodeParts

LEMMA ValueAtDer ==
  ASSUME NEW E, NEW elseifs \in BOOLEAN, IsExpressionSet(E, elseifs), Visitors(E),
         NEW s, Instants(s), NEW i,
         NEW d \in E
  PROVE  Value(Der(d), s, i) = Value(d, atNext(s), i) - Value(d, s, i)
<1>1. Der(d) \in E
  BY Closed
<1> QED
  BY <1>1, ValueOfKind, NodeParts

LEMMA ValueAtBinOp ==
  ASSUME NEW E, NEW elseifs \in BOOLEAN, IsExpressionSet(E, elseifs), Visitors(E),
         NEW s, Instants(s), NEW i,
         NEW l \in E, NEW r \in E
  PROVE  /\ Value(BinOp("Add", l, r), s, i) = Value(l, s, i) + Value(r, s, i)
         /\ Value(BinOp("Sub", l, r), s, i) = Value(l, s, i) - Value(r, s, i)
<1>1. BinOp("Add", l, r) \in E /\ BinOp("Sub", l, r) \in E
  BY Closed
<1> QED
  BY <1>1, ValueOfKind, NodeParts

LEMMA ValueAtIf ==
  ASSUME NEW E, NEW elseifs \in BOOLEAN, IsExpressionSet(E, elseifs), Visitors(E),
         NEW s, Instants(s), NEW i,
         NEW c \in E, NEW t \in E, NEW d \in E
  PROVE  Value(IfExp(c, t, <<>>, d), s, i) =
           IF Value(c, s, i) > 0 THEN Value(t, s, i) ELSE Value(d, s, i)
<1> DEFINE e == IfExp(c, t, <<>>, d)
<1>1. e \in E
  BY AtPlainIf
<1>2. /\ e.kind = "IfExp" /\ e.cond = c /\ e.then = t /\ e.elseexp = d /\ e.elseif = <<>>
  BY NodeParts
<1>3. Value(e, s, i) = valueBy(Value, e, s, i)
  BY <1>1 DEF Visitors
<1> HIDE DEF e
<1>4. SelectInSeq(e.elseif, LAMBDA b : Value(b.cond, s, i) > 0) = 0
  BY <1>2 DEF SelectInSeq
<1> QED
  BY <1>2, <1>3, <1>4 DEF valueBy, e, IsBinOp

(* s gives numbers to what occurs in e, and to what occurs inside of der at both instants. *)
Given(e, s, i) ==
  \A r \in references(e) :
    /\ s.val[r.name][Element(r.sub, i)] \in Int
    /\ r.name \in derNames(e) => s.next[r.name][Element(r.sub, i)] \in Int

LEMMA GivenBelow ==
  ASSUME NEW e, NEW d, references(d) \subseteq references(e), derNames(d) \subseteq derNames(e),
         NEW s, NEW i, Given(e, s, i)
  PROVE  Given(d, s, i)
  BY DEF Given

LEMMA GivenInDer ==
  ASSUME NEW E, NEW elseifs \in BOOLEAN, IsExpressionSet(E, elseifs), Visitors(E),
         NEW d \in E, NEW s, Instants(s), NEW i, Given(Der(d), s, i)
  PROVE  Given(d, s, i) /\ Given(d, atNext(s), i) /\ Instants(atNext(s))
<1>1. references(Der(d)) = references(d) /\ derNames(Der(d)) = refNames(d)
  BY AtDer
<1>2. derNames(d) \subseteq refNames(d)
  BY NamesOccur
<1>3. \A r \in references(d) : r.name \in refNames(d)
  BY DEF refNames
<1> QED
  BY <1>1, <1>2, <1>3 DEF Given, atNext, Instants

LEMMA ValueIsNumber ==
  ASSUME NEW E, NEW elseifs \in BOOLEAN, IsExpressionSet(E, elseifs), Visitors(E),
         Branches(E, elseifs) = {<<>>}
  PROVE  \A e \in E : \A s, i : Instants(s) /\ Given(e, s, i) => Value(e, s, i) \in Int
<1> DEFINE P(e) == \A s, i : Instants(s) /\ Given(e, s, i) => Value(e, s, i) \in Int
           G == {e \in E : P(e)}
<1>1. ASSUME NEW v \in Int PROVE Number(v) \in G
  <2>1. ASSUME NEW s, NEW i, Instants(s) PROVE Value(Number(v), s, i) = v
    BY <2>1, ValueAtNumber
  <2> QED
    BY <2>1, AtNumber
<1>2. ASSUME NEW r \in Refs PROVE r \in G
  <2> SUFFICES ASSUME NEW s, NEW i, Instants(s), Given(r, s, i) PROVE Value(r, s, i) \in Int
    BY AtReference
  <2>1. s.val[r.name][Element(r.sub, i)] \in Int
    BY AtReference DEF Given
  <2>2. Value(r, s, i) = s.val[r.name][Element(r.sub, i)]
    BY ValueAtReference
  <2> QED
    BY <2>1, <2>2
<1>3. ASSUME NEW d \in G PROVE Neg(d) \in G
  <2> SUFFICES ASSUME NEW s, NEW i, Instants(s), Given(Neg(d), s, i) PROVE Value(Neg(d), s, i) \in Int
    BY AtNeg
  <2>1. Given(d, s, i)
    BY AtNeg, GivenBelow
  <2> QED
    BY <2>1, ValueAtNeg
<1>4. ASSUME NEW d \in G PROVE Parens(d) \in G
  <2> SUFFICES ASSUME NEW s, NEW i, Instants(s), Given(Parens(d), s, i)
               PROVE  Value(Parens(d), s, i) \in Int
    BY AtParens
  <2>1. Given(d, s, i)
    BY AtParens, GivenBelow
  <2> QED
    BY <2>1, ValueAtParens
<1>5. ASSUME NEW d \in G PROVE Der(d) \in G
  <2> SUFFICES ASSUME NEW s, NEW i, Instants(s), Given(Der(d), s, i) PROVE Value(Der(d), s, i) \in Int
    BY AtDer
  <2>1. Given(d, s, i) /\ Given(d, atNext(s), i) /\ Instants(atNext(s))
    BY GivenInDer
  <2>2. Value(d, s, i) \in Int /\ Value(d, atNext(s), i) \in Int
    BY <2>1
  <2>3. Value(Der(d), s, i) = Value(d, atNext(s), i) - Value(d, s, i)
    BY ValueAtDer
  <2> QED
    BY <2>2, <2>3
<1>6. ASSUME NEW op \in {"Add", "Sub"}, NEW l \in G, NEW r \in G PROVE BinOp(op, l, r) \in G
  <2> SUFFICES ASSUME NEW s, NEW i, Instants(s), Given(BinOp(op, l, r), s, i)
               PROVE  Value(BinOp(op, l, r), s, i) \in Int
    BY AtBinOp
  <2>0. /\ references(BinOp(op, l, r)) = references(l) \cup references(r)
        /\ derNames(BinOp(op, l, r)) = derNames(l) \cup derNames(r)
    BY AtBinOp
  <2>1. Given(l, s, i) /\ Given(r, s, i)
    BY <2>0, GivenBelow
  <2>2. Value(l, s, i) \in Int /\ Value(r, s, i) \in Int
    BY <2>1
  <2>3. /\ Value(BinOp("Add", l, r), s, i) = Value(l, s, i) + Value(r, s, i)
        /\ Value(BinOp("Sub", l, r), s, i) = Value(l, s, i) - Value(r, s, i)
    BY ValueAtBinOp
  <2> QED
    BY <2>2, <2>3
<1>7. ASSUME NEW c \in G, NEW t \in G, NEW d \in G, NEW branches \in Branches(G, elseifs)
      PROVE  IfExp(c, t, branches, d) \in G
  <2>0. branches = <<>> /\ branches \in Branches(E, elseifs)
    BY BranchesGrow
  <2> SUFFICES ASSUME NEW s, NEW i, Instants(s), Given(IfExp(c, t, <<>>, d), s, i)
               PROVE  Value(IfExp(c, t, <<>>, d), s, i) \in Int
    BY <2>0, AtPlainIf
  <2>1. derNames(IfExp(c, t, <<>>, d)) = derNames(c) \cup derNames(t) \cup derNames(d)
    BY <2>0, AtIfExp
  <2>2. Given(t, s, i) /\ Given(d, s, i)
    BY <2>1, AtPlainIf, GivenBelow
  <2>3. Value(t, s, i) \in Int /\ Value(d, s, i) \in Int
    BY <2>2
  <2>4. Value(IfExp(c, t, <<>>, d), s, i) = IF Value(c, s, i) > 0 THEN Value(t, s, i) ELSE Value(d, s, i)
    BY ValueAtIf
  <2> QED
    BY <2>3, <2>4
<1>g. G \subseteq E
  OBVIOUS
<1> HIDE DEF G
<1>c. ClosedUnder(G, elseifs)
  BY <1>1, <1>2, <1>3, <1>4, <1>5, <1>6, <1>7 DEF ClosedUnder
<1>8. G = E
  BY <1>g, <1>c, Induction
<1> QED
  BY <1>8 DEF G

LEMMA EvalMinusValue ==
  ASSUME NEW E, NEW elseifs \in BOOLEAN, IsExpressionSet(E, elseifs), Visitors(E),
         Branches(E, elseifs) = {<<>>}, NEW s, Instants(s), NEW i,
         NEW d \in E, Given(d, s, i)
  PROVE  Value(evalMinus(d), s, i) = -Value(d, s, i)
<1>1. CASE Is("Number", d)
  <2>1. d.val \in Int /\ -d.val \in Int /\ d = Number(d.val)
    BY <1>1, KindOf DEF Is
  <2>2. evalMinus(d) = Number(-d.val)
    BY <1>1 DEF evalMinus, Is, Number
  <2>3. Value(Number(-d.val), s, i) = -d.val /\ Value(Number(d.val), s, i) = d.val
    BY <2>1, ValueAtNumber
  <2> QED
    BY <2>1, <2>2, <2>3
<1>2. CASE Is("Minus", d)
  <2>1. d.exp \in E /\ d = Neg(d.exp)
    BY <1>2, KindOf DEF Is
  <2>2. evalMinus(d) = d.exp
    BY <1>2 DEF evalMinus, Is
  <2>3. Given(d.exp, s, i)
    BY <2>1, AtNeg, GivenBelow
  <2>4. Value(d.exp, s, i) \in Int
    BY <2>1, <2>3, ValueIsNumber
  <2>5. Value(Neg(d.exp), s, i) = -Value(d.exp, s, i)
    BY <2>1, ValueAtNeg
  <2>6. Value(d, s, i) = -Value(d.exp, s, i)
    BY <2>1, <2>5
  <2> QED
    BY <2>2, <2>4, <2>6
<1>3. CASE ~Is("Number", d) /\ ~Is("Minus", d)
  <2>1. evalMinus(d) = Neg(d)
    BY <1>3 DEF evalMinus
  <2> QED
    BY <2>1, ValueAtNeg
<1> QED
  BY <1>1, <1>2, <1>3

LEMMA EvalBinOpValue ==
  ASSUME NEW E, NEW elseifs \in BOOLEAN, IsExpressionSet(E, elseifs), Visitors(E),
         Branches(E, elseifs) = {<<>>}, NEW s, Instants(s), NEW i,
         NEW op \in {"Add", "Sub"}, NEW l \in E, NEW r \in E, Given(l, s, i), Given(r, s, i)
  PROVE  Value(evalBinOp(op, l, r), s, i) = Value(BinOp(op, l, r), s, i)
<1>0. Value(l, s, i) \in Int /\ Value(r, s, i) \in Int
  BY ValueIsNumber
<1>a. Value(BinOp(op, l, r), s, i) =
        IF op = "Add" THEN Value(l, s, i) + Value(r, s, i) ELSE Value(l, s, i) - Value(r, s, i)
  BY ValueAtBinOp
<1>1. CASE Is("Number", l) /\ Is("Number", r)
  <2>1. l.val \in Int /\ r.val \in Int /\ l = Number(l.val) /\ r = Number(r.val)
    BY <1>1, KindOf DEF Is
  <2>2. Value(Number(l.val), s, i) = l.val /\ Value(Number(r.val), s, i) = r.val
    BY <2>1, ValueAtNumber
  <2> DEFINE n == IF op = "Add" THEN l.val + r.val ELSE l.val - r.val
  <2>3. n \in Int /\ evalBinOp(op, l, r) = Number(n)
    BY <1>1, <2>1 DEF evalBinOp
  <2> HIDE DEF n
  <2>4. Value(Number(n), s, i) = n
    BY <2>3, ValueAtNumber
  <2> QED
    BY <2>1, <2>2, <2>3, <2>4, <1>a DEF n
<1>2. CASE ~(Is("Number", l) /\ Is("Number", r)) /\ r = Number(0)
  <2>0. l # Number(0)
    BY <1>2, NodeParts DEF Is
  <2>1. evalBinOp(op, l, r) = l
    BY <1>2, <2>0 DEF evalBinOp, isZero
  <2>2. Value(r, s, i) = 0
    BY <1>2, ValueAtNumber
  <2> QED
    BY <2>1, <2>2, <1>0, <1>a
<1>3. CASE ~(Is("Number", l) /\ Is("Number", r)) /\ r # Number(0) /\ l = Number(0)
  <2>1. evalBinOp(op, l, r) = IF op = "Add" THEN r ELSE Neg(r)
    BY <1>3 DEF evalBinOp, isZero
  <2>2. Value(l, s, i) = 0
    BY <1>3, ValueAtNumber
  <2>3. Value(Neg(r), s, i) = -Value(r, s, i)
    BY ValueAtNeg
  <2>4. CASE op = "Add"
    BY <2>1, <2>2, <2>4, <1>0, <1>a
  <2>5. CASE op = "Sub"
    BY <2>1, <2>2, <2>3, <2>5, <1>0, <1>a
  <2> QED
    BY <2>4, <2>5
<1>4. CASE ~(Is("Number", l) /\ Is("Number", r)) /\ r # Number(0) /\ l # Number(0)
  <2>1. evalBinOp(op, l, r) = BinOp(op, l, r)
    BY <1>4 DEF evalBinOp, isZero
  <2> QED
    BY <2>1
<1> QED
  BY <1>1, <1>2, <1>3, <1>4

(* PartialEvalExpression keeps the value. *)
LEMMA PartialEvalValue ==
  ASSUME NEW E, NEW elseifs \in BOOLEAN, IsExpressionSet(E, elseifs), Visitors(E),
         Branches(E, elseifs) = {<<>>}
  PROVE  \A e \in E : \A s, i :
           Instants(s) /\ Given(e, s, i) => Value(PartialEval(e), s, i) = Value(e, s, i)
<1> DEFINE P(e) == \A s, i : Instants(s) /\ Given(e, s, i) =>
                               Value(PartialEval(e), s, i) = Value(e, s, i)
           G == {e \in E : P(e)}
<1>0. ASSUME NEW d \in E, NEW s, NEW i, Given(d, s, i)
      PROVE  PartialEval(d) \in E /\ Given(PartialEval(d), s, i)
  BY <1>0, PartialEvalNames, GivenBelow
<1>1. ASSUME NEW v \in Int PROVE Number(v) \in G
  <2> SUFFICES ASSUME NEW s, NEW i, Instants(s)
               PROVE  Value(PartialEval(Number(v)), s, i) = Value(Number(v), s, i)
    BY AtNumber
  <2>1. PartialEval(Number(v)) \in {Number(v), Parens(Number(v))} /\ Number(v) \in E
    BY PartialEvalAt, AtNumber
  <2>2. Value(Parens(Number(v)), s, i) = Value(Number(v), s, i)
    BY <2>1, ValueAtParens
  <2> QED
    BY <2>1, <2>2
<1>2. ASSUME NEW r \in Refs PROVE r \in G
  BY PartialEvalAt, AtReference
<1>3. ASSUME NEW d \in G PROVE Neg(d) \in G
  <2> SUFFICES ASSUME NEW s, NEW i, Instants(s), Given(Neg(d), s, i)
               PROVE  Value(PartialEval(Neg(d)), s, i) = Value(Neg(d), s, i)
    BY AtNeg
  <2>1. Given(d, s, i)
    BY AtNeg, GivenBelow
  <2>2. PartialEval(d) \in E /\ Given(PartialEval(d), s, i) /\ Value(PartialEval(d), s, i) = Value(d, s, i)
    BY <2>1, <1>0
  <2>3. PartialEval(Neg(d)) = evalMinus(PartialEval(d))
    BY PartialEvalAt
  <2>4. Value(evalMinus(PartialEval(d)), s, i) = -Value(PartialEval(d), s, i)
    BY <2>2, EvalMinusValue
  <2>5. Value(Neg(d), s, i) = -Value(d, s, i)
    BY ValueAtNeg
  <2> QED
    BY <2>2, <2>3, <2>4, <2>5
<1>4. ASSUME NEW d \in G PROVE Parens(d) \in G
  <2> SUFFICES ASSUME NEW s, NEW i, Instants(s), Given(Parens(d), s, i)
               PROVE  Value(PartialEval(Parens(d)), s, i) = Value(Parens(d), s, i)
    BY AtParens
  <2>1. Given(d, s, i)
    BY AtParens, GivenBelow
  <2>2. PartialEval(d) \in E /\ Value(PartialEval(d), s, i) = Value(d, s, i)
    BY <2>1, <1>0
  <2>3. PartialEval(Parens(d)) \in {d, PartialEval(d), Parens(PartialEval(d))}
    BY PartialEvalAt
  <2>4. Value(Parens(d), s, i) = Value(d, s, i)
    BY ValueAtParens
  <2>5. Value(Parens(PartialEval(d)), s, i) = Value(PartialEval(d), s, i)
    BY <2>2, ValueAtParens
  <2> QED
    BY <2>2, <2>3, <2>4, <2>5
<1>5. ASSUME NEW d \in G PROVE Der(d) \in G
  <2> SUFFICES ASSUME NEW s, NEW i, Instants(s), Given(Der(d), s, i)
               PROVE  Value(PartialEval(Der(d)), s, i) = Value(Der(d), s, i)
    BY AtDer
  <2>1. Given(d, s, i) /\ Given(d, atNext(s), i) /\ Instants(atNext(s))
    BY GivenInDer
  <2>2. /\ PartialEval(d) \in E /\ Value(PartialEval(d), s, i) = Value(d, s, i)
        /\ Value(PartialEval(d), atNext(s), i) = Value(d, atNext(s), i)
    BY <2>1, <1>0
  <2>3. PartialEval(Der(d)) = Der(PartialEval(d))
    BY PartialEvalAt
  <2>4. Value(Der(d), s, i) = Value(d, atNext(s), i) - Value(d, s, i)
    BY ValueAtDer
  <2>5. Value(Der(PartialEval(d)), s, i) = Value(PartialEval(d), atNext(s), i) - Value(PartialEval(d), s, i)
    BY <2>2, ValueAtDer
  <2> QED
    BY <2>2, <2>3, <2>4, <2>5
<1>6. ASSUME NEW op \in {"Add", "Sub"}, NEW l \in G, NEW r \in G PROVE BinOp(op, l, r) \in G
  <2> SUFFICES ASSUME NEW s, NEW i, Instants(s), Given(BinOp(op, l, r), s, i)
               PROVE  Value(PartialEval(BinOp(op, l, r)), s, i) = Value(BinOp(op, l, r), s, i)
    BY AtBinOp
  <2>0. /\ references(BinOp(op, l, r)) = references(l) \cup references(r)
        /\ derNames(BinOp(op, l, r)) = derNames(l) \cup derNames(r)
    BY AtBinOp
  <2>1. Given(l, s, i) /\ Given(r, s, i)
    BY <2>0, GivenBelow
  <2>2. /\ PartialEval(l) \in E /\ Given(PartialEval(l), s, i)
        /\ PartialEval(r) \in E /\ Given(PartialEval(r), s, i)
    BY <2>1, <1>0
  <2>3. /\ Value(PartialEval(l), s, i) = Value(l, s, i)
        /\ Value(PartialEval(r), s, i) = Value(r, s, i)
    BY <2>1
  <2>4. PartialEval(BinOp(op, l, r)) = evalBinOp(op, PartialEval(l), PartialEval(r))
    BY PartialEvalAt
  <2>5. Value(evalBinOp(op, PartialEval(l), PartialEval(r)), s, i) =
          Value(BinOp(op, PartialEval(l), PartialEval(r)), s, i)
    <3> DEFINE pl == PartialEval(l)
               pr == PartialEval(r)
    <3>1. pl \in E /\ Given(pl, s, i) /\ pr \in E /\ Given(pr, s, i)
      BY <2>2
    <3> HIDE DEF pl, pr, G
    <3>2. Value(evalBinOp(op, pl, pr), s, i) = Value(BinOp(op, pl, pr), s, i)
      BY <3>1, EvalBinOpValue
    <3> QED
      BY <3>2 DEF pl, pr
  <2>6. Value(BinOp(op, PartialEval(l), PartialEval(r)), s, i) =
          IF op = "Add" THEN Value(PartialEval(l), s, i) + Value(PartialEval(r), s, i)
          ELSE Value(PartialEval(l), s, i) - Value(PartialEval(r), s, i)
    BY <2>2, ValueAtBinOp
  <2>7. Value(BinOp(op, l, r), s, i) =
          IF op = "Add" THEN Value(l, s, i) + Value(r, s, i) ELSE Value(l, s, i) - Value(r, s, i)
    BY ValueAtBinOp
  <2> QED
    BY <2>3, <2>4, <2>5, <2>6, <2>7
<1>7. ASSUME NEW c \in G, NEW t \in G, NEW d \in G, NEW branches \in Branches(G, elseifs)
      PROVE  IfExp(c, t, branches, d) \in G
  <2>1. branches \in Branches(E, elseifs)
    BY BranchesGrow
  <2>2. PartialEval(IfExp(c, t, branches, d)) = IfExp(c, t, branches, d)
    BY <2>1, PartialEvalAt
  <2>3. IfExp(c, t, branches, d) \in E
    BY <2>1, AtIfExp
  <2> QED
    BY <2>2, <2>3
<1>g. G \subseteq E
  OBVIOUS
<1> HIDE DEF G
<1>c. ClosedUnder(G, elseifs)
  BY <1>1, <1>2, <1>3, <1>4, <1>5, <1>6, <1>7 DEF ClosedUnder
<1>8. G = E
  BY <1>g, <1>c, Induction
<1> QED
  BY <1>8 DEF G

-----------------------------------------------------------------------------
(* Replacing a variable that does not occur changes nothing. *)
LEMMA ReplacementUntouched ==
  ASSUME NEW E, NEW elseifs \in BOOLEAN, IsExpressionSet(E, elseifs), Visitors(E),
         Branches(E, elseifs) = {<<>>}, NEW look \in Refs, NEW rep \in E, NEW ign \in BOOLEAN
  PROVE  \A e \in E : look.name \notin refNames(e) => ReplaceExpression(look, rep, ign, e) = e
<1> DEFINE R(e) == ReplaceExpression(look, rep, ign, e)
           P(e) == look.name \notin refNames(e) => R(e) = e
           G == {e \in E : P(e)}
<1>0. /\ \A v \in Int : R(Number(v)) = Number(v)
      /\ \A r \in Refs : R(r) = IF r = look THEN rep ELSE renameReference(look, rep, ign, r)
      /\ \A d \in E : R(Neg(d)) = Neg(R(d)) /\ R(Der(d)) = Der(R(d)) /\ R(Parens(d)) = Parens(R(d))
      /\ \A op \in {"Add", "Sub"}, l, r \in E : R(BinOp(op, l, r)) = BinOp(op, R(l), R(r))
      /\ \A c, t, d \in E, branches \in Branches(E, elseifs) :
           R(IfExp(c, t, branches, d)) = IfExp(R(c), R(t), <<>>, R(d))
  BY ReplacementAt
<1> HIDE DEF R
<1>1. ASSUME NEW v \in Int PROVE Number(v) \in G
  BY <1>0, AtNumber
<1>2. ASSUME NEW r \in Refs PROVE r \in G
  <2>1. r \in E /\ refNames(r) = {r.name}
    BY AtReference
  <2>2. r.name # look.name => renameReference(look, rep, ign, r) = r
    BY DEF renameReference
  <2> QED
    BY <2>1, <2>2, <1>0
<1>3. ASSUME NEW d \in G PROVE Neg(d) \in G /\ Der(d) \in G /\ Parens(d) \in G
  <2>1. /\ refNames(Neg(d)) = refNames(d) /\ refNames(Der(d)) = refNames(d)
        /\ refNames(Parens(d)) = refNames(d)
        /\ Neg(d) \in E /\ Der(d) \in E /\ Parens(d) \in E
    BY AtNeg, AtDer, AtParens
  <2>2. R(Neg(d)) = Neg(R(d)) /\ R(Der(d)) = Der(R(d)) /\ R(Parens(d)) = Parens(R(d))
    BY <1>0
  <2>3. P(d)
    OBVIOUS
  <2> QED
    BY <2>1, <2>2, <2>3
<1>4. ASSUME NEW op \in {"Add", "Sub"}, NEW l \in G, NEW r \in G PROVE BinOp(op, l, r) \in G
  <2>1. refNames(BinOp(op, l, r)) = refNames(l) \cup refNames(r)
    BY AtBinOp
  <2>2. R(BinOp(op, l, r)) = BinOp(op, R(l), R(r))
    BY <1>0
  <2> QED
    BY <2>1, <2>2, Closed
<1>5. ASSUME NEW c \in G, NEW t \in G, NEW d \in G, NEW branches \in Branches(G, elseifs)
      PROVE  IfExp(c, t, branches, d) \in G
  <2>0. branches = <<>> /\ branches \in Branches(E, elseifs)
    BY BranchesGrow
  <2>1. references(IfExp(c, t, <<>>, d)) = references(c) \cup references(t) \cup references(d)
        /\ IfExp(c, t, <<>>, d) \in E
    BY AtPlainIf
  <2>2. R(IfExp(c, t, <<>>, d)) = IfExp(R(c), R(t), <<>>, R(d))
    BY <2>0, <1>0
  <2>3. P(c) /\ P(t) /\ P(d)
    OBVIOUS
  <2> QED
    BY <2>0, <2>1, <2>2, <2>3 DEF refNames
<1>g. G \subseteq E
  OBVIOUS
<1> HIDE DEF G
<1>c. ClosedUnder(G, elseifs)
  BY <1>1, <1>2, <1>3, <1>4, <1>5 DEF ClosedUnder
<1>6. G = E
  BY <1>g, <1>c, Induction
<1> QED
  BY <1>6 DEF G, R

(* The names inside of der stay, when what is replaced is not one of them. *)
LEMMA ReplacementDer ==
  ASSUME NEW E, NEW elseifs \in BOOLEAN, IsExpressionSet(E, elseifs), Visitors(E),
         Branches(E, elseifs) = {<<>>}, NEW look \in Refs, NEW rep \in E, NEW ign \in BOOLEAN,
         derNames(rep) = {}
  PROVE  \A e \in E : look.name \notin derNames(e) =>
           derNames(ReplaceExpression(look, rep, ign, e)) = derNames(e)
<1> DEFINE R(e) == ReplaceExpression(look, rep, ign, e)
           P(e) == look.name \notin derNames(e) => derNames(R(e)) = derNames(e)
           G == {e \in E : P(e)}
<1>0. /\ \A v \in Int : R(Number(v)) = Number(v)
      /\ \A r \in Refs : R(r) = IF r = look THEN rep ELSE renameReference(look, rep, ign, r)
      /\ \A d \in E : R(Neg(d)) = Neg(R(d)) /\ R(Der(d)) = Der(R(d)) /\ R(Parens(d)) = Parens(R(d))
      /\ \A op \in {"Add", "Sub"}, l, r \in E : R(BinOp(op, l, r)) = BinOp(op, R(l), R(r))
      /\ \A c, t, d \in E, branches \in Branches(E, elseifs) :
           R(IfExp(c, t, branches, d)) = IfExp(R(c), R(t), <<>>, R(d))
  BY ReplacementAt
<1>a. \A e \in E : R(e) \in E
  BY ReplacementNames
<1>b. \A e \in E : look.name \notin refNames(e) => R(e) = e
  BY ReplacementUntouched
<1> HIDE DEF R
<1>1. ASSUME NEW v \in Int PROVE Number(v) \in G
  BY <1>0, AtNumber
<1>2. ASSUME NEW r \in Refs PROVE r \in G
  <2>1. r \in E /\ derNames(r) = {}
    BY AtReference
  <2>2. renameReference(look, rep, ign, r) \in Refs
    <3>1. Is("Reference", rep) => rep.name \in Names
      BY KindOf DEF Is, Refs
    <3> QED
      BY <3>1 DEF renameReference, Refs
  <2>3. derNames(renameReference(look, rep, ign, r)) = {}
    BY <2>2, AtReference
  <2> QED
    BY <2>1, <2>3, <1>0
<1>3. ASSUME NEW d \in G PROVE Neg(d) \in G /\ Parens(d) \in G
  <2>1. R(d) \in E /\ P(d) /\ d \in E
    BY <1>a
  <2>2. /\ derNames(Neg(d)) = derNames(d) /\ derNames(Parens(d)) = derNames(d)
        /\ Neg(d) \in E /\ Parens(d) \in E
    BY AtNeg, AtParens
  <2>3. /\ derNames(Neg(R(d))) = derNames(R(d)) /\ derNames(Parens(R(d))) = derNames(R(d))
    BY <2>1, AtNeg, AtParens
  <2>4. R(Neg(d)) = Neg(R(d)) /\ R(Parens(d)) = Parens(R(d))
    BY <1>0
  <2> QED
    BY <2>1, <2>2, <2>3, <2>4
<1>d. ASSUME NEW d \in G PROVE Der(d) \in G
  <2>1. Der(d) \in E /\ derNames(Der(d)) = refNames(d)
    BY AtDer
  <2>2. look.name \notin refNames(d) => R(Der(d)) = Der(d)
    BY <1>0, <1>b
  <2> QED
    BY <2>1, <2>2
<1>4. ASSUME NEW op \in {"Add", "Sub"}, NEW l \in G, NEW r \in G PROVE BinOp(op, l, r) \in G
  <2>1. BinOp(op, l, r) \in E /\ derNames(BinOp(op, l, r)) = derNames(l) \cup derNames(r)
    BY AtBinOp
  <2>2. R(BinOp(op, l, r)) = BinOp(op, R(l), R(r)) /\ R(l) \in E /\ R(r) \in E
    BY <1>0, <1>a
  <2>3. derNames(BinOp(op, R(l), R(r))) = derNames(R(l)) \cup derNames(R(r))
    BY <2>2, AtBinOp
  <2>4. P(l) /\ P(r)
    OBVIOUS
  <2> QED
    BY <2>1, <2>2, <2>3, <2>4
<1>5. ASSUME NEW c \in G, NEW t \in G, NEW d \in G, NEW branches \in Branches(G, elseifs)
      PROVE  IfExp(c, t, branches, d) \in G
  <2>0. branches = <<>> /\ branches \in Branches(E, elseifs) /\ <<>> \in Branches(E, elseifs)
    BY BranchesGrow
  <2>1. IfExp(c, t, <<>>, d) \in E
    BY AtPlainIf
  <2>a. derNames(IfExp(c, t, <<>>, d)) = derNames(c) \cup derNames(t) \cup derNames(d)
    BY <2>0, AtIfExp
  <2>2. R(IfExp(c, t, <<>>, d)) = IfExp(R(c), R(t), <<>>, R(d))
    BY <2>0, <1>0
  <2>b. R(c) \in E /\ R(t) \in E /\ R(d) \in E
    BY <1>a
  <2>3. derNames(IfExp(R(c), R(t), <<>>, R(d))) = derNames(R(c)) \cup derNames(R(t)) \cup derNames(R(d))
    BY <2>0, <2>b, AtIfExp
  <2>4. P(c) /\ P(t) /\ P(d)
    OBVIOUS
  <2> QED
    BY <2>0, <2>1, <2>a, <2>2, <2>3, <2>4
<1>g. G \subseteq E
  OBVIOUS
<1> HIDE DEF G
<1>c. ClosedUnder(G, elseifs)
  BY <1>1, <1>2, <1>3, <1>d, <1>4, <1>5 DEF ClosedUnder
<1>6. G = E
  BY <1>g, <1>c, Induction
<1> QED
  BY <1>6 DEF G, R

(* A replacement keeps the value, when at both instants what becomes of a reference has
   the value the reference had. *)
LEMMA ReplacementValue ==
  ASSUME NEW E, NEW elseifs \in BOOLEAN, IsExpressionSet(E, elseifs), Visitors(E),
         Branches(E, elseifs) = {<<>>}, NEW look \in Refs, NEW rep \in E, NEW ign \in BOOLEAN
  PROVE  \A e \in E : \A s, t, i :
           /\ Instants(s) /\ Instants(t)
           /\ \A r \in references(e) : Value(ReplaceExpression(look, rep, ign, r), t, i) = Value(r, s, i)
           /\ \A r \in references(e) : r.name \in derNames(e) =>
                Value(ReplaceExpression(look, rep, ign, r), atNext(t), i) = Value(r, atNext(s), i)
           => Value(ReplaceExpression(look, rep, ign, e), t, i) = Value(e, s, i)
<1> DEFINE R(e) == ReplaceExpression(look, rep, ign, e)
           Like(e, s, t, i) ==
             /\ Instants(s) /\ Instants(t)
             /\ \A r \in references(e) : Value(R(r), t, i) = Value(r, s, i)
             /\ \A r \in references(e) : r.name \in derNames(e) =>
                  Value(R(r), atNext(t), i) = Value(r, atNext(s), i)
           P(e) == \A s, t, i : Like(e, s, t, i) => Value(R(e), t, i) = Value(e, s, i)
           G == {e \in E : P(e)}
<1>0. /\ \A v \in Int : R(Number(v)) = Number(v)
      /\ \A r \in Refs : R(r) = IF r = look THEN rep ELSE renameReference(look, rep, ign, r)
      /\ \A d \in E : R(Neg(d)) = Neg(R(d)) /\ R(Der(d)) = Der(R(d)) /\ R(Parens(d)) = Parens(R(d))
      /\ \A op \in {"Add", "Sub"}, l, r \in E : R(BinOp(op, l, r)) = BinOp(op, R(l), R(r))
      /\ \A c, t, d \in E, branches \in Branches(E, elseifs) :
           R(IfExp(c, t, branches, d)) = IfExp(R(c), R(t), <<>>, R(d))
  BY ReplacementAt
<1>a. \A e \in E : R(e) \in E
  BY ReplacementNames
<1> HIDE DEF R
<1>b. ASSUME NEW e, NEW d, references(d) \subseteq references(e), derNames(d) \subseteq derNames(e),
             NEW s, NEW t, NEW i, Like(e, s, t, i)
      PROVE  Like(d, s, t, i)
  BY <1>b
<1>1. ASSUME NEW v \in Int PROVE Number(v) \in G
  <2> SUFFICES ASSUME NEW s, NEW t, NEW i, Instants(s), Instants(t)
               PROVE  Value(R(Number(v)), t, i) = Value(Number(v), s, i)
    BY AtNumber
  <2>1. Value(Number(v), s, i) = v /\ Value(Number(v), t, i) = v
    BY ValueAtNumber
  <2> QED
    BY <2>1, <1>0
<1>2. ASSUME NEW r \in Refs PROVE r \in G
  BY AtReference
<1>3. ASSUME NEW d \in G PROVE Neg(d) \in G
  <2> SUFFICES ASSUME NEW s, NEW t, NEW i, Like(Neg(d), s, t, i)
               PROVE  Value(R(Neg(d)), t, i) = Value(Neg(d), s, i)
    BY AtNeg
  <2>1. Like(d, s, t, i)
    BY AtNeg, <1>b
  <2>2. P(d) /\ d \in E /\ R(d) \in E
    BY <1>a
  <2>3. Value(R(d), t, i) = Value(d, s, i)
    BY <2>1, <2>2
  <2>4. R(Neg(d)) = Neg(R(d))
    BY <1>0
  <2>5. Value(Neg(d), s, i) = -Value(d, s, i)
    BY <2>2, ValueAtNeg
  <2>6. Value(Neg(R(d)), t, i) = -Value(R(d), t, i)
    BY <2>2, ValueAtNeg
  <2> QED
    BY <2>3, <2>4, <2>5, <2>6
<1>4. ASSUME NEW d \in G PROVE Parens(d) \in G
  <2> SUFFICES ASSUME NEW s, NEW t, NEW i, Like(Parens(d), s, t, i)
               PROVE  Value(R(Parens(d)), t, i) = Value(Parens(d), s, i)
    BY AtParens
  <2>1. Like(d, s, t, i)
    BY AtParens, <1>b
  <2>2. P(d) /\ d \in E /\ R(d) \in E
    BY <1>a
  <2>3. Value(R(d), t, i) = Value(d, s, i)
    BY <2>1, <2>2
  <2>4. R(Parens(d)) = Parens(R(d))
    BY <1>0
  <2>5. Value(Parens(d), s, i) = Value(d, s, i)
    BY <2>2, ValueAtParens
  <2>6. Value(Parens(R(d)), t, i) = Value(R(d), t, i)
    BY <2>2, ValueAtParens
  <2> QED
    BY <2>3, <2>4, <2>5, <2>6
<1>5. ASSUME NEW d \in G PROVE Der(d) \in G
  <2> SUFFICES ASSUME NEW s, NEW t, NEW i, Like(Der(d), s, t, i)
               PROVE  Value(R(Der(d)), t, i) = Value(Der(d), s, i)
    BY AtDer
  <2>1. references(Der(d)) = references(d) /\ derNames(Der(d)) = refNames(d) /\ derNames(d) \subseteq refNames(d)
    BY AtDer, NamesOccur
  <2>2. Like(d, s, t, i)
    BY <2>1, <1>b
  <2>3. \A r \in references(d) : Value(R(r), atNext(t), i) = Value(r, atNext(s), i)
    BY <2>1 DEF refNames
  <2>4. /\ Instants(atNext(s)) /\ Instants(atNext(t))
        /\ atNext(atNext(s)) = atNext(s) /\ atNext(atNext(t)) = atNext(t)
    BY DEF atNext, Instants
  <2>5. Like(d, atNext(s), atNext(t), i)
    BY <2>3, <2>4
  <2>6. P(d) /\ d \in E /\ R(d) \in E
    BY <1>a
  <2>7. Value(R(d), t, i) = Value(d, s, i)
    BY <2>2, <2>6
  <2>8. Value(R(d), atNext(t), i) = Value(d, atNext(s), i)
    BY <2>5, <2>6
  <2>9. R(Der(d)) = Der(R(d))
    BY <1>0
  <2>10. Value(Der(d), s, i) = Value(d, atNext(s), i) - Value(d, s, i)
    BY <2>6, ValueAtDer
  <2>11. Value(Der(R(d)), t, i) = Value(R(d), atNext(t), i) - Value(R(d), t, i)
    BY <2>6, ValueAtDer
  <2> QED
    BY <2>7, <2>8, <2>9, <2>10, <2>11
<1>6. ASSUME NEW op \in {"Add", "Sub"}, NEW l \in G, NEW r \in G PROVE BinOp(op, l, r) \in G
  <2> SUFFICES ASSUME NEW s, NEW t, NEW i, Like(BinOp(op, l, r), s, t, i)
               PROVE  Value(R(BinOp(op, l, r)), t, i) = Value(BinOp(op, l, r), s, i)
    BY AtBinOp
  <2>0. /\ references(BinOp(op, l, r)) = references(l) \cup references(r)
        /\ derNames(BinOp(op, l, r)) = derNames(l) \cup derNames(r)
    BY AtBinOp
  <2>1. Like(l, s, t, i) /\ Like(r, s, t, i)
    <3>1. Like(l, s, t, i)
      BY <2>0, <1>b
    <3>2. Like(r, s, t, i)
      BY <2>0, <1>b
    <3> QED
      BY <3>1, <3>2
  <2>2. P(l) /\ P(r) /\ l \in E /\ r \in E /\ R(l) \in E /\ R(r) \in E
    BY <1>a
  <2>3. Value(R(l), t, i) = Value(l, s, i) /\ Value(R(r), t, i) = Value(r, s, i)
    BY <2>1, <2>2
  <2>4. R(BinOp(op, l, r)) = BinOp(op, R(l), R(r))
    BY <1>0
  <2>5. /\ Value(BinOp("Add", l, r), s, i) = Value(l, s, i) + Value(r, s, i)
        /\ Value(BinOp("Sub", l, r), s, i) = Value(l, s, i) - Value(r, s, i)
    BY <2>2, ValueAtBinOp
  <2>6. /\ Value(BinOp("Add", R(l), R(r)), t, i) = Value(R(l), t, i) + Value(R(r), t, i)
        /\ Value(BinOp("Sub", R(l), R(r)), t, i) = Value(R(l), t, i) - Value(R(r), t, i)
    BY <2>2, ValueAtBinOp
  <2> QED
    BY <2>3, <2>4, <2>5, <2>6
<1>7. ASSUME NEW c \in G, NEW b \in G, NEW d \in G, NEW branches \in Branches(G, elseifs)
      PROVE  IfExp(c, b, branches, d) \in G
  <2>0. branches = <<>> /\ branches \in Branches(E, elseifs)
    BY BranchesGrow
  <2>a. c \in E /\ b \in E /\ d \in E /\ R(c) \in E /\ R(b) \in E /\ R(d) \in E
    BY <1>a
  <2> SUFFICES ASSUME NEW s, NEW t, NEW i, Like(IfExp(c, b, <<>>, d), s, t, i)
               PROVE  Value(R(IfExp(c, b, <<>>, d)), t, i) = Value(IfExp(c, b, <<>>, d), s, i)
    BY <2>0, AtPlainIf
  <2>1. derNames(IfExp(c, b, <<>>, d)) = derNames(c) \cup derNames(b) \cup derNames(d)
    BY <2>0, <2>a, AtIfExp
  <2>2. references(IfExp(c, b, <<>>, d)) = references(c) \cup references(b) \cup references(d)
    BY <2>a, AtPlainIf
  <2>3. Like(c, s, t, i)
    BY <2>1, <2>2, <1>b
  <2>4. Like(b, s, t, i)
    BY <2>1, <2>2, <1>b
  <2>5. Like(d, s, t, i)
    BY <2>1, <2>2, <1>b
  <2>6. P(c) /\ P(b) /\ P(d)
    OBVIOUS
  <2>7. /\ Value(R(c), t, i) = Value(c, s, i) /\ Value(R(b), t, i) = Value(b, s, i)
        /\ Value(R(d), t, i) = Value(d, s, i)
    BY <2>3, <2>4, <2>5, <2>6
  <2>8. R(IfExp(c, b, <<>>, d)) = IfExp(R(c), R(b), <<>>, R(d))
    BY <2>0, <2>a, <1>0
  <2>9. Value(IfExp(c, b, <<>>, d), s, i) = IF Value(c, s, i) > 0 THEN Value(b, s, i) ELSE Value(d, s, i)
    BY <2>a, ValueAtIf
  <2>10. Value(IfExp(R(c), R(b), <<>>, R(d)), t, i) =
           IF Value(R(c), t, i) > 0 THEN Value(R(b), t, i) ELSE Value(R(d), t, i)
    BY <2>a, ValueAtIf
  <2> QED
    BY <2>7, <2>8, <2>9, <2>10
<1>g. G \subseteq E
  OBVIOUS
<1> HIDE DEF G
<1>c. ClosedUnder(G, elseifs)
  BY <1>1, <1>2, <1>3, <1>4, <1>5, <1>6, <1>7 DEF ClosedUnder
<1>8. G = E
  BY <1>g, <1>c, Induction
<1>9. ASSUME NEW e \in E PROVE P(e)
  BY <1>8 DEF G
<1> QED
  BY <1>9 DEF R
=============================================================================
