------------------------------ MODULE RemoveAlias ------------------------------
(***************************************************************************)
(* RemoveAlias::removeAliasEquations: the list of equations is walked from *)
(* its start until an equation says that a variable is another variable,   *)
(* its opposite or a number.  The equation is erased, the variable is      *)
(* removed and replaced, and the walk starts again.                        *)
(*                                                                         *)
(* An equation is [loop, left, right]; loop is Scalar or the triple        *)
(* <<start, step, end>> of the for loop around the equation.                 *)
(***************************************************************************)
EXTENDS Expressions

CONSTANT Models   \* the flat models that may be read

ASSUME ModelsAssumption ==
  \A m \in Models :
    /\ m.equations \in Seq(Range(m.equations))
    /\ m.initial_eqs \in Seq(Range(m.initial_eqs))
    /\ m.statements \in Seq(Range(m.statements))
    /\ m.initial_sts \in Seq(Range(m.initial_sts))
    /\ IsFiniteSet(m.names) /\ m.names \subseteq Names

VARIABLES
  input,        \* the model that was read (never changes)
  equations,    \* _c.equations()
  initial_eqs,  \* _c.initial_eqs()
  statements,   \* _c.statements(): the two sides of each assignment
  initial_sts,  \* _c.initial_sts(), in the same way
  syms,         \* the names in the symbol table
  variables,    \* _c.variables()
  states,       \* the symbols with the state flag
  removed,      \* what was removed: pairs of a reference and what replaces it
  pos,          \* the equation whose turn it is
  aliased,      \* the local of the same name
  pc

avars == <<input, equations, initial_eqs, statements, initial_sts, syms, variables, states,
           removed, pos, aliased, pc>>

Scalar == <<>>
IsForEq(eq) == eq.loop # Scalar
Equality(l, r) == [loop |-> Scalar, left |-> l, right |-> r]

Sides(eq)      == {eq.left, eq.right}
NamesOf(list)  == UNION {UNION {refNames(f) : f \in Sides(list[k])} : k \in DOMAIN list}
StateNames(list) == UNION {UNION {derNames(f) : f \in Sides(list[k])} : k \in DOMAIN list}

isVariable(n) == n \notin Parameters
isState(n)    == n \in states
isArray1(n)   == n \in Arrays

(***************************************************************************)
(* One equality.  Both sides are evaluated in place; then the local copies *)
(* left and right are brought to the form  reference = something.          *)
(***************************************************************************)
Pair(l, r) == [left |-> l, right |-> r]

evaluated(eq) == [eq EXCEPT !.left = PartialEval(@), !.right = PartialEval(@)]

signToRight(p) ==
  IF Is("Minus", p.left) /\ Is("Reference", p.left.exp)
  THEN Pair(p.left.exp, PartialEval(Neg(p.right))) ELSE p

\* mutant: a number on the left stays there
numberToRightNever(p) == p

numberToRight(p) == IF Is("Number", p.left) THEN Pair(p.right, p.left) ELSE p

\* mutant: a + b = 0 is read as a = b
splitZeroUnsigned(p) ==
  IF isZero(p.right) /\ IsBinOp(p.left) THEN Pair(p.left.left, p.left.right) ELSE p

splitZero(p) ==
  CASE isZero(p.right) /\ Is("Add", p.left) ->
         Pair(p.left.left, PartialEval(Neg(p.left.right)))
    [] isZero(p.right) /\ Is("Sub", p.left) -> Pair(p.left.left, p.left.right)
    [] OTHER -> p

normalized(eq) ==
  signToRight(splitZero(numberToRight(signToRight(Pair(eq.left, eq.right)))))

unsubscripted(e) == Is("Reference", e) /\ e.sub = Whole

(* What the equality  l = r  says, if it is of use: the first is to be replaced *)
saidBy(l, r) ==
  CASE unsubscripted(l) /\ unsubscripted(r)
         /\ isVariable(l.name) /\ isVariable(r.name) ->
         IF ~isState(l.name) THEN {<<l, r>>}
         ELSE IF ~isState(r.name) THEN {<<r, l>>} ELSE {}
    [] unsubscripted(l) /\ Is("Minus", r) ->
         IF /\ unsubscripted(r.exp) /\ isVariable(l.name) /\ isVariable(r.exp.name)
            /\ ~isState(l.name)
         THEN {<<l, r>>} ELSE {}
    [] unsubscripted(l) /\ Is("Number", r) -> {<<l, r>>}
    [] OTHER -> {}

AliasesOf(eq) == UNION {saidBy(p.left, p.right) : p \in {normalized(eq)}}

(* The same of a for equation: both arrays are covered from 1 to their size *)
forSides(eq) == IF isZero(eq.left) THEN Pair(eq.right, eq.left) ELSE Pair(eq.left, eq.right)

\* mutant: the loop may start anywhere
coveredAnyStart(eq) ==
  Is("Reference", forSides(eq).left) /\ Is("Reference", forSides(eq).right)

covered(eq) ==
  LET p == forSides(eq)
  IN  eq.loop[1] = 1 /\ Is("Reference", p.left) /\ Is("Reference", p.right)

ForAliasesOf(eq) ==
  LET l == forSides(eq).left
      r == forSides(eq).right
  IN  IF /\ covered(eq)
         /\ isVariable(l.name) /\ isVariable(r.name)
         /\ ~isState(r.name) /\ ~isState(l.name)
         /\ isArray1(r.name) /\ isArray1(l.name)
         /\ eq.loop[3] = N
      THEN {<<l, r>>} ELSE {}

(* The names the turn of an equation looks up *)
lookedUp(eq) ==
  IF IsForEq(eq)
  THEN IF covered(eq) THEN {forSides(eq).left.name, forSides(eq).right.name} ELSE {}
  ELSE evalNames(eq.left) \cup evalNames(eq.right)

(***************************************************************************)
(* alias(a, b): remove a and replace it everywhere.                        *)
(***************************************************************************)
replaceEquation(a, b, eq) ==
  [eq EXCEPT !.left  = ReplaceExpression(a, b, TRUE, @),
             !.right = ReplaceExpression(a, b, TRUE, @)]

\* mutant: the left side of a statement only
replaceStatementLeft(a, b, st) == [st EXCEPT !.left = ReplaceExpression(a, b, FALSE, @)]

replaceStatement(a, b, st) ==
  [st EXCEPT !.left  = ReplaceExpression(a, b, FALSE, @),
             !.right = ReplaceExpression(a, b, FALSE, @)]

replaceIn(a, b, list) == [k \in DOMAIN list |-> replaceEquation(a, b, list[k])]
replaceInStatements(a, b, list) == [k \in DOMAIN list |-> replaceStatement(a, b, list[k])]

alias(a, b, list) ==
  /\ syms' = syms \ {a.name}
  /\ variables' = RemoveFirst(variables, a.name)
  /\ equations' = replaceIn(a, b, list)
  /\ initial_eqs' = replaceIn(a, b, initial_eqs)
  /\ statements' = replaceInStatements(a, b, statements)
  /\ initial_sts' = replaceInStatements(a, b, initial_sts)
  /\ removed' = Append(removed, <<a, b>>)

-----------------------------------------------------------------------------
AInit ==
  /\ input \in Models
  /\ equations = input.equations
  /\ initial_eqs = input.initial_eqs
  /\ statements = input.statements
  /\ initial_sts = input.initial_sts
  /\ syms = input.names
  /\ variables = SetToSeq(input.names)
  /\ states = StateNames(input.equations)
  /\ removed = <<>>
  /\ pos = 1 /\ aliased = FALSE
  /\ pc = "scan"

Turn(eq) ==
  /\ pc = "scan" /\ pos \in DOMAIN equations
  /\ eq = equations[pos]

(* A name that is not in the table: ERROR ends the program. *)
NoSymbol ==
  \E eq \in Range(equations) :
    /\ Turn(eq)
    /\ ~(lookedUp(eq) \subseteq syms)
    /\ pc' = "error"
    /\ UNCHANGED <<input, equations, initial_eqs, statements, initial_sts, syms, variables, states,
                   removed, pos, aliased>>

(* The equality is an alias: erased, and out of the loop by break *)
AliasEquality ==
  \E eq \in Range(equations) :
    /\ Turn(eq) /\ ~IsForEq(eq) /\ lookedUp(eq) \subseteq syms
    /\ \E e \in {evaluated(eq)} :
         \E ab \in AliasesOf(e) :
           alias(ab[1], ab[2], RemoveFirst(ReplaceAt(equations, pos, e), e))
    /\ aliased' = TRUE /\ pc' = "test"
    /\ UNCHANGED <<input, states, pos>>

(* It is not: the evaluated sides stay in the list. *)
PassEquality ==
  \E eq \in Range(equations) :
    /\ Turn(eq) /\ ~IsForEq(eq) /\ lookedUp(eq) \subseteq syms
    /\ \E e \in {evaluated(eq)} :
         /\ AliasesOf(e) = {}
         /\ equations' = ReplaceAt(equations, pos, e)
    /\ pos' = pos + 1
    /\ UNCHANGED <<input, initial_eqs, statements, initial_sts, syms, variables, states, removed,
                   aliased, pc>>

AliasForEq ==
  \E eq \in Range(equations) :
    /\ Turn(eq) /\ IsForEq(eq) /\ lookedUp(eq) \subseteq syms
    /\ \E ab \in ForAliasesOf(eq) : alias(ab[1], ab[2], RemoveFirst(equations, eq))
    /\ aliased' = TRUE /\ pc' = "test"
    /\ UNCHANGED <<input, states, pos>>

PassForEq ==
  \E eq \in Range(equations) :
    /\ Turn(eq) /\ IsForEq(eq) /\ lookedUp(eq) \subseteq syms
    /\ ForAliasesOf(eq) = {}
    /\ pos' = pos + 1
    /\ UNCHANGED <<input, equations, initial_eqs, statements, initial_sts, syms, variables, states,
                   removed, aliased, pc>>

ListEnds ==
  /\ pc = "scan" /\ pos > Len(equations)
  /\ pc' = "test"
  /\ UNCHANGED <<input, equations, initial_eqs, statements, initial_sts, syms, variables, states,
                 removed, pos, aliased>>

(* while (aliased), and the start of the body when it holds *)
\* mutant: aliased is not reset
startScanAgain == aliased' = aliased /\ pos' = 1 /\ pc' = "scan"

startScan == aliased' = FALSE /\ pos' = 1 /\ pc' = "scan"

While ==
  /\ pc = "test"
  /\ IF aliased THEN startScan ELSE pc' = "done" /\ UNCHANGED <<pos, aliased>>
  /\ UNCHANGED <<input, equations, initial_eqs, statements, initial_sts, syms, variables, states, removed>>

ANext ==
  \/ NoSymbol
  \/ AliasEquality \/ PassEquality
  \/ AliasForEq \/ PassForEq
  \/ ListEnds
  \/ While

ASpec == AInit /\ [][ANext]_avars /\ WF_avars(ANext)

-----------------------------------------------------------------------------
(***************************************************************************)
(* Properties.  A solution gives values to the names S at an instant, and  *)
(* to the states at the next; the initial equations hold at the first.     *)
(***************************************************************************)
Iterations(eq) ==
  IF IsForEq(eq)
  THEN {i \in eq.loop[1]..eq.loop[3] : (i - eq.loop[1]) % eq.loop[2] = 0}
  ELSE {1}

Holds(eq, s) ==
  \A i \in Iterations(eq) : Value(eq.left, s, i) = Value(eq.right, s, i)

Static(list) == {eq \in Range(list) : derNames(eq.left) \cup derNames(eq.right) = {}}

Solutions(list, init, S) ==
  LET still == {v \in Valuations(S) :
                  \A eq \in Static(list) : Holds(eq, [val |-> v, next |-> v])}
      next  == {Restrict(v, S \cap states) : v \in still}
  IN  {s \in [val : still, next : next] :
         \A eq \in Range(list \o init) : Holds(eq, s)}

project(s, S) == [val |-> Restrict(s.val, S), next |-> Restrict(s.next, S \cap states)]

Left     == Range(variables)
Occurring == NamesOf(equations) \cup NamesOf(initial_eqs)
               \cup NamesOf(statements) \cup NamesOf(initial_sts)

(* RemoveAlias keeps the solutions: those of the model that is left are those of the
   model that was read, without the values of the variables that were removed. *)
SameSolutions ==
  Occurring \subseteq Left =>
    {project(s, Left) : s \in Solutions(input.equations, input.initial_eqs, input.names)}
      = Solutions(equations, initial_eqs, Left)

RefsOf(eq) == references(eq.left) \cup references(eq.right)

Subscripted(r) == r.sub = Whole <=> r.name \notin Arrays

WellSubscripted(list) == \A k \in DOMAIN list : \A r \in RefsOf(list[k]) : Subscripted(r)
Plain(list) == \A k \in DOMAIN list : \A r \in RefsOf(list[k]) : r.name \notin Arrays

(* A model whose names are declared, where arrays have a subscript wherever they occur, and
   nothing else has one.  Its statements and initial ones have no arrays: ReplaceStatement looks for the very
   reference of the for equation, and leaves their other elements alone. *)
Regular(m) ==
  /\ \A list \in {m.equations, m.initial_eqs, m.statements, m.initial_sts} : WellSubscripted(list)
  /\ Plain(m.statements) /\ Plain(m.initial_sts)
  /\ \A list \in {m.equations, m.initial_eqs, m.statements, m.initial_sts} : NamesOf(list) \subseteq m.names

(* The for equations of two arrays take their elements one by one and side by side, and
   the initial equations derive only what the equations derive. *)
SideBySide(eq) ==
  IsForEq(eq) /\ (\A f \in Sides(eq) : Is("Reference", f) /\ f.name \in Arrays) =>
    eq.loop[2] = 1 /\ \A f \in Sides(eq) : f.sub = Counter

Comparable(m) ==
  /\ \A k \in DOMAIN m.equations : SideBySide(m.equations[k])
  /\ StateNames(m.initial_eqs) \subseteq StateNames(m.equations)

(* alias: a is removed from the model and replaced everywhere, in the equations, the
   statements, the initial ones of both, the list of variables and the symbol table. *)
RemovedEverywhere ==
  Occurring \cup syms \subseteq Left

(* The same as long as no variable is replaced by an expression it occurs in. *)
RemovedUnlessCyclic ==
  (\A k \in DOMAIN removed : removed[k][1].name \notin refNames(removed[k][2]))
    => RemovedEverywhere /\ pc # "error"

(* The two terms that an equality compares: its sides (Equal), or the operands of a sum or
   a difference that is zero (Add, Sub). *)
Compared(eq) ==
  {BinOp("Equal", eq.left, eq.right)}
    \cup {d \in {eq.left}  : IsBinOp(d) /\ isZero(eq.right)}
    \cup {d \in {eq.right} : IsBinOp(d) /\ isZero(eq.left)}

(* A term without its signs and parentheses *)
inner(e) == IF e.kind \in {"Minus", "Output"} THEN e.exp ELSE e
bare(e)  == inner(inner(e))

isTermOfVariable(e) == unsubscripted(bare(e)) /\ isVariable(bare(e).name)
Orders(p) == {<<p.left, p.right>>, <<p.right, p.left>>}

(* The comparison says that a variable that is no state is another variable or a number, or
   the opposite of one. *)
Useful(p) ==
  \E t \in Orders(p) :
    /\ isTermOfVariable(t[1]) /\ ~isState(bare(t[1]).name)
    /\ isTermOfVariable(t[2]) \/ Is("Number", bare(t[2]))

(* In a sum both terms have a sign or none has one, elsewhere one of them has. *)
opposite(p) == (Is("Minus", p.left) <=> Is("Minus", p.right)) <=> Is("Add", p)

(* What removeAliasEquations does not recognise.  First, a term that is more than a variable,
   its opposite or a number: evaluation puts a negative number in parentheses, and makes
   -(-a) of 0 - (-a). *)
isPlainTerm(e) ==
  Is("Reference", e) \/ Is("Number", e) \/ (Is("Minus", e) /\ Is("Reference", e.exp))
Wrapped(p) == \E e \in {p.left, p.right} : ~isPlainTerm(e)

(* A state that comes first and is the opposite of a variable: x = -a, or x + a = 0 *)
OppositeOfState(p) ==
  /\ isTermOfVariable(p.left) /\ isTermOfVariable(p.right)
  /\ isState(bare(p.left).name) /\ opposite(p)

(* A sum with the number first: 1 + a = 0 *)
NumberFirst(p) == IsBinOp(p) /\ Is("Number", p.left)

(* A negative number whose sign is to be changed is put in parentheses instead: -a = -1, or
   a + (-1) = 0 before the parentheses.  -a + 1 = 0 comes to it in two steps. *)
NegativeToNegate(p) ==
  \E t \in Orders(p) :
    /\ Is("Number", t[2])
    /\ \/ opposite(p) /\ t[2].val < 0
       \/ Is("Add", p) /\ Is("Minus", t[1]) /\ t[2].val > 0

NotRecognised(p) == Wrapped(p) \/ OppositeOfState(p) \/ NumberFirst(p) \/ NegativeToNegate(p)

(* removeAliasEquations leaves no equality, outside of loops, that says that a variable that
   is no state is another variable, its opposite or a number, but for those of the four
   forms it does not recognise. *)
NoAliasLeft ==
  pc = "done" =>
    \A eq \in Range(equations) :
      \A p \in Compared(eq) : ~IsForEq(eq) /\ Useful(p) => NotRecognised(p)

(* What a scan has left to do, given the number of equations *)
phase ==
  CASE pc = "scan" -> Len(equations) + 3 - pos
    [] pc = "test" -> IF aliased THEN Len(equations) + 4 ELSE 1
    [] pc \in {"done", "error"} -> 0

(* The list is erased from while it is walked, and the walk starts again: every step
   leaves fewer equations, or as many and less of a scan to do. *)
EachStepLowers ==
  [][\/ Len(equations') < Len(equations)
     \/ /\ Len(equations') = Len(equations)
        /\ 0 =< phase' /\ phase' < phase]_avars

(* do .. while (aliased) ends: each turn that aliases leaves fewer equations. *)
AliasTerminates == <>(pc \in {"done", "error"})
=============================================================================
