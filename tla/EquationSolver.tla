---------------------------- MODULE EquationSolver ----------------------------
(***************************************************************************)
(* EquationSolver::Solve: from the causal model, in which every equation   *)
(* has the unknowns it is to be solved for, to the list of assignments the *)
(* program writes.  The matches are solved one after another, and then     *)
(* neighbouring for equations with one range are merged.                   *)
(*                                                                         *)
(* An access [var, a, b] is var[a*i + b].  An equation is [range, body];   *)
(* range is Scalar or <<start, step, end>>, and one that the solver writes *)
(* itself is <<start, end>>.  A member of a body is [var, uses].  In the   *)
(* causal model that is the unknown it is matched with, or Unmatched, and  *)
(* all accesses it has; in the result the unknown that is assigned and the *)
(* accesses that are read for it.                                          *)
(***************************************************************************)
EXTENDS Integers, SequencesExt

CONSTANTS
  GuessVars,   \* the names with the prefix tearing_var_guess_
  ResVars,     \* those with the prefix tearing_var_res_
  Models       \* the causal models that may be solved

VARIABLES
  causal_model,  \* the argument (never changes)
  lists,         \* the members of the match seen so far: guess_eqs, rest_eqs, ...
  causalized,    \* the solved equations
  grouped,       \* the result of groupForEquations
  last_range,    \* its local of the same name
  pc

evars == <<causal_model, lists, causalized, grouped, last_range, pc>>

Scalar == <<>>
Unmatched == [var |-> "0", a |-> 0, b |-> 0]
IsForEq(eq) == eq.range # Scalar

Accesses  == [var : STRING, a : Int, b : Int]
Ranges    == {Scalar} \cup {r \in Int \X Int \X Int : r[2] # 0}
Members   == [var : Accesses, uses : SUBSET (Accesses \ {Unmatched})]
Equations == [range : Ranges, body : Seq(Members)]

ASSUME ModelsAssumption == Models \subseteq Seq(Equations)

Solved(var, uses) == [var |-> var, uses |-> uses]
Single(range, s)  == [range |-> range, body |-> <<s>>]

containsAnyVar(s, names) == \E acc \in s.uses : acc.var \in names

(***************************************************************************)
(* lsolve: the members that have an unknown are solved as one linear       *)
(* system.  The solution for an unknown reads what the members it depends  *)
(* on use, the unknowns of the system excepted.                            *)
(***************************************************************************)
Matched(body) == {j \in DOMAIN body : body[j].var # Unmatched}

Closure(body, j) ==
  LET closed(S) == \A k \in Matched(body) : (\E l \in S : body[k].var \in body[l].uses) => k \in S
  IN  {k \in Matched(body) : \A S \in SUBSET Matched(body) : j \in S /\ closed(S) => k \in S}

lsolve(body) ==
  [j \in Matched(body) |->
     Solved(body[j].var,
            UNION {body[k].uses : k \in Closure(body, j)} \ {body[k].var : k \in Matched(body)})]

(***************************************************************************)
(* A range that goes down is turned round, and i becomes start + end - i.  *)
(* The range that is written is end : start, without a step.               *)
(***************************************************************************)
\* mutant: i becomes start - i
turnRoundStart(acc, range) ==
  [var |-> acc.var, a |-> -acc.a, b |-> acc.b + acc.a * range[1]]
turnRound(acc, range) ==
  [var |-> acc.var, a |-> -acc.a, b |-> acc.b + acc.a * (range[1] + range[3])]

updateForEquationRange(range, s) ==
  IF range[2] < 0
  THEN Single(<<range[3], range[1]>>,
              Solved(turnRound(s.var, range), {turnRound(acc, range) : acc \in s.uses}))
  ELSE Single(range, s)

(***************************************************************************)
(* The four lists into which Solve(eq, vars) takes a match apart, in the   *)
(* order of its result.  Guess equations and what has no unknown are kept  *)
(* as they are; the others are solved.                                     *)
(***************************************************************************)
guess_eqs == 1
rest_eqs == 2
res_eqs == 3
unmatched_eqs == 4

listOf(s) ==
  IF s.var = Unmatched THEN unmatched_eqs
  ELSE IF containsAnyVar(s, ResVars) THEN res_eqs
  ELSE IF containsAnyVar(s, GuessVars) THEN guess_eqs ELSE rest_eqs

isKept(s) == listOf(s) \in {guess_eqs, unmatched_eqs}

assignment(body, j) ==
  IF isKept(body[j]) THEN Solved(body[j].var, body[j].uses \ {body[j].var}) ELSE lsolve(body)[j]

written(eq, j) ==
  IF IsForEq(eq) /\ ~isKept(eq.body[j])
  THEN updateForEquationRange(eq.range, assignment(eq.body, j))
  ELSE Single(eq.range, assignment(eq.body, j))

-----------------------------------------------------------------------------
NoLists == [l \in 1..4 |-> <<>>]

EInit ==
  /\ causal_model \in Models
  /\ lists = NoLists /\ causalized = <<>> /\ grouped = <<>> /\ last_range = Scalar
  /\ pc = [at |-> "solve", turn |-> 1, member |-> 1]

Solving == pc.at = "solve" /\ pc.turn \in DOMAIN causal_model
Match == causal_model[pc.turn]

(* Solve(eq, vars) takes the next member of the match: a list holds its position. *)
\* mutant: what is matched with no unknown is dropped
SplitMatchedMember ==
  /\ Solving /\ pc.member \in DOMAIN Match.body
  /\ LET s == Match.body[pc.member]
     IN  lists' = IF s.var = Unmatched THEN lists
                  ELSE [lists EXCEPT ![listOf(s)] = Append(@, pc.member)]
  /\ pc' = [pc EXCEPT !.member = @ + 1]
  /\ UNCHANGED <<causal_model, causalized, grouped, last_range>>
SplitMember ==
  /\ Solving /\ pc.member \in DOMAIN Match.body
  /\ lists' = [lists EXCEPT ![listOf(Match.body[pc.member])] = Append(@, pc.member)]
  /\ pc' = [pc EXCEPT !.member = @ + 1]
  /\ UNCHANGED <<causal_model, causalized, grouped, last_range>>

(* Its result: guess equations as they were, then solved equations, then definitions of
   residuals, then the members without an unknown. *)
\* mutant: what has no unknown comes before the definitions of residuals
orderZerosEarly == lists[guess_eqs] \o lists[rest_eqs] \o lists[unmatched_eqs] \o lists[res_eqs]
order == lists[guess_eqs] \o lists[rest_eqs] \o lists[res_eqs] \o lists[unmatched_eqs]

SolveMatch ==
  /\ Solving /\ pc.member > Len(Match.body)
  /\ causalized' = causalized \o [n \in DOMAIN order |-> written(Match, order[n])]
  /\ lists' = NoLists
  /\ pc' = [pc EXCEPT !.turn = @ + 1, !.member = 1]
  /\ UNCHANGED <<causal_model, grouped, last_range>>

(* GiNaC finds no solution of the system: abort().  It is not even asked for one scalar
   equation with its unknown alone on a side, which is not told apart here. *)
CannotSolve ==
  /\ Solving /\ pc.member > Len(Match.body) /\ Matched(Match.body) # {}
  /\ pc' = [pc EXCEPT !.at = "abort"]
  /\ UNCHANGED <<causal_model, lists, causalized, grouped, last_range>>

StartGrouping ==
  /\ pc.at = "solve" /\ pc.turn > Len(causal_model)
  /\ pc' = [pc EXCEPT !.at = "group", !.turn = 1]
  /\ UNCHANGED <<causal_model, lists, causalized, grouped, last_range>>

mergeable(eq) ==
  /\ IsForEq(eq) /\ grouped # <<>>
  /\ IsForEq(Last(grouped)) /\ eq.range = last_range

merged(last, eq) == [range |-> last.range, body |-> last.body \o eq.body]

GroupEquation ==
  /\ pc.at = "group" /\ pc.turn \in DOMAIN causalized
  /\ LET eq == causalized[pc.turn]
     IN  IF mergeable(eq)
         THEN /\ grouped' = [grouped EXCEPT ![Len(grouped)] = merged(@, eq)]
              /\ UNCHANGED last_range
         ELSE /\ grouped' = Append(grouped, eq)
              /\ last_range' = IF IsForEq(eq) THEN eq.range ELSE last_range
  /\ pc' = [pc EXCEPT !.turn = @ + 1]
  /\ UNCHANGED <<causal_model, lists, causalized>>

Return ==
  /\ pc.at = "group" /\ pc.turn > Len(causalized)
  /\ pc' = [pc EXCEPT !.at = "done"]
  /\ UNCHANGED <<causal_model, lists, causalized, grouped, last_range>>

ENext == SplitMember \/ SolveMatch \/ CannotSolve \/ StartGrouping \/ GroupEquation \/ Return

ESpec == EInit /\ [][ENext]_evars

-----------------------------------------------------------------------------
(***************************************************************************)
(* Properties.  A list of equations is read as the program it stands for:  *)
(* its loops are run one after another, the counter takes its values in    *)
(* their order, and the body is run in its order for each of them.  A      *)
(* point <<k, c, j>> of the program is member j of equation k in turn c.   *)
(***************************************************************************)
StepOf(range) == IF Len(range) = 3 THEN range[2] ELSE 1
Steps(range) == IF range = Scalar THEN 1
                ELSE 1 + (IF StepOf(range) < 0 THEN (range[1] - Last(range)) \div (-StepOf(range))
                          ELSE (Last(range) - range[1]) \div StepOf(range))
CounterAt(range, c) == IF range = Scalar THEN 0 ELSE range[1] + (c - 1) * StepOf(range)

At(acc, i) == <<acc.var, acc.a * i + acc.b>>

Points(list) ==
  UNION {{k} \X (1..Steps(list[k].range)) \X DOMAIN list[k].body : k \in DOMAIN list}

Before(p, q) ==
  \/ p[1] < q[1]
  \/ p[1] = q[1] /\ p[2] < q[2]
  \/ p[1] = q[1] /\ p[2] = q[2] /\ p[3] < q[3]

counter(list, p) == CounterAt(list[p[1]].range, p[2])
defines(list, p) ==
  LET s == list[p[1]].body[p[3]] IN IF s.var = Unmatched THEN {} ELSE {At(s.var, counter(list, p))}
reads(list, p) == {At(acc, counter(list, p)) : acc \in list[p[1]].body[p[3]].uses}

(* What is found by running the list, and the equations that are checked to be zero *)
Unknowns(list) == UNION {defines(list, p) : p \in Points(list)}
Zeros(list) == {reads(list, p) : p \in {q \in Points(list) : defines(list, q) = {}}}

(* No two points define one unknown *)
Unambiguous(list) ==
  \A p, q \in Points(list) : defines(list, p) \cap defines(list, q) # {} => p = q

(* Nothing is read before it is defined *)
InOrder(list, names) ==
  \A p \in Points(list) :
    reads(list, p) \cap names
      \subseteq UNION {defines(list, q) : q \in {r \in Points(list) : Before(r, p)}}

(* Solve: every unknown the causal model matches, for all counters of its loop, is
   defined exactly once in the result, and nothing else is. *)
EachUnknownOnce ==
  pc.at = "done" => Unknowns(grouped) = Unknowns(causal_model) /\ Unambiguous(grouped)

(* The order that the vertical sorting has found is kept: with residuals moved to the
   end, ranges turned round and loops merged, no unknown is read before it is defined. *)
OrderKept == pc.at = "done" => InOrder(grouped, Unknowns(causal_model))

(* Splitting and grouping only move equations: every equation that is checked to be zero
   is still there, for all counters of its loop, and there are no others. *)
ZerosKept == pc.at = "done" => Zeros(grouped) = Zeros(causal_model)

(***************************************************************************)
(* What has to be known of a causal model for this.  TurnsByOne: the range *)
(* that is written has no step.  ReadsBehind: a loop that is merged with   *)
(* another one of its range is no longer run after all of it.              *)
(***************************************************************************)
TurnsByOne(model) ==
  \A k \in DOMAIN model : IsForEq(model[k]) => model[k].range[2] >= -1

Earlier(body, i, j) ==
  listOf(body[i]) < listOf(body[j]) \/ (listOf(body[i]) = listOf(body[j]) /\ i < j)

Behind(model, q, p) ==
  \/ q[1] < p[1] /\ (model[q[1]].range = model[p[1]].range => q[2] <= p[2])
  \/ /\ q[1] = p[1] /\ q[2] <= p[2]
     /\ \/ Earlier(model[p[1]].body, q[3], p[3])
        \/ q[2] < p[2] /\ written(model[p[1]], q[3]).range = written(model[p[1]], p[3]).range

assignedReads(model, p) ==
  {At(acc, counter(model, p)) : acc \in assignment(model[p[1]].body, p[3]).uses}

ReadsBehind(model) ==
  \A p \in Points(model) :
    assignedReads(model, p) \cap Unknowns(model)
      \subseteq UNION {defines(model, q) : q \in {r \in Points(model) : Behind(model, r, p)}}
=============================================================================
