----------------------------- MODULE CausalOrder -----------------------------
(***************************************************************************)
(* What causalization promises.  A model is written as a sequence of       *)
(* assignments that can be executed from the first to the last.  Every     *)
(* equation is used once: either it is solved for the unknown it is        *)
(* matched with, when all its other unknowns are known, or that unknown    *)
(* was guessed before and the equation, all its unknowns known, gives a    *)
(* residual that must be zero.                                             *)
(*                                                                         *)
(* reads[v] is what the equation of v reads: the v that stand for its      *)
(* unknowns.  The matching is not known from the start: reads is empty     *)
(* until a matching is chosen.                                             *)
(***************************************************************************)
EXTENDS Integers

VARIABLES
  reads,     \* vertex -> the vertices whose unknowns its equation reads
  known,     \* vertices whose unknown has a value
  guessed,   \* vertices whose unknown was guessed
  used       \* vertices whose equation is used

avars == <<reads, known, guessed, used>>

AbsInit ==
  /\ reads = [v \in {} |-> {}]
  /\ known = {} /\ guessed = {} /\ used = {}

Match ==
  /\ DOMAIN reads = {}
  /\ DOMAIN reads' # {}
  /\ \A v \in DOMAIN reads' : reads'[v] \subseteq DOMAIN reads'
  /\ UNCHANGED <<known, guessed, used>>

Guess(v) ==
  /\ v \notin known
  /\ known' = known \cup {v}
  /\ guessed' = guessed \cup {v}
  /\ UNCHANGED <<reads, used>>

Solve(v) ==
  /\ v \notin known
  /\ v \notin used
  /\ reads[v] \ {v} \subseteq known
  /\ known' = known \cup {v}
  /\ used' = used \cup {v}
  /\ UNCHANGED <<reads, guessed>>

Residual(v) ==
  /\ v \in guessed
  /\ v \notin used
  /\ reads[v] \subseteq known
  /\ used' = used \cup {v}
  /\ UNCHANGED <<reads, known, guessed>>

AbsNext == \/ Match
           \/ \E v \in DOMAIN reads : Guess(v) \/ Solve(v) \/ Residual(v)

AbsSpec == AbsInit /\ [][AbsNext]_avars
=============================================================================
