-------------------------- MODULE CausalFormatProps --------------------------
(***************************************************************************)
(* What the texts of the causalization say of the model.                   *)
(***************************************************************************)
EXTENDS ModelicaSBGModifier

(* The instances of the equations, and the elements of the variables *)
Equations == {<<k, i>> : k \in DOMAIN model.eqs, i \in UNION {Instances(model.eqs[j]) : j \in DOMAIN model.eqs}}
             \cap UNION {{k} \X Instances(model.eqs[k]) : k \in DOMAIN model.eqs}
Unknowns == UNION {{v} \X Elements(model.vars[v]) :
                     v \in {v \in DOMAIN model.vars : isVariable(model.vars[v])}}

(* What a matched edge of the graph joins *)
equationAt(e) == CHOOSE q \in Equations : NodeOf(q[1], TRUE, q[2]) = Builders!mapF[e]
unknownAt(e)  == CHOOSE u \in Unknowns : NodeOf(u[1], FALSE, u[2]) = Builders!mapU[e]

(* What a shown equation, or an access in it, stands for at a counter *)
Counters(range) == IF range = Scalar THEN {1} ELSE Counter(range)
elementAt(acc, i) == <<acc.var, Subscript(model.vars[acc.var], acc, i)>>

OnceEach(S, T) == Cardinality(S) = Cardinality(T)

-----------------------------------------------------------------------------
(***************************************************************************)
(* "Horizontal sort": the equations that are shown with their unknowns are *)
(* the matching.  Every instance of every equation is there once, with the *)
(* element that it is matched to, whatever part of an array a set-edge was *)
(* restricted to.                                                          *)
(***************************************************************************)
HorizontalShown ==
  LET shown == UNION {{<<n, i>> : i \in Counters(horizontal_sort[n].range)} :
                        n \in DOMAIN horizontal_sort}
      pair(s) == <<horizontal_sort[s[1]].info.of, s[2], elementAt(horizontal_sort[s[1]].var, s[2])>>
  IN  cstage = "AlgebraicLoopsDetector" =>
        /\ {pair(s) : s \in shown} = {equationAt(e) \o <<unknownAt(e)>> : e \in M}
        /\ OnceEach(shown, M)

(***************************************************************************)
(* "Algebraic loops": what is shown as one loop is one loop of the graph,  *)
(* an array of loops is a loop for each of its counters, and no equation   *)
(* is shown twice.                                                         *)
(***************************************************************************)
LoopsShown ==
  LET turns == UNION {{n} \X Counters(loops[n].range) : n \in DOMAIN loops}
      inside(t, eq) == IF loops[t[1]].range = Scalar THEN Counters(eq.range) ELSE {t[2]}
      equations(t) == LET eqs == loops[t[1]].equations
                      IN  UNION {{<<eqs[k].info.of, i>> : i \in inside(t, eqs[k])} : k \in DOMAIN eqs}
      size(t) == LET eqs == loops[t[1]].equations
                 IN  FoldSet(LAMBDA k, n : n + Cardinality(inside(t, eqs[k])), 0, DOMAIN eqs)
  IN  cstage = "TearingDetector" /\ ~ LoopsToShow =>
        /\ {equations(t) : t \in turns}
             = {{equationAt(e) : e \in preImage(rmap, {c})} : c \in FixedPoints(rmap)}
        /\ OnceEach(turns, FixedPoints(rmap))
        /\ \A t \in turns : size(t) = Cardinality(equations(t))

(* "Tearing": the elements that are shown are those the torn equations are solved for. *)
TearingShown ==
  cstage = "addGuessVertices" =>
    UNION {{t.var} \X Counter(t.range) : t \in tearing} = {unknownAt(e) : e \in residual}

(* What the program shows of the three stages is what they computed. *)
StagesShown == HorizontalShown /\ LoopsShown /\ TearingShown

-----------------------------------------------------------------------------
(***************************************************************************)
(* Every vertex of the sort, those of the model and the guesses, is found  *)
(* in one set-edge of the changed graph: sortLoop takes the equations of a *)
(* vertex from all the set-edges that have it.                             *)
(***************************************************************************)
VerticesFound ==
  cstage = "sortLoops" => \A v \in out.V : Len(format(v)) = 1

shown(v) == format(v)[1]

(***************************************************************************)
(* Tearing that the modifier is made for: an array of equations is torn as *)
(* a whole or not at all, through a set-edge that is the only one to tear  *)
(* its variable, and by an array from its first element on.                *)
(***************************************************************************)
WholeArrays ==
  \A se \in Range(Torn(matched)) :
    /\ se.domain = svOf(matched, se.eq_id).set /\ se_res(se) = translatedDomain(se)
    /\ \A other \in Range(Torn(matched)) : other.var_id = se.var_id => other = se
    /\ Cardinality(se.domain) > 1 =>
         {elementAt(se.access, i)[2] : i \in se.domain} = 1..Cardinality(se.domain)

(* An auxiliary variable at a counter, and the arrays that are declared *)
auxAt(aux, i) == <<aux.name, IF aux.sub = <<>> THEN 0 ELSE aux.sub[1] * i + aux.sub[2]>>

declared(a) ==
  {n \in DOMAIN added_variables : added_variables[n].name = a[1]
                                  /\ IF added_variables[n].size = 0 THEN a[2] = 0
                                     ELSE a[2] \in 1..added_variables[n].size}

(***************************************************************************)
(* The sort is shown in the equations of the model: an untorn vertex shows *)
(* its own equation as it is, matched to its own unknown; a torn one shows *)
(* its equation with its residual, matched to it; and the guess of a torn  *)
(* one says that its unknown is the guess.                                 *)
(***************************************************************************)
OwnEquation(v) ==
  /\ <<shown(v).info.of, shown(v).at>> = equationAt(v)
  /\ shown(v).info.sides = <<>>

UntornAsIs(v) ==
  /\ OwnEquation(v) /\ shown(v).info.added = <<>>
  /\ elementAt(shown(v).var, shown(v).at) = unknownAt(v)

TornWithResidual(v) ==
  /\ OwnEquation(v) /\ shown(v).info.added = <<shown(v).var>>
  /\ shown(v).var.name[1] = kTearingResPrefix /\ shown(v).zero = <<shown(v).var>>

GuessOfTorn(v) ==
  LET g == shown(guess_offset[v])
  IN  /\ elementAt(g.var, g.at) = unknownAt(v) /\ g.zero = <<>>
      /\ g.info.sides[1] = g.var /\ g.info.sides[2].name[1] = kTearingGuessPrefix
      /\ g.info.added = <<>>

TornEquationsShown ==
  cstage = "sortLoops" /\ WholeArrays =>
    /\ \A v \in M \ residual : UntornAsIs(v)
    /\ \A v \in residual : TornWithResidual(v) /\ GuessOfTorn(v)

(***************************************************************************)
(* Every torn unknown has a guess and a residual to itself, which are      *)
(* declared, once and large enough.                                        *)
(***************************************************************************)
guessOf(v) == auxAt(shown(guess_offset[v]).info.sides[2], shown(guess_offset[v]).at)
residualOf(v) == auxAt(shown(v).var, shown(v).at)

OwnAuxVars ==
  /\ \A v \in residual : Cardinality(declared(guessOf(v))) = 1
                         /\ Cardinality(declared(residualOf(v))) = 1
  /\ \A v, w \in residual : v # w => guessOf(v) # guessOf(w) /\ residualOf(v) # residualOf(w)

AuxVarsDeclared == cstage = "sortLoops" /\ WholeArrays => OwnAuxVars

(***************************************************************************)
(* Why the causalization of a model ends before it is sorted: one that the *)
(* generation does not support, one that is not square, an array that has  *)
(* loops which are not the same ones for each counter, and a tearing       *)
(* variable that is a scalar or a derivative.  With the deadlock check:    *)
(* every other model is shown to the end.                                  *)
(***************************************************************************)
loopOf(c) == {equationAt(e) : e \in preImage(rmap, {c})}

LinedUp(c) == \A q \in loopOf(c) : q[2] = equationAt(c)[2] /\ ~ IsScalar(model.eqs[q[1]])

StoppedForAReason ==
  /\ stage = "ERROR" => ~ Supported(model)
  /\ cstage = "unbalanced" => Cardinality(Equations) # Cardinality(Unknowns)
  /\ cstage = "not supported" =>
       \E c, d \in FixedPoints(rmap) : /\ c # d /\ equationAt(c)[1] = equationAt(d)[1]
                                       /\ ~ LinedUp(c)
  /\ cstage \in {"undefined", "bad_get"} =>
       \E e \in residual : \E acc \in Accesses(model.eqs[equationAt(e)[1]]) :
         acc.var = unknownAt(e)[1] /\ (sizeOf(acc.var) = 0 \/ acc.der)
=============================================================================
