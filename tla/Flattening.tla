------------------------------- MODULE Flattening -------------------------------
(***************************************************************************)
(* The flatter: Flatter::Flat takes the variables of a class one after     *)
(* another; one of a class type is flattened first, then LevelUp moves all *)
(* of it one level up.  The calls of Flat that have not returned are the   *)
(* stack.  What is left is turned into the graph of its connections by     *)
(* GenerateSBGInput of src/flatter.                                        *)
(***************************************************************************)
EXTENDS MMOClass

VARIABLES
  file,       \* the classes, and the name of the one to flatten  (never changes)
  stack,      \* calls of Flat: [class, rest, name, info, type]
  label,      \* the loop counters _Index_0, _Index_1, ... that were handed out
  pc

vars == <<file, stack, label, pc>>

Frame(c, name, info, type) ==
  [class |-> [c EXCEPT !.vars = <<>>], rest |-> c.vars, name |-> name, info |-> info, type |-> type]
top  == stack[1]
Replace(frame) == stack' = <<frame>> \o Tail(stack)
NoInfo == VarInfo({}, <<"Real">>, NoMod, <<>>)

-----------------------------------------------------------------------------
(***************************************************************************)
(* Expressions and equations, from the level of a component to the level   *)
(* of the class around it.  down is the class of the component, prefix its *)
(* name, index the loop counters over its dimensions.                      *)
(***************************************************************************)
Located(syms, consts, prefix, index) == [syms |-> syms, consts |-> consts, prefix |-> prefix, index |-> index]

(* At the end: names are joined, nothing else *)
JoinOnly == Located(<<>>, NoInfo, <<>>, <<>>)

RECURSIVE Apply(_, _, _), findConst(_, _, _, _)
(* ERROR: the program ends. *)
Error == [kind |-> "error"]

(* A.B.n, where A and B are classes, stands for the value of n; A may not be another type. *)
findInType(m, d, parts, k) ==
  IF d.ok /\ isClass(d.type) THEN findConst(m, classOf(m, d.type), parts, k) ELSE Error
findConst(m, c, parts, k) ==
  LET n == parts[k][1]
      v == c.syms[n]
  IN  IF k > Len(parts) THEN NoExp
      ELSE IF Len(n) = 1 /\ findTypeByName(m, c, n[1]).found
      THEN findInType(m, resolveDependencies(m, c, n[1]), parts, k + 1)
      ELSE IF k > 1 /\ n \in DOMAIN c.syms
      THEN IF v.mod.kind = "eq" THEN Apply(m, Located(c.syms, c, <<"">>, <<>>), v.mod.exp)
           ELSE findConst(m, c, parts, k + 1)
      ELSE NoExp

(* Names are joined and subscripts put together; the subscripts are not looked into. *)
joined(dot, parts) ==
  Ref(<< <<dot.prefix \o FlattenSeq([k \in DOMAIN parts |-> parts[k][1]]),
           dot.index \o FlattenSeq([k \in DOMAIN parts |-> parts[k][2]])>> >>)

(* DotExpression *)
unlessConst(const, dot, e) ==
  IF const # NoExp THEN const
  ELSE IF e.parts[1][1] \notin DOMAIN dot.syms THEN e
  ELSE joined(dot, e.parts)

\* mutant: the subscripts of the component are left out
dotReferenceShort(m, dot, e) ==
  IF e.parts[1][1] \in DOMAIN dot.syms /\ dot.syms[e.parts[1][1]].builtin THEN e
  ELSE unlessConst(findConst(m, dot.consts, e.parts, 1), [dot EXCEPT !.index = <<>>], e)

dotReference(m, dot, e) ==
  LET n == e.parts[1][1]
  IN  IF n \in DOMAIN dot.syms /\ dot.syms[n].builtin THEN e
      ELSE unlessConst(findConst(m, dot.consts, e.parts, 1), dot, e)

Apply(m, dot, e) ==
  CASE e.kind = "num" -> e
    [] e.kind = "op"  -> [e EXCEPT !.args = [k \in DOMAIN @ |-> Apply(m, dot, @[k])]]
    [] e.kind = "ref" -> IF dot = JoinOnly THEN joined(dot, e.parts) ELSE dotReference(m, dot, e)

(* Equations: [kind, exps] for = and connect, [kind, index, elements] for loops, [kind,
   exps, elements, ifnot] for if; statements: assignments [kind, exps], and loops *)
RECURSIVE ApplyEq(_, _, _), ApplySt(_, _, _)
expsOf(x) == IF x.kind = "for" THEN [k \in DOMAIN x.index |-> x.index[k][2]] ELSE x.exps
withExps(x, exps) ==
  IF x.kind = "for" THEN [x EXCEPT !.index = [k \in DOMAIN @ |-> <<@[k][1], exps[k]>>]]
  ELSE [x EXCEPT !.exps = exps]
applyAll(m, dot, exps) == [k \in DOMAIN exps |-> Apply(m, dot, exps[k])]
applyExps(m, dot, x) == withExps(x, applyAll(m, dot, expsOf(x)))

(* EquationVisitor: the bounds of loops, expressions, and the equations inside *)
ApplyEq(m, dot, eq) ==
  [part \in {"elements", "ifnot"} \cap DOMAIN eq |->
     [k \in DOMAIN eq[part] |-> ApplyEq(m, dot, eq[part][k])]] @@ applyExps(m, dot, eq)

(* StatementVisitor *)
ApplySt(m, dot, st) ==
  [part \in {"elements"} \cap DOMAIN st |->
     [k \in DOMAIN st[part] |-> ApplySt(m, dot, st[part][k])]] @@ applyExps(m, dot, st)

ApplyTo(m, dot, s, x) == IF s = "algorithm" THEN ApplySt(m, dot, x) ELSE ApplyEq(m, dot, x)

RECURSIVE MarkConnector(_)
(* The ends of a connection: + is a connector of a component, - one of the class itself *)
mark(e) ==
  IF e.kind = "op" THEN e ELSE Op(IF Len(e.parts) > 1 THEN "+" ELSE "-", <<e>>)
MarkConnector(eq) ==
  LET All(eqs) == [k \in DOMAIN eqs |-> MarkConnector(eqs[k])]
  IN  CASE eq.kind = "=" -> eq
        [] eq.kind = "connect" -> [eq EXCEPT !.exps = [k \in DOMAIN @ |-> mark(@[k])]]
        [] eq.kind = "for" -> [eq EXCEPT !.elements = All(@)]
        [] eq.kind = "if"  -> [eq EXCEPT !.elements = All(@), !.ifnot = All(@)]

Marked(c) ==
  [c EXCEPT !.sec = [s \in Sections |->
     IF s = "algorithm" THEN @[s] ELSE [k \in DOMAIN @[s] |-> MarkConnector(@[s][k])]]]

-----------------------------------------------------------------------------
(***************************************************************************)
(* LevelUp.  With an array of components every equation gets a loop, and a *)
(* value is repeated: = exp becomes = fill(exp, dimensions).               *)
(***************************************************************************)
adjusted(mod, dims) ==
  CASE mod.kind = "none" -> mod
    [] mod.kind = "eq"   -> ModEq(Op("fill", <<mod.exp>> \o dims))
    [] mod.kind = "class" ->
         [mod EXCEPT !.args = [k \in DOMAIN @ |->
            IF @[k].kind = "mod" /\ @[k].name \in {<<"start">>, <<"fixed">>}
            THEN [@[k] EXCEPT !.each = TRUE] ELSE @[k]]]

dotted(m, dot, mod) ==
  IF mod.kind = "none" \/ mod.exp = NoExp THEN mod ELSE [mod EXCEPT !.exp = Apply(m, dot, @)]

levelVar(m, up, down, nUp, viUp, n) ==
  LET v    == down.syms[n]
      dims == viUp.indices \o v.indices
      mod  == IF viUp.indices = <<>> THEN v.mod ELSE adjusted(v.mod, dims)
      dot  == Located(down.syms, down, nUp, <<>>)
  IN  IF n \notin DOMAIN down.syms THEN up
      ELSE [up EXCEPT !.vars = Append(@, nUp \o n),
                      !.syms = insert(@, nUp \o n, VarInfo(v.prefixes \ {"input", "output"}, v.type,
                                                           dotted(m, dot, mod), dims))]

counters(l, dims) == [k \in DOMAIN dims |-> <<"_Index_", l + k - 1>>]

inLoop(dims, names, eqs) ==
  LET range == [k \in DOMAIN names |-> <<names[k], Op(":", <<Num(1), dims[k]>>)>>]
  IN  IF dims = <<>> \/ eqs = <<>> THEN eqs ELSE <<[kind |-> "for", index |-> range, elements |-> eqs]>>

levelEqs(m, down, nUp, dims, names, s) ==
  LET index == [k \in DOMAIN names |-> Ref(<< <<names[k], <<>> >> >>)]
      dot   == Located(down.syms, down, nUp, index)
  IN  inLoop(dims, names, [k \in DOMAIN down.sec[s] |-> ApplyTo(m, dot, s, down.sec[s][k])])

LevelUp(m, up, down, nUp, viUp, l) ==
  LET names == counters(l, viUp.indices)
  IN  FoldLeft(LAMBDA acc, n : levelVar(m, acc, down, nUp, viUp, n),
               FoldLeft(LAMBDA acc, n : insertType(acc, n, down.tys[n]),
                        [up EXCEPT !.sec = [s \in Sections |-> @[s] \o levelEqs(m, down, nUp, viUp.indices, names, s)]],
                        down.types),
               down.vars)

RECURSIVE hasError(_), eqHasError(_)
hasError(e) == e = Error \/ (e.kind = "op" /\ \E k \in DOMAIN e.args : hasError(e.args[k]))
eqHasError(x) ==
  \/ \E e \in Range(expsOf(x)) : hasError(e)
  \/ \E part \in {"elements", "ifnot"} \cap DOMAIN x : \E y \in Range(x[part]) : eqHasError(y)
classHasError(c) ==
  \/ \E s \in Sections : \E x \in Range(c.sec[s]) : eqHasError(x)
  \/ \E n \in Range(c.vars) \cap DOMAIN c.syms :
       c.syms[n].mod.kind # "none" /\ hasError(c.syms[n].mod.exp)

(* A connector stays a variable, of a type with _ for every dot. *)
underscored(t) == <<FoldLeft(LAMBDA a, b : a \o "_" \o b, Head(t), Tail(t))>>
keepConnector(up, n, v, type) ==
  LET t == underscored(v.type)
      c == insertType(up, t[1], type)
  IN  [c EXCEPT !.vars = Append(@, n), !.syms = insert(@, n, [v EXCEPT !.type = t])]

-----------------------------------------------------------------------------
Init ==
  /\ file \in Models
  /\ stack = <<>> /\ label = 0 /\ pc = "start"

(* main: the class is found and Flat is called. *)
Start ==
  /\ pc = "start"
  /\ \E d \in {resolveType(file, Original(file, <<>>), <<file.name>>)} :
       \E c \in {ExpandAll(file, classOf(file, d.type))} :
         IF d.ok /\ c.ok
         THEN stack' = <<Frame(c, <<>>, NoInfo, d.type)>> /\ pc' = "flat"
         ELSE pc' = "exit" /\ UNCHANGED stack
  /\ UNCHANGED <<file, label>>

Exit == pc' = "exit" /\ UNCHANGED <<file, stack, label>>

(* The variable whose turn it is *)
Turn(n) == pc = "flat" /\ top.rest # <<>> /\ n = Head(top.rest)
Names   == IF stack = <<>> \/ top.rest = <<>> THEN {} ELSE {Head(top.rest)}

FlatBuiltin ==
  \E n \in Names :
    /\ Turn(n)
    /\ \E v \in {top.class.syms[n]} : \E d \in {resolveType(file, top.class, v.type)} :
         /\ d.ok /\ ~isClass(d.type)
         /\ \E w \in {[v EXCEPT !.indices = d.indices \o @, !.prefixes = @ \cup d.prefixes,
                               !.type = <<d.type.name>>]} :
              Replace([top EXCEPT !.rest = Tail(@), !.class.vars = Append(@, n), !.class.syms[n] = w])
    /\ UNCHANGED <<file, label, pc>>

(* The component is modified where it is declared, and flattened. *)
FlatComponent ==
  \E n \in Names :
    /\ Turn(n)
    /\ \E v \in {top.class.syms[n]} : \E d \in {resolveType(file, top.class, v.type)} :
         /\ d.ok /\ isClass(d.type)
         /\ \E down \in {ExpandAll(file, applyModification(file, top.class, classOf(file, d.type), v.mod))} :
              IF down.ok
              THEN /\ stack' = <<Frame(down, n, [v EXCEPT !.indices = d.indices \o @], d.type)>> \o stack
                   /\ pc' = pc
              ELSE pc' = "exit" /\ UNCHANGED stack
    /\ UNCHANGED <<file, label>>

Unresolved ==
  \E n \in Names :
    /\ Turn(n)
    /\ ~resolveType(file, top.class, top.class.syms[n].type).ok
    /\ Exit

Returning == pc = "flat" /\ top.rest = <<>> /\ Len(stack) > 1

(* The class of the caller once the class of the component has been moved up *)
movedUp == LevelUp(file, stack[2].class, Marked(top.class), top.name, top.info, label)

(* Flat of a component returns, and LevelUp is called. *)
Return ==
  /\ Returning
  /\ \E up \in {movedUp} :
       /\ ~classHasError(up)
       /\ stack' = <<[stack[2] EXCEPT
                       !.class = IF isConnector(top.class) THEN keepConnector(up, top.name, top.info, top.type) ELSE up,
                       !.rest = Tail(@)]>> \o SubSeq(stack, 3, Len(stack))
  /\ label' = label + Len(top.info.indices)
  /\ UNCHANGED <<file, pc>>

(* A reference names a type that is no class. *)
NoClass == Returning /\ classHasError(movedUp) /\ Exit

(* An if equation with neither else nor elseif has a condition that has a value. *)
isConstIf(eq) == eq.kind = "if" /\ eq.ifnot = <<>>
evaluated(c, eqs) ==
  LET Holds(eq) == EvalExpression(c.syms, eq.exps[1]) # 0
      ifs == SelectSeq(eqs, LAMBDA eq : isConstIf(eq) /\ Holds(eq))
  IN  SelectSeq(eqs, LAMBDA eq : ~isConstIf(eq)) \o FlattenSeq([k \in DOMAIN ifs |-> ifs[k].elements])

(* The first call of Flat ends with the names of references joined. *)
Finish ==
  /\ pc = "flat" /\ top.rest = <<>> /\ Len(stack) = 1
  /\ \E c \in {[Marked(top.class) EXCEPT !.types = <<>>]} :
       \E eqs \in {[s \in Sections |-> [k \in DOMAIN c.sec[s] |-> ApplyTo(file, JoinOnly, s, c.sec[s][k])]]} :
         Replace([top EXCEPT !.class = [c EXCEPT !.sec = [eqs EXCEPT !["equation"] = evaluated(c, @)]]])
  /\ pc' = "flattened"
  /\ UNCHANGED <<file, label>>

(* Variables of class types leave the list, and stay in the table. *)
removeConnectorVar ==
  /\ pc = "flattened"
  /\ \E c \in {top.class} :
       Replace([top EXCEPT !.class.vars = SelectSeq(@, LAMBDA n :
         n \in DOMAIN c.syms /\ ~isClass(resolveType(file, c, c.syms[n].type).type))])
  /\ pc' = "done"
  /\ UNCHANGED <<file, label>>

Ended   == pc \in {"done", "exit"}
Stopped == Ended /\ UNCHANGED vars

Next ==
  Stopped \/ Start \/ FlatBuiltin \/ FlatComponent \/ Unresolved \/ Return \/ NoClass \/ Finish \/ removeConnectorVar

Spec == Init /\ [][Next]_vars
=============================================================================
