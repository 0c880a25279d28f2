----------------------------- MODULE InstanceTree -----------------------------
(***************************************************************************)
(* What a file means, without flattening it: the tree of the instances of  *)
(* its classes.  An instance is one element of one component; what is      *)
(* declared in its class and in the classes that this one extends are its  *)
(* members.  Names are looked up in the instance, modifications belong to  *)
(* the instance they are written in, and the outermost one counts.         *)
(* The properties of Flattening compare the flat class with this tree.     *)
(***************************************************************************)
EXTENDS ConnectionGraph

(* An instance: its class, the path to it, and the modifications [mod, in] from outside *)
Scope(at, names, subs) == [at |-> at, names |-> names, subs |-> subs]
Instance(scope, mods)  == scope @@ [mods |-> mods]

Class(at)    == Tree(Root(file.classes), at)
Declared(at) == Class(at).elements \o Class(at).public
OfKind(at, kind) == SelectSeq(Declared(at), LAMBDA e : e.kind = kind)

Types(at) == SelectSeq(Declared(at), LAMBDA e : e.kind \in {"class", "def"})
TypeName(e) == IF e.kind = "class" THEN e.class.name ELSE e.name

RECURSIVE Bases(_), Find(_, _, _), Meaning(_, _)

(* Where the type n is declared, seen from a class *)
PlacesOf(bases) == [k \in DOMAIN bases |-> bases[k].at]
FoundIn(places, n) == {p \in Range(places) : \E e \in Range(Types(p)) : TypeName(e) = n}
FirstFound(places, n) == places[SelectInSeq(places, LAMBDA p : p \in FoundIn(places, n))]
TypeAt(at, n) == [found |-> TRUE, at |-> at, type |-> CHOOSE e \in Range(Types(at)) : TypeName(e) = n]
FindIn(places, at, n) ==
  IF FoundIn(places, n) # {} THEN TypeAt(FirstFound(places, n), n)
  ELSE IF at = <<>> THEN [found |-> FALSE] ELSE Find(Front(at), n, TRUE)
Find(at, n, inherited) == FindIn(IF inherited THEN PlacesOf(Bases(at)) ELSE <<at>>, at, n)

(* What the type t means in a class *)
Means(builtin, at) == [builtin |-> builtin, at |-> at, prefixes |-> {}, indices |-> <<>>, mods |-> <<>>]
(* d, with what a declaration or redeclaration of a type adds to it *)
With(d, type, scope) ==
  [d EXCEPT !.prefixes = @ \cup type.prefixes, !.indices = type.indices \o @,
            !.mods = Append(@, [mod |-> ModClass(type.mods, NoExp), in |-> scope])]
OfType(at, type) ==
  IF type.kind = "class" THEN Means("", at \o <<type.class.name>>)
  ELSE With(Meaning(at, type.type), type, Scope(at, <<>>, <<>>))

(* A name with nothing in the classes around it is that of a built-in type. *)
OfFound(f, n) == IF f.found THEN OfType(f.at, f.type) ELSE Means(n, <<>>)
Meaning(at, t) ==
  FoldLeft(LAMBDA d, n : OfFound(Find(d.at, n, TRUE), n), Means("", at), t)

(* The class and those it extends, with the modifications of the extends clauses, the
   outermost last *)
Modified(bases, mods) == [k \in DOMAIN bases |-> [bases[k] EXCEPT !.mods = Append(@, mods)]]
Bases(at) ==
  LET exts == OfKind(at, "extends")
      Of(e) == Modified(Bases(Find(at, Head(e.name), FALSE).at \o e.name), e.mods)
  IN  <<[at |-> at, mods |-> <<>>]>> \o FlattenSeq([k \in DOMAIN exts |-> Of(exts[k])])

-----------------------------------------------------------------------------
(* Members: a declaration with its modifications, the outermost last *)
Modifiers(i, base) ==
  [k \in DOMAIN base.mods |-> [mod |-> ModClass(base.mods[k], NoExp), in |-> Scope(i.at, i.names, i.subs)]] \o i.mods

Arguments(mods, Test(_)) ==
  FlattenSeq([k \in DOMAIN mods |->
    IF mods[k].mod.kind # "class" THEN <<>>
    ELSE LET args == SelectSeq(mods[k].mod.args, Test)
         IN  [j \in DOMAIN args |-> [arg |-> args[j], in |-> mods[k].in]]])

ForName(mods, n)     == Arguments(mods, LAMBDA a : a.kind \in {"mod", "component"} /\ a.name = n)
Redeclared(mods, n)  == Arguments(mods, LAMBDA a : a.kind = "component" /\ a.name = n)
RedeclaredType(mods, t) == Arguments(mods, LAMBDA a : a.kind = "type" /\ a.name = t)

TypeOf(mods, at, t) ==
  LET r == RedeclaredType(mods, t)
      Redeclare(d) == IF r = <<>> THEN d ELSE With(d, Last(r).arg, Last(r).in)
  IN  Redeclare(Meaning(IF r = <<>> THEN at ELSE Last(r).in.at, IF r = <<>> THEN t ELSE Last(r).arg.derived))

MemberOf(type, n, indices, prefixes, mods) ==
  [name |-> n, type |-> type, indices |-> indices \o type.indices,
   prefixes |-> prefixes \cup type.prefixes, mods |-> type.mods \o mods]
Member(i, base, e, d) ==
  LET mods == Modifiers(i, base)
      r    == Redeclared(mods, d.name)
      new  == Last(r)
      said == IF r = <<>> THEN [mods |-> mods, at |-> base.at, type |-> e.type]
              ELSE [mods |-> <<>>, at |-> new.in.at, type |-> new.arg.type]
      args == ForName(mods, d.name)
      own  == <<[mod |-> d.mod, in |-> Scope(i.at, i.names, i.subs)]>>
                \o [k \in DOMAIN args |-> [mod |-> args[k].arg.mod, in |-> args[k].in]]
  IN  MemberOf(TypeOf(said.mods, said.at, said.type), d.name,
               IF r = <<>> THEN e.indices \o d.indices ELSE new.arg.indices,
               IF r = <<>> THEN e.prefixes ELSE new.arg.prefixes, own)

Value(mods, none) ==
  LET k == SelectLastInSeq(mods, LAMBDA x : x.mod.kind # "none" /\ x.mod.exp # NoExp)
  IN  IF k = 0 THEN none ELSE [exp |-> mods[k].mod.exp, in |-> mods[k].in]

(* A condition is a parameter of the class that declares it. *)
Present(i, base, d) ==
  LET n     == d.cond.parts[1][1]
      es    == OfKind(base.at, "component")
      owner == CHOOSE o \in UNION {Range(es[k].decls) : k \in DOMAIN es} : o.name = n
      args  == ForName(Modifiers(i, base), n)
      value == Value(<<[mod |-> owner.mod, in |-> <<>>]>> \o [k \in DOMAIN args |-> [mod |-> args[k].arg.mod, in |-> <<>>]], <<>>)
  IN  d.cond = NoExp \/ value.exp # Num(0)

DeclaredBy(i, base, e) ==
  LET ds == SelectSeq(e.decls, LAMBDA d : Present(i, base, d))
  IN  [j \in DOMAIN ds |-> Member(i, base, e, ds[j])]
FromBases(i, bases) ==
  FlattenSeq([k \in DOMAIN bases |->
    LET es == OfKind(bases[k].at, "component")
    IN  FlattenSeq([j \in DOMAIN es |-> DeclaredBy(i, bases[k], es[j])])])
Members(i) == FromBases(i, Bases(i.at))
MemberNamed(members, n) == members[SelectInSeq(members, LAMBDA x : x.name = n)]

(* The instances in a component, one for each of its elements *)
Subscripts(dims) ==
  FoldLeft(LAMBDA S, d : {s \o <<j>> : s \in S, j \in 1..d.n}, {<<>>}, dims)
Inside(i, member) ==
  {Instance(Scope(member.type.at, i.names \o member.name, i.subs \o s), member.mods) : s \in Subscripts(member.indices)}

TopInstance == Instance(Scope(Meaning(<<>>, <<file.name>>).at, <<>>, <<>>), <<>>)

RECURSIVE Below(_)
Below(i) ==
  {i} \cup UNION {UNION {Below(j) : j \in Inside(i, m)} : m \in {m \in Range(Members(i)) : m.type.builtin = ""}}

-----------------------------------------------------------------------------
(* Expressions with a meaning: an element of a variable, a number, an operator *)
Element(name, subs) == [kind |-> "element", name |-> name, subs |-> subs]

(* Subscripts are numbers, counters, and sums and differences of them. *)
RECURSIVE Subscript(_, _)
Subscript(e, env) ==
  CASE e.kind = "num" -> e.n
    [] e.kind = "ref" -> env[e.parts[1][1]]
    [] e.kind = "op"  -> IF e.f = "-" THEN Subscript(e.args[1], env) - Subscript(e.args[2], env)
                         ELSE Subscript(e.args[1], env) + Subscript(e.args[2], env)
SubscriptValues(subs, env) == [k \in DOMAIN subs |-> Subscript(subs[k], env)]

RECURSIVE Resolved(_, _, _)
(* In a scope, with values for the loop counters *)
ConstantIn(at, n) ==
  Resolved(Value(MemberNamed(Members(Instance(Scope(at, <<>>, <<>>), <<>>)), n).mods, <<>>).exp,
           Scope(at, <<>>, <<>>), <<>>)
Constant(scope, parts) ==
  ConstantIn(Meaning(scope.at, [k \in 1..Len(parts) - 1 |-> parts[k][1][1]]).at, Last(parts)[1])

MemberNames(at) == {x.name : x \in Range(Members(Instance(Scope(at, <<>>, <<>>), <<>>)))}

Resolved(e, scope, env) ==
  CASE e.kind = "num" -> e
    [] e.kind = "op"  -> [e EXCEPT !.args = [k \in DOMAIN @ |-> Resolved(@[k], scope, env)]]
    [] e.kind = "ref" ->
         LET n    == e.parts[1][1]
             subs == FlattenSeq([k \in DOMAIN e.parts |-> e.parts[k][2]])
         IN  IF n \in DOMAIN env THEN Num(env[n])
             ELSE IF n = time THEN Element(n, <<>>)
             ELSE IF n \in MemberNames(scope.at)
             THEN Element(scope.names \o FlattenSeq([k \in DOMAIN e.parts |-> e.parts[k][1]]),
                          scope.subs \o SubscriptValues(subs, env))
             ELSE Constant(scope, e.parts)

(* Loops: all values of their counters *)
Environments(index, env) ==
  LET Values(range, v) == Subscript(range.args[1], v)..Subscript(range.args[2], v)
  IN  FoldLeft(LAMBDA S, x : UNION {{insert(v, x[1], j) : j \in Values(x[2], v)} : v \in S}, {env}, index)

RECURSIVE Elementary(_, _)
(* Every equation out of its loops, with the values of their counters *)
Elementary(eqs, env) ==
  UNION {IF eqs[k].kind # "for" THEN {<<eqs[k], env>>}
         ELSE UNION {Elementary(eqs[k].elements, v) : v \in Environments(eqs[k].index, env)} : k \in DOMAIN eqs}

Equation(pair, Exp(_, _)) ==
  IF pair[1].kind = "if" THEN pair[1]
  ELSE [pair[1] EXCEPT !.exps = [k \in DOMAIN @ |-> Exp(@[k], pair[2])]]

-----------------------------------------------------------------------------
(* What the instances say.  An if equation without else says what its condition decides. *)
Evaluated(val) == Resolved(val.exp, val.in, <<>>)
Holds(cond, i) == Evaluated(Value(MemberNamed(Members(i), cond.parts[1][1]).mods, <<>>)) # Num(0)

Decided(eqs, i) ==
  FlattenSeq([k \in DOMAIN eqs |->
    IF eqs[k].kind # "if" THEN <<eqs[k]>> ELSE IF Holds(eqs[k].exps[1], i) THEN eqs[k].elements ELSE <<>>])

RECURSIVE MarkedEnds(_)
MarkedEnds(eqs) ==
  [k \in DOMAIN eqs |->
     CASE eqs[k].kind = "for" -> [eqs[k] EXCEPT !.elements = MarkedEnds(@)]
       [] eqs[k].kind = "connect" ->
            [eqs[k] EXCEPT !.exps = [j \in 1..2 |-> Op(IF Len(@[j].parts) = 1 THEN "-" ELSE "+", <<@[j]>>)]]
       [] OTHER -> eqs[k]]

Section(bases, s) == FlattenSeq([k \in DOMAIN bases |-> Class(bases[k].at).sec[s]])
SaidBy(i, s) ==
  LET all == Section(Bases(i.at), s)
  IN  {Equation(p, LAMBDA e, env : Resolved(e, i, env)) :
         p \in Elementary(IF s = "algorithm" THEN all ELSE MarkedEnds(Decided(all, i)), <<>>)}

(* The elements of the variables.  Prefixes input and output end at the border of the model.
   A start value is for each element of an array of components. *)
StartValue(mods, each) ==
  LET all == ForName(mods, <<"start">>)
  IN  IF all = <<>> THEN <<>> ELSE << <<Last(all).arg.mod.exp, each>> >>

ElementsIn(i) ==
  UNION {{[name     |-> i.names \o x.name, subs |-> i.subs \o s, type |-> <<x.type.builtin>>,
           prefixes |-> IF i.names = <<>> THEN x.prefixes ELSE x.prefixes \ {"input", "output"},
           value    |-> IF Value(x.mods, <<>>) = <<>> THEN NoExp ELSE Evaluated(Value(x.mods, <<>>)),
           start    |-> StartValue(x.mods, i.subs # <<>>)] : s \in Subscripts(x.indices)}
         : x \in {x \in Range(Members(i)) : x.type.builtin # ""}}

-----------------------------------------------------------------------------
(* What the flat class says: names are joined, and nothing is looked up. *)
RECURSIVE Read(_, _)
Read(e, env) ==
  CASE e.kind = "num" -> e
    [] e.kind = "op"  -> [e EXCEPT !.args = [k \in DOMAIN @ |-> Read(@[k], env)]]
    [] e.kind = "ref" ->
         LET n == e.parts[1][1] IN IF n \in DOMAIN env THEN Num(env[n]) ELSE Element(n, SubscriptValues(e.parts[1][2], env))

FlatEquations(s) == {Equation(p, Read) : p \in Elementary(flat.sec[s], <<>>)}

RECURSIVE Filled(_)
Filled(e) == IF e.kind = "op" /\ e.f = "fill" THEN Filled(e.args[1]) ELSE e

FlatStart(mod) ==
  LET all == ForName(<<[mod |-> mod, in |-> <<>>]>>, <<"start">>)
  IN  [k \in DOMAIN all |-> <<all[k].arg.mod.exp, all[k].arg.each>>]

FlatElements ==
  UNION {LET v   == flat.syms[n]
             has == v.mod.kind # "none" /\ v.mod.exp # NoExp
         IN  {[name |-> n, subs |-> s, type |-> v.type, prefixes |-> v.prefixes,
               value |-> IF has THEN Read(Filled(v.mod.exp), <<>>) ELSE NoExp,
               start |-> FlatStart(v.mod)] : s \in Subscripts(v.indices)}
         : n \in Range(flat.vars)}

-----------------------------------------------------------------------------
Done == pc = "done" /\ stage = "flatten"
Instances == Below(TopInstance)
Named(x) == [name |-> x.name, subs |-> x.subs, type |-> x.type, prefixes |-> x.prefixes]

(***************************************************************************)
(* The flat class declares the elements of the instances, each once: no    *)
(* variable is lost, doubled or of another size, type or prefix, through   *)
(* inheritance, redeclarations and arrays of components.                   *)
(***************************************************************************)
SameVariables ==
  Done => /\ {Named(x) : x \in FlatElements} = {Named(x) : x \in UNION {ElementsIn(i) : i \in Instances}}
          /\ \A j, k \in DOMAIN flat.vars : flat.vars[j] = flat.vars[k] => j = k

(***************************************************************************)
(* Each has the value and the start value of the outermost modification,   *)
(* read where that modification is written.                                *)
(***************************************************************************)
ValuesKept ==
  Done => FlatElements = UNION {ElementsIn(i) : i \in Instances}

(***************************************************************************)
(* The flat equations, out of their loops, are those of the instances: the *)
(* references name the elements they name in the class they come from.     *)
(***************************************************************************)
EquationsKept ==
  Done => \A s \in Sections : FlatEquations(s) = UNION {SaidBy(i, s) : i \in Instances}

(***************************************************************************)
(* The graph joins the elements that the connect equations of the          *)
(* instances connect, and has no other vertices.                           *)
(***************************************************************************)
Point(v) ==
  LET sv == CHOOSE sv \in Range(sbg.set_vertices) : v \in Vertices(sv)
  IN  <<sv.name, v - sv.translation>>

Connections ==
  LET End(e) == <<e.args[1].name, IF e.args[1].subs = <<>> THEN 1 ELSE e.args[1].subs[1]>>
  IN  {{End(eq.exps[1]), End(eq.exps[2])} :
         eq \in {eq \in UNION {SaidBy(i, "equation") : i \in Instances} : eq.kind = "connect"}}

ConnectionsKept ==
  stage = "done" =>
    \E connections \in {Connections} :
      /\ {{Point(graph.map1[e]), Point(graph.map2[e])} : e \in DOMAIN graph.map1} = connections
      /\ {Point(v) : v \in graph.V} = UNION connections

(***************************************************************************)
(* The program ends with a message for the files that name a class, a type *)
(* or a variable that is not there or a type where a value should be, that *)
(* connect something to itself or have a loop that goes down, and for no   *)
(* other.                                                                  *)
(***************************************************************************)
ErrorsFound == /\ stage = "done" => file.ends = "done"
               /\ stage = "exit" => file.ends = "no graph"
               /\ Done => file.ends # "no class"
               /\ pc = "exit" => file.ends = "no class"
=============================================================================
