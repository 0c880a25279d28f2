-------------------------------- MODULE MMOClass --------------------------------
(***************************************************************************)
(* A class of a model as src/mmo keeps it, and ClassFinder, which looks up *)
(* types, copies base classes into the classes that extend them, and       *)
(* applies modifications.                                                  *)
(*                                                                         *)
(* The name of a variable is the sequence of identifiers that "_" joins.   *)
(* A type is named by a sequence of identifiers with dots between them.    *)
(* A class that was read stays as it is and is pointed to by its path from *)
(* the root; whatever changes a class changes a copy.                      *)
(*                                                                         *)
(* ok = FALSE: the program has ended with a message.                       *)
(***************************************************************************)
EXTENDS Integers, SequencesExt

(* Expressions: numbers, references a[1].b.c[i], and operators or calls *)
Num(n)       == [kind |-> "num", n |-> n]
Ref(parts)   == [kind |-> "ref", parts |-> parts]   \* <<name, subscripts>>
Op(f, args)  == [kind |-> "op", f |-> f, args |-> args]
NoExp        == [kind |-> "none"]

(* Modifications: nothing, = exp, (arguments), (arguments) = exp *)
NoMod           == [kind |-> "none"]
ModEq(e)        == [kind |-> "eq", exp |-> e]
ModClass(as, e) == [kind |-> "class", args |-> as, exp |-> e]
ElMod(n, m)     == [kind |-> "mod", name |-> n, mod |-> m, each |-> FALSE]

(* Types *)
BuiltinNames == {"Real", "Integer", "Boolean", "String"}
Builtin(n)   == [kind |-> "builtin", name |-> n]
ClassAt(p)   == [kind |-> "class", path |-> p]        \* a class that was read
ClassCopy(c) == [kind |-> "copy", class |-> c]
isClass(t)   == t.kind \in {"class", "copy"}

(* Tables; to insert a name again is to replace what it stands for. *)
insert(table, k, v) == (k :> v) @@ table
remove(table, k)    == [n \in DOMAIN table \ {k} |-> table[n]]
time == <<"time">>

(* A symbol; comments are left out. *)
VarInfo(prefixes, type, mod, indices) ==
  [prefixes |-> prefixes, type |-> type, mod |-> mod, indices |-> indices, builtin |-> FALSE]

Sections == {"equation", "initial equation", "algorithm"}
EmptyClass(name, father, connector) ==
  [name |-> name, father |-> father, connector |-> connector, ok |-> TRUE,
   vars |-> <<>>, extends |-> <<>>, types |-> <<>>,
   syms |-> time :> [VarInfo({}, <<"Real">>, NoMod, <<>>) EXCEPT !.builtin = TRUE],
   tys |-> [n \in BuiltinNames |-> Builtin(n)],
   sec |-> [s \in Sections |-> <<>>]]

RECURSIVE EvalExpression(_, _)
EvalExpression(syms, e) ==
  CASE e.kind = "num" -> e.n
    [] e.kind = "op"  -> LET v(k) == EvalExpression(syms, e.args[k])
                         IN  IF e.f = "-" THEN v(1) - v(2) ELSE v(1) + v(2)
    [] e.kind = "ref" -> EvalExpression(syms, syms[e.parts[1][1]].mod.exp)

-----------------------------------------------------------------------------
(***************************************************************************)
(* The constructor.  A class in the syntax tree is [name, connector,       *)
(* elements, public, sec]; the elements of public sections come later and  *)
(* their conditions are not looked at.                                     *)
(***************************************************************************)
insertComponent(c, e) ==
  LET Info(d) == VarInfo(e.prefixes, e.type, d.mod, e.indices \o d.indices)
  IN  FoldLeft(LAMBDA acc, d : [acc EXCEPT !.vars = Append(@, d.name),
                                           !.syms = insert(@, d.name, Info(d))], c, e.decls)

insertType(c, n, t) == [c EXCEPT !.tys = insert(@, n, t), !.types = Append(@, n)]

(* The name by which an element that declares a type is known *)
typeOf(e) == IF e.kind = "class" THEN e.class.name ELSE e.name
insertElement(c, e, path) ==
  CASE e.kind = "component" -> insertComponent(c, e)
    [] e.kind = "extends"   -> [c EXCEPT !.extends = Append(@, e)]
    [] e.kind \in {"class", "def"} ->
         LET n == typeOf(e) IN insertType(c, n, IF e.kind = "class" THEN ClassAt(path \o <<n>>) ELSE e)

\* mutant: the condition of a declaration is not looked at
removeConditionalNever(c, elements) == c
removeIfFalse(c, d) ==
  IF d.cond # NoExp /\ EvalExpression(c.syms, d.cond) = 0
  THEN [c EXCEPT !.vars = RemoveFirst(@, d.name), !.syms = remove(@, d.name)] ELSE c
removeConditional(c, elements) ==
  FoldLeft(removeIfFalse, c, FlattenSeq([k \in DOMAIN elements |->
    IF elements[k].kind = "component" THEN elements[k].decls ELSE <<>>]))

insertElements(c, elements, path) == FoldLeft(LAMBDA acc, e : insertElement(acc, e, path), c, elements)

(* The class before its elements are put in; the root has no father. *)
newClass(ast, path) ==
  [EmptyClass(ast.name, IF path = <<>> THEN <<"none">> ELSE Front(path), ast.connector) EXCEPT !.sec = ast.sec]
MMO_Class(ast, path) ==
  insertElements(
    removeConditional(insertElements(newClass(ast, path), ast.elements, path), ast.elements), ast.public, path)

(* MMO_Tree: the root has every class of the file as a type. *)
Root(classes) ==
  [name |-> "_ROOT_", connector |-> FALSE, public |-> <<>>, sec |-> [s \in Sections |-> <<>>],
   elements |-> [k \in DOMAIN classes |-> [kind |-> "class", class |-> classes[k]]]]

RECURSIVE Tree(_, _)
Tree(ast, path) ==
  IF path = <<>> THEN ast
  ELSE LET all == ast.elements \o ast.public
           k   == SelectInSeq(all, LAMBDA e : e.kind = "class" /\ e.class.name = Head(path))
       IN  Tree(all[k].class, Tail(path))

CONSTANT Models   \* files: [classes, name, ends], with the name of the class that is flattened

(* The class that a pointer points to.  The father of the root is nothing. *)
Original(m, path) == MMO_Class(Tree(Root(m.classes), path), path)
classOf(m, t)     == IF t.kind = "class" THEN Original(m, t.path) ELSE t.class

isConnector(c) == c.connector

-----------------------------------------------------------------------------
(***************************************************************************)
(* Looking up a type.  What is found is a definition: the type without its *)
(* names, the prefixes and the indices it brings.                          *)
(***************************************************************************)
Definition(prefixes, t, indices) == [ok |-> TRUE, prefixes |-> prefixes, type |-> t, indices |-> indices]
Undefined == [Definition({}, Builtin("Real"), <<>>) EXCEPT !.ok = FALSE]

RECURSIVE ExpandAll(_, _), resolveType(_, _, _), applyClassModification(_, _, _, _)

RECURSIVE findTypeByName(_, _, _)
(* In the class and then in the classes around it; with the class it was found in *)
findTypeByName(m, c, n) ==
  IF n \in DOMAIN c.tys THEN [found |-> TRUE, type |-> c.tys[n], contex |-> c]
  ELSE IF c.father = <<"none">> THEN [found |-> FALSE]
  ELSE findTypeByName(m, Original(m, c.father), n)

(* type name = d(mods) *)
derivedFrom(m, c, t, d) ==
  [d EXCEPT !.prefixes = @ \cup t.prefixes, !.indices = t.indices \o @,
            !.type = IF isClass(@) /\ t.mods # <<>>
                     THEN ClassCopy(applyClassModification(m, c, classOf(m, @), t.mods)) ELSE @]
getFinalClass(m, c, t) ==
  CASE t.kind = "builtin" -> Definition({}, t, <<>>)
    [] isClass(t) -> Definition({}, ClassCopy(ExpandAll(m, classOf(m, t))), <<>>)
    [] t.kind = "def" -> derivedFrom(m, c, t, resolveType(m, c, t.type))

definitionOf(m, f) == IF f.found THEN getFinalClass(m, ExpandAll(m, f.contex), f.type) ELSE Undefined
resolveDependencies(m, c, n) == definitionOf(m, findTypeByName(m, c, n))

(* A.B.C: each name in the class that the one before stands for.  The indices and prefixes
   are those of the last name. *)
resolveInside(m, d, n) ==
  IF ~d.ok \/ ~isClass(d.type) THEN Undefined
  ELSE resolveDependencies(m, classOf(m, d.type), n)

(* The name of the class itself comes first and nothing after it: a Type that nothing was
   assigned to, which is an Integer. *)
resolveType(m, c, t) ==
  IF t = <<c.name>> THEN Definition({}, Builtin("Integer"), <<>>)
  ELSE FoldLeft(LAMBDA d, n : resolveInside(m, d, n), Definition({}, ClassCopy(c), <<>>),
                IF Head(t) = c.name THEN Tail(t) ELSE t)

-----------------------------------------------------------------------------
(* Extending *)
(* The variable of a base class: its type gets a name in the class that extends it. *)
inheritVar(up, n, v, d, type) ==   \* d: what the type of v is, type: its name in up
  LET w == [v EXCEPT !.indices = d.indices \o @, !.prefixes = @ \cup d.prefixes, !.type = <<type>>]
      typed == IF isClass(d.type) THEN insertType(up, type, d.type) ELSE up
  IN  IF ~d.ok THEN [up EXCEPT !.ok = FALSE]
      ELSE [typed EXCEPT !.vars = Append(@, n), !.syms = insert(@, n, w)]
typeName(m, t) == IF isClass(t) THEN classOf(m, t).name ELSE t.name

expandVar(m, up, down, n) ==
  LET Inherit(d) == inheritVar(up, n, down.syms[n], d, typeName(m, d.type))
  IN  IF n \notin DOMAIN down.syms THEN up ELSE Inherit(resolveType(m, down, down.syms[n].type))

expand(m, up, down) ==
  LET eqs   == [up EXCEPT !.sec = [s \in Sections |-> @[s] \o down.sec[s]],
                          !.extends = @ \o down.extends, !.ok = @ /\ down.ok]
      typed == FoldLeft(LAMBDA acc, n : insertType(acc, n, down.tys[n]), eqs, down.types)
  IN  FoldLeft(LAMBDA acc, n : expandVar(m, acc, down, n), typed, down.vars)

(* extends d(mods) *)
expandBase(m, up, d, mods) ==
  IF ~d.ok \/ ~isClass(d.type) THEN [up EXCEPT !.ok = FALSE]
  ELSE expand(m, up, applyClassModification(m, up, classOf(m, d.type), mods))

ExpandAll(m, up) ==
  FoldLeft(LAMBDA acc, e : expandBase(m, acc, resolveType(m, acc, e.name), e.mods),
           [up EXCEPT !.extends = <<>>], up.extends)

-----------------------------------------------------------------------------
(***************************************************************************)
(* Modifications.  A variable with = exp keeps it under (arguments) = exp. *)
(***************************************************************************)
\* mutant: an argument is added to those of the same name
addArgumentTwice(args, a) == Append(args, a)
addArgument(args, a) ==
  Append(SelectSeq(args, LAMBDA b : {a.kind, b.kind} # {"mod"} \/ b.name # a.name), a)

modified(old, new) ==
  CASE old.kind = "none" -> new
    [] old.kind = "eq" /\ new.kind = "eq"    -> new
    [] old.kind = "eq" /\ new.kind = "class" -> [new EXCEPT !.exp = old.exp]
    [] old.kind = "class" /\ new.kind = "eq" -> [old EXCEPT !.exp = new.exp]
    [] old.kind = "class" /\ new.kind = "class" ->
         [old EXCEPT !.args = FoldLeft(addArgument, @, new.args),
                     !.exp = IF new.exp = NoExp THEN @ ELSE new.exp]

applyElMod(target, a) ==
  IF a.mod = NoMod THEN target
  ELSE IF a.name \notin DOMAIN target.syms THEN [target EXCEPT !.ok = FALSE]
  ELSE [target EXCEPT !.syms[a.name].mod = modified(@, a.mod)]

(* A class gets the name it is called by; a name with dots is never looked up as one. *)
named(tys, t, type) == IF isClass(type) /\ Len(t) = 1 THEN insert(tys, t[1], type) ELSE tys

(* redeclare type name = derived: derived means what it means where the modification is. *)
redeclareType(target, a, d) ==
  LET def == [kind |-> "def", name |-> a.name[1], prefixes |-> a.prefixes \cup d.prefixes,
              type |-> a.derived, indices |-> a.indices \o d.indices, mods |-> a.mods]
  IN  IF d.ok THEN [target EXCEPT !.tys = insert(named(@, a.derived, d.type), a.name[1], def)]
      ELSE [target EXCEPT !.ok = FALSE]

redeclareComponent(target, a, d) ==
  LET info == [VarInfo(d.prefixes \cup a.prefixes, a.type, a.mod, d.indices \o a.indices)
                 EXCEPT !.builtin = target.syms[a.name].builtin]
  IN  IF a.name \notin DOMAIN target.syms THEN target
      ELSE IF d.ok THEN [target EXCEPT !.tys = named(@, a.type, d.type), !.syms = insert(@, a.name, info)]
      ELSE [target EXCEPT !.ok = FALSE]

redeclare(target, a, d) ==
  IF a.kind = "type" THEN redeclareType(target, a, d) ELSE redeclareComponent(target, a, d)

(* d is what the new type means in the class around. *)
applyArgument(m, contex, target, a) ==
  IF a.kind = "mod" THEN applyElMod(target, a)
  ELSE redeclare(target, a, resolveType(m, contex, IF a.kind = "type" THEN a.derived ELSE a.type))

(* It expands the class itself: the callers that have expanded it before change nothing by it. *)
applyClassModification(m, contex, target, args) ==
  FoldLeft(LAMBDA acc, a : applyArgument(m, contex, acc, a), ExpandAll(m, target), args)

(* = exp on a component of class type is ignored. *)
applyModification(m, contex, target, mod) ==
  IF mod.kind = "class" THEN applyClassModification(m, contex, target, mod.args) ELSE target
=============================================================================
