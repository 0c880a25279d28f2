------------------------------- MODULE ModelText -------------------------------
(***************************************************************************)
(* Models as files.  Every tool reads a file, keeps a MMO_Class of it and  *)
(* prints that class, and the next tool reads what was printed: flatter,   *)
(* antialias, causalize and mmo are used one after another.  This module   *)
(* prints trees and classes as the operators << do, and passes a model     *)
(* from tool to tool.                                                      *)
(*                                                                         *)
(* The grammar reads more than the printers write.  Kept says what is left *)
(* of a tree when it has been written, and Writable which trees can be     *)
(* read back at all.                                                       *)
(***************************************************************************)
EXTENDS ModelParser

CONSTANTS
  Models,    \* classes, as trees the parser can have made
  Rounds     \* how many tools read the model, one after another

VARIABLES
  first,     \* the class that the first tool has kept
  class,     \* the class of the tool at work
  text,      \* the file between two tools
  round,     \* how many tools have read the model
  stage      \* "read", "written" or "refused"

vars == <<first, class, text, round, stage>>

-----------------------------------------------------------------------------
(* Printing *)
FlagWords(names, x) == FlattenSeq([k \in DOMAIN names |-> IF x[names[k]] THEN Sym(names[k]) ELSE <<>>])
PrefixWords(prefixes) == FlattenSeq([k \in DOMAIN prefixes |-> Sym(prefixes[k])])
Commas(texts) == FlattenSeq([k \in DOMAIN texts |-> (IF k = 1 THEN <<>> ELSE Sym(",")) \o texts[k]])
Semicolons(texts) == FlattenSeq([k \in DOMAIN texts |-> texts[k] \o Sym(";")])
Maybe(option, Text(_)) == IF option = <<>> THEN <<>> ELSE Text(option[1])

RECURSIVE printModification(_)
RECURSIVE printClassModification(_)

printAnnotation(a) == Sym("annotation") \o printClassModification(a)

printComment(c) ==
  FlattenSeq([k \in DOMAIN c.st_comment |->
                (IF k = 1 THEN <<>> ELSE Sym("+")) \o <<<<"str", c.st_comment[k]>>>>])
    \o Maybe(c.annotation, printAnnotation)

(* A declaration in a modification has no condition.  Subscripts are not printed. *)
printDeclaration(d) ==
  Id(d.name) \o Maybe(d.modification, printModification)
    \o (IF "conditional" \in DOMAIN d
        THEN IF d.conditional = <<>> THEN <<>> ELSE Sym("if") \o printed(d.conditional[1]) ELSE <<>>)
    \o printComment(d.comment)

printComponent1(c) == Id(c.type) \o printDeclaration(c.declaration)

printShortClass(c) ==
  PrefixWords(c.prefixes) \o Id(c.name) \o Sym("=") \o PrefixWords(c.type_prefixes) \o Id(c.derived)
    \o (IF c.indices = <<>> THEN <<>> ELSE Sym("[....]"))
    \o Maybe(c.modification, printClassModification)

printElMod(e) ==
  (IF e.each THEN Sym("each") ELSE <<>>) \o Id(e.name) \o Maybe(e.modification, printModification)

printElRepl(e) == Sym("replaceable")

printElRedecl(e) ==
  Sym("redeclare")
    \o CASE e.argument.kind = "ElRepl"     -> printElRepl(e.argument)
         [] e.argument.kind = "Component1" -> printComponent1(e.argument)
         [] e.argument.kind = "ShortClass" -> printShortClass(e.argument)

printArgument(a) ==
  CASE a.kind = "ElMod"    -> printElMod(a)
    [] a.kind = "ElRedecl" -> printElRedecl(a)
    [] a.kind = "ElRepl"   -> printElRepl(a)

printClassModification(m) == Enclosed("(", Commas([k \in DOMAIN m |-> printArgument(m[k])]), ")")

printModification(m) ==
  CASE m.kind = "ModEq"     -> Sym("=") \o printed(m.exp)
    [] m.kind = "ModAssign" -> Sym(":=") \o printed(m.exp)
    [] m.kind = "ModClass"  ->
         printClassModification(m.modification)
           \o (IF m.exp = <<>> THEN <<>> ELSE Sym("=") \o printed(m.exp[1]))

-----------------------------------------------------------------------------
printIndexes(range) ==
  Commas([k \in DOMAIN range |->
            Id(range[k].name) \o (IF range[k].exp = <<>> THEN <<>> ELSE Sym("in") \o printed(range[k].exp[1]))])

RECURSIVE printItem(_)
(* Equations and statements of a block *)
printItems(items) == Semicolons([k \in DOMAIN items |-> printItem(items[k])])

printFor(f) ==
  Sym("for") \o printIndexes(f.range) \o Sym("loop") \o printItems(f.elements) \o Sym("end") \o Sym("for")

printClauses(word, clauses) ==
  FlattenSeq([k \in DOMAIN clauses |->
                Sym(word) \o printed(clauses[k][1]) \o Sym("then") \o printItems(clauses[k][2])])

\* mutant: an else is printed only without elseifs
printIfOneElse(i) ==
  Sym("if") \o printed(i.cond) \o Sym("then") \o printItems(i.elements)
    \o printClauses("elseif", i.elseif)
    \o (IF i.ifnot = <<>> \/ i.elseif # <<>> THEN <<>> ELSE Sym("else") \o printItems(i.ifnot))
    \o Sym("end") \o Sym("if")
printIf(i) ==
  Sym("if") \o printed(i.cond) \o Sym("then") \o printItems(i.elements)
    \o printClauses("elseif", i.elseif)
    \o (IF i.ifnot = <<>> THEN <<>> ELSE Sym("else") \o printItems(i.ifnot))
    \o Sym("end") \o Sym("if")

printWhen(w) ==
  Sym("when") \o printed(w.cond) \o Sym("then") \o printItems(w.elements)
    \o printClauses("elsewhen", w.elsewhen) \o Sym("end") \o Sym("when")

printWhile(w) ==
  Sym("while") \o printed(w.cond) \o Sym("loop") \o printItems(w.elements) \o Sym("end") \o Sym("while")

printEquality(e) == printed(e.left) \o Sym("=") \o printed(e.right)
printConnect(c)  == Sym("connect") \o Enclosed("(", printed(c.left) \o Sym(",") \o printed(c.right), ")")
printCallEq(c)   == Id(c.name) \o Enclosed("(", printList(c.args, ","), ")")

printAssign(a) ==
  CASE a.kind = "Assign"     -> printed(a.left) \o Sym(":=") \o printed(a.right)
    [] a.kind = "AssignCall" -> printed(a.left) \o Enclosed("(", printList(a.rl, ","), ")")
    [] a.kind = "AssignName" -> printed(a.left)

(* The call itself is left out when it has no arguments. *)
printCallSt(c) ==
  (IF c.out = <<>> THEN <<>>
   ELSE Enclosed("(", Commas([k \in DOMAIN c.out |-> Maybe(c.out[k], printed)]), ")") \o Sym(":="))
    \o (IF c.arg = <<>> THEN <<>> ELSE printed(c.n) \o Enclosed("(", printList(c.arg, ","), ")"))

printItem(e) ==
  CASE e.kind = "Equality" -> printEquality(e)
    [] e.kind = "Connect"  -> printConnect(e)
    [] e.kind = "CallEq"   -> printCallEq(e)
    [] e.kind \in {"ForEq", "ForSt"}   -> printFor(e)
    [] e.kind \in {"IfEq", "IfSt"}     -> printIf(e)
    [] e.kind \in {"WhenEq", "WhenSt"} -> printWhen(e)
    [] e.kind = "WhileSt"  -> printWhile(e)
    [] e.kind = "CallSt"   -> printCallSt(e)
    [] e.kind = "Return"   -> Sym("return")
    [] e.kind = "Break"    -> Sym("break")
    [] e.kind \in {"Assign", "AssignCall", "AssignName"} -> printAssign(e)

printSection(s, word, initial) ==
  IF s = <<>> THEN <<>>
  ELSE (IF initial THEN Sym("initial") ELSE <<>>) \o Sym(word) \o printItems(s)
printSections(list) == FlattenSeq([k \in DOMAIN list |-> printSection(list[k][1], list[k][2], list[k][3])])

-----------------------------------------------------------------------------
(***************************************************************************)
(* The class of a tool: names in their order, and a record for each.       *)
(***************************************************************************)
VarInfo(c, d) ==
  [name |-> d.name, prefixes |-> c.prefixes, type |-> c.type, indices |-> c.indices \o d.indices,
   comment |-> d.comment, modification |-> d.modification]

(* EvalExpression over numbers and truth values: a declaration whose condition is zero
   is removed *)
isFalse(cond) == cond # <<>> /\ (isZero(cond[1]) \/ (is("Boolean", cond[1]) /\ ~cond[1].truth))

(* The component, class or other element below the flags and a replaceable *)
Inner(e) == IF e.kind # "Element" THEN e
            ELSE IF e.of.kind = "Replaceable" THEN e.of.of ELSE e.of

variablesOf(elements, Taken(_)) ==
  FlattenSeq([k \in DOMAIN elements |->
    LET c == Inner(elements[k])
    IN  IF c.kind # "Component" THEN <<>>
        ELSE LET ds == SelectSeq(c.declarations, Taken)
             IN  [j \in DOMAIN ds |-> VarInfo(c, ds[j])]])

RECURSIVE MMO_Class(_)
MMO_Class(c) ==
  LET comp == c.composition
      All  == comp.elements
                \o FlattenSeq([k \in DOMAIN comp.comp_elem |->
                     IF comp.comp_elem[k].kind \in {"Public", "Protected"}
                     THEN comp.comp_elem[k].elements ELSE <<>>])
      OfKind(kinds) == SelectSeq([k \in DOMAIN All |-> Inner(All[k])], LAMBDA e : e.kind \in kinds)
      Section(kind, initial) ==
        FlattenSeq([k \in DOMAIN comp.comp_elem |->
          LET s == comp.comp_elem[k]
          IN  IF s.kind = kind THEN (IF s.initial = initial THEN s.elements ELSE <<>>) ELSE <<>>])
      (* only the declarations outside of public and protected are looked at *)
      Kept(d)  == ~isFalse(d.conditional)
      Every(d) == TRUE
  IN  [name |-> c.name, prefixes |-> c.prefixes,
       imports |-> OfKind({"Import"}), extends |-> OfKind({"Extends"}),
       types |-> LET ts == OfKind({"Class", "DefClass", "EnumClass"})
                 IN  [k \in DOMAIN ts |-> IF ts[k].kind = "Class" THEN [kind |-> "Class", clase |-> MMO_Class(ts[k])]
                                          ELSE [f \in DOMAIN ts[k] \ {"comment", "encapsulated"} |-> ts[k][f]]],
       variables |-> variablesOf(comp.elements, Kept)
                       \o variablesOf(SubSeq(All, Len(comp.elements) + 1, Len(All)), Every),
       initial_eqs |-> Section("EquationSection", TRUE), equations |-> Section("EquationSection", FALSE),
       initial_sts |-> Section("StatementSection", TRUE), statements |-> Section("StatementSection", FALSE),
       external |-> IF comp.external = <<>> THEN <<>> ELSE comp.external[1].call,
       external_annot |-> IF comp.external = <<>> THEN <<>> ELSE comp.external[1].annotation,
       language |-> IF comp.external = <<>> THEN <<>> ELSE comp.external[1].language,
       annotation |-> comp.annotation]

printImport(i)  == Sym("import")
printExtends(e) ==
  Sym("extends") \o Id(e.name) \o Maybe(e.modification, printClassModification) \o Maybe(e.annotation, printAnnotation)

\* mutant: without the semicolon, which the list of types does not print
printTypeDefOpen(t) ==
  PrefixWords(t.prefixes) \o Id(t.name) \o Sym("=") \o PrefixWords(t.type_prefixes) \o Id(t.definition)
    \o FlattenSeq([k \in DOMAIN t.indices |-> Enclosed("[", printed(t.indices[k]), "]")])
    \o Maybe(t.modification, printClassModification)
printTypeDef(t) ==
  PrefixWords(t.prefixes) \o Id(t.name) \o Sym("=") \o PrefixWords(t.type_prefixes) \o Id(t.definition)
    \o FlattenSeq([k \in DOMAIN t.indices |-> Enclosed("[", printed(t.indices[k]), "]")])
    \o Maybe(t.modification, printClassModification) \o Sym(";")

printVariable(v) ==
  PrefixWords(v.prefixes) \o Id(v.type) \o Id(v.name)
    \o (IF v.indices = <<>> THEN <<>> ELSE Enclosed("[", printList(v.indices, ","), "]"))
    \o Maybe(v.modification, printModification)

RECURSIVE printClass(_)
(* The literals of an enumeration are not printed. *)
printEnumType(t) == PrefixWords(t.prefixes) \o Id(t.name) \o Sym("=") \o Sym(";")
printType(t) ==
  CASE t.kind = "Class" -> printClass(t.clase)
    [] t.kind = "DefClass" -> printTypeDef(t)
    [] t.kind = "EnumClass" -> printEnumType(t)

(* Only with a call; the language and the annotation of another external part are lost. *)
printExternal(c) ==
  LET Assigned(ref) == printed(ref) \o Sym("=")
      Language(s)   == <<<<"str", s>>>>
      Call_(e) == Maybe(e.comp_ref, Assigned) \o Id(e.fun) \o Enclosed("(", printList(e.args, ","), ")")
  IN  IF c.external = <<>> THEN <<>>
      ELSE Sym("external") \o Maybe(c.language, Language) \o Call_(c.external[1])
             \o Maybe(c.external_annot, printAnnotation) \o Sym(";")

printClass(c) ==
  LET All(list, Text(_)) == [k \in DOMAIN list |-> Text(list[k])]
  IN  PrefixWords(c.prefixes) \o Id(c.name)
        \o Semicolons(All(c.imports, printImport)) \o Semicolons(All(c.extends, printExtends))
        \o FlattenSeq([k \in DOMAIN c.types |-> printType(c.types[k])])
        \o Semicolons(All(c.variables, printVariable))
        \o printSections(<< <<c.initial_eqs, "equation", TRUE>>, <<c.initial_sts, "algorithm", TRUE>>,
                            <<c.equations, "equation", FALSE>>, <<c.statements, "algorithm", FALSE>> >>)
        \o printExternal(c)
        \o (IF c.annotation = <<>> THEN <<>> ELSE printAnnotation(c.annotation[1]) \o Sym(";"))
        \o Sym("end") \o Id(c.name) \o Sym(";")

-----------------------------------------------------------------------------
(* The tools *)
Init ==
  /\ \E m \in Models : first = MMO_Class(m)
  /\ class = first
  /\ text = <<>>
  /\ round = 1
  /\ stage = "read"

print ==
  /\ stage = "read"
  /\ text' = printClass(class)
  /\ stage' = "written"
  /\ UNCHANGED <<first, class, round>>

ParseFile ==
  /\ stage = "written" /\ round < Rounds
  /\ \E trees \in {ParseClass(text)} :
       IF trees = <<>>
       THEN /\ stage' = "refused"
            /\ UNCHANGED <<class, round>>
       ELSE /\ class' = MMO_Class(trees[1])
            /\ stage' = "read"
            /\ round' = round + 1
  /\ UNCHANGED <<first, text>>

Next == print \/ ParseFile
Spec == Init /\ [][Next]_vars

-----------------------------------------------------------------------------
(***************************************************************************)
(* What is left of a class in a file: no comment and no annotation of a    *)
(* declaration, no final and no comment of a modification, no prefix and   *)
(* no subscript of a redeclared component, no comment of a redeclared      *)
(* class, and an external part only with a call.                           *)
(***************************************************************************)
RECURSIVE kept(_)
keptList(m)   == [k \in DOMAIN m |-> kept(m[k])]
keptOption(o) == IF o = <<>> THEN <<>> ELSE <<kept(o[1])>>
keptLists(o)  == IF o = <<>> THEN <<>> ELSE <<keptList(o[1])>>
NoComment     == [kind |-> "Comment", st_comment |-> <<>>, annotation |-> <<>>]
keptComment(c) == [c EXCEPT !.annotation = keptLists(@)]
kept(m) ==
  CASE m.kind \in {"ModEq", "ModAssign"} -> m
    [] m.kind = "ModClass" -> [m EXCEPT !.modification = keptList(@)]
    [] m.kind = "ElMod"    -> [m EXCEPT !.final = FALSE, !.st_comment = <<>>, !.modification = keptOption(@)]
    [] m.kind = "ElRedecl" -> [m EXCEPT !.argument = kept(@)]
    [] m.kind = "ElRepl"   -> m
    [] m.kind = "Component1" -> [m EXCEPT !.prefixes = <<>>, !.declaration = kept(@)]
    [] m.kind = "Declaration" ->
         [m EXCEPT !.indices = <<>>, !.modification = keptOption(@), !.comment = keptComment(@)]
    [] m.kind = "ShortClass" -> [m EXCEPT !.modification = keptLists(@), !.comment = NoComment]

RECURSIVE keptClass(_)
keptClass(c) ==
  [c EXCEPT !.variables = [k \in DOMAIN @ |-> [@[k] EXCEPT !.comment = NoComment, !.modification = keptOption(@)]],
            !.extends = [k \in DOMAIN @ |-> [@[k] EXCEPT !.modification = keptLists(@), !.annotation = keptLists(@)]],
            !.types = [k \in DOMAIN @ |->
                         CASE @[k].kind = "Class"     -> [@[k] EXCEPT !.clase = keptClass(@)]
                           [] @[k].kind = "DefClass"  -> [@[k] EXCEPT !.modification = keptLists(@)]
                           [] @[k].kind = "EnumClass" -> @[k]],
            !.language = IF c.external = <<>> THEN <<>> ELSE @,
            !.external_annot = IF c.external = <<>> THEN <<>> ELSE keptLists(@),
            !.annotation = keptLists(@)]

(* An import and a replaceable argument are printed as one word, the subscripts of a short
   class as dots, those of a type each in brackets of their own, an enumeration without its
   literals, and a call statement without arguments without its call. *)
Unreadable(token) == token \in {<<"sym", "import">>, <<"sym", "replaceable">>, <<"sym", "[....]">>}
RECURSIVE callsShown(_)
callsShown(e) ==
  /\ e.kind = "CallSt" => e.arg # <<>>
  /\ "elements" \in DOMAIN e => \A k \in DOMAIN e.elements : callsShown(e.elements[k])
Writable(c) ==
  /\ \A token \in Range(printClass(c)) : ~Unreadable(token)
  /\ \A k \in DOMAIN c.types : c.types[k].kind = "DefClass" => Len(c.types[k].indices) < 2
  /\ \A k \in DOMAIN c.types : c.types[k].kind # "EnumClass"
  /\ \A k \in DOMAIN (c.initial_sts \o c.statements) : callsShown((c.initial_sts \o c.statements)[k])

-----------------------------------------------------------------------------

(* Whatever tool reads the file, it keeps the class that the first tool had kept but for
   what the printers leave out (keptClass: the comment and the annotation of a declaration, and
   prefixes, comments and subscripts inside of modifications): nothing else is lost or changed. *)
ModelKept == round > 1 => class = keptClass(first)

(* A tool refuses a file that another has written only for what no printer can write. *)
FileAccepted == stage = "refused" => ~Writable(first)
=============================================================================
