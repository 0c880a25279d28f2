----------------------------- MODULE ModelGrammar -----------------------------
(***************************************************************************)
(* The grammar of models: modifications, elements, equations, statements   *)
(* and classes.  A rule of the grammar is a record, and read interprets it *)
(* the way the parser library does: alternatives in their order, a         *)
(* sequence that gives up a started alternative, and an expectation point  *)
(* behind which a failure is not one of the alternative but of the whole   *)
(* rule that handles errors.                                               *)
(*                                                                         *)
(* A text is a sequence of tokens as in Syntax, with <<"str", s>> for      *)
(* strings; the dots of a name are part of its token.  What is optional is *)
(* a sequence with at most one element.                                    *)
(***************************************************************************)
EXTENDS Syntax

(* The operators of the parser library.  `a > b' is Sequence(<<a, Expect(b)>>). *)
Word(w)       == [rule |-> "word", word |-> w]
Matches(w)    == [rule |-> "matches", word |-> w]
Token(t)      == [rule |-> "token", token |-> t]
Sequence(parts)    == [rule |-> "seq", parts |-> parts]
Alt(parts)    == [rule |-> "alt", parts |-> parts]
Opt(r)        == [rule |-> "opt", of |-> r]
Star(r)       == [rule |-> "star", of |-> r]
ListOf(r)     == [rule |-> "list", of |-> r]       \* r % COMA
Expect(r)     == [rule |-> "expect", of |-> r]
Omit(r)       == [rule |-> "omit", of |-> r]
OrEmpty(r)    == [rule |-> "orempty", of |-> r]     \* an optional list
Pair(r)       == [rule |-> "pair", of |-> r]
(* The values of r in front of its last one, set in that node *)
Setting(fields, r) == [rule |-> "setting", fields |-> fields, of |-> r]
Node(kind, fields, r) == [rule |-> "node", kind |-> kind, fields |-> fields, of |-> r]
(* Words that are kept, as one sequence: at most one of each set, or exactly one *)
OneOfEach(sets) == [rule |-> "prefixes", sets |-> sets]
OneOf(words)    == [rule |-> "choice", words |-> words]
Joined(parts)   == [rule |-> "joined", of |-> Sequence(parts)]
(* A rule of this grammar, with an on_error handler or without, or one that Syntax reads *)
Handlers    == {"modification", "equation", "statement"}
Expressions == {"expression", "simple_expression", "function_call_args", "array_subscripts",
                "component_reference", "for_indices", "output_expression_list"}
Rule(name) ==
  [rule |-> IF name \in Handlers THEN "handled" ELSE IF name \in Expressions THEN "syntax" ELSE "rule",
   name |-> name]

Ident == Token("id")
Name  == Token("id")
String_ == Token("str")
Words(ws) == Sequence([k \in DOMAIN ws |-> IF k = 1 THEN Word(ws[k]) ELSE Expect(Word(ws[k]))])
Expects(rules) == [k \in DOMAIN rules |-> Expect(rules[k])]

-----------------------------------------------------------------------------
(* modification_def.hpp *)
modification == Alt(<<Rule("equal_mod"), Rule("assign_mod"), Rule("class_mod")>>)
equal_mod  == Node("ModEq", <<"exp">>, Sequence(<<Word("="), Expect(Rule("expression"))>>))
assign_mod == Node("ModAssign", <<"exp">>, Sequence(<<Word(":="), Expect(Rule("expression"))>>))
class_mod  ==
  Node("ModClass", <<"modification", "exp">>,
       Sequence(<<Rule("class_modification"), Opt(Sequence(<<Word("="), Expect(Rule("expression"))>>))>>))
class_modification ==
  Sequence(<<Word("("), Expect(OrEmpty(ListOf(Rule("argument")))), Expect(Word(")"))>>)
annotation == Sequence(<<Word("annotation"), Expect(Rule("class_modification"))>>)
string_comment == OrEmpty([ListOf(String_) EXCEPT !.rule = "sum"])
comment == Node("Comment", <<"st_comment", "annotation">>, Sequence(<<Rule("string_comment"), Opt(Rule("annotation"))>>))
argument ==
  Alt(<<Rule("element_redeclaration"),
        Node("ElMod", <<"each", "final", "name", "modification", "st_comment">>,
             Sequence(<<Matches("each"), Matches("final"), Rule("element_modification")>>)),
        Node("ElRepl", <<"each", "final", "argument", "constrain">>,
             Sequence(<<Matches("each"), Matches("final"), Rule("element_replaceable")>>))>>)
element_modification == Sequence(<<Name, Opt(Rule("modification")), Rule("string_comment")>>)
ReplArg == Alt(<<Rule("short_class_definition"), Rule("component_clause1")>>)
element_replaceable == Sequence(<<Word("replaceable"), ReplArg, Opt(Rule("constraining_clause"))>>)
(* The constructor of ElRedecl takes each and final and then sets both to false. *)
element_redeclaration ==
  Node("ElRedecl", <<"argument">>,
       Sequence(<<Word("redeclare"), Omit(Matches("each")), Omit(Matches("final")),
             Alt(<<ReplArg, Node("ElRepl", <<"argument", "constrain">>, Rule("element_replaceable"))>>)>>))
constraining_clause ==
  Node("Constrained", <<"name", "modification">>,
       Sequence(<<Word("constrainedby"), Expect(Name), Expect(Opt(Rule("class_modification")))>>))
type_prefix ==
  OneOfEach(<<{"flow", "stream"}, {"discrete", "parameter", "constant"}, {"input", "output"}>>)
class_prefixes ==
  Joined(<<OneOfEach(<<{"partial"}>>),
           Alt(<<OneOf({"class", "model"}), Joined(<<OneOfEach(<<{"operator"}>>), OneOf({"record"})>>), OneOf({"block"}),
                 Joined(<<OneOfEach(<<{"expandable"}>>), OneOf({"connector"})>>), OneOf({"type", "package"}),
                 Joined(<<OneOfEach(<<{"pure", "impure"}, {"operator"}>>), OneOf({"function"})>>), OneOf({"operator"})>>)>>)
component_clause1 ==
  Node("Component1", <<"prefixes", "type", "declaration">>,
       Sequence(<<Rule("type_prefix"), Name, Rule("component_declaration1")>>))
component_declaration1 ==
  Node("Declaration", <<"name", "indices", "modification", "comment">>, Sequence(<<Rule("declaration"), Rule("comment")>>))
declaration == Sequence(<<Ident, OrEmpty(Rule("array_subscripts")), Opt(Rule("modification"))>>)
enumeration_literal == Node("Enum", <<"name", "comment">>, Sequence(<<Ident, Expect(Rule("comment"))>>))
enum_spec == Node("EnumSpec", <<"list">>, Alt(<<ListOf(Rule("enumeration_literal")), OrEmpty(Word(":"))>>))
short_class_definition ==
  Alt(<<Node("ShortClass", <<"prefixes", "name", "type_prefixes", "derived", "indices", "modification", "comment">>,
             Sequence(<<Rule("class_prefixes"), Ident, Word("="), Rule("type_prefix"), Name,
                        OrEmpty(Rule("array_subscripts")), Opt(Rule("class_modification")), Rule("comment")>>)),
        Node("ShortEnum", <<"prefixes", "name", "enum_spec", "comment">>,
             Sequence(<<Rule("class_prefixes"), Ident, Word("="), Word("enumeration"), Word("("), Rule("enum_spec"),
                        Word(")"), Rule("comment")>>))>>)

-----------------------------------------------------------------------------
(* equation_def.hpp and statement_def.hpp, whose rules for blocks have the same form.  A
   comment behind an equation or a statement is read, and kept nowhere. *)
Block(kind, list, open, do, close) ==
  Node(kind, <<"range", "elements">>,
       Sequence(<<Word(open)>> \o Expects(<<Rule("for_indices"), Word(do), Rule(list), Word("end"), Word(close)>>)))
If(kind, list) ==
  Node(kind, <<"cond", "elements", "elseif", "ifnot">>,
       Sequence(<<Word("if")>>
             \o Expects(<<Rule("expression"), Word("then"), Rule(list),
                          Star(Pair(Sequence(<<Word("elseif")>> \o Expects(<<Rule("expression"), Word("then"), Rule(list)>>)))),
                          OrEmpty(Sequence(<<Word("else"), Expect(Rule(list))>>)), Word("end"), Word("if")>>)))
When(kind, list) ==
  Node(kind, <<"cond", "elements", "elsewhen">>,
       Sequence(<<Word("when")>>
             \o Expects(<<Rule("expression"), Word("then"), Rule(list),
                          Star(Pair(Sequence(<<Word("elsewhen")>> \o Expects(<<Rule("expression"), Word("then"), Rule(list)>>)))),
                          Word("end"), Word("when")>>)))

equation_section ==
  Node("EquationSection", <<"initial", "elements">>, Sequence(<<Matches("initial"), Word("equation"), Rule("equation_list")>>))
equation ==
  Sequence(<<Alt(<<Rule("equality_equation"), Rule("for_equation"), Rule("if_equation"), Rule("connect_equation"),
              Rule("when_equation"), Rule("call_equation")>>),
        Expect(Omit(Rule("comment")))>>)
equality_equation ==
  Node("Equality", <<"left", "right">>, Sequence(<<Rule("simple_expression"), Word("="), Expect(Rule("expression"))>>))
connect_equation ==
  Node("Connect", <<"left", "right">>,
       Sequence(<<Word("connect")>> \o Expects(<<Word("("), Rule("component_reference"), Word(","),
                                             Rule("component_reference"), Word(")")>>)))
for_equation  == Block("ForEq", "equation_list", "for", "loop", "for")
if_equation   == If("IfEq", "equation_list")
when_equation == When("WhenEq", "equation_list")
call_equation == Node("CallEq", <<"name", "args">>, Sequence(<<Name, Rule("function_call_args")>>))
equation_list == Star(Sequence(<<Rule("equation"), Expect(Word(";"))>>))

algorithm_section ==
  Node("StatementSection", <<"initial", "elements">>, Sequence(<<Matches("initial"), Word("algorithm"), Rule("statement_list")>>))
statement ==
  Sequence(<<Alt(<<Rule("assign_statement"), Rule("call_statement"), Node("Return", <<>>, Word("return")),
              Node("Break", <<>>, Word("break")), Rule("if_statement"), Rule("for_statement"),
              Rule("when_statement"), Rule("while_statement")>>),
        Omit(Rule("comment"))>>)
assign_statement ==
  Alt(<<Node("Assign", <<"left", "right">>, Sequence(<<Rule("component_reference"), Word(":="), Expect(Rule("expression"))>>)),
        Node("AssignCall", <<"left", "rl">>, Sequence(<<Rule("component_reference"), Rule("function_call_args")>>)),
        Node("AssignName", <<"left">>, Rule("component_reference"))>>)
call_statement ==
  Node("CallSt", <<"out", "n", "arg">>,
       Sequence(<<Word("(")>> \o Expects(<<Rule("output_expression_list"), Word(")"), Word(":="),
                                       Rule("component_reference"), Rule("function_call_args")>>)))
for_statement   == Block("ForSt", "statement_list", "for", "loop", "for")
if_statement    == If("IfSt", "statement_list")
when_statement  == When("WhenSt", "statement_list")
while_statement ==
  Node("WhileSt", <<"cond", "elements">>,
       Sequence(<<Word("while")>> \o Expects(<<Rule("expression"), Word("loop"), Rule("statement_list"), Word("end"), Word("while")>>)))
statement_list  == Star(Sequence(<<Rule("statement"), Expect(Word(";"))>>))

-----------------------------------------------------------------------------
(* class_def.hpp *)
class_def        ==
  Sequence(<<Setting(<<"final">>, Sequence(<<Matches("final"), Rule("class_definition")>>)), Expect(Word(";"))>>)
class_definition ==
  Setting(<<"encapsulated", "prefixes">>,
          Sequence(<<Matches("encapsulated"), Rule("class_prefixes"), Expect(Rule("class_specifier"))>>))
class_specifier  ==
  Alt(<<Node("Class", <<"name", "st_comment", "composition">>, Rule("class_t")),
        Node("DefClass", <<"name", "type_prefixes", "definition", "indices", "modification", "comment">>, Rule("def_class")),
        Node("EnumClass", <<"name", "enum_spec", "comment">>, Rule("enum_class")),
        Node("DerClass", <<"name", "deriv", "ident_list", "comment">>, Rule("deriv_class")),
        Node("ExtendsClass", <<"name", "modification", "st_comment", "composition">>, Rule("extends_class"))>>)
enum_class ==
  Sequence(<<Ident, Word("="), Word("enumeration"), Expect(Word("(")), Expect(Rule("enum_spec")), Expect(Word(")")),
             Expect(Rule("comment"))>>)
deriv_class ==
  Sequence(<<Ident, Word("="), Word("der")>>
             \o Expects(<<Word("("), Name, Word(","), ListOf(Ident), Word(")"), Rule("comment")>>))
extends_class ==
  Sequence(<<Word("extends"),
             Expect(Sequence(<<Ident, Opt(Rule("class_modification")), Rule("string_comment"), Rule("composition")>>)),
             Expect(Word("end")), Expect(Omit(Ident))>>)
class_t ==
  Sequence(<<Ident, Rule("string_comment"), Rule("composition"), Word("end"), Expect(Omit(Ident))>>)
def_class ==
  Sequence(<<Ident, Word("="), Rule("type_prefix"), Name, OrEmpty(Rule("array_subscripts")),
        Opt(Rule("class_modification")), Rule("comment")>>)
external_function_call ==
  Node("External", <<"comp_ref", "fun", "args">>,
       Sequence(<<Opt(Sequence(<<Rule("component_reference"), Word("=")>>)), Ident, Rule("function_call_args")>>))
external ==
  Node("ExternalPart", <<"language", "call", "annotation">>,
       Sequence(<<Word("external"), Opt(String_), Opt(Rule("external_function_call")), Opt(Rule("annotation")), Word(";")>>))
composition ==
  Node("Composition", <<"elements", "comp_elem", "external", "annotation">>,
       Sequence(<<Rule("element_list"), Star(Rule("comp_element")), Opt(Rule("external")),
                  Opt(Sequence(<<Rule("annotation"), Word(";")>>))>>))
comp_element ==
  Alt(<<Rule("equation_section"), Rule("algorithm_section"),
        Node("Public", <<"elements">>, Sequence(<<Word("public"), Rule("element_list")>>)),
        Node("Protected", <<"elements">>, Sequence(<<Word("protected"), Rule("element_list")>>))>>)
element_list == Star(Sequence(<<Rule("element"), Expect(Word(";"))>>))
Flags == <<"redeclare", "final", "inner", "outer">>
element ==
  Alt(<<Node("Import", <<>>, Rule("import_clause")),
        Node("Extends", <<"name", "modification", "annotation">>, Rule("extends_clause")),
        Node("Element", Flags \o <<"of">>,
             Sequence([k \in 1..4 |-> Matches(Flags[k])] \o <<Rule("element2")>>))>>)
element2 ==
  Alt(<<Node("Component", <<"prefixes", "type", "indices", "declarations">>, Rule("component_clause")),
        Rule("class_definition"),
        Node("Replaceable", <<"of", "constrained">>,
             Sequence(<<Word("replaceable"),
                   Alt(<<Rule("class_definition"),
                         Node("Component", <<"prefixes", "type", "indices", "declarations">>, Rule("component_clause"))>>),
                   Opt(Sequence(<<Rule("constraining_clause"), Omit(Rule("comment"))>>))>>))>>)
(* The constructors of Import keep nothing. *)
import_clause  ==
  Omit(Alt(<<Sequence(<<Word("import"), Ident, Word("="), Name, Rule("comment")>>),
             Sequence(<<Word("import"), Name,
                        Opt(Sequence(<<Word("."), Alt(<<Word("*"), Sequence(<<Word("{"), ListOf(Ident), Word("}")>>)>>)>>)),
                        Rule("comment")>>)>>))
extends_clause ==
  Sequence(<<Word("extends"), Expect(Sequence(<<Name, Opt(Rule("class_modification")), Opt(Rule("annotation"))>>))>>)
component_clause ==
  Sequence(<<Rule("type_prefix"), Name, OrEmpty(Rule("array_subscripts")), ListOf(Rule("component_declaration"))>>)
component_declaration ==
  Node("Declaration", <<"name", "indices", "modification", "conditional", "comment">>,
       Sequence(<<Rule("declaration"), Opt(Rule("condition_attribute")), Rule("comment")>>))
condition_attribute == Sequence(<<Word("if"), Expect(Rule("expression"))>>)

Grammar ==
  [modification |-> modification, equal_mod |-> equal_mod, assign_mod |-> assign_mod, class_mod |-> class_mod,
   class_modification |-> class_modification, annotation |-> annotation, string_comment |-> string_comment,
   comment |-> comment, argument |-> argument, element_modification |-> element_modification,
   element_replaceable |-> element_replaceable, element_redeclaration |-> element_redeclaration,
   constraining_clause |-> constraining_clause, type_prefix |-> type_prefix, class_prefixes |-> class_prefixes,
   component_clause1 |-> component_clause1, component_declaration1 |-> component_declaration1,
   declaration |-> declaration, short_class_definition |-> short_class_definition,
   enumeration_literal |-> enumeration_literal, enum_spec |-> enum_spec, enum_class |-> enum_class,
   deriv_class |-> deriv_class, extends_class |-> extends_class, external |-> external,
   external_function_call |-> external_function_call,
   equation_section |-> equation_section, equation |-> equation, equality_equation |-> equality_equation,
   connect_equation |-> connect_equation, for_equation |-> for_equation, if_equation |-> if_equation,
   when_equation |-> when_equation, call_equation |-> call_equation, equation_list |-> equation_list,
   algorithm_section |-> algorithm_section, statement |-> statement, assign_statement |-> assign_statement,
   call_statement |-> call_statement, for_statement |-> for_statement, if_statement |-> if_statement,
   when_statement |-> when_statement, while_statement |-> while_statement, statement_list |-> statement_list,
   class_def |-> class_def, class_definition |-> class_definition, class_specifier |-> class_specifier,
   class_t |-> class_t, def_class |-> def_class, composition |-> composition, comp_element |-> comp_element,
   element_list |-> element_list, element |-> element, element2 |-> element2, import_clause |-> import_clause,
   extends_clause |-> extends_clause, component_clause |-> component_clause,
   component_declaration |-> component_declaration, condition_attribute |-> condition_attribute]
=============================================================================
