----------------------------- MODULE MCModelText -----------------------------
(***************************************************************************)
(* Models for ModelText, as trees: one for each form of a modification, an *)
(* equation, a statement, an element and a section, alone and beside       *)
(* others.                                                                 *)
(***************************************************************************)
EXTENDS ModelText

N(kind, fields) == [kind |-> kind] @@ fields
Ref(n) == Reference(n, <<>>)
A == Ref("a")
B == Ref("b")
One == Integer(1)
Sum(l, r) == BinOp(l, "+", r)
Less == BinOp(A, "<", B)
NoComments == NoComment
Said == [NoComment EXCEPT !.st_comment = <<"of", "a">>]

(* Modifications *)
ModEq(e) == N("ModEq", [exp |-> e])
ModAssign(e) == N("ModAssign", [exp |-> e])
ModClass(args, exp) == N("ModClass", [modification |-> args, exp |-> exp])
ElMod(n, m) == N("ElMod", [each |-> FALSE, final |-> FALSE, name |-> n, modification |-> m, st_comment |-> <<>>])
Each(e) == [e EXCEPT !.each = TRUE]
Final(e) == [e EXCEPT !.final = TRUE]
Start == ElMod("start", <<ModEq(Sum(A, One))>>)
Fixed == ElMod("fixed", <<ModEq(Boolean(FALSE))>>)
Inside == ElMod("r.p", <<ModClass(<<Each(Start), Final(Fixed)>>, <<>>)>>)
InnerDecl(m, c) == N("Declaration", [name |-> "q", indices |-> <<>>, modification |-> m, comment |-> c])
Component1(ps, d) == N("Component1", [prefixes |-> ps, type |-> "Cap", declaration |-> d])
ShortClass(subs, m) ==
  N("ShortClass", [prefixes |-> <<"type">>, name |-> "T", type_prefixes |-> <<"flow">>, derived |-> "Real",
                   indices |-> subs, modification |-> m, comment |-> Said])
ElRepl(arg) == N("ElRepl", [each |-> FALSE, final |-> FALSE, argument |-> arg, constrain |-> <<>>])
ElRedecl(arg) == N("ElRedecl", [argument |-> arg])

Note == <<ElMod("Icon", <<ModEq(One)>>)>>
Redeclared ==
  {Component1(<<>>, InnerDecl(<<ModClass(<<Start>>, <<One>>)>>, NoComments)),
   Component1(<<"parameter">>, InnerDecl(<<>>, [Said EXCEPT !.annotation = <<Note>>])),
   ShortClass(<<>>, <<>>), ShortClass(<<>>, <<<<Fixed>>>>), ShortClass(<<One>>, <<>>)}
Arguments ==
  {Start, Each(Start), Final(Fixed), Each(Final(Start)), ElMod("fixed", <<>>), Inside,
   [Start EXCEPT !.st_comment = <<"note">>], ElMod("k", <<ModAssign(B)>>)}
    \cup {ElRedecl(r) : r \in Redeclared} \cup {ElRepl(Component1(<<>>, InnerDecl(<<>>, NoComments)))}
Modifications ==
  {ModEq(Sum(A, B)), ModAssign(One), ModEq(IfExp(<<Less, A, B>>)), ModClass(<<>>, <<>>)}
    \cup {ModClass(<<a>>, <<>>) : a \in Arguments} \cup {ModClass(<<a, Fixed>>, <<A>>) : a \in Arguments}
    \cup {ModClass(<<Each(Fixed), a>>, <<>>) : a \in {Inside, ElMod("k", <<ModAssign(B)>>)}}

(* Elements *)
Decl(n, subs, m, cond, c) ==
  N("Declaration", [name |-> n, indices |-> subs, modification |-> m, conditional |-> cond, comment |-> c])
Plain(n) == Decl(n, <<>>, <<>>, <<>>, NoComments)
Component(ps, type, subs, ds) == N("Component", [prefixes |-> ps, type |-> type, indices |-> subs, declarations |-> ds])
El(of) == N("Element", [redeclare |-> FALSE, final |-> FALSE, inner |-> FALSE, outer |-> FALSE, of |-> of])
Var(n) == El(Component(<<>>, "Real", <<>>, <<Plain(n)>>))
Import == N("Import", <<>>)
Extends(m, a) == N("Extends", [name |-> "Base", modification |-> m, annotation |-> a])
DefClass(subs, m) ==
  N("DefClass", [encapsulated |-> FALSE, prefixes |-> <<"type">>, name |-> "V", type_prefixes |-> <<"input">>, definition |-> "Real",
                 indices |-> subs, modification |-> m, comment |-> Said])
Class(n, els, comps, note) ==
  N("Class", [final |-> FALSE, encapsulated |-> FALSE, prefixes |-> <<"partial", "model">>, name |-> n, st_comment |-> <<>>,
              composition |-> N("Composition", [elements |-> els, comp_elem |-> comps, external |-> <<>>, annotation |-> note])])

EnumClass == N("EnumClass", [encapsulated |-> FALSE, prefixes |-> <<"type">>, name |-> "E", comment |-> NoComments,
                             enum_spec |-> N("EnumSpec", [list |-> <<N("Enum", [name |-> "on", comment |-> Said])>>])])
DerClass == N("DerClass", [encapsulated |-> FALSE, prefixes |-> <<"type">>, name |-> "D", deriv |-> "f",
                           ident_list |-> <<"x">>, comment |-> NoComments])

Elements ==
  {El(Component(<<>>, "Real", <<>>, <<Decl("x", <<>>, <<m>>, <<>>, NoComments)>>)) : m \in Modifications}
    \cup {El(Component(<<"flow", "discrete">>, "Real", <<Ref("n")>>, <<Decl("x", <<Integer(2)>>, <<>>, <<>>, Said),
                                                                    Decl("y", <<>>, <<>>, <<>>, [Said EXCEPT !.annotation = <<Note>>])>>)),
          El(Component(<<"constant", "output">>, "Mod.Pin", <<>>, <<Decl("p", <<>>, <<>>, <<Boolean(FALSE)>>, NoComments), Plain("q")>>)),
          El(Component(<<"parameter">>, "Integer", <<>>, <<Decl("n", <<>>, <<ModEq(One)>>, <<Boolean(TRUE)>>, NoComments)>>)),
          El(N("Replaceable", [of |-> Component(<<>>, "Cap", <<>>, <<Plain("c")>>), constrained |-> <<>>])),
          [Var("x") EXCEPT !.final = TRUE, !.inner = TRUE],
          Extends(<<>>, <<>>), Extends(<<<<Each(Start)>>>>, <<>>), Extends(<<<<Final(Fixed)>>>>, <<Note>>), Import,
          El(DefClass(<<>>, <<>>)), El(DefClass(<<Integer(2)>>, <<<<Start>>>>)), El(DefClass(<<One, Integer(2)>>, <<>>)),
          El(EnumClass), El(DerClass),
          El(Class("Part", <<Var("w"), El(DefClass(<<>>, <<>>))>>, <<>>, <<Note>>))}

(* Equations and statements *)
Eq(l, r) == N("Equality", [left |-> l, right |-> r])
Connect(l, r) == N("Connect", [left |-> l, right |-> r])
Ix(n, e) == [name |-> n, exp |-> e]
To(n) == RangeExp(<<One, n>>)
Else(c, els) == <<c, els>>
For(kind, range, els) == N(kind, [range |-> range, elements |-> els])
IfNode(kind, c, els, elseif, ifnot) == N(kind, [cond |-> c, elements |-> els, elseif |-> elseif, ifnot |-> ifnot])
WhenNode(kind, c, els, elsewhen) == N(kind, [cond |-> c, elements |-> els, elsewhen |-> elsewhen])
Blocks(e, For_, If_, When_) ==
  {For(For_, <<Ix("i", <<To(Ref("n"))>>)>>, <<e>>), For(For_, <<Ix("i", <<>>)>>, <<>>),
   For(For_, <<Ix("i", <<To(One)>>), Ix("j", <<To(Ref("i"))>>)>>, <<e, e>>),
   IfNode(If_, Less, <<e>>, <<>>, <<>>), IfNode(If_, Less, <<e, e>>, <<>>, <<e>>),
   IfNode(If_, Less, <<>>, <<Else(A, <<e>>), Else(B, <<e, e>>)>>, <<>>),
   IfNode(If_, A, <<e>>, <<Else(Less, <<e>>)>>, <<e>>),
   WhenNode(When_, Less, <<e>>, <<>>), WhenNode(When_, A, <<e>>, <<Else(Less, <<e, e>>), Else(B, <<>>)>>)}
SimpleEqs ==
  {Eq(A, Sum(B, One)), Eq(Call("der", <<A>>), IfExp(<<Less, A, B, BinOp(A, ">", B), One>>)), Eq(To(A), B),
   Connect(Ref("p.v"), Reference("q", <<Integer(2)>>)), N("CallEq", [name |-> "assert", args |-> <<Less, A>>]),
   N("CallEq", [name |-> "terminal", args |-> <<>>])}
Nest(bs, For_, If_, When_) == UNION {Blocks(b, For_, If_, When_) : b \in bs}
Equations == SimpleEqs \cup Blocks(Eq(A, B), "ForEq", "IfEq", "WhenEq")
               \cup Nest({For("ForEq", <<Ix("k", <<>>)>>, <<Connect(A, B)>>),
                          IfNode("IfEq", B, <<>>, <<>>, <<Eq(A, B)>>)}, "ForEq", "IfEq", "WhenEq")

Assign(l, r) == N("Assign", [left |-> l, right |-> r])
CallSt(out, args) == N("CallSt", [out |-> out, n |-> Ref("f"), arg |-> args])
SimpleSts ==
  {Assign(Reference("u", <<A>>), Sum(B, One)), N("AssignCall", [left |-> Ref("f"), rl |-> <<A, B>>]),
   N("AssignCall", [left |-> Ref("f"), rl |-> <<>>]), N("AssignName", [left |-> A]), N("Return", <<>>), N("Break", <<>>),
   CallSt(<<<<A>>, <<>>, <<B>>>>, <<One>>), CallSt(<<<<A>>>>, <<>>)}
Statements == SimpleSts \cup Blocks(Assign(A, B), "ForSt", "IfSt", "WhenSt")
                \cup Nest({N("WhileSt", [cond |-> Less, elements |-> <<N("Break", <<>>)>>])}, "ForSt", "IfSt", "WhenSt")

Section(kind, initial, els) == N(kind, [initial |-> initial, elements |-> els])
Eqs(initial, els) == Section("EquationSection", initial, els)
Sts(initial, els) == Section("StatementSection", initial, els)
Lists == {N("Public", [elements |-> <<Var("v"), El(Component(<<>>, "Real", <<>>, <<Decl("p", <<>>, <<>>, <<Integer(0)>>, NoComments)>>))>>]),
          N("Protected", [elements |-> <<El(DefClass(<<>>, <<>>)), Var("v")>>])}
Sections == {<<Eqs(i, <<e>>)>> : i \in BOOLEAN, e \in Equations} \cup {<<Sts(i, <<s>>)>> : i \in BOOLEAN, s \in Statements}
              \cup {<<Eqs(FALSE, <<Eq(A, B)>>), Sts(FALSE, <<Assign(A, B)>>), Eqs(TRUE, <<Eq(B, One)>>),
                      Sts(TRUE, <<Assign(B, A)>>), Eqs(FALSE, <<Eq(B, A)>>), p>> : p \in Lists}
              \cup {<<>>, <<Eqs(FALSE, <<>>), Sts(TRUE, <<>>)>>}
External(ref, args) == N("External", [comp_ref |-> ref, fun |-> "f", args |-> args])
Externals ==
  {N("ExternalPart", [language |-> l, call |-> c, annotation |-> a]) :
     l \in {<<>>, <<"C">>}, a \in {<<>>, <<Note>>},
     c \in {<<>>, <<External(<<>>, <<>>)>>, <<External(<<A>>, <<A, Sum(B, One)>>)>>}}
Function(x, note) ==
  [Class("F", <<Var("a")>>, <<>>, note) EXCEPT !.prefixes = <<"pure", "function">>, !.composition.external = <<x>>]
Some == {Eqs(FALSE, <<e>>) : e \in SimpleEqs}

MCModels ==
  {Function(x, note) : x \in Externals, note \in {<<>>, <<Note>>}} \cup
  {Class("M", <<Var("a")>>, s, <<>>) : s \in Sections}
    \cup {Class("M", <<e, Var("a")>>, <<>>, note) : e \in Elements, note \in {<<>>, <<Note>>}}
    \cup {Class("M", <<e>>, <<s>>, <<>>) : e \in Elements, s \in Some}
=============================================================================
