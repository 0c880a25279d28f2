----------------------------- MODULE MCFlattening -----------------------------
(***************************************************************************)
(* Files for Flattening: parts with pins (connectors), a part that extends *)
(* a class of two pins, a library class with a constant, and models that   *)
(* put one or two of them together.                                        *)
(***************************************************************************)
EXTENDS InstanceTree

V(name)          == Ref(<< <<<<name>>, <<>>>> >>)
At(name, sub)    == Ref(<< <<<<name>>, <<sub>>>> >>)
Dot(name, field) == Ref(<< <<<<name>>, <<>>>>, <<<<field>>, <<>>>> >>)
DotAt(name, sub, field) == Ref(<< <<<<name>>, <<sub>>>>, <<<<field>>, <<>>>> >>)

Declare(name, indices, mod) == [name |-> <<name>>, indices |-> indices, mod |-> mod, cond |-> NoExp]
Component(prefixes, type, decls) ==
  [kind |-> "component", prefixes |-> prefixes, type |-> type, indices |-> <<>>, decls |-> decls]
Real(name)          == Component({}, <<"Real">>, <<Declare(name, <<>>, NoMod)>>)
Parameter(name, e)  == Component({"parameter"}, <<"Real">>, <<Declare(name, <<>>, ModEq(e))>>)
Part(type, name, indices, mod) == Component({}, type, <<Declare(name, indices, mod)>>)
Extends(type, args) == [kind |-> "extends", name |-> type, mods |-> args]
Inner(class)        == [kind |-> "class", class |-> class]
TypeDef(name, type, indices, args) ==
  [kind |-> "def", name |-> name, prefixes |-> {}, type |-> type, indices |-> indices, mods |-> args]

Sec(eqs, inits, sts) ==
  [s \in Sections |-> CASE s = "equation" -> eqs [] s = "initial equation" -> inits [] s = "algorithm" -> sts]
Class2(name, connector, elements, eqs, inits, sts) ==
  [name |-> name, connector |-> connector, elements |-> elements, public |-> <<>>, sec |-> Sec(eqs, inits, sts)]
Model(name, elements, eqs) == Class2(name, FALSE, elements, eqs, <<>>, <<>>)

Equal(a, b)      == [kind |-> "=", exps |-> <<a, b>>]
Assign(a, b)     == [kind |-> ":=", exps |-> <<a, b>>]
Connect(a, b)    == [kind |-> "connect", exps |-> <<a, b>>]
For(n, a, b, eqs) == [kind |-> "for", index |-> << <<<<n>>, Op(":", <<a, b>>)>> >>, elements |-> eqs]
If(c, eqs)       == [kind |-> "if", exps |-> <<c>>, elements |-> eqs, ifnot |-> <<>>]
Times(a, b) == Op("*", <<a, b>>)

(* The classes *)
Pin == Class2("Pin", TRUE, <<Real("v"), Component({"flow"}, <<"Real">>, <<Declare("i", <<>>, NoMod)>>)>>, <<>>, <<>>, <<>>)

TwoPin == Model("TwoPin", <<Part(<<"Pin">>, "p", <<>>, NoMod), Part(<<"Pin">>, "n", <<>>, NoMod), Real("v")>>,
                <<Equal(V("v"), Op("-", <<Dot("p", "v"), Dot("n", "v")>>))>>)

Resistor ==
  Model("Resistor", <<Extends(<<"TwoPin">>, <<>>), Parameter("R", Num(1))>>,
        <<Equal(V("v"), Times(V("R"), Dot("p", "i")))>>)

(* With a start value of the base class, an initial equation and a statement of its own *)
Capacitor ==
  Class2("Capacitor", FALSE,
         <<Extends(<<"TwoPin">>, <<ElMod(<<"v">>, ModClass(<<ElMod(<<"start">>, ModEq(Num(7)))>>, NoExp))>>),
           Component({"output"}, <<"Real">>, <<Declare("q", <<>>, NoMod)>>)>>,
         <<Equal(V("q"), Times(Op("der", <<V("v")>>), V("time")))>>, <<Equal(V("v"), Num(4))>>,
         <<Assign(V("q"), Dot("p", "i")), For("h", Num(1), Num(2), <<Assign(V("q"), Times(V("h"), V("v")))>>)>>)

Lib == [Model("Lib", <<Component({"constant"}, <<"Integer">>, <<Declare("N", <<>>, ModEq(Num(2)))>>),
                      Inner(Model("Source", <<Extends(<<"TwoPin">>, <<>>), Parameter("V", Num(3))>>,
                                  <<Equal(V("v"), Times(V("V"), Dot("Lib", "N")))>>)),
                      TypeDef("Load", <<"Resistor">>, <<>>, <<ElMod(<<"R">>, ModEq(Num(6)))>>),
                      TypeDef("Pair", <<"Real">>, <<Num(2)>>, <<>>)>>, <<>>)
         EXCEPT !.public = <<TypeDef("Flow", <<"Real">>, <<>>, <<>>)>>]

(* Two parts in a part, which has pins of its own *)
Cell == Model("Cell", <<Part(<<"Resistor">>, "r", <<>>, NoMod), Part(<<"Pin">>, "l", <<>>, NoMod),
                        Part(<<"Capacitor">>, "c", <<>>, NoMod), Part(<<"Lib", "Pair">>, "y", <<>>, NoMod)>>,
              <<Connect(Dot("r", "p"), V("l")), Connect(Dot("r", "n"), Dot("c", "p")),
                For("k", Num(1), Num(2), <<Equal(At("y", V("k")), Times(V("k"), Dot("c", "v")))>>)>>)

(* A part with a replaceable type, and one with an optional variable *)
Slot == Model("Slot", <<TypeDef("Kind", <<"TwoPin">>, <<>>, <<>>), Part(<<"Kind">>, "s", <<>>, NoMod),
                        Part(<<"TwoPin">>, "t", <<>>, NoMod)>>, <<Connect(Dot("s", "n"), Dot("t", "p"))>>)
Optional == Model("Optional", <<Parameter("on", Num(0)), Parameter("off", Num(1)),
                                Component({}, <<"Real">>, <<[Declare("z", <<>>, NoMod) EXCEPT !.cond = V("on")],
                                                            [Declare("w", <<>>, NoMod) EXCEPT !.cond = V("off")]>>)>>,
                  <<If(V("off"), <<Equal(V("w"), Num(1))>>), If(V("on"), <<Equal(V("z"), Num(1))>>)>>)

Library == <<Pin, TwoPin, Resistor, Capacitor, Lib, Cell, Slot, Optional>>

(* Modifications of a part, by numbers and by a parameter of the model around it *)
Value2(n, e) == ElMod(<<n>>, ModEq(e))
StartAt(n, k) == ElMod(<<n>>, ModClass(<<ElMod(<<"start">>, ModEq(Num(k)))>>, NoExp))
Mods == {NoMod, ModClass(<<Value2("R", Num(5))>>, NoExp), ModClass(<<Value2("R", V("g")), StartAt("v", 2)>>, NoExp)}
CellMods == {NoMod, ModClass(<<ElMod(<<"r">>, ModClass(<<Value2("R", V("g"))>>, NoExp)), ElMod(<<"c">>, ModClass(<<StartAt("v", 9)>>, NoExp))>>, NoExp)}
SlotMods == {NoMod,
  ModClass(<<[kind |-> "type", name |-> <<"Kind">>, prefixes |-> {}, derived |-> <<"Resistor">>, indices |-> <<>>,
              mods |-> <<Value2("R", Num(8))>>]>>, NoExp),
  ModClass(<<[kind |-> "component", name |-> <<"t">>, type |-> <<"Capacitor">>, mod |-> NoMod, indices |-> <<>>, prefixes |-> {}]>>, NoExp)}

(* A start value for a variable that has a value, and a value for one that has a start value *)
Both == {<<<<"Resistor">>, ModClass(<<StartAt("R", 2)>>, NoExp)>>, <<<<"Capacitor">>, ModClass(<<Value2("v", Num(3))>>, NoExp)>>}

Kinds == {<<<<"Resistor">>, m>> : m \in Mods} \cup {<<<<"Lib", "Load">>, m>> : m \in Mods}
          \cup {<<<<"Cell">>, m>> : m \in CellMods} \cup {<<<<"Slot">>, m>> : m \in SlotMods}
          \cup {<<<<"Capacitor">>, NoMod>>, <<<<"Lib", "Source">>, NoMod>>}
Dims == {<<>>, <<Num(2)>>, <<Num(2), Num(3)>>}

Single(k, d) ==
  Model("M", <<Parameter("g", Num(10)), Part(k[1], "a", d, k[2]), Real("u")>>, <<Equal(V("u"), Times(V("g"), V("time")))>>)

File(models, name, result) == [classes |-> Library \o models, name |-> name, ends |-> result]

Some == {File(<<Single(k, d)>>, "M", "done") : k \in Kinds, d \in Dims}

(* Two parts, connected; an array of parts, connected in a chain; a model that extends another *)
Two == {File(<<Model("M", <<Parameter("g", Num(10)), Part(k[1], "a", <<>>, k[2]), Part(<<"Resistor">>, "b", <<>>, NoMod)>>,
                     <<Connect(Dot("a", "n"), Dot("b", "p"))>>)>>, "M", "done")
          : k \in Both \cup {k \in Kinds : k[1] \notin {<<"Cell">>, <<"Slot">>}}}
Chain == {File(<<Model("M", <<Parameter("g", Num(10)), Part(k[1], "a", <<Num(3)>>, k[2]), Part(<<"Pin">>, "e", <<>>, NoMod)>>,
                       <<For("j", Num(1), Num(2), <<Connect(DotAt("a", V("j"), "n"), DotAt("a", Op("+", <<V("j"), Num(1)>>), "p"))>>),
                         Connect(DotAt("a", Num(1), "p"), V("e"))>>)>>, "M", "done")
            : k \in {<<<<"Resistor">>, m>> : m \in Mods}}
Derived == {File(<<Single(k, <<>>), Model("D", <<Extends(<<"M">>, args), Real("w")>>, <<Equal(V("w"), Dot("a", "v"))>>)>>, "D", "done")
              : k \in {<<<<"Resistor">>, m>> : m \in Mods} \cup {<<<<"Capacitor">>, NoMod>>},
                args \in {<<>>, <<Value2("g", Num(11))>>, <<StartAt("u", 12)>>,
                          <<ElMod(<<"a">>, ModClass(<<StartAt("v", 13)>>, NoExp))>>}}
Options == {File(<<Model("M", <<Part(<<"Optional">>, "o", <<>>, NoMod)>>, <<>>)>>, "M", "done"),
            File(<<Model("M", <<Part(<<"Nothing">>, "o", <<>>, NoMod)>>, <<>>)>>, "M", "no class"),
            File(<<Model("M", <<Part(<<"Resistor">>, "o", <<>>, ModClass(<<Value2("C", Num(1))>>, NoExp))>>, <<>>)>>, "M", "no class"),
            File(<<Model("M", <<Extends(<<"Nothing">>, <<>>)>>, <<>>)>>, "M", "no class"),
            File(<<Model("Probe", <<TypeDef("Level", <<"Real">>, <<>>, <<>>), Real("w")>>, <<Equal(V("w"), V("Level"))>>),
                   Model("M", <<Part(<<"Probe">>, "o", <<>>, NoMod)>>, <<>>)>>, "M", "no class")}

(* Connections that end the program, and two loops over the same parts *)
Array(eqs, result) ==
  File(<<Model("M", <<Part(<<"Resistor">>, "a", <<Num(3)>>, NoMod), Part(<<"Capacitor">>, "b", <<Num(3)>>, NoMod)>>, eqs)>>, "M", result)
ii == V("i")
Loops == {Array(<<For("i", Num(1), Num(3), <<Connect(DotAt("a", ii, "n"), DotAt("b", ii, "p")), Connect(DotAt("b", ii, "n"), DotAt("b", ii, "p"))>>),
                  For("i", Num(2), Num(3), <<Connect(DotAt("a", Op("-", <<ii, Num(1)>>), "n"), DotAt("a", ii, "p"))>>)>>, "done"),
          Array(<<Connect(DotAt("a", Num(1), "n"), DotAt("a", Num(1), "n"))>>, "no graph"),
          Array(<<For("i", Num(1), Num(0), <<Connect(DotAt("a", ii, "n"), DotAt("b", ii, "p"))>>)>>, "no graph")}

(* An array of parts with a value that another variable of the part gives *)
Gauge == Model("Gauge", <<Parameter("T", Num(4)), Parameter("alpha", V("T"))>>, <<>>)
ArrayValues ==
  {File(<<Gauge, Model("M", <<Parameter("g", Num(10)), Part(<<"Gauge">>, "a", d, m), Real("u")>>, <<Equal(V("u"), V("g"))>>)>>, "M", "done")
     : d \in Dims, m \in {NoMod, ModClass(<<Value2("T", V("g"))>>, NoExp)}}

AllFiles == Some \cup Two \cup Chain \cup Derived \cup Options \cup Loops
=============================================================================
