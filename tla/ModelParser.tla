----------------------------- MODULE ModelParser -----------------------------
(***************************************************************************)
(* Reading with the grammar of models.  A rule returns what it has made of *)
(* the text, one value for each part that has one, and the rest; or it is  *)
(* not ok, so that the next alternative is tried; or it has to stop, which *)
(* only a rule with an error handler turns into a plain No.                *)
(***************************************************************************)
EXTENDS ModelGrammar

Yes(vals, rest) == [ok |-> TRUE, stop |-> FALSE, vals |-> vals, rest |-> rest]
No   == [ok |-> FALSE, stop |-> FALSE, vals |-> <<>>, rest |-> <<>>]
Stop == [No EXCEPT !.stop = TRUE]

(* The rules of expressions, which Syntax reads *)
OfExpression(e) == IF e.ok THEN Yes(<<e.exp>>, e.rest) ELSE No
OfList(l)       == IF l.ok THEN Yes(<<l.exps>>, l.rest) ELSE Stop

function_call_args(text) ==
  CASE ~starts(text, {"("}) -> No
    [] starts(text, {"("}) /\ starts(Tail(text), {")"}) -> Yes(<<<<>>>>, Tail(Tail(text)))
    [] OTHER -> OfList(function_arguments(Tail(text), ")"))

subscripts(text) == IF starts(text, {"["}) THEN OfList(array_subscripts(Tail(text))) ELSE No

referenceWith(subs, name, rest) ==
  CASE subs.ok   -> Yes(<<Reference(name, subs.vals[1])>>, subs.rest)
    [] subs.stop -> Stop
    [] OTHER     -> Yes(<<Reference(name, <<>>)>>, rest)
component_reference(text) ==
  IF text = <<>> \/ text[1][1] # "id" THEN No
  ELSE referenceWith(subscripts(Tail(text)), text[1][2], Tail(text))

RECURSIVE for_indices(_)
(* ident -(in expression), with commas *)
indicesFrom(index, rest) ==
  LET more == for_indices(Tail(rest))
  IN  IF starts(rest, {","}) /\ more.ok THEN Yes(<<<<index>> \o more.vals[1]>>, more.rest)
      ELSE Yes(<<<<index>>>>, rest)
inRange(name, e) == IF e.ok THEN indicesFrom([name |-> name, exp |-> <<e.exp>>], e.rest) ELSE Stop
for_indices(text) ==
  CASE text = <<>> \/ text[1][1] # "id" -> No
    [] text # <<>> /\ text[1][1] = "id" /\ ~starts(Tail(text), {"in"}) ->
         indicesFrom([name |-> text[1][2], exp |-> <<>>], Tail(text))
    [] OTHER -> inRange(text[1][2], expression(SubSeq(text, 3, Len(text))))

RECURSIVE output_expression_list(_)
outputsFrom(out, rest) ==
  LET more == output_expression_list(Tail(rest))
  IN  IF starts(rest, {","}) THEN Yes(<<<<out>> \o more.vals[1]>>, more.rest) ELSE Yes(<<<<out>>>>, rest)
outputAfter(e, text) == outputsFrom(IF e.ok THEN <<e.exp>> ELSE <<>>, IF e.ok THEN e.rest ELSE text)
output_expression_list(text) == outputAfter(expression(text), text)

readExpression(name, text) ==
  CASE name = "expression" -> OfExpression(expression(text))
    [] name = "simple_expression" -> OfExpression(simple_expression(text))
    [] name = "function_call_args" -> function_call_args(text)
    [] name = "array_subscripts" -> subscripts(text)
    [] name = "component_reference" -> component_reference(text)
    [] name = "for_indices" -> for_indices(text)
    [] name = "output_expression_list" -> output_expression_list(text)

-----------------------------------------------------------------------------
RECURSIVE read(_, _)
RECURSIVE readAll(_, _, _)
RECURSIVE readFirst(_, _, _)
RECURSIVE readMany(_, _, _, _)
RECURSIVE readPrefixes(_, _)

(* a has been read behind the values vals, and the rules follow *)
readAll(rules, vals, a) ==
  IF a.ok
  THEN IF rules = <<>> THEN Yes(vals \o a.vals, a.rest)
       ELSE readAll(Tail(rules), vals \o a.vals, read(Head(rules), a.rest))
  ELSE a

(* a is what an alternative has read, and the rules are the alternatives after it *)
readFirst(rules, text, a) ==
  IF a.ok THEN a
  ELSE IF a.stop \/ rules = <<>> THEN a ELSE readFirst(Tail(rules), text, read(Head(rules), text))

(* a is what a turn has read behind the values vals of the turns before *)
readMany(r, vals, text, a) ==
  CASE a.ok   -> readMany(r, vals \o a.vals, a.rest, read(r, a.rest))
    [] a.stop -> Stop
    [] OTHER  -> Yes(<<vals>>, text)

(* r, and then (sep r)*: a separator without an r behind it is left for what comes next *)
readList(next, first) ==
  IF first.ok THEN readMany(next, first.vals, first.rest, read(next, first.rest)) ELSE first

readPrefixes(sets, text) ==
  IF sets = <<>> THEN Yes(<<<<>>>>, text)
  ELSE LET found == starts(text, Head(sets))
           more == readPrefixes(Tail(sets), IF found THEN Tail(text) ELSE text)
       IN  Yes(<<(IF found THEN <<text[1][2]>> ELSE <<>>) \o more.vals[1]>>, more.rest)

named(names, vals) == [f \in Range(names) |-> vals[CHOOSE k \in DOMAIN names : names[k] = f]]

(* What is made of the only part of a rule, and what of it when there is none *)
made(r, one) ==
  CASE r.rule = "node"    -> <<[kind |-> r.kind] @@ named(r.fields, one.vals)>>
    [] r.rule \in {"opt", "pair"} -> <<one.vals>>
    [] r.rule \in {"orempty", "expect"} -> one.vals
    [] r.rule = "omit"    -> <<>>
    [] r.rule = "setting" -> <<named(r.fields, one.vals) @@ Last(one.vals)>>
    [] r.rule = "joined"  -> <<FlattenSeq(one.vals)>>
missing(r, one, text) ==
  CASE r.rule \in {"opt", "orempty"} /\ ~one.stop -> Yes(<<<<>>>>, text)
    [] r.rule = "expect" -> Stop
    [] OTHER -> one
readOf(r, one, text) == IF one.ok THEN Yes(made(r, one), one.rest) ELSE missing(r, one, text)

(* An error handler *)
handled(a) == IF a.stop THEN No ELSE a

read(r, text) ==
  CASE r.rule = "rule"    -> read(Grammar[r.name], text)
    [] r.rule = "handled" -> handled(read(Grammar[r.name], text))
    [] r.rule = "syntax"  -> readExpression(r.name, text)
    [] r.rule = "seq"     -> readAll(Tail(r.parts), <<>>, read(Head(r.parts), text))
    [] r.rule = "alt"     -> readFirst(Tail(r.parts), text, read(Head(r.parts), text))
    [] r.rule = "star"    -> readMany(r.of, <<>>, text, read(r.of, text))
    [] r.rule = "list"    -> readList(Sequence(<<Word(","), r.of>>), read(r.of, text))
    [] r.rule = "sum"     -> readList(Sequence(<<Word("+"), r.of>>), read(r.of, text))
    [] r.rule = "word"    -> IF starts(text, {r.word}) THEN Yes(<<>>, Tail(text)) ELSE No
    [] r.rule = "matches" -> IF starts(text, {r.word}) THEN Yes(<<TRUE>>, Tail(text)) ELSE Yes(<<FALSE>>, text)
    [] r.rule = "token"   -> IF text # <<>> /\ text[1][1] = r.token THEN Yes(<<text[1][2]>>, Tail(text)) ELSE No
    [] r.rule = "prefixes" -> readPrefixes(r.sets, text)
    [] r.rule = "choice"   -> IF starts(text, r.words) THEN Yes(<<<<text[1][2]>>>>, Tail(text)) ELSE No
    [] OTHER -> readOf(r, read(r.of, text), text)

(* ParseFile: one class, and nothing left over *)
wholeFile(a) == IF a.ok /\ a.rest = <<>> THEN a.vals ELSE <<>>
ParseClass(text) == wholeFile(read(Rule("class_def"), text))
=============================================================================
