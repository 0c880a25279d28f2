--------------------------- MODULE ExpressionVisitors ---------------------------
(***************************************************************************)
(* The visitors of Expressions, as recursive operators.                    *)
(***************************************************************************)
EXTENDS Expressions

RECURSIVE ReferencesOf(_)
ReferencesOf(e) == referencesBy(ReferencesOf, e)

RECURSIVE EvalNamesOf(_)
EvalNamesOf(e) == evalNamesBy(EvalNamesOf, e)

RECURSIVE DerNamesOf(_)
DerNamesOf(e) == derNamesBy(DerNamesOf, e)

RECURSIVE PartiallyEvaluated(_)
PartiallyEvaluated(e) == partialEvalBy(PartiallyEvaluated, e)

RECURSIVE Replaced(_, _, _, _)
Replaced(look, rep, ignoreIndexes, e) == replaceBy(Replaced, look, rep, ignoreIndexes, e)

RECURSIVE ValueOf(_, _, _)
ValueOf(e, s, i) == valueBy(ValueOf, e, s, i)
=============================================================================
