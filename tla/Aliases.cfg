SPECIFICATION ASpec
CONSTANTS
  Names = {"a", "b", "c", "x", "u", "v"}
  Arrays = {"u", "v"}
  Parameters = {}
  N = 2
  Values <- Signs
  Models <- FlatModels
  references <- ReferencesOf
  evalNames <- EvalNamesOf
  derNames <- DerNamesOf
  PartialEval <- PartiallyEvaluated
  ReplaceExpression <- Replaced
  Value <- ValueOf
CHECK_DEADLOCK FALSE
INVARIANTS SameSolutions RemovedUnlessCyclic NoAliasLeft
PROPERTIES EachStepLowers AliasTerminates
