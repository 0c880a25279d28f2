SPECIFICATION Spec
CONSTANTS
  Table <- SymTable
  States <- Valuations
  Jobs <- Equations
  MaxFunctions = 3
  Rounds = 2
CHECK_DEADLOCK FALSE
INVARIANTS SolvesEquation EvaluatorsAgree ValueKept UnknownFound
PROPERTY PrintedAsRead
