SPECIFICATION GraphSpec
CONSTANTS
  Models <- AllFiles
INVARIANTS SameVariables ValuesKept EquationsKept ConnectionsKept ErrorsFound
