SPECIFICATION InputSpec
CONSTANTS
  Models <- TwoArguments
INVARIANTS OccurrencesJoined
