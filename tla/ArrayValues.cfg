SPECIFICATION GraphSpec
CONSTANTS
  Models <- ArrayValues
INVARIANTS ValuesKept
