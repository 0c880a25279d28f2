SPECIFICATION FormatSpec
CONSTANTS
  Models <- Looped
  MaxTearing = 2
INVARIANTS StagesShown VerticesFound TornEquationsShown AuxVarsDeclared StoppedForAReason
