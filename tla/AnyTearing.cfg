SPECIFICATION Spec
CONSTANTS
  Systems <- Matched
  MaxTearing = 3
  Pinned = TRUE
INVARIANTS TypeOK OutputOrderable DependenciesKept OneStartPerLoop EveryEquationOnce
