SPECIFICATION Spec
CONSTANTS
  Systems <- AllOfThree
  MaxTearing = 1
  Pinned = FALSE
INVARIANTS SortTypeOK NeverUndefined Executable ResidualsZeroAtEnd
PROPERTIES Terminates ImplementsCausalOrder
