SPECIFICATION ESpec
CONSTANTS
  GuessVars = {"guess_x"}
  ResVars = {"res_x"}
  Models <- Sorted
CHECK_DEADLOCK FALSE
INVARIANTS EachUnknownOnce OrderKept ZerosKept
