SPECIFICATION InputSpec
CONSTANTS
  Models <- Plain
INVARIANTS NumbersGivenOnce BuildsSystem OccurrencesJoined
PROPERTIES AnswersTheModel
