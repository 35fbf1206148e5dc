SPECIFICATION Spec
CONSTANTS
  MaxU32 = 16383
  Configuration <- MCConfiguration
  Opening <- MCOpening
  Answers <- MCAnswers
  Batches <- MCBatches
INVARIANT
  ResultsFollowTheirCalls
CHECK_DEADLOCK FALSE
