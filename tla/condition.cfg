SPECIFICATION FairSpec
CONSTANTS
  MaxCrashes = 2
  MaxRefusals = 1
  MaxPolls = 3
  Payloads = {"some", "error"}
INVARIANTS
  ConditionTypeOK
  PollsContinue
  ExceededIsFinal
PROPERTIES
  ImplementsPromise
  ConditionSettles
