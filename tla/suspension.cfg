SPECIFICATION FairSpec
CONSTANTS
  MaxCrashes = 2
  MaxRefusals = 1
  Kinds = {"wait", "callback", "invoke"}
  Ends = {"Succeeded", "Failed"}
  Results = {0, 1}
INVARIANTS
  SuspensionTypeOK
  StartedOnce
  SuspensionIsResumable
PROPERTIES
  ImplementsPromise
  OperationReturns
