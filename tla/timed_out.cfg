SPECIFICATION FairSpec
CONSTANTS
  MaxCrashes = 2
  MaxRefusals = 1
  Kinds = {"wait", "callback", "invoke"}
  Ends = {"Succeeded", "Failed", "Unknown"}
  Results = {0, 1}
PROPERTY
  OperationReturns
