SPECIFICATION FairSpec
CONSTANTS
  MaxItems = 3
  Calls <- MCCalls
  Outputs = {"small", "large"}
  Mode = "Replay"
  Runtimes = {"current-thread", "multi-thread"}
  MaxFaults = 4
  MaxU32 = 16383
INVARIANTS
  BatchTypeOK
  ResultIsStable
PROPERTIES
  CompletionIsLast
  NoBranchRunsAgain
  BatchSettles
