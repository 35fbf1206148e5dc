SPECIFICATION Spec
CONSTANTS
  MaxItems = 2
  Calls <- MCCalls
  Outputs = {"small"}
  Mode = "Execution"
  Runtimes = {"current-thread"}
  MaxFaults = 4
  MaxU32 = 16383
INVARIANT
  ResultIsStable
