SPECIFICATION FairSpec
CONSTANTS
  MaxCrashes = 2
  MaxRefusals = 1
  Length = 2
  Payloads = {"some", "none", "error"}
INVARIANTS
  ChildTypeOK
  SuccessRestsOnRecords
  ParkedIsTerminating
PROPERTIES
  ImplementsPromise
  ContextSettles
