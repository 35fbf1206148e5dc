SPECIFICATION FairSpec
CONSTANTS
  MaxCrashes = 2
  MaxRefusals = 1
  MaxAttempts = 3
  Payloads = {"some", "error"}
  MaxU32 = 16000
  MaxI32 = 8000
INVARIANTS
  StepTypeOK
  CommittedIsRecorded
  AttemptsCountUp
  FirstAttemptOnce
PROPERTIES
  ImplementsStepPromise
  StepSettles
