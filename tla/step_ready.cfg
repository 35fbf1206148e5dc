SPECIFICATION Spec
CONSTANTS
  MaxCrashes = 1
  MaxRefusals = 0
  MaxAttempts = 2
  Payloads = {"some"}
  MaxU32 = 16000
  MaxI32 = 8000
INVARIANT
  AtMostOncePerRetry
