SPECIFICATION Spec
CONSTANTS
  t1 = t1
  t2 = t2
  t3 = t3
  s1 = s1
  s2 = s2
  w1 = w1
  ctx = ctx
  inv = inv
  exec = exec
  NoOp = NoOp
  Worker = Worker
  Main = Main
  Nobody = Nobody
  Task = {t1, t2, t3, Main}
  Op = {ctx, s1, w1, exec}
  Replayed = {}
  Joined = {t1}
  Returns = {"ok", "large", "unwritable"}
  Program <- BatchProgram
  Kind <- MCKind
  Parent <- ChildOfBatch
  Size <- MCSize
  MaxPayload = 2
  CanFail = FALSE
  Preemptive = TRUE
INVARIANTS
  TypeInvariant
  OneBatchInFlight
  NothingIsLost
  CompletionsAreTracked
  StoredIsNewest
  SucceededIsDurable
PROPERTY
  ImplementsDurableLog
CHECK_DEADLOCK FALSE
