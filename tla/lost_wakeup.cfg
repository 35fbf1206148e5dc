SPECIFICATION FairSpec
CONSTANTS
  t1 = t1
  t2 = t2
  t3 = t3
  s1 = s1
  s2 = s2
  w1 = w1
  ctx = ctx
  inv = inv
  exec = exec
  NoOp = NoOp
  Worker = Worker
  Main = Main
  Nobody = Nobody
  Task = {t1, Main}
  Op = {s1, exec}
  Replayed = {}
  Joined = {t1}
  Returns = {"ok"}
  Program <- OneStepProgram
  Kind <- MCKind
  Parent <- NoParent
  Size <- MCSize
  MaxPayload = 2
  CanFail = FALSE
  Preemptive = TRUE
PROPERTY
  CallersAreReleased
CHECK_DEADLOCK FALSE
