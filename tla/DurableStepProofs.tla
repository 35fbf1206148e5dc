-------------------------- MODULE DurableStepProofs --------------------------
(***************************************************************************)
(* Proofs about DurableStep, for every number of attempts, crashes and     *)
(* failed batches.                                                         *)
(***************************************************************************)
EXTENDS DurableStep, TLAPS

\* Every result is serialized to a payload: see the hazard at step/replay.rs:38.
EveryPayload == "none" \notin Payloads

-----------------------------------------------------------------------------
(* The inductive invariant: what is queued and what is recorded, by where  *)
(* the task is.                                                            *)

Open == record.status \notin Done

\* Nothing but a START of this invocation has been sent or recorded.
Fresh ==
  /\ Open
  /\ record.attempt = snapshot.attempt
  /\ Len(queue) <= 1
  /\ Len(queue) = 1 => queue[1].action = "Start"

\* The update that closes the attempt is the last in the queue.
Closing(action) ==
  /\ Open
  /\ record.attempt = snapshot.attempt
  /\ Len(queue) \in {1, 2}
  /\ Len(queue) = 2 => queue[1].action = "Start"
  /\ queue[Len(queue)].action = action

Settled ==
  /\ queue = <<>>
  /\ terminating \/ (~Open /\ outcome = RecordedOutcome(record))

Shape ==
  /\ pc = "down" => queue = <<>>
  /\ pc = "replay" =>
       /\ queue = <<>>
       /\ \/ snapshot.status \in Done /\ record = snapshot
          \/ snapshot.status \notin Done /\ Fresh
  /\ pc \in {"starting", "body", "running"} => Fresh
  /\ pc = "running" => ran # <<>>
  /\ pc \in {"parked", "suspended"} =>
       /\ Open \/ queue = <<>>
       /\ Len(queue) <= 1
       /\ Len(queue) = 1 => queue[1].action = "Start"
  /\ pc = "succeeding" =>
       \/ Settled
       \/ /\ Closing("Succeed")
          /\ queue[Len(queue)].result # 0
          /\ outcome = Ok(queue[Len(queue)].result)
  /\ pc = "failing" =>
       \/ Settled
       \/ Closing("Fail") /\ outcome = StepFailed(Attempt)
  /\ pc = "retrying" =>
       \/ queue = <<>> /\ Open
       \/ Closing("Retry") /\ MayRetry(Attempt)
  /\ pc = "returned" => Settled

Attempts ==
  /\ record.attempt < MaxAttempts
  /\ \A i \in DOMAIN ran : ran[i] <= record.attempt + 1
  /\ \A i \in DOMAIN ran : i > 1 => ran[i - 1] <= ran[i]

IInv == StepTypeOK /\ Shape /\ Attempts /\ CommittedIsRecorded

-----------------------------------------------------------------------------
(* Types.                                                                  *)

LEMMA UpdateType ==
  ASSUME NEW a \in {"Start", "Retry", "Succeed", "Fail"}, NEW v \in Nat
  PROVE  [action |-> a, result |-> v] \in Update
  BY DEF Update

LEMMA AfterUpdateType ==
  ASSUME record \in Record, NEW u \in Update
  PROVE  AfterUpdate(u) \in Record
<1>1. CASE u.action = "Start"
  BY <1>1 DEF AfterUpdate, Record, Status
<1>2. CASE u.action = "Retry"
  BY <1>2 DEF AfterUpdate, Record, Status, Update
<1>3. CASE u.action = "Succeed"
  BY <1>3 DEF AfterUpdate, Record, Status, Done, Update
<1>4. CASE u.action = "Fail"
  BY <1>4 DEF AfterUpdate, Record, Status, Done, Update
<1> QED
  BY <1>1, <1>2, <1>3, <1>4 DEF Update

LEMMA SendType ==
  ASSUME NEW u \in Update, NEW next \in StepPc, Send(u, next),
         queue \in Seq(Update)
  PROVE  pc' \in StepPc /\ queue' \in Seq(Update)
  BY DEF Send, StepPc

LEMMA RecordedOutcomeType ==
  ASSUME NEW r \in Record, r.status \in Done
  PROVE  RecordedOutcome(r) \in Outcome
  BY DEF RecordedOutcome, Record, Done, Outcome, Ok, Missing, StepFailed

LEMMA TypesInit == Init => StepTypeOK
<1> SUFFICES ASSUME Init PROVE StepTypeOK
  OBVIOUS
<1>1. Unrecorded \in Record /\ Missing \in Outcome
  BY DEF Unrecorded, Record, Status, Missing, Outcome
<1>2. 0 \in 0..MaxCrashes /\ 0 \in 0..MaxRefusals
  BY BoundsAssumption
<1>3. <<>> \in Seq(Update)
  OBVIOUS
<1> QED
  <2>1. InvocationTypeOK
    BY <1>1, <1>2, <1>3 DEF Init, InvocationInit, InvocationTypeOK
  <2>2. ran \in Seq(Nat \ {0})
    BY DEF Init
  <2> QED
    BY <1>1, <2>1, <2>2 DEF Init, InvocationInit, StepTypeOK, StepPc

LEMMA TypesEnvironment ==
  ASSUME StepTypeOK, EnvironmentAction, UNCHANGED stepVars
  PROVE  StepTypeOK'
<1> USE DEF StepTypeOK, InvocationTypeOK, stepVars
<1>1. CASE RecordUpdate
  <2>1. Head(queue) \in Update /\ Tail(queue) \in Seq(Update)
    BY <1>1 DEF RecordUpdate
  <2> QED
    BY <1>1, <2>1, AfterUpdateType DEF RecordUpdate
<1>2. CASE TimerElapses
  BY <1>2 DEF TimerElapses, Record, Status
<1>3. CASE BatchFails
  <2>1. Head(queue) \in Update
    BY <1>3 DEF BatchFails
  <2>2. refusals' \in 0..MaxRefusals
    BY <1>3, BoundsAssumption DEF BatchFails
  <2> QED
    BY <1>3, <2>1, <2>2, AfterUpdateType DEF BatchFails
<1>4. CASE Invoke
  BY <1>4 DEF Invoke, StepPc
<1>5. CASE Crash
  <2>1. crashes' \in 0..MaxCrashes
    BY <1>5, BoundsAssumption DEF Crash
  <2> QED
    BY <1>5, <2>1 DEF Crash, StepPc
<1>6. CASE OtherOperationSuspends
  <2>1. crashes' \in 0..MaxCrashes
    BY <1>6, BoundsAssumption DEF OtherOperationSuspends
  <2> QED
    BY <1>6, <2>1 DEF OtherOperationSuspends
<1>7. CASE InvocationEnds
  BY <1>7 DEF InvocationEnds, StepPc
<1> QED
  BY <1>1, <1>2, <1>3, <1>4, <1>5, <1>6, <1>7 DEF EnvironmentAction

LEMMA TypesSendFailure ==
  ASSUME StepTypeOK, SendFailure
  PROVE  StepTypeOK'
<1> USE DEF StepTypeOK, InvocationTypeOK
<1>1. Attempt \in Nat
  BY DEF Attempt, Record
<1>2. pc' \in StepPc /\ queue' \in Seq(Update)
  BY UpdateType, SendType DEF SendFailure, StepPc
<1>3. outcome' \in Outcome
  BY <1>1 DEF SendFailure, StepFailed, Outcome
<1> QED
  BY <1>2, <1>3 DEF SendFailure

LEMMA TypesStep ==
  ASSUME StepTypeOK, StepAction
  PROVE  StepTypeOK'
<1> USE DEF StepTypeOK, InvocationTypeOK, stepVars
<1>1. CASE ReplayCompleted
  BY <1>1, RecordedOutcomeType DEF ReplayCompleted, StepPc
<1>14. CASE ReplayUnreadable
  <2>1. crashes' \in 0..MaxCrashes
    BY <1>14, BoundsAssumption DEF ReplayUnreadable
  <2> QED
    BY <1>14, <2>1 DEF ReplayUnreadable, Terminate, StepPc
<1>2. CASE ReplayPending
  BY <1>2 DEF ReplayPending, Terminate, StepPc
<1>3. CASE ReplayInterrupted
  BY <1>3, TypesSendFailure DEF ReplayInterrupted
<1>4. CASE StartStep
  <2>1. pc' \in StepPc /\ queue' \in Seq(Update)
    BY <1>4, UpdateType, SendType DEF StartStep, StepPc
  <2> QED
    BY <1>4, <2>1 DEF StartStep
<1>5. CASE StartReturns
  BY <1>5 DEF StartReturns, StepPc
<1>6. CASE ResumeStep
  BY <1>6 DEF ResumeStep, StepPc
<1>7. CASE RunStep
  <2>1. Attempt \in Nat \ {0}
    BY DEF Attempt, Record
  <2> QED
    BY <1>7, <2>1 DEF RunStep, StepPc
<1>8. CASE StepSucceeds
  <2>1. Len(ran) \in Nat
    OBVIOUS
  <2>2. pc' \in StepPc /\ queue' \in Seq(Update)
    BY <1>8, <2>1, UpdateType, SendType DEF StepSucceeds, StepPc
  <2>3. outcome' \in Outcome
    BY <1>8, <2>1 DEF StepSucceeds, Ok, Outcome
  <2> QED
    BY <1>8, <2>2, <2>3 DEF StepSucceeds
<1>9. CASE StepUnserializable
  <2>1. crashes' \in 0..MaxCrashes
    BY <1>9, BoundsAssumption DEF StepUnserializable
  <2> QED
    BY <1>9, <2>1 DEF StepUnserializable, Terminate, StepPc
<1>10. CASE StepFails
  BY <1>10, TypesSendFailure DEF StepFails
<1>11. CASE StepReturns
  BY <1>11 DEF StepReturns, StepPc
<1>12. CASE RetryReturns
  BY <1>12 DEF RetryReturns, Terminate, StepPc
<1>13. CASE NextOperationRecorded
  BY <1>13 DEF NextOperationRecorded, invocationVars
<1> QED
  BY <1>1, <1>2, <1>3, <1>4, <1>5, <1>6, <1>7, <1>8, <1>9, <1>10, <1>11, <1>12,
     <1>13, <1>14 DEF StepAction

-----------------------------------------------------------------------------
(* What is queued and recorded, by where the task is.                      *)

LEMMA IInvInit == Init => IInv
<1> SUFFICES ASSUME Init PROVE IInv
  OBVIOUS
<1>1. Shape
  BY DEF Init, InvocationInit, Shape
<1>2. Attempts /\ CommittedIsRecorded
  BY StepAssumption DEF Init, InvocationInit, Unrecorded, Attempts, CommittedIsRecorded
<1> QED
  BY <1>1, <1>2, TypesInit DEF IInv

\* A record that is final stays as it is: nothing is queued behind it.
LEMMA FinalIsQuiet ==
  ASSUME StepTypeOK, Shape, ~Open
  PROVE  queue = <<>>
<1> QED
  BY DEF StepTypeOK, InvocationTypeOK, Shape, Settled, Fresh, Closing, Open, StepPc

LEMMA CommittedStep ==
  ASSUME IInv, Next
  PROVE  CommittedIsRecorded'
<1> USE DEF IInv, CommittedIsRecorded
<1>1. CASE NextOperationRecorded
  BY <1>1 DEF NextOperationRecorded, invocationVars, Shape, Settled, Open
<1>2. CASE committed' = committed /\ record' = record
  BY <1>2
<1>3. CASE committed' = committed /\ Open
  BY <1>3 DEF Open
<1>4. CASE committed' = committed /\ ~Open /\ EnvironmentAction
  BY <1>4, FinalIsQuiet DEF EnvironmentAction, RecordUpdate, TimerElapses, BatchFails,
     Invoke, Crash, OtherOperationSuspends, InvocationEnds, Open, Done
<1> QED
  BY <1>1, <1>2, <1>3, <1>4 DEF Next, stepVars, StepAction, ReplayCompleted, ReplayUnreadable,
     ReplayPending, ReplayInterrupted, SendFailure, StartStep, StartReturns, ResumeStep, RunStep,
     StepSucceeds, StepUnserializable, StepFails, StepReturns, RetryReturns

LEMMA Appended ==
  ASSUME NEW q \in Seq(Update), NEW u \in Update
  PROVE  /\ Len(Append(q, u)) = Len(q) + 1
         /\ Append(q, u)[Len(q) + 1] = u
         /\ Len(q) = 1 => Append(q, u)[1] = q[1]
  OBVIOUS

LEMMA Dequeued ==
  ASSUME NEW q \in Seq(Update), q # <<>>
  PROVE  /\ Len(q) \in Nat \ {0}
         /\ Head(q) = q[1]
         /\ Len(Tail(q)) = Len(q) - 1
         /\ Len(q) = 1 => Tail(q) = <<>>
         /\ Len(q) = 2 => Tail(q)[1] = q[2]
  OBVIOUS

\* Sending the update that closes the attempt, at a point where only START has
\* been sent.
LEMMA ShapeSend ==
  ASSUME StepTypeOK, Fresh, record' = record, snapshot' = snapshot,
         NEW a \in {"Retry", "Succeed", "Fail"}, NEW v \in Nat, NEW next \in StepPc,
         Send([action |-> a, result |-> v], next)
  PROVE  \/ /\ pc' = "parked" /\ Fresh'
         \/ /\ pc' = next /\ Closing(a)'
            /\ queue'[Len(queue')].result = v
<1>a. queue \in Seq(Update)
  BY DEF StepTypeOK, InvocationTypeOK
<1>1. CASE terminating
  BY <1>a, <1>1 DEF Send, Fresh, Open
<1>2. CASE ~terminating
  <2>1. [action |-> a, result |-> v] \in Update
    BY UpdateType
  <2>2. queue' = Append(queue, [action |-> a, result |-> v]) /\ pc' = next
    BY <1>a, <1>2 DEF Send
  <2>3. /\ Len(queue) \in Nat /\ Len(queue') = Len(queue) + 1
        /\ queue'[Len(queue')].action = a
        /\ queue'[Len(queue')].result = v
        /\ Len(queue) = 1 => queue'[1] = queue[1]
    BY <1>a, <2>1, <2>2, Appended
  <2>4. Closing(a)'
    <3>1. Open' /\ record'.attempt = snapshot'.attempt
      BY DEF Fresh, Open
    <3>2. Len(queue) <= 1 /\ (Len(queue) = 1 => queue[1].action = "Start")
      BY DEF Fresh
    <3>a. Len(queue) \in Nat /\ Len(queue) <= 1 /\ Len(queue') = Len(queue) + 1
      BY <2>3, <3>2
    <3>3. Len(queue') \in {1, 2} /\ (Len(queue') = 2 => Len(queue) = 1)
      BY <3>a
    <3> QED
      BY <2>3, <3>1, <3>2, <3>3 DEF Closing
  <2> QED
    BY <2>2, <2>3, <2>4
<1> QED
  BY <1>a, <1>1, <1>2

LEMMA ShapeSendFailure ==
  ASSUME StepTypeOK, Fresh, SendFailure
  PROVE  Shape'
<1>1. Attempt' = Attempt /\ MayRetry(Attempt)' = MayRetry(Attempt)
  BY DEF SendFailure, Attempt, MayRetry
<1>2. \/ pc' = "parked" /\ Fresh'
      \/ pc' = "retrying" /\ Closing("Retry")' /\ MayRetry(Attempt)
      \/ pc' = "failing" /\ Closing("Fail")' /\ outcome' = StepFailed(Attempt)
  BY ShapeSend DEF SendFailure, StepPc
<1> QED
  BY <1>1, <1>2 DEF Shape, Fresh, StepFailed

LEMMA ShapeStep ==
  ASSUME IInv, StepAction, EveryPayload
  PROVE  Shape'
<1>a. /\ Shape /\ queue \in Seq(Update) /\ pc \in StepPc
      /\ record \in Record /\ snapshot \in Record /\ ran \in Seq(Nat \ {0})
      /\ StepTypeOK
  BY DEF IInv, StepTypeOK, InvocationTypeOK
<1>1. CASE ReplayCompleted
  BY <1>a, <1>1 DEF ReplayCompleted, Shape, Settled, Fresh, Open
<1>14. CASE ReplayUnreadable
  <2>1. queue' = <<>> /\ Len(queue') = 0 /\ pc' = "suspended"
    BY <1>a, <1>14 DEF ReplayUnreadable, Terminate, Shape
  <2> QED
    BY <2>1 DEF Shape
<1>2. CASE ReplayPending
  BY <1>a, <1>2 DEF ReplayPending, Terminate, Shape, Fresh, Open, Done, stepVars
<1>3. CASE ReplayInterrupted
  BY <1>a, <1>3, ShapeSendFailure DEF ReplayInterrupted, Shape, Done
<1>4. CASE StartStep
  <2>1. Fresh /\ queue = <<>> /\ Len(queue) = 0
    BY <1>a, <1>4 DEF StartStep, Shape, Done
  <2>2. [action |-> "Start", result |-> 0] \in Update
    BY UpdateType
  <2>3. pc' \in {"parked", "starting", "body"}
    BY <1>a, <1>4 DEF StartStep, Send
  <2>4. queue' = queue \/ queue' = Append(queue, [action |-> "Start", result |-> 0])
    BY <1>a, <1>4 DEF StartStep, Send
  <2>5. \/ Len(queue') = 0
        \/ Len(queue') = 1 /\ queue'[1].action = "Start"
    <3>1. CASE queue' = queue
      BY <2>1, <3>1
    <3>2. CASE queue' = Append(queue, [action |-> "Start", result |-> 0])
      BY <1>a, <2>1, <2>2, <3>2, Appended
    <3> QED
      BY <2>4, <3>1, <3>2
  <2>6. Fresh'
    <3>1. record' = record /\ snapshot' = snapshot
      BY <1>a, <1>4 DEF StartStep
    <3>2. Open' /\ record'.attempt = snapshot'.attempt
      BY <2>1, <3>1 DEF Fresh, Open
    <3>3. Len(queue') <= 1
      BY <2>5
    <3>4. Len(queue') = 1 => queue'[1].action = "Start"
      BY <2>5
    <3> QED
      BY <3>2, <3>3, <3>4 DEF Fresh
  <2> QED
    BY <2>3, <2>6 DEF Shape, Fresh
<1>5. CASE StartReturns
  BY <1>a, <1>5 DEF StartReturns, Shape, Fresh, Open, stepVars
<1>6. CASE ResumeStep
  BY <1>a, <1>6 DEF ResumeStep, AlreadyStarted, Shape, Fresh, Open, Done, stepVars
<1>7. CASE RunStep
  BY <1>a, <1>7 DEF RunStep, Shape, Fresh, Open
<1>8. CASE StepSucceeds
  <2>1. Fresh /\ ran # <<>> /\ Len(ran) \in Nat \ {0}
    BY <1>a, <1>8 DEF StepSucceeds, Shape
  <2>2. Send([action |-> "Succeed", result |-> Len(ran)], "succeeding")
    BY <1>a, <1>8, StepAssumption DEF StepSucceeds, EveryPayload
  <2>3. \/ pc' = "parked" /\ Fresh'
        \/ /\ pc' = "succeeding" /\ Closing("Succeed")'
           /\ queue'[Len(queue')].result = Len(ran)
    BY <1>a, <1>8, <2>1, <2>2, ShapeSend DEF StepSucceeds, StepPc
  <2>4. outcome' = Ok(Len(ran))
    BY <1>a, <1>8 DEF StepSucceeds
  <2> QED
    BY <2>1, <2>3, <2>4 DEF Shape, Fresh
<1>9. CASE StepUnserializable
  BY <1>a, <1>9 DEF StepUnserializable, Terminate, Shape, Fresh, Open, stepVars
<1>10. CASE StepFails
  BY <1>a, <1>10, ShapeSendFailure DEF StepFails, Shape
<1>11. CASE StepReturns
  BY <1>a, <1>11 DEF StepReturns, Released, Shape, Settled, Closing, Open, stepVars
<1>12. CASE RetryReturns
  BY <1>a, <1>12 DEF RetryReturns, Released, Terminate, Shape, Closing, Open, stepVars
<1>13. CASE NextOperationRecorded
  BY <1>a, <1>13 DEF NextOperationRecorded, invocationVars, Shape, Settled, Open, Fresh,
     Closing, Attempt
<1> QED
  BY <1>1, <1>2, <1>3, <1>4, <1>5, <1>6, <1>7, <1>8, <1>9, <1>10, <1>11, <1>12,
     <1>13, <1>14 DEF StepAction

LEMMA ShapeEnvironment ==
  ASSUME IInv, EnvironmentAction, UNCHANGED stepVars
  PROVE  Shape'
<1>a. /\ Shape /\ queue \in Seq(Update) /\ pc \in StepPc
      /\ record \in Record /\ snapshot \in Record /\ ran \in Seq(Nat \ {0})
      /\ StepTypeOK
  BY DEF IInv, StepTypeOK, InvocationTypeOK
<1> USE DEF stepVars
<1>1. CASE RecordUpdate
  <2> DEFINE u == queue[1]
  <2>1. /\ queue # <<>> /\ u \in Update /\ record' = AfterUpdate(u)
        /\ queue' = Tail(queue) /\ pc' = pc
        /\ Len(queue') = Len(queue) - 1
        /\ Len(queue) = 1 => queue' = <<>>
        /\ Len(queue) = 2 => queue'[1] = queue[2]
    BY <1>a, <1>1, Dequeued DEF RecordUpdate
  <2>2. UNCHANGED <<snapshot, terminating, outcome, ran>> /\ Attempt' = Attempt
    BY <1>a, <1>1 DEF RecordUpdate, Attempt
  <2>3. Len(queue) = 1 /\ u.action = "Start" => queue' = <<>> /\ Len(queue') = 0
    BY <2>1
  <2>4. u.action = "Start" => Open' /\ record'.attempt = record.attempt
    BY <1>a, <2>1 DEF AfterUpdate, Open, Done, Record
  <2>5. CASE pc \in {"starting", "body", "running"}
    BY <1>a, <2>1, <2>2, <2>3, <2>4, <2>5 DEF Shape, Fresh
  <2>6. CASE pc \in {"parked", "suspended"}
    BY <1>a, <2>1, <2>2, <2>3, <2>4, <2>6 DEF Shape
  <2>7. ASSUME NEW a, Closing(a), Len(queue) = 2
        PROVE  Closing(a)' /\ queue'[Len(queue')] = queue[Len(queue)]
    <3>1. Len(queue') = 1 /\ queue'[1] = queue[2] /\ queue[1].action = "Start"
      BY <2>1, <2>7 DEF Closing
    <3> QED
      BY <2>1, <2>2, <2>4, <2>7, <3>1 DEF Closing
  <2>8. CASE pc = "succeeding"
    <3>1. CASE Len(queue) = 2
      BY <1>a, <2>1, <2>2, <2>7, <2>8, <3>1 DEF Shape, Settled
    <3>2. CASE Len(queue) # 2
      <4>1. /\ Len(queue) = 1 /\ u.action = "Succeed" /\ u.result # 0
            /\ outcome = Ok(u.result)
        BY <1>a, <2>1, <2>8, <3>2 DEF Shape, Settled, Closing
      <4>2. record'.status = "Succeeded" /\ record'.result = u.result
        BY <1>a, <2>1, <4>1 DEF AfterUpdate, Record
      <4>3. RecordedOutcome(record') = Ok(u.result)
        BY <4>1, <4>2 DEF RecordedOutcome
      <4>4. Settled'
        BY <2>1, <2>2, <4>1, <4>2, <4>3 DEF Settled, Open, Done
      <4> QED
        BY <2>1, <2>8, <4>4 DEF Shape
    <3> QED
      BY <3>1, <3>2
  <2>9. CASE pc = "failing"
    <3>1. CASE Len(queue) = 2
      BY <1>a, <2>1, <2>2, <2>7, <2>9, <3>1 DEF Shape, Settled
    <3>2. CASE Len(queue) # 2
      <4>1. /\ Len(queue) = 1 /\ u.action = "Fail" /\ outcome = StepFailed(Attempt)
            /\ record.attempt = snapshot.attempt
        BY <1>a, <2>1, <2>9, <3>2 DEF Shape, Settled, Closing
      <4>2. record'.status = "Failed" /\ record'.attempt = record.attempt
        BY <1>a, <2>1, <4>1 DEF AfterUpdate, Record
      <4>3. RecordedOutcome(record') = StepFailed(Attempt)
        BY <4>1, <4>2 DEF RecordedOutcome, Attempt
      <4>4. Settled'
        BY <2>1, <2>2, <4>1, <4>2, <4>3 DEF Settled, Open, Done
      <4> QED
        BY <2>1, <2>9, <4>4 DEF Shape
    <3> QED
      BY <3>1, <3>2
  <2>10. CASE pc = "retrying"
    <3>1. CASE Len(queue) = 2
      BY <1>a, <2>1, <2>2, <2>7, <2>10, <3>1 DEF Shape, MayRetry
    <3>2. CASE Len(queue) # 2
      <4>1. Len(queue) = 1 /\ u.action = "Retry"
        BY <1>a, <2>1, <2>10, <3>2 DEF Shape, Closing
      <4>2. Open'
        BY <1>a, <2>1, <4>1 DEF AfterUpdate, Open, Done
      <4> QED
        BY <2>1, <2>10, <4>1, <4>2 DEF Shape
    <3> QED
      BY <3>1, <3>2
  <2> QED
    BY <1>a, <2>1, <2>5, <2>6, <2>8, <2>9, <2>10 DEF Shape, Settled, StepPc
<1>2. CASE TimerElapses
  BY <1>a, <1>2 DEF TimerElapses, Shape, Settled, Fresh, Open, Closing, Attempt, Done
<1>3. CASE BatchFails
  <2>1. /\ queue # <<>> /\ queue' = <<>> /\ Len(queue') = 0 /\ terminating' /\ pc' = pc
        /\ UNCHANGED <<snapshot, ran>>
    BY <1>3 DEF BatchFails
  <2>b. Len(queue) \in Nat /\ Len(queue) >= 1
    BY <1>a, <2>1, Dequeued
  <2>c. Len(queue) <= 1 => Len(queue) = 1
    <3> DEFINE n == Len(queue)
    <3>1. n \in Nat /\ n >= 1
      BY <2>b
    <3> HIDE DEF n
    <3>2. n <= 1 => n = 1
      BY <3>1
    <3> QED
      BY <3>2 DEF n
  <2>a. queue[1] \in Update /\ record' \in {record, AfterUpdate(queue[1])}
    BY <1>a, <1>3, Dequeued DEF BatchFails
  <2>2. Open
    BY <2>1, FinalIsQuiet DEF IInv
  <2>3. queue[1].action = "Start" => Open' /\ record'.attempt = record.attempt
    BY <1>a, <2>a, <2>2 DEF AfterUpdate, Open, Done, Record
  <2>4. queue[1].action = "Retry" => Open'
    BY <1>a, <2>a, <2>2 DEF AfterUpdate, Open, Done
  <2>5. CASE pc \in {"starting", "body", "running"}
    BY <1>a, <2>1, <2>c, <2>3, <2>5 DEF Shape, Fresh
  <2>6. CASE pc \in {"parked", "suspended"}
    BY <1>a, <2>1, <2>c, <2>3, <2>6 DEF Shape
  <2>7. CASE pc \in {"succeeding", "failing"}
    BY <1>a, <2>1, <2>7 DEF Shape, Settled
  <2>8. CASE pc = "retrying"
    BY <1>a, <2>1, <2>b, <2>3, <2>4, <2>8 DEF Shape, Closing
  <2> QED
    BY <1>a, <2>1, <2>5, <2>6, <2>7, <2>8 DEF Shape, Settled, StepPc
<1>4. CASE Invoke
  BY <1>a, <1>4 DEF Invoke, Shape, Fresh, Open
<1>5. CASE Crash
  BY <1>a, <1>5 DEF Crash, Shape
<1>6. CASE OtherOperationSuspends
  BY <1>a, <1>6 DEF OtherOperationSuspends, Shape, Settled, Fresh, Open, Closing, Attempt
<1>7. CASE InvocationEnds
  BY <1>a, <1>7 DEF InvocationEnds, Shape
<1> QED
  BY <1>1, <1>2, <1>3, <1>4, <1>5, <1>6, <1>7 DEF EnvironmentAction

-----------------------------------------------------------------------------
(* The attempts.                                                           *)

\* The service counts a RETRY only where the strategy still allows an attempt.
LEMMA AttemptRecorded ==
  ASSUME IInv, EnvironmentAction, UNCHANGED stepVars
  PROVE  \/ record'.attempt = record.attempt
         \/ /\ record'.attempt = record.attempt + 1
            /\ record.attempt + 1 < MaxAttempts
<1>a. /\ Shape /\ queue \in Seq(Update) /\ pc \in StepPc
      /\ record \in Record /\ snapshot \in Record
  BY DEF IInv, StepTypeOK, InvocationTypeOK
<1>1. ASSUME queue # <<>>, queue[1].action = "Retry"
      PROVE  record.attempt + 1 < MaxAttempts
  <2>1. Len(queue) \in Nat \ {0}
    BY <1>a, <1>1, Dequeued
  <2>2. pc = "retrying"
    <3> DEFINE n == Len(queue)
    <3>1. n # 0 /\ queue # <<>> /\ queue[1].action # "Start"
      BY <1>1, <2>1
    <3>a. n \in Nat \ {0}
      BY <2>1
    <3>2. n <= 1 => n = 1
      <4> HIDE DEF n
      <4> QED
        BY <3>a
    <3>3. ~Fresh
      BY <3>1, <3>2 DEF Fresh
    <3>4. pc \notin {"down", "replay", "starting", "body", "running", "returned"}
      BY <1>a, <3>1, <3>3 DEF Shape, Settled, Fresh
    <3>5. pc \notin {"parked", "suspended"}
      BY <1>a, <3>1, <3>2 DEF Shape
    <3>6. pc \notin {"succeeding", "failing"}
      BY <1>a, <1>1, <3>1, <3>2 DEF Shape, Settled, Closing
    <3> QED
      BY <1>a, <3>4, <3>5, <3>6 DEF StepPc
  <2>3. MayRetry(Attempt) /\ record.attempt = snapshot.attempt
    BY <1>a, <1>1, <2>2 DEF Shape, Closing
  <2> QED
    BY <2>3 DEF MayRetry, Attempt
<1>2. ASSUME queue # <<>>, record' = AfterUpdate(queue[1])
      PROVE  \/ record'.attempt = record.attempt
             \/ record'.attempt = record.attempt + 1 /\ queue[1].action = "Retry"
  <2>1. queue[1] \in Update
    BY <1>a, <1>2, Dequeued
  <2> QED
    BY <1>a, <1>2, <2>1 DEF AfterUpdate, Record, Update
<1>3. CASE RecordUpdate
  BY <1>a, <1>1, <1>2, <1>3, Dequeued DEF RecordUpdate
<1>4. CASE BatchFails
  BY <1>a, <1>1, <1>2, <1>4, Dequeued DEF BatchFails
<1>5. CASE TimerElapses
  BY <1>a, <1>5 DEF TimerElapses, Record
<1> QED
  BY <1>3, <1>4, <1>5 DEF EnvironmentAction, Invoke, Crash, OtherOperationSuspends,
     InvocationEnds

LEMMA AttemptsStep ==
  ASSUME IInv, Next
  PROVE  Attempts'
<1>a. /\ Shape /\ Attempts /\ MaxAttempts \in Nat /\ ran \in Seq(Nat \ {0})
      /\ record \in Record /\ snapshot \in Record /\ record.attempt \in Nat
  BY StepAssumption DEF IInv, StepTypeOK, InvocationTypeOK, Record
<1>1. CASE EnvironmentAction /\ UNCHANGED stepVars
  <2>1. ran' = ran
    BY <1>1 DEF stepVars
  <2>2. record'.attempt \in Nat /\ record.attempt <= record'.attempt
        /\ record'.attempt < MaxAttempts
    BY <1>a, <1>1, AttemptRecorded DEF Attempts
  <2>3. \A i \in DOMAIN ran : ran[i] \in Nat
    BY <1>a
  <2> QED
    BY <1>a, <2>1, <2>2, <2>3 DEF Attempts
<1>2. CASE RunStep
  <2>1. Attempt = record.attempt + 1 /\ record' = record
    BY <1>a, <1>2 DEF RunStep, Shape, Fresh, Attempt
  <2>2. ran' = Append(ran, Attempt) /\ Attempt \in Nat
    BY <1>a, <1>2, <2>1 DEF RunStep
  <2>3. /\ Len(ran) \in Nat
        /\ DOMAIN ran = 1..Len(ran) /\ DOMAIN ran' = 1..(Len(ran) + 1)
        /\ ran'[Len(ran) + 1] = Attempt
        /\ \A i \in DOMAIN ran : ran'[i] = ran[i] /\ ran[i] <= Attempt
    BY <1>a, <2>1, <2>2 DEF Attempts
  <2>4. \A i \in DOMAIN ran' : ran'[i] <= Attempt
    BY <2>2, <2>3
  <2>5. ASSUME NEW i \in DOMAIN ran', i > 1
        PROVE  ran'[i - 1] <= ran'[i]
    <3>1. i - 1 \in DOMAIN ran /\ (i \in DOMAIN ran \/ i = Len(ran) + 1)
      BY <2>3, <2>5
    <3> QED
      BY <1>a, <2>3, <2>5, <3>1 DEF Attempts
  <2> QED
    BY <1>a, <2>1, <2>4, <2>5 DEF Attempts
<1>3. CASE StepAction /\ ran' = ran /\ record' = record
  BY <1>a, <1>3 DEF Attempts
<1>4. StepAction => RunStep \/ (ran' = ran /\ record' = record)
  BY DEF stepVars, invocationVars, StepAction, ReplayCompleted, ReplayUnreadable, ReplayPending,
     ReplayInterrupted, SendFailure, StartStep, StartReturns, ResumeStep, StepSucceeds,
     StepUnserializable, StepFails, StepReturns, RetryReturns, NextOperationRecorded
<1> QED
  BY <1>1, <1>2, <1>3, <1>4 DEF Next

LEMMA IInvStep ==
  ASSUME IInv, [Next]_vars, EveryPayload
  PROVE  IInv'
<1>1. CASE Next
  BY <1>1, TypesStep, TypesEnvironment, ShapeStep, ShapeEnvironment, AttemptsStep,
     CommittedStep DEF IInv, Next
<1>2. CASE UNCHANGED vars
  BY <1>2 DEF vars, invocationVars, stepVars, IInv, StepTypeOK, InvocationTypeOK, Shape,
     Fresh, Closing, Settled, Open, Attempt, Attempts, CommittedIsRecorded
<1> QED
  BY <1>1, <1>2

-----------------------------------------------------------------------------
\* Every value the step handles keeps its type; in particular the bounds are kept
\* (src/context/durable_context/step.rs).
THEOREM StepTypes == Spec => []StepTypeOK
<1>1. StepTypeOK /\ [Next]_vars => StepTypeOK'
  <2> SUFFICES ASSUME StepTypeOK, [Next]_vars PROVE StepTypeOK'
    OBVIOUS
  <2>1. CASE Next
    BY <2>1, TypesStep, TypesEnvironment DEF Next
  <2>2. CASE UNCHANGED vars
    BY <2>2 DEF vars, invocationVars, stepVars, StepTypeOK, InvocationTypeOK
  <2> QED
    BY <2>1, <2>2
<1> QED
  BY <1>1, TypesInit, PTL DEF Spec

LEMMA Invariance ==
  ASSUME EveryPayload
  PROVE  Spec => []IInv
<1>1. IInv /\ [Next]_vars => IInv'
  BY IInvStep
<1> QED
  BY <1>1, IInvInit, PTL DEF Spec

\* What the handler recorded after the step rests on the outcome the record keeps
\* and every later invocation replays, however often the invocation is cut off
\* (step/replay.rs, step/execute.rs).
THEOREM CommittedOutcomeIsRecorded ==
  ASSUME EveryPayload
  PROVE  Spec => []CommittedIsRecorded
<1>1. IInv => CommittedIsRecorded
  BY DEF IInv
<1> QED
  BY <1>1, Invariance, PTL

\* The function is never called beyond max_attempts, and the attempts it is told
\* never go back (step/execute.rs:69, RetryStrategy::should_retry).
THEOREM AttemptsAreBounded ==
  ASSUME EveryPayload
  PROVE  Spec => []AttemptsCountUp
<1>1. IInv => AttemptsCountUp
  <2> SUFFICES ASSUME IInv PROVE AttemptsCountUp
    OBVIOUS
  <2>1. /\ Attempts /\ MaxAttempts \in Nat /\ record.attempt \in Nat
        /\ \A i \in DOMAIN ran : ran[i] \in Nat
    BY StepAssumption DEF IInv, StepTypeOK, InvocationTypeOK, Record
  <2> QED
    BY <2>1 DEF Attempts, AttemptsCountUp
<1> QED
  BY <1>1, Invariance, PTL

-----------------------------------------------------------------------------
(* The first attempt of an at-most-once step.                              *)

\* The function was not called for attempt 1.
NotYet == \A i \in DOMAIN ran : ran[i] # 1

\* Only what was tried has an index above 0, and attempt 1 is made with START on record.
Once ==
  /\ pc \in {"down", "replay"} => queue = <<>>
  /\ AtMostOnce /\ refusals = 0 =>
       /\ \A i, j \in DOMAIN ran : ran[i] = 1 /\ ran[j] = 1 => i = j
       /\ record.status = "None" => NotYet
       /\ record.status \in {"Pending", "Ready"} => record.attempt # 0
       /\ snapshot.status \in {"Pending", "Ready"} => snapshot.attempt # 0
       /\ pc = "replay" /\ snapshot.status = "None" => record.status = "None"
       /\ pc = "starting" => NotYet /\ (queue # <<>> \/ record.status # "None")
       /\ pc = "body" /\ Attempt = 1 => NotYet /\ record.status # "None"

LEMMA OnceRecorded ==
  ASSUME StepTypeOK, NEW u \in Update
  PROVE  /\ AfterUpdate(u).status # "None"
         /\ AfterUpdate(u).status \in {"Pending", "Ready"} => AfterUpdate(u).attempt # 0
<1>a. record \in Record /\ record.attempt \in Nat
  BY DEF StepTypeOK, InvocationTypeOK, Record
<1>1. CASE u.action = "Start"
  BY <1>a, <1>1 DEF AfterUpdate, Record
<1>2. CASE u.action = "Retry"
  BY <1>a, <1>2 DEF AfterUpdate
<1>3. CASE u.action \in {"Succeed", "Fail"}
  BY <1>a, <1>3 DEF AfterUpdate, Record
<1> QED
  BY <1>1, <1>2, <1>3 DEF Update

LEMMA OnceEnvironment ==
  ASSUME StepTypeOK, Once, EnvironmentAction, UNCHANGED stepVars
  PROVE  Once'
<1>a. /\ queue \in Seq(Update) /\ refusals \in Nat /\ record \in Record /\ snapshot \in Record
  BY BoundsAssumption DEF StepTypeOK, InvocationTypeOK
<1>b. UNCHANGED <<semantics, ran, outcome, committed>>
  BY DEF stepVars
<1>1. CASE RecordUpdate
  <2>1. /\ record'.status # "None"
        /\ record'.status \in {"Pending", "Ready"} => record'.attempt # 0
    BY <1>a, <1>1, OnceRecorded, Dequeued DEF RecordUpdate
  <2> QED
    <3>1. UNCHANGED <<snapshot, pc, refusals, semantics, ran>> /\ Attempt' = Attempt
      BY <1>b, <1>1 DEF RecordUpdate, Attempt
    <3>2. pc \notin {"down", "replay"}
      BY <1>1 DEF RecordUpdate, Once
    <3> QED
      BY <2>1, <3>1, <3>2 DEF Once, NotYet, AtMostOnce
<1>2. CASE BatchFails
  <2>1. refusals' # 0 /\ queue' = <<>>
    BY <1>a, <1>2 DEF BatchFails
  <2> QED
    BY <2>1 DEF Once
<1>3. CASE TimerElapses
  BY <1>a, <1>b, <1>3 DEF TimerElapses, Record, Once, NotYet, AtMostOnce, Attempt
<1>4. CASE Invoke
  BY <1>b, <1>4 DEF Invoke, Once, NotYet, AtMostOnce
<1>5. CASE Crash \/ OtherOperationSuspends \/ InvocationEnds
  BY <1>b, <1>5 DEF Crash, OtherOperationSuspends, InvocationEnds, Once, NotYet, AtMostOnce,
     Attempt
<1> QED
  BY <1>1, <1>2, <1>3, <1>4, <1>5 DEF EnvironmentAction

LEMMA OnceStep ==
  ASSUME StepTypeOK, Once, StepAction
  PROVE  Once'
<1>a. /\ queue \in Seq(Update) /\ ran \in Seq(Nat \ {0}) /\ snapshot.attempt \in Nat
  BY DEF StepTypeOK, InvocationTypeOK, Record
<1>1. CASE StartStep
  <2>1. queue' # <<>> \/ pc' \notin {"starting", "body"} \/ ~AtMostOnce
    BY <1>a, <1>1 DEF StartStep, Send
  <2>2. /\ pc = "replay" /\ snapshot.status = "None"
        /\ UNCHANGED <<record, snapshot, refusals, semantics, ran>>
        /\ pc' \in {"parked", IF AtMostOnce THEN "starting" ELSE "body"}
    BY <1>1 DEF StartStep, Send, stepVars
  <2> QED
    BY <2>1, <2>2 DEF Once, NotYet, AtMostOnce, Attempt
<1>2. CASE StartReturns
  BY <1>2 DEF StartReturns, Released, stepVars, Once, NotYet, AtMostOnce, Attempt
<1>3. CASE ResumeStep
  <2>1. AtMostOnce => snapshot.status = "Ready"
    BY <1>3 DEF ResumeStep, AlreadyStarted
  <2>2. AtMostOnce /\ refusals = 0 => Attempt # 1
    BY <1>a, <2>1 DEF Once, Attempt
  <2> QED
    BY <1>3, <2>2 DEF ResumeStep, stepVars, Once, NotYet, AtMostOnce, Attempt
<1>4. CASE RunStep
  <2>1. /\ Len(ran) \in Nat /\ DOMAIN ran = 1..Len(ran)
        /\ DOMAIN ran' = 1..(Len(ran) + 1) /\ ran'[Len(ran) + 1] = Attempt
        /\ \A i \in DOMAIN ran : ran'[i] = ran[i]
    BY <1>a, <1>4 DEF RunStep, Attempt
  <2>2. UNCHANGED <<record, snapshot, refusals, semantics>> /\ pc = "body" /\ pc' = "running"
    BY <1>4 DEF RunStep
  <2>3. ASSUME AtMostOnce, refusals = 0, NEW i \in DOMAIN ran', NEW j \in DOMAIN ran',
               ran'[i] = 1, ran'[j] = 1
        PROVE  i = j
    <3>1. (i \in DOMAIN ran \/ i = Len(ran) + 1) /\ (j \in DOMAIN ran \/ j = Len(ran) + 1)
      BY <2>1
    <3>2. CASE Attempt = 1
      BY <2>1, <2>2, <2>3, <3>1, <3>2 DEF Once, NotYet
    <3>3. CASE Attempt # 1
      BY <2>1, <2>3, <3>1, <3>3 DEF Once
    <3> QED
      BY <3>2, <3>3
  <2>4. AtMostOnce /\ refusals = 0 /\ record.status = "None" => NotYet'
    <3>1. AtMostOnce /\ refusals = 0 /\ record.status = "None" => Attempt # 1 /\ NotYet
      BY <2>2 DEF Once
    <3> QED
      BY <2>1, <3>1 DEF NotYet
  <2> QED
    BY <2>2, <2>3, <2>4 DEF Once, AtMostOnce
<1>5. CASE StepAction /\ UNCHANGED <<record, snapshot, refusals, semantics, ran>>
           /\ pc' \notin {"down", "replay", "starting", "body"}
  BY <1>5 DEF Once, NotYet, AtMostOnce
<1>6. CASE NextOperationRecorded
  BY <1>6 DEF NextOperationRecorded, invocationVars, Once, NotYet, AtMostOnce, Attempt
<1>7. StepAction => \/ StartStep \/ StartReturns \/ ResumeStep \/ RunStep
                    \/ NextOperationRecorded
                    \/ /\ UNCHANGED <<record, snapshot, refusals, semantics, ran>>
                       /\ pc' \notin {"down", "replay", "starting", "body"}
  BY DEF StepAction, ReplayCompleted, ReplayUnreadable, ReplayPending, ReplayInterrupted,
     SendFailure, StepSucceeds, StepUnserializable, StepFails, StepReturns, RetryReturns, Send,
     Terminate, stepVars
<1> QED
  BY <1>1, <1>2, <1>3, <1>4, <1>5, <1>6, <1>7

\* Unless a batch failed, the function of an at-most-once step is called once for the
\* first attempt however often the invocation is cut off: START is on record before
\* (step/execute.rs:46).
THEOREM FirstAttemptRunsOnce == Spec => []FirstAttemptOnce
<1>1. Init => Once
  BY DEF Init, InvocationInit, Unrecorded, Once, NotYet
<1>2. StepTypeOK /\ Once /\ [Next]_vars => Once'
  <2> SUFFICES ASSUME StepTypeOK, Once, [Next]_vars PROVE Once'
    OBVIOUS
  <2>1. CASE Next
    BY <2>1, OnceStep, OnceEnvironment DEF Next
  <2>2. CASE UNCHANGED vars
    BY <2>2 DEF vars, invocationVars, stepVars, Once, NotYet, AtMostOnce, Attempt
  <2> QED
    BY <2>1, <2>2
<1>3. Once => FirstAttemptOnce
  BY DEF Once, FirstAttemptOnce
<1> QED
  BY <1>1, <1>2, <1>3, StepTypes, PTL DEF Spec

-----------------------------------------------------------------------------
(* The refinement of StepPromise.                                          *)

LEMMA SetOutcome ==
  ASSUME NEW r \in Record, r.status \in Done
  PROVE  RecordedOutcome(r) # Unset
BY RecordedOutcomeType DEF Outcome, Unset

\* Nothing is promised by what changes neither the history nor a final record.
LEMMA SettleOrStutter ==
  ASSUME StepTypeOK, StepTypeOK', UNCHANGED <<ran, committed>>,
         ~Open => record' = record
  PROVE  [Promise!Next]_Promise!promiseVars
<1>1. record \in Record /\ record' \in Record
  BY DEF StepTypeOK, InvocationTypeOK
<1>2. CASE record' = record
  BY <1>2 DEF Promise!promiseVars
<1>3. CASE Open /\ record'.status \notin Done
  BY <1>3 DEF Promise!promiseVars, Open
<1>4. CASE Open /\ record'.status \in Done
  <2>1. RecordedOutcome(record') # Unset
    BY <1>1, <1>4, SetOutcome
  <2> QED
    BY <1>4, <2>1 DEF Promise!Next, Promise!Settle, Open
<1> QED
  BY <1>2, <1>3, <1>4

LEMMA Prefix ==
  ASSUME NEW S, NEW s \in Seq(S), NEW e \in S
  PROVE  /\ Len(Append(s, e)) = Len(s) + 1
         /\ SubSeq(Append(s, e), 1, Len(s)) = s
OBVIOUS

LEMMA PromiseStep ==
  ASSUME IInv, IInv', Next
  PROVE  [Promise!Next]_Promise!promiseVars
<1>a. /\ StepTypeOK /\ StepTypeOK' /\ Shape /\ CommittedIsRecorded
      /\ ran \in Seq(Nat \ {0}) /\ record \in Record /\ snapshot \in Record
  BY DEF IInv, StepTypeOK, InvocationTypeOK
<1>1. CASE RunStep
  <2>1. Open /\ record' = record /\ committed' = committed
    BY <1>a, <1>1 DEF RunStep, Shape, Fresh
  <2>2. Attempt \in Nat \ {0} /\ ran' = Append(ran, Attempt)
    BY <1>a, <1>1 DEF RunStep, Attempt, Record
  <2>3. Len(ran') = Len(ran) + 1 /\ SubSeq(ran', 1, Len(ran)) = ran
    BY <1>a, <2>2, Prefix
  <2> QED
    BY <2>1, <2>3 DEF Promise!Next, Promise!Run, Open
<1>2. CASE NextOperationRecorded
  <2>1. record.status \in Done /\ outcome = RecordedOutcome(record)
    BY <1>a, <1>2 DEF NextOperationRecorded, Shape, Settled, Open
  <2>2. committed' = {RecordedOutcome(record)} /\ record' = record /\ ran' = ran
    BY <1>a, <1>2, <2>1 DEF NextOperationRecorded, CommittedIsRecorded, invocationVars
  <2>3. RecordedOutcome(record) # Unset
    BY <1>a, <2>1, SetOutcome
  <2> QED
    BY <2>1, <2>2, <2>3 DEF Promise!Next, Promise!Commit
<1>3. CASE StepAction /\ ~RunStep /\ ~NextOperationRecorded
  <2>1. UNCHANGED <<record, ran, committed>>
    BY <1>3 DEF stepVars, StepAction, ReplayCompleted, ReplayUnreadable, ReplayPending,
       ReplayInterrupted, SendFailure, StartStep, StartReturns, ResumeStep, StepSucceeds,
       StepUnserializable, StepFails, StepReturns, RetryReturns
  <2> QED
    BY <1>a, <2>1, SettleOrStutter
<1>4. CASE EnvironmentAction /\ UNCHANGED stepVars
  <2>1. ~Open => record' = record
    BY <1>a, <1>4, FinalIsQuiet DEF EnvironmentAction, RecordUpdate, TimerElapses,
       BatchFails, Invoke, Crash, OtherOperationSuspends, InvocationEnds, Open, Done
  <2> QED
    BY <1>a, <1>4, <2>1, SettleOrStutter DEF stepVars
<1> QED
  BY <1>1, <1>2, <1>3, <1>4 DEF Next

\* The step keeps its promise: its function runs only while nothing is recorded of
\* its outcome, the outcome is set once, and the handler commits to that outcome
\* only (step/replay.rs, step/execute.rs).
THEOREM StepImplementsPromise ==
  ASSUME EveryPayload
  PROVE  Spec => ImplementsStepPromise
<1>1. Init => Promise!Init
  BY DEF Init, InvocationInit, Unrecorded, Done, Promise!Init
<1>2. IInv /\ IInv' /\ [Next]_vars => [Promise!Next]_Promise!promiseVars
  <2> SUFFICES ASSUME IInv, IInv', [Next]_vars
               PROVE  [Promise!Next]_Promise!promiseVars
    OBVIOUS
  <2>1. CASE Next
    BY <2>1, PromiseStep
  <2>2. CASE UNCHANGED vars
    BY <2>2 DEF vars, invocationVars, stepVars, Promise!promiseVars
  <2> QED
    BY <2>1, <2>2
<1> QED
  BY <1>1, <1>2, Invariance, PTL DEF Spec, Promise!Spec, ImplementsStepPromise
=============================================================================
