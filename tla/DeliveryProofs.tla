---------------------------- MODULE DeliveryProofs ----------------------------
(***************************************************************************)
(* Theorems about the way of an update from its task to the service: the   *)
(* worker sends one batch at a time, and while the service refuses nothing *)
(* no accepted update is lost, duplicated or reordered (DurableLog is      *)
(* implemented); the token is never stale when an answer has been taken;   *)
(* what the service keeps for an operation is its newest recorded update.  *)
(*                                                                         *)
(* And about the answer: completions are tracked, the record has no gaps,  *)
(* a success is durable, nothing follows the output, Pending is resumable, *)
(* and no wake-up is lost; each with what it asks of the program and of    *)
(* the runtime.                                                            *)
(***************************************************************************)
EXTENDS DurableHandlerProofs, WellFoundedInduction

-----------------------------------------------------------------------------
(***************************************************************************)
(* One batch at a time.                                                    *)
(***************************************************************************)
LEMMA OneBatchInit == HandlerInit => OneBatchInFlight
  BY DEF HandlerInit, Init, Idle, OneBatchInFlight

\* A batch that is taken is not empty, and with the rest it is the queue.
LEMMA SplitQueue ==
  ASSUME NEW q \in Seq(Update), NEW n \in 1..Len(q)
  PROVE  /\ SubSeq(q, 1, n) # <<>>
         /\ SubSeq(q, 1, n) \o SubSeq(q, n + 1, Len(q)) = q
<1>1. Len(SubSeq(q, 1, n)) = n
  BY SubSeqProperties
<1>2. SubSeq(q, 1, n) # <<>>
  BY <1>1
<1>3. SubSeq(q, 1, n) \o SubSeq(q, n + 1, Len(q)) = SubSeq(q, 1, Len(q))
  BY ConcatAdjacentSubSeq
<1>4. SubSeq(q, 1, Len(q)) = q
  BY SubSeqFull
<1> QED
  BY <1>2, <1>3, <1>4

LEMMA OneBatchStep ==
  ASSUME TypedInv, OneBatchInFlight, [Next]_vars
  PROVE  OneBatchInFlight'
<1> USE DEF OneBatchInFlight, ioVars, workerVars, serviceVars
<1>a. rpc \in [Task \cup {Worker} -> Rpc] /\ queue \in Seq(Update)
  BY DEF TypedInv, TypeInvariant, TypeOK
<1>b. \A t \in Task : t # Worker
  BY ActorAssumption
<1>1. ASSUME NEW t \in Task, TaskStep(t) \/ TaskEnds(t) PROVE OneBatchInFlight'
  <2>1. rpc'[Worker] = rpc[Worker]
    BY <1>1, <1>a, <1>b DEF TaskStep, EnterCheckpoint, Enqueue, StartProcessing,
       CheckpointReturns, SuspendForRetry, Suspend, ForceCheckpoint,
       ForceCheckpointReturns, TaskEnds, Drop
  <2>2. CASE StartProcessing(t)
    BY <2>1, <2>2 DEF StartProcessing
  <2>3. CASE UNCHANGED workerVars
    BY <2>1, <2>3
  <2> QED
    BY <1>1, <2>2, <2>3 DEF TaskStep, EnterCheckpoint, Enqueue, CheckpointReturns,
       SuspendForRetry, Suspend, ForceCheckpoint, ForceCheckpointReturns, TaskEnds, Drop
<1>2. ASSUME WorkerStep PROVE OneBatchInFlight'
  <2>1. CASE TakeBatch
    <3>1. batch' # <<>>
      BY <1>a, <2>1, SplitQueue DEF TakeBatch
    <3>2. rpc'[Worker].st = "sent" /\ worker' = "sending"
      BY <1>a, <2>1 DEF TakeBatch
    <3>3. worker = "build" /\ isProcessing' = isProcessing
      BY <2>1 DEF TakeBatch
    <3> QED
      BY <3>1, <3>2, <3>3
  <2>2. CASE BatchAcknowledged \/ BatchFailed
    <3>1. rpc'[Worker].st = "none"
      <4>1. rpc' = [rpc EXCEPT ![Worker] = Idle]
        BY <2>2 DEF BatchAcknowledged, BatchFailed
      <4> QED
        BY <1>a, <4>1 DEF Idle
    <3>2. worker = "sending" /\ worker' \in {"release", "failing"}
      BY <2>2 DEF BatchAcknowledged, BatchFailed
    <3>3. UNCHANGED <<isProcessing, batch>>
      BY <2>2 DEF BatchAcknowledged, BatchFailed
    <3> QED
      BY <3>1, <3>2, <3>3
  <2>3. CASE ReleaseBatch \/ ReleaseFailedBatch
    <3>1. worker \in {"release", "failing"} /\ worker' \in {"check", "draining"}
      BY <2>3 DEF ReleaseBatch, ReleaseFailedBatch
    <3>2. batch' = <<>> /\ UNCHANGED <<isProcessing, rpc>>
      BY <2>3 DEF ReleaseBatch, ReleaseFailedBatch
    <3> QED
      BY <3>1, <3>2
  <2>4. CASE FindQueueEmpty \/ DrainQueue \/ TerminateForFailure \/ CheckRetryWaiting
                \/ CooldownElapsed \/ StopProcessing
    BY <2>4 DEF FindQueueEmpty, DrainQueue, TerminateForFailure, CheckRetryWaiting,
       CooldownElapsed, StopProcessing
  <2> QED
    BY <1>2, <2>1, <2>2, <2>3, <2>4 DEF WorkerStep
<1>3. ASSUME ServiceStep PROVE OneBatchInFlight'
  <2>1. PICK r \in Task \cup {Worker} :
          ServiceAccepts(r) \/ ServiceRefuses(r) \/ ResponseLost(r)
    BY <1>3 DEF ServiceStep
  <2>2. rpc'[Worker].st # "none" <=> rpc[Worker].st # "none"
    BY <1>a, <2>1 DEF ServiceAccepts, ServiceRefuses, ResponseLost, Rpc
  <2> QED
    BY <1>3, <2>2 DEF ServiceStep
<1>4. ASSUME RuntimeStep PROVE OneBatchInFlight'
  <2>1. UNCHANGED <<workerVars, rpc>>
    BY <1>4 DEF RuntimeStep, HandlerReturns, TerminationWins, ArmNotification, CheckQueue,
     NotificationArrives, CheckpointLargeResult, LargeResultCheckpointed, Respond,
     quietVars
  <2> QED
    BY <2>1
<1>5. CASE UNCHANGED vars
  BY <1>5 DEF vars, managerVars, quietVars
<1> QED
  BY <1>1, <1>2, <1>3, <1>4, <1>5 DEF Next

\* There is never a second worker, nor a second batch of the worker under way.
THEOREM OneBatch == Spec => []OneBatchInFlight
  BY TypedInit, TypedStep, OneBatchInit, OneBatchStep, PTL DEF Spec

-----------------------------------------------------------------------------
(***************************************************************************)
(* No update is lost, duplicated or reordered.                             *)
(***************************************************************************)
LEMMA UpdatesNonempty ==
  ASSUME NEW us \in Seq(Update), us # <<>>
  PROVE  Updates(us) # {}
<1>1. 1 \in DOMAIN us
  BY EmptySeq, LenProperties
<1> QED
  BY <1>1 DEF Updates

LEMMA AppendToConcat ==
  ASSUME NEW s \in Seq(Update), NEW q \in Seq(Update), NEW u \in Update
  PROVE  Append(s \o q, u) = s \o Append(q, u)
<1>1. /\ s \o q \in Seq(Update)
      /\ Append(q, u) \in Seq(Update)
      /\ Append(s \o q, u) \in Seq(Update)
      /\ s \o Append(q, u) \in Seq(Update)
  BY ConcatProperties
<1>2. Len(Append(s \o q, u)) = Len(s \o Append(q, u))
  BY ConcatProperties
<1>3. ASSUME NEW i \in 1..Len(Append(s \o q, u))
      PROVE  Append(s \o q, u)[i] = (s \o Append(q, u))[i]
  <2>1. Len(s \o q) = Len(s) + Len(q) /\ Len(Append(q, u)) = Len(q) + 1
    BY ConcatProperties
  <2>2. CASE i <= Len(s)
    BY <1>1, <2>1, <2>2, ConcatProperties
  <2>3. CASE i > Len(s) /\ i <= Len(s) + Len(q)
    <3>1. Append(s \o q, u)[i] = q[i - Len(s)]
      BY <1>1, <2>1, <2>3, ConcatProperties
    <3>2. (s \o Append(q, u))[i] = Append(q, u)[i - Len(s)]
      BY <1>1, <2>1, <2>3, ConcatProperties
    <3>3. i - Len(s) \in 1..Len(q)
      BY <2>3, LenProperties
    <3> QED
      BY <3>1, <3>2, <3>3
  <2>4. CASE i = Len(s) + Len(q) + 1
    <3>1. Append(s \o q, u)[i] = u
      BY <1>1, <2>1, <2>4
    <3>2. (s \o Append(q, u))[i] = Append(q, u)[i - Len(s)]
      BY <1>1, <2>1, <2>4, ConcatProperties
    <3> QED
      BY <2>4, <3>1, <3>2, LenProperties
  <2> QED
    BY <1>1, <2>1, <2>2, <2>3, <2>4, LenProperties
<1> QED
  BY <1>1, <1>2, <1>3, SeqEqual

\* The front of the queue may as well be a batch of its own.
LEMMA MoveToBatch ==
  ASSUME NEW s \in Seq(Update), NEW b \in Seq(Update), NEW r \in Seq(Update)
  PROVE  s \o <<>> \o (b \o r) = s \o b \o r
<1>1. s \o <<>> = s
  BY ConcatEmptySeq
<1>2. (s \o b) \o r = s \o (b \o r)
  BY ConcatAssociative
<1> QED
  BY <1>1, <1>2

LEMMA NothingIsLostInit == HandlerInit => NothingIsLost
<1> SUFFICES ASSUME HandlerInit PROVE NothingIsLost
  OBVIOUS
<1>1. accepted = <<>> /\ log = <<>> /\ queue = <<>> /\ Unrecorded = <<>>
  BY DEF HandlerInit, Init, Unrecorded
<1>2. <<>> \o <<>> \o <<>> = <<>>
  BY EmptySeq, ConcatEmptySeq
<1> QED
  BY <1>1, <1>2 DEF NothingIsLost

LEMMA NothingIsLostStep ==
  ASSUME TypedInv, OneBatchInFlight, NothingIsLost, [Next]_vars
  PROVE  NothingIsLost'
<1> USE DEF NothingIsLost, NoFailure, Unrecorded, ioVars, queueVars, workerVars,
            notifyVars, serviceVars
<1>a. /\ rpc \in [Task \cup {Worker} -> Rpc]
      /\ queue \in Seq(Update) /\ batch \in Seq(Update)
      /\ log \in Seq(Update) /\ accepted \in Seq(Update)
      /\ lost \in SUBSET Update
  BY DEF TypedInv, TypeInvariant, TypeOK
<1>b. \A t \in Task : t # Worker
  BY ActorAssumption
<1>c. Unrecorded \in Seq(Update)
  BY <1>a, EmptySeq
<1>1. ASSUME NEW t \in Task, TaskStep(t) \/ TaskEnds(t) PROVE NothingIsLost'
  <2>1. rpc'[Worker] = rpc[Worker] /\ log' = log /\ lost' = lost
    BY <1>1, <1>a, <1>b DEF TaskStep, EnterCheckpoint, Enqueue, StartProcessing,
       CheckpointReturns, SuspendForRetry, Suspend, ForceCheckpoint,
       ForceCheckpointReturns, TaskEnds, Drop
  <2>2. CASE Enqueue(t)
    <3>1. CurrentUpdate(t) \in Update
      BY <2>2, CurrentCallType DEF TypedInv, TypeInvariant, InCall, Enqueue
    <3>2. Append(log \o Unrecorded \o queue, CurrentUpdate(t))
            = log \o Unrecorded \o Append(queue, CurrentUpdate(t))
      BY <1>a, <1>c, <3>1, AppendToConcat, ConcatProperties
    <3> QED
      BY <2>1, <2>2, <3>2 DEF Enqueue
  <2>3. CASE StartProcessing(t)
    <3>1. Unrecorded' = Unrecorded
      BY <2>1, <2>3 DEF StartProcessing, OneBatchInFlight
    <3>2. NoFailure' => NoFailure
      BY <2>1, <2>3 DEF StartProcessing, OneBatchInFlight
    <3> QED
      BY <2>1, <2>3, <3>1, <3>2 DEF StartProcessing
  <2>4. CASE UNCHANGED <<workerVars, queueVars>>
    BY <2>1, <2>4
  <2> QED
    BY <1>1, <2>2, <2>3, <2>4 DEF TaskStep, EnterCheckpoint, CheckpointReturns,
       SuspendForRetry, Suspend, ForceCheckpoint, ForceCheckpointReturns, TaskEnds, Drop
<1>2. ASSUME WorkerStep PROVE NothingIsLost'
  <2>1. CASE TakeBatch
    <3>1. Unrecorded = <<>> /\ NoFailure' = (lost = {})
      BY <1>a, <2>1 DEF TakeBatch, OneBatchInFlight
    <3>2. Unrecorded' = batch' /\ batch' \o queue' = queue
      BY <1>a, <2>1, SplitQueue DEF TakeBatch
    <3>3. batch' \in Seq(Update) /\ queue' \in Seq(Update)
      BY <1>a, <2>1, SplitType DEF TakeBatch
    <3>4. log \o <<>> \o queue = log \o batch' \o queue'
      BY <1>a, <3>2, <3>3, MoveToBatch
    <3> QED
      BY <2>1, <3>1, <3>2, <3>4 DEF TakeBatch, OneBatchInFlight
  <2>2. CASE BatchAcknowledged
    BY <1>a, <2>2 DEF BatchAcknowledged, Idle
  <2>3. CASE BatchFailed
    BY <2>3 DEF BatchFailed
  <2>4. CASE ReleaseBatch
    BY <2>4 DEF ReleaseBatch, OneBatchInFlight
  <2>5. CASE ReleaseFailedBatch
    <3>1. Updates(batch) # {}
      BY <1>a, <2>5, UpdatesNonempty DEF ReleaseFailedBatch, OneBatchInFlight
    <3> QED
      BY <2>5, <3>1 DEF ReleaseFailedBatch
  <2>6. CASE DrainQueue
    <3>1. Updates(queue) = {} => queue = <<>>
      BY <1>a, UpdatesNonempty
    <3> QED
      BY <2>6, <3>1 DEF DrainQueue
  <2>7. CASE FindQueueEmpty \/ TerminateForFailure \/ CheckRetryWaiting
                \/ CooldownElapsed \/ StopProcessing
    BY <2>7 DEF FindQueueEmpty, TerminateForFailure, CheckRetryWaiting,
       CooldownElapsed, StopProcessing
  <2> QED
    BY <1>2, <2>1, <2>2, <2>3, <2>4, <2>5, <2>6, <2>7 DEF WorkerStep
<1>3. ASSUME ServiceStep PROVE NothingIsLost'
  <2>1. PICK r \in Task \cup {Worker} :
          ServiceAccepts(r) \/ ServiceRefuses(r) \/ ResponseLost(r)
    BY <1>3 DEF ServiceStep
  <2>2. UNCHANGED <<queue, accepted, lost, worker, batch>>
    BY <1>3 DEF ServiceStep
  <2>3. CASE r = Worker /\ ServiceAccepts(Worker)
    <3>1. Unrecorded = batch /\ Unrecorded' = <<>> /\ log' = log \o batch
      BY <1>a, <2>3 DEF ServiceAccepts, Record, Request
    <3>2. log \o batch \o <<>> = log \o batch
      BY <1>a, ConcatProperties, ConcatEmptySeq
    <3>3. log' \o Unrecorded' \o queue = log \o Unrecorded \o queue
      BY <3>1, <3>2
    <3> QED
      BY <2>2, <2>3, <3>3 DEF ServiceAccepts
  <2>4. CASE r = Worker /\ (ServiceRefuses(Worker) \/ ResponseLost(Worker))
    <3>1. rpc'[Worker].st = "err"
      BY <1>a, <2>4 DEF ServiceRefuses, ResponseLost, Rpc
    <3> QED
      BY <3>1
  <2>5. CASE r # Worker
    <3>1. rpc'[Worker] = rpc[Worker]
      BY <1>a, <2>1, <2>5 DEF ServiceAccepts, ServiceRefuses, ResponseLost
    <3>2. log' = log
      BY <1>a, <2>1, <2>5, ConcatEmptySeq
      DEF ServiceAccepts, ServiceRefuses, ResponseLost, Record, Request
    <3> QED
      BY <2>2, <3>1, <3>2
  <2> QED
    BY <2>1, <2>3, <2>4, <2>5
<1>4. ASSUME RuntimeStep PROVE NothingIsLost'
  BY <1>4 DEF RuntimeStep, HandlerReturns, TerminationWins, ArmNotification, CheckQueue,
     NotificationArrives, CheckpointLargeResult, LargeResultCheckpointed, Respond,
     quietVars
<1>5. CASE UNCHANGED vars
  BY <1>5 DEF vars, managerVars, quietVars
<1> QED
  BY <1>1, <1>2, <1>3, <1>4, <1>5 DEF Next

\* While nothing has failed, the accepted updates are the recorded ones, then
\* those of the batch under way, then the queue.
THEOREM Delivery == Spec => []NothingIsLost
  BY TypedInit, TypedStep, OneBatchInit, OneBatchStep, NothingIsLostInit,
     NothingIsLostStep, PTL DEF Spec

-----------------------------------------------------------------------------
(***************************************************************************)
(* The token.  The manager is never ahead of the service; it is abreast of *)
(* it, or one answer is on its way and carries the token it lacks.         *)
(***************************************************************************)
Requester == Task \cup {Worker}

Behind ==
  /\ token <= serviceToken
  /\ \A r \in Requester : rpc[r].st = "sent" => rpc[r].token <= token
  /\ \A r \in Requester :
       rpc[r].st = "ok" => token < serviceToken /\ rpc[r].token = serviceToken
  /\ \A r, s \in Requester : rpc[r].st = "ok" /\ rpc[s].st = "ok" => r = s

\* A task with a request is inside force_checkpoint, or was aborted there.
AsksInside ==
  \A t \in Task : rpc[t].st # "none" => pc[t] \in {"refreshing", "dropped"}

\* The Main task is between its two idle states only while its result is large.
MainIsIdle == pc[Main] = "unborn" \/ Finished(Main) \/ rt = "largeResult"

TokenInv == TypedInv /\ OneBatchInFlight /\ Behind /\ AsksInside /\ MainIsIdle

TokenStep ==
  \A r \in Requester : rpc[r].st = "ok" /\ rpc'[r].st # "ok" => token' = serviceToken'

LEMMA TokenInit == HandlerInit => TokenInv
<1> SUFFICES ASSUME HandlerInit PROVE TokenInv
  OBVIOUS
<1>1. TypedInv /\ OneBatchInFlight
  BY TypedInit, OneBatchInit
<1>2. Behind
  BY DEF HandlerInit, Init, Idle, Behind, Requester
<1>3. AsksInside
  BY DEF HandlerInit, Init, Idle, AsksInside
<1>4. MainIsIdle
  BY ActorAssumption DEF HandlerInit, Init, MainIsIdle
<1> QED
  BY <1>1, <1>2, <1>3, <1>4 DEF TokenInv

\* A new request carries the manager's token, and nobody's answer is dropped for it.
LEMMA RequestSent ==
  ASSUME TypeOK, Behind, NEW r \in Requester, rpc[r].st = "none",
         rpc' = [rpc EXCEPT ![r] = [st |-> "sent", token |-> token]],
         UNCHANGED <<token, serviceToken>>
  PROVE  Behind' /\ TokenStep
<1>1. rpc \in [Requester -> Rpc] /\ token \in Nat /\ serviceToken \in Nat
  BY DEF TypeOK, Requester
<1>2. rpc'[r] = [st |-> "sent", token |-> token]
  BY <1>1
<1>3. \A s \in Requester \ {r} : rpc'[s] = rpc[s]
  BY <1>1
<1>4. rpc'[r].st = "sent" /\ rpc'[r].token = token
  BY <1>2
<1> QED
  BY <1>1, <1>3, <1>4 DEF Behind, TokenStep

\* An answer that is taken is the only one, and brings the manager up to date.
LEMMA AnswerTaken ==
  ASSUME TypeOK, Behind, NEW r \in Requester, rpc[r].st \in {"ok", "err"},
         token' = IF rpc[r].st = "ok" THEN rpc[r].token ELSE token,
         rpc' = [rpc EXCEPT ![r] = Idle], UNCHANGED serviceToken
  PROVE  Behind' /\ TokenStep
<1>1. rpc \in [Requester -> Rpc] /\ token \in Nat /\ serviceToken \in Nat
  BY DEF TypeOK, Requester
<1>2. rpc'[r].st = "none"
  BY <1>1 DEF Idle
<1>3. \A s \in Requester \ {r} : rpc'[s] = rpc[s]
  BY <1>1
<1>4. \A s \in Requester : rpc[s].token \in Nat
  BY <1>1 DEF Rpc
<1>5. CASE rpc[r].st = "ok"
  <2>1. token' = serviceToken /\ token < serviceToken
    BY <1>5 DEF Behind
  <2>2. \A s \in Requester \ {r} : rpc[s].st # "ok"
    BY <1>5 DEF Behind
  <2>3. \A s \in Requester \ {r} : rpc'[s].st = "sent" => rpc'[s].token <= token'
    BY <1>1, <1>3, <1>4, <2>1 DEF Behind
  <2>4. \A s \in Requester : rpc'[s].st # "ok"
    BY <1>2, <1>3, <2>2
  <2>5. \A s \in Requester : rpc'[s].st = "sent" => rpc'[s].token <= token'
    BY <1>2, <2>3
  <2>6. token' = serviceToken' /\ token' <= serviceToken'
    BY <1>1, <2>1
  <2> QED
    BY <2>4, <2>5, <2>6 DEF Behind, TokenStep
<1>6. CASE rpc[r].st = "err"
  <2>1. token' = token
    BY <1>6
  <2>2. \A s \in Requester : rpc'[s].st # "none" => s # r /\ rpc'[s] = rpc[s]
    BY <1>2, <1>3
  <2>3. Behind'
    BY <2>1, <2>2 DEF Behind
  <2>4. TokenStep
    BY <1>3, <1>6 DEF TokenStep
  <2> QED
    BY <2>3, <2>4
<1> QED
  BY <1>5, <1>6

\* The service takes a request only if the manager is up to date, and then no
\* other answer is on its way.
LEMMA RequestAnswered ==
  ASSUME TypeOK, Behind, ServiceStep
  PROVE  /\ Behind' /\ TokenStep
         /\ \A s \in Requester : rpc'[s].st # "none" => rpc[s].st # "none"
<1>1. rpc \in [Requester -> Rpc] /\ token \in Nat /\ serviceToken \in Nat
  BY DEF TypeOK, Requester
<1>2. PICK r \in Requester : ServiceAccepts(r) \/ ServiceRefuses(r) \/ ResponseLost(r)
  BY DEF ServiceStep, Requester
<1>3. token' = token /\ rpc[r].st = "sent"
  BY <1>2 DEF ServiceStep, ServiceAccepts, ServiceRefuses, ResponseLost
<1>4. \A s \in Requester \ {r} : rpc'[s] = rpc[s]
  BY <1>1, <1>2 DEF ServiceAccepts, ServiceRefuses, ResponseLost
<1>5. CASE rpc[r].token = serviceToken /\ Record(r)
  <2>1. serviceToken' = serviceToken + 1
    BY <1>5 DEF Record
  <2>2. token = serviceToken
    BY <1>1, <1>3, <1>5 DEF Behind
  <2>3. \A s \in Requester : rpc[s].st # "ok"
    BY <1>1, <2>2 DEF Behind
  <2>4. CASE ServiceAccepts(r)
    <3>1. rpc'[r] = [st |-> "ok", token |-> serviceToken + 1]
      BY <1>1, <2>4 DEF ServiceAccepts
    <3>2. rpc'[r].st = "ok" /\ rpc'[r].token = serviceToken'
      BY <2>1, <3>1
    <3>3. token' < serviceToken' /\ token' <= serviceToken'
      BY <1>1, <1>3, <2>1, <2>2
    <3>4. \A s \in Requester \ {r} : rpc'[s].st # "ok"
      BY <1>4, <2>3
    <3>5. \A s \in Requester \ {r} : rpc'[s].st = "sent" => rpc'[s].token <= token'
      BY <1>3, <1>4 DEF Behind
    <3> QED
      BY <1>3, <1>4, <2>3, <3>2, <3>3, <3>4, <3>5 DEF Behind, TokenStep
  <2>5. CASE rpc' = [rpc EXCEPT ![r].st = "err"]
    <3>1. rpc'[r].st = "err"
      BY <1>1, <2>5 DEF Rpc
    <3>2. token' <= serviceToken'
      BY <1>1, <1>3, <2>1, <2>2
    <3>3. \A s \in Requester : rpc'[s].st # "ok"
      BY <1>4, <2>3, <3>1
    <3>4. \A s \in Requester : rpc'[s].st = "sent" => rpc'[s].token <= token'
      BY <1>3, <1>4, <3>1 DEF Behind
    <3> QED
      BY <1>3, <1>4, <2>3, <3>2, <3>3, <3>4 DEF Behind, TokenStep
  <2>6. ServiceRefuses(r) => rpc' = [rpc EXCEPT ![r].st = "err"]
    BY DEF ServiceRefuses
  <2>7. ResponseLost(r) => rpc' = [rpc EXCEPT ![r].st = "err"]
    BY DEF ResponseLost
  <2> QED
    BY <1>2, <2>4, <2>5, <2>6, <2>7
<1>6. CASE ServiceRefuses(r)
  <2>1. rpc'[r].st = "err"
    BY <1>1, <1>6 DEF ServiceRefuses, Rpc
  <2>2. serviceToken' = serviceToken
    BY <1>6 DEF ServiceRefuses, serviceVars
  <2>3. \A s \in Requester :
          rpc'[s].st \in {"sent", "ok"} => s # r /\ rpc'[s] = rpc[s]
    BY <1>4, <2>1
  <2>4. Behind'
    BY <1>3, <2>2, <2>3 DEF Behind
  <2>5. TokenStep
    BY <1>3, <1>4 DEF TokenStep
  <2> QED
    BY <1>3, <1>4, <2>4, <2>5
<1> QED
  BY <1>2, <1>5, <1>6 DEF ServiceAccepts, ResponseLost

LEMMA TokenTask ==
  ASSUME TokenInv, NEW t \in Task, TaskStep(t) \/ TaskEnds(t), UNCHANGED handlerVars
  PROVE  Behind' /\ AsksInside' /\ MainIsIdle' /\ TokenStep
<1> USE DEF ioVars, serviceVars
<1>a. TypeOK /\ Behind /\ AsksInside /\ MainIsIdle
  BY DEF TokenInv, TypedInv, TypeInvariant
<1>b. /\ rpc \in [Requester -> Rpc] /\ pc \in [Task -> TaskPc]
      /\ pos \in [Task -> Nat \ {0}] /\ t \in Requester /\ Task \subseteq Requester
  BY <1>a DEF TypeOK, Requester
<1>1. \A s \in Task \ {t} : pc'[s] = pc[s] /\ pos'[s] = pos[s]
  BY <1>b DEF TaskStep, EnterCheckpoint, Enqueue, StartProcessing, CheckpointReturns,
     SuspendForRetry, Suspend, ForceCheckpoint, ForceCheckpointReturns, TaskEnds, Drop
<1>2. MainIsIdle'
  <2>1. CASE t # Main
    BY <1>a, <1>1, <2>1, ActorAssumption DEF MainIsIdle, Finished, handlerVars
  <2>2. CASE t = Main
    <3>1. TaskStep(Main)
      BY <2>2 DEF TaskEnds
    <3>2. Ready(Main) \/ pc[Main] \notin {"body", "unborn"}
      BY <3>1 DEF TaskStep, EnterCheckpoint, Enqueue, StartProcessing, CheckpointReturns,
         SuspendForRetry, Suspend, ForceCheckpoint, ForceCheckpointReturns
    <3>3. pos[Main] \in Nat /\ Len(Program[Main]) \in Nat
      BY <1>b, ActorAssumption, ProgramAssumption
    <3>4. pc[Main] # "unborn" /\ ~Finished(Main)
      BY <3>2, <3>3 DEF Ready, Finished
    <3> QED
      BY <1>a, <3>4 DEF MainIsIdle, handlerVars
  <2> QED
    BY <2>1, <2>2
<1>3. CASE ForceCheckpoint(t)
  <2>1. rpc[t].st = "none"
    BY <1>a, <1>3 DEF ForceCheckpoint, Ready, AsksInside
  <2>2. Behind' /\ TokenStep
    BY <1>a, <1>b, <1>3, <2>1, RequestSent DEF ForceCheckpoint
  <2>3. pc'[t] = "refreshing" /\ \A s \in Task \ {t} : rpc'[s] = rpc[s]
    BY <1>b, <1>3 DEF ForceCheckpoint
  <2>4. AsksInside'
    BY <1>a, <1>1, <2>3 DEF AsksInside
  <2> QED
    BY <1>2, <2>2, <2>4
<1>4. CASE ForceCheckpointReturns(t)
  <2>1. Behind' /\ TokenStep
    BY <1>a, <1>b, <1>4, AnswerTaken DEF ForceCheckpointReturns, TakeResponse
  <2>2. rpc'[t].st = "none" /\ \A s \in Task \ {t} : rpc'[s] = rpc[s]
    BY <1>b, <1>4 DEF ForceCheckpointReturns, Idle
  <2>3. AsksInside'
    BY <1>a, <1>1, <2>2 DEF AsksInside
  <2> QED
    BY <1>2, <2>1, <2>3
<1>5. CASE ~ForceCheckpoint(t) /\ ~ForceCheckpointReturns(t)
  <2>1. UNCHANGED ioVars
    BY <1>5 DEF TaskStep, EnterCheckpoint, Enqueue, StartProcessing, CheckpointReturns,
       SuspendForRetry, Suspend, TaskEnds, Drop
  <2>2. pc[t] = "dropped" => pc'[t] = "dropped"
    BY <1>5 DEF TaskStep, EnterCheckpoint, Enqueue, StartProcessing, CheckpointReturns,
       SuspendForRetry, Suspend, Ready, TaskEnds, Drop
  <2>3. pc[t] = "refreshing" => pc'[t] = "dropped"
    BY <1>b, <1>5 DEF TaskStep, EnterCheckpoint, Enqueue, StartProcessing,
       CheckpointReturns, SuspendForRetry, Suspend, Ready, TaskEnds, Drop
  <2>4. AsksInside'
    BY <1>a, <1>1, <2>1, <2>2, <2>3 DEF AsksInside
  <2>5. Behind' /\ TokenStep
    BY <1>a, <2>1 DEF Behind, TokenStep
  <2> QED
    BY <1>2, <2>4, <2>5
<1> QED
  BY <1>3, <1>4, <1>5

LEMMA TokenWorker ==
  ASSUME TokenInv, WorkerStep, UNCHANGED handlerVars
  PROVE  Behind' /\ AsksInside' /\ MainIsIdle' /\ TokenStep
<1> USE DEF ioVars, serviceVars
<1>a. TypeOK /\ Behind /\ AsksInside /\ MainIsIdle /\ OneBatchInFlight
  BY DEF TokenInv, TypedInv, TypeInvariant
<1>b. rpc \in [Requester -> Rpc] /\ Worker \in Requester /\ Worker \notin Task
  BY <1>a, ActorAssumption DEF TypeOK, Requester
<1>1. UNCHANGED taskVars
  BY DEF WorkerStep, TakeBatch, FindQueueEmpty, BatchAcknowledged, ReleaseBatch,
     BatchFailed, ReleaseFailedBatch, DrainQueue, TerminateForFailure, CheckRetryWaiting,
     CooldownElapsed, StopProcessing
<1>2. \A s \in Task : rpc'[s] = rpc[s]
  BY <1>b DEF WorkerStep, TakeBatch, FindQueueEmpty, BatchAcknowledged, ReleaseBatch,
     BatchFailed, ReleaseFailedBatch, DrainQueue, TerminateForFailure, CheckRetryWaiting,
     CooldownElapsed, StopProcessing, Requester
<1>3. AsksInside' /\ MainIsIdle'
  BY <1>a, <1>1, <1>2 DEF AsksInside, MainIsIdle, Finished, taskVars, handlerVars
<1>4. CASE TakeBatch
  <2>1. rpc[Worker].st = "none"
    BY <1>a, <1>4 DEF TakeBatch, OneBatchInFlight
  <2> QED
    BY <1>a, <1>b, <1>3, <1>4, <2>1, RequestSent DEF TakeBatch
<1>5. CASE BatchAcknowledged
  BY <1>a, <1>b, <1>3, <1>5, AnswerTaken DEF BatchAcknowledged, TakeResponse
<1>6. CASE BatchFailed
  BY <1>a, <1>b, <1>3, <1>6, AnswerTaken DEF BatchFailed
<1>7. CASE UNCHANGED ioVars
  BY <1>a, <1>3, <1>7 DEF Behind, TokenStep
<1> QED
  BY <1>4, <1>5, <1>6, <1>7 DEF WorkerStep, FindQueueEmpty, ReleaseBatch,
     ReleaseFailedBatch, DrainQueue, TerminateForFailure, CheckRetryWaiting,
     CooldownElapsed, StopProcessing

LEMMA TokenRuntime ==
  ASSUME TokenInv, RuntimeStep
  PROVE  Behind' /\ AsksInside' /\ MainIsIdle' /\ TokenStep
<1>a. TypeOK /\ Behind /\ AsksInside /\ MainIsIdle
  BY DEF TokenInv, TypedInv, TypeInvariant
<1>1. UNCHANGED ioVars
  BY DEF RuntimeStep, HandlerReturns, TerminationWins, ArmNotification, CheckQueue,
     NotificationArrives, CheckpointLargeResult, LargeResultCheckpointed, Respond, quietVars
<1>2. Behind' /\ TokenStep
  BY <1>a, <1>1 DEF Behind, TokenStep, ioVars, serviceVars
<1>3. CASE CheckpointLargeResult
  <2>1. rt' = "largeResult"
    BY <1>3 DEF CheckpointLargeResult
  <2>2. pc[Main] = "unborn" /\ \A s \in Task \ {Main} : pc'[s] = pc[s]
    BY <1>a, <1>3, ActorAssumption
    DEF CheckpointLargeResult, LargeResultPending, MainIsIdle, TypeOK
  <2>3. AsksInside'
    BY <1>a, <1>1, <2>2 DEF AsksInside, ioVars
  <2> QED
    BY <1>2, <2>1, <2>3 DEF MainIsIdle
<1>4. CASE ~CheckpointLargeResult
  <2>1. UNCHANGED taskVars
    BY <1>4 DEF RuntimeStep, HandlerReturns, TerminationWins, ArmNotification, CheckQueue,
       NotificationArrives, LargeResultCheckpointed, Respond, quietVars
  <2>2. rt = "largeResult" => Finished(Main)
    BY <1>4 DEF RuntimeStep, HandlerReturns, TerminationWins, ArmNotification, CheckQueue,
       NotificationArrives, LargeResultCheckpointed, Respond
  <2> QED
    BY <1>a, <1>1, <1>2, <2>1, <2>2
    DEF AsksInside, MainIsIdle, Finished, ioVars, taskVars
<1> QED
  BY <1>3, <1>4

LEMMA TokenNext ==
  ASSUME TokenInv, [Next]_vars
  PROVE  TokenInv' /\ TokenStep
<1>1. TypedInv' /\ OneBatchInFlight'
  BY TypedStep, OneBatchStep DEF TokenInv
<1>2. CASE \E t \in Task : (TaskStep(t) \/ TaskEnds(t)) /\ UNCHANGED handlerVars
  BY <1>1, <1>2, TokenTask DEF TokenInv
<1>3. CASE WorkerStep /\ UNCHANGED handlerVars
  BY <1>1, <1>3, TokenWorker DEF TokenInv
<1>4. CASE ServiceStep /\ UNCHANGED handlerVars
  <2>1. TypeOK /\ Behind /\ AsksInside /\ MainIsIdle
    BY DEF TokenInv, TypedInv, TypeInvariant
  <2>2. Behind' /\ TokenStep /\ \A s \in Requester : rpc'[s].st # "none" => rpc[s].st # "none"
    BY <1>4, <2>1, RequestAnswered
  <2>3. UNCHANGED <<pc, pos, act>> /\ UNCHANGED <<rt, result, output>>
    BY <1>4 DEF ServiceStep, taskVars, handlerVars
  <2>4. AsksInside'
    BY <2>1, <2>2, <2>3 DEF AsksInside, Requester
  <2>5. MainIsIdle'
    BY <2>1, <2>3 DEF MainIsIdle, Finished
  <2> QED
    BY <1>1, <2>2, <2>4, <2>5 DEF TokenInv
<1>5. CASE RuntimeStep
  BY <1>1, <1>5, TokenRuntime DEF TokenInv
<1>6. CASE UNCHANGED vars
  <2>1. UNCHANGED <<pc, pos, rpc, token, serviceToken, rt>>
    BY <1>6 DEF vars, managerVars, quietVars, taskVars, ioVars, serviceVars, handlerVars
  <2>2. Behind' /\ TokenStep
    BY <2>1 DEF Behind, TokenStep, TokenInv
  <2>3. AsksInside' /\ MainIsIdle'
    BY <2>1 DEF AsksInside, MainIsIdle, Finished, TokenInv
  <2> QED
    BY <1>1, <2>2, <2>3 DEF TokenInv
<1> QED
  BY <1>2, <1>3, <1>4, <1>5, <1>6 DEF Next

\* For every program, on either runtime and however the service answers, no answer that
\* is taken leaves the manager with a token the service would refuse.
THEOREM CurrentToken == Spec => TokenIsCurrent
<1>1. TokenInv /\ [Next]_vars => TokenInv'
  BY TokenNext
<1>2. TokenInv /\ [Next]_vars
      => [\A r \in Task \cup {Worker} :
            rpc[r].st = "ok" /\ rpc'[r].st # "ok" => token' = serviceToken']_vars
  BY TokenNext DEF TokenStep, Requester
<1> QED
  BY <1>1, <1>2, TokenInit, PTL DEF Spec, TokenIsCurrent

-----------------------------------------------------------------------------
(***************************************************************************)
(* What the service keeps is the newest.  The newest update of a sequence  *)
(* exists because the natural numbers are well founded; coalescing a batch *)
(* keeps it, and appending the batch to the log makes it the newest there. *)
(***************************************************************************)
LEMMA NatWellFounded ==
  \E R, S : /\ S = Nat
            /\ IsWellFoundedOn(R, S)
            /\ \A p, q \in Nat : p < q => <<p, q>> \in R
<1>1. \A p, q \in Nat : p < q => <<p, q>> \in OpToRel(<, Nat)
  BY DEF OpToRel
<1> QED
  BY <1>1, NatLessThanWellFounded

LEMMA SmallestExists ==
  ASSUME NEW T, T \subseteq Nat, T # {}
  PROVE  \E m \in T : \A k \in T : m <= k
<1>1. PICK R, S : /\ S = Nat
                  /\ IsWellFoundedOn(R, S)
                  /\ \A p, q \in Nat : p < q => <<p, q>> \in R
  BY NatWellFounded
<1>2. \E m \in T : \A k \in T : ~(<<k, m>> \in R)
  <2>1. IsWellFoundedOn(R, S) /\ T \subseteq S
    BY <1>1
  <2> QED
    BY <2>1, WFMin
<1>3. PICK m \in T : \A k \in T : ~(k < m)
  BY <1>1, <1>2
<1> QED
  BY <1>3

\* Position i of us holds the newest update of o there.
IsNewest(us, o, i) ==
  /\ i \in DOMAIN us
  /\ us[i].op = o
  /\ \A j \in DOMAIN us : us[j].op = o => j <= i

Mentions(us, o) == \E i \in DOMAIN us : us[i].op = o

LEMMA NewestExists ==
  ASSUME NEW us \in Seq(Update), NEW o, Mentions(us, o)
  PROVE  \E i \in DOMAIN us : IsNewest(us, o, i)
<1> DEFINE Bounds == {n \in Nat : \A j \in DOMAIN us : us[j].op = o => j <= n}
<1>1. DOMAIN us = 1..Len(us) /\ Len(us) \in Nat
  BY LenProperties
<1>2. Len(us) \in Bounds
  BY <1>1
<1>3. PICK m \in Bounds : \A n \in Bounds : m <= n
  <2>1. Bounds \subseteq Nat /\ Bounds # {}
    BY <1>2
  <2> HIDE DEF Bounds
  <2> QED
    BY <2>1, SmallestExists
<1>4. PICK j \in DOMAIN us : us[j].op = o
  BY DEF Mentions
<1>5. m \in Nat /\ j <= m /\ j \in 1..Len(us)
  BY <1>1, <1>3, <1>4
<1>6. m - 1 \in Nat /\ m - 1 \notin Bounds
  <2>1. m - 1 \in Nat /\ ~(m <= m - 1)
    BY <1>5
  <2> HIDE DEF Bounds
  <2> QED
    BY <1>3, <2>1
<1>7. PICK i \in DOMAIN us : us[i].op = o /\ ~(i <= m - 1)
  BY <1>6
<1>8. i = m
  BY <1>1, <1>3, <1>5, <1>7
<1> QED
  BY <1>3, <1>7, <1>8 DEF IsNewest

LEMMA NewestIsUnique ==
  ASSUME NEW us \in Seq(Update), NEW o, NEW i, IsNewest(us, o, i), NEW k, IsNewest(us, o, k)
  PROVE  i = k
<1>1. DOMAIN us = 1..Len(us) /\ Len(us) \in Nat
  BY LenProperties
<1> QED
  BY <1>1 DEF IsNewest

\* A batch of one operation's updates is coalesced to the newest of them.
LEMMA CoalesceKeepsNewest ==
  ASSUME NEW us \in Seq(Update), NEW o, NEW i, IsNewest(us, o, i)
  PROVE  /\ \E u \in Coalesce(us) : u.op = o
         /\ (CHOOSE u \in Coalesce(us) : u.op = o) = us[i]
<1>1. us[i] \in Coalesce(us) /\ us[i].op = o
  BY DEF Coalesce, IsNewest
<1>2. \A u \in Coalesce(us) : u.op = o => u = us[i]
  <2>1. TAKE u \in Coalesce(us)
  <2>2. HAVE u.op = o
  <2>3. PICK k \in DOMAIN us : /\ u = us[k]
                               /\ \A j \in DOMAIN us : us[j].op = us[k].op => j <= k
    BY DEF Coalesce
  <2>4. IsNewest(us, o, k)
    BY <2>2, <2>3 DEF IsNewest
  <2> QED
    BY <2>3, <2>4, NewestIsUnique
<1> QED
  BY <1>1, <1>2

LEMMA CoalesceAddsNothing ==
  ASSUME NEW us, NEW o, ~Mentions(us, o)
  PROVE  ~ \E u \in Coalesce(us) : u.op = o
  BY DEF Coalesce, Mentions

\* Each position of a concatenation is one of the first part or of the second.
LEMMA ConcatPositions ==
  ASSUME NEW s \in Seq(Update), NEW b \in Seq(Update)
  PROVE  /\ DOMAIN s = 1..Len(s) /\ Len(s) \in Nat
         /\ DOMAIN b = 1..Len(b) /\ Len(b) \in Nat
         /\ DOMAIN (s \o b) = 1..Len(s) + Len(b)
         /\ \A i \in 1..Len(s) : (s \o b)[i] = s[i]
         /\ \A k \in 1..Len(b) : (s \o b)[Len(s) + k] = b[k]
         /\ \A j \in 1..Len(s) + Len(b) :
              j \in 1..Len(s) \/ \E k \in 1..Len(b) : j = Len(s) + k
<1>1. /\ DOMAIN s = 1..Len(s) /\ Len(s) \in Nat
      /\ DOMAIN b = 1..Len(b) /\ Len(b) \in Nat
      /\ DOMAIN (s \o b) = 1..Len(s) + Len(b)
  BY LenProperties, ConcatProperties
<1>2. \A i \in 1..Len(s) : (s \o b)[i] = s[i]
  BY <1>1, ConcatProperties
<1>3. \A k \in 1..Len(b) : (s \o b)[Len(s) + k] = b[k]
  <2>1. TAKE k \in 1..Len(b)
  <2>2. /\ Len(s) + k \in 1..Len(s) + Len(b)
        /\ ~(Len(s) + k <= Len(s))
        /\ Len(s) + k - Len(s) = k
    BY <1>1
  <2> QED
    BY <1>1, <2>2, ConcatProperties
<1>4. \A j \in 1..Len(s) + Len(b) :
        j \in 1..Len(s) \/ \E k \in 1..Len(b) : j = Len(s) + k
  <2>1. TAKE j \in 1..Len(s) + Len(b)
  <2>2. CASE j <= Len(s)
    BY <1>1, <2>2
  <2>3. CASE ~(j <= Len(s))
    <3>1. j - Len(s) \in 1..Len(b) /\ j = Len(s) + (j - Len(s))
      BY <1>1, <2>3
    <3> QED
      BY <3>1
  <2> QED
    BY <2>2, <2>3
<1> QED
  BY <1>1, <1>2, <1>3, <1>4

\* The newest update of the second part is the newest of the whole.
LEMMA NewestOfSecond ==
  ASSUME NEW s \in Seq(Update), NEW b \in Seq(Update), NEW o, NEW k \in DOMAIN b,
         IsNewest(b, o, k)
  PROVE  IsNewest(s \o b, o, Len(s) + k) /\ (s \o b)[Len(s) + k] = b[k]
<1>1. Len(s) + k \in DOMAIN (s \o b) /\ (s \o b)[Len(s) + k] = b[k]
  BY ConcatPositions
<1>2. ASSUME NEW j \in DOMAIN (s \o b), (s \o b)[j].op = o
      PROVE  j <= Len(s) + k
  <2>1. CASE j \in 1..Len(s)
    BY <2>1, ConcatPositions
  <2>2. CASE \E l \in 1..Len(b) : j = Len(s) + l
    <3>1. PICK l \in 1..Len(b) : j = Len(s) + l
      BY <2>2
    <3>2. b[l].op = o
      BY <1>2, <3>1, ConcatPositions
    <3>3. l <= k
      BY <3>2, ConcatPositions DEF IsNewest
    <3> QED
      BY <3>1, <3>3, ConcatPositions
  <2> QED
    BY <2>1, <2>2, ConcatPositions
<1> QED
  BY <1>1, <1>2 DEF IsNewest

\* A second part that does not mention the operation changes nothing for it.
LEMMA NewestOfFirst ==
  ASSUME NEW s \in Seq(Update), NEW b \in Seq(Update), NEW o, ~Mentions(b, o)
  PROVE  /\ Mentions(s \o b, o) => Mentions(s, o)
         /\ \A i \in DOMAIN s : IsNewest(s, o, i) =>
              IsNewest(s \o b, o, i) /\ (s \o b)[i] = s[i]
<1>1. \A j \in DOMAIN (s \o b) : (s \o b)[j].op = o => j \in DOMAIN s /\ s[j].op = o
  BY ConcatPositions DEF Mentions
<1>2. \A i \in DOMAIN s : i \in DOMAIN (s \o b) /\ (s \o b)[i] = s[i]
  BY ConcatPositions
<1> QED
  BY <1>1, <1>2 DEF Mentions, IsNewest

\* What NewestAction chooses is the newest position.
LEMMA NewestIsChosen ==
  ASSUME NEW us \in Seq(Update), NEW o, NEW i, IsNewest(us, o, i)
  PROVE  LET is == {j \in DOMAIN us : us[j].op = o}
         IN  is # {} /\ (CHOOSE k \in is : \A j \in is : j <= k) = i
<1> DEFINE is == {j \in DOMAIN us : us[j].op = o}
<1>1. i \in is /\ \A j \in is : j <= i
  BY DEF IsNewest
<1>2. \A k \in is : (\A j \in is : j <= k) => IsNewest(us, o, k)
  BY DEF IsNewest
<1>3. \A k \in is : (\A j \in is : j <= k) => k = i
  BY <1>2, NewestIsUnique
<1> HIDE DEF is
<1>4. is # {} /\ (CHOOSE k \in is : \A j \in is : j <= k) = i
  BY <1>1, <1>3
<1> QED
  BY <1>4 DEF is

LEMMA StoredIsNewestInit == HandlerInit => StoredIsNewest
  BY DEF HandlerInit, Init, StoredIsNewest, NewestAction

LEMMA RecordKeepsNewest ==
  ASSUME TypeOK, log' \in Seq(Update), StoredIsNewest, NEW r \in Requester, Record(r)
  PROVE  StoredIsNewest'
<1> DEFINE b == Request(r)
<1>1. log \in Seq(Update) /\ b \in Seq(Update) /\ log' = log \o b
  BY DEF TypeOK, Request, Record
<1> SUFFICES ASSUME NEW o \in Op PROVE stored'[o] = NewestAction(o)'
  BY DEF StoredIsNewest
<1>2. stored'[o] = IF \E u \in Coalesce(b) : u.op = o
                   THEN (CHOOSE u \in Coalesce(b) : u.op = o).action
                   ELSE stored[o]
  BY DEF Record
<1>3. stored[o] = NewestAction(o)
  BY DEF StoredIsNewest
<1>4. ASSUME NEW i, IsNewest(log', o, i) PROVE NewestAction(o)' = log'[i].action
  <2>1. LET is == {j \in DOMAIN log' : log'[j].op = o}
        IN  is # {} /\ (CHOOSE k \in is : \A j \in is : j <= k) = i
    BY <1>4, NewestIsChosen
  <2> QED
    BY <2>1 DEF NewestAction
<1> HIDE DEF b
<1>5. CASE Mentions(b, o)
  <2>1. PICK k \in DOMAIN b : IsNewest(b, o, k)
    BY <1>1, <1>5, NewestExists
  <2>2. stored'[o] = b[k].action
    <3>1. /\ \E u \in Coalesce(b) : u.op = o
          /\ (CHOOSE u \in Coalesce(b) : u.op = o) = b[k]
      BY <1>1, <2>1, CoalesceKeepsNewest
    <3> QED
      BY <1>2, <3>1
  <2>3. IsNewest(log', o, Len(log) + k) /\ log'[Len(log) + k] = b[k]
    <3>1. IsNewest(log \o b, o, Len(log) + k) /\ (log \o b)[Len(log) + k] = b[k]
      BY <1>1, <2>1, NewestOfSecond
    <3> QED
      BY <1>1, <3>1
  <2> QED
    BY <1>4, <2>2, <2>3
<1>6. CASE ~Mentions(b, o)
  <2>1. stored'[o] = stored[o]
    BY <1>2, <1>6, CoalesceAddsNothing
  <2>2. CASE Mentions(log, o)
    <3>1. PICK i \in DOMAIN log : IsNewest(log, o, i)
      BY <1>1, <2>2, NewestExists
    <3>2. NewestAction(o) = log[i].action
      <4>1. LET is == {j \in DOMAIN log : log[j].op = o}
            IN  is # {} /\ (CHOOSE k \in is : \A j \in is : j <= k) = i
        BY <1>1, <3>1, NewestIsChosen
      <4> QED
        BY <4>1 DEF NewestAction
    <3>3. IsNewest(log', o, i) /\ log'[i] = log[i]
      BY <1>1, <1>6, <3>1, NewestOfFirst
    <3> QED
      BY <1>3, <1>4, <2>1, <3>2, <3>3
  <2>3. CASE ~Mentions(log, o)
    <3>1. ~Mentions(log', o)
      BY <1>1, <1>6, <2>3, NewestOfFirst
    <3> QED
      BY <1>3, <2>1, <2>3, <3>1 DEF Mentions, NewestAction
  <2> QED
    BY <2>2, <2>3
<1> QED
  BY <1>5, <1>6

LEMMA StoredIsNewestStep ==
  ASSUME TypedInv, StoredIsNewest, [Next]_vars
  PROVE  StoredIsNewest'
<1>1. TypeOK /\ log' \in Seq(Update)
  BY TypedStep DEF TypedInv, TypeInvariant, TypeOK
<1>2. ASSUME UNCHANGED <<stored, log>> PROVE StoredIsNewest'
  BY <1>2 DEF StoredIsNewest, NewestAction
<1>3. CASE ServiceStep
  <2>1. PICK r \in Requester : ServiceAccepts(r) \/ ServiceRefuses(r) \/ ResponseLost(r)
    BY <1>3 DEF ServiceStep, Requester
  <2>2. CASE Record(r)
    BY <1>1, <2>2, RecordKeepsNewest
  <2> QED
    BY <1>2, <2>1, <2>2 DEF ServiceAccepts, ServiceRefuses, ResponseLost, serviceVars
<1>4. ASSUME NEW t \in Task, TaskStep(t) \/ TaskEnds(t) PROVE UNCHANGED <<stored, log>>
  BY <1>4 DEF TaskStep, EnterCheckpoint, Enqueue, StartProcessing, CheckpointReturns,
     SuspendForRetry, Suspend, ForceCheckpoint, ForceCheckpointReturns, TaskEnds, Drop,
     ioVars, serviceVars
<1>5. ASSUME WorkerStep PROVE UNCHANGED <<stored, log>>
  BY <1>5 DEF WorkerStep, TakeBatch, FindQueueEmpty, BatchAcknowledged, ReleaseBatch,
     BatchFailed, ReleaseFailedBatch, DrainQueue, TerminateForFailure, CheckRetryWaiting,
     CooldownElapsed, StopProcessing, ioVars, serviceVars
<1>6. ASSUME RuntimeStep PROVE UNCHANGED <<stored, log>>
  BY <1>6 DEF RuntimeStep, HandlerReturns, TerminationWins, ArmNotification, CheckQueue,
     NotificationArrives, CheckpointLargeResult, LargeResultCheckpointed, Respond,
     quietVars, ioVars, serviceVars
<1>7. UNCHANGED vars => UNCHANGED <<stored, log>>
  BY DEF vars, managerVars, quietVars, ioVars, serviceVars
<1> QED
  BY <1>3, <1>2, <1>4, <1>5, <1>6, <1>7 DEF Next

\* However batches are cut and coalesced, and whichever requests fail, the action kept
\* for an operation is that of its newest recorded update.
THEOREM StoredNewest == Spec => []StoredIsNewest
  BY TypedInit, TypedStep, StoredIsNewestInit, StoredIsNewestStep, PTL DEF Spec

-----------------------------------------------------------------------------
(***************************************************************************)
(* The promise.  While nothing fails, every step of the invocation is a    *)
(* step of DurableLog or leaves its state alone.  An update is acknowledged*)
(* when it has left the queue and the batch; that this never takes one back*)
(* needs that a task never enqueues the same call twice (Numbered).        *)
(***************************************************************************)
Numbered ==
  \A v \in Updates(accepted) :
    /\ v.call <= pos[v.task]
    /\ v.call = pos[v.task] => pc[v.task] \in {"pushed", "waiting", "dropped"}

LogInv == TokenInv /\ NothingIsLost /\ Numbered

Acknowledged == Updates(accepted) \ (Updates(batch) \cup Updates(queue))

LEMMA UpdatesOfConcat ==
  ASSUME NEW s \in Seq(Update), NEW b \in Seq(Update)
  PROVE  Updates(s \o b) = Updates(s) \cup Updates(b)
<1>1. ASSUME NEW j \in DOMAIN (s \o b) PROVE (s \o b)[j] \in Updates(s) \cup Updates(b)
  <2>1. CASE j \in 1..Len(s)
    BY <2>1, ConcatPositions DEF Updates
  <2>2. CASE \E k \in 1..Len(b) : j = Len(s) + k
    BY <2>2, ConcatPositions DEF Updates
  <2> QED
    BY <2>1, <2>2, ConcatPositions
<1>2. ASSUME NEW i \in DOMAIN s PROVE s[i] \in Updates(s \o b)
  <2>1. i \in DOMAIN (s \o b) /\ (s \o b)[i] = s[i]
    BY ConcatPositions
  <2> QED
    BY <2>1 DEF Updates
<1>3. ASSUME NEW k \in DOMAIN b PROVE b[k] \in Updates(s \o b)
  <2>1. Len(s) + k \in DOMAIN (s \o b) /\ (s \o b)[Len(s) + k] = b[k]
    BY ConcatPositions
  <2> QED
    BY <2>1 DEF Updates
<1>4. Updates(s \o b) \subseteq Updates(s) \cup Updates(b)
  BY <1>1 DEF Updates
<1>5. Updates(s) \subseteq Updates(s \o b) /\ Updates(b) \subseteq Updates(s \o b)
  BY <1>2, <1>3 DEF Updates
<1> QED
  BY <1>4, <1>5

LEMMA UpdatesOfAppend ==
  ASSUME NEW s \in Seq(Update), NEW u \in Update
  PROVE  Updates(Append(s, u)) = Updates(s) \cup {u}
<1>1. <<u>> \in Seq(Update) /\ Append(s, u) = s \o <<u>> /\ Updates(<<u>>) = {u}
  BY AppendIsConcat DEF Updates
<1> QED
  BY <1>1, UpdatesOfConcat

LEMMA NoUpdates == Updates(<<>>) = {}
  BY DEF Updates

LEMMA NumberedInit == HandlerInit => Numbered
  BY NoUpdates DEF HandlerInit, Init, Numbered

LEMMA NumberedStep ==
  ASSUME TokenInv, Numbered, [Next]_vars
  PROVE  Numbered'
<1>a. /\ TypeOK /\ InCall /\ MainIsIdle
      /\ pos \in [Task -> Nat \ {0}] /\ pc \in [Task -> TaskPc]
      /\ accepted \in Seq(Update) /\ Updates(accepted) \in SUBSET Update
  BY UpdatesType DEF TokenInv, TypedInv, TypeInvariant, TypeOK
<1>b. \A v \in Updates(accepted) : v.task \in Task /\ v.call \in Nat
  BY <1>a DEF Update
<1>1. ASSUME NEW t \in Task, Enqueue(t) PROVE Numbered'
  <2>1. /\ pc[t] = "tracked" /\ pc' = [pc EXCEPT ![t] = "pushed"] /\ pos' = pos
        /\ accepted' = Append(accepted, CurrentUpdate(t))
    BY <1>1 DEF Enqueue
  <2>2. CurrentUpdate(t) \in Update
    BY <1>a, <2>1, CurrentCallType DEF InCall
  <2>3. Updates(accepted') = Updates(accepted) \cup {CurrentUpdate(t)}
    BY <1>a, <2>1, <2>2, UpdatesOfAppend
  <2>4. ASSUME NEW v \in Updates(accepted)
        PROVE  /\ v.call <= pos'[v.task]
               /\ v.call = pos'[v.task] => pc'[v.task] \in {"pushed", "waiting", "dropped"}
    BY <1>a, <1>b, <2>1 DEF Numbered
  <2>5. /\ CurrentUpdate(t).task = t /\ CurrentUpdate(t).call = pos[t]
        /\ pc'[t] = "pushed" /\ pos[t] \in Nat
    BY <1>a, <2>1 DEF CurrentUpdate
  <2> QED
    BY <2>1, <2>3, <2>4, <2>5 DEF Numbered
<1>2. ASSUME NEW t \in Task, (TaskStep(t) /\ ~Enqueue(t)) \/ TaskEnds(t) PROVE Numbered'
  <2>1. accepted' = accepted
    BY <1>2 DEF TaskStep, EnterCheckpoint, StartProcessing, CheckpointReturns,
       SuspendForRetry, Suspend, ForceCheckpoint, ForceCheckpointReturns, TaskEnds, Drop,
       queueVars
  <2>2. \A s \in Task \ {t} : pc'[s] = pc[s] /\ pos'[s] = pos[s]
    BY <1>a, <1>2 DEF TaskStep, EnterCheckpoint, StartProcessing, CheckpointReturns,
       SuspendForRetry, Suspend, ForceCheckpoint, ForceCheckpointReturns, TaskEnds, Drop
  <2>3. \/ pos'[t] = pos[t] + 1
        \/ pos'[t] = pos[t] /\ pc'[t] \in {"waiting", "dropped"}
        \/ pos'[t] = pos[t] /\ pc[t] \notin {"pushed", "waiting", "dropped"}
    BY <1>a, <1>2 DEF TaskStep, EnterCheckpoint, StartProcessing, CheckpointReturns,
       SuspendForRetry, Suspend, ForceCheckpoint, ForceCheckpointReturns, Ready, TaskEnds,
       Drop
  <2>4. pos[t] \in Nat
    BY <1>a
  <2>5. ASSUME NEW v \in Updates(accepted), v.task = t
        PROVE  /\ v.call <= pos'[t]
               /\ v.call = pos'[t] => pc'[t] \in {"pushed", "waiting", "dropped"}
    <3>1. /\ v.call \in Nat /\ v.call <= pos[t]
          /\ v.call = pos[t] => pc[t] \in {"pushed", "waiting", "dropped"}
      BY <1>b, <2>5 DEF Numbered
    <3> QED
      BY <2>3, <2>4, <3>1
  <2> QED
    BY <1>b, <2>1, <2>2, <2>5 DEF Numbered
<1>3. CASE UNCHANGED <<accepted, pc, pos>>
  BY <1>3 DEF Numbered
<1>4. ASSUME WorkerStep \/ ServiceStep PROVE UNCHANGED <<accepted, pc, pos>>
  BY <1>4 DEF WorkerStep, TakeBatch, FindQueueEmpty, BatchAcknowledged, ReleaseBatch,
     BatchFailed, ReleaseFailedBatch, DrainQueue, TerminateForFailure, CheckRetryWaiting,
     CooldownElapsed, StopProcessing, ServiceStep, taskVars, queueVars
<1>5. ASSUME RuntimeStep PROVE Numbered'
  <2>1. UNCHANGED <<accepted, pos>>
    BY <1>5 DEF RuntimeStep, HandlerReturns, TerminationWins, ArmNotification, CheckQueue,
       NotificationArrives, CheckpointLargeResult, LargeResultCheckpointed, Respond,
       quietVars, taskVars, queueVars
  <2>2. \A s \in Task : pc[s] \in {"pushed", "waiting", "dropped"} => pc'[s] = pc[s]
    <3>1. CASE CheckpointLargeResult
      <4>1. pc[Main] = "unborn"
        BY <1>a, <3>1 DEF CheckpointLargeResult, LargeResultPending, MainIsIdle
      <4> QED
        BY <1>a, <3>1, <4>1 DEF CheckpointLargeResult
    <3>2. CASE ~CheckpointLargeResult
      BY <1>5, <3>2 DEF RuntimeStep, HandlerReturns, TerminationWins, ArmNotification,
         CheckQueue, NotificationArrives, LargeResultCheckpointed, Respond, quietVars,
         taskVars
    <3> QED
      BY <3>1, <3>2
  <2> QED
    BY <1>b, <2>1, <2>2 DEF Numbered
<1>6. UNCHANGED vars => UNCHANGED <<accepted, pc, pos>>
  BY DEF vars, managerVars, quietVars, taskVars, queueVars
<1> QED
  BY <1>1, <1>2, <1>3, <1>4, <1>5, <1>6 DEF Next, TaskStep

\* A step that touches neither the log nor what is on its way is a stutter.
LEMMA LogStutters ==
  ASSUME UNCHANGED <<accepted, log, batch, queue>>
  PROVE  UNCHANGED <<accepted, log, Acknowledged>>
  BY DEF Acknowledged, Updates

LEMMA EnqueueAccepts ==
  ASSUME LogInv, NEW t \in Task, Enqueue(t)
  PROVE  Promise!Accept
<1>1. /\ accepted \in Seq(Update) /\ queue \in Seq(Update)
      /\ pc[t] = "tracked" /\ pos[t] <= Len(Program[t]) /\ TypeOK
  BY DEF Enqueue, LogInv, TokenInv, TypedInv, TypeInvariant, TypeOK, InCall
<1>2. CurrentUpdate(t) \in Update
  BY <1>1, CurrentCallType
<1>3. /\ accepted' = Append(accepted, CurrentUpdate(t))
      /\ queue' = Append(queue, CurrentUpdate(t))
      /\ UNCHANGED <<log, batch>>
  BY DEF Enqueue, ioVars, serviceVars, workerVars
<1>4. CurrentUpdate(t) \notin Updates(accepted)
  BY <1>1 DEF LogInv, Numbered, CurrentUpdate
<1>5. Acknowledged' = Acknowledged
  <2>1. Updates(accepted') = Updates(accepted) \cup {CurrentUpdate(t)}
    BY <1>1, <1>2, <1>3, UpdatesOfAppend
  <2>2. Updates(queue') = Updates(queue) \cup {CurrentUpdate(t)}
    BY <1>1, <1>2, <1>3, UpdatesOfAppend
  <2>3. Updates(batch') = Updates(batch)
    BY <1>3
  <2>4. Acknowledged' = Updates(accepted') \ (Updates(batch') \cup Updates(queue'))
    BY DEF Acknowledged, Updates
  <2> QED
    BY <1>4, <2>1, <2>2, <2>3, <2>4 DEF Acknowledged
<1>6. Len(accepted') = Len(accepted) + 1 /\ Promise!IsPrefixOf(accepted, accepted')
  <2>1. /\ Len(Append(accepted, CurrentUpdate(t))) = Len(accepted) + 1
        /\ Len(accepted) \in Nat
    BY <1>1, <1>2, AppendProperties, LenProperties
  <2>2. SubSeq(Append(accepted, CurrentUpdate(t)), 1, Len(accepted)) = accepted
    BY <1>1, <1>2
  <2> QED
    BY <1>3, <2>1, <2>2 DEF Promise!IsPrefixOf
<1> QED
  BY <1>3, <1>5, <1>6 DEF Promise!Accept, Acknowledged

LEMMA TakingKeepsPromise ==
  ASSUME LogInv, TakeBatch
  PROVE  UNCHANGED <<accepted, log, Acknowledged>>
<1>1. queue \in Seq(Update) /\ batch = <<>>
  BY DEF TakeBatch, LogInv, TokenInv, TypedInv, TypeInvariant, TypeOK, OneBatchInFlight
<1>2. PICK n \in 1..Len(queue) : /\ batch' = SubSeq(queue, 1, n)
                                 /\ queue' = SubSeq(queue, n + 1, Len(queue))
  BY DEF TakeBatch
<1>3. batch' \in Seq(Update) /\ queue' \in Seq(Update) /\ batch' \o queue' = queue
  BY <1>1, <1>2, SplitQueue, SplitType
<1>4. Updates(batch') \cup Updates(queue') = Updates(queue)
  BY <1>3, UpdatesOfConcat
<1>5. UNCHANGED <<accepted, log>>
  BY DEF TakeBatch, serviceVars
<1>6. Acknowledged' = Updates(accepted') \ (Updates(batch') \cup Updates(queue'))
  BY DEF Acknowledged, Updates
<1> QED
  BY <1>1, <1>4, <1>5, <1>6, NoUpdates DEF Acknowledged

LEMMA ReleaseAcknowledges ==
  ASSUME LogInv, NoFailure, ReleaseBatch
  PROVE  Promise!Acknowledge
<1>1. /\ accepted \in Seq(Update) /\ log \in Seq(Update) /\ queue \in Seq(Update)
      /\ rpc[Worker].st = "none"
  BY DEF ReleaseBatch, LogInv, TokenInv, TypedInv, TypeInvariant, TypeOK, OneBatchInFlight
<1>2. batch' = <<>> /\ UNCHANGED <<accepted, log, queue>>
  BY DEF ReleaseBatch, ioVars, serviceVars, queueVars
<1>3. accepted = log \o queue
  <2>1. accepted = log \o <<>> \o queue
    BY <1>1 DEF LogInv, NothingIsLost, Unrecorded
  <2> QED
    BY <1>1, <2>1, ConcatEmptySeq
<1>4. Updates(accepted) = Updates(log) \cup Updates(queue)
  BY <1>1, <1>3, UpdatesOfConcat
<1>5. Acknowledged' = Updates(accepted) \ Updates(queue)
  <2>1. Acknowledged' = Updates(accepted') \ (Updates(batch') \cup Updates(queue'))
    BY DEF Acknowledged, Updates
  <2> QED
    BY <1>2, <2>1, NoUpdates
<1>6. Acknowledged \subseteq Acknowledged' /\ Acknowledged' \subseteq Updates(log)
  BY <1>4, <1>5 DEF Acknowledged
<1> QED
  BY <1>2, <1>6 DEF Promise!Acknowledge, Acknowledged, Updates

LEMMA ServiceRecords ==
  ASSUME LogInv, NoFailure, NoFailure', ServiceStep
  PROVE  Promise!Record \/ UNCHANGED <<accepted, log, Acknowledged>>
<1>1. /\ accepted \in Seq(Update) /\ log \in Seq(Update)
      /\ queue \in Seq(Update) /\ batch \in Seq(Update)
      /\ rpc \in [Requester -> Rpc] /\ Worker \in Requester
  BY DEF LogInv, TokenInv, TypedInv, TypeInvariant, TypeOK, Requester
<1>2. UNCHANGED <<accepted, batch, queue>>
  BY DEF ServiceStep, queueVars, workerVars
<1>3. UNCHANGED Acknowledged
  BY <1>2 DEF Acknowledged, Updates
<1>4. PICK r \in Requester : ServiceAccepts(r) \/ ServiceRefuses(r) \/ ResponseLost(r)
  BY DEF ServiceStep, Requester
<1>5. CASE r # Worker
  <2>1. log' = log \/ log' = log \o <<>>
    BY <1>4, <1>5 DEF ServiceAccepts, ServiceRefuses, ResponseLost, Record, Request,
       serviceVars
  <2> QED
    BY <1>1, <1>2, <1>3, <2>1, ConcatEmptySeq
<1>6. CASE r = Worker
  <2>1. ServiceAccepts(Worker)
    <3>1. ASSUME ServiceRefuses(Worker) \/ ResponseLost(Worker) PROVE FALSE
      <4>1. rpc'[Worker].st = "err"
        BY <1>1, <3>1 DEF ServiceRefuses, ResponseLost, Rpc
      <4> QED
        BY <4>1 DEF NoFailure
    <3> QED
      BY <1>4, <1>6, <3>1
  <2>2. rpc[Worker].st = "sent" /\ log' = log \o batch
    BY <2>1 DEF ServiceAccepts, Record, Request
  <2>3. accepted = log \o batch \o queue
    BY <2>2 DEF LogInv, NothingIsLost, Unrecorded
  <2>4. batch # <<>>
    BY <2>2 DEF LogInv, TokenInv, OneBatchInFlight
  <2> DEFINE n == Len(log) + Len(batch)
  <2>5. /\ log \o batch \in Seq(Update) /\ Len(log \o batch) = n
        /\ Len(accepted) = n + Len(queue)
        /\ Len(log) \in Nat /\ Len(batch) \in Nat \ {0} /\ Len(queue) \in Nat
    BY <1>1, <2>3, <2>4, ConcatProperties, LenProperties, EmptySeq
  <2>6. n \in Len(log) + 1 .. Len(accepted)
    BY <2>5
  <2>7. SubSeq(accepted, 1, n) = log \o batch
    <3>1. \A i \in 1..n : accepted[i] = (log \o batch)[i]
      BY <1>1, <2>3, <2>5, ConcatPositions
    <3>2. /\ SubSeq(accepted, 1, n) \in Seq(Update) /\ Len(SubSeq(accepted, 1, n)) = n
          /\ \A i \in 1..n : SubSeq(accepted, 1, n)[i] = accepted[i]
      BY <1>1, <2>5, SubSeqProperties
    <3> HIDE DEF n
    <3> QED
      BY <2>5, <3>1, <3>2, SeqEqual
  <2> HIDE DEF n
  <2> QED
    BY <1>2, <1>3, <2>2, <2>6, <2>7 DEF Promise!Record, Acknowledged
<1> QED
  BY <1>5, <1>6

LEMMA LogStep ==
  ASSUME LogInv, NoFailure, NoFailure', [Next]_vars
  PROVE  [Promise!Next]_Promise!logVars
<1> USE DEF Promise!Next, Promise!logVars
<1>1. (UNCHANGED <<accepted, log, Acknowledged>>) => UNCHANGED Promise!logVars
  BY DEF Acknowledged
<1>2. ASSUME NEW t \in Task, TaskStep(t) \/ TaskEnds(t)
      PROVE  [Promise!Next]_Promise!logVars
  <2>1. CASE Enqueue(t)
    BY <2>1, EnqueueAccepts
  <2>2. CASE ~Enqueue(t)
    <3>1. ~isProcessing => batch = <<>>
      BY DEF LogInv, TokenInv, OneBatchInFlight
    <3>2. UNCHANGED <<accepted, log, batch, queue>>
      BY <1>2, <2>2, <3>1 DEF TaskStep, EnterCheckpoint, StartProcessing,
         CheckpointReturns, SuspendForRetry, Suspend, ForceCheckpoint,
         ForceCheckpointReturns, TaskEnds, Drop, ioVars, serviceVars, queueVars, workerVars
    <3> QED
      BY <1>1, <3>2, LogStutters
  <2> QED
    BY <2>1, <2>2
<1>3. ASSUME WorkerStep PROVE [Promise!Next]_Promise!logVars
  <2>1. CASE TakeBatch
    BY <1>1, <2>1, TakingKeepsPromise
  <2>2. CASE ReleaseBatch
    BY <2>2, ReleaseAcknowledges
  <2>3. CASE ReleaseFailedBatch
    BY <2>3 DEF ReleaseFailedBatch, NoFailure
  <2>4. CASE DrainQueue
    <3>1. queue \in Seq(Update) /\ queue' = <<>> /\ Updates(queue) = {}
      BY <2>4 DEF DrainQueue, NoFailure, LogInv, TokenInv, TypedInv, TypeInvariant, TypeOK
    <3>2. queue' = queue
      BY <3>1, UpdatesNonempty
    <3> QED
      BY <1>1, <2>4, <3>2, LogStutters DEF DrainQueue, ioVars, serviceVars
  <2>5. CASE UNCHANGED <<accepted, log, batch, queue>>
    BY <1>1, <2>5, LogStutters
  <2> QED
    BY <1>3, <2>1, <2>2, <2>3, <2>4, <2>5 DEF WorkerStep, FindQueueEmpty,
       BatchAcknowledged, BatchFailed, TerminateForFailure, CheckRetryWaiting,
       CooldownElapsed, StopProcessing, ioVars, serviceVars, queueVars
<1>4. ASSUME ServiceStep PROVE [Promise!Next]_Promise!logVars
  BY <1>1, <1>4, ServiceRecords
<1>5. ASSUME RuntimeStep \/ UNCHANGED vars PROVE [Promise!Next]_Promise!logVars
  <2>1. UNCHANGED <<accepted, log, batch, queue>>
    BY <1>5 DEF RuntimeStep, HandlerReturns, TerminationWins, ArmNotification, CheckQueue,
       NotificationArrives, CheckpointLargeResult, LargeResultCheckpointed, Respond, vars,
       managerVars, quietVars, ioVars, serviceVars, queueVars, workerVars
  <2> QED
    BY <1>1, <2>1, LogStutters
<1> QED
  BY <1>2, <1>3, <1>4, <1>5 DEF Next

\* As long as no request fails, the manager does what DurableLog says: it records the
\* accepted updates in order, none twice and none skipped, and releases no caller before
\* its update is recorded (checkpoint/manager.rs, manager/queue.rs).
THEOREM LogImplementsPromise == Spec /\ []NoFailure => ImplementsDurableLog
<1>1. HandlerInit => LogInv
  BY TokenInit, NothingIsLostInit, NumberedInit DEF LogInv
<1>2. LogInv /\ [Next]_vars => LogInv'
  <2> SUFFICES ASSUME LogInv, [Next]_vars PROVE LogInv'
    OBVIOUS
  <2>1. TokenInv'
    BY TokenNext DEF LogInv
  <2>2. NothingIsLost'
    BY NothingIsLostStep DEF LogInv, TokenInv
  <2>3. Numbered'
    BY NumberedStep DEF LogInv
  <2> QED
    BY <2>1, <2>2, <2>3 DEF LogInv
<1>3. HandlerInit => Promise!Init
  <2> SUFFICES ASSUME HandlerInit PROVE Promise!Init
    OBVIOUS
  <2>1. accepted = <<>> /\ log = <<>> /\ Updates(accepted) = {}
    BY NoUpdates DEF HandlerInit, Init
  <2> QED
    BY <2>1 DEF Promise!Init
<1>4. LogInv /\ NoFailure /\ NoFailure' /\ [Next]_vars => [Promise!Next]_Promise!logVars
  BY LogStep
<1> QED
  BY <1>1, <1>2, <1>3, <1>4, PTL DEF Spec, Promise!Spec, ImplementsDurableLog

-----------------------------------------------------------------------------
(***************************************************************************)
(* Each call once, and the calls of a task in their order: what was        *)
(* accepted, and what of it is in the batch or queued.                     *)
(***************************************************************************)
InCallOrder(us) ==
  \A i, j \in DOMAIN us : i < j /\ us[i].task = us[j].task => us[i].call < us[j].call

OnceEach ==
  /\ InCallOrder(accepted)
  /\ InCallOrder(batch \o queue)
  /\ Updates(batch) \cup Updates(queue) \subseteq Updates(accepted)

OnceInv == LogInv /\ OnceEach

LEMMA OrderOfAppend ==
  ASSUME NEW us \in Seq(Update), NEW u \in Update, InCallOrder(us),
         \A v \in Updates(us) : v.task = u.task => v.call < u.call
  PROVE  InCallOrder(Append(us, u))
<1> DEFINE n == Len(us)
<1>1. /\ n \in Nat /\ DOMAIN us = 1..n /\ DOMAIN Append(us, u) = 1..(n + 1)
      /\ Append(us, u)[n + 1] = u
      /\ \A i \in 1..n : Append(us, u)[i] = us[i]
  OBVIOUS
<1>2. \A i \in 1..n : us[i] \in Updates(us)
  BY <1>1 DEF Updates
<1> SUFFICES ASSUME NEW i \in 1..(n + 1), NEW j \in 1..(n + 1), i < j,
                    Append(us, u)[i].task = Append(us, u)[j].task
             PROVE  Append(us, u)[i].call < Append(us, u)[j].call
  BY <1>1 DEF InCallOrder
<1> HIDE DEF n
<1>3. i \in 1..n /\ (j \in 1..n \/ j = n + 1)
  BY <1>1
<1>4. CASE j \in 1..n
  BY <1>1, <1>3, <1>4 DEF InCallOrder
<1>5. CASE j = n + 1
  BY <1>1, <1>2, <1>3, <1>5
<1> QED
  BY <1>3, <1>4, <1>5

\* What follows a batch is still in order when the batch is gone.
LEMMA OrderOfRest ==
  ASSUME NEW s \in Seq(Update), NEW r \in Seq(Update), InCallOrder(s \o r)
  PROVE  InCallOrder(<<>> \o r)
<1>1. <<>> \o r = r
  BY ConcatEmptySeq
<1>2. Len(s) \in Nat /\ DOMAIN r = 1..Len(r) /\ Len(r) \in Nat
  BY LenProperties
<1>3. ASSUME NEW i \in DOMAIN r, NEW j \in DOMAIN r, i < j, r[i].task = r[j].task
      PROVE  r[i].call < r[j].call
  <2>1. /\ Len(s) + i \in DOMAIN (s \o r) /\ (s \o r)[Len(s) + i] = r[i]
        /\ Len(s) + j \in DOMAIN (s \o r) /\ (s \o r)[Len(s) + j] = r[j]
    BY ConcatPositions
  <2>2. Len(s) + i < Len(s) + j
    BY <1>2, <1>3
  <2> QED
    BY <1>3, <2>1, <2>2 DEF InCallOrder
<1> QED
  BY <1>1, <1>3 DEF InCallOrder

LEMMA OrderOfNothing == InCallOrder(<<>>) /\ InCallOrder(<<>> \o <<>>)
<1>1. <<>> \o <<>> = <<>>
  BY EmptySeq, ConcatEmptySeq
<1> QED
  BY <1>1 DEF InCallOrder

LEMMA OnceFrom ==
  ASSUME InCallOrder(accepted'), InCallOrder(batch' \o queue'),
         Updates(batch') \cup Updates(queue') \subseteq Updates(accepted')
  PROVE  OnceEach'
  BY DEF OnceEach, InCallOrder, Updates

LEMMA OnceInit == HandlerInit => OnceEach
  BY NoUpdates, OrderOfNothing DEF HandlerInit, Init, OnceEach

\* A step of one task leaves the others where they are.
LEMMA OthersStay ==
  ASSUME TypeOK, NEW t \in Task, TaskStep(t) \/ TaskEnds(t)
  PROVE  \A s \in Task \ {t} : pc'[s] = pc[s] /\ pos'[s] = pos[s] /\ act'[s] = act[s]
  BY DEF TypeOK, TaskStep, EnterCheckpoint, Enqueue, StartProcessing, CheckpointReturns,
     SuspendForRetry, Suspend, ForceCheckpoint, ForceCheckpointReturns, TaskEnds, Drop

\* The update a task enqueues comes after every other of that task.
LEMMA EnqueuedIsLater ==
  ASSUME LogInv, NEW t \in Task, Enqueue(t)
  PROVE  /\ CurrentUpdate(t) \in Update
         /\ \A v \in Updates(accepted) : v.task = t => v.call < pos[t]
<1>1. /\ TypeOK /\ pc[t] = "tracked" /\ pos[t] <= Len(Program[t]) /\ pos[t] \in Nat
      /\ Updates(accepted) \in SUBSET Update
  BY UpdatesType DEF Enqueue, LogInv, TokenInv, TypedInv, TypeInvariant, TypeOK, InCall
<1>2. CurrentUpdate(t) \in Update
  BY <1>1, CurrentCallType
<1>3. ASSUME NEW v \in Updates(accepted), v.task = t PROVE v.call < pos[t]
  <2>1. v.call \in Nat /\ v.call <= pos[t] /\ v.call # pos[t]
    BY <1>1, <1>3 DEF LogInv, Numbered, Update
  <2> QED
    BY <1>1, <2>1
<1> QED
  BY <1>2, <1>3

LEMMA OnceTask ==
  ASSUME OnceInv, NEW t \in Task, TaskStep(t) \/ TaskEnds(t)
  PROVE  OnceEach'
<1>a. accepted \in Seq(Update) /\ queue \in Seq(Update) /\ batch \in Seq(Update)
  BY DEF OnceInv, LogInv, TokenInv, TypedInv, TypeInvariant, TypeOK
<1>1. CASE Enqueue(t)
  <2> DEFINE u == CurrentUpdate(t)
  <2>1. /\ accepted' = Append(accepted, u) /\ queue' = Append(queue, u) /\ batch' = batch
        /\ u.task = t /\ u.call = pos[t]
    BY <1>1 DEF Enqueue, workerVars, CurrentUpdate
  <2>2. u \in Update /\ \A v \in Updates(accepted) : v.task = t => v.call < pos[t]
    BY <1>1, EnqueuedIsLater DEF OnceInv
  <2> HIDE DEF u
  <2>3. InCallOrder(accepted')
    BY <1>a, <2>1, <2>2, OrderOfAppend DEF OnceInv, OnceEach
  <2>4. Updates(batch \o queue) = Updates(batch) \cup Updates(queue)
    BY <1>a, UpdatesOfConcat
  <2>5. InCallOrder(Append(batch \o queue, u))
    <3>1. batch \o queue \in Seq(Update) /\ InCallOrder(batch \o queue)
      BY <1>a, ConcatProperties DEF OnceInv, OnceEach
    <3>2. \A v \in Updates(batch \o queue) : v.task = u.task => v.call < u.call
      BY <2>1, <2>2, <2>4 DEF OnceInv, OnceEach
    <3> QED
      BY <2>2, <3>1, <3>2, OrderOfAppend
  <2>6. InCallOrder(batch' \o queue')
    BY <1>a, <2>1, <2>2, <2>5, AppendToConcat
  <2>7. /\ Updates(accepted') = Updates(accepted) \cup {u}
        /\ Updates(queue') = Updates(queue) \cup {u}
    BY <1>a, <2>1, <2>2, UpdatesOfAppend
  <2>8. Updates(batch') \cup Updates(queue') \subseteq Updates(accepted')
    BY <2>1, <2>7 DEF OnceInv, OnceEach
  <2> QED
    BY <2>3, <2>6, <2>8, OnceFrom
<1>2. CASE ~Enqueue(t)
  <2>1. ~isProcessing => batch = <<>>
    BY DEF OnceInv, LogInv, TokenInv, OneBatchInFlight
  <2>2. UNCHANGED <<accepted, batch, queue>>
    BY <1>2, <2>1 DEF TaskStep, EnterCheckpoint, StartProcessing,
       CheckpointReturns, SuspendForRetry, Suspend, ForceCheckpoint,
       ForceCheckpointReturns, TaskEnds, Drop, queueVars, workerVars
  <2> QED
    BY <2>2, OnceFrom DEF OnceInv, OnceEach
<1> QED
  BY <1>1, <1>2

LEMMA OnceWorker ==
  ASSUME OnceInv, WorkerStep
  PROVE  OnceEach'
<1>a. accepted \in Seq(Update) /\ queue \in Seq(Update) /\ batch \in Seq(Update)
  BY DEF OnceInv, LogInv, TokenInv, TypedInv, TypeInvariant, TypeOK
<1>1. CASE TakeBatch
  <2>1. batch = <<>> /\ accepted' = accepted
    BY <1>1 DEF TakeBatch, OnceInv, LogInv, TokenInv, OneBatchInFlight
  <2>2. /\ batch' \o queue' = queue /\ batch' \in Seq(Update) /\ queue' \in Seq(Update)
    BY <1>1, <1>a, SplitQueue, SplitType DEF TakeBatch
  <2>3. batch' \o queue' = batch \o queue
    BY <1>a, <2>1, <2>2, ConcatEmptySeq
  <2>4. Updates(batch') \cup Updates(queue') = Updates(queue)
    BY <2>2, UpdatesOfConcat
  <2> QED
    BY <2>1, <2>3, <2>4, OnceFrom DEF OnceInv, OnceEach
<1>2. CASE ReleaseBatch \/ ReleaseFailedBatch
  <2>1. batch' = <<>> /\ queue' = queue /\ accepted' = accepted
    BY <1>2 DEF ReleaseBatch, ReleaseFailedBatch, queueVars
  <2> QED
    BY <1>a, <2>1, OrderOfRest, NoUpdates, OnceFrom DEF OnceInv, OnceEach
<1>3. CASE DrainQueue
  <2>1. batch' = <<>> /\ queue' = <<>> /\ accepted' = accepted
    BY <1>3 DEF DrainQueue, OnceInv, LogInv, TokenInv, OneBatchInFlight
  <2> QED
    BY <2>1, OrderOfNothing, NoUpdates, OnceFrom DEF OnceInv, OnceEach
<1>4. CASE UNCHANGED <<accepted, batch, queue>>
  BY <1>4, OnceFrom DEF OnceInv, OnceEach
<1> QED
  BY <1>1, <1>2, <1>3, <1>4 DEF WorkerStep, FindQueueEmpty, BatchAcknowledged, BatchFailed,
     TerminateForFailure, CheckRetryWaiting, CooldownElapsed, StopProcessing, queueVars

LEMMA LogNext == LogInv /\ [Next]_vars => LogInv'
  BY TokenNext, NothingIsLostStep, NumberedStep DEF LogInv, TokenInv

LEMMA OnceNext == OnceInv /\ [Next]_vars => OnceInv'
<1> SUFFICES ASSUME OnceInv, [Next]_vars PROVE OnceInv'
  OBVIOUS
<1>1. CASE ServiceStep \/ RuntimeStep \/ UNCHANGED vars
  <2>1. UNCHANGED <<accepted, batch, queue>>
    BY <1>1 DEF ServiceStep, RuntimeStep, HandlerReturns, TerminationWins,
       ArmNotification, CheckQueue, NotificationArrives, CheckpointLargeResult,
       LargeResultCheckpointed, Respond, vars, managerVars, quietVars, queueVars, workerVars
  <2>2. OnceEach'
    BY <2>1, OnceFrom DEF OnceInv, OnceEach
  <2> QED
    BY <2>2, LogNext DEF OnceInv
<1>2. CASE WorkerStep
  BY <1>2, OnceWorker, LogNext DEF OnceInv
<1>3. ASSUME NEW t \in Task, TaskStep(t) \/ TaskEnds(t) PROVE OnceInv'
  BY <1>3, OnceTask, LogNext DEF OnceInv
<1> QED
  BY <1>1, <1>2, <1>3 DEF Next

-----------------------------------------------------------------------------
(***************************************************************************)
(* pending_completions.  A completion is noted before it is enqueued and   *)
(* forgotten when its batch is released.  That this forgets no completion  *)
(* still on its way needs that no two calls complete the same operation.   *)
(***************************************************************************)
\* What is accepted, and what is about to be, is what the program asks for.
FromProgram ==
  /\ \A u \in Updates(accepted) : /\ u.call \in DOMAIN Program[u.task]
                                  /\ u.op = Program[u.task][u.call].op
                                  /\ u.action \in Program[u.task][u.call].actions
  /\ \A t \in Task : pc[t] = "tracked" => act[t] \in CurrentCall(t).actions

UnderWay == Updates(batch) \cup Updates(queue)

AboutToComplete(t) ==
  /\ pc[t] \in {"tracked", "dropped"}
  /\ pos[t] <= Len(Program[t])
  /\ act[t] \in Completion

Kept == \A u \in UnderWay : u.action \in Completion => u.op \in pending
Noted == \A t \in Task : pc[t] = "tracked" /\ act[t] \in Completion
                           => CurrentCall(t).op \in pending
NotLeft ==
  \A o \in pending : \/ \E u \in UnderWay : u.op = o /\ u.action \in Completion
                     \/ \E t \in Task : AboutToComplete(t) /\ CurrentCall(t).op = o

Tracked == NoFailure => Kept /\ Noted /\ NotLeft

TrackedInv == OnceInv /\ FromProgram /\ Tracked

\* An error once made is not undone.
LEMMA FailureStays ==
  ASSUME LogInv, [Next]_vars, NoFailure'
  PROVE  NoFailure
<1> USE DEF NoFailure, ioVars, workerVars, notifyVars
<1>a. /\ rpc \in [Requester -> Rpc] /\ batch \in Seq(Update) /\ Worker \in Requester
      /\ \A t \in Task : t \in Requester /\ t # Worker
  BY ActorAssumption DEF LogInv, TokenInv, TypedInv, TypeInvariant, TypeOK, Requester
<1>b. OneBatchInFlight
  BY DEF LogInv, TokenInv
<1>1. ASSUME NEW t \in Task, TaskStep(t) \/ TaskEnds(t) PROVE NoFailure
  <2>1. lost' = lost /\ rpc'[Worker] = rpc[Worker]
    BY <1>1, <1>a DEF TaskStep, EnterCheckpoint, Enqueue, StartProcessing,
       CheckpointReturns, SuspendForRetry, Suspend, ForceCheckpoint,
       ForceCheckpointReturns, TaskEnds, Drop
  <2>2. worker' = worker \/ ~isProcessing
    BY <1>1 DEF TaskStep, EnterCheckpoint, Enqueue, StartProcessing,
       CheckpointReturns, SuspendForRetry, Suspend, ForceCheckpoint,
       ForceCheckpointReturns, TaskEnds, Drop
  <2> QED
    BY <1>b, <2>1, <2>2 DEF OneBatchInFlight
<1>2. ASSUME WorkerStep PROVE NoFailure
  <2>1. CASE TakeBatch
    BY <1>b, <2>1 DEF TakeBatch, OneBatchInFlight
  <2>2. CASE BatchAcknowledged
    BY <2>2 DEF BatchAcknowledged
  <2>3. CASE BatchFailed
    BY <2>3 DEF BatchFailed
  <2>4. CASE ReleaseFailedBatch
    <3>1. Updates(batch) # {}
      BY <1>a, <1>b, <2>4, UpdatesNonempty DEF ReleaseFailedBatch, OneBatchInFlight
    <3> QED
      BY <2>4, <3>1 DEF ReleaseFailedBatch
  <2>5. CASE ReleaseBatch \/ DrainQueue \/ FindQueueEmpty \/ TerminateForFailure
               \/ CheckRetryWaiting \/ CooldownElapsed \/ StopProcessing
    BY <2>5 DEF ReleaseBatch, DrainQueue, FindQueueEmpty, TerminateForFailure,
       CheckRetryWaiting, CooldownElapsed, StopProcessing
  <2> QED
    BY <1>2, <2>1, <2>2, <2>3, <2>4, <2>5 DEF WorkerStep
<1>3. ASSUME ServiceStep PROVE NoFailure
  <2>1. PICK r \in Requester : ServiceAccepts(r) \/ ServiceRefuses(r) \/ ResponseLost(r)
    BY <1>3 DEF ServiceStep, Requester
  <2>2. rpc[Worker].st = "err" => rpc'[Worker] = rpc[Worker]
    BY <1>a, <2>1 DEF ServiceAccepts, ServiceRefuses, ResponseLost
  <2> QED
    BY <1>3, <2>2 DEF ServiceStep
<1>4. ASSUME RuntimeStep \/ UNCHANGED vars PROVE NoFailure
  BY <1>4 DEF RuntimeStep, HandlerReturns, TerminationWins, ArmNotification, CheckQueue,
     NotificationArrives, CheckpointLargeResult, LargeResultCheckpointed, Respond,
     quietVars, vars, managerVars
<1> QED
  BY <1>1, <1>2, <1>3, <1>4 DEF Next

\* Of one task, what the batch holds comes before what is queued.
LEMMA BatchBeforeQueue ==
  ASSUME NEW s \in Seq(Update), NEW r \in Seq(Update), InCallOrder(s \o r),
         NEW v \in Updates(s), NEW u \in Updates(r), v.task = u.task
  PROVE  v.call < u.call
<1>1. PICK i \in DOMAIN s : v = s[i]
  BY DEF Updates
<1>2. PICK k \in DOMAIN r : u = r[k]
  BY DEF Updates
<1>3. /\ i \in DOMAIN (s \o r) /\ (s \o r)[i] = v
      /\ Len(s) + k \in DOMAIN (s \o r) /\ (s \o r)[Len(s) + k] = u
      /\ i \in 1..Len(s) /\ k \in 1..Len(r) /\ Len(s) \in Nat
  BY <1>1, <1>2, ConcatPositions
<1>4. i < Len(s) + k
  BY <1>3
<1> QED
  BY <1>3, <1>4 DEF InCallOrder

LEMMA FromProgramInit == HandlerInit => FromProgram
  BY NoUpdates DEF HandlerInit, Init, FromProgram

LEMMA FromProgramStep ==
  ASSUME LogInv, FromProgram, [Next]_vars
  PROVE  FromProgram'
<1>a. /\ TypeOK /\ InCall /\ accepted \in Seq(Update)
      /\ pos \in [Task -> Nat \ {0}] /\ pc \in [Task -> TaskPc]
      /\ \A t \in Task : Program[t] \in Seq(Call)
  BY ProgramAssumption DEF LogInv, TokenInv, TypedInv, TypeInvariant, TypeOK
<1> DEFINE Asked(u) == /\ u.call \in DOMAIN Program[u.task]
                       /\ u.op = Program[u.task][u.call].op
                       /\ u.action \in Program[u.task][u.call].actions
<1>b. ASSUME \A u \in Updates(accepted') : Asked(u),
             \A t \in Task : pc'[t] = "tracked" => act'[t] \in CurrentCall(t)'.actions
      PROVE  FromProgram'
  BY <1>b DEF FromProgram, Updates
<1>1. ASSUME NEW t \in Task, TaskStep(t) \/ TaskEnds(t) PROVE FromProgram'
  <2>1. \A s \in Task \ {t} : pc'[s] = "tracked" => act'[s] \in CurrentCall(s)'.actions
    BY <1>a, <1>1, OthersStay DEF FromProgram, CurrentCall
  <2>2. pc'[t] = "tracked" => act'[t] \in CurrentCall(t)'.actions
    BY <1>a, <1>1 DEF TaskStep, EnterCheckpoint, Enqueue, StartProcessing,
       CheckpointReturns, SuspendForRetry, Suspend, ForceCheckpoint,
       ForceCheckpointReturns, TaskEnds, Drop, CurrentCall, TypeOK
  <2>3. \A u \in Updates(accepted') : Asked(u)
    <3>1. CASE Enqueue(t)
      <4>1. pc[t] = "tracked" /\ accepted' = Append(accepted, CurrentUpdate(t))
        BY <3>1 DEF Enqueue
      <4>2. CurrentUpdate(t) \in Update
        BY <1>a, <4>1, CurrentCallType DEF InCall
      <4>3. Updates(accepted') = Updates(accepted) \cup {CurrentUpdate(t)}
        BY <1>a, <4>1, <4>2, UpdatesOfAppend
      <4>4. pos[t] \in DOMAIN Program[t]
        BY <1>a, <4>1 DEF InCall
      <4>5. Asked(CurrentUpdate(t))
        BY <4>1, <4>4 DEF CurrentUpdate, CurrentCall, FromProgram
      <4>6. \A u \in Updates(accepted) : Asked(u)
        BY DEF FromProgram
      <4> HIDE DEF Asked
      <4> QED
        BY <4>3, <4>5, <4>6
    <3>2. CASE ~Enqueue(t)
      <4>1. accepted' = accepted
        BY <1>1, <3>2 DEF TaskStep, EnterCheckpoint, StartProcessing, CheckpointReturns,
           SuspendForRetry, Suspend, ForceCheckpoint, ForceCheckpointReturns, TaskEnds,
           Drop, queueVars
      <4> QED
        BY <4>1 DEF FromProgram
    <3> QED
      BY <3>1, <3>2
  <2> QED
    BY <1>b, <2>1, <2>2, <2>3
<1>2. ASSUME UNCHANGED <<accepted, pos, act>>,
             \A t \in Task : pc'[t] = "tracked" => pc[t] = "tracked"
      PROVE  FromProgram'
  BY <1>b, <1>2 DEF FromProgram, CurrentCall
<1>3. CASE WorkerStep \/ ServiceStep \/ UNCHANGED vars
  <2>1. UNCHANGED <<accepted, pc, pos, act>>
    BY <1>3 DEF WorkerStep, TakeBatch, FindQueueEmpty, BatchAcknowledged, ReleaseBatch,
       BatchFailed, ReleaseFailedBatch, DrainQueue, TerminateForFailure, CheckRetryWaiting,
       CooldownElapsed, StopProcessing, ServiceStep, vars, managerVars, quietVars,
       taskVars, queueVars
  <2> QED
    BY <1>2, <2>1
<1>4. CASE RuntimeStep
  <2>1. UNCHANGED <<accepted, pos, act>>
    BY <1>4 DEF RuntimeStep, HandlerReturns, TerminationWins, ArmNotification, CheckQueue,
       NotificationArrives, CheckpointLargeResult, LargeResultCheckpointed, Respond,
       quietVars, taskVars, queueVars
  <2>2. \A t \in Task : pc'[t] = "tracked" => pc[t] = "tracked"
    BY <1>4, <1>a DEF RuntimeStep, HandlerReturns, TerminationWins, ArmNotification,
       CheckQueue, NotificationArrives, CheckpointLargeResult, LargeResultCheckpointed,
       Respond, quietVars, taskVars
  <2> QED
    BY <1>2, <2>1, <2>2
<1> QED
  BY <1>1, <1>3, <1>4 DEF Next

LEMMA TrackedInit == HandlerInit => Tracked
  BY NoUpdates DEF HandlerInit, Init, Tracked, Kept, Noted, NotLeft, UnderWay

\* What a step has to show, with the updates under way after it named.
LEMMA TrackedFrom ==
  ASSUME NEW uw, uw = Updates(batch') \cup Updates(queue'),
         \A u \in uw : u.action \in Completion => u.op \in pending',
         \A t \in Task : pc'[t] = "tracked" /\ act'[t] \in Completion
                           => CurrentCall(t)'.op \in pending',
         \A o \in pending' : \/ \E u \in uw : u.op = o /\ u.action \in Completion
                             \/ \E t \in Task : AboutToComplete(t)' /\ CurrentCall(t)'.op = o
  PROVE  Tracked'
<1>1. UnderWay' = uw
  BY DEF UnderWay, Updates
<1> QED
  BY <1>1 DEF Tracked, Kept, Noted, NotLeft

\* A task that is or was about to enqueue stays so, unless it enqueues.
LEMMA AboutStays ==
  ASSUME TypeOK, NEW t \in Task, TaskStep(t) \/ TaskEnds(t), NEW s \in Task,
         AboutToComplete(s), s # t \/ ~Enqueue(t)
  PROVE  AboutToComplete(s)' /\ CurrentCall(s)' = CurrentCall(s)
<1>1. CASE s # t
  BY <1>1, OthersStay DEF AboutToComplete, CurrentCall
<1>2. CASE s = t
  <2>1. TaskEnds(t)
    BY <1>2 DEF AboutToComplete, TaskStep, EnterCheckpoint, StartProcessing,
       CheckpointReturns, SuspendForRetry, Suspend, ForceCheckpoint,
       ForceCheckpointReturns, Ready
  <2> QED
    BY <1>2, <2>1 DEF TaskEnds, Drop, AboutToComplete, CurrentCall, TypeOK
<1> QED
  BY <1>1, <1>2

LEMMA TrackedTask ==
  ASSUME TrackedInv, NoFailure, NEW t \in Task, TaskStep(t) \/ TaskEnds(t)
  PROVE  Tracked'
<1>a. /\ TypeOK /\ InCall /\ pc \in [Task -> TaskPc] /\ act \in [Task -> Checkpointed]
      /\ accepted \in Seq(Update) /\ queue \in Seq(Update) /\ batch \in Seq(Update)
      /\ Kept /\ Noted /\ NotLeft
  BY DEF TrackedInv, Tracked, OnceInv, LogInv, TokenInv, TypedInv, TypeInvariant, TypeOK
<1>1. CASE Enqueue(t)
  <2> DEFINE u == CurrentUpdate(t)
  <2>1. /\ queue' = Append(queue, u) /\ batch' = batch /\ pending' = pending
        /\ u.op = CurrentCall(t).op /\ u.action = act[t]
        /\ pc[t] = "tracked" /\ pc' = [pc EXCEPT ![t] = "pushed"]
        /\ UNCHANGED <<pos, act>>
    BY <1>1 DEF Enqueue, workerVars, callVars, CurrentUpdate
  <2>2. u \in Update
    BY <1>a, <2>1, CurrentCallType DEF InCall
  <2> HIDE DEF u
  <2>3. Updates(batch') \cup Updates(queue') = UnderWay \cup {u}
    BY <1>a, <2>1, <2>2, UpdatesOfAppend DEF UnderWay
  <2>4. \A v \in UnderWay \cup {u} : v.action \in Completion => v.op \in pending'
    BY <1>a, <2>1 DEF Kept, Noted
  <2>5. \A s \in Task : pc'[s] = "tracked" /\ act'[s] \in Completion
                          => CurrentCall(s)'.op \in pending'
    BY <1>a, <2>1 DEF Noted, CurrentCall
  <2>6. ASSUME NEW o \in pending'
        PROVE  \/ \E v \in UnderWay \cup {u} : v.op = o /\ v.action \in Completion
               \/ \E s \in Task : AboutToComplete(s)' /\ CurrentCall(s)'.op = o
    <3>1. CASE \E v \in UnderWay : v.op = o /\ v.action \in Completion
      BY <3>1
    <3>2. ASSUME NEW s \in Task, AboutToComplete(s), CurrentCall(s).op = o
          PROVE  \/ u.op = o /\ u.action \in Completion
                 \/ AboutToComplete(s)' /\ CurrentCall(s)'.op = o
      <4>1. CASE s = t
        BY <2>1, <3>2, <4>1 DEF AboutToComplete
      <4>2. CASE s # t
        BY <1>a, <1>1, <3>2, <4>2, AboutStays DEF TaskStep
      <4> QED
        BY <4>1, <4>2
    <3> QED
      BY <1>a, <2>1, <3>1, <3>2 DEF NotLeft
  <2> QED
    BY <2>3, <2>4, <2>5, <2>6, TrackedFrom
<1>2. CASE ~Enqueue(t)
  <2>1. ~isProcessing => batch = <<>>
    BY DEF TrackedInv, OnceInv, LogInv, TokenInv, OneBatchInFlight
  <2>2. UNCHANGED <<batch, queue>>
    BY <1>2, <2>1 DEF TaskStep, EnterCheckpoint, StartProcessing,
       CheckpointReturns, SuspendForRetry, Suspend, ForceCheckpoint,
       ForceCheckpointReturns, TaskEnds, Drop, queueVars, workerVars
  <2>3. Updates(batch') \cup Updates(queue') = UnderWay
    BY <2>2 DEF UnderWay
  <2>4. \A s \in Task \ {t} : /\ pc'[s] = pc[s] /\ act'[s] = act[s]
                              /\ CurrentCall(s)' = CurrentCall(s)
    BY <1>a, OthersStay DEF CurrentCall
  <2>5. \A s \in Task : AboutToComplete(s) =>
                          AboutToComplete(s)' /\ CurrentCall(s)' = CurrentCall(s)
    BY <1>a, <1>2, AboutStays
  <2>6. CASE pending' = pending /\ pc'[t] # "tracked"
    <3>1. \A s \in Task : pc'[s] = "tracked" /\ act'[s] \in Completion
                            => CurrentCall(s)'.op \in pending'
      BY <1>a, <2>4, <2>6 DEF Noted
    <3>2. \A o \in pending' : \/ \E v \in UnderWay : v.op = o /\ v.action \in Completion
                              \/ \E s \in Task : AboutToComplete(s)' /\ CurrentCall(s)'.op = o
      BY <1>a, <2>5, <2>6 DEF NotLeft
    <3>3. \A v \in UnderWay : v.action \in Completion => v.op \in pending'
      BY <1>a, <2>6 DEF Kept
    <3> QED
      BY <2>3, <3>1, <3>2, <3>3, TrackedFrom
  <2>7. ASSUME NEW a \in Checkpointed, EnterCheckpoint(t, a), pc'[t] = "tracked"
        PROVE  Tracked'
    <3>1. /\ pending' = IF a \in Completion THEN pending \cup {CurrentCall(t).op} ELSE pending
          /\ act'[t] = a /\ CurrentCall(t)' = CurrentCall(t)
          /\ pos' = pos /\ pos[t] <= Len(Program[t])
      BY <1>a, <2>7 DEF EnterCheckpoint, CurrentCall, Ready
    <3>2. \A s \in Task : pc'[s] = "tracked" /\ act'[s] \in Completion
                            => CurrentCall(s)'.op \in pending'
      BY <1>a, <2>4, <3>1 DEF Noted
    <3>3. a \in Completion => AboutToComplete(t)'
      BY <2>7, <3>1 DEF AboutToComplete
    <3>4. \A o \in pending' : \/ \E v \in UnderWay : v.op = o /\ v.action \in Completion
                              \/ \E s \in Task : AboutToComplete(s)' /\ CurrentCall(s)'.op = o
      BY <1>a, <2>5, <3>1, <3>3 DEF NotLeft
    <3>5. \A v \in UnderWay : v.action \in Completion => v.op \in pending'
      BY <1>a, <3>1 DEF Kept
    <3> QED
      BY <2>3, <3>2, <3>4, <3>5, TrackedFrom
  <2>8. CASE \E a \in Checkpointed : EnterCheckpoint(t, a)
    <3>1. ASSUME pc'[t] # "tracked" PROVE pending' = pending
      BY <1>a, <2>8, <3>1 DEF EnterCheckpoint, callVars
    <3> QED
      BY <2>6, <2>7, <2>8, <3>1
  <2>9. CASE ~\E a \in Checkpointed : EnterCheckpoint(t, a)
    <3>1. pending' = pending /\ pc'[t] # "tracked"
      BY <1>a, <1>2, <2>9 DEF TaskStep, StartProcessing, CheckpointReturns,
         SuspendForRetry, Suspend, ForceCheckpoint, ForceCheckpointReturns, TaskEnds, Drop,
         callVars
    <3> QED
      BY <2>6, <3>1
  <2> QED
    BY <2>8, <2>9
<1> QED
  BY <1>1, <1>2

\* The completions of a batch are released for good: no other call completes the same.
LEMMA TrackedRelease ==
  ASSUME TrackedInv, NoFailure, CompletesOnce, ReleaseBatch
  PROVE  Tracked'
<1>a. /\ accepted \in Seq(Update) /\ queue \in Seq(Update) /\ batch \in Seq(Update)
      /\ Updates(accepted) \in SUBSET Update
      /\ Kept /\ Noted /\ NotLeft /\ TypeOK /\ InCall /\ pos \in [Task -> Nat \ {0}]
  BY UpdatesType
     DEF TrackedInv, Tracked, OnceInv, LogInv, TokenInv, TypedInv, TypeInvariant, TypeOK
<1>1. /\ pending' = pending \ Completions(batch) /\ batch' = <<>>
      /\ UNCHANGED <<queue, pc, pos, act>>
  BY DEF ReleaseBatch, queueVars, taskVars
<1>2. Updates(batch') \cup Updates(queue') = Updates(queue)
  BY <1>1, NoUpdates
<1>3. \A v \in Updates(batch) : v.action \in Completion => v.op \in Completions(batch)
  BY DEF Completions
<1>4. \A o \in Completions(batch) : \E v \in Updates(batch) :
        v.op = o /\ v.action \in Completion
  BY DEF Completions
<1>5. ASSUME NEW v \in Updates(accepted), NEW u \in Updates(accepted),
             v.action \in Completion, u.action \in Completion, v.op = u.op
      PROVE  v.task = u.task /\ v.call = u.call
  <2>1. /\ v.task \in Task /\ u.task \in Task
        /\ v.call \in DOMAIN Program[v.task] /\ u.call \in DOMAIN Program[u.task]
        /\ MayComplete(v.task, v.call) /\ MayComplete(u.task, u.call)
        /\ Program[v.task][v.call].op = Program[u.task][u.call].op
    BY <1>a, <1>5 DEF TrackedInv, FromProgram, MayComplete, Update
  <2> QED
    BY <2>1 DEF CompletesOnce
<1>6. Updates(batch) \subseteq Updates(accepted) /\ Updates(queue) \subseteq Updates(accepted)
  BY DEF TrackedInv, OnceInv, OnceEach
<1>7. ASSUME NEW u \in Updates(queue), u.action \in Completion PROVE u.op \in pending'
  <2>1. u.op \in pending
    BY <1>a, <1>7 DEF Kept, UnderWay
  <2>2. ASSUME NEW v \in Updates(batch), v.action \in Completion, v.op = u.op PROVE FALSE
    <3>1. v.task = u.task /\ v.call = u.call /\ u.call \in Nat
      BY <1>a, <1>5, <1>6, <1>7, <2>2 DEF Update
    <3>2. v.call < u.call
      BY <1>a, <3>1, BatchBeforeQueue DEF TrackedInv, OnceInv, OnceEach
    <3> QED
      BY <3>1, <3>2
  <2> QED
    BY <1>1, <1>4, <2>1, <2>2
<1>8. ASSUME NEW t \in Task, pc[t] = "tracked", act[t] \in Completion
      PROVE  CurrentCall(t).op \in pending'
  <2>1. CurrentCall(t).op \in pending
    BY <1>a, <1>8 DEF Noted
  <2>2. ASSUME NEW v \in Updates(batch), v.action \in Completion, v.op = CurrentCall(t).op
        PROVE  FALSE
    <3>1. /\ v.task \in Task /\ v.call \in DOMAIN Program[v.task]
          /\ MayComplete(v.task, v.call)
          /\ Program[v.task][v.call].op = CurrentCall(t).op
      BY <1>a, <1>6, <2>2 DEF TrackedInv, FromProgram, MayComplete, Update
    <3>2. pos[t] \in DOMAIN Program[t]
      BY <1>a, <1>8, ProgramAssumption DEF InCall
    <3>3. MayComplete(t, pos[t]) /\ Program[t][pos[t]] = CurrentCall(t)
      BY <1>8 DEF TrackedInv, FromProgram, MayComplete, CurrentCall
    <3>4. v.task = t /\ v.call = pos[t]
      BY <3>1, <3>2, <3>3 DEF CompletesOnce
    <3> QED
      BY <1>6, <1>8, <3>4 DEF TrackedInv, OnceInv, LogInv, Numbered
  <2> QED
    BY <1>1, <1>4, <2>1, <2>2
<1>9. \A t \in Task : CurrentCall(t)' = CurrentCall(t) /\ AboutToComplete(t)' = AboutToComplete(t)
  BY <1>1 DEF CurrentCall, AboutToComplete
<1>10. ASSUME NEW o \in pending'
       PROVE  \/ \E u \in Updates(queue) : u.op = o /\ u.action \in Completion
              \/ \E t \in Task : AboutToComplete(t)' /\ CurrentCall(t)'.op = o
  <2>1. o \in pending /\ o \notin Completions(batch)
    BY <1>1
  <2> QED
    BY <1>a, <1>3, <1>9, <2>1 DEF NotLeft, UnderWay
<1>11. \A t \in Task : pc'[t] = "tracked" /\ act'[t] \in Completion
                         => CurrentCall(t)'.op \in pending'
  BY <1>1, <1>8, <1>9
<1> QED
  BY <1>2, <1>7, <1>10, <1>11, TrackedFrom

\* A step that leaves the pending completions and what is under way alone keeps them.
LEMMA TrackedStutters ==
  ASSUME Kept, Noted, NotLeft, UNCHANGED <<pending, pos, act>>,
         Updates(batch') \cup Updates(queue') = UnderWay,
         \A t \in Task : pc'[t] = "tracked" => pc[t] = "tracked",
         \A t \in Task : pc[t] \in {"tracked", "dropped"} => pc'[t] = pc[t]
  PROVE  Tracked'
<1>1. \A t \in Task : pc'[t] = "tracked" /\ act'[t] \in Completion
                        => CurrentCall(t)'.op \in pending'
  BY DEF Noted, CurrentCall
<1>2. \A t \in Task : AboutToComplete(t) =>
                        AboutToComplete(t)' /\ CurrentCall(t)' = CurrentCall(t)
  BY DEF AboutToComplete, CurrentCall
<1>3. \A o \in pending' : \/ \E u \in UnderWay : u.op = o /\ u.action \in Completion
                          \/ \E t \in Task : AboutToComplete(t)' /\ CurrentCall(t)'.op = o
  BY <1>2 DEF NotLeft
<1>4. \A u \in UnderWay : u.action \in Completion => u.op \in pending'
  BY DEF Kept
<1> QED
  BY <1>1, <1>3, <1>4, TrackedFrom

LEMMA TrackedStep ==
  ASSUME TrackedInv, CompletesOnce, [Next]_vars
  PROVE  Tracked'
<1> SUFFICES ASSUME NoFailure' PROVE Tracked'
  BY DEF Tracked
<1>a. NoFailure
  BY FailureStays DEF TrackedInv, OnceInv
<1>b. /\ queue \in Seq(Update) /\ batch \in Seq(Update) /\ Kept /\ Noted /\ NotLeft
      /\ OneBatchInFlight /\ MainIsIdle /\ pc \in [Task -> TaskPc]
  BY <1>a DEF TrackedInv, Tracked, OnceInv, LogInv, TokenInv, TypedInv, TypeInvariant, TypeOK
<1>1. CASE \E t \in Task : TaskStep(t) \/ TaskEnds(t)
  BY <1>a, <1>1, TrackedTask
<1>2. CASE ReleaseBatch
  BY <1>a, <1>2, TrackedRelease
<1>3. CASE WorkerStep /\ ~ReleaseBatch
  <2>1. CASE TakeBatch
    <3>1. batch = <<>> /\ batch' \o queue' = queue /\ batch' \in Seq(Update) /\ queue' \in Seq(Update)
      BY <1>b, <2>1, SplitQueue, SplitType DEF TakeBatch, OneBatchInFlight
    <3>2. Updates(batch') \cup Updates(queue') = UnderWay
      BY <3>1, UpdatesOfConcat, NoUpdates DEF UnderWay
    <3> QED
      BY <1>b, <2>1, <3>2, TrackedStutters DEF TakeBatch, taskVars, callVars
  <2>2. CASE ReleaseFailedBatch
    BY <1>a, <2>2 DEF ReleaseFailedBatch, NoFailure
  <2>3. CASE DrainQueue
    <3>1. Updates(queue) = {}
      BY <2>3 DEF DrainQueue, NoFailure
    <3>2. queue = <<>> /\ queue' = <<>> /\ batch' = batch
      BY <1>b, <2>3, <3>1, UpdatesNonempty DEF DrainQueue
    <3>3. Updates(batch') \cup Updates(queue') = UnderWay
      BY <3>2 DEF UnderWay
    <3> QED
      BY <1>b, <2>3, <3>3, TrackedStutters DEF DrainQueue, taskVars, callVars
  <2>4. CASE UNCHANGED <<batch, queue, pending, taskVars>>
    BY <1>b, <2>4, TrackedStutters DEF UnderWay, taskVars
  <2> QED
    BY <1>3, <2>1, <2>2, <2>3, <2>4 DEF WorkerStep, FindQueueEmpty, BatchAcknowledged,
       BatchFailed, TerminateForFailure, CheckRetryWaiting, CooldownElapsed,
       StopProcessing, queueVars, callVars
<1>4. CASE ServiceStep \/ UNCHANGED vars
  BY <1>b, <1>4, TrackedStutters DEF ServiceStep, vars, managerVars, quietVars, queueVars,
     workerVars, callVars, taskVars, UnderWay
<1>5. CASE RuntimeStep
  <2>1. UNCHANGED <<batch, queue, pending, pos, act>>
    BY <1>5 DEF RuntimeStep, HandlerReturns, TerminationWins, ArmNotification, CheckQueue,
       NotificationArrives, CheckpointLargeResult, LargeResultCheckpointed, Respond,
       quietVars, queueVars, workerVars, callVars, taskVars
  <2>2. pc' = pc \/ CheckpointLargeResult
    BY <1>5 DEF RuntimeStep, HandlerReturns, TerminationWins, ArmNotification, CheckQueue,
       NotificationArrives, LargeResultCheckpointed, Respond, quietVars, taskVars
  <2>3. CheckpointLargeResult => pc[Main] = "unborn" /\ pc' = [pc EXCEPT ![Main] = "body"]
    BY <1>b DEF CheckpointLargeResult, LargeResultPending, MainIsIdle
  <2>4. \A t \in Task : /\ pc'[t] = "tracked" => pc[t] = "tracked"
                        /\ pc[t] \in {"tracked", "dropped"} => pc'[t] = pc[t]
    BY <1>b, <2>2, <2>3
  <2> QED
    BY <1>b, <2>1, <2>4, TrackedStutters DEF UnderWay
<1> QED
  BY <1>1, <1>2, <1>3, <1>4, <1>5 DEF Next

\* While nothing fails, pending_completions holds the completions that are under way, and
\* beyond them only those about to be: is_completion_pending is neither early nor late
\* (checkpoint/manager.rs, manager/queue.rs).
THEOREM CompletionsTracked ==
  ASSUME CompletesOnce PROVE Spec => []CompletionsAreTracked
<1>1. HandlerInit => TrackedInv
  BY TokenInit, NothingIsLostInit, NumberedInit, OnceInit, FromProgramInit, TrackedInit
     DEF TrackedInv, OnceInv, LogInv
<1>2. TrackedInv /\ [Next]_vars => TrackedInv'
  BY OnceNext, FromProgramStep, TrackedStep DEF TrackedInv, OnceInv
<1>3. TrackedInv => CompletionsAreTracked
  <2> SUFFICES ASSUME TrackedInv, NoFailure
               PROVE  OnTheirWay \subseteq pending /\ pending \subseteq OnTheirWay \cup AboutToEnqueue
    BY DEF CompletionsAreTracked
  <2>1. Kept /\ NotLeft
    BY DEF TrackedInv, Tracked
  <2>2. \A o : o \in OnTheirWay <=> \E u \in UnderWay : u.op = o /\ u.action \in Completion
    BY DEF OnTheirWay, Completions, UnderWay
  <2>3. \A t \in Task : AboutToComplete(t) => CurrentCall(t).op \in AboutToEnqueue
    BY DEF AboutToComplete, AboutToEnqueue
  <2> QED
    BY <2>1, <2>2, <2>3 DEF Kept, NotLeft
<1> QED
  BY <1>1, <1>2, <1>3, PTL DEF Spec

-----------------------------------------------------------------------------
(***************************************************************************)
(* No gaps.  On a current-thread runtime a task that is past the terminating*)
(* check has the thread until its update is queued and a worker runs, and  *)
(* the worker has it from a failed batch until the manager is terminating: *)
(* nothing can be accepted after a batch was lost.                         *)
(***************************************************************************)
Told == terminated # NotTerminated => isTerminating

IsInside(t) == pc[t] \in {"tracked", "pushed"}

Inside == ~Preemptive => \A t \in Task : IsInside(t) => running = t

AfterLoss ==
  ~Preemptive /\ lost # {} =>
    /\ batch = <<>>
    /\ \A t \in Task : ~IsInside(t)
    /\ queue = <<>> \/ worker = "draining"
    /\ isTerminating \/ (worker \in {"draining", "terminating"} /\ running = Worker)

LogIsPrefix == \E rest \in Seq(Update) : accepted = log \o rest

OrderInv == OnceInv /\ Told /\ Inside /\ AfterLoss /\ (~Preemptive => LogIsPrefix)

\* Whoever acts, nobody else holds the thread.
LEMMA Holder ==
  /\ \A t \in Task : TaskStep(t) \/ TaskEnds(t) => running \in {Nobody, t}
  /\ WorkerStep => running \in {Nobody, Worker}
  /\ RuntimeStep => running \in {Nobody, Main}
<1>1. ASSUME NEW t \in Task, TaskStep(t) \/ TaskEnds(t) PROVE running \in {Nobody, t}
  BY <1>1 DEF Step, TaskStep, EnterCheckpoint, Enqueue, StartProcessing, CheckpointReturns,
     SuspendForRetry, Suspend, ForceCheckpoint, ForceCheckpointReturns, TaskEnds, Drop
<1>2. ASSUME WorkerStep PROVE running \in {Nobody, Worker}
  BY <1>2 DEF Step, WorkerStep, TakeBatch, FindQueueEmpty, BatchAcknowledged, ReleaseBatch,
     BatchFailed, ReleaseFailedBatch, DrainQueue, TerminateForFailure, CheckRetryWaiting,
     CooldownElapsed, StopProcessing
<1>3. ASSUME RuntimeStep PROVE running \in {Nobody, Main}
  BY <1>3 DEF Step, RuntimeStep, HandlerReturns, TerminationWins, ArmNotification,
     CheckQueue, NotificationArrives, CheckpointLargeResult, LargeResultCheckpointed,
     Respond
<1> QED
  BY <1>1, <1>2, <1>3

LEMMA ToldStep ==
  ASSUME Told, [Next]_vars
  PROVE  Told'
<1>1. ASSUME UNCHANGED terminationVars PROVE Told'
  BY <1>1 DEF Told, terminationVars
<1>2. ASSUME NEW reason, Terminate(reason) PROVE Told'
  BY <1>2 DEF Told, Terminate, terminationVars
<1>3. ASSUME NEW t \in Task, TaskStep(t) \/ TaskEnds(t) PROVE Told'
  BY <1>1, <1>2, <1>3 DEF TaskStep, EnterCheckpoint, Enqueue, StartProcessing,
     CheckpointReturns, SuspendForRetry, Suspend, ForceCheckpoint,
     ForceCheckpointReturns, TaskEnds, Drop
<1>4. ASSUME WorkerStep PROVE Told'
  BY <1>1, <1>2, <1>4 DEF WorkerStep, TakeBatch, FindQueueEmpty, BatchAcknowledged,
     ReleaseBatch, BatchFailed, ReleaseFailedBatch, DrainQueue, TerminateForFailure,
     CheckRetryWaiting, CooldownElapsed, StopProcessing
<1>5. ASSUME ServiceStep \/ RuntimeStep \/ UNCHANGED vars PROVE UNCHANGED terminationVars
  BY <1>5 DEF ServiceStep, RuntimeStep, HandlerReturns, TerminationWins, ArmNotification,
     CheckQueue, NotificationArrives, CheckpointLargeResult, LargeResultCheckpointed,
     Respond, vars, managerVars, quietVars
<1> QED
  BY <1>1, <1>3, <1>4, <1>5 DEF Next

\* The task that ran last is inside only if it kept the thread; the others are not.
LEMMA InsideStep ==
  ASSUME TokenInv, Inside, [Next]_vars
  PROVE  Inside'
<1> SUFFICES ASSUME ~Preemptive PROVE \A t \in Task : IsInside(t)' => running' = t
  BY DEF Inside
<1>a. /\ TypeOK /\ pc \in [Task -> TaskPc] /\ MainIsIdle /\ Main \in Task
      /\ \A t \in Task : t # Nobody /\ t # Worker
  BY ActorAssumption DEF TokenInv, TypedInv, TypeInvariant, TypeOK
<1>b. \A t \in Task : IsInside(t) => running = t
  BY DEF Inside
<1>1. ASSUME NEW t \in Task, TaskStep(t) \/ TaskEnds(t)
      PROVE  \A s \in Task : IsInside(s)' => running' = s
  <2>1. ASSUME NEW s \in Task \ {t} PROVE ~IsInside(s)'
    <3>1. running \in {Nobody, t}
      BY <1>1, Holder
    <3>2. pc'[s] = pc[s] /\ ~IsInside(s)
      BY <1>a, <1>b, <1>1, <3>1, OthersStay
    <3> QED
      BY <3>2 DEF IsInside
  <2>2. IsInside(t)' => running' = t
    BY <1>a, <1>1 DEF IsInside, Step, TaskStep, EnterCheckpoint, Enqueue, StartProcessing,
       CheckpointReturns, SuspendForRetry, Suspend, ForceCheckpoint,
       ForceCheckpointReturns, TaskEnds, Drop
  <2> QED
    BY <2>1, <2>2
<1>2. ASSUME WorkerStep PROVE \A t \in Task : IsInside(t)' => running' = t
  <2>1. pc' = pc /\ running \in {Nobody, Worker}
    BY <1>2, Holder DEF WorkerStep, TakeBatch, FindQueueEmpty, BatchAcknowledged,
       ReleaseBatch, BatchFailed, ReleaseFailedBatch, DrainQueue, TerminateForFailure,
       CheckRetryWaiting, CooldownElapsed, StopProcessing, taskVars
  <2> QED
    BY <1>a, <1>b, <2>1 DEF IsInside
<1>3. ASSUME RuntimeStep PROVE \A t \in Task : IsInside(t)' => running' = t
  <2>1. running \in {Nobody, Main} /\ ~IsInside(Main)
    BY <1>3, <1>a, Holder DEF IsInside, MainIsIdle, Finished, RuntimeStep, HandlerReturns,
       TerminationWins, ArmNotification, CheckQueue, NotificationArrives,
       CheckpointLargeResult, LargeResultCheckpointed, Respond
  <2>2. pc' = pc \/ pc' = [pc EXCEPT ![Main] = "body"]
    BY <1>3 DEF RuntimeStep, HandlerReturns, TerminationWins, ArmNotification, CheckQueue,
       NotificationArrives, CheckpointLargeResult, LargeResultCheckpointed, Respond,
       quietVars, taskVars
  <2> QED
    BY <1>a, <1>b, <2>1, <2>2 DEF IsInside
<1>4. CASE ServiceStep \/ UNCHANGED vars
  BY <1>b, <1>4 DEF ServiceStep, vars, managerVars, quietVars, taskVars, IsInside
<1> QED
  BY <1>1, <1>2, <1>3, <1>4 DEF Next

LEMMA AfterLossStep ==
  ASSUME TokenInv, Told, Inside, AfterLoss, [Next]_vars
  PROVE  AfterLoss'
<1> SUFFICES ASSUME ~Preemptive, lost' # {}
             PROVE  /\ batch' = <<>>
                    /\ \A t \in Task : ~IsInside(t)'
                    /\ queue' = <<>> \/ worker' = "draining"
                    /\ \/ isTerminating'
                       \/ worker' \in {"draining", "terminating"} /\ running' = Worker
  BY DEF AfterLoss
<1>a. /\ TypeOK /\ pc \in [Task -> TaskPc] /\ MainIsIdle /\ Main \in Task
      /\ \A t \in Task : t # Nobody /\ t # Worker
      /\ OneBatchInFlight /\ Worker # Nobody
  BY ActorAssumption DEF TokenInv, TypedInv, TypeInvariant, TypeOK
<1>b. lost # {} => /\ batch = <<>>
                   /\ \A t \in Task : ~IsInside(t)
                   /\ queue = <<>> \/ worker = "draining"
                   /\ \/ isTerminating
                      \/ worker \in {"draining", "terminating"} /\ running = Worker
  BY DEF AfterLoss
<1>1. CASE ReleaseFailedBatch
  <2>1. /\ batch' = <<>> /\ worker' = "draining" /\ pc' = pc /\ running' = Worker
        /\ running \in {Nobody, Worker}
    BY <1>1 DEF ReleaseFailedBatch, Step, taskVars
  <2>2. \A t \in Task : ~IsInside(t)
    BY <1>a, <2>1 DEF Inside
  <2> QED
    BY <2>1, <2>2 DEF IsInside
<1>2. CASE DrainQueue
  <2>1. /\ queue' = <<>> /\ batch' = batch /\ pc' = pc /\ isTerminating' = isTerminating
        /\ running' = Worker /\ worker' = "terminating" /\ worker = "draining"
        /\ running \in {Nobody, Worker}
    BY <1>2 DEF DrainQueue, Step, taskVars, terminationVars
  <2>2. \A t \in Task : ~IsInside(t)
    BY <1>a, <2>1 DEF Inside
  <2>3. batch = <<>>
    BY <1>a, <2>1 DEF OneBatchInFlight
  <2> QED
    BY <2>1, <2>2, <2>3 DEF IsInside
<1>3. ASSUME ~ReleaseFailedBatch, ~DrainQueue PROVE lost' = lost
  BY <1>3 DEF Next, TaskStep, EnterCheckpoint, Enqueue, StartProcessing,
     CheckpointReturns, SuspendForRetry, Suspend, ForceCheckpoint, ForceCheckpointReturns,
     TaskEnds, Drop, WorkerStep, TakeBatch, FindQueueEmpty, BatchAcknowledged,
     ReleaseBatch, BatchFailed, TerminateForFailure, CheckRetryWaiting, CooldownElapsed,
     StopProcessing, ServiceStep, RuntimeStep, HandlerReturns, TerminationWins,
     ArmNotification, CheckQueue, NotificationArrives, CheckpointLargeResult,
     LargeResultCheckpointed, Respond, vars, managerVars, quietVars, notifyVars
<1>4. ASSUME ~ReleaseFailedBatch, ~DrainQueue, NEW t \in Task, TaskStep(t) \/ TaskEnds(t)
      PROVE  /\ UNCHANGED <<batch, queue, worker>> /\ isTerminating'
             /\ \A s \in Task : ~IsInside(s)'
  <2>1. /\ batch = <<>> /\ ~IsInside(t) /\ \A s \in Task : ~IsInside(s)
        /\ \/ isTerminating
           \/ worker \in {"draining", "terminating"} /\ running = Worker
    BY <1>b, <1>3, <1>4
  <2>2. isTerminating
    BY <1>a, <1>4, <2>1, Holder
  <2>3. ~IsInside(t)' /\ UNCHANGED <<batch, queue, worker>>
    BY <1>a, <1>4, <2>1, <2>2 DEF IsInside, TaskStep, EnterCheckpoint, Enqueue,
       StartProcessing, CheckpointReturns, SuspendForRetry, Suspend, ForceCheckpoint,
       ForceCheckpointReturns, TaskEnds, Drop, workerVars, queueVars
  <2>4. isTerminating'
    BY <1>4, <2>2 DEF TaskStep, EnterCheckpoint, Enqueue, StartProcessing,
       CheckpointReturns, SuspendForRetry, Suspend, ForceCheckpoint,
       ForceCheckpointReturns, TaskEnds, Drop, Terminate, terminationVars
  <2>5. \A s \in Task \ {t} : ~IsInside(s)'
    BY <1>a, <1>4, <2>1, OthersStay DEF IsInside
  <2> QED
    BY <2>3, <2>4, <2>5
<1>5. ASSUME ~ReleaseFailedBatch, ~DrainQueue, NEW t \in Task, TaskStep(t) \/ TaskEnds(t)
      PROVE  queue' = <<>> \/ worker' = "draining"
  BY <1>b, <1>3, <1>4, <1>5
<1>6. ASSUME ~ReleaseFailedBatch, ~DrainQueue, WorkerStep
      PROVE  /\ batch' = <<>> /\ pc' = pc /\ queue' = <<>> /\ isTerminating'
  <2>1. /\ batch = <<>>
        /\ queue = <<>> \/ worker = "draining"
        /\ \/ isTerminating
           \/ worker \in {"draining", "terminating"} /\ running = Worker
    BY <1>b, <1>3, <1>6
  <2>2. queue = <<>>
    BY <1>6, <2>1 DEF WorkerStep, TakeBatch, FindQueueEmpty, BatchAcknowledged,
       ReleaseBatch, BatchFailed, TerminateForFailure, CheckRetryWaiting, CooldownElapsed,
       StopProcessing
  <2>3. CASE TerminateForFailure
    BY <2>1, <2>2, <2>3 DEF TerminateForFailure, Terminate, terminationVars, taskVars,
       queueVars, Told
  <2>4. CASE ~TerminateForFailure
    <3>1. isTerminating
      BY <1>6, <2>1, <2>4 DEF WorkerStep, TakeBatch, FindQueueEmpty, BatchAcknowledged,
         ReleaseBatch, BatchFailed, CheckRetryWaiting, CooldownElapsed, StopProcessing
    <3> QED
      BY <1>6, <2>1, <2>2, <2>4, <3>1 DEF WorkerStep, TakeBatch, FindQueueEmpty,
         BatchAcknowledged, ReleaseBatch, BatchFailed, CheckRetryWaiting, CooldownElapsed,
         StopProcessing, Terminate, terminationVars, taskVars, queueVars
  <2> QED
    BY <2>3, <2>4
<1>7. ASSUME ServiceStep \/ UNCHANGED vars
      PROVE  UNCHANGED <<batch, pc, queue, worker, isTerminating, running, lost>>
  BY <1>7 DEF ServiceStep, vars, managerVars, quietVars, queueVars, workerVars, taskVars,
     notifyVars, terminationVars
<1>8. ASSUME RuntimeStep
      PROVE  /\ UNCHANGED <<batch, queue, worker, isTerminating, lost>>
             /\ \A t \in Task : IsInside(t)' => IsInside(t)
             /\ running # Worker
  <2>1. UNCHANGED <<batch, queue, worker, isTerminating, lost>>
    BY <1>8 DEF RuntimeStep, HandlerReturns, TerminationWins, ArmNotification, CheckQueue,
       NotificationArrives, CheckpointLargeResult, LargeResultCheckpointed, Respond,
       quietVars, queueVars, workerVars, notifyVars, terminationVars
  <2>2. pc' = pc \/ pc' = [pc EXCEPT ![Main] = "body"]
    BY <1>8 DEF RuntimeStep, HandlerReturns, TerminationWins, ArmNotification, CheckQueue,
       NotificationArrives, CheckpointLargeResult, LargeResultCheckpointed, Respond,
       quietVars, taskVars
  <2>3. running # Worker
    BY <1>8, <1>a, Holder
  <2> QED
    BY <1>a, <2>1, <2>2, <2>3 DEF IsInside
<1>9. CASE ServiceStep \/ UNCHANGED vars
  BY <1>b, <1>7, <1>9 DEF IsInside
<1>10. CASE RuntimeStep
  BY <1>b, <1>8, <1>10
<1>11. CASE WorkerStep
  BY <1>b, <1>1, <1>2, <1>3, <1>6, <1>11 DEF IsInside
<1> QED
  BY <1>1, <1>2, <1>3, <1>4, <1>5, <1>9, <1>10, <1>11, <1>b DEF Next

\* The service has a prefix of what was accepted.
LEMMA PrefixStep ==
  ASSUME ~Preemptive, OnceInv, AfterLoss, LogIsPrefix, [Next]_vars
  PROVE  LogIsPrefix'
<1>a. /\ accepted \in Seq(Update) /\ log \in Seq(Update) /\ queue \in Seq(Update)
      /\ batch \in Seq(Update) /\ TypeOK /\ InCall /\ OneBatchInFlight /\ NothingIsLost
      /\ rpc \in [Requester -> Rpc] /\ Worker \in Requester
  BY DEF OnceInv, LogInv, TokenInv, TypedInv, TypeInvariant, TypeOK, Requester
<1>1. CASE UNCHANGED <<accepted, log>>
  BY <1>1 DEF LogIsPrefix
<1>2. ASSUME NEW t \in Task, Enqueue(t) PROVE LogIsPrefix'
  <2>1. PICK rest \in Seq(Update) : accepted = log \o rest
    BY DEF LogIsPrefix
  <2>2. CurrentUpdate(t) \in Update
    BY <1>2, EnqueuedIsLater DEF OnceInv
  <2>3. accepted' = Append(accepted, CurrentUpdate(t)) /\ log' = log
    BY <1>2 DEF Enqueue, ioVars, serviceVars
  <2>4. accepted' = log' \o Append(rest, CurrentUpdate(t))
    BY <1>a, <2>1, <2>2, <2>3, AppendToConcat
  <2>5. Append(rest, CurrentUpdate(t)) \in Seq(Update)
    BY <2>1, <2>2
  <2> QED
    BY <2>4, <2>5 DEF LogIsPrefix
<1>3. CASE ServiceStep
  <2>1. PICK r \in Requester : ServiceAccepts(r) \/ ServiceRefuses(r) \/ ResponseLost(r)
    BY <1>3 DEF ServiceStep, Requester
  <2>2. accepted' = accepted
    BY <1>3 DEF ServiceStep, queueVars
  <2>3. log' = log \o Request(r) \/ log' = log
    BY <2>1 DEF ServiceAccepts, ServiceRefuses, ResponseLost, Record, serviceVars
  <2>4. CASE r # Worker
    <3>1. log' = log
      BY <1>a, <2>3, <2>4, ConcatEmptySeq DEF Request
    <3> QED
      BY <1>1, <2>2, <3>1
  <2>5. CASE r = Worker
    <3>1. rpc[Worker].st = "sent" /\ Request(r) = batch
      BY <2>1, <2>5 DEF ServiceAccepts, ServiceRefuses, ResponseLost, Request
    <3>2. NoFailure
      BY <1>a, <3>1 DEF NoFailure, AfterLoss, OneBatchInFlight
    <3>3. accepted = log \o batch \o queue
      BY <1>a, <3>1, <3>2 DEF NothingIsLost, Unrecorded
    <3>4. CASE log' = log \o batch
      BY <1>a, <2>2, <3>3, <3>4 DEF LogIsPrefix
    <3> QED
      BY <1>1, <2>2, <2>3, <3>1, <3>4
  <2> QED
    BY <2>4, <2>5
<1>4. ASSUME NEW t \in Task, TaskStep(t) \/ TaskEnds(t), ~Enqueue(t)
      PROVE  UNCHANGED <<accepted, log>>
  BY <1>4 DEF TaskStep, EnterCheckpoint, StartProcessing, CheckpointReturns,
     SuspendForRetry, Suspend, ForceCheckpoint, ForceCheckpointReturns, TaskEnds, Drop,
     queueVars, ioVars, serviceVars
<1>5. ASSUME WorkerStep \/ RuntimeStep \/ UNCHANGED vars PROVE UNCHANGED <<accepted, log>>
  BY <1>5 DEF WorkerStep, TakeBatch, FindQueueEmpty, BatchAcknowledged, ReleaseBatch,
     BatchFailed, ReleaseFailedBatch, DrainQueue, TerminateForFailure, CheckRetryWaiting,
     CooldownElapsed, StopProcessing, RuntimeStep, HandlerReturns, TerminationWins,
     ArmNotification, CheckQueue, NotificationArrives, CheckpointLargeResult,
     LargeResultCheckpointed, Respond, vars, managerVars, quietVars, queueVars, ioVars,
     serviceVars
<1> QED
  BY <1>1, <1>2, <1>3, <1>4, <1>5 DEF Next

LEMMA OrderInit == HandlerInit => OrderInv
<1> SUFFICES ASSUME HandlerInit PROVE OrderInv
  OBVIOUS
<1>1. OnceInv
  BY TokenInit, NothingIsLostInit, NumberedInit, OnceInit DEF OnceInv, LogInv
<1>2. accepted = <<>> /\ log = <<>> /\ lost = {} /\ terminated = NotTerminated
      /\ \A t \in Task : ~IsInside(t)
  BY DEF HandlerInit, Init, TerminationInit, IsInside
<1>3. <<>> = <<>> \o <<>> /\ <<>> \in Seq(Update)
  BY EmptySeq, ConcatEmptySeq
<1> QED
  BY <1>1, <1>2, <1>3 DEF OrderInv, Told, Inside, AfterLoss, LogIsPrefix

LEMMA OrderNext == OrderInv /\ [Next]_vars => OrderInv'
<1> SUFFICES ASSUME OrderInv, [Next]_vars PROVE OrderInv'
  OBVIOUS
<1>1. TokenInv
  BY DEF OrderInv, OnceInv, LogInv
<1> QED
  BY <1>1, OnceNext, ToldStep, InsideStep, AfterLossStep, PrefixStep DEF OrderInv

\* In a prefix of updates that are in order, no later update stands without an earlier one.
LEMMA PrefixHasNoGap ==
  ASSUME NEW s \in Seq(Update), NEW r \in Seq(Update), InCallOrder(s \o r),
         NEW u \in Updates(s), NEW v \in Updates(s \o r), v.task = u.task, v.call < u.call
  PROVE  v \in Updates(s)
<1>1. v \in Updates(s) \/ v \in Updates(r)
  BY UpdatesOfConcat
<1>2. CASE v \in Updates(r)
  <2>1. u.call < v.call
    BY <1>2, BatchBeforeQueue
  <2>2. u.call \in Nat /\ v.call \in Nat
    BY <1>2, UpdatesType DEF Update
  <2> QED
    BY <2>1, <2>2
<1> QED
  BY <1>1, <1>2

\* The updates of a task are recorded in their order, without a gap: on a current-thread
\* runtime always, even when requests fail; on a multi-thread runtime as long as none
\* fails (checkpoint/manager.rs, manager/queue.rs).
THEOREM NoGaps == Spec => [](~Preemptive \/ NoFailure => NoGapInLog)
<1>1. OrderInv /\ (~Preemptive \/ NoFailure) => NoGapInLog
  <2> SUFFICES ASSUME OrderInv, ~Preemptive \/ NoFailure PROVE NoGapInLog
    OBVIOUS
  <2>1. /\ accepted \in Seq(Update) /\ log \in Seq(Update) /\ queue \in Seq(Update)
        /\ batch \in Seq(Update) /\ InCallOrder(accepted) /\ NothingIsLost
    BY DEF OrderInv, OnceInv, OnceEach, LogInv, TokenInv, TypedInv, TypeInvariant, TypeOK
  <2>2. LogIsPrefix
    <3>1. CASE ~Preemptive
      BY <3>1 DEF OrderInv
    <3>2. CASE NoFailure
      <4>1. Unrecorded \in Seq(Update)
        BY <2>1, EmptySeq DEF Unrecorded
      <4>2. accepted = log \o Unrecorded \o queue
        BY <2>1, <3>2 DEF NothingIsLost
      <4>3. accepted = log \o (Unrecorded \o queue)
        BY <2>1, <4>1, <4>2, ConcatAssociative
      <4> QED
        BY <2>1, <4>1, <4>3, ConcatProperties DEF LogIsPrefix
    <3> QED
      BY <3>1, <3>2
  <2>3. PICK rest \in Seq(Update) : accepted = log \o rest
    BY <2>2 DEF LogIsPrefix
  <2> QED
    BY <2>1, <2>3, PrefixHasNoGap DEF NoGapInLog, Recorded
<1> QED
  BY <1>1, OrderInit, OrderNext, PTL DEF Spec

-----------------------------------------------------------------------------
(***************************************************************************)
(* When nothing can go wrong.  If the service answers every request that   *)
(* carries the right token, and no task refreshes the state next to the    *)
(* worker (force_checkpoint), then no batch is ever refused: what was      *)
(* proved for as long as nothing fails holds in every execution.           *)
(***************************************************************************)
NoRefresh == \A t \in Task : \A k \in DOMAIN Program[t] : "Refresh" \notin Program[t][k].actions

Smooth ==
  /\ lost = {}
  /\ worker \notin {"failing", "draining", "terminating"}
  /\ \A t \in Task : rpc[t].st = "none"
  /\ rpc[Worker].st # "err"
  /\ rpc[Worker].st # "ok" => token = serviceToken
  /\ rpc[Worker].st # "none" => rpc[Worker].token = serviceToken

SmoothInv == TokenInv /\ Smooth

\* A call that is due is a call of the program.
LEMMA ReadyPosition ==
  ASSUME TypeOK, NEW t \in Task, Ready(t)
  PROVE  pos[t] \in DOMAIN Program[t]
<1>1. pos[t] \in Nat \ {0} /\ pos[t] <= Len(Program[t])
  BY DEF TypeOK, Ready
<1>2. Program[t] \in Seq(Call)
  BY ProgramAssumption
<1>3. DOMAIN Program[t] = 1..Len(Program[t]) /\ Len(Program[t]) \in Nat
  BY <1>2, LenProperties
<1> QED
  BY <1>1, <1>3

LEMMA SmoothInit == HandlerInit => Smooth
  BY DEF HandlerInit, Init, Idle, Smooth

LEMMA SmoothStep ==
  ASSUME ~CanFail, NoRefresh, SmoothInv, [Next]_vars
  PROVE  Smooth'
<1> USE DEF Smooth
<1>a. /\ rpc \in [Requester -> Rpc] /\ Worker \in Requester /\ token \in Nat
      /\ serviceToken \in Nat /\ OneBatchInFlight /\ Smooth
      /\ \A t \in Task : t \in Requester /\ t # Worker /\ pos[t] \in Nat \ {0}
      /\ \A t \in Task : Program[t] \in Seq(Call)
  BY ActorAssumption, ProgramAssumption
     DEF SmoothInv, TokenInv, TypedInv, TypeInvariant, TypeOK, Requester
<1>1. ASSUME NEW t \in Task, TaskStep(t) \/ TaskEnds(t) PROVE Smooth'
  <2>1. ~ForceCheckpoint(t)
    BY ReadyPosition DEF ForceCheckpoint, CurrentCall, NoRefresh, SmoothInv, TokenInv,
       TypedInv, TypeInvariant
  <2>2. ~ForceCheckpointReturns(t)
    BY <1>a DEF ForceCheckpointReturns
  <2>3. UNCHANGED <<lost, rpc, token, serviceToken>> /\ worker' \in {worker, "build"}
    BY <1>1, <2>1, <2>2 DEF TaskStep, EnterCheckpoint, Enqueue, StartProcessing,
       CheckpointReturns, SuspendForRetry, Suspend, TaskEnds, Drop, notifyVars,
       ioVars, serviceVars, workerVars
  <2> QED
    BY <1>a, <2>3
<1>2. ASSUME WorkerStep PROVE Smooth'
  <2>1. CASE TakeBatch
    <3>1. /\ rpc' = [rpc EXCEPT ![Worker] = [st |-> "sent", token |-> token]]
          /\ worker' = "sending" /\ UNCHANGED <<lost, token, serviceToken>>
          /\ rpc[Worker].st = "none"
      BY <1>a, <2>1 DEF TakeBatch, notifyVars, serviceVars, OneBatchInFlight
    <3>2. rpc'[Worker].st = "sent" /\ rpc'[Worker].token = token
      BY <1>a, <3>1
    <3>3. \A t \in Task : rpc'[t] = rpc[t]
      BY <1>a, <3>1
    <3> QED
      BY <1>a, <3>1, <3>2, <3>3
  <2>2. CASE BatchAcknowledged
    <3>1. /\ rpc' = [rpc EXCEPT ![Worker] = Idle] /\ token' = rpc[Worker].token
          /\ worker' = "release" /\ UNCHANGED <<lost, serviceToken>>
          /\ rpc[Worker].st = "ok"
      BY <2>2 DEF BatchAcknowledged, TakeResponse, notifyVars, serviceVars
    <3>2. rpc'[Worker].st = "none" /\ \A t \in Task : rpc'[t] = rpc[t]
      BY <1>a, <3>1 DEF Idle
    <3> QED
      BY <1>a, <3>1, <3>2
  <2>3. CASE FindQueueEmpty \/ ReleaseBatch \/ CheckRetryWaiting \/ CooldownElapsed
               \/ StopProcessing
    BY <1>a, <2>3 DEF FindQueueEmpty, ReleaseBatch, CheckRetryWaiting, CooldownElapsed,
       StopProcessing, ioVars, serviceVars, notifyVars
  <2>4. ~BatchFailed /\ ~ReleaseFailedBatch /\ ~DrainQueue /\ ~TerminateForFailure
    BY <1>a DEF BatchFailed, ReleaseFailedBatch, DrainQueue, TerminateForFailure
  <2> QED
    BY <1>2, <2>1, <2>2, <2>3, <2>4 DEF WorkerStep
<1>3. ASSUME ServiceStep PROVE Smooth'
  <2>1. PICK r \in Requester : ServiceAccepts(r) \/ ServiceRefuses(r) \/ ResponseLost(r)
    BY <1>3 DEF ServiceStep, Requester
  <2>2. rpc[r].st = "sent"
    BY <2>1 DEF ServiceAccepts, ServiceRefuses, ResponseLost
  <2>3. r = Worker
    BY <1>a, <2>2 DEF Requester
  <2>4. ServiceAccepts(Worker)
    BY <1>a, <2>1, <2>3 DEF ServiceRefuses, ResponseLost
  <2>5. /\ rpc' = [rpc EXCEPT ![Worker] = [st |-> "ok", token |-> serviceToken + 1]]
        /\ serviceToken' = serviceToken + 1 /\ UNCHANGED <<lost, worker>>
    BY <1>3, <2>4 DEF ServiceAccepts, Record, ServiceStep, notifyVars, workerVars
  <2>6. rpc'[Worker].st = "ok" /\ rpc'[Worker].token = serviceToken'
    BY <1>a, <2>5
  <2>7. \A t \in Task : rpc'[t] = rpc[t]
    BY <1>a, <2>5
  <2> QED
    BY <1>a, <2>5, <2>6, <2>7
<1>4. ASSUME RuntimeStep \/ UNCHANGED vars PROVE Smooth'
  <2>1. UNCHANGED <<lost, worker, rpc, token, serviceToken>>
    BY <1>4 DEF RuntimeStep, HandlerReturns, TerminationWins, ArmNotification, CheckQueue,
       NotificationArrives, CheckpointLargeResult, LargeResultCheckpointed, Respond, vars,
       managerVars, quietVars, ioVars, serviceVars, workerVars, notifyVars
  <2> QED
    BY <1>a, <2>1
<1> QED
  BY <1>1, <1>2, <1>3, <1>4 DEF Next

\* The checks of the token never turn the worker's own requests away: with a service that
\* answers, and no refresh next to the worker, no update is lost.
THEOREM NothingFails ==
  ASSUME ~CanFail, NoRefresh PROVE Spec => []NoFailure
<1>1. HandlerInit => SmoothInv
  BY TokenInit, SmoothInit DEF SmoothInv
<1>2. SmoothInv /\ [Next]_vars => SmoothInv'
  BY TokenNext, SmoothStep DEF SmoothInv
<1>3. SmoothInv => NoFailure
  BY DEF SmoothInv, Smooth, NoFailure
<1> QED
  BY <1>1, <1>2, <1>3, PTL DEF Spec

\* In that setting the manager implements its promise in every execution, whatever the
\* tasks, the scheduler and the cutting of the queue into batches.
THEOREM PromiseKept ==
  ASSUME ~CanFail, NoRefresh PROVE Spec => ImplementsDurableLog
<1>1. Spec => []NoFailure
  BY NothingFails
<1>2. Spec /\ []NoFailure => ImplementsDurableLog
  BY LogImplementsPromise
<1> QED
  BY <1>1, <1>2

-----------------------------------------------------------------------------
(***************************************************************************)
(* A successful output is durable.  Every call a task has left behind was  *)
(* accepted; the runtime answers when the queue and the worker are quiet,  *)
(* and then what was accepted is recorded, unless some of it was lost.     *)
(***************************************************************************)
IsIn(us, t, k) == \E u \in Updates(us) : u.task = t /\ u.call = k

PassedCalls ==
  \A t \in Task :
    /\ \A k \in DOMAIN Program[t] : k < pos[t] /\ Checkpoints(t, k) => IsIn(accepted, t, k)
    /\ pc[t] \in {"pushed", "waiting"} => IsIn(accepted, t, pos[t])
    /\ pc[t] = "refreshing" => "Refresh" \in CurrentCall(t).actions

HasResult == result \in {"ok", "large", "unwritable", "err"}

JoinedDone == HasResult => \A t \in Joined : Finished(t)

JoinedRecorded ==
  lost = {} /\ HasResult /\ rt \in {"reply", "largeResult", "returned"} =>
    \A t \in Joined : \A k \in DOMAIN Program[t] : Checkpoints(t, k) => IsIn(log, t, k)

Answered == /\ output # "none" => rt = "returned"
            /\ output = "Succeeded" => result \in {"ok", "large"}

DurableInv == LogInv /\ PassedCalls /\ JoinedDone /\ JoinedRecorded /\ Answered

\* What was accepted, recorded or lost stays so.
LEMMA HistoryGrows ==
  ASSUME LogInv, [Next]_vars
  PROVE  /\ Updates(accepted) \subseteq Updates(accepted')
         /\ Updates(log) \subseteq Updates(log')
         /\ lost \subseteq lost'
<1>a. /\ accepted \in Seq(Update) /\ log \in Seq(Update) /\ batch \in Seq(Update)
      /\ <<>> \in Seq(Update)
  BY EmptySeq DEF LogInv, TokenInv, TypedInv, TypeInvariant, TypeOK
<1>1. ASSUME NEW t \in Task, TaskStep(t) \/ TaskEnds(t)
      PROVE  /\ Updates(accepted) \subseteq Updates(accepted')
             /\ log' = log /\ lost' = lost
  <2>1. CASE Enqueue(t)
    <3>1. accepted' = Append(accepted, CurrentUpdate(t)) /\ log' = log /\ lost' = lost
      BY <2>1 DEF Enqueue, ioVars, serviceVars, notifyVars
    <3>2. CurrentUpdate(t) \in Update
      BY <2>1, EnqueuedIsLater
    <3>3. Updates(accepted') = Updates(accepted) \cup {CurrentUpdate(t)}
      BY <1>a, <3>1, <3>2, UpdatesOfAppend
    <3> QED
      BY <3>1, <3>3
  <2>2. CASE ~Enqueue(t)
    <3>1. accepted' = accepted /\ log' = log /\ lost' = lost
      BY <1>1, <2>2 DEF TaskStep, EnterCheckpoint, StartProcessing, CheckpointReturns,
         SuspendForRetry, Suspend, ForceCheckpoint, ForceCheckpointReturns, TaskEnds, Drop,
         queueVars, ioVars, serviceVars, notifyVars
    <3> QED
      BY <3>1
  <2> QED
    BY <2>1, <2>2
<1>2. ASSUME WorkerStep PROVE accepted' = accepted /\ log' = log /\ lost \subseteq lost'
  BY <1>2 DEF WorkerStep, TakeBatch, FindQueueEmpty, BatchAcknowledged, ReleaseBatch,
     BatchFailed, ReleaseFailedBatch, DrainQueue, TerminateForFailure, CheckRetryWaiting,
     CooldownElapsed, StopProcessing, queueVars, ioVars, serviceVars, notifyVars
<1>3. ASSUME ServiceStep
      PROVE  accepted' = accepted /\ lost' = lost /\ Updates(log) \subseteq Updates(log')
  <2>1. PICK r \in Requester : ServiceAccepts(r) \/ ServiceRefuses(r) \/ ResponseLost(r)
    BY <1>3 DEF ServiceStep, Requester
  <2>2. log' = log \/ (log' = log \o Request(r) /\ Request(r) \in Seq(Update))
    BY <1>a, <2>1 DEF ServiceAccepts, ServiceRefuses, ResponseLost, Record, serviceVars,
       Request
  <2>3. Updates(log) \subseteq Updates(log')
    <3>1. CASE log' = log
      BY <3>1
    <3>2. CASE log' = log \o Request(r) /\ Request(r) \in Seq(Update)
      <4>1. Updates(log \o Request(r)) = Updates(log) \cup Updates(Request(r))
        BY <1>a, <3>2, UpdatesOfConcat
      <4> QED
        BY <3>2, <4>1
    <3> QED
      BY <2>2, <3>1, <3>2
  <2> QED
    BY <1>3, <2>3 DEF ServiceStep, queueVars, notifyVars
<1>4. ASSUME RuntimeStep \/ UNCHANGED vars
      PROVE  accepted' = accepted /\ log' = log /\ lost' = lost
  BY <1>4 DEF RuntimeStep, HandlerReturns, TerminationWins, ArmNotification, CheckQueue,
     NotificationArrives, CheckpointLargeResult, LargeResultCheckpointed, Respond, vars,
     managerVars, quietVars, ioVars, serviceVars, queueVars, notifyVars
<1> QED
  BY <1>1, <1>2, <1>3, <1>4 DEF Next

\* A task that has come to its end stays there.
LEMMA FinishedStays ==
  ASSUME TypeOK, NEW t \in Task, Finished(t), [Next]_vars
  PROVE  Finished(t)'
<1>a. pos[t] \in Nat /\ Len(Program[t]) \in Nat /\ pc \in [Task -> TaskPc]
  BY ProgramAssumption DEF TypeOK
<1>1. ASSUME NEW s \in Task, TaskStep(s) \/ TaskEnds(s) PROVE Finished(t)'
  <2>1. CASE s # t
    BY <1>1, <2>1, OthersStay DEF Finished
  <2>2. CASE s = t
    <3>1. ~Ready(t)
      BY <1>a DEF Ready, Finished
    <3> QED
      BY <1>1, <2>2, <3>1 DEF Finished, TaskStep, EnterCheckpoint, Enqueue,
         StartProcessing, CheckpointReturns, SuspendForRetry, Suspend, ForceCheckpoint,
         ForceCheckpointReturns, TaskEnds, Drop
  <2> QED
    BY <2>1, <2>2
<1>2. ASSUME WorkerStep \/ ServiceStep \/ UNCHANGED vars PROVE Finished(t)'
  BY <1>2 DEF Finished, WorkerStep, TakeBatch, FindQueueEmpty, BatchAcknowledged,
     ReleaseBatch, BatchFailed, ReleaseFailedBatch, DrainQueue, TerminateForFailure,
     CheckRetryWaiting, CooldownElapsed, StopProcessing, ServiceStep, vars, managerVars,
     quietVars, taskVars
<1>3. ASSUME RuntimeStep PROVE Finished(t)'
  BY <1>a, <1>3 DEF Finished, RuntimeStep, HandlerReturns, TerminationWins,
     ArmNotification, CheckQueue, NotificationArrives, CheckpointLargeResult,
     LargeResultCheckpointed, Respond, quietVars, taskVars
<1> QED
  BY <1>1, <1>2, <1>3 DEF Next

LEMMA DurableInit == HandlerInit => PassedCalls /\ JoinedDone /\ JoinedRecorded /\ Answered
<1> SUFFICES ASSUME HandlerInit
             PROVE  PassedCalls /\ JoinedDone /\ JoinedRecorded /\ Answered
  OBVIOUS
<1>1. result = "none" /\ output = "none"
  BY DEF HandlerInit
<1>2. PassedCalls
  <2>1. \A t \in Task : pos[t] = 1 /\ pc[t] \in {"unborn", "body"}
    BY DEF HandlerInit, Init
  <2>2. \A t \in Task : \A k \in DOMAIN Program[t] : ~(k < 1)
    BY ProgramAssumption
  <2> QED
    BY <2>1, <2>2 DEF PassedCalls
<1> QED
  BY <1>1, <1>2 DEF JoinedDone, JoinedRecorded, Answered, HasResult

LEMMA PassedFrom ==
  ASSUME \A t \in Task :
           /\ \A k \in DOMAIN Program[t] :
                k < pos'[t] /\ Checkpoints(t, k) => IsIn(accepted', t, k)
           /\ pc'[t] \in {"pushed", "waiting"} => IsIn(accepted', t, pos'[t])
           /\ pc'[t] = "refreshing" => "Refresh" \in Program[t][pos'[t]].actions
  PROVE  PassedCalls'
  BY DEF PassedCalls, IsIn, Updates, CurrentCall

LEMMA PassedStep ==
  ASSUME RefreshAlone, LogInv, PassedCalls, [Next]_vars
  PROVE  PassedCalls'
<1>a. /\ TypeOK /\ InCall /\ MainIsIdle /\ pc \in [Task -> TaskPc]
      /\ pos \in [Task -> Nat \ {0}] /\ accepted \in Seq(Update)
      /\ \A t \in Task : Program[t] \in Seq(Call)
  BY ProgramAssumption DEF LogInv, TokenInv, TypedInv, TypeInvariant, TypeOK
<1>b. \A t, k : IsIn(accepted, t, k) => IsIn(accepted', t, k)
  BY HistoryGrows DEF IsIn
<1> DEFINE Holds(t) ==
      /\ \A k \in DOMAIN Program[t] :
           k < pos'[t] /\ Checkpoints(t, k) => IsIn(accepted', t, k)
      /\ pc'[t] \in {"pushed", "waiting"} => IsIn(accepted', t, pos'[t])
      /\ pc'[t] = "refreshing" => "Refresh" \in Program[t][pos'[t]].actions
<1>c. ASSUME NEW t \in Task, pc'[t] = pc[t], pos'[t] = pos[t] PROVE Holds(t)
  BY <1>b, <1>c DEF PassedCalls, CurrentCall
<1>d. ASSUME NEW t \in Task, pos'[t] = pos[t],
             pc'[t] \notin {"pushed", "waiting", "refreshing"}
      PROVE  Holds(t)
  BY <1>b, <1>d DEF PassedCalls
<1>e. ASSUME NEW t \in Task, pos'[t] = pos[t] + 1,
             pc'[t] \notin {"pushed", "waiting", "refreshing"},
             Checkpoints(t, pos[t]) => IsIn(accepted, t, pos[t])
      PROVE  Holds(t)
  <2>1. pos[t] \in Nat /\ DOMAIN Program[t] \subseteq Nat
    BY <1>a
  <2>2. \A k \in DOMAIN Program[t] : k < pos'[t] => k < pos[t] \/ k = pos[t]
    BY <1>e, <2>1
  <2> QED
    BY <1>b, <1>e, <2>2 DEF PassedCalls
<1>1. ASSUME NEW t \in Task, TaskStep(t) \/ TaskEnds(t) PROVE Holds(t)
  <2>1. CASE Enqueue(t)
    <3>1. /\ accepted' = Append(accepted, CurrentUpdate(t)) /\ pos' = pos
          /\ pc'[t] = "pushed" /\ CurrentUpdate(t).task = t /\ CurrentUpdate(t).call = pos[t]
      BY <1>a, <2>1 DEF Enqueue, CurrentUpdate
    <3>2. CurrentUpdate(t) \in Update
      BY <2>1, EnqueuedIsLater
    <3>3. Updates(accepted') = Updates(accepted) \cup {CurrentUpdate(t)}
      BY <1>a, <3>1, <3>2, UpdatesOfAppend
    <3>4. IsIn(accepted', t, pos[t])
      BY <3>1, <3>3 DEF IsIn
    <3> QED
      BY <1>b, <3>1, <3>4 DEF PassedCalls
  <2>2. CASE StartProcessing(t)
    <3>1. IsIn(accepted, t, pos[t])
      BY <2>2 DEF StartProcessing, PassedCalls
    <3>2. CASE pos' = pos /\ pc'[t] = "waiting"
      BY <1>b, <3>1, <3>2 DEF PassedCalls
    <3>3. CASE pos'[t] = pos[t] + 1 /\ pc'[t] = "body"
      BY <1>e, <3>1, <3>3
    <3> QED
      BY <1>a, <2>2, <3>2, <3>3 DEF StartProcessing
  <2>3. CASE CheckpointReturns(t)
    <3>1. /\ pos'[t] = pos[t] + 1 /\ pc[t] = "waiting"
          /\ pc'[t] \notin {"pushed", "waiting", "refreshing"}
      BY <1>a, <2>3 DEF CheckpointReturns
    <3> QED
      BY <1>e, <3>1 DEF PassedCalls
  <2>4. CASE ForceCheckpoint(t)
    <3>1. pc'[t] = "refreshing" /\ pos' = pos /\ "Refresh" \in Program[t][pos[t]].actions
      BY <1>a, <2>4 DEF ForceCheckpoint, CurrentCall
    <3> QED
      BY <1>b, <3>1 DEF PassedCalls
  <2>5. CASE ForceCheckpointReturns(t)
    <3>1. pc[t] = "refreshing" /\ pos'[t] = pos[t] + 1 /\ pc'[t] = "body"
      BY <1>a, <2>5 DEF ForceCheckpointReturns
    <3>2. pos[t] \in DOMAIN Program[t] /\ "Refresh" \in Program[t][pos[t]].actions
      BY <1>a, <3>1 DEF PassedCalls, CurrentCall, InCall
    <3> QED
      BY <1>e, <3>1, <3>2 DEF RefreshAlone
  <2>6. CASE pos' = pos /\ pc'[t] \in {"tracked", "parked", "dropped"}
    BY <1>d, <2>6
  <2>7. ASSUME \/ \E a \in Checkpointed : EnterCheckpoint(t, a)
               \/ SuspendForRetry(t)
               \/ \E a \in LocalAction : Suspend(t, a)
               \/ TaskEnds(t)
        PROVE  pos' = pos /\ pc'[t] \in {"tracked", "parked", "dropped"}
    BY <1>a, <2>7 DEF EnterCheckpoint, SuspendForRetry, Suspend, TaskEnds, Drop
  <2> HIDE DEF Holds
  <2> QED
    BY <1>1, <2>1, <2>2, <2>3, <2>4, <2>5, <2>6, <2>7 DEF TaskStep
<1>2. ASSUME NEW t \in Task, TaskStep(t) \/ TaskEnds(t), NEW s \in Task \ {t} PROVE Holds(s)
  BY <1>a, <1>c, <1>2, OthersStay
<1>3. ASSUME WorkerStep \/ ServiceStep \/ UNCHANGED vars PROVE UNCHANGED <<pc, pos>>
  BY <1>3 DEF WorkerStep, TakeBatch, FindQueueEmpty, BatchAcknowledged, ReleaseBatch,
     BatchFailed, ReleaseFailedBatch, DrainQueue, TerminateForFailure, CheckRetryWaiting,
     CooldownElapsed, StopProcessing, ServiceStep, vars, managerVars, quietVars, taskVars
<1>4. ASSUME RuntimeStep, NEW t \in Task PROVE Holds(t)
  <2>1. pos' = pos
    BY <1>4 DEF RuntimeStep, HandlerReturns, TerminationWins, ArmNotification, CheckQueue,
       NotificationArrives, CheckpointLargeResult, LargeResultCheckpointed, Respond,
       quietVars, taskVars
  <2>2. pc'[t] = pc[t] \/ pc'[t] = "body"
    BY <1>a, <1>4 DEF RuntimeStep, HandlerReturns, TerminationWins, ArmNotification,
       CheckQueue, NotificationArrives, CheckpointLargeResult, LargeResultCheckpointed,
       Respond, quietVars, taskVars
  <2> QED
    BY <1>c, <1>d, <2>1, <2>2
<1>5. \A t \in Task : Holds(t)
  <2> HIDE DEF Holds
  <2> QED
    BY <1>1, <1>2, <1>3, <1>4, <1>c DEF Next
<1> QED
  BY <1>5, PassedFrom

\* Only the runtime's own steps change where it is, what it chose and what it answered.
LEMMA RuntimeAlone ==
  ASSUME [Next]_vars, ~RuntimeStep
  PROVE  UNCHANGED <<rt, result, output>>
  BY DEF Next, vars, handlerVars

LEMMA JoinedStep ==
  ASSUME LogInv, JoinedDone, [Next]_vars
  PROVE  JoinedDone'
<1>a. TypeOK /\ Joined \subseteq Task
  BY HandlerAssumption DEF LogInv, TokenInv, TypedInv, TypeInvariant
<1>1. (\A t \in Joined : Finished(t)) => \A t \in Joined : Finished(t)'
  BY <1>a, FinishedStays
<1>2. CASE \E r \in Returns : HandlerReturns(r)
  <2>1. \A t \in Joined : Finished(t)
    BY <1>2 DEF HandlerReturns
  <2> QED
    BY <1>1, <2>1 DEF JoinedDone
<1>3. CASE TerminationWins
  BY <1>3 DEF TerminationWins, JoinedDone, HasResult
<1>4. CASE ~TerminationWins /\ ~\E r \in Returns : HandlerReturns(r)
  <2>1. result' = result
    BY <1>4, RuntimeAlone DEF RuntimeStep, ArmNotification, CheckQueue,
       NotificationArrives, CheckpointLargeResult, LargeResultCheckpointed, Respond
  <2> QED
    BY <1>1, <2>1 DEF JoinedDone, HasResult
<1> QED
  BY <1>2, <1>3, <1>4

\* Once the queue and the worker are quiet, what was accepted is recorded.
LEMMA QuietIsRecorded ==
  ASSUME LogInv, QueueQuiet, lost = {}
  PROVE  accepted = log
<1>1. /\ queue = <<>> /\ worker = "none" /\ rpc[Worker].st = "none" /\ log \in Seq(Update)
  BY DEF QueueQuiet, LogInv, TokenInv, OneBatchInFlight, TypedInv, TypeInvariant, TypeOK
<1>2. NoFailure /\ Unrecorded = <<>>
  BY <1>1 DEF NoFailure, Unrecorded
<1>3. accepted = log \o <<>> \o <<>>
  BY <1>1, <1>2 DEF LogInv, NothingIsLost
<1> QED
  BY <1>1, <1>3, ConcatEmptySeq

LEMMA RecordedFrom ==
  ASSUME lost' = {} /\ HasResult' /\ rt' \in {"reply", "largeResult", "returned"} =>
           \A t \in Joined : \A k \in DOMAIN Program[t] : Checkpoints(t, k) => IsIn(log', t, k)
  PROVE  JoinedRecorded'
  BY DEF JoinedRecorded, IsIn, Updates

LEMMA RecordedStep ==
  ASSUME LogInv, PassedCalls, JoinedDone, JoinedRecorded, [Next]_vars
  PROVE  JoinedRecorded'
<1> SUFFICES ASSUME lost' = {}, HasResult', rt' \in {"reply", "largeResult", "returned"}
             PROVE  \A t \in Joined : \A k \in DOMAIN Program[t] :
                      Checkpoints(t, k) => IsIn(log', t, k)
  BY RecordedFrom
<1>a. lost = {} /\ \A t, k : IsIn(log, t, k) => IsIn(log', t, k)
  BY HistoryGrows DEF IsIn
<1>1. CASE HasResult /\ rt \in {"reply", "largeResult", "returned"}
  BY <1>a, <1>1 DEF JoinedRecorded
<1>2. CASE CheckQueue
  <2>1. QueueQuiet /\ result' = result
    BY <1>2 DEF CheckQueue
  <2>2. accepted = log /\ \A t \in Joined : Finished(t)
    BY <1>a, <2>1, QuietIsRecorded DEF JoinedDone, HasResult
  <2>3. ASSUME NEW t \in Joined, NEW k \in DOMAIN Program[t], Checkpoints(t, k)
        PROVE  IsIn(log, t, k)
    <3>1. t \in Task /\ pos[t] \in Nat /\ Program[t] \in Seq(Call) /\ pos[t] > Len(Program[t])
      BY <2>2, HandlerAssumption, ProgramAssumption
         DEF Finished, LogInv, TokenInv, TypedInv, TypeInvariant, TypeOK
    <3>2. k < pos[t]
      BY <3>1
    <3>3. IsIn(accepted, t, k)
      BY <2>3, <3>1, <3>2 DEF PassedCalls
    <3> QED
      BY <2>2, <3>3
  <2> QED
    BY <1>a, <2>3
<1>3. CASE RuntimeStep /\ ~CheckQueue
  <2>1. result' = result /\ rt = "reply"
    BY <1>3 DEF RuntimeStep, HandlerReturns, TerminationWins, ArmNotification,
       NotificationArrives, CheckpointLargeResult, LargeResultCheckpointed, Respond
  <2> QED
    BY <1>1, <2>1 DEF HasResult
<1>4. CASE ~RuntimeStep
  BY <1>1, <1>4, RuntimeAlone DEF HasResult
<1> QED
  BY <1>2, <1>3, <1>4

LEMMA AnsweredStep ==
  ASSUME TypedInv, Answered, [Next]_vars
  PROVE  Answered'
<1>1. CASE Respond
  <2>1. result \in HandlerResult
    BY <1>1 DEF Respond, TypedInv, TypeInvariant, HandlerTypeOK, Chosen
  <2>2. OutputFor(result, terminated) = "Succeeded" => result \in {"ok", "large"}
    BY <2>1 DEF OutputFor, HandlerResult
  <2> QED
    BY <1>1, <2>2 DEF Respond, Answered
<1>2. CASE RuntimeStep /\ ~Respond
  <2>1. output' = output /\ rt # "returned"
    BY <1>2 DEF RuntimeStep, HandlerReturns, TerminationWins, ArmNotification, CheckQueue,
       NotificationArrives, CheckpointLargeResult, LargeResultCheckpointed
  <2> QED
    BY <2>1 DEF Answered
<1>3. CASE ~RuntimeStep
  BY <1>3, RuntimeAlone DEF Answered
<1> QED
  BY <1>1, <1>2, <1>3 DEF RuntimeStep

LEMMA LogInit == HandlerInit => LogInv
  BY TokenInit, NothingIsLostInit, NumberedInit DEF LogInv

LEMMA DurableNext ==
  ASSUME RefreshAlone, DurableInv, [Next]_vars
  PROVE  DurableInv'
<1>1. TypedInv
  BY DEF DurableInv, LogInv, TokenInv
<1> QED
  BY <1>1, LogNext, PassedStep, JoinedStep, RecordedStep, AnsweredStep DEF DurableInv

\* As long as no update was lost, an invocation that succeeds has recorded every update of
\* every task its handler awaited (runtime/handler/execute.rs, wait_for_queue_completion).
THEOREM SuccessIsDurable ==
  ASSUME RefreshAlone PROVE Spec => [](lost = {} => SucceededIsDurable)
<1>1. HandlerInit => DurableInv
  BY LogInit, DurableInit DEF DurableInv
<1>2. DurableInv /\ [Next]_vars => DurableInv'
  BY DurableNext
<1>3. DurableInv => (lost = {} => SucceededIsDurable)
  BY DEF DurableInv, Answered, JoinedRecorded, HasResult, SucceededIsDurable, IsIn,
     Recorded, Checkpoints
<1> QED
  BY <1>1, <1>2, <1>3, PTL DEF Spec

\* When the service answers and no task refreshes, a success is durable in every execution.
THEOREM SuccessAlwaysDurable ==
  ASSUME ~CanFail, NoRefresh PROVE Spec => []SucceededIsDurable
<1>1. RefreshAlone
  BY DEF NoRefresh, RefreshAlone
<1>2. Spec => [](lost = {} => SucceededIsDurable)
  BY <1>1, SuccessIsDurable
<1>3. Spec => []NoFailure
  BY NothingFails
<1>4. NoFailure => lost = {}
  BY DEF NoFailure
<1> QED
  BY <1>2, <1>3, <1>4, PTL

-----------------------------------------------------------------------------
(***************************************************************************)
(* Nothing after the output.  On a current-thread runtime nobody acts      *)
(* between the look at the quiet queue and the output; after it a task may *)
(* go on only if the handler did not await it, or finds the manager        *)
(* terminating.  A handler that returns without awaiting a task which then *)
(* records something is left out (AwaitsRecorders).                        *)
(***************************************************************************)
AwaitsRecorders ==
  \A t \in Task \ (Joined \cup {Main}) : \A k \in DOMAIN Program[t] : ~Checkpoints(t, k)

QuietReply == rt = "reply" => QueueQuiet /\ running = Main

NobodyRecords ==
  /\ \A t \in Task : ~IsInside(t)
  /\ isTerminating \/ \A t \in Joined : Finished(t)

\* The handler was waited for with all its recorders, or termination won the race.
NobodyIsLeft == AwaitsRecorders \/ result = "terminated"

Silent == output # "none" /\ NobodyIsLeft => QueueQuiet /\ NobodyRecords

SilentInv ==
  /\ LogInv /\ Told /\ Inside /\ JoinedDone /\ Answered
  /\ result = "terminated" => isTerminating
  /\ QuietReply
  /\ Silent

SilentStep == output # "none" /\ NobodyIsLeft => log' = log /\ queue' = queue

\* Once terminating, always terminating.
LEMMA TerminatingStays ==
  ASSUME [Next]_vars, isTerminating
  PROVE  isTerminating'
<1>1. CASE UNCHANGED terminationVars
  BY <1>1 DEF terminationVars
<1>2. ASSUME NEW reason, Terminate(reason) PROVE isTerminating'
  BY <1>2 DEF Terminate, terminationVars
<1>3. ASSUME NEW t \in Task, TaskStep(t) \/ TaskEnds(t) PROVE isTerminating'
  BY <1>1, <1>2, <1>3 DEF TaskStep, EnterCheckpoint, Enqueue, StartProcessing,
     CheckpointReturns, SuspendForRetry, Suspend, ForceCheckpoint,
     ForceCheckpointReturns, TaskEnds, Drop
<1>4. ASSUME WorkerStep PROVE isTerminating'
  BY <1>1, <1>2, <1>4 DEF WorkerStep, TakeBatch, FindQueueEmpty, BatchAcknowledged,
     ReleaseBatch, BatchFailed, ReleaseFailedBatch, DrainQueue, TerminateForFailure,
     CheckRetryWaiting, CooldownElapsed, StopProcessing
<1>5. ASSUME ServiceStep \/ RuntimeStep \/ UNCHANGED vars PROVE UNCHANGED terminationVars
  BY <1>5 DEF ServiceStep, RuntimeStep, HandlerReturns, TerminationWins, ArmNotification,
     CheckQueue, NotificationArrives, CheckpointLargeResult, LargeResultCheckpointed,
     Respond, vars, managerVars, quietVars
<1> QED
  BY <1>1, <1>3, <1>4, <1>5 DEF Next

\* While its result is not being checkpointed, the Main task does nothing.
LEMMA MainRests ==
  ASSUME TypeOK, MainIsIdle, rt # "largeResult"
  PROVE  ~TaskStep(Main) /\ ~TaskEnds(Main) /\ ~IsInside(Main)
<1>1. /\ pc[Main] = "unborn" \/ Finished(Main)
      /\ pos[Main] \in Nat /\ Len(Program[Main]) \in Nat
  BY ActorAssumption, ProgramAssumption DEF TypeOK, MainIsIdle
<1>2. ~Ready(Main) /\ pc[Main] \in {"unborn", "body"}
  BY <1>1 DEF Ready, Finished
<1> QED
  BY <1>2 DEF IsInside, TaskEnds, TaskStep, EnterCheckpoint, Enqueue, StartProcessing,
     CheckpointReturns, SuspendForRetry, Suspend, ForceCheckpoint, ForceCheckpointReturns

LEMMA QuietReplyStep ==
  ASSUME ~Preemptive, LogInv, QuietReply, [Next]_vars
  PROVE  QuietReply'
<1>a. TypeOK /\ MainIsIdle /\ Main \notin {Nobody, Worker} /\ Main \in Task
  BY ActorAssumption DEF LogInv, TokenInv, TypedInv, TypeInvariant
<1> SUFFICES ASSUME rt' = "reply" PROVE QueueQuiet' /\ running' = Main
  BY DEF QuietReply
<1>1. CASE CheckQueue
  BY <1>1 DEF CheckQueue, Step, QueueQuiet, quietVars, queueVars, workerVars
<1>2. CASE ~CheckQueue
  <2>1. rt = "reply" /\ ~RuntimeStep
    BY <1>2, RuntimeAlone DEF RuntimeStep, HandlerReturns, TerminationWins,
       ArmNotification, NotificationArrives, CheckpointLargeResult,
       LargeResultCheckpointed, Respond
  <2>2. QueueQuiet /\ running = Main
    BY <2>1 DEF QuietReply
  <2>3. ~WorkerStep
    BY <1>a, <2>2, Holder
  <2>4. \A t \in Task : ~TaskStep(t) /\ ~TaskEnds(t)
    BY <1>a, <2>1, <2>2, Holder, MainRests
  <2> QED
    BY <2>1, <2>2, <2>3, <2>4 DEF Next, ServiceStep, vars, managerVars, quietVars,
       queueVars, workerVars, QueueQuiet
<1> QED
  BY <1>1, <1>2

\* After the output the tasks and the worker leave the queue alone.
LEMMA AfterOutput ==
  ASSUME SilentInv, NobodyIsLeft, output # "none", [Next]_vars
  PROVE  QueueQuiet' /\ NobodyRecords' /\ log' = log /\ queue' = queue
<1>a. /\ TypeOK /\ MainIsIdle /\ OneBatchInFlight /\ rt = "returned"
      /\ QueueQuiet /\ NobodyRecords
      /\ pc \in [Task -> TaskPc] /\ rpc \in [Requester -> Rpc] /\ Worker \in Requester
      /\ log \in Seq(Update)
  BY DEF SilentInv, LogInv, TokenInv, TypedInv, TypeInvariant, TypeOK, Answered, Silent,
         Requester
<1>b. worker = "none" /\ rpc[Worker].st = "none" /\ queue = <<>> /\ ~isProcessing
  BY <1>a DEF OneBatchInFlight, QueueQuiet
<1>c. (\A t \in Joined : Finished(t)) => \A t \in Joined : Finished(t)'
  BY <1>a, HandlerAssumption, FinishedStays
<1>d. isTerminating' \/ \A t \in Joined : Finished(t)'
  BY <1>a, <1>c, TerminatingStays DEF NobodyRecords
<1>1. ASSUME NEW t \in Task, NEW a \in Checkpointed, EnterCheckpoint(t, a)
      PROVE  isTerminating
  <2>1. Ready(t) /\ a \in CurrentCall(t).actions
    BY <1>1 DEF EnterCheckpoint
  <2>2. t # Main
    BY <1>a, <1>1, MainRests DEF TaskStep
  <2>3. pos[t] \in DOMAIN Program[t] /\ Checkpoints(t, pos[t])
    BY <1>a, <2>1, ReadyPosition DEF Checkpoints, CurrentCall
  <2>4. t \in Joined \/ isTerminating
    BY <2>2, <2>3 DEF AwaitsRecorders, NobodyIsLeft, SilentInv
  <2>5. ~Finished(t)
    <3>1. pos[t] <= Len(Program[t]) /\ pos[t] \in Nat /\ Len(Program[t]) \in Nat
      BY <1>a, <2>1, ProgramAssumption DEF Ready, TypeOK
    <3> QED
      BY <3>1 DEF Finished
  <2> QED
    BY <1>a, <2>4, <2>5 DEF NobodyRecords
<1>2. ASSUME NEW t \in Task, TaskStep(t) \/ TaskEnds(t)
      PROVE  UNCHANGED <<log, queue, isProcessing>> /\ \A s \in Task : ~IsInside(s)'
  <2>1. ~IsInside(t)
    BY <1>a DEF NobodyRecords
  <2>2. ~Enqueue(t) /\ ~StartProcessing(t)
    BY <2>1 DEF Enqueue, StartProcessing, IsInside
  <2>3. UNCHANGED <<log, queue, isProcessing>>
    BY <1>2, <2>2 DEF TaskStep, EnterCheckpoint, CheckpointReturns, SuspendForRetry,
       Suspend, ForceCheckpoint, ForceCheckpointReturns, TaskEnds, Drop, ioVars,
       serviceVars, queueVars, workerVars
  <2>4. ~IsInside(t)'
    <3>1. CASE \E a \in Checkpointed : EnterCheckpoint(t, a)
      BY <1>a, <1>1, <3>1 DEF EnterCheckpoint, IsInside
    <3>2. CASE ~\E a \in Checkpointed : EnterCheckpoint(t, a)
      BY <1>a, <1>2, <2>2, <3>2 DEF IsInside, TaskStep, CheckpointReturns,
         SuspendForRetry, Suspend, ForceCheckpoint, ForceCheckpointReturns, TaskEnds, Drop
    <3> QED
      BY <3>1, <3>2
  <2>5. \A s \in Task \ {t} : ~IsInside(s)'
    BY <1>a, <1>2, OthersStay DEF IsInside, NobodyRecords
  <2> QED
    BY <2>3, <2>4, <2>5
<1>3. ~WorkerStep
  BY <1>b DEF WorkerStep, TakeBatch, FindQueueEmpty, BatchAcknowledged, ReleaseBatch,
     BatchFailed, ReleaseFailedBatch, DrainQueue, TerminateForFailure, CheckRetryWaiting,
     CooldownElapsed, StopProcessing
<1>4. ~RuntimeStep
  BY <1>a DEF RuntimeStep, HandlerReturns, TerminationWins, ArmNotification, CheckQueue,
     NotificationArrives, CheckpointLargeResult, LargeResultCheckpointed, Respond
<1>5. ASSUME ServiceStep PROVE UNCHANGED <<log, queue, isProcessing, pc>>
  <2>1. PICK r \in Requester : ServiceAccepts(r) \/ ServiceRefuses(r) \/ ResponseLost(r)
    BY <1>5 DEF ServiceStep, Requester
  <2>2. r # Worker
    BY <1>b, <2>1 DEF ServiceAccepts, ServiceRefuses, ResponseLost
  <2>3. log' = log
    BY <1>a, <2>1, <2>2, ConcatEmptySeq DEF ServiceAccepts, ServiceRefuses, ResponseLost,
       Record, Request, serviceVars
  <2> QED
    BY <1>5, <2>3 DEF ServiceStep, queueVars, workerVars, taskVars
<1>6. ASSUME UNCHANGED vars PROVE UNCHANGED <<log, queue, isProcessing, pc>>
  BY <1>6 DEF vars, managerVars, quietVars, ioVars, serviceVars, queueVars, workerVars,
     taskVars
<1>7. UNCHANGED <<log, queue, isProcessing>> /\ \A s \in Task : ~IsInside(s)'
  BY <1>a, <1>2, <1>3, <1>4, <1>5, <1>6 DEF Next, NobodyRecords, IsInside
<1> QED
  BY <1>a, <1>d, <1>7 DEF NobodyRecords, QueueQuiet

LEMMA SilentNext ==
  ASSUME ~Preemptive, SilentInv, [Next]_vars
  PROVE  SilentInv' /\ SilentStep
<1> USE DEF SilentInv
<1>a. TokenInv /\ TypedInv /\ TypeOK /\ MainIsIdle /\ Main \in Task
  BY ActorAssumption DEF LogInv, TokenInv, TypedInv, TypeInvariant
<1>1. LogInv' /\ Told' /\ Inside' /\ JoinedDone' /\ Answered' /\ QuietReply'
  BY <1>a, LogNext, ToldStep, InsideStep, JoinedStep, AnsweredStep, QuietReplyStep
<1>2. (result = "terminated" => isTerminating)'
  <2>1. CASE TerminationWins
    BY <2>1 DEF TerminationWins, Told, quietVars, terminationVars
  <2>2. CASE ~TerminationWins
    <3>1. result' = "terminated" => result = "terminated"
      BY <2>2, RuntimeAlone, HandlerAssumption DEF RuntimeStep, HandlerReturns,
         ArmNotification, CheckQueue, NotificationArrives, CheckpointLargeResult,
         LargeResultCheckpointed, Respond
    <3> QED
      BY <3>1, TerminatingStays
  <2> QED
    BY <2>1, <2>2
<1>3. Silent'
  <2>1. CASE Respond
    <3>1. QueueQuiet /\ running = Main /\ rt = "reply"
      BY <2>1 DEF Respond, QuietReply
    <3>2. \A t \in Task : ~IsInside(t)
      BY <1>a, <3>1, MainRests DEF Inside
    <3>3. result \in HandlerResult
      BY <1>a, <3>1 DEF TypedInv, TypeInvariant, HandlerTypeOK, Chosen
    <3>4. isTerminating \/ \A t \in Joined : Finished(t)
      BY <3>3 DEF HandlerResult, JoinedDone, HasResult
    <3> QED
      BY <2>1, <3>1, <3>2, <3>4 DEF Respond, Silent, NobodyRecords, IsInside, Finished,
         QueueQuiet, quietVars, queueVars, workerVars, taskVars, terminationVars
  <2>2. CASE output # "none"
    <3>1. rt = "returned"
      BY <2>2 DEF Answered
    <3>2. result' = result
      BY <3>1, RuntimeAlone DEF RuntimeStep, HandlerReturns, TerminationWins,
         ArmNotification, CheckQueue, NotificationArrives, CheckpointLargeResult,
         LargeResultCheckpointed, Respond
    <3> QED
      BY <2>2, <3>2, AfterOutput DEF Silent, NobodyIsLeft
  <2>3. CASE ~Respond /\ output = "none"
    <3>1. output' = "none"
      BY <2>3, RuntimeAlone DEF RuntimeStep, HandlerReturns, TerminationWins,
         ArmNotification, CheckQueue, NotificationArrives, CheckpointLargeResult,
         LargeResultCheckpointed
    <3> QED
      BY <3>1 DEF Silent
  <2> QED
    BY <2>1, <2>2, <2>3
<1>4. SilentStep
  BY AfterOutput DEF SilentStep
<1> QED
  BY <1>1, <1>2, <1>3, <1>4

\* On a current-thread runtime nothing reaches the queue or the service's log once the
\* output is given (runtime/handler/execute.rs, wait_for_queue_completion).
THEOREM SilentAfterReturn ==
  ASSUME ~Preemptive, AwaitsRecorders PROVE Spec => NothingAfterReturn
<1>1. HandlerInit => SilentInv
  <2> SUFFICES ASSUME HandlerInit PROVE SilentInv
    OBVIOUS
  <2>1. LogInv /\ JoinedDone /\ Answered /\ Told /\ Inside
    BY LogInit, DurableInit, OrderInit DEF OrderInv
  <2>2. result = "none" /\ rt = "select" /\ output = "none"
    BY DEF HandlerInit
  <2> QED
    BY <2>1, <2>2 DEF SilentInv, QuietReply, Silent
<1>2. SilentInv /\ [Next]_vars => SilentInv' /\ SilentStep
  BY SilentNext
<1>3. SilentStep => [output # "none" => log' = log /\ queue' = queue]_vars
  BY DEF SilentStep, NobodyIsLeft
<1> QED
  BY <1>1, <1>2, <1>3, PTL DEF Spec, NothingAfterReturn

-----------------------------------------------------------------------------
(***************************************************************************)
(* Pending means resumable.  On a current-thread runtime every reason that *)
(* ends an invocation has left its trace: a retry is accepted, or about to *)
(* be by a task that cannot be dropped there, and a task that suspended is *)
(* parked at its call, after the update that started its operation.  The   *)
(* runtime answers when nobody is inside and all of it is recorded, so the *)
(* service's newest action on that operation is the one it resumes from.   *)
(***************************************************************************)
\* A task whose RETRY was accepted enqueues nothing more.
Enqueued ==
  \A t \in Task : pc[t] \in {"pushed", "waiting"} => CurrentUpdate(t) \in Updates(accepted)

Stops(u) ==
  /\ \A v \in Updates(accepted) : v.task = u.task => v.call <= u.call
  /\ \/ pc[u.task] \in {"suspending", "parked", "dropped"}
     \/ pc[u.task] \in {"pushed", "waiting"} /\ act[u.task] = "Retry"

RetryStops == \A u \in Updates(accepted) : u.action = "Retry" => Stops(u)

\* A retry of the operation is accepted, or about to be.
RetryOf(o) ==
  \/ \E u \in Updates(accepted) : u.op = o /\ u.action = "Retry"
  \/ \E t \in Task : pc[t] = "tracked" /\ act[t] = "Retry" /\ CurrentCall(t).op = o

RetryKnown ==
  /\ \A o \in Op : lifecycle[o] = "RetryWaiting" => RetryOf(o)
  /\ \A t \in Task : pc[t] = "suspending" => \E o \in Op : RetryOf(o)

SuspendedFor(t, reason) ==
  /\ pc[t] \in {"parked", "dropped"}
  /\ pos[t] <= Len(Program[t])
  /\ "Suspend" \in CurrentCall(t).actions
  /\ SuspendReason(Kind[CurrentCall(t).op]) = reason

ReasonKnown ==
  \/ terminated \in {NotTerminated, "CheckpointFailed", "SerdesFailed"}
  \/ terminated = "RetryScheduled" /\ \E o \in Op : RetryOf(o)
  \/ \E t \in Task : SuspendedFor(t, terminated)

PendingFor ==
  /\ result = "terminated" => terminated # NotTerminated
  /\ output = "Pending" => /\ result = "terminated"
                           /\ terminated \notin {"CheckpointFailed", "SerdesFailed"}

ResumableInv ==
  /\ SilentInv /\ OnceEach /\ FromProgram /\ PassedCalls /\ StoredIsNewest
  /\ Enqueued /\ RetryStops /\ RetryKnown /\ ReasonKnown /\ PendingFor

\* The calls a task has left, and the one it is inside, do not change under it.
LEMMA EnqueuedStep ==
  ASSUME LogInv, Enqueued, [Next]_vars
  PROVE  Enqueued'
<1>a. /\ TypeOK /\ MainIsIdle /\ accepted \in Seq(Update) /\ pc \in [Task -> TaskPc]
      /\ InCall /\ Updates(accepted) \subseteq Updates(accepted')
  BY HistoryGrows DEF LogInv, TokenInv, TypedInv, TypeInvariant, TypeOK
<1>b. ASSUME NEW t \in Task, UNCHANGED <<pc[t], pos[t], act[t]>>,
             pc'[t] \in {"pushed", "waiting"}
      PROVE  CurrentUpdate(t)' \in Updates(accepted')
  BY <1>a, <1>b DEF Enqueued, CurrentUpdate, CurrentCall
<1>c. ASSUME \A t \in Task : pc'[t] \in {"pushed", "waiting"} =>
                               CurrentUpdate(t)' \in Updates(accepted')
      PROVE  Enqueued'
  BY <1>c DEF Enqueued, Updates
<1>1. ASSUME NEW t \in Task, TaskStep(t) \/ TaskEnds(t) PROVE Enqueued'
  <2>1. ASSUME NEW s \in Task \ {t}, pc'[s] \in {"pushed", "waiting"}
        PROVE  CurrentUpdate(s)' \in Updates(accepted')
    BY <1>a, <1>b, <1>1, <2>1, OthersStay
  <2>2. ASSUME pc'[t] \in {"pushed", "waiting"}
        PROVE  CurrentUpdate(t)' \in Updates(accepted')
    <3>1. CASE Enqueue(t)
      <4>1. CurrentUpdate(t) \in Update
        BY <3>1, <1>a, EnqueuedIsLater
      <4>2. Updates(accepted') = Updates(accepted) \cup {CurrentUpdate(t)}
        BY <1>a, <3>1, <4>1, UpdatesOfAppend DEF Enqueue
      <4>3. CurrentUpdate(t)' = CurrentUpdate(t)
        BY <3>1 DEF Enqueue, CurrentUpdate, CurrentCall
      <4> QED
        BY <4>2, <4>3
    <3>2. CASE StartProcessing(t)
      <4>1. pos'[t] = pos[t] /\ act'[t] = act[t] /\ pc[t] = "pushed"
        BY <1>a, <2>2, <3>2 DEF StartProcessing
      <4> QED
        BY <1>a, <4>1 DEF Enqueued, CurrentUpdate, CurrentCall
    <3>3. CASE ~Enqueue(t) /\ ~StartProcessing(t)
      BY <1>a, <1>1, <2>2, <3>3 DEF TaskStep, EnterCheckpoint, CheckpointReturns,
         SuspendForRetry, Suspend, ForceCheckpoint, ForceCheckpointReturns, TaskEnds, Drop
    <3> QED
      BY <3>1, <3>2, <3>3
  <2> QED
    BY <1>c, <2>1, <2>2
<1>2. CASE WorkerStep \/ ServiceStep \/ UNCHANGED vars
  <2>1. UNCHANGED <<pc, pos, act>>
    BY <1>2 DEF WorkerStep, TakeBatch, FindQueueEmpty, BatchAcknowledged, ReleaseBatch,
       BatchFailed, ReleaseFailedBatch, DrainQueue, TerminateForFailure, CheckRetryWaiting,
       CooldownElapsed, StopProcessing, ServiceStep, vars, managerVars, quietVars, taskVars
  <2> QED
    BY <1>b, <1>c, <2>1
<1>3. CASE RuntimeStep
  <2>1. pos' = pos /\ act' = act
    BY <1>3 DEF RuntimeStep, HandlerReturns, TerminationWins, ArmNotification, CheckQueue,
       NotificationArrives, CheckpointLargeResult, LargeResultCheckpointed, Respond,
       quietVars, taskVars
  <2>2. \A t \in Task : pc'[t] \in {"pushed", "waiting"} => pc'[t] = pc[t]
    BY <1>3, <1>a DEF RuntimeStep, HandlerReturns, TerminationWins, ArmNotification,
       CheckQueue, NotificationArrives, CheckpointLargeResult, LargeResultCheckpointed,
       Respond, quietVars, taskVars
  <2> QED
    BY <1>b, <1>c, <2>1, <2>2
<1> QED
  BY <1>1, <1>2, <1>3 DEF Next

LEMMA StopsFrom ==
  ASSUME \A u \in Updates(accepted') : u.action = "Retry" =>
           /\ \A v \in Updates(accepted') : v.task = u.task => v.call <= u.call
           /\ \/ pc'[u.task] \in {"suspending", "parked", "dropped"}
              \/ pc'[u.task] \in {"pushed", "waiting"} /\ act'[u.task] = "Retry"
  PROVE  RetryStops'
  BY DEF RetryStops, Stops, Updates

\* After its RETRY a task waits, then suspends; the runtime's own call is made afresh.
LEMMA RetryStopsStep ==
  ASSUME ResumableProgram, LogInv, FromProgram, Enqueued, RetryStops, [Next]_vars
  PROVE  RetryStops'
<1>a. /\ TypeOK /\ MainIsIdle /\ InCall /\ accepted \in Seq(Update)
      /\ pc \in [Task -> TaskPc] /\ act \in [Task -> Checkpointed]
      /\ pos \in [Task -> Nat \ {0}] /\ Updates(accepted) \in SUBSET Update
  BY UpdatesType DEF LogInv, TokenInv, TypedInv, TypeInvariant, TypeOK
<1> DEFINE At(u) == \/ pc'[u.task] \in {"suspending", "parked", "dropped"}
                    \/ pc'[u.task] \in {"pushed", "waiting"} /\ act'[u.task] = "Retry"
<1>b. ASSUME accepted' = accepted, \A u \in Updates(accepted) : u.action = "Retry" => At(u)
      PROVE  RetryStops'
  <2>1. \A u \in Updates(accepted') : u.action = "Retry" =>
          (\A v \in Updates(accepted') : v.task = u.task => v.call <= u.call) /\ At(u)
    BY <1>b DEF RetryStops, Stops
  <2> QED
    BY <2>1, StopsFrom
<1>c. \A u \in Updates(accepted) : u.action = "Retry" =>
        /\ u.task \in Task
        /\ pc[u.task] \in {"pushed", "waiting", "suspending", "parked", "dropped"}
        /\ pc[u.task] \in {"pushed", "waiting"} => act[u.task] = "Retry"
  BY <1>a DEF RetryStops, Stops, Update
<1>1. ASSUME NEW t \in Task, TaskStep(t) \/ TaskEnds(t), ~Enqueue(t) PROVE RetryStops'
  <2>1. accepted' = accepted
    BY <1>1 DEF TaskStep, EnterCheckpoint, StartProcessing, CheckpointReturns,
       SuspendForRetry, Suspend, ForceCheckpoint, ForceCheckpointReturns, TaskEnds, Drop,
       queueVars
  <2>2. ASSUME NEW u \in Updates(accepted), u.action = "Retry" PROVE At(u)
    <3>1. CASE u.task # t
      BY <1>a, <1>c, <1>1, <2>2, <3>1, OthersStay
    <3>2. CASE u.task = t
      <4>1. /\ pc[t] \in {"pushed", "waiting", "suspending", "parked", "dropped"}
            /\ pc[t] \in {"pushed", "waiting"} => act[t] = "Retry"
        BY <1>c, <2>2, <3>2
      <4>2. CASE StartProcessing(t)
        <5>1. /\ pc[t] = "pushed" /\ act[t] = "Retry" /\ act'[t] = act[t]
              /\ pos[t] \in DOMAIN Program[t]
          BY <1>a, <4>1, <4>2, ProgramAssumption DEF StartProcessing, InCall
        <5>2. CurrentUpdate(t) \in Updates(accepted) /\ CurrentUpdate(t).action = "Retry"
              /\ CurrentUpdate(t).task = t /\ CurrentUpdate(t).call = pos[t]
          BY <5>1 DEF Enqueued, CurrentUpdate
        <5>3. "Retry" \in Program[t][pos[t]].actions
          BY <5>2 DEF FromProgram
        <5>4. CurrentCall(t).awaited
          BY <5>1, <5>3 DEF ResumableProgram, RetryAwaited, CurrentCall
        <5> QED
          BY <1>a, <3>2, <4>2, <5>1, <5>4 DEF StartProcessing
      <4>3. CASE ~StartProcessing(t)
        BY <1>a, <1>1, <3>2, <4>1, <4>3 DEF TaskStep, EnterCheckpoint, Ready,
           CheckpointReturns, SuspendForRetry, Suspend, ForceCheckpoint,
           ForceCheckpointReturns, TaskEnds, Drop
      <4> QED
        BY <4>2, <4>3
    <3> QED
      BY <3>1, <3>2
  <2> QED
    BY <1>b, <2>1, <2>2
<1>2. ASSUME NEW t \in Task, Enqueue(t) PROVE RetryStops'
  <2> DEFINE new == CurrentUpdate(t)
  <2>1. /\ pc[t] = "tracked" /\ pc' = [pc EXCEPT ![t] = "pushed"] /\ act' = act
        /\ accepted' = Append(accepted, new)
        /\ new.task = t /\ new.call = pos[t] /\ new.action = act[t]
    BY <1>2 DEF Enqueue, CurrentUpdate
  <2>2. new \in Update /\ \A v \in Updates(accepted) : v.task = t => v.call < pos[t]
    BY <1>2, EnqueuedIsLater
  <2> HIDE DEF new
  <2>3. Updates(accepted') = Updates(accepted) \cup {new}
    BY <1>a, <2>1, <2>2, UpdatesOfAppend
  <2>4. pos[t] \in Nat /\ \A v \in Updates(accepted) : v.call \in Nat
    BY <1>a DEF Update
  <2>5. ASSUME NEW u \in Updates(accepted), u.action = "Retry"
        PROVE  (\A v \in Updates(accepted') : v.task = u.task => v.call <= u.call) /\ At(u)
    <3>1. u.task # t /\ u.task \in Task
      BY <1>c, <2>1, <2>5
    <3>2. \A v \in Updates(accepted) : v.task = u.task => v.call <= u.call
      BY <2>5 DEF RetryStops, Stops
    <3>3. pc'[u.task] = pc[u.task] /\ act'[u.task] = act[u.task]
      BY <1>a, <2>1, <3>1
    <3> QED
      BY <1>c, <2>1, <2>3, <2>5, <3>1, <3>2, <3>3
  <2>6. new.action = "Retry" =>
          (\A v \in Updates(accepted') : v.task = new.task => v.call <= new.call) /\ At(new)
    <3>1. \A v \in Updates(accepted') : v.task = t => v.call <= pos[t]
      BY <2>1, <2>2, <2>3, <2>4
    <3> QED
      BY <1>a, <2>1, <3>1
  <2>7. \A u \in Updates(accepted') : u.action = "Retry" =>
          (\A v \in Updates(accepted') : v.task = u.task => v.call <= u.call) /\ At(u)
    BY <2>3, <2>5, <2>6
  <2> QED
    BY <2>7, StopsFrom
<1>3. CASE WorkerStep \/ ServiceStep \/ UNCHANGED vars
  <2>1. UNCHANGED <<accepted, pc, act>>
    BY <1>3 DEF WorkerStep, TakeBatch, FindQueueEmpty, BatchAcknowledged, ReleaseBatch,
       BatchFailed, ReleaseFailedBatch, DrainQueue, TerminateForFailure, CheckRetryWaiting,
       CooldownElapsed, StopProcessing, ServiceStep, vars, managerVars, quietVars,
       taskVars, queueVars
  <2> QED
    BY <1>b, <1>c, <2>1
<1>4. CASE RuntimeStep
  <2>1. accepted' = accepted /\ act' = act
    BY <1>4 DEF RuntimeStep, HandlerReturns, TerminationWins, ArmNotification, CheckQueue,
       NotificationArrives, CheckpointLargeResult, LargeResultCheckpointed, Respond,
       quietVars, taskVars, queueVars
  <2>2. \A s \in Task : pc[s] \in {"pushed", "waiting", "suspending", "parked", "dropped"}
                          => pc'[s] = pc[s]
    BY <1>a, <1>4 DEF RuntimeStep, HandlerReturns, TerminationWins, ArmNotification,
       CheckQueue, NotificationArrives, CheckpointLargeResult, LargeResultCheckpointed,
       Respond, quietVars, taskVars, MainIsIdle, Finished
  <2> QED
    BY <1>b, <1>c, <2>1, <2>2
<1> QED
  BY <1>1, <1>2, <1>3, <1>4 DEF Next, TaskStep

LEMMA RetryOfFrom ==
  ASSUME NEW o,
         \/ \E u \in Updates(accepted') : u.op = o /\ u.action = "Retry"
         \/ \E t \in Task : pc'[t] = "tracked" /\ act'[t] = "Retry"
                            /\ Program[t][pos'[t]].op = o
  PROVE  RetryOf(o)'
  BY DEF RetryOf, Updates, CurrentCall

\* On a current-thread runtime a retry that is about to be accepted is accepted: the
\* task that holds the thread is not dropped.
LEMMA RetryOfStays ==
  ASSUME ~Preemptive, LogInv, NEW o, RetryOf(o), [Next]_vars
  PROVE  RetryOf(o)'
<1>a. /\ TypeOK /\ MainIsIdle /\ InCall /\ accepted \in Seq(Update)
      /\ pc \in [Task -> TaskPc] /\ act \in [Task -> Checkpointed]
      /\ pos \in [Task -> Nat \ {0}] /\ Updates(accepted) \subseteq Updates(accepted')
  BY HistoryGrows DEF LogInv, TokenInv, TypedInv, TypeInvariant, TypeOK
<1>1. CASE \E u \in Updates(accepted) : u.op = o /\ u.action = "Retry"
  BY <1>a, <1>1, RetryOfFrom
<1>2. ASSUME NEW t \in Task, pc[t] = "tracked", act[t] = "Retry", CurrentCall(t).op = o
      PROVE  RetryOf(o)'
  <2>1. ASSUME UNCHANGED <<pc[t], act[t], pos[t]>> PROVE RetryOf(o)'
    BY <1>2, <2>1, RetryOfFrom DEF CurrentCall
  <2>2. CASE Enqueue(t)
    <3>1. CurrentUpdate(t) \in Update
      BY <2>2, EnqueuedIsLater
    <3>2. Updates(accepted') = Updates(accepted) \cup {CurrentUpdate(t)}
      BY <1>a, <2>2, <3>1, UpdatesOfAppend DEF Enqueue
    <3>3. CurrentUpdate(t).op = o /\ CurrentUpdate(t).action = "Retry"
      BY <1>2 DEF CurrentUpdate
    <3> QED
      BY <3>2, <3>3, RetryOfFrom
  <2>3. ASSUME NEW s \in Task, TaskStep(s) \/ TaskEnds(s), ~Enqueue(t) PROVE RetryOf(o)'
    <3>1. CASE s # t
      BY <1>a, <2>1, <2>3, <3>1, OthersStay
    <3>2. CASE s = t
      BY <1>2, <2>3, <3>2 DEF TaskStep, EnterCheckpoint, Ready, StartProcessing,
         CheckpointReturns, SuspendForRetry, Suspend, ForceCheckpoint,
         ForceCheckpointReturns, TaskEnds, Drop
    <3> QED
      BY <3>1, <3>2
  <2>4. CASE WorkerStep \/ ServiceStep \/ UNCHANGED vars
    <3>1. UNCHANGED <<pc, pos, act>>
      BY <2>4 DEF WorkerStep, TakeBatch, FindQueueEmpty, BatchAcknowledged, ReleaseBatch,
         BatchFailed, ReleaseFailedBatch, DrainQueue, TerminateForFailure,
         CheckRetryWaiting, CooldownElapsed, StopProcessing, ServiceStep, vars,
         managerVars, quietVars, taskVars
    <3> QED
      BY <2>1, <3>1
  <2>5. CASE RuntimeStep
    <3>1. pos' = pos /\ act' = act /\ pc'[t] = pc[t]
      BY <1>a, <1>2, <2>5 DEF RuntimeStep, HandlerReturns, TerminationWins,
         ArmNotification, CheckQueue, NotificationArrives, CheckpointLargeResult,
         LargeResultCheckpointed, Respond, quietVars, taskVars, MainIsIdle, Finished
    <3> QED
      BY <2>1, <3>1
  <2> QED
    BY <2>2, <2>3, <2>4, <2>5 DEF Next
<1> QED
  BY <1>1, <1>2 DEF RetryOf

LEMMA RetryKnownFrom ==
  ASSUME \A o \in Op : lifecycle'[o] = "RetryWaiting" => RetryOf(o)',
         \A t \in Task : pc'[t] = "suspending" => \E o \in Op : RetryOf(o)'
  PROVE  RetryKnown'
  BY DEF RetryKnown, RetryOf, Updates, CurrentCall

\* The lifecycle says RetryWaiting, and a task suspends, only for a RETRY.
LEMMA RetryKnownStep ==
  ASSUME ~Preemptive, LogInv, Enqueued, RetryKnown, [Next]_vars
  PROVE  RetryKnown'
<1>a. /\ TypeOK /\ MainIsIdle /\ InCall /\ lifecycle \in [Op -> Lifecycle]
      /\ pc \in [Task -> TaskPc] /\ act \in [Task -> Checkpointed]
      /\ pos \in [Task -> Nat \ {0}]
  BY DEF LogInv, TokenInv, TypedInv, TypeInvariant, TypeOK
<1>b. \A o : RetryOf(o) => RetryOf(o)'
  BY RetryOfStays
<1>c. ASSUME \A o \in Op : lifecycle'[o] = "RetryWaiting" => lifecycle[o] = "RetryWaiting",
             \A t \in Task : pc'[t] = "suspending" => pc[t] = "suspending"
      PROVE  RetryKnown'
  <2>1. \A o \in Op : lifecycle'[o] = "RetryWaiting" => RetryOf(o)'
    BY <1>b, <1>c DEF RetryKnown
  <2>2. \A t \in Task : pc'[t] = "suspending" => \E o \in Op : RetryOf(o)'
    BY <1>b, <1>c DEF RetryKnown
  <2> QED
    BY <2>1, <2>2, RetryKnownFrom
<1>1. ASSUME NEW t \in Task, NEW a \in Checkpointed, EnterCheckpoint(t, a)
      PROVE  RetryKnown'
  <2>1. Ready(t) /\ pc[t] = "body" /\ pos' = pos
    BY <1>1 DEF EnterCheckpoint, Ready
  <2>2. PICK c \in Op : c = CurrentCall(t).op
    BY <1>a, <2>1, CurrentCallType DEF Ready
  <2>3. CASE UNCHANGED <<callVars, act>> /\ pc' = [pc EXCEPT ![t] = "parked"]
    BY <1>a, <1>c, <2>3 DEF callVars
  <2>4. CASE /\ pc' = [pc EXCEPT ![t] = "tracked"]
             /\ act' = [act EXCEPT ![t] = a]
             /\ lifecycle' = [lifecycle EXCEPT ![c] = LifecycleAfter(c, a)]
    <3>1. \A s \in Task : pc'[s] = "suspending" => \E o \in Op : RetryOf(o)'
      BY <1>a, <1>b, <2>4 DEF RetryKnown
    <3>2. \A o \in Op \ {c} : lifecycle'[o] = "RetryWaiting" => RetryOf(o)'
      BY <1>a, <1>b, <2>2, <2>4 DEF RetryKnown
    <3>3. CASE a = "Retry"
      <4>1. pc'[t] = "tracked" /\ act'[t] = "Retry" /\ Program[t][pos'[t]].op = c
        BY <1>a, <2>1, <2>2, <2>4, <3>3 DEF CurrentCall
      <4>2. RetryOf(c)'
        BY <4>1, RetryOfFrom
      <4> QED
        BY <3>1, <3>2, <4>2, RetryKnownFrom
    <3>4. CASE a # "Retry"
      <4>1. LifecycleAfter(c, a) # "RetryWaiting"
        BY <3>4 DEF LifecycleAfter, Checkpointed, Completion
      <4>2. lifecycle'[c] # "RetryWaiting"
        BY <1>a, <2>2, <2>4, <4>1
      <4> QED
        BY <3>1, <3>2, <4>2, RetryKnownFrom
    <3> QED
      BY <3>3, <3>4
  <2> QED
    BY <1>1, <2>2, <2>3, <2>4 DEF EnterCheckpoint
<1>2. ASSUME NEW t \in Task, CheckpointReturns(t) PROVE RetryKnown'
  <2>1. pc[t] = "waiting" /\ lifecycle' = lifecycle
    BY <1>2 DEF CheckpointReturns, callVars
  <2>2. CASE act[t] = "Retry"
    <3>1. CurrentUpdate(t) \in Updates(accepted) /\ CurrentUpdate(t).action = "Retry"
          /\ CurrentUpdate(t).op = CurrentCall(t).op
      BY <2>1, <2>2 DEF Enqueued, CurrentUpdate
    <3>2. PICK c \in Op : c = CurrentCall(t).op
      BY <1>a, <2>1, CurrentCallType DEF InCall
    <3>3. RetryOf(c)'
      BY <1>b, <3>1, <3>2 DEF RetryOf
    <3>4. \A o \in Op : lifecycle'[o] = "RetryWaiting" => RetryOf(o)'
      BY <1>b, <2>1 DEF RetryKnown
    <3> QED
      BY <3>2, <3>3, <3>4, RetryKnownFrom
  <2>3. CASE act[t] # "Retry"
    BY <1>a, <1>2, <1>c, <2>1, <2>3 DEF CheckpointReturns
  <2> QED
    BY <2>2, <2>3
<1>3. ASSUME NEW t \in Task, TaskStep(t) \/ TaskEnds(t),
             ~CheckpointReturns(t), ~\E a \in Checkpointed : EnterCheckpoint(t, a)
      PROVE  RetryKnown'
  <2>1. \A s \in Task : pc'[s] = "suspending" => pc[s] = "suspending"
    BY <1>a, <1>3 DEF TaskStep, Enqueue, StartProcessing, SuspendForRetry, Suspend,
       ForceCheckpoint, ForceCheckpointReturns, TaskEnds, Drop
  <2>2. \A o \in Op : lifecycle'[o] = "RetryWaiting" => lifecycle[o] = "RetryWaiting"
    BY <1>a, <1>3 DEF TaskStep, Enqueue, StartProcessing, SuspendForRetry, Suspend,
       ForceCheckpoint, ForceCheckpointReturns, TaskEnds, Drop, callVars
  <2> QED
    BY <1>c, <2>1, <2>2
<1>4. CASE WorkerStep \/ ServiceStep \/ UNCHANGED vars
  <2>1. UNCHANGED <<lifecycle, pc>>
    BY <1>4 DEF WorkerStep, TakeBatch, FindQueueEmpty, BatchAcknowledged, ReleaseBatch,
       BatchFailed, ReleaseFailedBatch, DrainQueue, TerminateForFailure, CheckRetryWaiting,
       CooldownElapsed, StopProcessing, ServiceStep, vars, managerVars, quietVars,
       taskVars, callVars
  <2> QED
    BY <1>c, <2>1
<1>5. CASE RuntimeStep
  <2>1. lifecycle' = lifecycle /\ \A s \in Task : pc'[s] = "suspending" => pc[s] = pc'[s]
    BY <1>a, <1>5 DEF RuntimeStep, HandlerReturns, TerminationWins, ArmNotification,
       CheckQueue, NotificationArrives, CheckpointLargeResult, LargeResultCheckpointed,
       Respond, quietVars, taskVars, callVars
  <2> QED
    BY <1>c, <2>1
<1> QED
  BY <1>1, <1>2, <1>3, <1>4, <1>5 DEF Next

\* A task that has suspended stays at its call.
LEMMA SuspendedStays ==
  ASSUME LogInv, NEW t \in Task, NEW reason, SuspendedFor(t, reason), [Next]_vars
  PROVE  SuspendedFor(t, reason)'
<1>a. /\ TypeOK /\ MainIsIdle /\ pc \in [Task -> TaskPc] /\ pos \in [Task -> Nat \ {0}]
  BY DEF LogInv, TokenInv, TypedInv, TypeInvariant, TypeOK
<1>b. pc[t] \in {"parked", "dropped"}
  BY DEF SuspendedFor
<1>c. ASSUME pc'[t] \in {"parked", "dropped"}, pos'[t] = pos[t]
      PROVE  SuspendedFor(t, reason)'
  BY <1>c DEF SuspendedFor, CurrentCall
<1>1. ASSUME NEW s \in Task, TaskStep(s) \/ TaskEnds(s)
      PROVE  pc'[t] \in {"parked", "dropped"} /\ pos'[t] = pos[t]
  <2>1. CASE s # t
    BY <1>a, <1>b, <1>1, <2>1, OthersStay
  <2>2. CASE s = t
    BY <1>a, <1>b, <1>1, <2>2 DEF TaskStep, EnterCheckpoint, Ready, Enqueue,
       StartProcessing, CheckpointReturns, SuspendForRetry, Suspend, ForceCheckpoint,
       ForceCheckpointReturns, TaskEnds, Drop
  <2> QED
    BY <2>1, <2>2
<1>2. ASSUME WorkerStep \/ ServiceStep \/ UNCHANGED vars
      PROVE  pc'[t] \in {"parked", "dropped"} /\ pos'[t] = pos[t]
  BY <1>b, <1>2 DEF WorkerStep, TakeBatch, FindQueueEmpty, BatchAcknowledged, ReleaseBatch,
     BatchFailed, ReleaseFailedBatch, DrainQueue, TerminateForFailure, CheckRetryWaiting,
     CooldownElapsed, StopProcessing, ServiceStep, vars, managerVars, quietVars, taskVars
<1>3. ASSUME RuntimeStep PROVE pc'[t] \in {"parked", "dropped"} /\ pos'[t] = pos[t]
  BY <1>a, <1>b, <1>3 DEF RuntimeStep, HandlerReturns, TerminationWins, ArmNotification,
     CheckQueue, NotificationArrives, CheckpointLargeResult, LargeResultCheckpointed,
     Respond, quietVars, taskVars, MainIsIdle, Finished
<1> QED
  BY <1>1, <1>2, <1>3, <1>c DEF Next

LEMMA ReasonFrom ==
  ASSUME \/ terminated' \in {NotTerminated, "CheckpointFailed", "SerdesFailed"}
         \/ terminated' = "RetryScheduled" /\ \E o \in Op : RetryOf(o)'
         \/ \E t \in Task : SuspendedFor(t, terminated)'
  PROVE  ReasonKnown'
  BY DEF ReasonKnown, RetryOf, SuspendedFor, Updates, CurrentCall

\* The first reason stays, and so does what it was given for.
LEMMA ReasonStep ==
  ASSUME ~Preemptive, LogInv, RetryKnown, ReasonKnown, [Next]_vars
  PROVE  ReasonKnown'
<1>a. /\ TypeOK /\ InCall /\ pc \in [Task -> TaskPc] /\ pos \in [Task -> Nat \ {0}]
  BY DEF LogInv, TokenInv, TypedInv, TypeInvariant, TypeOK
<1>b. \A o : RetryOf(o) => RetryOf(o)'
  BY RetryOfStays
<1>c. ASSUME terminated' = terminated PROVE ReasonKnown'
  <2>1. CASE terminated \in {NotTerminated, "CheckpointFailed", "SerdesFailed"}
    BY <1>c, <2>1, ReasonFrom
  <2>2. CASE terminated = "RetryScheduled" /\ \E o \in Op : RetryOf(o)
    BY <1>b, <1>c, <2>2, ReasonFrom
  <2>3. CASE \E t \in Task : SuspendedFor(t, terminated)
    <3>1. PICK t \in Task, reason \in {terminated} : SuspendedFor(t, reason)
      BY <2>3
    <3>2. SuspendedFor(t, reason)'
      BY <3>1, SuspendedStays
    <3>3. SuspendedFor(t, terminated)'
      BY <1>c, <3>1, <3>2 DEF SuspendedFor
    <3> QED
      BY <3>3, ReasonFrom
  <2> QED
    BY <2>1, <2>2, <2>3 DEF ReasonKnown
<1>1. ASSUME NEW t \in Task, SuspendForRetry(t) PROVE ReasonKnown'
  <2>1. \E o \in Op : RetryOf(o)'
    BY <1>b, <1>1 DEF SuspendForRetry, RetryKnown
  <2>2. terminated' = terminated \/ terminated' = "RetryScheduled"
    BY <1>1 DEF SuspendForRetry, Terminate, terminationVars
  <2> QED
    BY <1>c, <2>1, <2>2, ReasonFrom
<1>2. ASSUME NEW t \in Task, NEW a \in LocalAction, Suspend(t, a) PROVE ReasonKnown'
  <2>1. /\ pc'[t] = "parked" /\ pos' = pos /\ pos[t] <= Len(Program[t])
        /\ a \in CurrentCall(t).actions
    BY <1>a, <1>2 DEF Suspend, Ready
  <2>2. CASE terminated' = terminated
    BY <1>c, <2>2
  <2>3. CASE a = "Suspend" /\ terminated' = SuspendReason(Kind[CurrentCall(t).op])
    <3>1. SuspendedFor(t, terminated)'
      BY <2>1, <2>3 DEF SuspendedFor, CurrentCall
    <3> QED
      BY <3>1, ReasonFrom
  <2>4. CASE terminated' = "SerdesFailed"
    BY <2>4, ReasonFrom
  <2> QED
    BY <1>2, <2>2, <2>3, <2>4 DEF Suspend, Terminate, terminationVars
<1>3. ASSUME NEW t \in Task, TaskStep(t) \/ TaskEnds(t),
             ~SuspendForRetry(t), ~\E a \in LocalAction : Suspend(t, a)
      PROVE  terminated' = terminated
  BY <1>3 DEF TaskStep, EnterCheckpoint, Enqueue, StartProcessing, CheckpointReturns,
     ForceCheckpoint, ForceCheckpointReturns, TaskEnds, Drop, terminationVars
<1>4. CASE CooldownElapsed
  <2>1. CASE AnyRetryWaiting
    <3>1. \E o \in Op : RetryOf(o)'
      BY <1>b, <2>1 DEF RetryKnown, AnyRetryWaiting
    <3>2. terminated' = terminated \/ terminated' = "RetryScheduled"
      BY <1>4, <2>1 DEF CooldownElapsed, Terminate, terminationVars
    <3> QED
      BY <1>c, <3>1, <3>2, ReasonFrom
  <2>2. CASE ~AnyRetryWaiting
    BY <1>c, <1>4, <2>2 DEF CooldownElapsed, terminationVars
  <2> QED
    BY <2>1, <2>2
<1>5. CASE TerminateForFailure
  <2>1. terminated' = terminated \/ terminated' = "CheckpointFailed"
    BY <1>5 DEF TerminateForFailure, Terminate, terminationVars
  <2> QED
    BY <1>c, <2>1, ReasonFrom
<1>6. ASSUME \/ WorkerStep /\ ~CooldownElapsed /\ ~TerminateForFailure
             \/ ServiceStep \/ RuntimeStep \/ UNCHANGED vars
      PROVE  terminated' = terminated
  BY <1>6 DEF WorkerStep, TakeBatch, FindQueueEmpty, BatchAcknowledged, ReleaseBatch,
     BatchFailed, ReleaseFailedBatch, DrainQueue, CheckRetryWaiting, StopProcessing,
     ServiceStep, RuntimeStep, HandlerReturns, TerminationWins, ArmNotification,
     CheckQueue, NotificationArrives, CheckpointLargeResult, LargeResultCheckpointed,
     Respond, vars, managerVars, quietVars, terminationVars
<1> QED
  BY <1>1, <1>2, <1>3, <1>4, <1>5, <1>6, <1>c DEF Next

\* Pending is answered only for a reason that termination gave.
LEMMA PendingForStep ==
  ASSUME TypedInv, Answered, PendingFor, [Next]_vars
  PROVE  PendingFor'
<1>a. result \in HandlerResult \cup {"none"}
  BY DEF TypedInv, TypeInvariant, HandlerTypeOK
<1>1. terminated # NotTerminated => terminated' = terminated
  <2>1. \A reason : Terminate(reason) /\ terminated # NotTerminated => terminated' = terminated
    BY DEF Terminate, terminationVars
  <2>2. ASSUME NEW t \in Task, TaskStep(t) \/ TaskEnds(t), terminated # NotTerminated
        PROVE  terminated' = terminated
    BY <2>1, <2>2 DEF TaskStep, EnterCheckpoint, Enqueue, StartProcessing,
       CheckpointReturns, SuspendForRetry, Suspend, ForceCheckpoint,
       ForceCheckpointReturns, TaskEnds, Drop, terminationVars
  <2>3. ASSUME WorkerStep, terminated # NotTerminated PROVE terminated' = terminated
    BY <2>1, <2>3 DEF WorkerStep, TakeBatch, FindQueueEmpty, BatchAcknowledged,
       ReleaseBatch, BatchFailed, ReleaseFailedBatch, DrainQueue, TerminateForFailure,
       CheckRetryWaiting, CooldownElapsed, StopProcessing, terminationVars
  <2>4. ASSUME ServiceStep \/ RuntimeStep \/ UNCHANGED vars PROVE terminated' = terminated
    BY <2>4 DEF ServiceStep, RuntimeStep, HandlerReturns, TerminationWins, ArmNotification,
       CheckQueue, NotificationArrives, CheckpointLargeResult, LargeResultCheckpointed,
       Respond, vars, managerVars, quietVars, terminationVars
  <2> QED
    BY <2>2, <2>3, <2>4 DEF Next
<1>2. CASE TerminationWins
  BY <1>1, <1>2 DEF TerminationWins, Answered, PendingFor
<1>3. CASE Respond
  <2>1. OutputFor(result, terminated) = "Pending" =>
          result = "terminated" /\ terminated \notin {"CheckpointFailed", "SerdesFailed"}
    <3>1. result \in HandlerResult
      BY <1>3 DEF Respond, TypedInv, TypeInvariant, HandlerTypeOK, Chosen
    <3> QED
      BY <3>1 DEF OutputFor, HandlerResult
  <2>2. terminated' = terminated /\ result' = result
    BY <1>3 DEF Respond, quietVars, terminationVars
  <2> QED
    BY <1>3, <2>1, <2>2 DEF Respond, PendingFor
<1>4. CASE ~TerminationWins /\ ~Respond
  <2>1. output' = output
    BY <1>4, RuntimeAlone DEF RuntimeStep, HandlerReturns, ArmNotification, CheckQueue,
       NotificationArrives, CheckpointLargeResult, LargeResultCheckpointed
  <2>2. result' = "terminated" => result = "terminated"
    BY <1>4, RuntimeAlone, HandlerAssumption DEF RuntimeStep, HandlerReturns,
       ArmNotification, CheckQueue, NotificationArrives, CheckpointLargeResult,
       LargeResultCheckpointed
  <2>3. output = "Pending" => result' = result
    BY <1>4, RuntimeAlone DEF Answered, RuntimeStep, HandlerReturns, ArmNotification,
       CheckQueue, NotificationArrives, CheckpointLargeResult, LargeResultCheckpointed
  <2> QED
    BY <1>1, <2>1, <2>2, <2>3 DEF PendingFor
<1> QED
  BY <1>2, <1>3, <1>4

LEMMA ResumableNext ==
  ASSUME ~Preemptive, ResumableProgram, ResumableInv, [Next]_vars
  PROVE  ResumableInv'
<1>1. /\ SilentInv /\ LogInv /\ OnceInv /\ OnceEach /\ FromProgram /\ PassedCalls
      /\ StoredIsNewest /\ Enqueued /\ RetryStops /\ RetryKnown /\ ReasonKnown
      /\ PendingFor /\ TypedInv /\ Answered /\ RefreshAlone
  BY DEF ResumableInv, ResumableProgram, SilentInv, LogInv, TokenInv, OnceInv
<1>2. SilentInv' /\ OnceEach' /\ FromProgram' /\ PassedCalls' /\ StoredIsNewest'
  BY <1>1, SilentNext, OnceNext, FromProgramStep, PassedStep, StoredIsNewestStep
     DEF OnceInv
<1>3. Enqueued' /\ RetryStops' /\ RetryKnown' /\ ReasonKnown' /\ PendingFor'
  BY <1>1, EnqueuedStep, RetryStopsStep, RetryKnownStep, ReasonStep, PendingForStep
<1> QED
  BY <1>2, <1>3 DEF ResumableInv

LEMMA ResumableInit == HandlerInit => ResumableInv
<1> SUFFICES ASSUME HandlerInit PROVE ResumableInv
  OBVIOUS
<1>1. LogInv /\ JoinedDone /\ Answered /\ Told /\ Inside /\ PassedCalls
  BY LogInit, DurableInit, OrderInit DEF OrderInv
<1>2. result = "none" /\ rt = "select" /\ output = "none" /\ terminated = NotTerminated
  BY DEF HandlerInit, Init, TerminationInit
<1>3. SilentInv
  BY <1>1, <1>2 DEF SilentInv, QuietReply, Silent
<1>4. OnceEach /\ FromProgram /\ StoredIsNewest
  BY OnceInit, FromProgramInit, StoredIsNewestInit
<1>5. Updates(accepted) = {} /\ \A o \in Op : lifecycle[o] = "NotStarted"
  BY NoUpdates DEF HandlerInit, Init
<1>6. \A t \in Task : pc[t] \in {"unborn", "body"}
  BY DEF HandlerInit, Init
<1>7. Enqueued /\ RetryStops /\ RetryKnown /\ ReasonKnown /\ PendingFor
  BY <1>2, <1>5, <1>6 DEF Enqueued, RetryStops, RetryKnown, ReasonKnown, PendingFor
<1> QED
  BY <1>1, <1>3, <1>4, <1>7 DEF ResumableInv

\* The newest update of an operation in a log that says everything that was accepted.
LEMMA NewestInLog ==
  ASSUME StoredIsNewest, NEW o \in Op, log \in Seq(Update), Mentions(log, o)
  PROVE  \E i \in DOMAIN log : /\ IsNewest(log, o, i)
                               /\ stored[o] = log[i].action
<1>1. PICK i \in DOMAIN log : IsNewest(log, o, i)
  BY NewestExists
<1> DEFINE is == {j \in DOMAIN log : log[j].op = o}
<1>2. is # {} /\ (CHOOSE k \in is : \A j \in is : j <= k) = i
  BY <1>1, NewestIsChosen
<1>3. NewestAction(o) = log[i].action
  BY <1>2 DEF NewestAction
<1> QED
  BY <1>1, <1>3 DEF StoredIsNewest

\* An operation whose RETRY is recorded is kept as one to retry.
LEMMA RetryIsStored ==
  ASSUME OneTask, OnceEach, FromProgram, StoredIsNewest, RetryStops, accepted = log,
         log \in Seq(Update), NEW u \in Updates(log), u.action = "Retry"
  PROVE  stored[u.op] = "Retry"
<1>1. PICK m \in DOMAIN log : log[m] = u
  BY DEF Updates
<1>2. u \in Update /\ Mentions(log, u.op)
  BY <1>1, UpdatesType DEF Mentions
<1>3. PICK i \in DOMAIN log : IsNewest(log, u.op, i) /\ stored[u.op] = log[i].action
  <2>1. u.op \in Op
    BY <1>2 DEF Update
  <2> QED
    BY <1>2, <2>1, NewestInLog
<1>4. log[i] \in Updates(log) /\ log[i] \in Update /\ log[i].op = u.op /\ m <= i
  BY <1>1, <1>3, UpdatesType DEF IsNewest, Updates
<1>5. log[i].task = u.task
  BY <1>2, <1>4 DEF FromProgram, OneTask, Update
<1>6. log[i].call <= u.call
  BY <1>4, <1>5 DEF RetryStops, Stops
<1>7. ~(m < i)
  <2>1. m < i => u.call < log[i].call
    BY <1>1, <1>5 DEF OnceEach, InCallOrder
  <2> QED
    BY <1>2, <1>4, <1>6, <2>1 DEF Update
<1>8. m = i
  BY <1>4, <1>7
<1> QED
  BY <1>1, <1>3, <1>8

\* An operation at which a task has suspended is kept as a started one.
LEMMA StartIsStored ==
  ASSUME OneTask, SuspendsStarted, LogInv, FromProgram, PassedCalls, StoredIsNewest,
         accepted = log, NEW t \in Task, NEW reason, SuspendedFor(t, reason)
  PROVE  /\ CurrentCall(t).op \in Op
         /\ stored[CurrentCall(t).op] = "Start"
         /\ reason # "RetryScheduled"
<1> DEFINE o == CurrentCall(t).op
           k == pos[t]
<1>a. /\ log \in Seq(Update) /\ pos[t] \in Nat \ {0} /\ Program[t] \in Seq(Call)
      /\ TypeOK /\ pos[t] <= Len(Program[t])
  BY ProgramAssumption DEF LogInv, TokenInv, TypedInv, TypeInvariant, TypeOK, SuspendedFor
<1>1. k \in DOMAIN Program[t] /\ o \in Op
  BY <1>a, CurrentCallType
<1>2. StartedBefore(t, k) /\ o = Program[t][k].op
  BY <1>1 DEF SuspendedFor, SuspendsStarted, CurrentCall
<1>3. reason # "RetryScheduled"
  BY <1>2 DEF StartedBefore, SuspendedFor, SuspendReason
<1>4. ASSUME NEW u \in Updates(log), u.op = o
      PROVE  u.action = "Start"
  <2>1. /\ u \in Update /\ u.task \in Task /\ u.call \in DOMAIN Program[u.task]
        /\ u.op = Program[u.task][u.call].op
        /\ u.action \in Program[u.task][u.call].actions
        /\ u.call <= pos[u.task] /\ u.action \in Checkpointed /\ u.call \in Nat
    BY <1>a, UpdatesType DEF FromProgram, LogInv, Numbered, Update
  <2>2. u.task = t
    BY <1>1, <1>2, <1>4, <2>1 DEF OneTask
  <2>3. u.call # k
    BY <1>2, <2>1, <2>2 DEF StartedBefore, Checkpoints
  <2>4. u.call < k
    BY <1>a, <2>1, <2>2, <2>3
  <2> QED
    BY <1>2, <1>4, <2>1, <2>2, <2>4 DEF StartedBefore
<1>5. CASE Mentions(log, o)
  <2>1. PICK i \in DOMAIN log : IsNewest(log, o, i) /\ stored[o] = log[i].action
    BY <1>a, <1>1, <1>5, NewestInLog
  <2>2. log[i] \in Updates(log) /\ log[i].op = o
    BY <2>1 DEF IsNewest, Updates
  <2> QED
    BY <1>1, <1>3, <1>4, <2>1, <2>2
<1>6. CASE ~Mentions(log, o)
  <2>1. ~\E j \in DOMAIN Program[t] : j < k /\ Program[t][j].op = o /\ Checkpoints(t, j)
    <3> SUFFICES ASSUME NEW j \in DOMAIN Program[t], j < k, Program[t][j].op = o,
                        Checkpoints(t, j)
                 PROVE  FALSE
      OBVIOUS
    <3>1. PICK u \in Updates(log) : u.task = t /\ u.call = j
      BY DEF PassedCalls, IsIn
    <3>2. u.op = o
      BY <3>1 DEF FromProgram
    <3> QED
      BY <1>6, <3>2 DEF Mentions, Updates
  <2>2. o \in Replayed
    BY <1>2, <2>1 DEF StartedBefore
  <2>3. NewestAction(o) = "Start"
    BY <1>6, <2>2 DEF NewestAction, Mentions
  <2> QED
    BY <1>1, <1>3, <2>3 DEF StoredIsNewest
<1> QED
  BY <1>5, <1>6

LEMMA ResumableHolds ==
  ASSUME ~Preemptive, ResumableProgram, ResumableInv PROVE PendingIsResumable
<1> SUFFICES ASSUME output = "Pending", lost = {}
             PROVE  \E o \in Op : IsPendingFor(terminated, o)
  BY DEF PendingIsResumable
<1>1. /\ LogInv /\ log \in Seq(Update) /\ result = "terminated"
      /\ terminated \notin {NotTerminated, "CheckpointFailed", "SerdesFailed"}
  BY DEF ResumableInv, PendingFor, SilentInv, LogInv, TokenInv, TypedInv, TypeInvariant,
     TypeOK
<1>2. QueueQuiet /\ NobodyRecords
  BY <1>1 DEF ResumableInv, SilentInv, Silent, NobodyIsLeft
<1>3. accepted = log
  BY <1>1, <1>2, QuietIsRecorded
<1>4. CASE terminated = "RetryScheduled" /\ \E o \in Op : RetryOf(o)
  <2>1. PICK o \in Op : RetryOf(o)
    BY <1>4
  <2>2. PICK u \in Updates(accepted) : u.op = o /\ u.action = "Retry"
    BY <1>2, <2>1 DEF RetryOf, NobodyRecords, IsInside
  <2>3. stored[o] = "Retry"
    BY <1>1, <1>3, <2>2, RetryIsStored DEF ResumableInv, ResumableProgram
  <2> QED
    BY <1>4, <2>3 DEF IsPendingFor
<1>5. CASE \E t \in Task : SuspendedFor(t, terminated)
  <2>1. PICK t \in Task : SuspendedFor(t, terminated)
    BY <1>5
  <2>2. /\ CurrentCall(t).op \in Op /\ stored[CurrentCall(t).op] = "Start"
        /\ terminated # "RetryScheduled"
    BY <1>1, <1>3, <2>1, StartIsStored DEF ResumableInv, ResumableProgram
  <2>3. SuspendReason(Kind[CurrentCall(t).op]) = terminated
    BY <2>1 DEF SuspendedFor
  <2> QED
    BY <2>2, <2>3 DEF IsPendingFor
<1> QED
  BY <1>1, <1>4, <1>5 DEF ResumableInv, ReasonKnown

\* On a current-thread runtime the service can resume every invocation that answers
\* Pending without having lost an update: an operation waits for its retry, or is started
\* and waits for the timer, the callback or the function (runtime/handler/execute.rs).
THEOREM PendingResumable ==
  ASSUME ~Preemptive, ResumableProgram PROVE Spec => []PendingIsResumable
  BY ResumableInit, ResumableNext, ResumableHolds, PTL DEF Spec

-----------------------------------------------------------------------------
(***************************************************************************)
(* No wake-up is lost.  On a current-thread runtime the worker keeps the   *)
(* thread from the empty queue to the end of its loop, so nothing is       *)
(* pushed in between; and a task keeps it from its push until a worker     *)
(* runs.  With several threads both fail: `lost_wakeup` shows how.         *)
(***************************************************************************)
Served(t) ==
  \/ <<t, pos[t]>> \in notified
  \/ CurrentUpdate(t) \in UnderWay /\ (isProcessing \/ pc[t] = "pushed")

CallersServed == \A t \in Task : pc[t] \in {"pushed", "waiting"} => Served(t)

\* The worker ends with the queue empty, and nobody else has the thread until then.
EndsQuietly == worker \in {"terminating", "stopping"} => queue = <<>> /\ running = Worker

QueueHasWorker == queue # <<>> => isProcessing \/ \E t \in Task : pc[t] = "pushed"

RuntimeWoken == rt = "await" => idleNotified \/ isProcessing

WakeInv ==
  LogInv /\ Inside /\ CallersServed /\ EndsQuietly /\ QueueHasWorker /\ RuntimeWoken

\* An update leaves the batch and the queue only when its caller is notified.
LEMMA WayOrPermit ==
  ASSUME LogInv, WorkerStep
  PROVE  /\ notified \subseteq notified'
         /\ \A u \in UnderWay : u \in UnderWay' \/ <<u.task, u.call>> \in notified'
<1>a. batch \in Seq(Update) /\ queue \in Seq(Update) /\ OneBatchInFlight
  BY DEF LogInv, TokenInv, TypedInv, TypeInvariant, TypeOK
<1>1. CASE TakeBatch
  <2>1. batch = <<>> /\ notified' = notified
    BY <1>1, <1>a DEF TakeBatch, OneBatchInFlight, notifyVars
  <2>2. PICK n \in 1..Len(queue) : /\ batch' = SubSeq(queue, 1, n)
                                   /\ queue' = SubSeq(queue, n + 1, Len(queue))
    BY <1>1 DEF TakeBatch
  <2>3. batch' \o queue' = queue /\ batch' \in Seq(Update) /\ queue' \in Seq(Update)
    BY <1>a, <2>2, SplitQueue, SubSeqProperties
  <2>4. Updates(queue) = Updates(batch') \cup Updates(queue')
    BY <2>3, UpdatesOfConcat
  <2>5. UnderWay' = UnderWay
    BY <2>1, <2>4, NoUpdates DEF UnderWay, Updates
  <2> QED
    BY <2>1, <2>5
<1>2. CASE ReleaseBatch \/ ReleaseFailedBatch
  <2>1. notified' = notified \cup Permits(batch) /\ queue' = queue
    BY <1>2 DEF ReleaseBatch, ReleaseFailedBatch, queueVars
  <2> QED
    BY <2>1 DEF UnderWay, Permits, Updates
<1>3. CASE DrainQueue
  <2>1. notified' = notified \cup Permits(queue) /\ batch' = batch
    BY <1>3 DEF DrainQueue
  <2> QED
    BY <2>1 DEF UnderWay, Permits, Updates
<1>4. CASE ~TakeBatch /\ ~ReleaseBatch /\ ~ReleaseFailedBatch /\ ~DrainQueue
  <2>1. UNCHANGED <<notified, batch, queue>>
    BY <1>4 DEF WorkerStep, FindQueueEmpty, BatchAcknowledged, BatchFailed,
       TerminateForFailure, CheckRetryWaiting, CooldownElapsed, StopProcessing, queueVars,
       notifyVars
  <2> QED
    BY <2>1 DEF UnderWay, Updates
<1> QED
  BY <1>1, <1>2, <1>3, <1>4

LEMMA ServedFrom ==
  ASSUME \A t \in Task : pc'[t] \in {"pushed", "waiting"} =>
           \/ <<t, pos'[t]>> \in notified'
           \/ CurrentUpdate(t)' \in UnderWay' /\ (isProcessing' \/ pc'[t] = "pushed")
  PROVE  CallersServed'
  BY DEF CallersServed, Served, UnderWay, Updates, CurrentUpdate, CurrentCall

\* Whoever waits, or is about to, keeps its permit or its worker.
LEMMA ServedStep ==
  ASSUME ~Preemptive, WakeInv, [Next]_vars
  PROVE  CallersServed'
<1> USE DEF WakeInv
<1>a. /\ TypeOK /\ MainIsIdle /\ OneBatchInFlight /\ Main \in Task
      /\ pc \in [Task -> TaskPc] /\ pos \in [Task -> Nat \ {0}]
      /\ batch \in Seq(Update) /\ queue \in Seq(Update)
  BY ActorAssumption DEF LogInv, TokenInv, TypedInv, TypeInvariant, TypeOK
<1> DEFINE Now(t) == \/ <<t, pos'[t]>> \in notified'
                     \/ CurrentUpdate(t)' \in UnderWay' /\ (isProcessing' \/ pc'[t] = "pushed")
<1>b. ASSUME NEW t \in Task, pc[t] \in {"pushed", "waiting"}, pc'[t] = pc[t],
             UNCHANGED <<pos, act>>,
             <<t, pos[t]>> \in notified => <<t, pos[t]>> \in notified',
             UnderWay \subseteq UnderWay', isProcessing => isProcessing'
      PROVE  Now(t)
  BY <1>b DEF CallersServed, Served, CurrentUpdate, CurrentCall
<1>1. ASSUME NEW t \in Task, TaskStep(t) \/ TaskEnds(t) PROVE CallersServed'
  <2>1. UnderWay \subseteq UnderWay' /\ (isProcessing => isProcessing')
    <3>1. CASE Enqueue(t)
      <4>1. CurrentUpdate(t) \in Update
        BY <3>1, EnqueuedIsLater
      <4>2. Updates(queue') = Updates(queue) \cup {CurrentUpdate(t)}
        BY <1>a, <3>1, <4>1, UpdatesOfAppend DEF Enqueue
      <4> QED
        BY <3>1, <4>2 DEF Enqueue, workerVars, UnderWay, Updates
    <3>2. CASE ~Enqueue(t)
      <4>1. queue' = queue /\ (isProcessing => isProcessing') /\ (batch' = batch \/ batch = <<>>)
        BY <1>1, <1>a, <3>2 DEF TaskStep, EnterCheckpoint, StartProcessing,
           CheckpointReturns, SuspendForRetry, Suspend, ForceCheckpoint,
           ForceCheckpointReturns, TaskEnds, Drop, queueVars, workerVars, OneBatchInFlight
      <4> QED
        BY <4>1, NoUpdates DEF UnderWay, Updates
    <3> QED
      BY <3>1, <3>2
  <2>2. \A s \in Task \ {t} : \A n : <<s, n>> \in notified => <<s, n>> \in notified'
    BY <1>1 DEF TaskStep, EnterCheckpoint, Enqueue, StartProcessing, CheckpointReturns,
       SuspendForRetry, Suspend, ForceCheckpoint, ForceCheckpointReturns, TaskEnds, Drop,
       notifyVars
  <2>3. ASSUME NEW s \in Task \ {t}, pc'[s] \in {"pushed", "waiting"} PROVE Now(s)
    <3>1. pc'[s] = pc[s] /\ pos'[s] = pos[s] /\ act'[s] = act[s]
      BY <1>a, <1>1, OthersStay
    <3> QED
      BY <2>1, <2>2, <2>3, <3>1 DEF CallersServed, Served, CurrentUpdate, CurrentCall
  <2>4. ASSUME pc'[t] \in {"pushed", "waiting"} PROVE Now(t)
    <3>1. CASE Enqueue(t)
      <4>1. CurrentUpdate(t) \in Update
        BY <3>1, EnqueuedIsLater
      <4>2. Updates(queue') = Updates(queue) \cup {CurrentUpdate(t)}
        BY <1>a, <3>1, <4>1, UpdatesOfAppend DEF Enqueue
      <4>3. CurrentUpdate(t)' = CurrentUpdate(t) /\ pc'[t] = "pushed"
        BY <1>a, <3>1 DEF Enqueue, CurrentUpdate, CurrentCall
      <4>4. UnderWay' = Updates(batch') \cup Updates(queue')
        BY DEF UnderWay, Updates
      <4> QED
        BY <4>2, <4>3, <4>4
    <3>2. CASE StartProcessing(t)
      <4>1. /\ pos'[t] = pos[t] /\ act' = act /\ pc[t] = "pushed" /\ isProcessing'
            /\ notified' = notified
        BY <1>a, <2>4, <3>2 DEF StartProcessing, notifyVars, workerVars
      <4> QED
        BY <2>1, <4>1 DEF CallersServed, Served, CurrentUpdate, CurrentCall
    <3>3. CASE ~Enqueue(t) /\ ~StartProcessing(t)
      BY <1>a, <1>1, <2>4, <3>3 DEF TaskStep, EnterCheckpoint, CheckpointReturns,
         SuspendForRetry, Suspend, ForceCheckpoint, ForceCheckpointReturns, TaskEnds, Drop
    <3> QED
      BY <3>1, <3>2, <3>3
  <2> HIDE DEF Now
  <2>5. \A s \in Task : pc'[s] \in {"pushed", "waiting"} => Now(s)
    BY <2>3, <2>4
  <2> QED
    BY <2>5, ServedFrom DEF Now
<1>2. ASSUME WorkerStep PROVE CallersServed'
  <2>1. UNCHANGED <<pc, pos, act>>
    BY <1>2 DEF WorkerStep, TakeBatch, FindQueueEmpty, BatchAcknowledged, ReleaseBatch,
       BatchFailed, ReleaseFailedBatch, DrainQueue, TerminateForFailure, CheckRetryWaiting,
       CooldownElapsed, StopProcessing, taskVars
  <2>2. /\ notified \subseteq notified'
        /\ \A u \in UnderWay : u \in UnderWay' \/ <<u.task, u.call>> \in notified'
    BY <1>2, WayOrPermit
  <2>3. CASE StopProcessing
    <3>1. UnderWay = {} /\ notified' = notified
      BY <1>a, <2>3, NoUpdates DEF StopProcessing, EndsQuietly, OneBatchInFlight, UnderWay
    <3>2. \A t \in Task : pc'[t] \in {"pushed", "waiting"} => <<t, pos'[t]>> \in notified'
      BY <2>1, <3>1 DEF CallersServed, Served
    <3> QED
      BY <3>2, ServedFrom
  <2>4. CASE ~StopProcessing
    <3>1. isProcessing' = isProcessing
      BY <1>2, <2>4 DEF WorkerStep, TakeBatch, FindQueueEmpty, BatchAcknowledged,
         ReleaseBatch, BatchFailed, ReleaseFailedBatch, DrainQueue, TerminateForFailure,
         CheckRetryWaiting, CooldownElapsed
    <3>2. ASSUME NEW t \in Task, pc'[t] \in {"pushed", "waiting"} PROVE Now(t)
      <4>1. /\ CurrentUpdate(t)' = CurrentUpdate(t)
            /\ CurrentUpdate(t).task = t /\ CurrentUpdate(t).call = pos[t]
        BY <2>1 DEF CurrentUpdate, CurrentCall
      <4>2. Served(t)
        BY <2>1, <3>2 DEF CallersServed
      <4> QED
        BY <2>1, <2>2, <3>1, <4>1, <4>2 DEF Served
    <3> QED
      BY <3>2, ServedFrom
  <2> QED
    BY <2>3, <2>4
<1>3. CASE ServiceStep \/ RuntimeStep \/ UNCHANGED vars
  <2>1. UNCHANGED <<pos, act, notified, batch, queue, isProcessing>>
    BY <1>3 DEF ServiceStep, RuntimeStep, HandlerReturns, TerminationWins, ArmNotification,
       CheckQueue, NotificationArrives, CheckpointLargeResult, LargeResultCheckpointed,
       Respond, vars, managerVars, quietVars, taskVars, queueVars, workerVars, notifyVars
  <2>2. \A t \in Task : pc'[t] \in {"pushed", "waiting"} => pc'[t] = pc[t]
    BY <1>3, <1>a DEF ServiceStep, RuntimeStep, HandlerReturns, TerminationWins,
       ArmNotification, CheckQueue, NotificationArrives, CheckpointLargeResult,
       LargeResultCheckpointed, Respond, vars, managerVars, quietVars, taskVars
  <2>3. UnderWay' = UnderWay
    BY <2>1 DEF UnderWay, Updates
  <2> QED
    BY <1>b, <2>1, <2>2, <2>3, ServedFrom
<1> QED
  BY <1>1, <1>2, <1>3 DEF Next

\* The worker has the thread from the empty queue, or the failed batch, to its end.
LEMMA EndsQuietlyStep ==
  ASSUME ~Preemptive, WakeInv, [Next]_vars
  PROVE  EndsQuietly'
<1> USE DEF WakeInv
<1>a. /\ TypeOK /\ MainIsIdle /\ Main \in Task /\ Main # Worker /\ Nobody # Worker
      /\ \A t \in Task : t # Worker
  BY ActorAssumption DEF LogInv, TokenInv, TypedInv, TypeInvariant
<1> SUFFICES ASSUME worker' \in {"terminating", "stopping"}
             PROVE  queue' = <<>> /\ running' = Worker
  BY DEF EndsQuietly
<1>1. CASE WorkerStep
  <2>1. CASE FindQueueEmpty
    BY <2>1 DEF FindQueueEmpty, Step, queueVars
  <2>2. CASE DrainQueue
    BY <2>2 DEF DrainQueue, Step
  <2>3. CASE TerminateForFailure
    BY <2>3 DEF TerminateForFailure, EndsQuietly, Step, queueVars
  <2>4. CASE ~FindQueueEmpty /\ ~DrainQueue /\ ~TerminateForFailure
    <3>1. FALSE
      BY <1>1, <2>4 DEF WorkerStep, TakeBatch, BatchAcknowledged, ReleaseBatch, BatchFailed,
         ReleaseFailedBatch, CheckRetryWaiting, CooldownElapsed, StopProcessing
    <3> QED
      BY <3>1
  <2> QED
    BY <2>1, <2>2, <2>3, <2>4
<1>2. CASE ~WorkerStep
  <2>1. worker \in {"terminating", "stopping"}
    <3>1. \A t \in Task : TaskStep(t) \/ TaskEnds(t) => worker' = worker \/ worker' = "build"
      BY DEF TaskStep, EnterCheckpoint, Enqueue, StartProcessing, CheckpointReturns,
         SuspendForRetry, Suspend, ForceCheckpoint, ForceCheckpointReturns, TaskEnds, Drop,
         workerVars
    <3>2. ServiceStep \/ RuntimeStep \/ UNCHANGED vars => worker' = worker
      BY DEF ServiceStep, RuntimeStep, HandlerReturns, TerminationWins, ArmNotification,
         CheckQueue, NotificationArrives, CheckpointLargeResult, LargeResultCheckpointed,
         Respond, vars, managerVars, quietVars, workerVars
    <3> QED
      BY <1>2, <3>1, <3>2 DEF Next
  <2>2. queue = <<>> /\ running = Worker
    BY <2>1 DEF EndsQuietly
  <2>3. \A t \in Task : ~TaskStep(t) /\ ~TaskEnds(t)
    BY <1>a, <2>2, Holder
  <2>4. ~RuntimeStep
    BY <1>a, <2>2, Holder
  <2> QED
    BY <1>2, <2>2, <2>3, <2>4 DEF Next, ServiceStep, vars, managerVars, quietVars,
       queueVars
<1> QED
  BY <1>1, <1>2

\* A push is followed by the start of a worker before anybody else has the thread.
LEMMA QueueHasWorkerStep ==
  ASSUME ~Preemptive, WakeInv, [Next]_vars
  PROVE  QueueHasWorker'
<1> USE DEF WakeInv
<1>a. /\ TypeOK /\ MainIsIdle /\ Main \in Task /\ pc \in [Task -> TaskPc]
      /\ OneBatchInFlight
  BY ActorAssumption DEF LogInv, TokenInv, TypedInv, TypeInvariant, TypeOK
<1> SUFFICES ASSUME queue' # <<>>, ~isProcessing'
             PROVE  \E t \in Task : pc'[t] = "pushed"
  BY DEF QueueHasWorker
<1>1. ASSUME NEW t \in Task, TaskStep(t) \/ TaskEnds(t)
      PROVE  \E s \in Task : pc'[s] = "pushed"
  <2>1. CASE Enqueue(t)
    BY <1>a, <2>1 DEF Enqueue
  <2>2. CASE StartProcessing(t)
    BY <2>2 DEF StartProcessing, workerVars
  <2>3. CASE ~Enqueue(t) /\ ~StartProcessing(t)
    <3>1. queue' = queue /\ isProcessing' = isProcessing
      BY <1>1, <2>3 DEF TaskStep, EnterCheckpoint, CheckpointReturns, SuspendForRetry,
         Suspend, ForceCheckpoint, ForceCheckpointReturns, TaskEnds, Drop, queueVars,
         workerVars
    <3>2. PICK s \in Task : pc[s] = "pushed"
      BY <3>1 DEF QueueHasWorker
    <3>3. pc'[s] = "pushed"
      <4>1. CASE s # t
        BY <1>a, <1>1, <3>2, <4>1, OthersStay
      <4>2. CASE s = t
        BY <1>1, <2>3, <3>2, <4>2 DEF TaskStep, EnterCheckpoint, Ready, CheckpointReturns,
           SuspendForRetry, Suspend, ForceCheckpoint, ForceCheckpointReturns, TaskEnds, Drop
      <4> QED
        BY <4>1, <4>2
    <3> QED
      BY <3>3
  <2> QED
    BY <2>1, <2>2, <2>3
<1>2. CASE WorkerStep
  <2>1. CASE StopProcessing
    BY <2>1 DEF StopProcessing, EndsQuietly, queueVars
  <2>2. CASE ~StopProcessing
    <3>1. isProcessing' = isProcessing /\ worker # "none"
      BY <1>2, <2>2 DEF WorkerStep, TakeBatch, FindQueueEmpty, BatchAcknowledged,
         ReleaseBatch, BatchFailed, ReleaseFailedBatch, DrainQueue, TerminateForFailure,
         CheckRetryWaiting, CooldownElapsed
    <3> QED
      BY <1>a, <3>1 DEF OneBatchInFlight
  <2> QED
    BY <2>1, <2>2
<1>3. CASE ServiceStep \/ RuntimeStep \/ UNCHANGED vars
  <2>1. UNCHANGED <<queue, isProcessing>>
    BY <1>3 DEF ServiceStep, RuntimeStep, HandlerReturns, TerminationWins, ArmNotification,
       CheckQueue, NotificationArrives, CheckpointLargeResult, LargeResultCheckpointed,
       Respond, vars, managerVars, quietVars, queueVars, workerVars
  <2>2. PICK s \in Task : pc[s] = "pushed"
    BY <2>1 DEF QueueHasWorker
  <2>3. pc'[s] = pc[s]
    BY <1>3, <1>a, <2>2 DEF ServiceStep, RuntimeStep, HandlerReturns, TerminationWins,
       ArmNotification, CheckQueue, NotificationArrives, CheckpointLargeResult,
       LargeResultCheckpointed, Respond, vars, managerVars, quietVars, taskVars, MainIsIdle,
       Finished
  <2> QED
    BY <2>2, <2>3
<1> QED
  BY <1>1, <1>2, <1>3 DEF Next

\* The runtime looks at the queue after it armed its notification.
LEMMA RuntimeWokenStep ==
  ASSUME ~Preemptive, WakeInv, [Next]_vars
  PROVE  RuntimeWoken'
<1> USE DEF WakeInv
<1>a. /\ TypeOK /\ MainIsIdle /\ Main \in Task /\ Main # Nobody
  BY ActorAssumption DEF LogInv, TokenInv, TypedInv, TypeInvariant
<1> SUFFICES ASSUME rt' = "await" PROVE idleNotified' \/ isProcessing'
  BY DEF RuntimeWoken
<1>1. CASE CheckQueue
  <2>1. ~QueueQuiet /\ rt = "check" /\ isProcessing' = isProcessing
    BY <1>1 DEF CheckQueue, quietVars, workerVars
  <2>2. running \in {Nobody, Main}
    BY <1>1, Holder DEF RuntimeStep
  <2>3. ~\E t \in Task : pc[t] = "pushed"
    <3> SUFFICES ASSUME NEW t \in Task, pc[t] = "pushed" PROVE FALSE
      OBVIOUS
    <3>1. IsInside(t) /\ running = t
      BY DEF Inside, IsInside
    <3>2. ~IsInside(Main) /\ t # Nobody
      BY <1>a, <2>1, MainRests, ActorAssumption
    <3> QED
      BY <2>2, <3>1, <3>2
  <2> QED
    BY <2>1, <2>3 DEF QueueQuiet, QueueHasWorker
<1>2. CASE ~CheckQueue
  <2>1. rt = "await" /\ ~RuntimeStep
    BY <1>2, RuntimeAlone DEF RuntimeStep, HandlerReturns, TerminationWins,
       ArmNotification, NotificationArrives, CheckpointLargeResult,
       LargeResultCheckpointed, Respond
  <2>2. idleNotified \/ isProcessing
    BY <2>1 DEF RuntimeWoken
  <2>3. ASSUME NEW t \in Task, TaskStep(t) \/ TaskEnds(t)
        PROVE  idleNotified' = idleNotified /\ (isProcessing => isProcessing')
    <3>1. CASE StartProcessing(t)
      BY <3>1 DEF StartProcessing, notifyVars, workerVars
    <3>2. CASE CheckpointReturns(t)
      BY <3>2 DEF CheckpointReturns, workerVars
    <3>3. CASE ~StartProcessing(t) /\ ~CheckpointReturns(t)
      <4>1. UNCHANGED <<idleNotified, isProcessing>>
        BY <2>3, <3>3 DEF TaskStep, EnterCheckpoint, Enqueue, SuspendForRetry, Suspend,
           ForceCheckpoint, ForceCheckpointReturns, TaskEnds, Drop, notifyVars, workerVars
      <4> QED
        BY <4>1
    <3> QED
      BY <3>1, <3>2, <3>3
  <2>4. ASSUME WorkerStep
        PROVE  \/ idleNotified'
               \/ idleNotified' = idleNotified /\ isProcessing' = isProcessing
    BY <2>4 DEF WorkerStep, TakeBatch, FindQueueEmpty, BatchAcknowledged, ReleaseBatch,
       BatchFailed, ReleaseFailedBatch, DrainQueue, TerminateForFailure, CheckRetryWaiting,
       CooldownElapsed, StopProcessing, notifyVars
  <2>5. ASSUME ServiceStep \/ UNCHANGED vars
        PROVE  idleNotified' = idleNotified /\ isProcessing' = isProcessing
    BY <2>5 DEF ServiceStep, vars, managerVars, quietVars, notifyVars, workerVars
  <2> QED
    BY <2>1, <2>2, <2>3, <2>4, <2>5 DEF Next
<1> QED
  BY <1>1, <1>2

LEMMA WakeNext ==
  ASSUME ~Preemptive, WakeInv, [Next]_vars
  PROVE  WakeInv'
<1>1. TokenInv /\ LogInv /\ Inside
  BY DEF WakeInv, LogInv
<1>2. LogInv' /\ Inside'
  BY <1>1, LogNext, InsideStep
<1> QED
  BY <1>2, ServedStep, EndsQuietlyStep, QueueHasWorkerStep, RuntimeWokenStep DEF WakeInv

\* On a current-thread runtime no wake-up is lost, whatever the program and the failures:
\* who waits has its permit or a worker that will bring it (queue.rs).
THEOREM NobodyIsForgotten ==
  ASSUME ~Preemptive PROVE Spec => []NoWakeupLost
<1>1. HandlerInit => WakeInv
  <2> SUFFICES ASSUME HandlerInit PROVE WakeInv
    OBVIOUS
  <2>1. LogInv /\ Inside
    BY LogInit, OrderInit DEF OrderInv
  <2>2. \A t \in Task : pc[t] \in {"unborn", "body"}
    BY DEF HandlerInit, Init
  <2>3. queue = <<>> /\ worker = "none" /\ rt = "select"
    BY DEF HandlerInit, Init
  <2> QED
    BY <2>1, <2>2, <2>3 DEF WakeInv, CallersServed, EndsQuietly, QueueHasWorker, RuntimeWoken
<1>2. WakeInv /\ [Next]_vars => WakeInv'
  BY WakeNext
<1>3. WakeInv => NoWakeupLost
  BY DEF WakeInv, CallersServed, Served, RuntimeWoken, NoWakeupLost, UnderWay
<1> QED
  BY <1>1, <1>2, <1>3, PTL DEF Spec
====
