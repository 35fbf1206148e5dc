------------------------- MODULE DurableHandlerProofs -------------------------
(***************************************************************************)
(* Theorems about one invocation, for any tasks, programs, sizes, failures *)
(* and either scheduler.                                                   *)
(***************************************************************************)
EXTENDS DurableHandlerProps, SequenceTheorems, TLAPS

-----------------------------------------------------------------------------
(***************************************************************************)
(* Type correctness.                                                       *)
(***************************************************************************)

\* A task that is inside a call is at a position of its program.
InCall ==
  \A t \in Task : pc[t] \in {"tracked", "pushed", "waiting", "refreshing"} =>
                    pos[t] <= Len(Program[t])

\* The runtime drains the queue only when it knows what it will answer.
Chosen == rt # "select" => result # "none"

TypedInv == TypeInvariant /\ InCall /\ Chosen

\* The call a task is at is a Call, and its update an Update.
LEMMA CurrentCallType ==
  ASSUME TypeOK, NEW t \in Task, pos[t] <= Len(Program[t])
  PROVE  /\ CurrentCall(t) \in Call
         /\ CurrentCall(t).op \in Op
         /\ CurrentUpdate(t) \in Update
<1>1. pos[t] \in 1..Len(Program[t])
  BY DEF TypeOK
<1>2. Program[t] \in Seq(Call)
  BY ProgramAssumption
<1>3. CurrentCall(t) \in Call
  BY <1>1, <1>2 DEF CurrentCall
<1>4. CurrentCall(t).op \in Op
  BY <1>3 DEF Call
<1>5. CurrentUpdate(t) \in Update
  BY <1>1, <1>4 DEF CurrentUpdate, Update, TypeOK
<1> QED
  BY <1>3, <1>4, <1>5

\* The scheduler's variable names an actor.
LEMMA StepType ==
  ASSUME NEW actor \in Task \cup {Worker}, NEW more, Step(actor, more)
  PROVE  running' \in Task \cup {Worker, Nobody}
  BY DEF Step

LEMMA TerminateType ==
  ASSUME TerminationTypeOK, NEW reason \in TerminationReason, Terminate(reason)
  PROVE  TerminationTypeOK'
  BY DEF Terminate, TerminationTypeOK, terminationVars

LEMMA LifecycleType ==
  ASSUME TypeOK, NEW o \in Op, NEW a \in Checkpointed
  PROVE  LifecycleAfter(o, a) \in Lifecycle
  BY DEF LifecycleAfter, Lifecycle, Checkpointed, Completion

\* The updates of a sequence of updates, and what they are reduced to.
LEMMA UpdatesType ==
  ASSUME NEW us \in Seq(Update)
  PROVE  /\ Updates(us) \in SUBSET Update
         /\ Coalesce(us) \in SUBSET Update
         /\ Completions(us) \in SUBSET Op
         /\ Permits(us) \in SUBSET (Task \X Nat)
<1>1. \A i \in DOMAIN us : us[i] \in Update
  OBVIOUS
<1>2. Updates(us) \in SUBSET Update /\ Coalesce(us) \in SUBSET Update
  BY <1>1 DEF Updates, Coalesce
<1>3. Completions(us) \in SUBSET Op
  BY <1>2 DEF Completions, Update
<1>4. Permits(us) \in SUBSET (Task \X Nat)
  BY <1>2 DEF Permits, Update
<1> QED
  BY <1>2, <1>3, <1>4

LEMMA TypedInit == HandlerInit => TypedInv
<1> SUFFICES ASSUME HandlerInit PROVE TypedInv
  OBVIOUS
<1>1. HandlerTypeOK
  BY DEF HandlerInit, HandlerTypeOK, RuntimePc, HandlerResult, Output
<1>2. TypeOK
  <2> USE ActorAssumption DEF HandlerInit, Init
  <2>1. pc \in [Task -> TaskPc] /\ pos \in [Task -> Nat \ {0}]
    BY DEF TaskPc
  <2>2. act \in [Task -> Checkpointed] /\ lifecycle \in [Op -> Lifecycle]
    BY DEF Checkpointed, Lifecycle
  <2>3. rpc \in [Task \cup {Worker} -> Rpc]
    BY DEF Rpc, Idle
  <2>4. stored \in [Op -> Checkpointed \cup {"None"}]
    BY DEF Checkpointed
  <2>5. /\ queue \in Seq(Update) /\ batch \in Seq(Update)
        /\ log \in Seq(Update) /\ accepted \in Seq(Update)
    OBVIOUS
  <2>6. TerminationTypeOK /\ worker \in WorkerPc
    BY DEF TerminationInit, TerminationTypeOK, WorkerPc
  <2> QED
    BY <2>1, <2>2, <2>3, <2>4, <2>5, <2>6 DEF TypeOK
<1>3. InCall /\ Chosen
  BY DEF HandlerInit, Init, InCall, Chosen
<1> QED
  BY <1>1, <1>2, <1>3 DEF TypedInv, TypeInvariant

LEMMA TypedTaskStep ==
  ASSUME TypedInv, NEW t \in Task, TaskStep(t) \/ TaskEnds(t), UNCHANGED handlerVars
  PROVE  TypedInv'
<1> USE DEF TypedInv, TypeInvariant, TypeOK, InCall, ioVars, taskVars, queueVars,
            workerVars, callVars, notifyVars, serviceVars
<1>0. HandlerTypeOK' /\ Chosen'
  BY DEF HandlerTypeOK, Chosen, handlerVars
<1>1. ASSUME NEW a \in Checkpointed, EnterCheckpoint(t, a) PROVE TypeOK' /\ InCall'
  <2>1. t \in Task /\ pos[t] <= Len(Program[t])
    BY <1>1 DEF EnterCheckpoint, Ready
  <2>2. CurrentCall(t).op \in Op
    BY <2>1, CurrentCallType
  <2>3. LifecycleAfter(CurrentCall(t).op, a) \in Lifecycle
    BY <2>2, LifecycleType
  <2>4. running' \in Task \cup {Worker, Nobody}
    BY <1>1, StepType DEF EnterCheckpoint
  <2>5. TerminationTypeOK'
    BY <1>1 DEF EnterCheckpoint, terminationVars, TerminationTypeOK
  <2>6. pending' \in SUBSET Op /\ lifecycle' \in [Op -> Lifecycle]
    BY <1>1, <2>2, <2>3 DEF EnterCheckpoint
  <2>7. act' \in [Task -> Checkpointed] /\ pc' \in [Task -> TaskPc] /\ pos' = pos
    BY <1>1 DEF EnterCheckpoint, TaskPc
  <2>8. InCall'
    BY <1>1, <2>1, <2>7 DEF EnterCheckpoint
  <2> QED
    BY <1>1, <2>4, <2>5, <2>6, <2>7, <2>8 DEF EnterCheckpoint
<1>2. ASSUME Enqueue(t) PROVE TypeOK' /\ InCall'
  <2>1. CurrentUpdate(t) \in Update
    BY <1>2, CurrentCallType DEF Enqueue
  <2>2. running' \in Task \cup {Worker, Nobody}
    BY <1>2, StepType DEF Enqueue
  <2>3. TerminationTypeOK'
    BY <1>2 DEF Enqueue, terminationVars, TerminationTypeOK
  <2> QED
    BY <1>2, <2>1, <2>2, <2>3 DEF Enqueue, TaskPc
<1>3. ASSUME StartProcessing(t) PROVE TypeOK' /\ InCall'
  <2>1. running' \in Task \cup {Worker, Nobody}
    BY <1>3, StepType DEF StartProcessing
  <2>2. TerminationTypeOK'
    BY <1>3 DEF StartProcessing, terminationVars, TerminationTypeOK
  <2>3. worker' \in WorkerPc
    BY <1>3 DEF StartProcessing, WorkerPc
  <2>4. batch' \in Seq(Update)
    <3>1. <<>> \in Seq(Update)
      OBVIOUS
    <3>2. batch' = batch \/ batch' = <<>>
      BY <1>3 DEF StartProcessing
    <3> QED
      BY <3>1, <3>2
  <2>5. isProcessing' \in BOOLEAN
    BY <1>3 DEF StartProcessing
  <2>6. pc' \in [Task -> TaskPc] /\ pos' \in [Task -> Nat \ {0}]
    <3>1. \/ pc' = [pc EXCEPT ![t] = "waiting"] /\ pos' = pos
          \/ pc' = [pc EXCEPT ![t] = "body"] /\ pos' = [pos EXCEPT ![t] = @ + 1]
      BY <1>3 DEF StartProcessing
    <3>2. [pos EXCEPT ![t] = @ + 1] \in [Task -> Nat \ {0}]
      OBVIOUS
    <3> QED
      BY <3>1, <3>2 DEF TaskPc
  <2>7. InCall'
    BY <1>3 DEF StartProcessing, TaskPc
  <2> QED
    BY <1>3, <2>1, <2>2, <2>3, <2>4, <2>5, <2>6, <2>7 DEF StartProcessing
<1>4. ASSUME CheckpointReturns(t) PROVE TypeOK' /\ InCall'
  <2>1. running' \in Task \cup {Worker, Nobody}
    BY <1>4, StepType DEF CheckpointReturns
  <2>2. TerminationTypeOK'
    BY <1>4 DEF CheckpointReturns, terminationVars, TerminationTypeOK
  <2> QED
    BY <1>4, <2>1, <2>2 DEF CheckpointReturns, TaskPc
<1>5. ASSUME SuspendForRetry(t) PROVE TypeOK' /\ InCall'
  <2>1. running' \in Task \cup {Worker, Nobody}
    BY <1>5, StepType DEF SuspendForRetry
  <2>2. TerminationTypeOK'
    BY <1>5, TerminateType DEF SuspendForRetry, TerminationReason
  <2> QED
    BY <1>5, <2>1, <2>2 DEF SuspendForRetry, TaskPc
<1>6. ASSUME NEW a \in LocalAction, Suspend(t, a) PROVE TypeOK' /\ InCall'
  <2>1. running' \in Task \cup {Worker, Nobody}
    BY <1>6, StepType DEF Suspend
  <2>2. TerminationTypeOK'
    BY <1>6, TerminateType DEF Suspend, SuspendReason, TerminationReason
  <2>3. lifecycle' \in [Op -> Lifecycle]
    BY <1>6 DEF Suspend, Lifecycle
  <2> QED
    BY <1>6, <2>1, <2>2, <2>3 DEF Suspend, TaskPc
<1>7. ASSUME ForceCheckpoint(t) PROVE TypeOK' /\ InCall'
  <2>1. running' \in Task \cup {Worker, Nobody}
    BY <1>7, StepType DEF ForceCheckpoint
  <2>2. TerminationTypeOK'
    BY <1>7 DEF ForceCheckpoint, terminationVars, TerminationTypeOK
  <2>3. rpc' \in [Task \cup {Worker} -> Rpc]
    BY <1>7 DEF ForceCheckpoint, Rpc
  <2> QED
    BY <1>7, <2>1, <2>2, <2>3 DEF ForceCheckpoint, TaskPc, Ready
<1>8. ASSUME ForceCheckpointReturns(t) PROVE TypeOK' /\ InCall'
  <2>1. running' \in Task \cup {Worker, Nobody}
    BY <1>8, StepType DEF ForceCheckpointReturns
  <2>2. TerminationTypeOK'
    BY <1>8 DEF ForceCheckpointReturns, terminationVars, TerminationTypeOK
  <2>3. rpc' \in [Task \cup {Worker} -> Rpc]
    BY <1>8 DEF ForceCheckpointReturns, Rpc, Idle
  <2>4. token' \in Nat /\ finished' \in SUBSET Op
    BY <1>8 DEF ForceCheckpointReturns, TakeResponse, Rpc
  <2> QED
    BY <1>8, <2>1, <2>2, <2>3, <2>4 DEF ForceCheckpointReturns, TaskPc
<1>9. ASSUME TaskEnds(t) PROVE TypeOK' /\ InCall'
  <2>1. running' \in Task \cup {Worker, Nobody}
    BY <1>9, StepType DEF TaskEnds, Drop
  <2>2. TerminationTypeOK'
    BY <1>9 DEF TaskEnds, Drop, terminationVars, TerminationTypeOK
  <2> QED
    BY <1>9, <2>1, <2>2 DEF TaskEnds, Drop, TaskPc
<1> QED
  BY <1>0, <1>1, <1>2, <1>3, <1>4, <1>5, <1>6, <1>7, <1>8, <1>9 DEF TaskStep

\* The two halves of a sequence of updates are sequences of updates.
LEMMA SplitType ==
  ASSUME NEW q \in Seq(Update), NEW n \in 1..Len(q)
  PROVE  /\ SubSeq(q, 1, n) \in Seq(Update)
         /\ SubSeq(q, n + 1, Len(q)) \in Seq(Update)
<1>1. \A i \in 1..Len(q) : q[i] \in Update
  OBVIOUS
<1>2. SubSeq(q, 1, n) \in Seq(Update)
  BY <1>1, SubSeqProperties
<1>3. SubSeq(q, n + 1, Len(q)) \in Seq(Update)
  BY <1>1, SubSeqProperties
<1> QED
  BY <1>2, <1>3

LEMMA TypedWorkerStep ==
  ASSUME TypedInv, WorkerStep, UNCHANGED handlerVars
  PROVE  TypedInv'
<1> USE DEF TypedInv, TypeInvariant, TypeOK, InCall, ioVars, taskVars, queueVars,
            workerVars, callVars, notifyVars, serviceVars
<1>0. HandlerTypeOK' /\ Chosen'
  BY DEF HandlerTypeOK, Chosen, handlerVars
<1>a. <<>> \in Seq(Update)
  OBVIOUS
<1>1. ASSUME TakeBatch PROVE TypeOK' /\ InCall'
  <2>1. batch' \in Seq(Update) /\ queue' \in Seq(Update)
    BY <1>1, SplitType DEF TakeBatch
  <2>2. running' \in Task \cup {Worker, Nobody}
    BY <1>1, StepType DEF TakeBatch
  <2>3. TerminationTypeOK'
    BY <1>1 DEF TakeBatch, terminationVars, TerminationTypeOK
  <2>4. rpc' \in [Task \cup {Worker} -> Rpc]
    BY <1>1 DEF TakeBatch, Rpc
  <2> QED
    BY <1>1, <2>1, <2>2, <2>3, <2>4 DEF TakeBatch, WorkerPc
<1>2. ASSUME FindQueueEmpty \/ CheckRetryWaiting PROVE TypeOK' /\ InCall'
  <2>1. running' \in Task \cup {Worker, Nobody}
    BY <1>2, StepType DEF FindQueueEmpty, CheckRetryWaiting
  <2>2. TerminationTypeOK'
    BY <1>2 DEF FindQueueEmpty, CheckRetryWaiting, terminationVars, TerminationTypeOK
  <2> QED
    BY <1>2, <2>1, <2>2 DEF FindQueueEmpty, CheckRetryWaiting, WorkerPc
<1>3. ASSUME BatchAcknowledged PROVE TypeOK' /\ InCall'
  <2>1. running' \in Task \cup {Worker, Nobody}
    BY <1>3, StepType DEF BatchAcknowledged
  <2>2. TerminationTypeOK'
    BY <1>3 DEF BatchAcknowledged, terminationVars, TerminationTypeOK
  <2>3. rpc' \in [Task \cup {Worker} -> Rpc]
    BY <1>3 DEF BatchAcknowledged, Rpc, Idle
  <2>4. token' \in Nat /\ finished' \in SUBSET Op
    BY <1>3 DEF BatchAcknowledged, TakeResponse, Rpc
  <2> QED
    BY <1>3, <2>1, <2>2, <2>3, <2>4 DEF BatchAcknowledged, WorkerPc
<1>4. ASSUME ReleaseBatch PROVE TypeOK' /\ InCall'
  <2>1. running' \in Task \cup {Worker, Nobody}
    BY <1>4, StepType DEF ReleaseBatch
  <2>2. TerminationTypeOK'
    BY <1>4 DEF ReleaseBatch, terminationVars, TerminationTypeOK
  <2>3. pending' \in SUBSET Op /\ notified' \in SUBSET (Task \X Nat)
    BY <1>4, UpdatesType DEF ReleaseBatch
  <2> QED
    BY <1>4, <1>a, <2>1, <2>2, <2>3 DEF ReleaseBatch, WorkerPc
<1>5. ASSUME BatchFailed PROVE TypeOK' /\ InCall'
  <2>1. running' \in Task \cup {Worker, Nobody}
    BY <1>5, StepType DEF BatchFailed
  <2>2. TerminationTypeOK'
    BY <1>5 DEF BatchFailed, terminationVars, TerminationTypeOK
  <2>3. rpc' \in [Task \cup {Worker} -> Rpc]
    BY <1>5 DEF BatchFailed, Rpc, Idle
  <2> QED
    BY <1>5, <2>1, <2>2, <2>3 DEF BatchFailed, WorkerPc
<1>6. ASSUME ReleaseFailedBatch \/ DrainQueue PROVE TypeOK' /\ InCall'
  <2>1. running' \in Task \cup {Worker, Nobody}
    BY <1>6, StepType DEF ReleaseFailedBatch, DrainQueue
  <2>2. TerminationTypeOK'
    BY <1>6 DEF ReleaseFailedBatch, DrainQueue, terminationVars, TerminationTypeOK
  <2>3. notified' \in SUBSET (Task \X Nat) /\ lost' \in SUBSET Update
    BY <1>6, UpdatesType DEF ReleaseFailedBatch, DrainQueue
  <2> QED
    BY <1>6, <1>a, <2>1, <2>2, <2>3 DEF ReleaseFailedBatch, DrainQueue, WorkerPc
<1>7. ASSUME TerminateForFailure \/ CooldownElapsed PROVE TypeOK' /\ InCall'
  <2>1. running' \in Task \cup {Worker, Nobody}
    BY <1>7, StepType DEF TerminateForFailure, CooldownElapsed
  <2>2. TerminationTypeOK'
    <3>1. CASE UNCHANGED terminationVars
      BY <3>1 DEF terminationVars, TerminationTypeOK
    <3>2. CASE Terminate("CheckpointFailed")
      BY <3>2, TerminateType DEF TerminationReason
    <3>3. CASE Terminate("RetryScheduled")
      BY <3>3, TerminateType DEF TerminationReason
    <3> QED
      BY <1>7, <3>1, <3>2, <3>3 DEF TerminateForFailure, CooldownElapsed
  <2> QED
    BY <1>7, <2>1, <2>2 DEF TerminateForFailure, CooldownElapsed, WorkerPc
<1>8. ASSUME StopProcessing PROVE TypeOK' /\ InCall'
  <2>1. running' \in Task \cup {Worker, Nobody}
    BY <1>8, StepType DEF StopProcessing
  <2>2. TerminationTypeOK'
    BY <1>8 DEF StopProcessing, terminationVars, TerminationTypeOK
  <2> QED
    BY <1>8, <2>1, <2>2 DEF StopProcessing, WorkerPc
<1> QED
  BY <1>0, <1>1, <1>2, <1>3, <1>4, <1>5, <1>6, <1>7, <1>8 DEF WorkerStep

\* What the service records has its type.
LEMMA RecordType ==
  ASSUME TypeOK, NEW r \in Task \cup {Worker}, Record(r)
  PROVE  /\ stored' \in [Op -> Checkpointed \cup {"None"}]
         /\ log' \in Seq(Update)
         /\ serviceToken' \in Nat
<1>1. Request(r) \in Seq(Update)
  <2>1. <<>> \in Seq(Update)
    OBVIOUS
  <2> QED
    BY <2>1 DEF Request, TypeOK
<1>2. Coalesce(Request(r)) \in SUBSET Update
  BY <1>1, UpdatesType
<1>3. log' \in Seq(Update)
  BY <1>1, ConcatProperties DEF Record, TypeOK
<1>4. ASSUME NEW o \in Op, \E u \in Coalesce(Request(r)) : u.op = o
      PROVE  (CHOOSE u \in Coalesce(Request(r)) : u.op = o).action \in Checkpointed
  BY <1>2, <1>4 DEF Update
<1>5. stored' \in [Op -> Checkpointed \cup {"None"}]
  BY <1>4 DEF Record, TypeOK
<1> QED
  BY <1>3, <1>5 DEF Record, TypeOK

LEMMA TypedServiceStep ==
  ASSUME TypedInv, ServiceStep, UNCHANGED handlerVars
  PROVE  TypedInv'
<1>1. HandlerTypeOK' /\ Chosen'
  BY DEF TypedInv, TypeInvariant, HandlerTypeOK, Chosen, handlerVars
<1>2. InCall'
  BY DEF TypedInv, InCall, ServiceStep, taskVars
<1>3. PICK r \in Task \cup {Worker} :
        ServiceAccepts(r) \/ ServiceRefuses(r) \/ ResponseLost(r)
  BY DEF ServiceStep
<1>4. TypeOK
  BY DEF TypedInv, TypeInvariant
<1>5. rpc' \in [Task \cup {Worker} -> Rpc]
  <2>0. rpc[r] \in Rpc
    BY <1>4 DEF TypeOK
  <2>1. [rpc[r] EXCEPT !.st = "err"] \in Rpc
    BY <2>0 DEF Rpc
  <2>2. [st |-> "ok", token |-> serviceToken + 1] \in Rpc
    BY <1>4 DEF TypeOK, Rpc
  <2>3. \E x \in Rpc : rpc' = [rpc EXCEPT ![r] = x]
    BY <1>3, <2>1, <2>2 DEF ServiceAccepts, ServiceRefuses, ResponseLost
  <2> QED
    BY <1>4, <2>3 DEF TypeOK
<1>6. /\ stored' \in [Op -> Checkpointed \cup {"None"}]
      /\ log' \in Seq(Update)
      /\ serviceToken' \in Nat
  <2>1. CASE Record(r)
    BY <1>4, <2>1, RecordType
  <2>2. CASE UNCHANGED serviceVars
    BY <1>4, <2>2 DEF serviceVars, TypeOK
  <2> QED
    BY <1>3, <2>1, <2>2 DEF ServiceAccepts, ServiceRefuses, ResponseLost
<1>7. TerminationTypeOK'
  BY <1>4 DEF ServiceStep, TypeOK, terminationVars, TerminationTypeOK
<1>8. TypeOK'
  BY <1>4, <1>5, <1>6, <1>7 DEF ServiceStep, TypeOK, taskVars, queueVars,
     workerVars, callVars, notifyVars
<1> QED
  BY <1>1, <1>2, <1>8 DEF TypedInv, TypeInvariant

LEMMA TypedRuntimeStep ==
  ASSUME TypedInv, RuntimeStep
  PROVE  TypedInv'
<1> USE DEF TypedInv, TypeInvariant
<1>1. running' \in Task \cup {Worker, Nobody}
  BY ActorAssumption, StepType DEF RuntimeStep, HandlerReturns, TerminationWins,
     ArmNotification, CheckQueue, NotificationArrives, CheckpointLargeResult,
     LargeResultCheckpointed, Respond
<1>2. ASSUME UNCHANGED quietVars PROVE TypeInvariant' /\ InCall'
  <2>1. TypeOK'
    BY <1>1, <1>2 DEF quietVars, ioVars, taskVars, queueVars, workerVars,
       callVars, notifyVars, serviceVars, terminationVars, TypeOK, TerminationTypeOK
  <2>2. InCall'
    BY <1>2 DEF quietVars, taskVars, InCall
  <2>3. ASSUME NEW r \in Returns, HandlerReturns(r) PROVE HandlerTypeOK'
    BY <2>3, HandlerAssumption DEF HandlerReturns, HandlerTypeOK, HandlerResult, RuntimePc
  <2>4. ASSUME TerminationWins PROVE HandlerTypeOK'
    BY <2>4 DEF TerminationWins, HandlerTypeOK, HandlerResult, RuntimePc
  <2>5. ASSUME CheckQueue \/ NotificationArrives \/ LargeResultCheckpointed
        PROVE  HandlerTypeOK'
    BY <2>5 DEF CheckQueue, NotificationArrives, LargeResultCheckpointed,
       HandlerTypeOK, RuntimePc
  <2>6. ASSUME Respond PROVE HandlerTypeOK'
    <3>1. result # "none" => OutputFor(result, terminated) \in Output
      BY DEF OutputFor, Output, HandlerTypeOK, HandlerResult
    <3>2. result # "none"
      BY <2>6 DEF Respond, Chosen
    <3> QED
      BY <2>6, <3>1, <3>2 DEF Respond, HandlerTypeOK, RuntimePc
  <2>7. ASSUME ArmNotification \/ CheckpointLargeResult PROVE HandlerTypeOK'
    BY <2>7 DEF ArmNotification, CheckpointLargeResult, HandlerTypeOK, RuntimePc
  <2> QED
    BY <2>1, <2>2, <2>3, <2>4, <2>5, <2>6, <2>7 DEF RuntimeStep
<1>3. ASSUME ArmNotification PROVE TypeInvariant' /\ InCall'
  BY <1>1, <1>3 DEF ArmNotification, ioVars, taskVars, queueVars, workerVars,
     callVars, notifyVars, serviceVars, terminationVars, TypeOK, TerminationTypeOK, InCall,
     HandlerTypeOK, RuntimePc
<1>4. ASSUME CheckpointLargeResult PROVE TypeInvariant' /\ InCall'
  BY <1>1, <1>4, ActorAssumption DEF CheckpointLargeResult, ioVars, taskVars,
     queueVars, workerVars, callVars, notifyVars, serviceVars, terminationVars, TypeOK,
     TerminationTypeOK, InCall, HandlerTypeOK, RuntimePc, TaskPc
<1>5. Chosen'
  BY HandlerAssumption DEF RuntimeStep, HandlerReturns, TerminationWins, ArmNotification,
     CheckQueue, NotificationArrives, CheckpointLargeResult, LargeResultCheckpointed,
     Respond, Chosen
<1> QED
  BY <1>2, <1>3, <1>4, <1>5 DEF RuntimeStep, HandlerReturns, TerminationWins, CheckQueue,
     NotificationArrives, LargeResultCheckpointed, Respond

LEMMA TypedStep == TypedInv /\ [Next]_vars => TypedInv'
<1> SUFFICES ASSUME TypedInv, [Next]_vars PROVE TypedInv'
  OBVIOUS
<1>1. CASE UNCHANGED vars
  BY <1>1 DEF vars, managerVars, quietVars, handlerVars, ioVars, taskVars, queueVars,
     workerVars, callVars, notifyVars, serviceVars, terminationVars, TypedInv,
     TypeInvariant, TypeOK, TerminationTypeOK, HandlerTypeOK, InCall, Chosen
<1>2. CASE Next
  BY <1>2, TypedTaskStep, TypedWorkerStep, TypedServiceStep, TypedRuntimeStep DEF Next
<1> QED
  BY <1>1, <1>2

\* Every variable has its type in every state of every execution.
THEOREM TypeCorrect == Spec => []TypeInvariant
<1>1. TypedInv => TypeInvariant
  BY DEF TypedInv
<1> QED
  BY <1>1, TypedInit, TypedStep, PTL DEF Spec
=============================================================================
