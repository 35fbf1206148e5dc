--------------------------- MODULE SuspensionProofs ---------------------------
(***************************************************************************)
(* Proofs about Suspension, for every set of operations and ends and every *)
(* number of crashes and failed batches.                                   *)
(***************************************************************************)
EXTENDS Suspension, TLAPS

-----------------------------------------------------------------------------
(* The inductive invariant.                                                *)

\* Nothing is queued but the one START, while nothing is recorded.
OneStart ==
  /\ queue # <<>> =>
       /\ pc = "starting"
       /\ Len(queue) = 1
       /\ queue[1].action = "Start"
       /\ record.status = "None"
  /\ starts = (IF record.status = "None" THEN 0 ELSE 1)

\* What the snapshot says of the record: it may lag behind, but not in what is final.
Lags ==
  /\ snapshot.status \in Done => record = snapshot
  /\ snapshot.status # "None" => record.status # "None"
  /\ pc = "replay" /\ snapshot.status = "None" => record.status = "None"

Resumable ==
  refusals = 0 =>
    /\ pc = "starting" => queue # <<>> \/ record.status # "None"
    /\ pc \in {"created", "submitting", "waiting", "refreshing", "suspended"} =>
         record.status # "None"

\* Only a callback has a submitter, which runs once the callback is on record and has
\* succeeded when the callback is waited for.  Callers that a failed batch released
\* find the invocation terminating.
Submitting ==
  /\ submitted # "None" => record.status # "None"
  /\ pc \in {"created", "submitting", "waiting"} => kind = "callback"
  /\ pc = "refreshing" => kind = "invoke"
  /\ pc = "submitting" => submitted = "None"
  /\ pc = "waiting" => submitted = "Succeeded"
  /\ ~terminating =>
       /\ pc = "starting" => queue # <<>> \/ record.status # "None"
       /\ pc \in {"created", "submitting"} => record.status # "None"

Settled ==
  /\ pc = "returned" => outcome = OutcomeOnRecord /\ outcome # Unset
  /\ \A o \in committed : o = OutcomeOnRecord /\ o # Unset

IdGiven == pc = "created" => held # "none"

IInv ==
  SuspensionTypeOK /\ OneStart /\ Lags /\ Resumable /\ Submitting /\ Settled /\ IdGiven

-----------------------------------------------------------------------------
(* Types.                                                                  *)

LEMMA RecordedOutcomeType ==
  ASSUME NEW r \in Record, r.status \in Done, kind \in Kinds
  PROVE  RecordedOutcome(r) \in Outcome
<1>1. Ok(0) \in Outcome /\ Ok(r.result) \in Outcome /\ Missing \in Outcome
      /\ OperationFailed \in Outcome
  BY DEF Record, Outcome, Ok, Missing, OperationFailed
<1> QED
  BY <1>1 DEF RecordedOutcome, Done

LEMMA OutcomeOnRecordType ==
  ASSUME record \in Record, kind \in Kinds
  PROVE  OutcomeOnRecord \in Outcome \cup {Unset}
<1>1. SubmitterFailed \in Outcome
  BY DEF SubmitterFailed, Outcome
<1> QED
  BY <1>1, RecordedOutcomeType DEF OutcomeOnRecord

LEMMA UnsetIsNoOutcome == Unset \notin Outcome
  BY DEF Unset, Outcome

\* Nothing of what the outcome rests on changes, and the operation does not return now.
LEMMA SettledStays ==
  ASSUME Settled, UNCHANGED <<record, kind, submitted, committed>>, pc' # "returned"
  PROVE  Settled'
<1>1. OutcomeOnRecord' = OutcomeOnRecord
  BY DEF OutcomeOnRecord, RecordedOutcome
<1> QED
  BY <1>1 DEF Settled

LEMMA StartType == START \in Update
  BY DEF START, Update

LEMMA AfterStart ==
  ASSUME record \in Record, NEW u \in Update, u.action = "Start"
  PROVE  /\ AfterUpdate(u) \in Record
         /\ AfterUpdate(u).status = "Started"
  BY DEF AfterUpdate, Record, Status

LEMMA Dequeued ==
  ASSUME NEW q \in Seq(Update), q # <<>>, Len(q) = 1
  PROVE  /\ Head(q) = q[1] /\ q[1] \in Update
         /\ Tail(q) = <<>>
<1>1. Head(q) = q[1] /\ Head(q) \in Update
  OBVIOUS
<1>2. Tail(q) \in Seq(Update) /\ Len(Tail(q)) = 0
  OBVIOUS
<1> QED
  <2>1. \A t \in Seq(Update) : Len(t) = 0 => t = <<>>
    OBVIOUS
  <2> QED
    BY <1>1, <1>2, <2>1

LEMMA Queued ==
  ASSUME NEW q, q = <<>>
  PROVE  /\ Append(q, START) # <<>>
         /\ Len(Append(q, START)) = 1
         /\ Append(q, START)[1] = START
         /\ Append(q, START) \in Seq(Update)
  BY StartType

LEMMA IInvInit == Init => IInv
<1> SUFFICES ASSUME Init PROVE IInv
  OBVIOUS
<1>1. Unrecorded \in Record /\ Missing \in Outcome
  BY DEF Unrecorded, Record, Status, Missing, Outcome
<1>2. 0 \in 0..MaxCrashes /\ 0 \in 0..MaxRefusals
  BY BoundsAssumption
<1>3. SuspensionTypeOK
  <2>1. InvocationTypeOK
    <3>1. <<>> \in Seq(Update)
      OBVIOUS
    <3> QED
      BY <1>1, <1>2, <3>1 DEF Init, InvocationInit, InvocationTypeOK
  <2> QED
    BY <1>1, <2>1 DEF Init, InvocationInit, SuspensionTypeOK, SuspensionPc, CallbackIds
<1>4. OneStart /\ Lags /\ Resumable /\ Submitting /\ Settled /\ IdGiven
  BY DEF Init, InvocationInit, Unrecorded, Done, OneStart, Lags, Resumable, Submitting,
     Settled, IdGiven
<1> QED
  BY <1>3, <1>4 DEF IInv

-----------------------------------------------------------------------------
(* The service and the outside.                                            *)

LEMMA IInvRecordUpdate ==
  ASSUME IInv, RecordUpdate \/ BatchFails, CountStarts
  PROVE  IInv'
<1>a. /\ queue \in Seq(Update) /\ record \in Record /\ snapshot \in Record /\ starts \in Nat
      /\ refusals \in Nat /\ OneStart /\ Lags /\ Resumable /\ Submitting /\ Settled
      /\ IdGiven
  BY BoundsAssumption DEF IInv, SuspensionTypeOK, InvocationTypeOK
<1>1. /\ queue # <<>> /\ pc = "starting" /\ record.status = "None" /\ starts = 0
      /\ Head(queue) \in Update /\ Head(queue).action = "Start" /\ Tail(queue) = <<>>
  BY <1>a, Dequeued DEF RecordUpdate, BatchFails, OneStart
<1>2. /\ AfterUpdate(Head(queue)) \in Record
      /\ AfterUpdate(Head(queue)).status = "Started"
      /\ AfterUpdate(Head(queue)) # record
  BY <1>a, <1>1, AfterStart
<1>3. \/ queue' = <<>> /\ pc' = "starting" /\ UNCHANGED <<snapshot, suspensionVars>>
      \/ /\ queue' = <<>> /\ pc' = "starting"
         /\ UNCHANGED <<snapshot, kind, held, delivered, submitted, outcome, committed>>
  BY <1>1 DEF RecordUpdate, BatchFails, CountStarts
<1>4. UNCHANGED <<snapshot, kind, held, delivered, submitted, outcome, committed>>
      /\ queue' = <<>> /\ pc' = "starting"
  BY <1>3 DEF suspensionVars
<1>5. \/ record' = record /\ starts' = 0
      \/ record' = AfterUpdate(Head(queue)) /\ starts' = 1
  BY <1>1, <1>2 DEF RecordUpdate, BatchFails, CountStarts
<1>6. SuspensionTypeOK'
  <2>1. refusals' \in 0..MaxRefusals
    BY BoundsAssumption DEF RecordUpdate, BatchFails, IInv, SuspensionTypeOK, InvocationTypeOK
  <2>2. record' \in Record /\ starts' \in Nat
    BY <1>a, <1>2, <1>5
  <2>3. terminating' \in BOOLEAN /\ crashes' = crashes
    BY DEF RecordUpdate, BatchFails, IInv, SuspensionTypeOK, InvocationTypeOK
  <2>4. InvocationTypeOK'
    BY <1>4, <2>1, <2>2, <2>3 DEF IInv, SuspensionTypeOK, InvocationTypeOK
  <2> QED
    BY <1>4, <2>2, <2>4 DEF IInv, SuspensionTypeOK, SuspensionPc
<1>7. OneStart'
  BY <1>1, <1>2, <1>4, <1>5 DEF OneStart
<1>8. Lags'
  BY <1>a, <1>1, <1>4 DEF Lags, Done
<1>9. Resumable'
  <2>1. CASE RecordUpdate
    <3>1. record'.status = "Started"
      BY <1>2, <2>1 DEF RecordUpdate
    <3> QED
      BY <1>4, <3>1 DEF Resumable
  <2>2. CASE BatchFails
    <3>1. refusals' # 0
      BY <1>a, <2>2 DEF BatchFails
    <3> QED
      BY <3>1 DEF Resumable
  <2> QED
    BY <2>1, <2>2
<1>10. Settled' /\ IdGiven'
  <2>1. submitted = "None"
    BY <1>a, <1>1 DEF Submitting
  <2>2. OutcomeOnRecord = Unset
    BY <1>1, <2>1 DEF OutcomeOnRecord, Done
  <2>3. committed = {}
    BY <1>a, <2>2 DEF Settled
  <2> QED
    BY <1>4, <2>3 DEF Settled, IdGiven
<1>11. Submitting'
  <2>1. submitted = "None"
    BY <1>a, <1>1 DEF Submitting
  <2>2. terminating' = TRUE \/ record'.status # "None"
    BY <1>2 DEF RecordUpdate, BatchFails
  <2> QED
    BY <1>4, <2>1, <2>2 DEF Submitting
<1> QED
  BY <1>6, <1>7, <1>8, <1>9, <1>10, <1>11 DEF IInv

LEMMA IInvOutsideEnds ==
  ASSUME IInv, OutsideEnds
  PROVE  IInv'
<1>a. /\ record \in Record /\ record.status = "Started" /\ OneStart /\ Lags /\ Resumable
      /\ Submitting /\ Settled /\ IdGiven
  BY DEF IInv, SuspensionTypeOK, InvocationTypeOK, OutsideEnds
<1>1. UNCHANGED <<snapshot, pc, queue, terminating, crashes, refusals, kind, held,
                  delivered, submitted, starts, outcome, committed>>
  BY DEF OutsideEnds, suspensionVars
<1>2. record' \in Record /\ record'.status # "None"
  <2>1. PICK end \in Ends, r \in Results :
          record' = [record EXCEPT !.status = end,
                                   !.result = IF end = "Succeeded" THEN r ELSE 0]
    BY DEF OutsideEnds
  <2>2. end \in {"Succeeded", "Failed", "Unknown"} /\ r \in Nat
    BY SuspensionAssumption
  <2>3. end \in Status /\ (IF end = "Succeeded" THEN r ELSE 0) \in Nat /\ end # "None"
    BY <2>2 DEF Status, Done
  <2>4. record' \in Record
    BY <1>a, <2>1, <2>3 DEF Record
  <2>5. record'.status = end
    BY <1>a, <2>1 DEF Record
  <2> QED
    BY <2>3, <2>4, <2>5
<1>3. SuspensionTypeOK'
  BY <1>1, <1>2 DEF IInv, SuspensionTypeOK, InvocationTypeOK
<1>4. OneStart' /\ Resumable' /\ Submitting' /\ IdGiven'
  BY <1>a, <1>1, <1>2 DEF OneStart, Resumable, Submitting, IdGiven
<1>5. Lags'
  BY <1>a, <1>1, <1>2 DEF Lags, Done
<1>6. Settled'
  <2>1. CASE kind = "callback" /\ submitted = "Failed"
    BY <1>a, <1>1, <2>1 DEF Settled, OutcomeOnRecord
  <2>2. CASE ~(kind = "callback" /\ submitted = "Failed")
    <3>1. OutcomeOnRecord = Unset
      BY <1>a, <2>2 DEF OutcomeOnRecord, Done
    <3> QED
      BY <1>a, <1>1, <3>1 DEF Settled
  <2> QED
    BY <2>1, <2>2
<1> QED
  BY <1>3, <1>4, <1>5, <1>6 DEF IInv

LEMMA IInvInvocation ==
  ASSUME IInv, Invoke \/ Crash \/ OtherOperationSuspends \/ InvocationEnds,
         UNCHANGED suspensionVars
  PROVE  IInv'
<1>a. /\ record \in Record /\ snapshot \in Record /\ pc \in SuspensionPc
      /\ OneStart /\ Lags /\ Resumable /\ Submitting /\ Settled /\ IdGiven
  BY DEF IInv, SuspensionTypeOK, InvocationTypeOK
<1>1. SuspensionTypeOK'
  <2>1. crashes' \in 0..MaxCrashes
    BY BoundsAssumption DEF Invoke, Crash, OtherOperationSuspends, InvocationEnds, IInv,
       SuspensionTypeOK, InvocationTypeOK
  <2>2. queue' \in Seq(Update)
    <3>1. <<>> \in Seq(Update) /\ queue \in Seq(Update)
      BY DEF IInv, SuspensionTypeOK, InvocationTypeOK
    <3> QED
      BY <3>1 DEF Invoke, Crash, OtherOperationSuspends, InvocationEnds
  <2>3. /\ record' \in Record /\ snapshot' \in Record /\ terminating' \in BOOLEAN
        /\ refusals' \in 0..MaxRefusals /\ pc' \in SuspensionPc
    BY DEF Invoke, Crash, OtherOperationSuspends, InvocationEnds, IInv, SuspensionTypeOK,
       InvocationTypeOK, SuspensionPc
  <2> QED
    BY <2>1, <2>2, <2>3 DEF IInv, suspensionVars, SuspensionTypeOK, InvocationTypeOK
<1>3. OneStart' /\ Lags' /\ Resumable' /\ IdGiven'
  BY <1>a DEF Invoke, Crash, OtherOperationSuspends, InvocationEnds, suspensionVars,
     OneStart, Lags, Resumable, IdGiven
<1>4. Submitting'
  BY <1>a DEF Invoke, Crash, OtherOperationSuspends, InvocationEnds, suspensionVars,
     Submitting
<1>5. Settled'
  <2>1. UNCHANGED <<record, kind, submitted, outcome, committed>>
    BY DEF Invoke, Crash, OtherOperationSuspends, InvocationEnds, suspensionVars
  <2>2. OutcomeOnRecord' = OutcomeOnRecord
    BY <2>1 DEF OutcomeOnRecord, RecordedOutcome
  <2>3. pc' = "returned" => pc = "returned"
    BY DEF Invoke, Crash, OtherOperationSuspends, InvocationEnds
  <2> QED
    BY <1>a, <2>1, <2>2, <2>3 DEF Settled
<1> QED
  BY <1>1, <1>3, <1>4, <1>5 DEF IInv

LEMMA IInvEnvironment ==
  ASSUME IInv, EnvironmentAction
  PROVE  IInv'
BY IInvRecordUpdate, IInvOutsideEnds, IInvInvocation DEF EnvironmentAction

-----------------------------------------------------------------------------
(* The operation.                                                          *)

LEMMA IInvReturnOrSuspend ==
  ASSUME IInv, ReturnOrSuspend, queue = <<>>,
         refusals = 0 => record.status # "None",
         kind = "callback" => submitted = "Succeeded"
  PROVE  IInv'
<1>a. /\ record \in Record /\ snapshot \in Record /\ kind \in Kinds
      /\ OneStart /\ Lags /\ Resumable /\ Submitting /\ Settled /\ IdGiven
  BY DEF IInv, SuspensionTypeOK, InvocationTypeOK
<1>1. UNCHANGED <<record, snapshot, queue, crashes, refusals, kind, held, delivered,
                  submitted, starts, committed>>
  BY DEF ReturnOrSuspend
<1>2. \/ /\ snapshot.status \in Done /\ pc' = "returned" /\ UNCHANGED terminating
         /\ outcome' = RecordedOutcome(snapshot)
      \/ pc' = "suspended" /\ terminating' = TRUE /\ UNCHANGED outcome
  BY DEF ReturnOrSuspend, IsOver, Found, Terminate
<1>3. outcome' \in Outcome
  BY <1>a, <1>2, RecordedOutcomeType DEF IInv, SuspensionTypeOK
<1>4. SuspensionTypeOK'
  BY <1>1, <1>2, <1>3 DEF IInv, SuspensionTypeOK, InvocationTypeOK, SuspensionPc
<1>5. OneStart' /\ Lags' /\ Resumable' /\ Submitting' /\ IdGiven'
  BY <1>a, <1>1, <1>2 DEF OneStart, Lags, Resumable, Submitting, IdGiven
<1>6. Settled'
  <2>1. CASE pc' = "returned"
    <3>1. record = snapshot /\ record.status \in Done /\ outcome' = RecordedOutcome(record)
      BY <1>a, <1>2, <2>1 DEF Lags
    <3>2. OutcomeOnRecord = RecordedOutcome(record)
      BY <3>1 DEF OutcomeOnRecord
    <3>3. OutcomeOnRecord' = OutcomeOnRecord
      BY <1>1 DEF OutcomeOnRecord, RecordedOutcome
    <3>4. outcome' # Unset
      BY <1>3, UnsetIsNoOutcome
    <3> QED
      BY <1>a, <1>1, <3>1, <3>2, <3>3, <3>4 DEF Settled
  <2>2. CASE pc' # "returned"
    BY <1>a, <1>1, <2>2, SettledStays
  <2> QED
    BY <2>1, <2>2
<1> QED
  BY <1>4, <1>5, <1>6 DEF IInv

LEMMA IInvStart ==
  ASSUME IInv, Start
  PROVE  IInv'
<1>a. /\ queue \in Seq(Update) /\ OneStart /\ Lags /\ Resumable /\ Submitting /\ Settled
      /\ IdGiven
  BY DEF IInv, SuspensionTypeOK, InvocationTypeOK
<1>1. /\ pc = "replay" /\ queue = <<>> /\ snapshot.status = "None" /\ record.status = "None"
      /\ UNCHANGED <<record, snapshot, terminating, crashes, refusals, suspensionVars>>
  BY <1>a DEF Start, NeedsStart, Found, OneStart, Lags
<1>2. \/ pc' = "parked" /\ queue' = <<>>
      \/ /\ pc' = "starting" /\ queue' # <<>> /\ Len(queue') = 1 /\ queue'[1] = START
         /\ queue' \in Seq(Update)
  BY <1>1, Queued DEF Start, Send
<1>3. SuspensionTypeOK'
  BY <1>a, <1>1, <1>2 DEF IInv, SuspensionTypeOK, InvocationTypeOK, SuspensionPc, suspensionVars
<1>4. OneStart' /\ Lags' /\ Resumable' /\ Submitting' /\ IdGiven'
  BY <1>a, <1>1, <1>2 DEF OneStart, Lags, Resumable, Submitting, IdGiven, START,
     suspensionVars
<1>5. Settled'
  BY <1>a, <1>1, <1>2, SettledStays DEF suspensionVars
<1> QED
  BY <1>3, <1>4, <1>5 DEF IInv

\* The steps that touch neither the record nor the queue.
LEMMA IInvMove ==
  ASSUME IInv, queue = <<>>,
         UNCHANGED <<record, snapshot, queue, refusals, kind, starts, committed>>,
         terminating' \in BOOLEAN, crashes' \in 0..MaxCrashes,
         held' \in CallbackIds, delivered' \in SUBSET (CallbackIds \ {"none"}),
         submitted' \in {"None", "Succeeded", "Failed"}, outcome' \in Outcome,
         pc' \in SuspensionPc \ {"replay", "starting"},
         pc' = "created" => held' # "none",
         refusals = 0 /\ pc' \notin {"parked", "returned"} => record.status # "None",
         Submitting', Settled'
  PROVE  IInv'
<1>a. OneStart /\ Lags /\ Resumable /\ IdGiven
  BY DEF IInv
<1>1. SuspensionTypeOK'
  BY DEF IInv, SuspensionTypeOK, InvocationTypeOK
<1>2. OneStart' /\ Lags' /\ Resumable' /\ IdGiven'
  BY <1>a DEF OneStart, Lags, Resumable, IdGiven
<1> QED
  BY <1>1, <1>2 DEF IInv

\* The submitter succeeds, fails, or is found to have done so.
LEMMA IInvSubmitterEnds ==
  ASSUME IInv, SubmitterRecorded \/ SubmitterFails \/ SubmitterReplays
  PROVE  IInv'
<1>a. /\ record \in Record /\ pc \in {"created", "submitting"} /\ kind = "callback"
      /\ kind \in Kinds
      /\ terminating \in BOOLEAN /\ crashes \in 0..MaxCrashes
      /\ held \in CallbackIds /\ delivered \in SUBSET (CallbackIds \ {"none"})
      /\ submitted \in {"None", "Succeeded", "Failed"} /\ outcome \in Outcome
      /\ OneStart /\ Resumable /\ Submitting /\ Settled
  BY DEF IInv, SuspensionTypeOK, InvocationTypeOK, SubmitterRecorded, SubmitterFails,
     SubmitterReplays, Submitting
<1>1. UNCHANGED <<record, snapshot, queue, terminating, crashes, refusals, kind, held,
                  delivered, starts, committed>>
  BY DEF SubmitterRecorded, SubmitterFails, SubmitterReplays
<1>2. queue = <<>> /\ (refusals = 0 => record.status # "None")
  BY <1>a DEF OneStart, Resumable
<1>3. \/ pc' = "waiting" /\ submitted' = "Succeeded" /\ outcome' = outcome
      \/ pc' = "returned" /\ submitted' = "Failed" /\ outcome' = SubmitterFailed
  BY DEF SubmitterRecorded, SubmitterFails, SubmitterReplays
<1>4. SubmitterFailed \in Outcome /\ SubmitterFailed # Unset
  BY DEF SubmitterFailed, Outcome, Unset
<1>5. \/ submitted' = submitted
      \/ submitted = "None" /\ record.status # "None"
  BY <1>a DEF SubmitterRecorded, SubmitterFails, SubmitterReplays, Submitting
<1>6. Submitting'
  BY <1>a, <1>1, <1>3, <1>5 DEF Submitting
<1>7. Settled'
  <2>1. CASE submitted' = submitted
    <3>1. OutcomeOnRecord' = OutcomeOnRecord
      BY <1>1, <2>1 DEF OutcomeOnRecord, RecordedOutcome
    <3>2. pc' = "returned" => OutcomeOnRecord = SubmitterFailed
      BY <1>a, <1>3, <2>1 DEF OutcomeOnRecord
    <3> QED
      BY <1>a, <1>1, <1>3, <1>4, <3>1, <3>2 DEF Settled
  <2>2. CASE submitted = "None"
    <3>1. OutcomeOnRecord = Unset
      BY <1>a, <2>2 DEF OutcomeOnRecord
    <3>2. committed' = {}
      BY <1>a, <1>1, <3>1 DEF Settled
    <3>3. pc' = "returned" => OutcomeOnRecord' = SubmitterFailed
      BY <1>a, <1>1, <1>3 DEF OutcomeOnRecord
    <3> QED
      BY <1>3, <1>4, <3>2, <3>3 DEF Settled
  <2> QED
    BY <1>5, <2>1, <2>2
<1> QED
  BY <1>a, <1>1, <1>2, <1>3, <1>4, <1>6, <1>7, IInvMove DEF SuspensionPc

LEMMA IInvOperation ==
  ASSUME IInv, OperationAction
  PROVE  IInv'
<1>a. /\ record \in Record /\ snapshot \in Record /\ pc \in SuspensionPc
      /\ terminating \in BOOLEAN /\ crashes \in 0..MaxCrashes /\ refusals \in Nat
      /\ held \in CallbackIds /\ delivered \in SUBSET (CallbackIds \ {"none"})
      /\ submitted \in {"None", "Succeeded", "Failed"} /\ outcome \in Outcome
      /\ OneStart /\ Lags /\ Resumable /\ Submitting /\ Settled /\ IdGiven
  BY BoundsAssumption DEF IInv, SuspensionTypeOK, InvocationTypeOK
<1>b. pc # "starting" => queue = <<>>
  BY <1>a DEF OneStart
<1>c. snapshot.status # "None" => record.status # "None"
  BY <1>a DEF Lags
<1>1. CASE Start
  BY <1>1, IInvStart
<1>2. CASE SerdesFails
  <2>1. queue = <<>> /\ crashes' \in 0..MaxCrashes
    BY <1>a, <1>b, <1>2, BoundsAssumption DEF SerdesFails, NeedsStart
  <2>2. /\ pc' = "parked" /\ terminating' = TRUE
        /\ UNCHANGED <<record, snapshot, queue, refusals, suspensionVars>>
    BY <1>2 DEF SerdesFails
  <2>3. Submitting' /\ Settled'
    BY <1>a, <2>2, SettledStays DEF Submitting, suspensionVars
  <2> QED
    BY <1>a, <2>1, <2>2, <2>3, IInvMove DEF suspensionVars, SuspensionPc
<1>3. CASE WaitReplays
  BY <1>b, <1>c, <1>3, IInvReturnOrSuspend DEF WaitReplays, Found
<1>4. CASE WaitStarted
  BY <1>a, <1>4, IInvReturnOrSuspend DEF WaitStarted, Released, Resumable
<1>5. CASE InvokeStarted
  <2>1. /\ pc = "starting" /\ queue = <<>> /\ pc' = "suspended" /\ terminating' = TRUE
        /\ UNCHANGED <<record, snapshot, queue, crashes, refusals, suspensionVars>>
    BY <1>5 DEF InvokeStarted, Released, Terminate
  <2>2. Submitting' /\ Settled'
    BY <1>a, <2>1, SettledStays DEF Submitting, suspensionVars
  <2> QED
    BY <1>a, <2>1, <2>2, IInvMove DEF Resumable, suspensionVars, SuspensionPc
<1>6. CASE InvokeReplays
  BY <1>b, <1>c, <1>6, IInvReturnOrSuspend DEF InvokeReplays, IsOver, Found, Done
<1>7. CASE InvokeRefreshes
  <2>1. /\ pc = "replay" /\ kind = "invoke" /\ snapshot.status # "None"
        /\ pc' = "refreshing"
        /\ UNCHANGED <<record, snapshot, queue, terminating, crashes, refusals,
                       suspensionVars>>
    BY <1>7 DEF InvokeRefreshes, Found
  <2>2. Submitting' /\ Settled'
    BY <1>a, <2>1, SettledStays DEF Submitting, suspensionVars
  <2> QED
    BY <1>a, <1>b, <1>c, <2>1, <2>2, IInvMove DEF suspensionVars, SuspensionPc
<1>8. CASE InvokeRefreshed
  BY <1>a, <1>b, <1>8, IInvReturnOrSuspend DEF InvokeRefreshed, Resumable, Submitting
<1>9. CASE CreateCallback
  <2>1. queue = <<>> /\ (refusals = 0 => record.status # "None")
        /\ (~terminating => record.status # "None")
    BY <1>a, <1>b, <1>c, <1>9 DEF CreateCallback, Released, Resumable, Submitting, Found
  <2>2. held' \in CallbackIds /\ held' # "none"
    BY <1>9 DEF CreateCallback, CallbackId, CallbackIds
  <2>3. /\ kind = "callback" /\ pc' = "created"
        /\ UNCHANGED <<record, snapshot, queue, terminating, crashes, refusals, kind,
                       delivered, submitted, starts, outcome, committed>>
    BY <1>9 DEF CreateCallback
  <2>4. Submitting' /\ Settled'
    BY <1>a, <2>1, <2>3, SettledStays DEF Submitting
  <2> QED
    BY <1>a, <2>1, <2>2, <2>3, <2>4, IInvMove DEF SuspensionPc
<1>10. CASE SubmitterRuns
  <2>1. delivered' \in SUBSET (CallbackIds \ {"none"})
    BY <1>a, <1>10 DEF SubmitterRuns, IdGiven
  <2>2. /\ pc = "created" /\ submitted = "None" /\ pc' = "submitting"
        /\ UNCHANGED <<record, snapshot, queue, terminating, crashes, refusals, kind,
                       held, submitted, starts, outcome, committed>>
    BY <1>10 DEF SubmitterRuns
  <2>3. Submitting' /\ Settled'
    BY <1>a, <2>2, SettledStays DEF Submitting
  <2> QED
    BY <1>a, <1>b, <2>1, <2>2, <2>3, IInvMove DEF SuspensionPc, Resumable
<1>11. CASE SubmitterRecorded \/ SubmitterFails \/ SubmitterReplays
  BY <1>11, IInvSubmitterEnds
<1>12. CASE WaitForCallback
  BY <1>a, <1>b, <1>12, IInvReturnOrSuspend DEF WaitForCallback, Resumable, Submitting
<1>13. CASE NextOperationRecorded
  <2>1. /\ outcome = OutcomeOnRecord /\ outcome # Unset
        /\ committed' = committed \cup {outcome} /\ UNCHANGED invocationVars
        /\ UNCHANGED <<kind, held, delivered, submitted, starts, outcome>>
    BY <1>a, <1>13 DEF NextOperationRecorded, Settled
  <2>2. SuspensionTypeOK'
    BY <2>1 DEF IInv, SuspensionTypeOK, InvocationTypeOK, invocationVars
  <2>3. OneStart' /\ Lags' /\ Resumable' /\ Submitting' /\ IdGiven'
    BY <1>a, <2>1 DEF OneStart, Lags, Resumable, Submitting, IdGiven, invocationVars
  <2>4. OutcomeOnRecord' = OutcomeOnRecord /\ pc' = pc
    BY <2>1 DEF OutcomeOnRecord, RecordedOutcome, invocationVars
  <2>5. Settled'
    BY <1>a, <2>1, <2>4 DEF Settled
  <2> QED
    BY <2>2, <2>3, <2>5 DEF IInv
<1> QED
  BY <1>1, <1>2, <1>3, <1>4, <1>5, <1>6, <1>7, <1>8, <1>9, <1>10, <1>11, <1>12, <1>13
     DEF OperationAction

LEMMA Invariance == Spec => []IInv
<1>1. IInv /\ [Next]_vars => IInv'
  <2> SUFFICES ASSUME IInv, [Next]_vars PROVE IInv'
    OBVIOUS
  <2>1. CASE Next
    BY <2>1, IInvOperation, IInvEnvironment DEF Next
  <2>2. CASE UNCHANGED vars
    BY <2>2 DEF vars, invocationVars, suspensionVars, IInv, SuspensionTypeOK,
       InvocationTypeOK, OneStart, Lags, Resumable, Submitting, Settled, IdGiven,
       OutcomeOnRecord, RecordedOutcome
  <2> QED
    BY <2>1, <2>2
<1> QED
  BY <1>1, IInvInit, PTL DEF Spec

-----------------------------------------------------------------------------
\* Every value the operation handles keeps its type; a callback id is only passed
\* on once there is one (callback.rs).
THEOREM SuspensionTypes == Spec => []SuspensionTypeOK
<1>1. IInv => SuspensionTypeOK
  BY DEF IInv
<1> QED
  BY <1>1, Invariance, PTL

\* A wait, a callback or an invoke is started once, whatever is cut off and
\* whichever answer is lost (invoke/execute.rs, invoke/replay.rs).
THEOREM StartsOnce == Spec => []StartedOnce
<1>1. IInv => StartedOnce
  BY DEF IInv, OneStart, StartedOnce
<1> QED
  BY <1>1, Invariance, PTL

\* No operation suspends the invocation for something the service does not know of
\* (wait/execute.rs:66, invoke/execute.rs:61, callback/execute.rs:96).
THEOREM SuspendsForTheRecorded == Spec => []SuspensionIsResumable
<1>1. IInv => SuspensionIsResumable
  BY DEF IInv, Resumable, SuspensionIsResumable
<1> QED
  BY <1>1, Invariance, PTL

-----------------------------------------------------------------------------
(* The refinement of StepPromise: START is what runs the outside.          *)

Ran(n) == [i \in 1..n |-> i]

LEMMA FirstStart ==
  /\ Ran(0) = <<>>
  /\ Len(Ran(0)) = 0 /\ Len(Ran(1)) = 1
  /\ SubSeq(Ran(1), 1, 0) = Ran(0)
<1>1. Ran(0) \in Seq(Nat) /\ Ran(1) \in Seq(Nat)
  BY DEF Ran
<1>2. Len(Ran(0)) = 0 /\ Len(Ran(1)) = 1
  BY DEF Ran
<1>3. \A t \in Seq(Nat) : Len(t) = 0 => t = <<>>
  OBVIOUS
<1>4. SubSeq(Ran(1), 1, 0) = <<>>
  BY <1>1, <1>2
<1> QED
  BY <1>1, <1>2, <1>3, <1>4

\* What is recorded or found settles no outcome a second time.
LEMMA OutcomeIsKept ==
  ASSUME IInv, Next, record' = record
  PROVE  \/ OutcomeOnRecord' = OutcomeOnRecord
         \/ /\ OutcomeOnRecord = Unset
            /\ UNCHANGED <<starts, committed>>
<1>1. CASE SubmitterRecorded \/ SubmitterFails
  <2>1. submitted = "None" /\ kind = "callback"
    BY <1>1 DEF IInv, Submitting, SubmitterRecorded, SubmitterFails
  <2> QED
    BY <1>1, <2>1 DEF OutcomeOnRecord, SubmitterRecorded, SubmitterFails
<1>2. CASE ~(SubmitterRecorded \/ SubmitterFails)
  <2>1. kind' = kind /\ submitted' = submitted
    BY <1>2 DEF Next, OperationAction, EnvironmentAction, Start, SerdesFails, WaitReplays,
       WaitStarted, InvokeStarted, InvokeReplays, InvokeRefreshes, InvokeRefreshed,
       CreateCallback, SubmitterRuns, SubmitterReplays, WaitForCallback,
       NextOperationRecorded, ReturnOrSuspend, OutsideEnds, CountStarts, suspensionVars
  <2> QED
    BY <2>1 DEF OutcomeOnRecord, RecordedOutcome
<1> QED
  BY <1>1, <1>2

LEMMA PromiseStep ==
  ASSUME IInv, IInv', Next
  PROVE  [Promise!Next]_Promise!promiseVars
<1>a. /\ record \in Record /\ record' \in Record /\ kind \in Kinds /\ kind' \in Kinds
      /\ queue \in Seq(Update) /\ OneStart /\ OneStart' /\ Lags /\ Submitting
      /\ Settled /\ Settled'
  BY DEF IInv, SuspensionTypeOK, InvocationTypeOK
<1>1. CASE record' = record /\ committed' = committed
  <2>1. starts' = starts
    BY <1>a, <1>1 DEF OneStart
  <2>2. CASE OutcomeOnRecord' = OutcomeOnRecord
    BY <1>1, <2>1, <2>2 DEF Promise!promiseVars
  <2>3. CASE OutcomeOnRecord = Unset /\ OutcomeOnRecord' # Unset
    BY <1>1, <2>1, <2>3 DEF Promise!Next, Promise!Settle
  <2> QED
    BY <1>1, <2>2, <2>3, OutcomeIsKept
<1>2. CASE NextOperationRecorded
  <2>1. outcome = OutcomeOnRecord /\ outcome # Unset
        /\ committed' = {OutcomeOnRecord}
    BY <1>a, <1>2 DEF NextOperationRecorded, Settled
  <2>2. starts' = starts /\ OutcomeOnRecord' = OutcomeOnRecord
    BY <1>2 DEF NextOperationRecorded, invocationVars, OutcomeOnRecord, RecordedOutcome
  <2> QED
    BY <2>1, <2>2 DEF Promise!Next, Promise!Commit
<1>3. CASE (RecordUpdate \/ BatchFails) /\ CountStarts /\ record' # record
  <2>1. /\ record.status = "None" /\ starts = 0
        /\ Head(queue) \in Update /\ Head(queue).action = "Start"
    BY <1>a, <1>3, Dequeued DEF RecordUpdate, BatchFails, OneStart
  <2>2. record' = AfterUpdate(Head(queue)) /\ starts' = 1 /\ committed' = committed
        /\ submitted' = submitted
    BY <1>3, <2>1 DEF RecordUpdate, BatchFails, CountStarts
  <2>3. record'.status = "Started"
    BY <1>a, <2>1, <2>2, AfterStart
  <2>4. Len(Ran(starts')) = Len(Ran(starts)) + 1
        /\ SubSeq(Ran(starts'), 1, Len(Ran(starts))) = Ran(starts)
    <3>1. Len(Ran(0)) = 0 /\ Len(Ran(1)) = 1 /\ SubSeq(Ran(1), 1, 0) = Ran(0)
      BY FirstStart
    <3>2. SubSeq(Ran(1), 1, Len(Ran(0))) = Ran(0)
      BY <3>1, Zenon
    <3>3. Len(Ran(1)) = Len(Ran(0)) + 1
      <4> DEFINE a == Len(Ran(0))
                 b == Len(Ran(1))
      <4>1. a = 0 /\ b = 1
        BY <3>1
      <4>2. b = a + 1
        <5> HIDE DEF a, b
        <5> QED
          BY <4>1
      <4> QED
        BY <4>2, Zenon
    <3> QED
      BY <2>1, <2>2, <3>2, <3>3
  <2>5. OutcomeOnRecord = Unset /\ OutcomeOnRecord' = Unset
    BY <1>a, <2>1, <2>2, <2>3 DEF Submitting, OutcomeOnRecord, Done
  <2> QED
    BY <2>2, <2>4, <2>5 DEF Promise!Next, Promise!Run, Ran
<1>4. CASE OutsideEnds
  <2>1. /\ record.status = "Started" /\ starts' = starts /\ committed' = committed
        /\ kind' = kind /\ submitted' = submitted
    BY <1>4 DEF OutsideEnds, suspensionVars
  <2>2. OutcomeOnRecord = Unset \/ OutcomeOnRecord' = OutcomeOnRecord
    BY <2>1 DEF OutcomeOnRecord, Done
  <2> QED
    BY <2>1, <2>2 DEF Promise!Next, Promise!Settle, Promise!promiseVars
<1>5. \/ record' = record /\ committed' = committed
      \/ NextOperationRecorded
      \/ (RecordUpdate \/ BatchFails) /\ CountStarts /\ record' # record
      \/ OutsideEnds
  BY DEF Next, OperationAction, EnvironmentAction, Start, SerdesFails, WaitReplays,
     WaitStarted, InvokeStarted, InvokeReplays, InvokeRefreshes, InvokeRefreshed,
     CreateCallback, SubmitterRuns, SubmitterRecorded, SubmitterFails, SubmitterReplays,
     WaitForCallback, ReturnOrSuspend, CountStarts, suspensionVars, Invoke, Crash,
     OtherOperationSuspends, InvocationEnds
<1> QED
  BY <1>1, <1>2, <1>3, <1>4, <1>5

\* The outside is asked once and only while the operation has no outcome, and what the
\* handler does next rests on the outcome every later invocation replays
\* (wait/execute.rs, callback/execute.rs, invoke/replay.rs).
THEOREM SuspensionImplementsPromise == Spec => ImplementsPromise
<1>1. Init => Promise!Init
  <2> SUFFICES ASSUME Init PROVE Promise!Init
    OBVIOUS
  <2>1. Ran(starts) = <<>>
    BY FirstStart DEF Init
  <2> QED
    BY <2>1 DEF Init, InvocationInit, Unrecorded, Done, OutcomeOnRecord, Promise!Init, Ran
<1>2. IInv /\ IInv' /\ [Next]_vars => [Promise!Next]_Promise!promiseVars
  <2> SUFFICES ASSUME IInv, IInv', [Next]_vars
               PROVE  [Promise!Next]_Promise!promiseVars
    OBVIOUS
  <2>1. CASE Next
    BY <2>1, PromiseStep
  <2>2. CASE UNCHANGED vars
    BY <2>2 DEF vars, invocationVars, suspensionVars, OutcomeOnRecord, RecordedOutcome,
       Promise!promiseVars
  <2> QED
    BY <2>1, <2>2
<1> QED
  BY <1>1, <1>2, Invariance, PTL DEF Spec, Promise!Spec, ImplementsPromise
=============================================================================
