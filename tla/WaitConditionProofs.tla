------------------------- MODULE WaitConditionProofs -------------------------
(***************************************************************************)
(* Proofs about WaitCondition, for every number of polls, crashes and      *)
(* failed batches.                                                         *)
(***************************************************************************)
EXTENDS WaitCondition, TLAPS

\* Every state is serialized to a payload.
EveryPayload == "none" \notin Payloads

-----------------------------------------------------------------------------
(* Types.  A poll is within max_attempts since the attempt is compared     *)
(* before START.                                                           *)

Within == pc \in {"starting", "body", "checking"} => ~IsExceeded

LEMMA UpdateType ==
  ASSUME NEW a \in {"Start", "Retry", "Succeed", "Fail"}, NEW v \in Nat
  PROVE  [action |-> a, result |-> v] \in Update
  BY DEF Update

LEMMA AfterUpdateType ==
  ASSUME record \in Record, NEW u \in Update
  PROVE  AfterUpdate(u) \in Record
<1>1. CASE u.action = "Start"
  BY <1>1 DEF AfterUpdate, Record, Status
<1>2. CASE u.action = "Retry"
  BY <1>2 DEF AfterUpdate, Record, Status, Update
<1>3. CASE u.action = "Succeed"
  BY <1>3 DEF AfterUpdate, Record, Status, Done, Update
<1>4. CASE u.action = "Fail"
  BY <1>4 DEF AfterUpdate, Record, Status, Done, Update
<1> QED
  BY <1>1, <1>2, <1>3, <1>4 DEF Update

LEMMA SendType ==
  ASSUME NEW u \in Update, NEW next \in ConditionPc, Send(u, next),
         queue \in Seq(Update)
  PROVE  pc' \in ConditionPc /\ queue' \in Seq(Update)
  BY DEF Send, ConditionPc

LEMMA RecordedOutcomeType ==
  ASSUME NEW r \in Record, r.status \in Done
  PROVE  RecordedOutcome(r) \in Outcome /\ RecordedOutcome(r).kind \notin {"exceeded", "error"}
  BY DEF RecordedOutcome, Record, Done, Outcome, Ok, Missing, StepFailed

LEMMA NewStateType ==
  ASSUME ConditionTypeOK, NEW s \in NewState
  PROVE  s \in Nat
<1>1. Len(polls) \in Nat
  BY DEF ConditionTypeOK
<1> QED
  BY <1>1 DEF NewState

LEMMA TypesInit == Init => ConditionTypeOK /\ Within
<1> SUFFICES ASSUME Init PROVE ConditionTypeOK /\ Within
  OBVIOUS
<1>1. Unrecorded \in Record /\ Missing \in Outcome
  BY DEF Unrecorded, Record, Status, Missing, Outcome
<1>2. 0 \in 0..MaxCrashes /\ 0 \in 0..MaxRefusals
  BY BoundsAssumption
<1>3. <<>> \in Seq(Update) /\ <<>> \in Seq(Poll)
  OBVIOUS
<1>4. InvocationTypeOK
  BY <1>1, <1>2, <1>3 DEF Init, InvocationInit, InvocationTypeOK
<1> QED
  BY <1>1, <1>3, <1>4 DEF Init, InvocationInit, ConditionTypeOK, ConditionPc, Within

LEMMA TypesEnvironment ==
  ASSUME ConditionTypeOK, EnvironmentAction, UNCHANGED conditionVars
  PROVE  ConditionTypeOK'
<1>a. /\ record \in Record /\ snapshot \in Record /\ queue \in Seq(Update) /\ pc \in ConditionPc
      /\ terminating \in BOOLEAN /\ crashes \in 0..MaxCrashes /\ refusals \in 0..MaxRefusals
  BY DEF ConditionTypeOK, InvocationTypeOK
<1>b. \A q \in Seq(Update) : q # <<>> => Head(q) \in Update /\ Tail(q) \in Seq(Update)
  OBVIOUS
<1>1. queue' \in Seq(Update)
  <2>1. <<>> \in Seq(Update)
    OBVIOUS
  <2> QED
    BY <1>a, <1>b, <2>1 DEF EnvironmentAction, RecordUpdate, TimerElapses, BatchFails, Invoke,
       Crash, OtherOperationSuspends, InvocationEnds
<1>2. record' \in Record
  <2>1. CASE TimerElapses
    BY <1>a, <2>1 DEF TimerElapses, Record, Status
  <2> QED
    BY <1>a, <1>b, <2>1, AfterUpdateType DEF EnvironmentAction, RecordUpdate, BatchFails,
       Invoke, Crash, OtherOperationSuspends, InvocationEnds
<1>3. crashes' \in 0..MaxCrashes /\ refusals' \in 0..MaxRefusals
  BY <1>a, BoundsAssumption DEF EnvironmentAction, RecordUpdate, TimerElapses, BatchFails,
     Invoke, Crash, OtherOperationSuspends, InvocationEnds
<1>4. snapshot' \in Record /\ terminating' \in BOOLEAN /\ pc' \in ConditionPc
  BY <1>a DEF EnvironmentAction, RecordUpdate, TimerElapses, BatchFails, Invoke, Crash,
     OtherOperationSuspends, InvocationEnds, ConditionPc
<1> QED
  BY <1>1, <1>2, <1>3, <1>4 DEF ConditionTypeOK, InvocationTypeOK, conditionVars

LEMMA TypesCondition ==
  ASSUME ConditionTypeOK, Within, ConditionAction
  PROVE  ConditionTypeOK'
<1>a. /\ record \in Record /\ snapshot \in Record /\ queue \in Seq(Update) /\ pc \in ConditionPc
      /\ terminating \in BOOLEAN /\ crashes \in 0..MaxCrashes /\ refusals \in 0..MaxRefusals
      /\ polls \in Seq(Poll) /\ outcome \in Outcome /\ committed \in SUBSET Outcome
      /\ Len(polls) \in Nat
  BY DEF ConditionTypeOK, InvocationTypeOK
<1>u. UNCHANGED <<record, snapshot, refusals>>
  BY DEF ConditionAction, ReplayCompleted, SerdesFails, Exceed, Start, StartReturns, Resume,
     RunCheck, CheckFails, CheckStops, CheckContinues, OutcomeReturns, RetryReturns,
     NextOperationRecorded, conditionVars, invocationVars
<1>1. CASE Exceed
  <2>1. pc' \in ConditionPc /\ queue' \in Seq(Update)
    BY <1>a, <1>1, UpdateType, SendType DEF Exceed, ConditionPc
  <2>2. Exceeded(Attempt) \in Outcome
    BY <1>a DEF Exceeded, Outcome, Attempt, Record
  <2> QED
    BY <1>a, <1>u, <1>1, <2>1, <2>2 DEF Exceed, ConditionTypeOK, InvocationTypeOK
<1>2. CASE Start
  <2>1. pc' \in ConditionPc /\ queue' \in Seq(Update)
    BY <1>a, <1>2, UpdateType, SendType DEF Start, ConditionPc
  <2> QED
    BY <1>a, <1>u, <1>2, <2>1 DEF Start, ConditionTypeOK, InvocationTypeOK, conditionVars
<1>3. CASE RunCheck
  <2>1. Attempt \in 1..MaxPolls /\ State \in Nat
    BY <1>a, <1>3, ConditionAssumption DEF RunCheck, Within, IsExceeded, Attempt, State, Record
  <2>2. [attempt |-> Attempt, state |-> State] \in Poll
    BY <2>1 DEF Poll
  <2>3. polls' \in Seq(Poll)
    BY <1>a, <1>3, <2>2 DEF RunCheck
  <2> QED
    BY <1>a, <1>u, <1>3, <2>3 DEF RunCheck, ConditionTypeOK, InvocationTypeOK, ConditionPc
<1>4. CASE CheckStops
  <2>1. pc' \in ConditionPc /\ queue' \in Seq(Update)
    BY <1>a, <1>4, NewStateType, UpdateType, SendType DEF CheckStops, ConditionPc
  <2>2. Ok(Len(polls)) \in Outcome
    BY <1>a DEF Ok, Outcome
  <2> QED
    BY <1>a, <1>u, <1>4, <2>1, <2>2 DEF CheckStops, ConditionTypeOK, InvocationTypeOK
<1>5. CASE CheckContinues
  <2>1. pc' \in ConditionPc /\ queue' \in Seq(Update)
    BY <1>a, <1>5, NewStateType, UpdateType, SendType DEF CheckContinues, ConditionPc
  <2> QED
    BY <1>a, <1>u, <1>5, <2>1 DEF CheckContinues, ConditionTypeOK, InvocationTypeOK, conditionVars
<1>6. CASE ReplayCompleted
  BY <1>a, <1>u, <1>6, RecordedOutcomeType DEF ReplayCompleted, ConditionTypeOK,
     InvocationTypeOK, ConditionPc
<1>7. CASE SerdesFails
  <2>1. crashes' \in 0..MaxCrashes
    BY <1>a, <1>7, BoundsAssumption DEF SerdesFails
  <2> QED
    BY <1>a, <1>u, <1>7, <2>1 DEF SerdesFails, Terminate, ConditionTypeOK, InvocationTypeOK,
       ConditionPc, conditionVars
<1>8. CASE CheckFails
  <2>1. crashes' \in 0..MaxCrashes /\ CheckError \in Outcome
    BY <1>a, <1>8, BoundsAssumption DEF CheckFails, CheckError, Outcome
  <2> QED
    BY <1>a, <1>u, <1>8, <2>1 DEF CheckFails, ConditionTypeOK, InvocationTypeOK, ConditionPc
<1>9. CASE StartReturns \/ Resume \/ OutcomeReturns \/ RetryReturns
  BY <1>a, <1>u, <1>9 DEF StartReturns, Resume, OutcomeReturns, RetryReturns, Terminate,
     ConditionTypeOK, InvocationTypeOK, ConditionPc, conditionVars
<1>10. CASE NextOperationRecorded
  BY <1>a, <1>10 DEF NextOperationRecorded, ConditionTypeOK, InvocationTypeOK, invocationVars
<1> QED
  BY <1>1, <1>2, <1>3, <1>4, <1>5, <1>6, <1>7, <1>8, <1>9, <1>10 DEF ConditionAction

LEMMA WithinStep ==
  ASSUME Within, Next
  PROVE  Within'
<1>1. snapshot' = snapshot \/ pc' = "replay"
  BY DEF Next, ConditionAction, EnvironmentAction, ReplayCompleted, SerdesFails, Exceed, Start,
     StartReturns, Resume, RunCheck, CheckFails, CheckStops, CheckContinues, OutcomeReturns,
     RetryReturns, NextOperationRecorded, invocationVars, RecordUpdate, TimerElapses, BatchFails,
     Invoke, Crash, OtherOperationSuspends, InvocationEnds
<1>2. pc' \in {"starting", "body", "checking"} =>
        pc \in {"starting", "body", "checking"} \/ ~IsExceeded
  BY DEF Next, ConditionAction, EnvironmentAction, ReplayCompleted, SerdesFails, Exceed, Start,
     StartReturns, Resume, RunCheck, CheckFails, CheckStops, CheckContinues, OutcomeReturns,
     RetryReturns, NextOperationRecorded, invocationVars, RecordUpdate, TimerElapses, BatchFails,
     Invoke, Crash, OtherOperationSuspends, InvocationEnds, Send, Terminate
<1> QED
  BY <1>1, <1>2 DEF Within, IsExceeded, Attempt

LEMMA TypesStep ==
  ASSUME ConditionTypeOK, Within, [Next]_vars
  PROVE  ConditionTypeOK' /\ Within'
<1>1. CASE Next
  BY <1>1, TypesEnvironment, TypesCondition, WithinStep DEF Next
<1>2. CASE UNCHANGED vars
  BY <1>2 DEF vars, invocationVars, conditionVars, ConditionTypeOK, InvocationTypeOK, Within,
     IsExceeded, Attempt
<1> QED
  BY <1>1, <1>2

\* Every value keeps its type; in particular no poll is made beyond max_attempts
\* (wait_condition/execute.rs:49).
THEOREM ConditionTypes == Spec => []ConditionTypeOK
<1>1. ConditionTypeOK /\ Within /\ [Next]_vars => ConditionTypeOK' /\ Within'
  BY TypesStep
<1> QED
  BY <1>1, TypesInit, PTL DEF Spec

-----------------------------------------------------------------------------
(* The inductive invariant.                                                *)

Open == record.status \notin Done

\* A state on record is that of an earlier poll, of the attempt the record counts.
Link(r) ==
  r.status \notin Done =>
    IF r.attempt = 0 THEN r.result = 0
    ELSE r.result \in 1..Len(polls) /\ polls[r.result].attempt = r.attempt

Links == Link(record) /\ Link(snapshot)

\* At most one update is on its way: every checkpoint is awaited.
OneUpdate ==
  queue # <<>> =>
    /\ Len(queue) = 1
    /\ Open
    /\ record.attempt = snapshot.attempt
    /\ \/ pc = "starting" /\ queue[1].action = "Start"
       \/ /\ pc = "succeeding" /\ queue[1].action = "Succeed"
          /\ queue[1].result # 0 /\ outcome = Ok(queue[1].result)
       \/ /\ pc = "failing" /\ queue[1].action = "Fail"
          /\ outcome = Exceeded(record.attempt + 1)
       \/ /\ pc = "retrying" /\ queue[1].action = "Retry"
          /\ queue[1].result \in 1..Len(polls)
          /\ polls[queue[1].result].attempt = record.attempt + 1

\* The attempt beyond the limit is named only where it is found.
IsReported(o) == record.status = "Failed" /\ o = Exceeded(record.attempt + 1)

Settled ==
  \/ terminating
  \/ ~Open /\ outcome = RecordedOutcome(record)
  \/ IsReported(outcome)
  \/ pc = "returned" /\ outcome = CheckError

Shape ==
  /\ snapshot.status \in Done => record = snapshot
  /\ pc = "replay" => Open \/ record = snapshot
  /\ pc \in {"replay", "starting", "body", "checking"} => record.attempt = snapshot.attempt
  /\ pc \in {"starting", "body", "checking"} => Open
  /\ pc = "checking" => polls # <<>> /\ polls[Len(polls)].attempt = Attempt
  /\ pc \in {"succeeding", "failing", "returned"} /\ queue = <<>> => Settled

CommittedIsRecorded ==
  \A o \in committed :
    \/ o.kind = "error"
    \/ IsReported(o)
    \/ ~Open /\ o = RecordedOutcome(record)

IInv ==
  /\ ConditionTypeOK
  /\ Within
  /\ Links
  /\ OneUpdate
  /\ Shape
  /\ PollsContinue
  /\ CommittedIsRecorded

LEMMA IInvInit == Init => IInv
<1> SUFFICES ASSUME Init PROVE IInv
  OBVIOUS
<1>1. Links /\ OneUpdate /\ Shape /\ CommittedIsRecorded
  BY DEF Init, InvocationInit, Unrecorded, Done, Links, Link, OneUpdate, Shape,
     CommittedIsRecorded, IsReported
<1>2. PollsContinue
  BY DEF Init, PollsContinue
<1> QED
  BY <1>1, <1>2, TypesInit DEF IInv

LEMMA Dequeued ==
  ASSUME NEW q \in Seq(Update), q # <<>>, Len(q) = 1
  PROVE  /\ Head(q) = q[1] /\ q[1] \in Update
         /\ Tail(q) = <<>>
<1>1. Head(q) = q[1] /\ Head(q) \in Update
  OBVIOUS
<1>2. Tail(q) \in Seq(Update) /\ Len(Tail(q)) = 0
  OBVIOUS
<1> QED
  <2>1. \A t \in Seq(Update) : Len(t) = 0 => t = <<>>
    OBVIOUS
  <2> QED
    BY <1>1, <1>2, <2>1

LEMMA Queued ==
  ASSUME NEW q, q = <<>>, NEW u \in Update
  PROVE  /\ Append(q, u) # <<>>
         /\ Len(Append(q, u)) = 1
         /\ Append(q, u)[1] = u
  OBVIOUS

LEMMA EveryState ==
  ASSUME IInv, EveryPayload, pc = "checking", NEW s \in NewState
  PROVE  s = Len(polls) /\ s \in 1..Len(polls) /\ polls[s].attempt = snapshot.attempt + 1
<1>1. polls \in Seq(Poll) /\ polls # <<>> /\ polls[Len(polls)].attempt = Attempt
  BY DEF IInv, ConditionTypeOK, Shape
<1>2. Len(polls) \in Nat /\ Len(polls) # 0
  BY <1>1
<1>3. PICK p \in Payloads \ {"error"} : s = IF p = "some" THEN Len(polls) ELSE 0
  BY DEF NewState
<1>4. p = "some"
  BY <1>3, ConditionAssumption DEF EveryPayload
<1> QED
  BY <1>1, <1>2, <1>3, <1>4 DEF Attempt

LEMMA NotQueued ==
  ASSUME IInv, pc \notin {"starting", "succeeding", "failing", "retrying"}
  PROVE  queue = <<>>
BY DEF IInv, OneUpdate

-----------------------------------------------------------------------------
(* The environment's steps.                                                *)

\* The head of the queue takes effect.
LEMMA RecordedStep ==
  ASSUME IInv, queue # <<>>, record' = AfterUpdate(Head(queue)), queue' = <<>>,
         UNCHANGED <<pc, snapshot, polls, outcome, committed>>,
         terminating => terminating'
  PROVE  Links' /\ OneUpdate' /\ Shape' /\ PollsContinue' /\ CommittedIsRecorded'
<1> DEFINE u == queue[1]
<1>a. /\ record \in Record /\ snapshot \in Record /\ queue \in Seq(Update) /\ Open
      /\ Links /\ Shape /\ PollsContinue /\ CommittedIsRecorded
      /\ record.attempt = snapshot.attempt
  BY DEF IInv, ConditionTypeOK, InvocationTypeOK, OneUpdate
<1>b. u \in Update /\ record' = AfterUpdate(u)
  BY <1>a, Dequeued DEF IInv, OneUpdate
<1>c. \A o \in committed : o.kind = "error"
  BY <1>a DEF CommittedIsRecorded, IsReported, Open, Done
<1>d. snapshot.status \notin Done
  BY <1>a DEF Shape, Open
<1>e. OneUpdate' /\ PollsContinue' /\ CommittedIsRecorded'
  BY <1>a, <1>c DEF OneUpdate, PollsContinue, CommittedIsRecorded, IsReported
<1>f. Link(snapshot)' /\ Attempt' = Attempt
  BY <1>a DEF Links, Link, Attempt
<1>1. CASE pc = "starting" /\ u.action = "Start"
  <2>1. record'.status = "Started" /\ record'.attempt = record.attempt
        /\ record'.result = record.result
    BY <1>a, <1>b, <1>1 DEF AfterUpdate, Record
  <2>2. Link(record)'
    BY <1>a, <2>1 DEF Links, Link, Open
  <2>3. Shape'
    BY <1>1, <1>a, <1>d, <2>1 DEF Shape, Open, Done
  <2> QED
    BY <1>e, <1>f, <2>2, <2>3 DEF Links
<1>2. CASE pc = "succeeding" /\ u.action = "Succeed" /\ u.result # 0 /\ outcome = Ok(u.result)
  <2>1. record'.status = "Succeeded" /\ record'.result = u.result
    BY <1>a, <1>b, <1>2 DEF AfterUpdate, Record
  <2>2. Settled'
    BY <1>2, <2>1 DEF Settled, IsReported, Open, Done, RecordedOutcome
  <2> QED
    BY <1>2, <1>d, <1>e, <1>f, <2>1, <2>2 DEF Links, Link, Shape, Done
<1>3. CASE pc = "failing" /\ u.action = "Fail" /\ outcome = Exceeded(record.attempt + 1)
  <2>1. record'.status = "Failed" /\ record'.attempt = record.attempt
    BY <1>a, <1>b, <1>3 DEF AfterUpdate, Record
  <2>2. Settled'
    BY <1>3, <2>1 DEF Settled, IsReported
  <2> QED
    BY <1>3, <1>d, <1>e, <1>f, <2>1, <2>2 DEF Links, Link, Shape, Done
<1>4. CASE pc = "retrying" /\ u.action = "Retry" /\ u.result \in 1..Len(polls)
           /\ polls[u.result].attempt = record.attempt + 1
  <2>1. record'.attempt = record.attempt + 1 /\ record'.result = u.result
    BY <1>b, <1>4 DEF AfterUpdate
  <2>2. record'.attempt # 0
    BY <1>a, <2>1 DEF Record
  <2>3. Link(record)'
    BY <1>4, <2>1, <2>2 DEF Link
  <2> QED
    BY <1>4, <1>d, <1>e, <1>f, <2>3 DEF Links, Shape
<1> QED
  BY <1>1, <1>2, <1>3, <1>4 DEF IInv, OneUpdate

LEMMA IInvEnvironment ==
  ASSUME IInv, EnvironmentAction, UNCHANGED conditionVars
  PROVE  Links' /\ OneUpdate' /\ Shape' /\ PollsContinue' /\ CommittedIsRecorded'
<1>a. /\ record \in Record /\ snapshot \in Record /\ queue \in Seq(Update)
      /\ pc \in ConditionPc /\ refusals \in Nat
      /\ Links /\ OneUpdate /\ Shape /\ PollsContinue /\ CommittedIsRecorded
  BY BoundsAssumption DEF IInv, ConditionTypeOK, InvocationTypeOK
<1>b. UNCHANGED <<polls, outcome, committed>>
  BY DEF conditionVars
<1>1. CASE RecordUpdate
  <2>1. queue' = <<>>
    BY <1>a, <1>1, Dequeued DEF RecordUpdate, OneUpdate
  <2> QED
    BY <1>b, <1>1, <2>1, RecordedStep DEF RecordUpdate
<1>2. CASE BatchFails /\ record' = record
  <2>1. queue' = <<>> /\ terminating' /\ UNCHANGED <<snapshot, pc, record>>
    BY <1>2 DEF BatchFails
  <2> QED
    BY <1>a, <1>b, <2>1 DEF Links, Link, OneUpdate, Shape, Settled, IsReported, Open, Attempt,
       PollsContinue, CommittedIsRecorded
<1>3. CASE BatchFails /\ record' = AfterUpdate(Head(queue))
  BY <1>b, <1>3, RecordedStep DEF BatchFails
<1>4. CASE TimerElapses
  <2>1. /\ record.status = "Pending" /\ record'.status = "Ready"
        /\ record'.attempt = record.attempt /\ record'.result = record.result
        /\ UNCHANGED <<snapshot, pc, queue, terminating>>
    BY <1>a, <1>4 DEF TimerElapses, Record
  <2>2. Open /\ Open' /\ snapshot.status \notin Done
        /\ \A o \in committed : o.kind = "error"
    BY <1>a, <2>1 DEF Shape, Open, Done, CommittedIsRecorded, IsReported
  <2>3. Links' /\ OneUpdate'
    BY <1>a, <1>b, <2>1, <2>2 DEF Links, Link, OneUpdate, Open
  <2>4. Shape'
    BY <1>a, <1>b, <2>1, <2>2 DEF Shape, Settled, IsReported, Attempt
  <2> QED
    BY <1>a, <1>b, <2>2, <2>3, <2>4 DEF PollsContinue, CommittedIsRecorded, IsReported
<1>5. CASE Invoke
  <2>1. queue = <<>>
    BY <1>5, NotQueued DEF Invoke
  <2> QED
    BY <1>a, <1>b, <1>5, <2>1 DEF Invoke, Links, Link, OneUpdate, Shape, Open, PollsContinue,
       CommittedIsRecorded, IsReported
<1>6. CASE Crash
  BY <1>a, <1>b, <1>6 DEF Crash, Links, Link, OneUpdate, Shape, Open, PollsContinue,
     CommittedIsRecorded, IsReported
<1>7. CASE OtherOperationSuspends
  BY <1>a, <1>b, <1>7 DEF OtherOperationSuspends, Links, Link, OneUpdate, Shape, Settled, Open,
     Attempt, IsReported, PollsContinue, CommittedIsRecorded
<1>8. CASE InvocationEnds
  BY <1>a, <1>b, <1>8 DEF InvocationEnds, Links, Link, OneUpdate, Shape, Open, PollsContinue,
     CommittedIsRecorded, IsReported
<1>9. BatchFails => record' \in {record, AfterUpdate(Head(queue))}
  BY DEF BatchFails
<1> QED
  BY <1>1, <1>2, <1>3, <1>4, <1>5, <1>6, <1>7, <1>8, <1>9 DEF EnvironmentAction

-----------------------------------------------------------------------------
(* The operation's steps.                                                  *)

\* A checkpoint of the operation, sent where nothing is on its way.
LEMMA Sent ==
  ASSUME IInv, queue = <<>>, NEW u \in Update, NEW next, Send(u, next)
  PROVE  \/ pc' = "parked" /\ queue' = <<>>
         \/ pc' = next /\ queue' # <<>> /\ Len(queue') = 1 /\ queue'[1] = u
BY Queued DEF Send

LEMMA IInvCondition ==
  ASSUME IInv, ConditionAction, EveryPayload
  PROVE  Links' /\ OneUpdate' /\ Shape' /\ PollsContinue' /\ CommittedIsRecorded'
<1>a. /\ record \in Record /\ snapshot \in Record /\ queue \in Seq(Update)
      /\ polls \in Seq(Poll) /\ Len(polls) \in Nat
      /\ Links /\ OneUpdate /\ Shape /\ PollsContinue /\ CommittedIsRecorded
  BY DEF IInv, ConditionTypeOK, InvocationTypeOK
<1>u. UNCHANGED <<record, snapshot>>
  BY DEF ConditionAction, ReplayCompleted, SerdesFails, Exceed, Start, StartReturns, Resume,
     RunCheck, CheckFails, CheckStops, CheckContinues, OutcomeReturns, RetryReturns,
     NextOperationRecorded, conditionVars, invocationVars
<1>v. Open' = Open /\ Attempt' = Attempt /\ RecordedOutcome(record)' = RecordedOutcome(record)
  BY <1>u DEF Open, Attempt, RecordedOutcome
<1>k. polls' = polls => Links' /\ PollsContinue'
  BY <1>a, <1>u DEF Links, Link, PollsContinue
<1>c. committed' = committed => CommittedIsRecorded'
  BY <1>a, <1>v, <1>u DEF CommittedIsRecorded, IsReported, RecordedOutcome
<1>o. pc = "replay" /\ snapshot.status \notin Done => Open /\ record.attempt = snapshot.attempt
  BY <1>a DEF Shape, Open
<1>1. CASE Exceed
  <2>1. queue = <<>> /\ UNCHANGED <<polls, committed>> /\ pc = "replay"
        /\ snapshot.status \notin Done /\ outcome' = Exceeded(snapshot.attempt + 1)
    BY <1>1, NotQueued DEF Exceed, Continues, Attempt
  <2>2. [action |-> "Fail", result |-> 0] \in Update
    BY UpdateType
  <2>3. \/ pc' = "parked" /\ queue' = <<>>
        \/ pc' = "failing" /\ queue' # <<>> /\ Len(queue') = 1 /\ queue'[1].action = "Fail"
    BY <1>1, <2>1, <2>2, Sent DEF Exceed
  <2>4. OneUpdate' /\ Shape'
    BY <1>a, <1>o, <1>u, <1>v, <2>1, <2>3 DEF OneUpdate, Shape
  <2> QED
    BY <1>k, <1>c, <2>1, <2>4
<1>2. CASE Start
  <2>1. queue = <<>> /\ UNCHANGED <<polls, outcome, committed>> /\ pc = "replay"
        /\ snapshot.status \notin Done
    BY <1>2, NotQueued DEF Start, Continues, conditionVars
  <2>2. [action |-> "Start", result |-> 0] \in Update
    BY UpdateType
  <2>3. \/ pc' = "parked" /\ queue' = <<>>
        \/ pc' = "starting" /\ queue' # <<>> /\ Len(queue') = 1 /\ queue'[1].action = "Start"
    BY <1>2, <2>1, <2>2, Sent DEF Start
  <2>4. OneUpdate' /\ Shape'
    BY <1>a, <1>o, <1>u, <1>v, <2>1, <2>3 DEF OneUpdate, Shape
  <2> QED
    BY <1>k, <1>c, <2>1, <2>4
<1>3. CASE StartReturns
  <2>1. queue = <<>> /\ queue' = <<>> /\ UNCHANGED <<polls, outcome, committed>>
        /\ pc = "starting" /\ pc' = "body"
    BY <1>3 DEF StartReturns, Released, conditionVars
  <2>2. OneUpdate' /\ Shape'
    BY <1>a, <1>u, <1>v, <2>1 DEF OneUpdate, Shape
  <2> QED
    BY <1>k, <1>c, <2>1, <2>2
<1>4. CASE Resume
  <2>1. queue = <<>> /\ queue' = <<>> /\ UNCHANGED <<polls, outcome, committed>>
        /\ pc = "replay" /\ pc' = "body" /\ snapshot.status \notin Done
    BY <1>4, NotQueued DEF Resume, Continues, conditionVars
  <2>2. OneUpdate' /\ Shape'
    BY <1>a, <1>o, <1>u, <1>v, <2>1 DEF OneUpdate, Shape
  <2> QED
    BY <1>k, <1>c, <2>1, <2>2
<1>5. CASE RunCheck
  <2> DEFINE p == [attempt |-> Attempt, state |-> State]
  <2>1. queue = <<>> /\ queue' = <<>> /\ UNCHANGED <<outcome, committed>>
        /\ pc = "body" /\ pc' = "checking" /\ polls' = Append(polls, p)
    BY <1>5, NotQueued DEF RunCheck
  <2>2. /\ Len(polls') = Len(polls) + 1 /\ DOMAIN polls = 1..Len(polls)
        /\ DOMAIN polls' = 1..(Len(polls) + 1)
        /\ polls'[Len(polls')] = p
        /\ \A i \in 1..Len(polls) : polls'[i] = polls[i]
        /\ polls' # <<>>
    BY <1>a, <2>1
  <2>3. Links'
    BY <1>a, <1>u, <2>2 DEF Links, Link
  <2>4. snapshot.status \notin Done /\ snapshot.attempt \in Nat
    BY <1>a, <2>1 DEF Shape, Open, Record
  <2>5. PollsContinue'
    <3> SUFFICES ASSUME NEW i \in DOMAIN polls'
                 PROVE  IF polls'[i].attempt = 1 THEN polls'[i].state = 0
                        ELSE polls'[i].state \in
                               {j \in 1..i - 1 : polls'[j].attempt = polls'[i].attempt - 1}
      BY DEF PollsContinue
    <3>1. CASE i \in DOMAIN polls
      <4>1. /\ polls'[i] = polls[i] /\ \A j \in 1..i - 1 : polls'[j] = polls[j]
        BY <1>a, <2>2, <3>1
      <4>2. IF polls[i].attempt = 1 THEN polls[i].state = 0
            ELSE polls[i].state \in {j \in 1..i - 1 : polls[j].attempt = polls[i].attempt - 1}
        BY <1>a, <3>1 DEF PollsContinue
      <4> QED
        BY <4>1, <4>2
    <3>2. CASE i = Len(polls) + 1
      <4>1. polls'[i].attempt = snapshot.attempt + 1 /\ polls'[i].state = snapshot.result
        BY <2>2, <3>2 DEF Attempt, State
      <4>2. CASE snapshot.attempt = 0
        BY <1>a, <2>4, <4>1, <4>2 DEF Links, Link
      <4>3. CASE snapshot.attempt # 0
        <5>1. /\ snapshot.result \in 1..Len(polls)
              /\ polls[snapshot.result].attempt = snapshot.attempt
          BY <1>a, <2>4, <4>3 DEF Links, Link
        <5>2. /\ snapshot.result \in 1..i - 1
              /\ polls'[snapshot.result].attempt = polls'[i].attempt - 1
              /\ polls'[i].attempt # 1
          BY <1>a, <2>2, <2>4, <3>2, <4>1, <4>3, <5>1
        <5> QED
          BY <4>1, <5>2
      <4> QED
        BY <4>2, <4>3
    <3> QED
      BY <1>a, <2>2, <3>1, <3>2
  <2>6. OneUpdate' /\ Shape'
    BY <1>a, <1>u, <1>v, <2>1, <2>2 DEF OneUpdate, Shape
  <2> QED
    BY <1>c, <2>1, <2>3, <2>5, <2>6
<1>6. CASE CheckStops
  <2>1. PICK s \in NewState : Send([action |-> "Succeed", result |-> s], "succeeding")
    BY <1>6 DEF CheckStops
  <2>2. queue = <<>> /\ UNCHANGED <<polls, committed>> /\ pc = "checking"
        /\ outcome' = Ok(Len(polls))
    BY <1>6, NotQueued DEF CheckStops
  <2>3. s = Len(polls) /\ s # 0
    BY <1>a, <2>2, EveryState
  <2>4. [action |-> "Succeed", result |-> s] \in Update
    BY <1>a, <2>3, UpdateType
  <2>5. \/ pc' = "parked" /\ queue' = <<>>
        \/ pc' = "succeeding" /\ queue' # <<>> /\ Len(queue') = 1
           /\ queue'[1].action = "Succeed" /\ queue'[1].result = s
    BY <2>1, <2>2, <2>4, Sent
  <2>6. OneUpdate' /\ Shape'
    BY <1>a, <1>u, <1>v, <2>2, <2>3, <2>5 DEF OneUpdate, Shape
  <2> QED
    BY <1>k, <1>c, <2>2, <2>6
<1>7. CASE CheckContinues
  <2>1. PICK s \in NewState : Send([action |-> "Retry", result |-> s], "retrying")
    BY <1>7 DEF CheckContinues
  <2>2. queue = <<>> /\ UNCHANGED <<polls, outcome, committed>> /\ pc = "checking"
    BY <1>7, NotQueued DEF CheckContinues, conditionVars
  <2>3. s = Len(polls) /\ s \in 1..Len(polls) /\ polls[s].attempt = snapshot.attempt + 1
    BY <1>a, <2>2, EveryState
  <2>4. [action |-> "Retry", result |-> s] \in Update
    BY <1>a, <2>3, UpdateType
  <2>5. \/ pc' = "parked" /\ queue' = <<>>
        \/ pc' = "retrying" /\ queue' # <<>> /\ Len(queue') = 1
           /\ queue'[1].action = "Retry" /\ queue'[1].result = s
    BY <2>1, <2>2, <2>4, Sent
  <2>6. OneUpdate' /\ Shape'
    BY <1>a, <1>u, <1>v, <2>2, <2>3, <2>5 DEF OneUpdate, Shape
  <2> QED
    BY <1>k, <1>c, <2>2, <2>6
<1>8. CASE ReplayCompleted
  <2>1. queue = <<>> /\ queue' = <<>> /\ UNCHANGED <<polls, committed, terminating>>
        /\ pc = "replay" /\ pc' = "returned" /\ record = snapshot /\ ~Open
        /\ outcome' = RecordedOutcome(snapshot)
    BY <1>a, <1>8, NotQueued DEF ReplayCompleted, Shape, Open
  <2>2. Settled'
    BY <1>u, <2>1 DEF Settled, IsReported, Open, RecordedOutcome
  <2> QED
    BY <1>a, <1>k, <1>c, <1>u, <2>1, <2>2 DEF OneUpdate, Shape
<1>9. CASE SerdesFails
  <2>1. queue = <<>> /\ queue' = <<>> /\ UNCHANGED <<polls, outcome, committed>>
        /\ pc' = "suspended"
    BY <1>9, NotQueued DEF SerdesFails, Terminate, conditionVars
  <2> QED
    BY <1>a, <1>k, <1>c, <1>u, <2>1 DEF OneUpdate, Shape
<1>10. CASE CheckFails
  <2>1. queue = <<>> /\ queue' = <<>> /\ UNCHANGED <<polls, committed>>
        /\ pc' = "returned" /\ outcome' = CheckError
    BY <1>10, NotQueued DEF CheckFails
  <2> QED
    BY <1>a, <1>k, <1>c, <1>u, <2>1 DEF OneUpdate, Shape, Settled, IsReported
<1>11. CASE OutcomeReturns
  <2>1. queue = <<>> /\ queue' = <<>> /\ UNCHANGED <<polls, outcome, committed, terminating>>
        /\ pc' = "returned" /\ pc \in {"succeeding", "failing"}
    BY <1>11 DEF OutcomeReturns, Released, conditionVars
  <2>2. Settled /\ pc # "returned"
    BY <1>a, <2>1 DEF Shape
  <2>3. Settled'
    BY <1>u, <1>v, <2>1, <2>2 DEF Settled, IsReported
  <2> QED
    BY <1>a, <1>k, <1>c, <1>u, <2>1, <2>3 DEF OneUpdate, Shape
<1>12. CASE RetryReturns
  <2>1. queue = <<>> /\ queue' = <<>> /\ UNCHANGED <<polls, outcome, committed>>
        /\ pc' = "suspended"
    BY <1>12 DEF RetryReturns, Released, Terminate, conditionVars
  <2> QED
    BY <1>a, <1>k, <1>c, <1>u, <2>1 DEF OneUpdate, Shape
<1>13. CASE NextOperationRecorded
  <2>1. /\ UNCHANGED <<pc, queue, terminating, polls, outcome>> /\ queue = <<>>
        /\ pc = "returned" /\ ~terminating /\ committed' = committed \cup {outcome}
    BY <1>13 DEF NextOperationRecorded, invocationVars
  <2>2. \/ outcome = CheckError \/ IsReported(outcome)
        \/ ~Open /\ outcome = RecordedOutcome(record)
    BY <1>a, <2>1 DEF Shape, Settled, IsReported
  <2>3. CommittedIsRecorded'
    BY <1>a, <1>u, <1>v, <2>1, <2>2 DEF CommittedIsRecorded, IsReported, CheckError
  <2>4. OneUpdate' /\ Shape'
    BY <1>a, <1>u, <1>v, <2>1 DEF OneUpdate, Shape, Settled, IsReported
  <2> QED
    BY <1>k, <2>1, <2>3, <2>4
<1> QED
  BY <1>1, <1>2, <1>3, <1>4, <1>5, <1>6, <1>7, <1>8, <1>9, <1>10, <1>11, <1>12, <1>13
     DEF ConditionAction

LEMMA Invariance ==
  ASSUME EveryPayload
  PROVE  Spec => []IInv
<1>1. IInv /\ [Next]_vars => IInv'
  <2> SUFFICES ASSUME IInv, [Next]_vars PROVE IInv'
    OBVIOUS
  <2>1. ConditionTypeOK' /\ Within'
    BY TypesStep DEF IInv
  <2>2. CASE Next
    BY <2>1, <2>2, IInvCondition, IInvEnvironment DEF Next, IInv
  <2>3. CASE UNCHANGED vars
    BY <2>1, <2>3 DEF vars, invocationVars, conditionVars, IInv, Links, Link, OneUpdate, Shape,
       Settled, Open, Attempt, RecordedOutcome, PollsContinue, CommittedIsRecorded,
       IsReported
  <2> QED
    BY <2>2, <2>3
<1> QED
  BY <1>1, IInvInit, PTL DEF Spec

\* A poll is handed the state that an earlier poll of the preceding attempt left,
\* however many polls were cut off (wait_condition/execute.rs:19, :155).
THEOREM PollsAreContinued ==
  ASSUME EveryPayload
  PROVE  Spec => []PollsContinue
<1>1. IInv => PollsContinue
  BY DEF IInv
<1> QED
  BY <1>1, Invariance, PTL

\* A handler that went on upon WaitConditionExceeded has the failure on record, of one
\* attempt less than the error names: polling is over, although what later invocations
\* report is another error (wait_condition/execute.rs:49, replay.rs:39).
THEOREM ExceededStaysFinal ==
  ASSUME EveryPayload
  PROVE  Spec => []ExceededIsFinal
<1>1. IInv => ExceededIsFinal
  <2> SUFFICES ASSUME IInv, NEW o \in committed, o.kind = "exceeded"
               PROVE  IsReported(o)
    BY DEF ExceededIsFinal, IsReported
  <2>1. record \in Record
    BY DEF IInv, ConditionTypeOK, InvocationTypeOK
  <2>2. ~(~Open /\ o = RecordedOutcome(record))
    BY <2>1, RecordedOutcomeType DEF Open
  <2> QED
    BY <2>2 DEF IInv, CommittedIsRecorded, IsReported
<1> QED
  BY <1>1, Invariance, PTL

-----------------------------------------------------------------------------
(* The refinement of StepPromise.                                          *)

LEMMA OutcomeIsSet ==
  ASSUME NEW r \in Record, r.status \in Done
  PROVE  RecordedOutcome(r) # Unset
BY RecordedOutcomeType DEF Outcome, Unset

\* Nothing is promised by what changes neither the history nor a final record.
LEMMA SettleOrStutter ==
  ASSUME record \in Record, record' \in Record, UNCHANGED <<polls, committed>>,
         ~Open => record' = record
  PROVE  [Promise!Next]_Promise!promiseVars
<1>1. CASE record' = record
  BY <1>1 DEF Promise!promiseVars, Replayable, RecordedOutcome
<1>2. CASE Open /\ record'.status \notin Done
  BY <1>2 DEF Promise!promiseVars, Replayable, Open
<1>3. CASE Open /\ record'.status \in Done
  <2>1. RecordedOutcome(record)' # Unset
    BY <1>3, OutcomeIsSet DEF RecordedOutcome
  <2> QED
    BY <1>3, <2>1 DEF Promise!Next, Replayable, Promise!Settle, Open
<1> QED
  BY <1>1, <1>2, <1>3

LEMMA PromiseStep ==
  ASSUME IInv, IInv', Next
  PROVE  [Promise!Next]_Promise!promiseVars
<1>a. /\ record \in Record /\ record' \in Record /\ polls \in Seq(Poll) /\ polls' \in Seq(Poll)
      /\ Shape /\ OneUpdate /\ CommittedIsRecorded
  BY DEF IInv, ConditionTypeOK, InvocationTypeOK
<1>1. CASE RunCheck
  <2>1. Open /\ record' = record /\ committed' = committed
        /\ polls' = Append(polls, [attempt |-> Attempt, state |-> State])
    BY <1>a, <1>1 DEF RunCheck, Shape
  <2>2. Len(polls') = Len(polls) + 1
    BY <1>a, <2>1
  <2>3. SubSeq(polls', 1, Len(polls)) = polls
    BY <1>a, <2>1, <2>2
  <2> QED
    BY <2>1, <2>2, <2>3 DEF Promise!Next, Replayable, Promise!Run, Open, RecordedOutcome
<1>2. CASE NextOperationRecorded
  <2>1. /\ record' = record /\ polls' = polls /\ committed' = committed \cup {outcome}
        /\ \/ outcome = CheckError \/ IsReported(outcome)
           \/ ~Open /\ outcome = RecordedOutcome(record)
    BY <1>a, <1>2 DEF NextOperationRecorded, invocationVars, Shape, Settled, IsReported
  <2>2. CASE outcome = CheckError \/ IsReported(outcome)
    <3>1. Replayable' = Replayable
      BY <2>1, <2>2 DEF Replayable, CheckError, IsReported, Exceeded
    <3> QED
      BY <2>1, <3>1 DEF Promise!promiseVars, Replayable, RecordedOutcome
  <2>3. CASE ~Open /\ outcome = RecordedOutcome(record)
    <3>1. record.status \in Done /\ RecordedOutcome(record) # Unset
          /\ RecordedOutcome(record).kind \notin {"exceeded", "error"}
      BY <1>a, <2>3, OutcomeIsSet, RecordedOutcomeType DEF Open
    <3>2. Replayable \subseteq {RecordedOutcome(record)}
      BY <1>a DEF Replayable, CommittedIsRecorded, IsReported, Exceeded
    <3>3. Replayable' = {RecordedOutcome(record)}
      BY <2>1, <2>3, <3>1, <3>2 DEF Replayable
    <3>4. RecordedOutcome(record)' = RecordedOutcome(record)
      BY <2>1 DEF RecordedOutcome
    <3>5. Promise!Commit
      BY <2>1, <3>1, <3>3, <3>4 DEF Promise!Commit
    <3> QED
      BY <3>5 DEF Promise!Next
  <2> QED
    BY <2>1, <2>2, <2>3
<1>3. CASE ConditionAction /\ ~RunCheck /\ ~NextOperationRecorded
  <2>1. UNCHANGED <<record, polls, committed>>
    BY <1>3 DEF ConditionAction, ReplayCompleted, SerdesFails, Exceed, Start, StartReturns,
       Resume, CheckFails, CheckStops, CheckContinues, OutcomeReturns, RetryReturns,
       conditionVars
  <2> QED
    BY <1>a, <2>1, SettleOrStutter
<1>4. CASE EnvironmentAction /\ UNCHANGED conditionVars
  <2>1. ~Open => record' = record
    BY <1>a, <1>4 DEF OneUpdate, EnvironmentAction, RecordUpdate, TimerElapses, BatchFails,
       Invoke, Crash, OtherOperationSuspends, InvocationEnds, Open, Done
  <2> QED
    BY <1>a, <1>4, <2>1, SettleOrStutter DEF conditionVars
<1> QED
  BY <1>1, <1>2, <1>3, <1>4 DEF Next

\* The check is called only while the condition has no outcome, and what the handler
\* does next rests on the outcome that every later invocation replays, but for the two
\* errors that none replays: the check's own, and WaitConditionExceeded, which later
\* invocations give as a StepFailed (wait_condition/replay.rs:39, execute.rs:51).
THEOREM ConditionImplementsPromise ==
  ASSUME EveryPayload
  PROVE  Spec => ImplementsPromise
<1>1. Init => Promise!Init
  BY DEF Init, InvocationInit, Unrecorded, Done, Promise!Init, Replayable
<1>2. IInv /\ IInv' /\ [Next]_vars => [Promise!Next]_Promise!promiseVars
  <2> SUFFICES ASSUME IInv, IInv', [Next]_vars
               PROVE  [Promise!Next]_Promise!promiseVars
    OBVIOUS
  <2>1. CASE Next
    BY <2>1, PromiseStep
  <2>2. CASE UNCHANGED vars
    BY <2>2 DEF vars, invocationVars, conditionVars, RecordedOutcome, Promise!promiseVars, Replayable
  <2> QED
    BY <2>1, <2>2
<1> QED
  BY <1>1, <1>2, Invariance, PTL DEF Spec, Promise!Spec, ImplementsPromise
=============================================================================
