-------------------------- MODULE ChildContextProofs --------------------------
(***************************************************************************)
(* Proofs about ChildContext, for functions of any length, any number of   *)
(* crashes and failed batches, and a Serdes that may give no result.       *)
(***************************************************************************)
EXTENDS ChildContext, TLAPS

-----------------------------------------------------------------------------
(* The inductive invariant.                                                *)

Open == record.status \notin Done

AllSucceeded == \A i \in Inner : inner[i].status = "Succeeded"

\* What the invocation found recorded of the operations inside is still so.
Stable == \A i \in Inner : found[i].status \in Done => inner[i] = found[i]

\* The function's own progress rests on records, unless a batch failed.
Prefix ==
  ~terminating =>
    /\ \A i \in Inner : i < at => inner[i].status = "Succeeded"
    /\ at > 1 => value = inner[at - 1].result

\* At most one update is on its way: every checkpoint is awaited.
OneUpdate ==
  queue # <<>> =>
    /\ Len(queue) = 1
    /\ \/ pc = "starting" /\ sent = 0 /\ queue[1].action = "Start"
       \/ /\ pc = "recording" /\ sent = at /\ queue[1].action = "Succeed"
          /\ queue[1].result = Len(calls)
       \/ pc = "erring" /\ sent = at /\ queue[1].action = "Fail"
       \/ /\ pc = "succeeding" /\ sent = 0 /\ queue[1].action = "Succeed"
          /\ AllSucceeded
          /\ outcome = Ok(inner[Length].result)
          /\ queue[1].result \in {0, inner[Length].result}
       \/ pc = "failing" /\ sent = 0 /\ queue[1].action = "Fail" /\ outcome = ContextFailed

\* A recorded success is that of the last operation inside.
RecordRests ==
  record.status = "Succeeded" =>
    AllSucceeded /\ record.result \in {0, inner[Length].result}

Settled == ~Open /\ outcome = RecordedOutcome

Shape ==
  /\ pc = "replay" => record = snapshot
  /\ pc \in {"function", "succeeding"} => snapshot.status # "Failed"
  /\ pc \in {"starting", "body", "recording", "erring", "error", "failing"} =>
       snapshot.status \notin Done
  /\ pc \in {"body", "recording", "erring"} => at \in Inner /\ found[at].status \notin Done
  /\ pc \in {"replay", "starting", "function", "body", "recording", "erring", "error"} =>
       snapshot.status \in Done \/ Open
  /\ pc \in {"succeeding", "failing"} /\ queue # <<>> => snapshot.status \in Done \/ Open
  /\ pc = "recording" /\ queue = <<>> =>
       \/ terminating
       \/ inner[at].status = "Succeeded" /\ inner[at].result = Len(calls)
  /\ pc \in {"succeeding", "failing", "returned"} /\ queue = <<>> => terminating \/ Settled

Snapshot ==
  snapshot.status = "Succeeded" =>
    /\ record.status = "Succeeded"
    /\ \A i \in Inner : found[i].status = "Succeeded"

CommittedIsRecorded == \A o \in committed : ~Open /\ o = RecordedOutcome

IInv ==
  /\ ChildTypeOK
  /\ Stable
  /\ Prefix
  /\ OneUpdate
  /\ RecordRests
  /\ Shape
  /\ Snapshot
  /\ CommittedIsRecorded
  /\ ParkedIsTerminating

LEMMA Dequeued ==
  ASSUME NEW q \in Seq(Update), q # <<>>, Len(q) = 1
  PROVE  /\ Head(q) = q[1] /\ q[1] \in Update
         /\ Tail(q) = <<>>
<1>1. Head(q) = q[1] /\ Head(q) \in Update
  OBVIOUS
<1>2. Tail(q) \in Seq(Update) /\ Len(Tail(q)) = 0
  OBVIOUS
<1> QED
  <2>1. \A t \in Seq(Update) : Len(t) = 0 => t = <<>>
    OBVIOUS
  <2> QED
    BY <1>1, <1>2, <2>1

LEMMA Queued ==
  ASSUME NEW q, q = <<>>, NEW u \in Update
  PROVE  /\ Append(q, u) # <<>>
         /\ Append(q, u) \in Seq(Update)
         /\ Len(Append(q, u)) = 1
         /\ Append(q, u)[1] = u
<1>1. <<>> \in Seq(Update)
  OBVIOUS
<1> QED
  BY <1>1

\* A checkpoint of the context or of an operation inside, sent where nothing is on
\* its way.
LEMMA Sent ==
  ASSUME queue = <<>>, NEW u \in Update, NEW next, Send(u, next)
  PROVE  /\ queue' \in Seq(Update) /\ Len(queue') <= 1
         /\ \/ terminating /\ pc' = "parked" /\ queue' = <<>>
            \/ /\ ~terminating /\ pc' = next /\ queue' # <<>>
               /\ Len(queue') = 1 /\ queue'[1] = u
<1>1. <<>> \in Seq(Update) /\ Len(<<>>) = 0
  OBVIOUS
<1>2. \/ terminating /\ pc' = "parked" /\ queue' = <<>>
      \/ ~terminating /\ pc' = next /\ queue' = Append(queue, u)
  BY DEF Send
<1>3. CASE terminating
  BY <1>1, <1>2, <1>3
<1>4. CASE ~terminating
  <2> DEFINE q == Append(queue, u)
  <2>1. q # <<>> /\ q \in Seq(Update) /\ Len(q) = 1 /\ q[1] = u
    BY Queued
  <2> HIDE DEF q
  <2>2. pc' = next /\ queue' = q
    BY <1>2, <1>4 DEF q
  <2>3. Len(q) <= 1
    BY <2>1
  <2> QED
    BY <1>4, <2>1, <2>2, <2>3, Zenon
<1> QED
  BY <1>3, <1>4

LEMMA UpdateType ==
  ASSUME NEW a \in {"Start", "Retry", "Succeed", "Fail"}, NEW v \in Nat
  PROVE  [action |-> a, result |-> v] \in Update
  BY DEF Update

LEMMA NotQueued ==
  ASSUME IInv, pc \notin {"starting", "recording", "erring", "succeeding", "failing"}
  PROVE  queue = <<>>
  BY DEF IInv, OneUpdate

LEMMA Facts ==
  ASSUME IInv
  PROVE  /\ record \in Record /\ snapshot \in Record /\ queue \in Seq(Update)
         /\ terminating \in BOOLEAN
         /\ crashes \in 0..MaxCrashes /\ refusals \in 0..MaxRefusals
         /\ pc \in ChildPc /\ large \in BOOLEAN
         /\ inner \in [Inner -> Record] /\ found \in [Inner -> Record]
         /\ at \in 1..Length + 1 /\ value \in Nat /\ sent \in 0..Length
         /\ calls \in Seq(Inner) /\ Len(calls) \in Nat
         /\ outcome \in Outcome /\ committed \in SUBSET Outcome
         /\ Length \in Nat \ {0} /\ Length \in Inner
         /\ inner[Length].result \in Nat
         /\ MaxCrashes \in Nat /\ MaxRefusals \in Nat
<1>1. Length \in Nat \ {0} /\ Length \in Inner
  BY ChildAssumption DEF Inner
<1>2. /\ inner \in [Inner -> Record] /\ calls \in Seq(Inner)
  BY DEF IInv, ChildTypeOK
<1>3. inner[Length].result \in Nat /\ Len(calls) \in Nat
  BY <1>1, <1>2 DEF Record
<1> QED
  BY <1>1, <1>2, <1>3, BoundsAssumption DEF IInv, ChildTypeOK, InvocationTypeOK

\* A success that is on record has the value of the last operation inside.
LEMMA OutcomeOfSuccess ==
  ASSUME RecordRests, record.status = "Succeeded"
  PROVE  ~Open /\ RecordedOutcome = Ok(inner[Length].result)
  BY DEF RecordRests, RecordedOutcome, Open, Done

LEMMA IInvInit == Init => IInv
<1> SUFFICES ASSUME Init PROVE IInv
  OBVIOUS
<1>1. Unrecorded \in Record /\ ContextFailed \in Outcome
  BY DEF Unrecorded, Record, Status, ContextFailed, Outcome
<1>2. 0 \in 0..MaxCrashes /\ 0 \in 0..MaxRefusals /\ 0 \in 0..Length /\ 1 \in 1..Length + 1
  BY BoundsAssumption, ChildAssumption
<1>3. <<>> \in Seq(Update) /\ <<>> \in Seq(Inner) /\ Len(<<>>) = 0
  OBVIOUS
<1>4. InvocationTypeOK
  BY <1>1, <1>2, <1>3 DEF Init, InvocationInit, InvocationTypeOK
<1>5. inner \in [Inner -> Record] /\ found \in [Inner -> Record]
  BY <1>1 DEF Init
<1>6. ChildTypeOK
  BY <1>1, <1>2, <1>3, <1>4, <1>5 DEF Init, InvocationInit, ChildTypeOK, ChildPc
<1>7. \A i \in Inner : ~(i < at)
  BY ChildAssumption DEF Inner, Init
<1>8. Stable /\ Prefix
  BY <1>7 DEF Init, InvocationInit, Stable, Prefix
<1>9. OneUpdate /\ RecordRests /\ Shape /\ Snapshot /\ CommittedIsRecorded /\ ParkedIsTerminating
  BY DEF Init, InvocationInit, Unrecorded, Done, OneUpdate, RecordRests, Shape, Snapshot,
     CommittedIsRecorded, ParkedIsTerminating
<1> QED
  BY <1>6, <1>8, <1>9 DEF IInv

-----------------------------------------------------------------------------
(* The service's steps.                                                    *)

\* The context's update takes effect, and its caller is released.
LEMMA RecordedStep ==
  ASSUME IInv, queue # <<>>, sent = 0, record' = AfterUpdate(Head(queue)), queue' = <<>>,
         UNCHANGED <<pc, snapshot, childVars>>, terminating => terminating'
  PROVE  /\ record' \in Record
         /\ Stable' /\ Prefix' /\ OneUpdate' /\ RecordRests' /\ Shape' /\ Snapshot'
         /\ CommittedIsRecorded' /\ ParkedIsTerminating'
<1> DEFINE u == queue[1]
<1>a. /\ Stable /\ Prefix /\ OneUpdate /\ RecordRests /\ Shape /\ Snapshot
      /\ CommittedIsRecorded /\ ParkedIsTerminating
  BY DEF IInv
<1>b. u \in Update /\ record' = AfterUpdate(u)
  BY <1>a, Facts, Dequeued DEF OneUpdate
<1>c. at # 0
  BY Facts
<1>d. UNCHANGED <<large, inner, found, at, value, sent, calls, outcome, committed>>
  BY DEF childVars
<1>e. Stable' /\ Prefix' /\ OneUpdate' /\ ParkedIsTerminating'
  BY <1>a, <1>d DEF Stable, Prefix, OneUpdate, ParkedIsTerminating
<1>1. CASE pc = "starting" /\ u.action = "Start"
  <2>1. /\ record' = [record EXCEPT !.status = "Started"]
        /\ snapshot.status \notin Done /\ Open
    BY <1>a, <1>b, <1>1 DEF AfterUpdate, Shape
  <2>2. record' \in Record /\ record'.status = "Started"
    BY <2>1, Facts DEF Record, Status
  <2> QED
    BY <1>1, <1>a, <1>d, <1>e, <2>1, <2>2 DEF RecordRests, Shape, Snapshot,
       CommittedIsRecorded, Open, Done
<1>2. CASE /\ pc = "succeeding" /\ u.action = "Succeed" /\ AllSucceeded
           /\ outcome = Ok(inner[Length].result) /\ u.result \in {0, inner[Length].result}
  <2>1. record' = [record EXCEPT !.status = "Succeeded", !.result = u.result]
    BY <1>b, <1>2 DEF AfterUpdate
  <2>2. record' \in Record /\ record'.status = "Succeeded" /\ record'.result = u.result
    BY <1>b, <2>1, Facts DEF Record, Status, Done, Update
  <2>3. RecordRests'
    BY <1>2, <1>d, <2>2 DEF RecordRests, AllSucceeded
  <2>4. Open' = FALSE /\ RecordedOutcome' = Ok(inner[Length].result)
    BY <1>2, <1>d, <2>2 DEF Open, Done, RecordedOutcome
  <2>5. Settled'
    BY <1>2, <1>d, <2>4 DEF Settled
  <2>6. Open \/ record.status = "Succeeded"
    BY <1>a, <1>2 DEF Shape, Snapshot, Done
  <2>7. CommittedIsRecorded'
    BY <1>a, <1>d, <2>4, <2>6, OutcomeOfSuccess DEF CommittedIsRecorded
  <2>8. Shape' /\ Snapshot'
    BY <1>2, <1>a, <1>d, <2>2, <2>5 DEF Shape, Snapshot
  <2> QED
    BY <1>e, <2>2, <2>3, <2>7, <2>8
<1>3. CASE pc = "failing" /\ u.action = "Fail" /\ outcome = ContextFailed
  <2>1. record' = [record EXCEPT !.status = "Failed", !.result = u.result]
    BY <1>b, <1>3 DEF AfterUpdate
  <2>2. record' \in Record /\ record'.status = "Failed"
    BY <1>b, <2>1, Facts DEF Record, Status, Done, Update
  <2>3. Open /\ snapshot.status \notin Done
    BY <1>a, <1>3 DEF Shape
  <2>4. Settled'
    BY <1>3, <1>d, <2>2 DEF Settled, Open, Done, RecordedOutcome
  <2>5. Shape' /\ Snapshot' /\ RecordRests' /\ CommittedIsRecorded'
    BY <1>3, <1>a, <1>d, <2>2, <2>3, <2>4 DEF Shape, Snapshot, RecordRests,
       CommittedIsRecorded, Done
  <2> QED
    BY <1>e, <2>2, <2>5
<1> QED
  BY <1>a, <1>c, <1>1, <1>2, <1>3 DEF OneUpdate

\* The update of an operation inside takes effect.
LEMMA InnerRecordedStep ==
  ASSUME IInv, queue # <<>>, sent # 0, inner' = InnerAfter(Head(queue)), queue' = <<>>,
         UNCHANGED <<record, pc, snapshot, large, found, at, value, sent, calls, outcome,
                     committed>>,
         terminating => terminating'
  PROVE  /\ inner' \in [Inner -> Record]
         /\ Stable' /\ Prefix' /\ OneUpdate' /\ RecordRests' /\ Shape' /\ Snapshot'
         /\ CommittedIsRecorded' /\ ParkedIsTerminating'
<1> DEFINE u == queue[1]
           r == [status |-> IF u.action = "Succeed" THEN "Succeeded" ELSE "Failed",
                 attempt |-> 0, result |-> u.result]
<1>a. /\ Stable /\ Prefix /\ OneUpdate /\ RecordRests /\ Shape /\ Snapshot
      /\ CommittedIsRecorded /\ ParkedIsTerminating
  BY DEF IInv
<1>1. /\ pc \in {"recording", "erring"} /\ sent = at /\ at \in Inner
      /\ pc = "recording" => u.action = "Succeed" /\ u.result = Len(calls)
      /\ found[at].status \notin Done /\ snapshot.status \notin Done /\ Open
  BY <1>a DEF OneUpdate, Shape
<1>2. u \in Update /\ inner' = [inner EXCEPT ![at] = r]
  BY <1>a, <1>1, Facts, Dequeued DEF OneUpdate, InnerAfter
<1>3. r \in Record
  BY <1>2 DEF Record, Status, Done, Update
<1>4. inner' \in [Inner -> Record] /\ inner'[at] = r /\ \A i \in Inner \ {at} : inner'[i] = inner[i]
  BY <1>1, <1>2, <1>3, Facts
<1>5. Stable'
  BY <1>a, <1>1, <1>4 DEF Stable
<1>6. Prefix'
  <2>1. \A i \in Inner : i < at => inner'[i] = inner[i]
    BY <1>1, <1>4 DEF Inner
  <2>2. at > 1 => at - 1 \in Inner /\ inner'[at - 1] = inner[at - 1]
    <3>1. at \in 1..Length /\ Length \in Nat
      BY <1>1, Facts DEF Inner
    <3>2. at > 1 => at - 1 \in 1..Length /\ at - 1 # at
      BY <3>1
    <3> QED
      BY <1>4, <3>2 DEF Inner
  <2> QED
    BY <1>a, <2>1, <2>2 DEF Prefix
<1>7. OneUpdate' /\ RecordRests' /\ Snapshot' /\ CommittedIsRecorded' /\ ParkedIsTerminating'
  BY <1>a, <1>1 DEF OneUpdate, RecordRests, Snapshot, CommittedIsRecorded, Open, Done,
     ParkedIsTerminating
<1>8. Shape'
  <2>1. pc = "recording" => inner'[at].status = "Succeeded" /\ inner'[at].result = Len(calls)
    BY <1>1, <1>4
  <2> QED
    BY <1>a, <1>1, <2>1 DEF Shape, Open
<1> QED
  BY <1>4, <1>5, <1>6, <1>7, <1>8

LEMMA IInvEnvironment ==
  ASSUME IInv, EnvironmentAction
  PROVE  IInv'
<1>a. /\ Stable /\ Prefix /\ OneUpdate /\ RecordRests /\ Shape /\ Snapshot
      /\ CommittedIsRecorded /\ ParkedIsTerminating
  BY DEF IInv
<1>b. <<>> \in Seq(Update) /\ Len(<<>>) = 0
  OBVIOUS
<1>1. CASE ContextRecorded
  <2>1. /\ queue' = <<>> /\ UNCHANGED <<pc, snapshot, childVars, terminating, crashes, refusals>>
        /\ queue # <<>> /\ sent = 0 /\ record' = AfterUpdate(Head(queue))
    BY <1>a, <1>1, Facts, Dequeued DEF ContextRecorded, RecordUpdate, OneUpdate
  <2>2. ChildTypeOK'
    BY <1>b, <2>1, Facts, RecordedStep DEF ChildTypeOK, InvocationTypeOK, childVars
  <2> QED
    BY <2>1, <2>2, RecordedStep DEF IInv
<1>2. CASE ContextBatchFails
  <2>1. /\ queue' = <<>> /\ terminating' = TRUE
        /\ UNCHANGED <<pc, snapshot, childVars, crashes>>
        /\ queue # <<>> /\ sent = 0 /\ refusals' \in 0..MaxRefusals
        /\ record' \in {record, AfterUpdate(Head(queue))}
    BY <1>2, Facts DEF ContextBatchFails, BatchFails
  <2>2. CASE record' = AfterUpdate(Head(queue))
    <3>1. ChildTypeOK'
      BY <1>b, <2>1, <2>2, Facts, RecordedStep DEF ChildTypeOK, InvocationTypeOK, childVars
    <3> QED
      BY <2>1, <2>2, <3>1, RecordedStep DEF IInv
  <2>3. CASE record' = record
    <3>1. ChildTypeOK'
      BY <1>b, <2>1, <2>3, Facts DEF ChildTypeOK, InvocationTypeOK, childVars
    <3>2. /\ Stable' /\ Prefix' /\ OneUpdate' /\ RecordRests' /\ Snapshot'
          /\ CommittedIsRecorded' /\ ParkedIsTerminating'
      BY <1>a, <2>1, <2>3 DEF childVars, Stable, Prefix, OneUpdate, RecordRests, AllSucceeded,
         Snapshot, CommittedIsRecorded, ParkedIsTerminating, Open, RecordedOutcome
    <3>3. Shape'
      BY <1>a, <2>1, <2>3 DEF childVars, Shape, Open
    <3> QED
      BY <3>1, <3>2, <3>3 DEF IInv
  <2> QED
    BY <2>1, <2>2, <2>3
<1>3. CASE InnerRecorded
  <2>1. /\ queue' = <<>> /\ queue # <<>> /\ sent # 0 /\ inner' = InnerAfter(Head(queue))
        /\ UNCHANGED <<record, pc, snapshot, large, found, at, value, sent, calls, outcome,
                       committed, terminating, crashes, refusals>>
    BY <1>a, <1>3, Facts, Dequeued DEF InnerRecorded, OneUpdate
  <2>2. ChildTypeOK'
    BY <1>b, <2>1, Facts, InnerRecordedStep DEF ChildTypeOK, InvocationTypeOK
  <2> QED
    BY <2>1, <2>2, InnerRecordedStep DEF IInv
<1>4. CASE InnerBatchFails
  <2>1. /\ queue' = <<>> /\ queue # <<>> /\ sent # 0 /\ terminating' = TRUE
        /\ inner' \in {inner, InnerAfter(Head(queue))} /\ refusals' \in 0..MaxRefusals
        /\ UNCHANGED <<record, pc, snapshot, large, found, at, value, sent, calls, outcome,
                       committed, crashes>>
    BY <1>4, Facts DEF InnerBatchFails
  <2>2. CASE inner' = InnerAfter(Head(queue))
    <3>1. ChildTypeOK'
      BY <1>b, <2>1, <2>2, Facts, InnerRecordedStep DEF ChildTypeOK, InvocationTypeOK
    <3> QED
      BY <2>1, <2>2, <3>1, InnerRecordedStep DEF IInv
  <2>3. CASE inner' = inner
    <3>1. ChildTypeOK'
      BY <1>b, <2>1, <2>3, Facts DEF ChildTypeOK, InvocationTypeOK
    <3>2. /\ Stable' /\ Prefix' /\ OneUpdate' /\ RecordRests' /\ Snapshot'
          /\ CommittedIsRecorded' /\ ParkedIsTerminating'
      BY <1>a, <2>1, <2>3 DEF Stable, Prefix, OneUpdate, RecordRests, AllSucceeded,
         Snapshot, CommittedIsRecorded, ParkedIsTerminating, Open, RecordedOutcome
    <3>3. Shape'
      BY <1>a, <2>1, <2>3 DEF Shape, Open
    <3> QED
      BY <3>1, <3>2, <3>3 DEF IInv
  <2> QED
    BY <2>1, <2>2, <2>3
<1>5. CASE InvokeWithChildren
  <2>1. /\ pc = "down" /\ pc' = "replay" /\ snapshot' = record /\ terminating' = FALSE
        /\ found' = inner /\ at' = 1 /\ value' = 0
        /\ UNCHANGED <<record, queue, crashes, refusals, large, inner, sent, calls, outcome,
                       committed>>
    BY <1>5 DEF InvokeWithChildren, Invoke
  <2>2. queue = <<>>
    BY <2>1, NotQueued
  <2>3. ChildTypeOK'
    <3>1. 1 \in 1..Length + 1 /\ queue' = <<>>
      BY <2>1, <2>2, Facts
    <3>2. InvocationTypeOK'
      BY <1>b, <2>1, <3>1, Facts DEF InvocationTypeOK
    <3> QED
      BY <1>b, <2>1, <3>1, <3>2, Facts DEF ChildTypeOK, ChildPc
  <2>4. Prefix' /\ Stable'
    <3>1. \A i \in Inner : ~(i < 1)
      BY Facts DEF Inner
    <3> QED
      BY <2>1, <3>1 DEF Prefix, Stable
  <2>5. OneUpdate' /\ RecordRests' /\ CommittedIsRecorded' /\ ParkedIsTerminating'
    BY <1>a, <2>1, <2>2 DEF OneUpdate, RecordRests, AllSucceeded, CommittedIsRecorded,
       ParkedIsTerminating, Open, RecordedOutcome
  <2>6. Snapshot'
    BY <1>a, <2>1 DEF RecordRests, AllSucceeded, Snapshot
  <2>7. Shape'
    BY <2>1 DEF Shape, Open
  <2> QED
    BY <2>3, <2>4, <2>5, <2>6, <2>7 DEF IInv
<1>6. CASE (Crash \/ InvocationEnds) /\ UNCHANGED childVars
  <2>1. /\ pc' = "down" /\ queue' = <<>> /\ crashes' \in 0..MaxCrashes
        /\ UNCHANGED <<record, snapshot, terminating, refusals, large, inner, found, at, value,
                       sent, calls, outcome, committed>>
    BY <1>6, Facts DEF Crash, InvocationEnds, childVars
  <2>2. ChildTypeOK'
    BY <1>b, <2>1, Facts DEF ChildTypeOK, InvocationTypeOK, ChildPc
  <2>3. /\ Stable' /\ Prefix' /\ OneUpdate' /\ RecordRests' /\ Snapshot'
        /\ CommittedIsRecorded' /\ ParkedIsTerminating'
    BY <1>a, <2>1 DEF Stable, Prefix, OneUpdate, RecordRests, AllSucceeded,
       Snapshot, CommittedIsRecorded, ParkedIsTerminating, Open, RecordedOutcome
  <2>4. Shape'
    BY <2>1 DEF Shape
  <2> QED
    BY <2>2, <2>3, <2>4 DEF IInv
<1>7. CASE OtherOperationSuspends /\ UNCHANGED childVars
  <2>1. /\ terminating' = TRUE /\ crashes' \in 0..MaxCrashes
        /\ UNCHANGED <<record, snapshot, pc, queue, refusals, large, inner, found, at, value,
                       sent, calls, outcome, committed>>
    BY <1>7, Facts DEF OtherOperationSuspends, childVars
  <2>2. ChildTypeOK'
    BY <2>1 DEF IInv, ChildTypeOK, InvocationTypeOK
  <2>3. /\ Stable' /\ Prefix' /\ OneUpdate' /\ RecordRests' /\ Snapshot'
        /\ CommittedIsRecorded' /\ ParkedIsTerminating'
    BY <1>a, <2>1 DEF Stable, Prefix, OneUpdate, RecordRests, AllSucceeded,
       Snapshot, CommittedIsRecorded, ParkedIsTerminating, Open, RecordedOutcome
  <2>4. Shape'
    BY <1>a, <2>1 DEF Shape, Open
  <2> QED
    BY <2>2, <2>3, <2>4 DEF IInv
<1> QED
  BY <1>1, <1>2, <1>3, <1>4, <1>5, <1>6, <1>7 DEF EnvironmentAction

-----------------------------------------------------------------------------
(* The steps of the context.                                               *)

LEMMA IInvContext ==
  ASSUME IInv, ContextAction
  PROVE  IInv'
<1>a. /\ Stable /\ Prefix /\ OneUpdate /\ RecordRests /\ Shape /\ Snapshot
      /\ CommittedIsRecorded /\ ParkedIsTerminating /\ InvocationTypeOK
  BY DEF IInv, ChildTypeOK
<1>b. <<>> \in Seq(Update) /\ Len(<<>>) = 0
  OBVIOUS
<1>u. UNCHANGED <<record, snapshot, inner, found, large, refusals>>
  BY DEF ContextAction, ReplayCompleted, SerdesFails, CallAgain, Start, StartReturns,
     InnerReplays, InnerRuns, InnerEnds, InnerReturns, InnerErrs, ReplayedChildrenReturn,
     Succeed, Fail, ContextReturns, NextOperationRecorded, childVars, invocationVars
<1>r. /\ Open' = Open /\ RecordedOutcome' = RecordedOutcome /\ AllSucceeded' = AllSucceeded
      /\ Stable' /\ RecordRests' /\ Snapshot'
  BY <1>a, <1>u DEF Open, RecordedOutcome, AllSucceeded, Stable, RecordRests, Snapshot
<1>c. committed' = committed => CommittedIsRecorded'
  BY <1>a, <1>u, <1>r DEF CommittedIsRecorded
<1>p. at' = at /\ value' = value /\ (terminating => terminating') => Prefix'
  BY <1>a, <1>u DEF Prefix
<1>t. ASSUME /\ pc' \in ChildPc /\ queue' \in Seq(Update) /\ Len(queue') <= 1
             /\ terminating' \in BOOLEAN /\ crashes' \in 0..MaxCrashes
             /\ at' \in 1..Length + 1 /\ value' \in Nat /\ sent' \in 0..Length
             /\ calls' \in Seq(Inner) /\ outcome' \in Outcome
             /\ committed' \in SUBSET Outcome
      PROVE  ChildTypeOK'
  BY <1>t, <1>u, Facts DEF ChildTypeOK, InvocationTypeOK
\* Steps that send nothing where nothing is on its way.
<1>q. queue' = <<>> => /\ OneUpdate' /\ queue' \in Seq(Update) /\ Len(queue') <= 1
  BY <1>b DEF OneUpdate
<1>i. \A i \in Inner : i <= Length /\ i \in Nat /\ i \in 0..Length /\ i + 1 \in 1..Length + 1
  BY Facts DEF Inner
<1>1. CASE ReplayCompleted
  <2>1. /\ pc = "replay" /\ pc' = "returned" /\ record = snapshot
        /\ UNCHANGED <<queue, terminating, crashes, at, value, sent, calls, committed>>
        /\ \/ HasResult /\ outcome' = Ok(snapshot.result)
           \/ snapshot.status = "Failed" /\ outcome' = ContextFailed
    BY <1>a, <1>1 DEF ReplayCompleted, Shape
  <2>2. queue = <<>> /\ queue' = <<>>
    BY <2>1, NotQueued
  <2>3. Settled' /\ outcome' \in Outcome
    <3>1. snapshot.result \in Nat
      BY Facts DEF Record
    <3>2. outcome' \in Outcome
      BY <2>1, <3>1 DEF Outcome, Ok, ContextFailed
    <3>3. ~Open /\ outcome' = RecordedOutcome
      BY <2>1 DEF Open, Done, HasResult, RecordedOutcome
    <3> QED
      BY <1>r, <3>2, <3>3 DEF Settled
  <2>4. ChildTypeOK'
    BY <1>q, <1>t, <2>1, <2>2, <2>3, Facts DEF ChildPc
  <2>5. Shape' /\ ParkedIsTerminating'
    BY <2>1, <2>3 DEF Shape, ParkedIsTerminating
  <2> QED
    BY <1>c, <1>p, <1>q, <1>r, <2>1, <2>2, <2>4, <2>5 DEF IInv
<1>2. CASE SerdesFails
  <2>1. /\ pc \in {"replay", "function"} /\ pc' = "suspended" /\ terminating' = TRUE
        /\ crashes' \in 0..MaxCrashes
        /\ UNCHANGED <<queue, at, value, sent, calls, outcome, committed>>
    BY <1>2, Facts DEF SerdesFails, Terminate, childVars
  <2>2. queue = <<>> /\ queue' = <<>>
    BY <2>1, NotQueued
  <2>3. ChildTypeOK'
    BY <1>q, <1>t, <2>1, <2>2, Facts DEF ChildPc
  <2>4. Shape' /\ ParkedIsTerminating'
    BY <2>1 DEF Shape, ParkedIsTerminating
  <2> QED
    BY <1>c, <1>p, <1>q, <1>r, <2>1, <2>2, <2>3, <2>4 DEF IInv
<1>3. CASE CallAgain
  <2>1. /\ pc = "replay" /\ pc' = "function" /\ snapshot.status # "Failed"
        /\ UNCHANGED <<queue, terminating, crashes, at, value, sent, calls, outcome, committed>>
    BY <1>3 DEF CallAgain, childVars
  <2>2. queue = <<>> /\ queue' = <<>>
    BY <2>1, NotQueued
  <2>3. ChildTypeOK'
    BY <1>q, <1>t, <2>1, <2>2, Facts DEF ChildPc
  <2>4. Shape' /\ ParkedIsTerminating'
    BY <1>a, <1>r, <1>u, <2>1 DEF Shape, ParkedIsTerminating
  <2> QED
    BY <1>c, <1>p, <1>q, <1>r, <2>1, <2>2, <2>3, <2>4 DEF IInv
<1>4. CASE Start
  <2> DEFINE u == [action |-> "Start", result |-> 0]
  <2>1. /\ pc = "replay" /\ snapshot.status = "None" /\ Send(u, "starting") /\ sent' = 0
        /\ UNCHANGED <<terminating, crashes, at, value, calls, outcome, committed>>
    BY <1>4 DEF Start
  <2>2. queue = <<>> /\ u \in Update /\ u.action = "Start"
    BY <2>1, NotQueued, UpdateType
  <2> HIDE DEF u
  <2>3. /\ queue' \in Seq(Update) /\ Len(queue') <= 1
        /\ \/ terminating /\ pc' = "parked" /\ queue' = <<>>
           \/ pc' = "starting" /\ queue' # <<>> /\ Len(queue') = 1 /\ queue'[1] = u
    BY <2>1, <2>2, Sent
  <2>4. ChildTypeOK'
    BY <1>b, <1>t, <2>1, <2>3, Facts DEF ChildPc
  <2>5. OneUpdate' /\ Shape' /\ ParkedIsTerminating'
    BY <1>a, <1>r, <1>u, <2>1, <2>2, <2>3 DEF OneUpdate, Shape, ParkedIsTerminating, Done
  <2> QED
    BY <1>c, <1>p, <1>r, <2>1, <2>4, <2>5 DEF IInv
<1>5. CASE StartReturns
  <2>1. /\ pc = "starting" /\ pc' = "function" /\ queue = <<>> /\ queue' = <<>>
        /\ UNCHANGED <<terminating, crashes, at, value, sent, calls, outcome, committed>>
    BY <1>5 DEF StartReturns, Released, childVars
  <2>2. ChildTypeOK'
    BY <1>q, <1>t, <2>1, Facts DEF ChildPc
  <2>3. Shape' /\ ParkedIsTerminating'
    BY <1>a, <1>r, <1>u, <2>1 DEF Shape, ParkedIsTerminating, Done
  <2> QED
    BY <1>c, <1>p, <1>q, <1>r, <2>1, <2>2, <2>3 DEF IInv
<1>6. CASE InnerReplays
  <2>1. /\ pc = "function" /\ at <= Length /\ found[at].status \in Done
        /\ UNCHANGED <<queue, terminating, crashes, sent, calls, outcome, committed>>
        /\ IF found[at].status = "Succeeded"
           THEN at' = at + 1 /\ value' = found[at].result /\ UNCHANGED pc
           ELSE pc' = "error" /\ UNCHANGED <<at, value>>
    BY <1>6 DEF InnerReplays
  <2>2. queue = <<>> /\ queue' = <<>> /\ at \in Inner
    BY <2>1, NotQueued, Facts DEF Inner
  <2>3. inner[at] = found[at] /\ found[at].result \in Nat
    BY <1>a, <2>1, <2>2, Facts DEF Stable, Record
  <2>4. CASE found[at].status = "Succeeded"
    <3>1. at' = at + 1 /\ value' = found[at].result /\ pc' = pc
      BY <2>1, <2>4
    <3>2. ChildTypeOK'
      BY <1>i, <1>q, <1>t, <2>1, <2>2, <2>3, <3>1, Facts DEF ChildPc
    <3>3. Prefix'
      <4>1. /\ at' - 1 = at
            /\ \A i \in Inner : i < at' => i = at \/ i < at
        BY <2>2, <3>1, Facts DEF Inner
      <4>2. ~terminating =>
              /\ \A i \in Inner : i < at' => inner[i].status = "Succeeded"
              /\ value' = inner[at' - 1].result
        BY <1>a, <2>3, <2>4, <3>1, <4>1 DEF Prefix
      <4> QED
        BY <1>u, <2>1, <4>2 DEF Prefix
    <3>4. Shape' /\ ParkedIsTerminating'
      BY <1>a, <1>r, <1>u, <2>1, <3>1 DEF Shape, ParkedIsTerminating
    <3> QED
      BY <1>c, <1>q, <1>r, <2>1, <2>2, <3>2, <3>3, <3>4 DEF IInv
  <2>5. CASE found[at].status # "Succeeded"
    <3>1. pc' = "error" /\ UNCHANGED <<at, value>>
      BY <2>1, <2>5
    <3>2. snapshot.status \notin Done
      BY <1>a, <2>1, <2>2, <2>5 DEF Snapshot, Shape, Done
    <3>3. ChildTypeOK'
      BY <1>q, <1>t, <2>1, <2>2, <3>1, Facts DEF ChildPc
    <3>4. Shape' /\ ParkedIsTerminating'
      BY <1>a, <1>r, <1>u, <2>1, <3>1, <3>2 DEF Shape, ParkedIsTerminating
    <3> QED
      BY <1>c, <1>p, <1>q, <1>r, <2>1, <2>2, <3>1, <3>3, <3>4 DEF IInv
  <2> QED
    BY <2>4, <2>5
<1>7. CASE InnerRuns
  <2>1. /\ pc = "function" /\ at <= Length /\ found[at].status \notin Done
        /\ UNCHANGED <<queue, terminating, crashes, at, value, sent, outcome, committed>>
        /\ IF terminating \/ HasFinishedAncestor
           THEN pc' = "parked" /\ UNCHANGED calls
           ELSE pc' = "body" /\ calls' = Append(calls, at)
    BY <1>7 DEF InnerRuns
  <2>2. queue = <<>> /\ queue' = <<>> /\ at \in Inner
    BY <2>1, NotQueued, Facts DEF Inner
  <2>3. ~HasFinishedAncestor
    BY <1>a, <2>1, <2>2 DEF HasFinishedAncestor, Snapshot, Shape, Done
  <2>4. CASE terminating
    <3>1. pc' = "parked" /\ calls' = calls
      BY <2>1, <2>4
    <3>2. ChildTypeOK'
      BY <1>q, <1>t, <2>1, <2>2, <3>1, Facts DEF ChildPc
    <3>3. Shape' /\ ParkedIsTerminating'
      BY <2>1, <2>4, <3>1 DEF Shape, ParkedIsTerminating
    <3> QED
      BY <1>c, <1>p, <1>q, <1>r, <2>1, <2>2, <3>2, <3>3 DEF IInv
  <2>5. CASE ~terminating
    <3>1. pc' = "body" /\ calls' = Append(calls, at)
      BY <2>1, <2>3, <2>5
    <3>2. calls' \in Seq(Inner)
      BY <2>2, <3>1, Facts
    <3>3. ChildTypeOK'
      BY <1>q, <1>t, <2>1, <2>2, <3>1, <3>2, Facts DEF ChildPc
    <3>4. Shape' /\ ParkedIsTerminating'
      BY <1>a, <1>r, <1>u, <2>1, <2>2, <2>3, <3>1
         DEF Shape, ParkedIsTerminating, HasFinishedAncestor
    <3> QED
      BY <1>c, <1>p, <1>q, <1>r, <2>1, <2>2, <3>3, <3>4 DEF IInv
  <2> QED
    BY <2>4, <2>5
<1>8. CASE InnerEnds
  <2>1. PICK action \in {"Succeed", "Fail"}, next \in {"recording", "erring"} :
          /\ Send([action |-> action, result |-> Len(calls)], next)
          /\ next = IF action = "Succeed" THEN "recording" ELSE "erring"
    BY <1>8 DEF InnerEnds
  <2> DEFINE u == [action |-> action, result |-> Len(calls)]
  <2>2. /\ pc = "body" /\ sent' = at
        /\ UNCHANGED <<terminating, crashes, at, value, calls, outcome, committed>>
    BY <1>8 DEF InnerEnds
  <2>3. /\ queue = <<>> /\ u \in Update /\ u.action = action /\ u.result = Len(calls)
        /\ at \in Inner
    BY <1>a, <2>2, NotQueued, UpdateType, Facts DEF Shape
  <2>4. Send(u, next)
    BY <2>1
  <2> HIDE DEF u
  <2>5. /\ queue' \in Seq(Update) /\ Len(queue') <= 1
        /\ \/ terminating /\ pc' = "parked" /\ queue' = <<>>
           \/ pc' = next /\ queue' # <<>> /\ Len(queue') = 1 /\ queue'[1] = u
    BY <2>3, <2>4, Sent
  <2>6. ChildTypeOK'
    BY <1>b, <1>i, <1>t, <2>1, <2>2, <2>3, <2>5, Facts DEF ChildPc
  <2>7. OneUpdate' /\ ParkedIsTerminating'
    BY <2>1, <2>2, <2>3, <2>5 DEF OneUpdate, ParkedIsTerminating
  <2>8. Shape'
    BY <1>a, <1>r, <1>u, <2>1, <2>2, <2>5 DEF Shape
  <2> QED
    BY <1>c, <1>p, <1>r, <2>2, <2>6, <2>7, <2>8 DEF IInv
<1>9. CASE InnerReturns
  <2>1. /\ pc = "recording" /\ pc' = "function" /\ queue = <<>> /\ queue' = <<>>
        /\ at' = at + 1 /\ value' = Len(calls)
        /\ UNCHANGED <<terminating, crashes, sent, calls, outcome, committed>>
    BY <1>9 DEF InnerReturns, Released
  <2>2. at \in Inner /\ snapshot.status \notin Done /\ Open
    BY <1>a, <2>1 DEF Shape
  <2>3. ChildTypeOK'
    BY <1>i, <1>q, <1>t, <2>1, <2>2, Facts DEF ChildPc
  <2>4. Prefix'
    <3>1. /\ at' - 1 = at
          /\ \A i \in Inner : i < at' => i = at \/ i < at
      BY <2>1, <2>2, Facts DEF Inner
    <3>2. terminating \/ (inner[at].status = "Succeeded" /\ inner[at].result = Len(calls))
      BY <1>a, <2>1 DEF Shape
    <3>3. ~terminating =>
            /\ \A i \in Inner : i < at' => inner[i].status = "Succeeded"
            /\ value' = inner[at' - 1].result
      BY <1>a, <2>1, <3>1, <3>2 DEF Prefix
    <3> QED
      BY <1>u, <2>1, <3>3 DEF Prefix
  <2>5. Shape' /\ ParkedIsTerminating'
    BY <1>r, <1>u, <2>1, <2>2 DEF Shape, ParkedIsTerminating, Done
  <2> QED
    BY <1>c, <1>q, <1>r, <2>1, <2>3, <2>4, <2>5 DEF IInv
<1>10. CASE InnerErrs
  <2>1. /\ pc = "erring" /\ pc' = "error" /\ queue = <<>> /\ queue' = <<>>
        /\ UNCHANGED <<terminating, crashes, at, value, sent, calls, outcome, committed>>
    BY <1>10 DEF InnerErrs, Released, childVars
  <2>2. ChildTypeOK'
    BY <1>q, <1>t, <2>1, Facts DEF ChildPc
  <2>3. Shape' /\ ParkedIsTerminating'
    BY <1>a, <1>r, <1>u, <2>1 DEF Shape, ParkedIsTerminating
  <2> QED
    BY <1>c, <1>p, <1>q, <1>r, <2>1, <2>2, <2>3 DEF IInv
<1>11. CASE ReplayedChildrenReturn
  <2>1. /\ pc = "function" /\ pc' = "returned" /\ at = Length + 1 /\ outcome' = Ok(value)
        /\ snapshot.status = "Succeeded"
        /\ UNCHANGED <<queue, terminating, crashes, at, value, sent, calls, committed>>
    BY <1>11 DEF ReplayedChildrenReturn, ReplaysChildren
  <2>2. queue = <<>> /\ queue' = <<>>
    BY <2>1, NotQueued
  <2>3. at > 1 /\ at - 1 = Length
    BY <2>1, Facts
  <2>4. terminating \/ Settled'
    <3>1. terminating \/ value = inner[Length].result
      BY <1>a, <2>3 DEF Prefix
    <3> QED
      BY <1>a, <1>r, <2>1, <3>1, OutcomeOfSuccess DEF Snapshot, Settled
  <2>5. ChildTypeOK'
    BY <1>q, <1>t, <2>1, <2>2, Facts DEF ChildPc, Outcome, Ok
  <2>6. Shape' /\ ParkedIsTerminating'
    BY <2>1, <2>4 DEF Shape, ParkedIsTerminating
  <2> QED
    BY <1>c, <1>p, <1>q, <1>r, <2>1, <2>2, <2>5, <2>6 DEF IInv
<1>12. CASE Succeed
  <2>1. PICK result \in {0, value} :
          Send([action |-> "Succeed", result |-> result], "succeeding")
    BY <1>12 DEF Succeed
  <2> DEFINE u == [action |-> "Succeed", result |-> result]
  <2>2. /\ pc = "function" /\ at = Length + 1 /\ outcome' = Ok(value) /\ sent' = 0
        /\ UNCHANGED <<terminating, crashes, at, value, calls, committed>>
    BY <1>12 DEF Succeed
  <2>3. /\ queue = <<>> /\ u \in Update /\ u.action = "Succeed" /\ u.result = result
    BY <2>1, <2>2, NotQueued, UpdateType, Facts
  <2>4. Send(u, "succeeding")
    BY <2>1
  <2> HIDE DEF u
  <2>5. /\ queue' \in Seq(Update) /\ Len(queue') <= 1
        /\ \/ terminating /\ pc' = "parked" /\ queue' = <<>>
           \/ ~terminating /\ pc' = "succeeding" /\ queue' # <<>> /\ Len(queue') = 1
              /\ queue'[1] = u
    BY <2>3, <2>4, Sent
  <2>6. ~terminating => AllSucceeded /\ value = inner[Length].result
    <3>1. at > 1 /\ at - 1 = Length /\ \A i \in Inner : i < at
      BY <2>2, Facts DEF Inner
    <3> QED
      BY <1>a, <3>1 DEF Prefix, AllSucceeded
  <2>7. ChildTypeOK'
    BY <1>b, <1>t, <2>2, <2>5, Facts DEF ChildPc, Outcome, Ok
  <2>8. OneUpdate' /\ ParkedIsTerminating'
    BY <1>r, <1>u, <2>1, <2>2, <2>3, <2>5, <2>6 DEF OneUpdate, ParkedIsTerminating
  <2>9. Shape'
    BY <1>a, <1>r, <1>u, <2>2, <2>5 DEF Shape
  <2> QED
    BY <1>c, <1>p, <1>r, <2>2, <2>7, <2>8, <2>9 DEF IInv
<1>13. CASE Fail
  <2> DEFINE u == [action |-> "Fail", result |-> 0]
  <2>1. /\ pc = "error" /\ Send(u, "failing") /\ sent' = 0 /\ outcome' = ContextFailed
        /\ UNCHANGED <<terminating, crashes, at, value, calls, committed>>
    BY <1>13 DEF Fail
  <2>2. queue = <<>> /\ u \in Update /\ u.action = "Fail"
    BY <2>1, NotQueued, UpdateType
  <2> HIDE DEF u
  <2>3. /\ queue' \in Seq(Update) /\ Len(queue') <= 1
        /\ \/ terminating /\ pc' = "parked" /\ queue' = <<>>
           \/ pc' = "failing" /\ queue' # <<>> /\ Len(queue') = 1 /\ queue'[1] = u
    BY <2>1, <2>2, Sent
  <2>4. ChildTypeOK'
    BY <1>b, <1>t, <2>1, <2>3, Facts DEF ChildPc, Outcome, ContextFailed
  <2>5. OneUpdate' /\ Shape' /\ ParkedIsTerminating'
    BY <1>a, <1>r, <1>u, <2>1, <2>2, <2>3 DEF OneUpdate, Shape, ParkedIsTerminating
  <2> QED
    BY <1>c, <1>p, <1>r, <2>1, <2>4, <2>5 DEF IInv
<1>14. CASE ContextReturns
  <2>1. /\ pc \in {"succeeding", "failing"} /\ pc' = "returned" /\ queue = <<>> /\ queue' = <<>>
        /\ UNCHANGED <<terminating, crashes, at, value, sent, calls, outcome, committed>>
    BY <1>14 DEF ContextReturns, Released, childVars
  <2>2. terminating \/ Settled'
    BY <1>a, <1>r, <2>1 DEF Shape, Settled
  <2>3. ChildTypeOK'
    BY <1>q, <1>t, <2>1, Facts DEF ChildPc
  <2>4. Shape' /\ ParkedIsTerminating'
    BY <2>1, <2>2 DEF Shape, ParkedIsTerminating
  <2> QED
    BY <1>c, <1>p, <1>q, <1>r, <2>1, <2>3, <2>4 DEF IInv
<1>15. CASE NextOperationRecorded
  <2>1. /\ pc = "returned" /\ ~terminating /\ queue = <<>> /\ queue' = <<>>
        /\ committed' = committed \cup {outcome}
        /\ UNCHANGED <<pc, terminating, crashes, at, value, sent, calls, outcome>>
    BY <1>15 DEF NextOperationRecorded, invocationVars
  <2>2. Settled
    BY <1>a, <2>1 DEF Shape
  <2>3. CommittedIsRecorded'
    BY <1>a, <1>r, <2>1, <2>2 DEF CommittedIsRecorded, Settled
  <2>4. ChildTypeOK'
    BY <1>q, <1>t, <2>1, Facts
  <2>5. Shape' /\ ParkedIsTerminating'
    BY <1>r, <2>1, <2>2 DEF Shape, ParkedIsTerminating, Settled
  <2> QED
    BY <1>p, <1>q, <1>r, <2>1, <2>3, <2>4, <2>5 DEF IInv
<1> QED
  BY <1>1, <1>2, <1>3, <1>4, <1>5, <1>6, <1>7, <1>8, <1>9, <1>10, <1>11, <1>12, <1>13, <1>14,
     <1>15 DEF ContextAction

LEMMA Invariance == Spec => []IInv
<1>1. IInv /\ [Next]_vars => IInv'
  <2> SUFFICES ASSUME IInv, [Next]_vars PROVE IInv'
    OBVIOUS
  <2>1. CASE Next
    BY <2>1, IInvContext, IInvEnvironment DEF Next
  <2>2. CASE UNCHANGED vars
    <3>1. /\ UNCHANGED <<record, snapshot, pc, queue, terminating, crashes, refusals>>
          /\ UNCHANGED <<large, inner, found, at, value, sent, calls, outcome, committed>>
      BY <2>2 DEF vars, invocationVars, childVars
    <3>2. ChildTypeOK'
      BY <3>1 DEF IInv, ChildTypeOK, InvocationTypeOK
    <3>3. /\ Stable' /\ Prefix' /\ OneUpdate' /\ RecordRests' /\ Snapshot'
          /\ CommittedIsRecorded' /\ ParkedIsTerminating'
      BY <3>1 DEF IInv, Stable, Prefix, OneUpdate, RecordRests, AllSucceeded, Snapshot,
         CommittedIsRecorded, ParkedIsTerminating, Open, RecordedOutcome
    <3>4. Shape'
      BY <3>1 DEF IInv, Shape, Settled, Open, RecordedOutcome
    <3> QED
      BY <3>2, <3>3, <3>4 DEF IInv
  <2> QED
    BY <2>1, <2>2
<1> QED
  BY <1>1, IInvInit, PTL DEF Spec

\* Every value keeps its type, and at most one update of the context and of what it
\* runs is ever on its way.
THEOREM ChildTypes == Spec => []ChildTypeOK
<1>1. IInv => ChildTypeOK
  BY DEF IInv
<1> QED
  BY <1>1, Invariance, PTL

\* A context is recorded as succeeded only when everything that ran inside is, so a
\* result too large to record can be made again (child/execute.rs:93).
THEOREM SuccessIsRebuildable == Spec => []SuccessRestsOnRecords
<1>1. IInv => SuccessRestsOnRecords
  BY DEF IInv, RecordRests, AllSucceeded, SuccessRestsOnRecords
<1> QED
  BY <1>1, Invariance, PTL

\* No update from inside a finished context parks its caller in an invocation that
\* would then never end (manager.rs:153).
THEOREM ParkedOnlyToEnd == Spec => []ParkedIsTerminating
<1>1. IInv => ParkedIsTerminating
  BY DEF IInv
<1> QED
  BY <1>1, Invariance, PTL

-----------------------------------------------------------------------------
(* The refinement of StepPromise.                                          *)

LEMMA OutcomeIsSet ==
  ASSUME IInv, ~Open
  PROVE  RecordedOutcome # Unset
<1>1. record.status \in Done
  BY DEF Open
<1> QED
  BY <1>1 DEF RecordedOutcome, Done, Unset, Ok, ContextFailed

LEMMA PromiseStep ==
  ASSUME IInv, IInv', Next
  PROVE  [Promise!Next]_Promise!promiseVars
<1>a. /\ OneUpdate /\ RecordRests /\ Shape /\ Snapshot /\ CommittedIsRecorded /\ RecordRests'
      /\ calls \in Seq(Inner) /\ calls' \in Seq(Inner)
  BY DEF IInv, ChildTypeOK
<1>1. CASE InnerRuns
  <2>1. /\ pc = "function" /\ at <= Length /\ UNCHANGED <<record, inner, committed>>
        /\ \/ calls' = calls
           \/ ~HasFinishedAncestor /\ calls' = Append(calls, at)
    BY <1>1 DEF InnerRuns
  <2>2. CASE calls' = calls
    BY <2>1, <2>2 DEF Promise!promiseVars, RecordedOutcome
  <2>3. CASE ~HasFinishedAncestor /\ calls' = Append(calls, at)
    <3>1. Open
      BY <1>a, <2>1, <2>3 DEF Shape, HasFinishedAncestor
    <3>2. Len(calls') = Len(calls) + 1
      BY <1>a, <2>3
    <3>3. SubSeq(calls', 1, Len(calls)) = calls
      BY <1>a, <2>3, <3>2
    <3> QED
      BY <2>1, <3>1, <3>2, <3>3 DEF Promise!Next, Promise!Run, Open, RecordedOutcome
  <2> QED
    BY <2>1, <2>2, <2>3
<1>2. CASE NextOperationRecorded
  <2>1. /\ UNCHANGED <<record, inner, calls>> /\ committed' = committed \cup {outcome}
        /\ Settled
    BY <1>a, <1>2 DEF NextOperationRecorded, invocationVars, Shape
  <2>2. record.status \in Done /\ RecordedOutcome # Unset
    BY <2>1, OutcomeIsSet DEF Settled, Open
  <2>3. committed' = {RecordedOutcome}
    BY <1>a, <2>1 DEF CommittedIsRecorded, Settled
  <2> QED
    BY <2>1, <2>2, <2>3 DEF Promise!Next, Promise!Commit, RecordedOutcome
<1>3. CASE ContextAction /\ ~InnerRuns /\ ~NextOperationRecorded
  <2>1. UNCHANGED <<record, inner, calls, committed>>
    BY <1>3 DEF ContextAction, ReplayCompleted, SerdesFails, CallAgain, Start, StartReturns,
       InnerReplays, InnerEnds, InnerReturns, InnerErrs, ReplayedChildrenReturn, Succeed, Fail,
       ContextReturns, childVars
  <2> QED
    BY <2>1 DEF Promise!promiseVars, RecordedOutcome
<1>4. CASE EnvironmentAction
  <2>1. UNCHANGED <<calls, committed>>
    BY <1>4 DEF EnvironmentAction, ContextRecorded, ContextBatchFails, InnerRecorded,
       InnerBatchFails, InvokeWithChildren, childVars
  <2>2. CASE UNCHANGED <<record, inner>>
    BY <2>1, <2>2 DEF Promise!promiseVars, RecordedOutcome
  <2>3. CASE ContextRecorded \/ ContextBatchFails
    <3>1. /\ queue # <<>> /\ sent = 0 /\ inner' = inner
          /\ record' \in {record, AfterUpdate(Head(queue))}
      BY <2>3 DEF ContextRecorded, ContextBatchFails, RecordUpdate, BatchFails, childVars
    <3>2. CASE Open
      <4>1. CASE record'.status \in Done
        <5>1. RecordedOutcome' # Unset
          BY <4>1, OutcomeIsSet DEF RecordedOutcome, Done, Unset, Ok, ContextFailed
        <5> QED
          BY <2>1, <3>2, <4>1, <5>1 DEF Promise!Next, Promise!Settle, Open
      <4>2. CASE record'.status \notin Done
        BY <2>1, <3>2, <4>2 DEF Promise!promiseVars, Open
      <4> QED
        BY <4>1, <4>2
    <3>3. CASE ~Open
      <4>1. /\ pc = "succeeding" /\ queue[1].action = "Succeed" /\ Len(queue) = 1
            /\ snapshot.status = "Succeeded"
        <5>1. at # 0
          BY Facts
        <5> QED
          BY <1>a, <3>1, <3>3, <5>1 DEF OneUpdate, Shape, Done
      <4>2. record.status = "Succeeded"
        BY <1>a, <4>1 DEF Snapshot
      <4>3. Head(queue) = queue[1]
        BY <3>1, <4>1, Facts, Dequeued
      <4>4. record'.status = "Succeeded"
        BY <3>1, <4>1, <4>2, <4>3, Facts DEF AfterUpdate, Record
      <4>5. /\ RecordedOutcome = Ok(inner[Length].result)
            /\ RecordedOutcome' = Ok(inner'[Length].result)
        BY <1>a, <4>2, <4>4 DEF RecordRests, RecordedOutcome
      <4> QED
        BY <2>1, <3>1, <4>2, <4>4, <4>5 DEF Promise!promiseVars, Done
    <3> QED
      BY <3>2, <3>3
  <2>4. CASE InnerRecorded \/ InnerBatchFails
    <3>1. sent # 0 /\ queue # <<>> /\ record' = record
      BY <2>4 DEF InnerRecorded, InnerBatchFails
    <3>2. Open
      BY <1>a, <3>1 DEF OneUpdate, Shape
    <3> QED
      BY <2>1, <3>1, <3>2 DEF Promise!promiseVars, Open
  <2> QED
    BY <1>4, <2>2, <2>3, <2>4 DEF EnvironmentAction, InvokeWithChildren, Invoke, Crash,
       OtherOperationSuspends, InvocationEnds, childVars
<1> QED
  BY <1>1, <1>2, <1>3, <1>4 DEF Next

\* Nothing inside a context runs once the context has an outcome, and the handler goes
\* on only upon that outcome, also when a later invocation makes it again
\* (child/replay.rs, child/execute.rs).
THEOREM ChildImplementsPromise == Spec => ImplementsPromise
<1>1. Init => Promise!Init
  BY DEF Init, InvocationInit, Unrecorded, Done, Promise!Init
<1>2. IInv /\ IInv' /\ [Next]_vars => [Promise!Next]_Promise!promiseVars
  <2> SUFFICES ASSUME IInv, IInv', [Next]_vars
               PROVE  [Promise!Next]_Promise!promiseVars
    OBVIOUS
  <2>1. CASE Next
    BY <2>1, PromiseStep
  <2>2. CASE UNCHANGED vars
    BY <2>2 DEF vars, invocationVars, childVars, RecordedOutcome, Promise!promiseVars
  <2> QED
    BY <2>1, <2>2
<1> QED
  BY <1>1, <1>2, Invariance, PTL DEF Spec, Promise!Spec, ImplementsPromise
=============================================================================
