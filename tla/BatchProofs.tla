----------------------------- MODULE BatchProofs -----------------------------
(***************************************************************************)
(* Proofs about BatchPolicy and BatchExecution, for every policy, any      *)
(* number of items and any number of faults.                               *)
(***************************************************************************)
EXTENDS BatchExecution, FiniteSetTheorems, TLAPS

-----------------------------------------------------------------------------
(* The policy.                                                             *)

\* Once a batch has failed too often, more failures do not revive it: what
\* should_continue_batch says of a result is final (batch.rs:48).
THEOREM StopIsFinal ==
  ASSUME NEW c \in BatchConfig, NEW total \in Nat, NEW f \in Nat, NEW g \in Nat, f <= g,
         ~ShouldContinue(f, total, c)
  PROVE  ~ShouldContinue(g, total, c)
<1>1. CASE ~HasCriteria(c)
  BY <1>1 DEF ShouldContinue
<1>2. CASE HasCriteria(c)
  <2>1. /\ \A tol \in c.toleratedFailureCount : tol \in Nat
        /\ \A pct \in c.toleratedFailurePercentage : pct \in Nat
    BY ItemsAssumption DEF BatchConfig, Option
  <2>2. CASE \E tol \in c.toleratedFailureCount : ~(f <= tol)
    BY <1>2, <2>1, <2>2 DEF ShouldContinue
  <2>3. CASE \E pct \in c.toleratedFailurePercentage : ~(total > 0 => 100 * f <= pct * total)
    <3>1. PICK pct \in c.toleratedFailurePercentage : total > 0 /\ ~(100 * f <= pct * total)
      BY <2>3
    <3> DEFINE bound == pct * total
    <3>2. bound \in Nat /\ ~(100 * f <= bound)
      BY <2>1, <3>1
    <3> HIDE DEF bound
    <3>3. ~(100 * g <= bound)
      BY <3>2
    <3> QED
      BY <1>2, <3>1, <3>3 DEF ShouldContinue, bound
  <2> QED
    BY <1>2, <2>2, <2>3 DEF ShouldContinue
<1> QED
  BY <1>1, <1>2

\* The reason a batch that is over gives is the one that ended it: it claims to be
\* complete only if every item is (batch.rs:72, map/execute.rs:194).
THEOREM ReasonIsTrue ==
  ASSUME NEW c \in BatchConfig, NEW total \in Nat, NEW failures \in Nat,
         NEW successes \in Nat, NEW completed \in Nat,
         \/ completed = total
         \/ MinReached(successes, c)
         \/ ~ShouldContinue(failures, total, c)
  PROVE  LET reason == CompletionReason(failures, successes, completed, total, c)
         IN  /\ reason = "AllCompleted" => completed = total
             /\ reason = "MinSuccessfulReached" =>
                  MinReached(successes, c) /\ ShouldContinue(failures, total, c)
             /\ reason = "FailureToleranceExceeded" <=> ~ShouldContinue(failures, total, c)
BY DEF CompletionReason

-----------------------------------------------------------------------------
(* Types.                                                                  *)

Call ==
  /\ items \in 0..MaxItems
  /\ config \in BatchConfig

Types == BatchTypeOK /\ Call

LEMMA Facts ==
  ASSUME Types
  PROVE  /\ record \in BatchRecord /\ childRecord \in [Item -> Result]
         /\ snapshot \in [batch : BatchRecord, children : [Item -> Result]]
         /\ childPc \in [Item -> {"none", "spawned", "starting", "body", "completing",
                                  "finished", "aborted", "parked"}]
         /\ childResult \in [Item -> Result] /\ finished \in Seq(Item)
         /\ joined \subseteq Item /\ started \in 0..items
         /\ queue \in Seq(Update) /\ terminating \in BOOLEAN /\ runs \in [Item -> Nat]
         /\ outcome \in Outcome /\ committed \subseteq Outcome
         /\ Cardinality(1..started \ joined) <= config.maxConcurrency
         /\ MaxItems \in Nat /\ items \in Nat /\ items <= MaxItems
         /\ started \in Nat /\ started <= items /\ started \in 0..MaxItems
         /\ config.maxConcurrency \in Nat /\ config.maxConcurrency >= 1
  BY ItemsAssumption DEF Types, BatchTypeOK, Call, BatchConfig

LEMMA NoResultType == NoResult \in Result
  BY DEF NoResult, Result, Status

LEMMA NoOutcomeType == NoOutcome \in Outcome
<1>1. [i \in Item |-> NoResult] \in [Item -> Result]
  BY NoResultType
<1> QED
  BY <1>1, ItemsAssumption DEF NoOutcome, Outcome, Reasons

LEMMA NothingRecordedType ==
  /\ [status |-> "None", result |-> NoOutcome] \in BatchRecord
  /\ [i \in Item |-> NoResult] \in [Item -> Result]
  BY NoOutcomeType, NoResultType DEF BatchRecord

LEMMA IntervalCardinality ==
  ASSUME NEW a \in Nat, NEW b \in Nat, NEW J
  PROVE  /\ IsFiniteSet(1..a \ J) /\ Cardinality(1..a \ J) \in Nat
         /\ IsFiniteSet(1..a) /\ Cardinality(1..a) = a
         /\ Cardinality(1..a + b \ J) <= Cardinality(1..a \ J) + b
         /\ \A K : J \subseteq K => Cardinality(1..a \ K) <= Cardinality(1..a \ J)
<1>1. IsFiniteSet(1..a) /\ Cardinality(1..a) = a
  BY FS_Interval
<1>2. IsFiniteSet(a + 1..a + b) /\ Cardinality(a + 1..a + b) = b
  BY FS_Interval
<1>3. IsFiniteSet(1..a \ J) /\ Cardinality(1..a \ J) \in Nat
  BY <1>1, FS_Difference, FS_CardinalityType
<1> DEFINE S == 1..a \ J
           T == a + 1..a + b
<1>4. /\ IsFiniteSet(S \cup T)
      /\ Cardinality(S \cup T) = Cardinality(S) + Cardinality(T) - Cardinality(S \cap T)
  BY <1>2, <1>3, FS_Union
<1>5. IsFiniteSet(S \cap T) /\ Cardinality(S \cap T) \in Nat
  BY <1>3, FS_Intersection, FS_CardinalityType
<1>6. 1..a + b \ J \subseteq S \cup T
  OBVIOUS
<1>7. Cardinality(1..a + b \ J) <= Cardinality(S \cup T)
      /\ Cardinality(1..a + b \ J) \in Nat
  <2>1. IsFiniteSet(1..a + b \ J)
    BY <1>4, <1>6, FS_Subset
  <2> QED
    BY <1>4, <1>6, <2>1, FS_Subset, FS_CardinalityType
<1>8. Cardinality(S \cup T) <= Cardinality(S) + b
  BY <1>2, <1>3, <1>4, <1>5
<1>9. \A K : J \subseteq K => Cardinality(1..a \ K) <= Cardinality(1..a \ J)
  <2> SUFFICES ASSUME NEW K, J \subseteq K
               PROVE  Cardinality(1..a \ K) <= Cardinality(1..a \ J)
    OBVIOUS
  <2>1. 1..a \ K \in SUBSET (1..a \ J)
    OBVIOUS
  <2> QED
    BY <1>3, <2>1, FS_Subset
<1>10. Cardinality(S) + b \in Nat /\ Cardinality(S \cup T) \in Nat
  BY <1>3, <1>4, FS_CardinalityType
<1>11. Cardinality(1..a + b \ J) <= Cardinality(S) + b
  BY <1>7, <1>8, <1>10
<1> QED
  BY <1>1, <1>3, <1>9, <1>11

LEMMA ReasonType ==
  ASSUME NEW f, NEW s, NEW c, NEW t, NEW conf
  PROVE  CompletionReason(f, s, c, t, conf) \in Reasons
  BY DEF CompletionReason, Reasons

LEMMA ResultOfType ==
  ASSUME Types, NEW branches \in SUBSET Item
  PROVE  ResultOf(branches) \in Outcome
<1> DEFINE all == [i \in Item |-> IF i \in branches THEN childResult[i]
                                 ELSE IF i <= started THEN [status |-> "Started", run |-> 0]
                                 ELSE NoResult]
<1>1. all \in [Item -> Result]
  BY Facts, NoResultType DEF Result, Status
<1>2. Having("Succeeded", branches, childResult) \in SUBSET Item
  BY DEF Having
<1> HIDE DEF all
<1> QED
  BY <1>1, <1>2, Facts, ReasonType DEF ResultOf, Outcome, all

LEMMA RebuiltType ==
  ASSUME Types, NEW total \in 0..MaxItems, NEW children \in [Item -> Result]
  PROVE  Rebuilt(children, total) \in Outcome
<1> DEFINE all == [i \in Item |-> IF i <= total THEN children[i] ELSE NoResult]
<1>1. all \in [Item -> Result]
  BY Facts, NoResultType
<1>2. Having("Succeeded", 1..total, children) \in SUBSET Item
  BY Facts DEF Having, Item
<1>3. [NoOutcome EXCEPT !.reason = "ReplayValidationFailed"] \in Outcome
  BY NoOutcomeType DEF Outcome
<1> HIDE DEF all
<1> QED
  BY <1>1, <1>2, <1>3, ReasonType DEF Rebuilt, Outcome, all

LEMMA PayloadType ==
  ASSUME Types
  PROVE  Payload \in Outcome
<1>1. outcome \in Outcome /\ outcome.ids \in 0..MaxItems
  BY Facts DEF Outcome
<1>2. [NoOutcome EXCEPT !.ids = outcome.ids] \in Outcome
  BY <1>1, NoOutcomeType DEF Outcome
<1> QED
  BY <1>1, <1>2 DEF Payload, Summary

LEMMA UpdateType ==
  /\ \A a \in {"Start", "Succeed"} : [op |-> Batch, action |-> a] \in Update
  /\ \A i \in Item, a \in {"Start", "Succeed", "Fail"} : [op |-> i, action |-> a] \in Update
  /\ \A u \in Update :
       \/ u.op = Batch /\ u.action \in {"Start", "Succeed"}
       \/ u.op # Batch /\ u.op \in Item
  /\ \A i \in Item : i # Batch
<1>1. \A i \in Item : i # Batch
  BY ItemsAssumption DEF Batch, Item
<1>2. \A a \in {"Start", "Succeed"} : [op |-> Batch, action |-> a] \in Update
  BY DEF Update
<1>3. \A i \in Item, a \in {"Start", "Succeed", "Fail"} : [op |-> i, action |-> a] \in Update
  BY DEF Update
<1>4. \A u \in Update :
        \/ u.op = Batch /\ u.action \in {"Start", "Succeed"}
        \/ u.op # Batch /\ u.op \in Item
  BY <1>1 DEF Update
<1> QED
  BY <1>1, <1>2, <1>3, <1>4

LEMMA ApplyType ==
  ASSUME Types, NEW u \in Update, Apply(u)
  PROVE  record' \in BatchRecord /\ childRecord' \in [Item -> Result]
<1>1. CASE u.op = Batch /\ u.action = "Start"
  <2>1. record' = [record EXCEPT !.status = "Started"] /\ childRecord' = childRecord
    BY <1>1 DEF Apply
  <2> QED
    BY <2>1, Facts DEF BatchRecord
<1>2. CASE u.op = Batch /\ u.action = "Succeed"
  <2>1. record' = [status |-> "Succeeded", result |-> Payload] /\ childRecord' = childRecord
    BY <1>2 DEF Apply
  <2> QED
    BY <2>1, Facts, PayloadType DEF BatchRecord
<1>3. CASE u.op \in Item /\ u.op # Batch /\ u.action = "Start"
  <2>1. childRecord' = [childRecord EXCEPT ![u.op].status = "Started"] /\ record' = record
    BY <1>3 DEF Apply
  <2> DEFINE old == childRecord[u.op]
             new == [old EXCEPT !.status = "Started"]
  <2>2. old \in [status : Status, run : Nat]
    BY <1>3, Facts DEF Result
  <2> HIDE DEF old
  <2>3. new \in Result
    BY <2>2 DEF Result, Status
  <2>4. childRecord' = [childRecord EXCEPT ![u.op] = new]
    BY <2>1 DEF old
  <2> HIDE DEF new
  <2> QED
    BY <1>3, <2>1, <2>3, <2>4, Facts
<1>4. CASE u.op \in Item /\ u.op # Batch /\ u.action # "Start"
  <2>1. childRecord' = [childRecord EXCEPT ![u.op] = childResult[u.op]] /\ record' = record
    BY <1>4 DEF Apply
  <2> QED
    BY <1>4, <2>1, Facts
<1> QED
  BY <1>1, <1>2, <1>3, <1>4, UpdateType

LEMMA AppendType ==
  ASSUME NEW q \in Seq(Update), NEW u \in Update
  PROVE  Append(q, u) \in Seq(Update)
  OBVIOUS

LEMMA BatchSendsType ==
  ASSUME Types, NEW action \in {"Start", "Succeed"}, NEW next, BatchSends(action, next)
  PROVE  pc' \in {"parked", next} /\ queue' \in Seq(Update)
<1> DEFINE u == [op |-> Batch, action |-> action]
<1>1. u \in Update
  BY UpdateType
<1>2. \/ pc' = "parked" /\ queue' = queue
      \/ pc' = next /\ queue' = Append(queue, u)
  BY DEF BatchSends
<1>3. queue \in Seq(Update)
  BY Facts
<1> HIDE DEF u
<1>4. Append(queue, u) \in Seq(Update)
  BY <1>1, <1>3, AppendType
<1> QED
  BY <1>2, <1>3, <1>4

LEMMA ChildSendsType ==
  ASSUME Types, NEW i \in Item, NEW action \in {"Start", "Succeed", "Fail"},
         NEW next \in {"starting", "completing"}, ChildSends(i, action, next)
  PROVE  /\ childPc' \in [Item -> {"none", "spawned", "starting", "body", "completing",
                                  "finished", "aborted", "parked"}]
         /\ queue' \in Seq(Update)
<1>1. queue' \in Seq(Update)
  <2> DEFINE u == [op |-> i, action |-> action]
  <2>1. u \in Update
    BY UpdateType
  <2>2. queue' = queue \/ queue' = Append(queue, u)
    BY DEF ChildSends
  <2>3. queue \in Seq(Update)
    BY Facts
  <2> HIDE DEF u
  <2>4. Append(queue, u) \in Seq(Update)
    BY <2>1, <2>3, AppendType
  <2> QED
    BY <2>2, <2>3, <2>4
<1>2. \E p \in {"parked", next} : childPc' = [childPc EXCEPT ![i] = p]
  BY DEF ChildSends
<1> QED
  BY <1>1, <1>2, Facts

LEMMA TypesInit == Init => Types
<1> SUFFICES ASSUME Init PROVE Types
  OBVIOUS
<1>1. Call
  BY ItemsAssumption, BatchAssumption DEF Init, Call
<1>2. /\ record \in BatchRecord /\ childRecord \in [Item -> Result]
      /\ snapshot \in [batch : BatchRecord, children : [Item -> Result]]
      /\ childResult \in [Item -> Result] /\ outcome \in Outcome /\ committed \subseteq Outcome
      /\ runs \in [Item -> Nat] /\ terminating \in BOOLEAN
  BY NothingRecordedType, NoOutcomeType DEF Init
<1>3. finished \in Seq(Item) /\ queue \in Seq(Update)
  BY DEF Init
<1>4. Cardinality(1..started \ joined) <= config.maxConcurrency
  <2>1. 1..started \ joined = {}
    BY DEF Init
  <2>2. config.maxConcurrency \in 1..MaxItems + 1
    BY <1>1 DEF Call, BatchConfig
  <2> QED
    BY <2>1, <2>2, FS_EmptySet, ItemsAssumption
<1>5. started \in 0..items
  BY <1>1, ItemsAssumption DEF Init, Call
<1> QED
  BY <1>1, <1>2, <1>3, <1>4, <1>5 DEF Types, BatchTypeOK, Init

\* The invocation is over, and nothing is left of it.
LEMMA DownType ==
  ASSUME Types, Down
  PROVE  /\ pc' = "down" /\ queue' = <<>> /\ queue' \in Seq(Update)
         /\ snapshot' \in [batch : BatchRecord, children : [Item -> Result]]
         /\ childPc' = [i \in Item |-> "none"] /\ childResult' \in [Item -> Result]
         /\ finished' = <<>> /\ finished' \in Seq(Item) /\ joined' = {} /\ started' = 0
         /\ outcome' \in Outcome
         /\ Cardinality(1..started' \ joined') <= config.maxConcurrency
<1>1. /\ pc' = "down" /\ queue' = <<>>
      /\ snapshot' = [batch |-> [status |-> "None", result |-> NoOutcome],
                      children |-> [i \in Item |-> NoResult]]
      /\ childPc' = [i \in Item |-> "none"]
      /\ childResult' = [i \in Item |-> NoResult]
      /\ finished' = <<>> /\ joined' = {} /\ started' = 0 /\ outcome' = NoOutcome
  BY DEF Down
<1>2. 1..started' \ joined' = {}
  BY <1>1
<1>3. Cardinality(1..started' \ joined') = 0
  BY <1>2, FS_EmptySet
<1>4. <<>> \in Seq(Update) /\ <<>> \in Seq(Item)
  OBVIOUS
<1> QED
  BY <1>1, <1>3, <1>4, Facts, NothingRecordedType, NoOutcomeType

LEMMA TypesEnvironment ==
  ASSUME Types, EnvironmentAction
  PROVE  Types'
<1>c. UNCHANGED callVars
  BY DEF EnvironmentAction, RecordUpdate, BatchOfUpdatesFails, Invoke, Crash, InvocationEnds
<1>k. Call'
  BY <1>c DEF Types, Call, callVars
<1>q. \A q \in Seq(Update) : q # <<>> => Head(q) \in Update /\ Tail(q) \in Seq(Update)
  OBVIOUS
<1>e. <<>> \in Seq(Update)
  OBVIOUS
<1>1. CASE RecordUpdate
  <2>1. record' \in BatchRecord /\ childRecord' \in [Item -> Result] /\ queue' \in Seq(Update)
    BY <1>1, <1>q, Facts, ApplyType DEF RecordUpdate
  <2> QED
    BY <1>1, <1>k, <1>c, <2>1
       DEF RecordUpdate, Types, BatchTypeOK, callVars, joinVars, childVars, historyVars
<1>2. CASE BatchOfUpdatesFails
  <2>1. record' \in BatchRecord /\ childRecord' \in [Item -> Result]
    BY <1>2, <1>q, Facts, ApplyType DEF BatchOfUpdatesFails, serviceVars
  <2> QED
    BY <1>2, <1>k, <1>c, <1>e, <2>1
       DEF BatchOfUpdatesFails, Types, BatchTypeOK, callVars, joinVars, childVars, historyVars
<1>3. CASE Invoke
  BY <1>3, <1>k, <1>c, Facts
     DEF Invoke, Types, BatchTypeOK, callVars, serviceVars, joinVars, childVars, historyVars
<1>4. CASE Crash \/ InvocationEnds
  <2>1. Down /\ UNCHANGED <<serviceVars, terminating, historyVars>>
    BY <1>4 DEF Crash, InvocationEnds
  <2>2. started' \in 0..items' /\ joined' \subseteq Item
    BY <1>c, <2>1, Facts, DownType DEF callVars
  <2>3. childPc' \in [Item -> {"none", "spawned", "starting", "body", "completing",
                              "finished", "aborted", "parked"}]
    BY <2>1, DownType
  <2> QED
    BY <1>k, <1>c, <2>1, <2>2, <2>3, Facts, DownType
       DEF Types, BatchTypeOK, callVars, serviceVars, historyVars
<1> QED
  BY <1>1, <1>2, <1>3, <1>4 DEF EnvironmentAction

LEMMA TypesChild ==
  ASSUME Types, NEW i \in Item, ChildAction(i)
  PROVE  Types'
<1>u. UNCHANGED <<callVars, serviceVars, snapshot, pc, joined, started, aborted, committed, outcome>>
  BY DEF ChildAction, ChildReplays, ChildStarts, ChildRuns, ChildCompletes, ChildSuspends,
     ChildReturns, AbortTakesEffect, joinVars, historyVars
<1>k. Call'
  BY <1>u DEF Types, Call, callVars
<1>t. ASSUME /\ childPc' \in [Item -> {"none", "spawned", "starting", "body", "completing",
                                      "finished", "aborted", "parked"}]
             /\ childResult' \in [Item -> Result] /\ finished' \in Seq(Item)
             /\ queue' \in Seq(Update) /\ terminating' \in BOOLEAN /\ runs' \in [Item -> Nat]
      PROVE  Types'
  BY <1>u, <1>k, <1>t DEF Types, BatchTypeOK, callVars, serviceVars
<1>1. CASE ChildReplays(i)
  BY <1>1, <1>t, Facts DEF ChildReplays, historyVars
<1>2. CASE ChildStarts(i)
  BY <1>2, <1>t, Facts, ChildSendsType DEF ChildStarts, joinVars, historyVars
<1>3. CASE ChildRuns(i)
  BY <1>3, <1>t, Facts DEF ChildRuns, joinVars
<1>4. CASE ChildCompletes(i)
  <2>1. \E a \in {"Succeed", "Fail"}, r \in {"Succeeded", "Failed"} :
          /\ ChildSends(i, a, "completing")
          /\ childResult' = [childResult EXCEPT ![i] = [status |-> r, run |-> runs[i]]]
    <3>1. \E end \in {<<"Succeed", "Succeeded">>, <<"Fail", "Failed">>} :
            /\ ChildSends(i, end[1], "completing")
            /\ childResult' = [childResult EXCEPT ![i] = [status |-> end[2], run |-> runs[i]]]
      BY <1>4 DEF ChildCompletes
    <3>2. /\ <<"Succeed", "Succeeded">>[1] = "Succeed" /\ <<"Succeed", "Succeeded">>[2] = "Succeeded"
          /\ <<"Fail", "Failed">>[1] = "Fail" /\ <<"Fail", "Failed">>[2] = "Failed"
      OBVIOUS
    <3> QED
      BY <3>1, <3>2, Zenon
  <2>a. PICK a \in {"Succeed", "Fail"}, r \in {"Succeeded", "Failed"} :
          /\ ChildSends(i, a, "completing")
          /\ childResult' = [childResult EXCEPT ![i] = [status |-> r, run |-> runs[i]]]
    BY <2>1, Zenon
  <2>2. [status |-> r, run |-> runs[i]] \in Result
    BY Facts DEF Result, Status
  <2>3. childResult' \in [Item -> Result]
    BY <2>a, <2>2, Facts
  <2>4. UNCHANGED <<finished, terminating, runs>>
    BY <1>4 DEF ChildCompletes, joinVars, historyVars
  <2> QED
    BY <1>t, <2>a, <2>3, <2>4, Facts, ChildSendsType
<1>5. CASE ChildSuspends(i)
  BY <1>5, <1>t, Facts DEF ChildSuspends, joinVars, historyVars
<1>6. CASE ChildReturns(i)
  BY <1>6, <1>t, Facts DEF ChildReturns, historyVars
<1>7. CASE AbortTakesEffect(i)
  BY <1>7, <1>t, Facts DEF AbortTakesEffect, joinVars, historyVars
<1> QED
  BY <1>1, <1>2, <1>3, <1>4, <1>5, <1>6, <1>7 DEF ChildAction

\* The batch never has more branches under way than max_concurrency.
LEMMA SpawnType ==
  ASSUME Types, Spawn
  PROVE  /\ started' \in Nat /\ started <= started' /\ started' <= items
         /\ Cardinality(1..started' \ joined) <= config.maxConcurrency
         /\ joined' = joined
         /\ childPc' = [i \in Item |-> IF i \in started + 1..started' THEN "spawned"
                                       ELSE childPc[i]]
<1> DEFINE under == Cardinality(1..started \ joined)
           left == items - started
           more == IF \/ ~ShouldContinue(Failures(joined), items, config)
                      \/ MinReached(Successes(joined), config)
                   THEN 0
                   ELSE IF Room < left THEN Room ELSE left
<1>1. started' = started + more /\ joined' = joined
      /\ childPc' = [i \in Item |-> IF i \in started + 1..started + more THEN "spawned"
                                    ELSE childPc[i]]
  BY DEF Spawn
<1>2. under \in Nat /\ under <= config.maxConcurrency
  BY Facts, IntervalCardinality
<1>3. Room = config.maxConcurrency - under /\ Room \in Nat
  BY <1>2, Facts DEF Room
<1>4. left \in Nat
  BY Facts
<1>5. more \in Nat /\ more <= Room /\ more <= left
  <2> HIDE DEF left
  <2> QED
    BY <1>3, <1>4
<1> HIDE DEF more
<1>6. Cardinality(1..started + more \ joined) <= under + more
  BY <1>5, Facts, IntervalCardinality
<1>7. Cardinality(1..started + more \ joined) \in Nat
  <2>1. started + more \in Nat
    BY <1>5, Facts
  <2> QED
    BY <2>1, IntervalCardinality
<1> HIDE DEF under
<1>8. under + more <= config.maxConcurrency
  BY <1>2, <1>3, <1>5, Facts
<1>9. Cardinality(1..started + more \ joined) <= config.maxConcurrency
  BY <1>2, <1>5, <1>6, <1>7, <1>8, Facts
<1> QED
  BY <1>1, <1>5, <1>9, Facts

LEMMA TypesBatch ==
  ASSUME Types, BatchAction
  PROVE  Types'
<1>u. UNCHANGED <<callVars, serviceVars, terminating, runs>>
  BY DEF BatchAction, StartBatch, StartReturns, Resume, ReturnRecorded, Rebuild, Spawn, JoinNext,
     Complete, CompleteEmpty,
       CompleteMapOfNothing, Panic, BatchReturns, NextOperationRecorded, historyVars
<1>k. Call'
  BY <1>u DEF Types, Call, callVars
<1> DEFINE childPcs == [Item -> {"none", "spawned", "starting", "body", "completing",
                                "finished", "aborted", "parked"}]
<1>t. ASSUME /\ pc' \in {"down", "replay", "starting", "loop", "joining", "completing",
                        "returned", "parked"}
             /\ snapshot' \in [batch : BatchRecord, children : [Item -> Result]]
             /\ childPc' \in childPcs
             /\ childResult' \in [Item -> Result] /\ finished' \in Seq(Item)
             /\ joined' \subseteq Item /\ started' \in 0..items
             /\ queue' \in Seq(Update) /\ outcome' \in Outcome /\ committed' \subseteq Outcome
             /\ Cardinality(1..started' \ joined') <= config.maxConcurrency
      PROVE  Types'
  BY <1>u, <1>k, <1>t DEF Types, BatchTypeOK, callVars, serviceVars
<1>j. finished # <<>> => Head(finished) \in Item /\ Tail(finished) \in Seq(Item)
  BY Facts
<1>1. CASE StartBatch
  BY <1>1, <1>t, Facts, BatchSendsType DEF StartBatch, joinVars, childVars, historyVars
<1>2. CASE StartReturns \/ Resume \/ BatchReturns
  BY <1>2, <1>t, Facts DEF StartReturns, Resume, BatchReturns, joinVars, childVars, historyVars
<1>3. CASE ReturnRecorded
  <2> DEFINE taken == {i \in Item : snapshot.batch.result.all[i] # NoResult}
             old == snapshot.batch.result
             values == IF output = "null" THEN {} ELSE old.values
  <2>1. Cardinality(taken) \in 0..MaxItems
    <3>1. taken \in SUBSET (1..MaxItems)
      BY DEF Item
    <3>2. IsFiniteSet(1..MaxItems) /\ Cardinality(1..MaxItems) = MaxItems
      BY Facts, IntervalCardinality
    <3>3. IsFiniteSet(taken) /\ Cardinality(taken) <= MaxItems
      BY <3>1, <3>2, FS_Subset
    <3> QED
      BY <3>3, FS_CardinalityType, Facts
  <2>2. old \in Outcome
    BY Facts DEF BatchRecord
  <2>3. outcome' = [old EXCEPT !.values = values, !.ids = Cardinality(taken)]
    BY <1>3 DEF ReturnRecorded, Recorded
  <2>4. values \in SUBSET Item
    BY <2>2 DEF Outcome
  <2> HIDE DEF taken, old, values
  <2>5. outcome' \in Outcome
    BY <2>1, <2>2, <2>3, <2>4 DEF Outcome
  <2> QED
    BY <1>3, <1>t, <2>5, Facts DEF ReturnRecorded, joinVars, childVars, historyVars
<1>4. CASE Rebuild
  <2>1. /\ snapshot.batch.result.ids \in 0..MaxItems
        /\ snapshot.children \in [Item -> Result]
    BY Facts DEF BatchRecord, Outcome
  <2>2. outcome' \in Outcome
    BY <1>4, <2>1, RebuiltType DEF Rebuild
  <2> QED
    BY <1>4, <1>t, <2>2, Facts DEF Rebuild, joinVars, childVars, historyVars
<1>5. CASE Spawn
  <2>1. childPc' \in childPcs /\ started' \in 0..items
    BY <1>5, Facts, SpawnType
  <2> QED
    BY <1>5, <1>t, <2>1, Facts, SpawnType DEF Spawn, historyVars
<1>6. CASE JoinNext \/ Complete
  <2>1. /\ finished # <<>> /\ joined' = joined \cup {Head(finished)} /\ finished' = Tail(finished)
        /\ started' = started
    BY <1>6 DEF JoinNext, Complete
  <2>2. joined' \subseteq Item /\ finished' \in Seq(Item)
    BY <1>j, <2>1, Facts
  <2>3. Cardinality(1..started' \ joined') <= config.maxConcurrency
    <3>1. Cardinality(1..started \ joined') <= Cardinality(1..started \ joined)
      BY <2>1, Facts, IntervalCardinality
    <3>2. Cardinality(1..started \ joined') \in Nat /\ Cardinality(1..started \ joined) \in Nat
      BY Facts, IntervalCardinality
    <3> QED
      BY <2>1, <3>1, <3>2, Facts
  <2>4. CASE JoinNext
    BY <1>t, <2>1, <2>2, <2>3, <2>4, Facts DEF JoinNext, childVars, historyVars
  <2>5. CASE Complete
    <3>1. childPc' \in childPcs
      BY <2>5, Facts DEF Complete, AbortAll
    <3>2. outcome' \in Outcome
      BY <2>2, <2>5, ResultOfType DEF Complete
    <3>3. pc' \in {"parked", "completing"} /\ queue' \in Seq(Update)
      BY <2>5, BatchSendsType DEF Complete
    <3> QED
      BY <1>t, <2>1, <2>2, <2>3, <2>5, <3>1, <3>2, <3>3, Facts DEF Complete
  <2> QED
    BY <1>6, <2>4, <2>5
<1>7. CASE CompleteEmpty \/ CompleteMapOfNothing
  <2>1. outcome' \in Outcome
    BY <1>7, ResultOfType DEF CompleteEmpty, CompleteMapOfNothing
  <2> QED
    BY <1>7, <1>t, <2>1, Facts, BatchSendsType
       DEF CompleteEmpty, CompleteMapOfNothing, joinVars, childVars, historyVars
<1>8. CASE Panic
  <2>1. Down /\ committed' = committed
    BY <1>8 DEF Panic, historyVars
  <2>2. started' \in 0..items /\ joined' \subseteq Item /\ childPc' \in childPcs
    BY <2>1, Facts, DownType
  <2> QED
    BY <1>t, <2>1, <2>2, Facts, DownType
<1>9. CASE NextOperationRecorded
  BY <1>9, <1>t, Facts DEF NextOperationRecorded, joinVars, childVars
<1> QED
  BY <1>1, <1>2, <1>3, <1>4, <1>5, <1>6, <1>7, <1>8, <1>9 DEF BatchAction

LEMMA TypesStep ==
  ASSUME Types, [Next]_vars
  PROVE  Types'
<1>1. CASE Next
  BY <1>1, TypesBatch, TypesChild, TypesEnvironment DEF Next
<1>2. CASE UNCHANGED vars
  BY <1>2 DEF Types, BatchTypeOK, Call, vars, callVars, serviceVars, joinVars, childVars,
     historyVars
<1> QED
  BY <1>1, <1>2

\* Every value keeps its type, and no more branches than max_concurrency are ever under
\* way, for any policy (map/execute.rs:118).
THEOREM BatchTypes == Spec => []BatchTypeOK
<1>1. Types => BatchTypeOK
  BY DEF Types
<1>2. Types /\ [Next]_vars => Types'
  BY TypesStep
<1> QED
  BY <1>1, <1>2, TypesInit, PTL DEF Spec
-----------------------------------------------------------------------------
(* Nothing of a branch follows the completion of its batch.                *)

Quiet == \A i \in Item : childPc[i] \in {"none", "finished", "aborted", "parked"}

\* The branches that run are those that were spawned and have not finished.
Tasks ==
  /\ pc \in {"down", "replay", "starting"} => \A i \in Item : childPc[i] = "none"
  /\ \A i \in Item : i > started => childPc[i] = "none"
  /\ \A i \in joined : childPc[i] = "finished"
  /\ \A k \in DOMAIN finished : childPc[finished[k]] = "finished"

IsCompletion(u) == u.op = Batch /\ u.action = "Succeed"

\* An aborted branch may be running still.
Loose == Preemptive /\ aborted

\* An execution keeps its runtime.
LEMMA RuntimeStays ==
  ASSUME [Next]_vars
  PROVE  Preemptive' = Preemptive
BY DEF Preemptive, callVars, vars, Next, EnvironmentAction, RecordUpdate, BatchOfUpdatesFails,
   Invoke, Crash, InvocationEnds, ChildAction, ChildReplays, ChildStarts, ChildRuns,
   ChildCompletes, ChildSuspends, ChildReturns, AbortTakesEffect, BatchAction, StartBatch,
   StartReturns, Resume, ReturnRecorded, Rebuild, Spawn, JoinNext, Complete, CompleteEmpty,
   CompleteMapOfNothing, Panic, BatchReturns, NextOperationRecorded

\* The completion is the batch's last update, and unless an aborted branch runs still,
\* the last of all.
Order ==
  \A k \in DOMAIN queue :
    IsCompletion(queue[k]) =>
      /\ pc = "completing"
      /\ \A j \in DOMAIN queue : j > k => queue[j].op # Batch
      /\ Loose \/ (k = Len(queue) /\ Quiet)

Final ==
  record.status = "Succeeded" =>
    /\ \A k \in DOMAIN queue : queue[k].op # Batch
    /\ Loose \/ (queue = <<>> /\ Quiet)
    /\ pc \in {"down", "replay", "completing", "returned"}
    /\ pc = "replay" => snapshot.batch.status = "Succeeded"

IInv == Types /\ Tasks /\ Order /\ Final
LEMMA Popped ==
  ASSUME NEW S, NEW q \in Seq(S), q # <<>>
  PROVE  /\ Head(q) = q[1] /\ 1 \in DOMAIN q /\ Tail(q) \in Seq(S)
         /\ Len(Tail(q)) = Len(q) - 1
         /\ \A k \in DOMAIN Tail(q) : k + 1 \in DOMAIN q /\ Tail(q)[k] = q[k + 1]
         /\ Len(q) = 1 => Tail(q) = <<>>
<1>1. /\ Head(q) = q[1] /\ 1 \in DOMAIN q /\ Tail(q) \in Seq(S)
      /\ Len(Tail(q)) = Len(q) - 1
      /\ \A k \in DOMAIN Tail(q) : k + 1 \in DOMAIN q /\ Tail(q)[k] = q[k + 1]
  OBVIOUS
<1>2. \A t \in Seq(S) : Len(t) = 0 => t = <<>>
  OBVIOUS
<1>3. Len(q) = 1 => Len(Tail(q)) = 0
  BY <1>1
<1> QED
  BY <1>1, <1>2, <1>3

LEMMA Pushed ==
  ASSUME NEW S, NEW q \in Seq(S), NEW e
  PROVE  \A k \in DOMAIN Append(q, e) :
           \/ k \in DOMAIN q /\ Append(q, e)[k] = q[k]
           \/ k = Len(Append(q, e)) /\ Append(q, e)[k] = e
OBVIOUS

LEMMA TasksChild ==
  ASSUME Types, Tasks, NEW i \in Item, ChildAction(i)
  PROVE  Tasks'
<1>1. /\ UNCHANGED <<pc, joined, started>>
      /\ childPc[i] \in {"spawned", "starting", "body", "completing"}
      /\ \A j \in Item \ {i} : childPc'[j] = childPc[j]
      /\ \/ finished' = finished
         \/ finished' = Append(finished, i) /\ childPc'[i] = "finished"
  BY Facts DEF ChildAction, ChildReplays, ChildStarts, ChildRuns, ChildCompletes, ChildSuspends,
     ChildReturns, AbortTakesEffect, ChildSends, joinVars
<1>2. i \notin joined /\ ~(i > started) /\ pc \notin {"down", "replay", "starting"}
  BY <1>1 DEF Tasks
<1>3. finished \in Seq(Item) /\ joined \subseteq Item
  BY Facts
<1>4. \A k \in DOMAIN finished : finished[k] \in Item /\ finished[k] # i
  BY <1>1, <1>3 DEF Tasks
<1>5. \A k \in DOMAIN finished' : childPc'[finished'[k]] = "finished"
  <2>1. CASE finished' = finished
    BY <1>1, <1>4, <2>1 DEF Tasks
  <2>2. CASE finished' = Append(finished, i) /\ childPc'[i] = "finished"
    BY <1>1, <1>3, <1>4, <2>2, Pushed DEF Tasks
  <2> QED
    BY <1>1, <2>1, <2>2
<1>6. \A j \in joined : childPc'[j] = "finished"
  BY <1>1, <1>2, <1>3 DEF Tasks
<1> QED
  BY <1>1, <1>2, <1>5, <1>6 DEF Tasks

LEMMA TasksDown ==
  ASSUME Types, Down
  PROVE  Tasks'
<1>1. /\ childPc' = [i \in Item |-> "none"] /\ joined' = {} /\ finished' = <<>>
  BY DownType
<1>2. DOMAIN finished' = {}
  BY <1>1
<1> QED
  BY <1>1, <1>2 DEF Tasks

LEMMA TasksNext ==
  ASSUME Types, Tasks, Next
  PROVE  Tasks'
<1>1. CASE \E i \in Item : ChildAction(i)
  BY <1>1, TasksChild
<1>2. CASE EnvironmentAction
  <2>1. CASE RecordUpdate \/ BatchOfUpdatesFails \/ Invoke
    BY <2>1 DEF RecordUpdate, BatchOfUpdatesFails, Invoke, joinVars, childVars, Tasks
  <2>2. CASE Crash \/ InvocationEnds
    BY <2>2, TasksDown DEF Crash, InvocationEnds
  <2> QED
    BY <1>2, <2>1, <2>2 DEF EnvironmentAction
<1>3. CASE StartBatch \/ StartReturns \/ Resume \/ ReturnRecorded \/ Rebuild \/ BatchReturns
           \/ NextOperationRecorded \/ CompleteEmpty \/ CompleteMapOfNothing
  <2>1. /\ UNCHANGED <<joinVars, childVars>>
        /\ pc' \in {"down", "replay", "starting"} => pc \in {"down", "replay", "starting"}
    BY <1>3 DEF StartBatch, StartReturns, Resume, ReturnRecorded, Rebuild, BatchReturns,
       NextOperationRecorded, CompleteEmpty, CompleteMapOfNothing, BatchSends
  <2> QED
    BY <2>1 DEF joinVars, childVars, Tasks
<1>4. CASE Spawn
  <2>1. /\ started' \in Nat /\ started <= started' /\ UNCHANGED <<joined, finished>>
        /\ pc' = "joining"
        /\ childPc' = [i \in Item |-> IF i \in started + 1..started' THEN "spawned"
                                      ELSE childPc[i]]
    BY <1>4, SpawnType DEF Spawn
  <2>2. started \in Nat /\ joined \subseteq Item /\ finished \in Seq(Item)
    BY Facts
  <2>3. \A i \in Item : i \in Nat
    BY DEF Item
  <2>4. \A i \in Item : childPc[i] = "finished" => childPc'[i] = "finished"
    BY <2>1, <2>2, <2>3 DEF Tasks
  <2>5. \A i \in Item : i > started' => childPc'[i] = "none"
    BY <2>1, <2>2, <2>3 DEF Tasks
  <2>6. \A k \in DOMAIN finished : finished[k] \in Item
    BY <2>2
  <2> QED
    BY <2>1, <2>2, <2>4, <2>5, <2>6 DEF Tasks
<1>5. CASE JoinNext \/ Complete
  <2>1. /\ finished # <<>> /\ joined' = joined \cup {Head(finished)} /\ finished' = Tail(finished)
        /\ started' = started /\ pc' \notin {"down", "replay", "starting"}
    BY <1>5 DEF JoinNext, Complete, BatchSends
  <2>2. finished \in Seq(Item) /\ joined \subseteq Item
    BY Facts
  <2>3. /\ Head(finished) = finished[1] /\ 1 \in DOMAIN finished
        /\ \A k \in DOMAIN finished' : k + 1 \in DOMAIN finished
                                        /\ finished'[k] = finished[k + 1]
        /\ \A k \in DOMAIN finished : finished[k] \in Item
    BY <2>1, <2>2, Popped
  <2>4. /\ \A i \in Item : childPc[i] \in {"finished", "none"} =>
              childPc'[i] = childPc[i] \/ (childPc[i] = "none" /\ ~(i > started))
    <3>1. CASE JoinNext
      BY <3>1 DEF JoinNext, childVars
    <3>2. CASE Complete
      <4>1. \A i \in Item : i > started => i \notin 1..started
        BY Facts DEF Item
      <4> QED
        BY <3>2, <4>1 DEF Complete, AbortAll, Item
    <3> QED
      BY <1>5, <3>1, <3>2
  <2>5. \A i \in Item : childPc[i] = "finished" => childPc'[i] = "finished"
    BY <2>4
  <2>6. \A i \in Item : i > started' => childPc'[i] = "none"
    BY <2>1, <2>4 DEF Tasks
  <2>7. \A i \in joined' : childPc'[i] = "finished"
    BY <2>1, <2>2, <2>3, <2>5 DEF Tasks
  <2>8. \A k \in DOMAIN finished' : childPc'[finished'[k]] = "finished"
    BY <2>3, <2>5 DEF Tasks
  <2> QED
    BY <2>1, <2>6, <2>7, <2>8 DEF Tasks
<1>6. CASE Panic
  BY <1>6, TasksDown DEF Panic
<1> QED
  BY <1>1, <1>2, <1>3, <1>4, <1>5, <1>6 DEF Next, BatchAction

\* An update of a branch leaves the record of the batch as it is.
LEMMA RecordOfBranch ==
  ASSUME NEW u, u.op # Batch, Apply(u)
  PROVE  record' = record
<1>1. CASE u.action = "Start"
  BY <1>1 DEF Apply
<1>2. CASE u.action # "Start"
  BY <1>2 DEF Apply
<1> QED
  BY <1>1, <1>2

\* An update behind which there is no completion: if it is one, it is the last.
LEMMA OrderAppended ==
  ASSUME Types, NEW u, queue' = Append(queue, u),
         \A k \in DOMAIN queue : ~IsCompletion(queue[k]),
         IsCompletion(u) => pc' = "completing" /\ (Loose' \/ Quiet')
  PROVE  Order'
<1>1. queue \in Seq(Update) /\ DOMAIN queue' = 1..Len(queue') /\ Len(queue') \in Nat
  BY Facts
<1> SUFFICES ASSUME NEW k \in DOMAIN queue', IsCompletion(queue'[k])
             PROVE  /\ pc' = "completing"
                    /\ \A j \in DOMAIN queue' : j > k => queue'[j].op # Batch
                    /\ Loose' \/ (k = Len(queue') /\ Quiet')
  BY DEF Order, IsCompletion
<1>2. k = Len(queue') /\ queue'[k] = u
  BY <1>1, Pushed DEF IsCompletion
<1>3. \A j \in DOMAIN queue' : ~(j > k)
  BY <1>1, <1>2
<1> QED
  BY <1>2, <1>3

\* What a running branch sends may follow a completion only if the branch was aborted.
LEMMA OrderOfBranch ==
  ASSUME Types, Order, ~Quiet, UNCHANGED <<pc, aborted, Preemptive>>, NEW i \in Item, NEW a,
         queue' = Append(queue, [op |-> i, action |-> a])
  PROVE  Order'
<1> DEFINE u == [op |-> i, action |-> a]
<1>1. queue \in Seq(Update) /\ u.op # Batch
  BY Facts, UpdateType
<1>2. queue' = Append(queue, u)
  OBVIOUS
<1> HIDE DEF u
<1> SUFFICES ASSUME NEW k \in DOMAIN queue', IsCompletion(queue'[k])
             PROVE  /\ pc' = "completing"
                    /\ \A j \in DOMAIN queue' : j > k => queue'[j].op # Batch
                    /\ Loose'
  BY DEF Order, IsCompletion
<1>3. k \in DOMAIN queue /\ queue'[k] = queue[k]
  BY <1>1, <1>2, Pushed DEF IsCompletion
<1>4. /\ pc = "completing" /\ Loose
      /\ \A j \in DOMAIN queue : j > k => queue[j].op # Batch
  BY <1>3 DEF Order, IsCompletion
<1>5. \A j \in DOMAIN queue' : j > k => queue'[j].op # Batch
  BY <1>1, <1>2, <1>4, Pushed
<1> QED
  BY <1>4, <1>5 DEF Loose

\* The service records the completion of the batch.
LEMMA FinalRecorded ==
  ASSUME IInv, queue # <<>>, Apply(Head(queue)), record'.status = "Succeeded",
         record.status # "Succeeded"
  PROVE  /\ pc = "completing" /\ IsCompletion(Head(queue))
         /\ \A k \in DOMAIN Tail(queue) : Tail(queue)[k].op # Batch
         /\ Loose \/ (Tail(queue) = <<>> /\ Quiet)
<1>1. queue \in Seq(Update) /\ Types /\ Order
  BY Facts DEF IInv
<1>2. /\ Head(queue) = queue[1] /\ 1 \in DOMAIN queue /\ Head(queue) \in Update
      /\ \A k \in DOMAIN Tail(queue) : k + 1 \in DOMAIN queue /\ Tail(queue)[k] = queue[k + 1]
      /\ Len(queue) = 1 => Tail(queue) = <<>>
      /\ \A k \in DOMAIN Tail(queue) : k + 1 > 1
  <2>1. \A k \in DOMAIN Tail(queue) : k \in Nat /\ k >= 1
    BY <1>1, Popped
  <2> QED
    BY <1>1, <2>1, Popped
<1> DEFINE u == Head(queue)
<1> HIDE DEF u
<1>3. CASE IsCompletion(u)
  BY <1>1, <1>2, <1>3 DEF Order, u
<1>4. CASE u.op = Batch /\ u.action = "Start"
  <2>1. record' = [record EXCEPT !.status = "Started"]
    BY <1>4 DEF Apply, u
  <2>2. record'.status = "Started"
    BY <1>1, <2>1, Facts DEF BatchRecord
  <2> QED
    BY <2>2
<1>5. CASE u.op # Batch
  <2>1. record' = record
    BY <1>2, <1>5, RecordOfBranch, UpdateType DEF u
  <2> QED
    BY <2>1
<1> QED
  BY <1>2, <1>3, <1>4, <1>5, UpdateType DEF IsCompletion, u

LEMMA EnvironmentStep ==
  ASSUME IInv, EnvironmentAction
  PROVE  Order' /\ Final'
<1>r. Preemptive' = Preemptive
  BY RuntimeStays DEF Next
<1>a. Types /\ Order /\ Final /\ Tasks /\ queue \in Seq(Update)
  BY Facts DEF IInv
<1>e. DOMAIN <<>> = {}
  OBVIOUS
<1>1. CASE RecordUpdate
  <2>1. /\ queue # <<>> /\ Apply(Head(queue)) /\ queue' = Tail(queue)
        /\ UNCHANGED <<pc, snapshot, childPc, aborted>>
    BY <1>1 DEF RecordUpdate, childVars, historyVars
  <2>2. /\ Len(queue') = Len(queue) - 1 /\ Len(queue) \in Nat
        /\ \A k \in DOMAIN queue' : k + 1 \in DOMAIN queue /\ queue'[k] = queue[k + 1]
        /\ \A k \in DOMAIN queue' : k \in Nat
        /\ Head(queue) = queue[1] /\ 1 \in DOMAIN queue
    BY <1>a, <2>1, Popped
  <2>3. Order'
    <3> SUFFICES ASSUME NEW k \in DOMAIN queue', IsCompletion(queue'[k])
                 PROVE  /\ pc' = "completing"
                        /\ \A j \in DOMAIN queue' : j > k => queue'[j].op # Batch
                        /\ Loose' \/ (k = Len(queue') /\ Quiet')
      BY DEF Order, IsCompletion
    <3>1. /\ pc = "completing"
          /\ \A j \in DOMAIN queue : j > k + 1 => queue[j].op # Batch
          /\ Loose \/ (k + 1 = Len(queue) /\ Quiet)
      BY <1>a, <2>2 DEF Order
    <3>2. \A j \in DOMAIN queue' : j > k => queue'[j].op # Batch
      BY <2>2, <3>1
    <3> QED
      BY <1>r, <2>1, <2>2, <3>1, <3>2 DEF Quiet, Loose
  <2>4. Final'
    <3>1. CASE record.status = "Succeeded"
      <4>1. /\ Loose /\ \A k \in DOMAIN queue : queue[k].op # Batch
            /\ pc \in {"down", "replay", "completing", "returned"}
            /\ pc = "replay" => snapshot.batch.status = "Succeeded"
        BY <1>a, <2>1, <3>1 DEF Final
      <4>2. \A k \in DOMAIN queue' : queue'[k].op # Batch
        BY <2>2, <4>1
      <4> QED
        BY <1>r, <2>1, <4>1, <4>2 DEF Final, Loose
    <3>2. CASE record.status # "Succeeded" /\ record'.status = "Succeeded"
      <4>1. /\ pc = "completing" /\ (Loose \/ (queue' = <<>> /\ Quiet))
            /\ \A k \in DOMAIN queue' : queue'[k].op # Batch
        BY <2>1, <3>2, FinalRecorded
      <4> QED
        BY <1>r, <2>1, <4>1 DEF Final, Quiet, Loose
    <3>3. CASE record'.status # "Succeeded"
      BY <3>3 DEF Final
    <3> QED
      BY <3>1, <3>2, <3>3
  <2> QED
    BY <2>3, <2>4
<1>2. CASE BatchOfUpdatesFails
  <2>1. /\ queue # <<>> /\ queue' = <<>> /\ UNCHANGED <<pc, snapshot, childPc, aborted>>
        /\ Apply(Head(queue)) \/ record' = record
    BY <1>2 DEF BatchOfUpdatesFails, childVars, serviceVars, historyVars
  <2>2. Final'
    <3>1. CASE record.status = "Succeeded"
      BY <1>r, <1>a, <1>e, <2>1, <3>1 DEF Final, Quiet, Loose
    <3>2. CASE record.status # "Succeeded" /\ record'.status = "Succeeded"
      <4>1. pc = "completing" /\ (Loose \/ Quiet)
        BY <2>1, <3>2, FinalRecorded
      <4> QED
        BY <1>r, <1>e, <2>1, <4>1 DEF Final, Quiet, Loose
    <3>3. CASE record'.status # "Succeeded"
      BY <3>3 DEF Final
    <3> QED
      BY <3>1, <3>2, <3>3
  <2> QED
    BY <1>e, <2>1, <2>2 DEF Order
<1>3. CASE Invoke
  <2>1. /\ pc = "down" /\ pc' = "replay" /\ snapshot'.batch = record
        /\ UNCHANGED <<record, queue, childPc, aborted>>
    BY <1>3 DEF Invoke, serviceVars, childVars, historyVars
  <2>2. \A k \in DOMAIN queue : ~IsCompletion(queue[k])
    BY <1>a, <2>1 DEF Order
  <2> QED
    BY <1>r, <1>a, <2>1, <2>2 DEF Order, Final, Quiet, Loose, IsCompletion
<1>4. CASE Crash \/ InvocationEnds
  <2>1. /\ pc' = "down" /\ queue' = <<>> /\ childPc' = [i \in Item |-> "none"]
    BY <1>a, <1>4, DownType DEF Crash, InvocationEnds
  <2> QED
    BY <1>e, <2>1 DEF Order, Final, Quiet
<1> QED
  BY <1>1, <1>2, <1>3, <1>4 DEF EnvironmentAction

LEMMA ChildStep ==
  ASSUME IInv, NEW i \in Item, ChildAction(i)
  PROVE  Order' /\ Final'
<1>r. Preemptive' = Preemptive
  BY RuntimeStays DEF Next
<1>a. Types /\ Order /\ Final /\ queue \in Seq(Update)
  BY Facts DEF IInv
<1>1. /\ ~Quiet /\ UNCHANGED <<pc, record, snapshot, aborted>>
  BY DEF ChildAction, ChildReplays, ChildStarts, ChildRuns, ChildCompletes, ChildSuspends,
     ChildReturns, AbortTakesEffect, serviceVars, historyVars, Quiet
<1>2. \/ queue' = queue
      \/ \E a \in {"Start", "Succeed", "Fail"} : queue' = Append(queue, [op |-> i, action |-> a])
  BY DEF ChildAction, ChildReplays, ChildStarts, ChildRuns, ChildCompletes, ChildSuspends,
     ChildReturns, AbortTakesEffect, ChildSends
<1>3. Order'
  <2>1. CASE queue' = queue
    BY <1>r, <1>a, <1>1, <2>1 DEF Order, IsCompletion, Loose
  <2> QED
    BY <1>r, <1>a, <1>1, <1>2, <2>1, OrderOfBranch
<1>4. Final'
  <2> SUFFICES ASSUME record.status = "Succeeded" PROVE Final'
    BY <1>1 DEF Final
  <2>1. Loose /\ \A k \in DOMAIN queue : queue[k].op # Batch
    BY <1>a, <1>1 DEF Final
  <2>2. ASSUME NEW a, queue' = Append(queue, [op |-> i, action |-> a])
        PROVE  \A k \in DOMAIN queue' : queue'[k].op # Batch
    <3>1. [op |-> i, action |-> a].op # Batch
      BY UpdateType
    <3> QED
      BY <1>a, <2>1, <2>2, <3>1, Pushed
  <2>3. \A k \in DOMAIN queue' : queue'[k].op # Batch
    BY <1>2, <2>1, <2>2
  <2> QED
    BY <1>r, <1>a, <1>1, <2>1, <2>3 DEF Final, Loose
<1> QED
  BY <1>3, <1>4

LEMMA BatchStep ==
  ASSUME IInv, Tasks', BatchAction, Mode = "Replay"
  PROVE  Order' /\ Final'
<1>r. Preemptive' = Preemptive
  BY RuntimeStays DEF Next
<1>a. Types /\ Order /\ Final /\ Tasks /\ queue \in Seq(Update)
  BY Facts DEF IInv
<1>e. DOMAIN <<>> = {}
  OBVIOUS
<1>u. record' = record
  BY DEF BatchAction, StartBatch, StartReturns, Resume, ReturnRecorded, Rebuild, Spawn, JoinNext,
     Complete, CompleteEmpty,
       CompleteMapOfNothing, Panic, BatchReturns, NextOperationRecorded, serviceVars
<1>o. pc # "completing" => \A k \in DOMAIN queue : ~IsCompletion(queue[k])
  BY <1>a DEF Order
<1>1. CASE StartBatch
  <2>1. /\ pc = "replay" /\ snapshot.batch.status = "None" /\ UNCHANGED childPc
        /\ \/ queue' = queue
           \/ queue' = Append(queue, [op |-> Batch, action |-> "Start"])
    BY <1>1 DEF StartBatch, BatchSends, childVars
  <2>2. record.status # "Succeeded"
    BY <1>a, <2>1 DEF Final
  <2>3. Order'
    <3>1. CASE queue' = queue
      BY <1>o, <2>1, <3>1 DEF Order, IsCompletion
    <3>2. CASE queue' = Append(queue, [op |-> Batch, action |-> "Start"])
      <4>1. ~IsCompletion([op |-> Batch, action |-> "Start"])
        BY DEF IsCompletion
      <4> QED
        BY <1>a, <1>o, <2>1, <3>2, <4>1, OrderAppended
    <3> QED
      BY <2>1, <3>1, <3>2
  <2> QED
    BY <1>u, <2>2, <2>3 DEF Final
<1>2. CASE StartReturns \/ Resume
  <2>1. /\ pc \in {"starting", "replay"} /\ UNCHANGED <<queue, childPc>>
        /\ pc = "replay" => snapshot.batch.status # "Succeeded"
    BY <1>2 DEF StartReturns, Resume, IsReplayed, childVars
  <2>2. record.status # "Succeeded"
    BY <1>a, <2>1 DEF Final
  <2> QED
    BY <1>o, <1>u, <2>1, <2>2 DEF Order, Final, IsCompletion
<1>3. CASE ReturnRecorded \/ Rebuild
  <2>1. pc = "replay" /\ pc' = "returned" /\ UNCHANGED <<queue, childPc>>
    BY <1>3 DEF ReturnRecorded, Rebuild, childVars
  <2>2. aborted' = aborted
    BY <1>3 DEF ReturnRecorded, Rebuild, historyVars
  <2> QED
    BY <1>r, <1>a, <1>o, <1>u, <2>1, <2>2 DEF Order, Final, IsCompletion, Quiet, Loose
<1>4. CASE Spawn \/ JoinNext
  <2>1. pc \in {"loop", "joining"} /\ queue' = queue
    BY <1>4 DEF Spawn, JoinNext
  <2>2. record.status # "Succeeded"
    BY <1>a, <2>1 DEF Final
  <2> QED
    BY <1>o, <1>u, <2>1, <2>2 DEF Order, Final, IsCompletion
<1>5. CASE Complete \/ CompleteEmpty \/ CompleteMapOfNothing
  <2> DEFINE u == [op |-> Batch, action |-> "Succeed"]
  <2>1. /\ pc \in {"loop", "joining"}
        /\ \/ queue' = queue
           \/ pc' = "completing" /\ queue' = Append(queue, u)
    BY <1>5 DEF Complete, CompleteEmpty, CompleteMapOfNothing, NothingToJoin, BatchSends
  <2>2. record.status # "Succeeded"
    BY <1>a, <2>1 DEF Final
  <2>3. Loose' \/ Quiet'
    <3>1. \A j \in Item : j > started => childPc[j] = "none"
      BY <1>a DEF Tasks
    <3>2. \A j \in Item : j \in 1..started \/ j > started
      BY <1>a, Facts DEF Item
    <3>3. CASE Complete
      <4>1. /\ started' = started /\ joined' \subseteq Item
            /\ \A j \in joined' : childPc'[j] = "finished"
        BY <1>a, <3>3, TypesBatch, Facts
           DEF IInv, Tasks, Complete, Types, BatchTypeOK, BatchAction
      <4>2. /\ \A j \in Item :
                 childPc'[j] = IF /\ ~Preemptive /\ j \in 1..started \ joined'
                                  /\ childPc[j] # "finished"
                               THEN "aborted"
                               ELSE childPc[j]
            /\ 1..started \ joined' # {} => aborted'
        BY <3>3 DEF Complete, AbortAll
      <4>3. CASE Preemptive /\ 1..started \ joined' # {}
        BY <1>r, <4>2, <4>3 DEF Loose
      <4>4. CASE ~(Preemptive /\ 1..started \ joined' # {})
        BY <3>1, <3>2, <4>1, <4>2, <4>4 DEF Quiet
      <4> QED
        BY <4>3, <4>4
    <3>4. CASE CompleteEmpty
      <4>1. joined = 1..started /\ childPc' = childPc
        BY <3>4 DEF CompleteEmpty, NothingToJoin, childVars
      <4> QED
        BY <1>a, <3>1, <3>2, <4>1 DEF Quiet, Tasks
    <3>5. CASE CompleteMapOfNothing
      <4>1. started = 0 /\ childPc' = childPc
        BY <1>a, <3>5, Facts DEF CompleteMapOfNothing, IsMapOfNothing, childVars
      <4> QED
        BY <3>1, <3>2, <4>1 DEF Quiet
    <3> QED
      BY <1>5, <3>3, <3>4, <3>5
  <2>4. Order'
    <3>1. CASE queue' = queue
      BY <1>o, <2>1, <3>1 DEF Order, IsCompletion
    <3>2. CASE pc' = "completing" /\ queue' = Append(queue, u)
      BY <1>a, <1>o, <2>1, <2>3, <3>2, OrderAppended
    <3> QED
      BY <2>1, <3>1, <3>2
  <2> QED
    BY <1>u, <2>2, <2>4 DEF Final
<1>6. CASE Panic
  <2>1. /\ pc' = "down" /\ queue' = <<>> /\ childPc' = [i \in Item |-> "none"]
    BY <1>a, <1>6, DownType DEF Panic
  <2> QED
    BY <1>e, <2>1 DEF Order, Final, Quiet
<1>7. CASE BatchReturns
  <2>1. /\ pc = "completing" /\ pc' = "returned" /\ UNCHANGED <<queue, childPc, aborted>>
        /\ \A k \in DOMAIN queue : ~IsCompletion(queue[k])
    BY <1>7 DEF BatchReturns, Released, IsCompletion, childVars, historyVars
  <2> QED
    BY <1>r, <1>a, <1>u, <2>1 DEF Order, Final, IsCompletion, Quiet, Loose
<1>8. CASE NextOperationRecorded
  <2>1. UNCHANGED <<pc, queue, childPc, snapshot, aborted>>
    BY <1>8 DEF NextOperationRecorded, childVars
  <2> QED
    BY <1>r, <1>a, <1>u, <2>1 DEF Order, Final, Quiet, Loose, IsCompletion
<1> QED
  BY <1>1, <1>2, <1>3, <1>4, <1>5, <1>6, <1>7, <1>8 DEF BatchAction

LEMMA Invariance ==
  ASSUME Mode = "Replay"
  PROVE  Spec => []IInv
<1>1. Init => IInv
  <2> SUFFICES ASSUME Init PROVE IInv
    OBVIOUS
  <2>1. DOMAIN queue = {} /\ DOMAIN finished = {} /\ joined = {}
    BY DEF Init
  <2> QED
    BY <2>1, TypesInit DEF Init, IInv, Tasks, Order, Final
<1>2. IInv /\ [Next]_vars => IInv'
  <2> SUFFICES ASSUME IInv, [Next]_vars PROVE IInv'
    OBVIOUS
  <2>1. Types'
    BY TypesStep DEF IInv
  <2>2. CASE Next
    <3>1. Tasks'
      BY <2>2, TasksNext DEF IInv
    <3>2. Order' /\ Final'
      BY <2>2, <3>1, EnvironmentStep, ChildStep, BatchStep DEF Next
    <3> QED
      BY <2>1, <3>1, <3>2 DEF IInv
  <2>3. CASE UNCHANGED vars
    BY <2>1, <2>3, RuntimeStays DEF vars, callVars, serviceVars, joinVars, childVars, historyVars, IInv, Tasks,
       Order, Final, Quiet, Loose, IsCompletion
  <2> QED
    BY <2>2, <2>3
<1> QED
  BY <1>1, <1>2, PTL DEF Spec

\* On a current-thread runtime, and where a completed batch is replayed as such, the
\* service never records an update of a branch after the completion of its batch, whatever
\* the policy, the faults and the order in which branches end (map/execute.rs:201).
THEOREM CompletionIsTheLast ==
  ASSUME Mode = "Replay"
  PROVE  Spec => CompletionIsLast
<1>1. IInv /\ [Next]_vars => [~Preemptive /\ record.status = "Succeeded" => childRecord' = childRecord]_childRecord
  <2> SUFFICES ASSUME IInv, [Next]_vars, ~Preemptive, record.status = "Succeeded"
               PROVE  childRecord' = childRecord
    OBVIOUS
  <2>1. queue = <<>>
    BY DEF IInv, Final, Loose
  <2> QED
    BY <2>1 DEF Next, vars, serviceVars, EnvironmentAction, RecordUpdate, BatchOfUpdatesFails,
       Invoke, Crash, InvocationEnds, ChildAction, ChildReplays, ChildStarts, ChildRuns,
       ChildCompletes, ChildSuspends, ChildReturns, AbortTakesEffect,
       BatchAction, StartBatch, StartReturns, Resume,
       ReturnRecorded, Rebuild, Spawn, JoinNext, Complete, CompleteEmpty,
       CompleteMapOfNothing, Panic, BatchReturns,
       NextOperationRecorded
<1> QED
  BY <1>1, Invariance, PTL DEF Spec, CompletionIsLast

\* Nor is a branch's function called again, whatever was aborted or cut off
\* (map/replay.rs, parallel/replay.rs).
THEOREM NoBranchRunsTwice ==
  ASSUME Mode = "Replay"
  PROVE  Spec => NoBranchRunsAgain
<1>1. IInv /\ [Next]_vars => [~Preemptive /\ record.status = "Succeeded" => runs' = runs]_runs
  <2> SUFFICES ASSUME IInv, [Next]_vars, ~Preemptive, record.status = "Succeeded"
               PROVE  runs' = runs
    OBVIOUS
  <2>1. Quiet
    BY DEF IInv, Final, Loose
  <2> QED
    BY <2>1 DEF Next, vars, historyVars, Quiet, EnvironmentAction, RecordUpdate, BatchOfUpdatesFails,
       Invoke, Crash, InvocationEnds, ChildAction, ChildReplays, ChildStarts, ChildRuns,
       ChildCompletes, ChildSuspends, ChildReturns, AbortTakesEffect,
       BatchAction, StartBatch, StartReturns, Resume,
       ReturnRecorded, Rebuild, Spawn, JoinNext, Complete, CompleteEmpty,
       CompleteMapOfNothing, Panic, BatchReturns,
       NextOperationRecorded
<1> QED
  BY <1>1, Invariance, PTL DEF Spec, NoBranchRunsAgain
-----------------------------------------------------------------------------
(* What later invocations are given.                                       *)

\* Every branch the batch has joined was spawned.
JoinedStarted == joined \subseteq 1..started

HasResult(i) == childPc[i] \in {"completing", "finished"}

Results == \A i \in Item : HasResult(i) => childResult[i].status \in {"Succeeded", "Failed"}

\* The START of a branch is on its way only while the branch waits for it.
Starting ==
  \A k \in DOMAIN queue :
    queue[k].op # Batch /\ queue[k].action = "Start" =>
      childPc[queue[k].op] \in {"starting", "aborted"}

\* Of a branch that has not begun, nothing new is recorded or on its way.
Untouched ==
  pc # "down" =>
    \A i \in Item : childPc[i] \in {"none", "spawned"} =>
      childRecord[i] = snapshot.children[i] /\ Released(i)

\* The outcome of a branch is recorded or on its way, unless the invocation is ending.
Delivered ==
  ~terminating =>
    \A i \in Item : HasResult(i) => childRecord[i] = childResult[i] \/ ~Released(i)

\* Until it calls for an update, an invocation sees what is recorded.
Fresh ==
  /\ pc \in {"down", "replay"} => queue = <<>>
  /\ pc = "replay" => snapshot.batch = record

Branches == JoinedStarted /\ Results /\ Starting /\ Untouched /\ Delivered /\ Fresh

LEMMA ReleasedLater ==
  ASSUME NEW q \in Seq(Update), NEW i
  PROVE  /\ q # <<>> /\ (\A k \in DOMAIN q : q[k].op # i) =>
              Head(q).op # i /\ \A k \in DOMAIN Tail(q) : Tail(q)[k].op # i
         /\ q # <<>> /\ Head(q).op # i /\ (\E k \in DOMAIN q : q[k].op = i) =>
              \E k \in DOMAIN Tail(q) : Tail(q)[k].op = i
         /\ \A u : (\A k \in DOMAIN q : q[k].op # i) /\ u.op # i =>
              \A k \in DOMAIN Append(q, u) : Append(q, u)[k].op # i
         /\ \A u : (\E k \in DOMAIN q : q[k].op = i) =>
              \E k \in DOMAIN Append(q, u) : Append(q, u)[k].op = i
         /\ \A u : u.op = i => \E k \in DOMAIN Append(q, u) : Append(q, u)[k].op = i
<1>1. ASSUME q # <<>>, \A k \in DOMAIN q : q[k].op # i
      PROVE  Head(q).op # i /\ \A k \in DOMAIN Tail(q) : Tail(q)[k].op # i
  BY <1>1, Popped
<1>2. ASSUME q # <<>>, Head(q).op # i, NEW k \in DOMAIN q, q[k].op = i
      PROVE  \E j \in DOMAIN Tail(q) : Tail(q)[j].op = i
  <2>1. k # 1 /\ k \in 1..Len(q)
    BY <1>2, Popped
  <2>2. k - 1 \in DOMAIN Tail(q) /\ Tail(q)[k - 1] = q[k]
    BY <1>2, <2>1
  <2> QED
    BY <1>2, <2>2
<1>3. ASSUME NEW u, \A k \in DOMAIN q : q[k].op # i, u.op # i
      PROVE  \A k \in DOMAIN Append(q, u) : Append(q, u)[k].op # i
  BY <1>3, Pushed
<1>4. ASSUME NEW u, NEW k \in DOMAIN q, q[k].op = i
      PROVE  \E j \in DOMAIN Append(q, u) : Append(q, u)[j].op = i
  <2>1. k \in DOMAIN Append(q, u) /\ Append(q, u)[k] = q[k]
    OBVIOUS
  <2> QED
    BY <1>4, <2>1
<1>5. ASSUME NEW u, u.op = i
      PROVE  \E j \in DOMAIN Append(q, u) : Append(q, u)[j].op = i
  <2>1. Len(q) + 1 \in DOMAIN Append(q, u) /\ Append(q, u)[Len(q) + 1] = u
    OBVIOUS
  <2> QED
    BY <1>5, <2>1
<1> QED
  BY <1>1, <1>2, <1>3, <1>4, <1>5

\* What is not at the head of a queue is behind it.
LEMMA RemainsQueued ==
  ASSUME NEW q \in Seq(Update), NEW i, q # <<>>, Head(q).op # i,
         \E k \in DOMAIN q : q[k].op = i
  PROVE  \E k \in DOMAIN Tail(q) : Tail(q)[k].op = i
BY ReleasedLater

\* What the service does with the first update concerns the branch it names.
LEMMA HeadApplied ==
  ASSUME Types, queue # <<>>, Apply(Head(queue)), NEW i \in Item
  PROVE  /\ Released(i) => childRecord'[i] = childRecord[i]
         /\ Head(queue).op # i => childRecord'[i] = childRecord[i]
         /\ Head(queue).op = i /\ Head(queue).action # "Start" =>
              childRecord'[i] = childResult[i]
         /\ Head(queue).op \in Item => record' = record
<1> DEFINE u == Head(queue)
<1>1. /\ queue \in Seq(Update) /\ childRecord \in [Item -> Result] /\ u = queue[1]
      /\ 1 \in DOMAIN queue /\ u \in Update
  BY Facts, Popped
<1> HIDE DEF u
<1>2. \/ childRecord' = childRecord
      \/ /\ u.op \in Item /\ u.op # Batch /\ record' = record
         /\ \A j \in Item : j # u.op => childRecord'[j] = childRecord[j]
         /\ u.action # "Start" => childRecord'[u.op] = childResult[u.op]
  <2>1. CASE u.op = Batch
    BY <1>1, <2>1, UpdateType DEF Apply, u
  <2>2. CASE u.op # Batch /\ u.action = "Start"
    <3>1. childRecord' = [childRecord EXCEPT ![u.op].status = "Started"] /\ record' = record
      BY <2>2 DEF Apply, u
    <3> QED
      BY <1>1, <2>2, <3>1, UpdateType
  <2>3. CASE u.op # Batch /\ u.action # "Start"
    <3>1. childRecord' = [childRecord EXCEPT ![u.op] = childResult[u.op]] /\ record' = record
      BY <2>3 DEF Apply, u
    <3> QED
      BY <1>1, <2>3, <3>1, UpdateType
  <2> QED
    BY <2>1, <2>2, <2>3
<1>3. Released(i) => u.op # i
  BY <1>1 DEF Released
<1>4. u.op \in Item => u.op # Batch
  BY UpdateType
<1>5. u.op \in Item => record' = record
  <2>1. CASE u.action = "Start"
    BY <1>4, <2>1 DEF Apply, u
  <2>2. CASE u.action # "Start"
    BY <1>4, <2>2 DEF Apply, u
  <2> QED
    BY <2>1, <2>2
<1>6. u.op = i /\ u.action # "Start" => childRecord'[i] = childResult[i]
  BY <1>1, <1>4 DEF Apply, u
<1> QED
  BY <1>2, <1>3, <1>5, <1>6 DEF u

LEMMA BranchesDown ==
  ASSUME Types, Down, terminating' \in BOOLEAN
  PROVE  Branches'
<1>1. /\ pc' = "down" /\ queue' = <<>> /\ childPc' = [i \in Item |-> "none"] /\ joined' = {}
  BY DownType
<1>2. DOMAIN queue' = {} /\ \A i \in Item : childPc'[i] = "none"
  BY <1>1
<1> QED
  BY <1>1, <1>2
     DEF Branches, JoinedStarted, Results, Starting, Untouched, Delivered, Fresh, HasResult

LEMMA BranchesEnvironment ==
  ASSUME IInv, Branches, EnvironmentAction
  PROVE  Branches'
<1>a. Types /\ queue \in Seq(Update) /\ Tasks
  BY Facts DEF IInv
<1>i. \A i \in Item : i # Batch
  BY UpdateType
<1>1. CASE RecordUpdate \/ BatchOfUpdatesFails
  <2>1. /\ queue # <<>> /\ UNCHANGED <<pc, snapshot, childPc, childResult, joined, started>>
        /\ pc \notin {"down", "replay"}
    BY <1>1 DEF RecordUpdate, BatchOfUpdatesFails, joinVars, childVars, Branches, Fresh
  <2>2. \/ Apply(Head(queue)) /\ queue' = Tail(queue) /\ terminating' = terminating
        \/ /\ Apply(Head(queue)) \/ UNCHANGED serviceVars
           /\ queue' = <<>> /\ terminating' = TRUE
    BY <1>1 DEF RecordUpdate, BatchOfUpdatesFails
  <2>3. DOMAIN <<>> = {}
    OBVIOUS
  <2>4. /\ \A k \in DOMAIN Tail(queue) : k + 1 \in DOMAIN queue /\ Tail(queue)[k] = queue[k + 1]
        /\ Head(queue) = queue[1] /\ 1 \in DOMAIN queue /\ Head(queue) \in Update
    BY <1>a, <2>1, Popped
  <2>5. JoinedStarted' /\ Results' /\ Fresh'
    BY <2>1 DEF Branches, JoinedStarted, Results, HasResult, Fresh
  <2>6. Starting'
    <3>1. CASE queue' = <<>>
      BY <2>3, <3>1 DEF Starting
    <3>2. CASE queue' = Tail(queue)
      <4> SUFFICES ASSUME NEW k \in DOMAIN queue', queue'[k].op # Batch,
                          queue'[k].action = "Start"
                   PROVE  childPc'[queue'[k].op] \in {"starting", "aborted"}
        BY DEF Starting
      <4>1. k + 1 \in DOMAIN queue /\ queue'[k] = queue[k + 1]
        BY <2>4, <3>2
      <4> QED
        BY <2>1, <4>1 DEF Branches, Starting
    <3> QED
      BY <2>2, <3>1, <3>2
  <2>7. Untouched'
    <3> SUFFICES ASSUME NEW i \in Item, childPc[i] \in {"none", "spawned"}
                 PROVE  childRecord'[i] = snapshot.children[i] /\ Released(i)'
      BY <2>1 DEF Untouched
    <3>1. childRecord[i] = snapshot.children[i] /\ Released(i)
      BY <2>1 DEF Branches, Untouched
    <3>2. childRecord'[i] = childRecord[i]
      BY <1>a, <2>1, <2>2, <3>1, HeadApplied DEF serviceVars
    <3>3. Released(i)'
      <4>1. CASE queue' = Tail(queue)
        BY <1>a, <2>1, <3>1, <4>1, ReleasedLater DEF Released
      <4>2. CASE queue' = <<>>
        BY <2>3, <4>2 DEF Released
      <4> QED
        BY <2>2, <4>1, <4>2
    <3> QED
      BY <3>1, <3>2, <3>3
  <2>8. Delivered'
    <3> SUFFICES ASSUME ~terminating', NEW i \in Item, HasResult(i)'
                 PROVE  childRecord'[i] = childResult[i] \/ ~Released(i)'
      BY <2>1 DEF Delivered
    <3>1. /\ Apply(Head(queue)) /\ queue' = Tail(queue) /\ ~terminating /\ HasResult(i)
      BY <2>1, <2>2 DEF HasResult
    <3>2. CASE Head(queue).op = i
      <4>1. Head(queue).action # "Start"
        BY <1>i, <2>4, <3>1, <3>2 DEF Branches, Starting, HasResult
      <4> QED
        BY <1>a, <2>1, <3>1, <3>2, <4>1, HeadApplied
    <3>3. CASE Head(queue).op # i
      <4>1. CASE childRecord[i] = childResult[i]
        BY <1>a, <2>1, <3>1, <3>3, <4>1, HeadApplied
      <4>2. CASE ~Released(i)
        <5>1. \E k \in DOMAIN queue : queue[k].op = i
          BY <4>2 DEF Released
        <5>2. \E k \in DOMAIN Tail(queue) : Tail(queue)[k].op = i
          BY <1>a, <2>1, <3>3, <5>1, RemainsQueued
        <5> QED
          BY <3>1, <5>2 DEF Released
      <4> QED
        BY <3>1, <4>1, <4>2 DEF Branches, Delivered
    <3> QED
      BY <3>2, <3>3
  <2> QED
    BY <2>5, <2>6, <2>7, <2>8 DEF Branches
<1>2. CASE Invoke
  <2>1. /\ pc = "down" /\ pc' = "replay" /\ queue = <<>> /\ queue' = queue
        /\ snapshot' = [batch |-> record, children |-> childRecord]
        /\ UNCHANGED <<record, childRecord, childPc, childResult, joined, started>>
    BY <1>2 DEF Invoke, Branches, Fresh, serviceVars, joinVars, childVars
  <2>2. DOMAIN queue' = {} /\ \A i \in Item : childPc[i] = "none"
    BY <1>a, <2>1 DEF Tasks
  <2> QED
    BY <2>1, <2>2 DEF Branches, JoinedStarted, Results, HasResult, Starting, Untouched, Released,
       Delivered, Fresh
<1>3. CASE Crash \/ InvocationEnds
  BY <1>a, <1>3, Facts, BranchesDown DEF Crash, InvocationEnds
<1> QED
  BY <1>1, <1>2, <1>3 DEF EnvironmentAction

LEMMA BranchesChild ==
  ASSUME IInv, Branches, NEW i \in Item, ChildAction(i)
  PROVE  Branches'
<1>a. /\ Types /\ queue \in Seq(Update) /\ Tasks /\ pc # "down"
      /\ childPc \in [Item -> {"none", "spawned", "starting", "body", "completing",
                               "finished", "aborted", "parked"}]
      /\ childResult \in [Item -> Result] /\ terminating \in BOOLEAN
  BY Facts DEF IInv, ChildAction
<1>i. i # Batch
  BY UpdateType
<1>u. /\ UNCHANGED <<pc, record, childRecord, snapshot, joined, started>>
      /\ childPc[i] \in {"spawned", "starting", "body", "completing"}
      /\ childPc'[i] \in {"starting", "body", "completing", "finished", "parked", "aborted"}
      /\ \A j \in Item \ {i} : childPc'[j] = childPc[j] /\ childResult'[j] = childResult[j]
      /\ terminating => terminating'
  BY <1>a DEF ChildAction, ChildReplays, ChildStarts, ChildRuns, ChildCompletes, ChildSuspends,
     ChildReturns, AbortTakesEffect, ChildSends, joinVars, serviceVars
<1>q. \/ queue' = queue
      \/ /\ \E a \in {"Start", "Succeed", "Fail"} : queue' = Append(queue, [op |-> i, action |-> a])
         /\ childPc'[i] \in {"starting", "completing"} /\ ~Released(i)'
  <2>1. \/ queue' = queue
        \/ /\ \E a \in {"Start", "Succeed", "Fail"} : queue' = Append(queue, [op |-> i, action |-> a])
           /\ childPc'[i] \in {"starting", "completing"}
    BY <1>a DEF ChildAction, ChildReplays, ChildStarts, ChildRuns, ChildCompletes, ChildSuspends,
       ChildReturns, AbortTakesEffect, ChildSends
  <2>2. ASSUME NEW a, queue' = Append(queue, [op |-> i, action |-> a])
        PROVE  ~Released(i)'
    BY <1>a, <2>2, ReleasedLater DEF Released
  <2> QED
    BY <2>1, <2>2
<1>r. \A j \in Item \ {i} : Released(j)' <=> Released(j)
  <2> SUFFICES ASSUME NEW j \in Item \ {i} PROVE Released(j)' <=> Released(j)
    OBVIOUS
  <2>1. ASSUME NEW a, queue' = Append(queue, [op |-> i, action |-> a])
        PROVE  Released(j)' <=> Released(j)
    BY <1>a, <2>1, ReleasedLater DEF Released
  <2> QED
    BY <1>q, <2>1 DEF Released
\* What each of its steps does to its own branch.
<1>s. /\ childPc'[i] \in {"completing", "finished"} =>
            /\ childResult'[i].status \in {"Succeeded", "Failed"}
            /\ ~terminating' => childRecord[i] = childResult'[i] \/ ~Released(i)'
      /\ \A k \in DOMAIN queue' : queue'[k].op = i /\ queue'[k].action = "Start" =>
           childPc'[i] \in {"starting", "aborted"}
  <2>0. \A k \in DOMAIN queue : queue[k].op = i /\ queue[k].action = "Start" =>
          childPc[i] = "starting"
    BY <1>i, <1>u DEF Branches, Starting
  <2>1. CASE ChildReplays(i)
    <3>1. /\ childResult'[i] = snapshot.children[i] /\ queue' = queue
          /\ childResult'[i].status \in {"Succeeded", "Failed"}
      BY <1>a, <2>1 DEF ChildReplays
    <3>2. childRecord[i] = snapshot.children[i] /\ Released(i)
      BY <1>a, <2>1 DEF ChildReplays, Branches, Untouched
    <3> QED
      BY <3>1, <3>2 DEF Released
  <2>2. CASE ChildStarts(i)
    <3>1. /\ childPc'[i] \in {"starting", "parked"} /\ childPc[i] = "spawned"
          /\ queue' = queue \/ childPc'[i] = "starting"
      BY <1>a, <2>2 DEF ChildStarts, ChildSends
    <3> QED
      BY <2>0, <3>1
  <2>3. CASE ChildRuns(i)
    <3>1. /\ childPc'[i] = "body" /\ queue' = queue
          /\ childPc[i] = "spawned" \/ Released(i)
      BY <1>a, <2>3 DEF ChildRuns
    <3> QED
      BY <2>0, <3>1 DEF Released
  <2>4. CASE ChildCompletes(i)
    <3>1. PICK end \in {<<"Succeed", "Succeeded">>, <<"Fail", "Failed">>} :
            /\ ChildSends(i, end[1], "completing")
            /\ childResult' = [childResult EXCEPT ![i] = [status |-> end[2], run |-> runs[i]]]
      BY <2>4 DEF ChildCompletes
    <3>2. /\ <<"Succeed", "Succeeded">>[1] = "Succeed" /\ <<"Succeed", "Succeeded">>[2] = "Succeeded"
          /\ <<"Fail", "Failed">>[1] = "Fail" /\ <<"Fail", "Failed">>[2] = "Failed"
      OBVIOUS
    <3>3. end[1] # "Start" /\ end[2] \in {"Succeeded", "Failed"}
      BY <3>2
    <3>4. childResult'[i].status \in {"Succeeded", "Failed"}
      BY <1>a, <3>1, <3>3
    <3>5. CASE queue' = Append(queue, [op |-> i, action |-> end[1]])
      <4>1. ~Released(i)'
        BY <1>a, <3>5, ReleasedLater DEF Released
      <4>2. \A k \in DOMAIN queue' : ~(queue'[k].op = i /\ queue'[k].action = "Start")
        BY <1>a, <2>0, <2>4, <3>3, <3>5, Pushed DEF ChildCompletes
      <4> QED
        BY <3>4, <4>1, <4>2
    <3>6. CASE queue' = queue /\ childPc'[i] = "parked"
      BY <2>0, <2>4, <3>6 DEF ChildCompletes
    <3> QED
      BY <1>a, <3>1, <3>5, <3>6 DEF ChildSends
  <2>5. CASE ChildSuspends(i)
    BY <1>a, <2>0, <2>5 DEF ChildSuspends
  <2>6. CASE ChildReturns(i)
    <3>1. childPc[i] = "completing" /\ Released(i) /\ UNCHANGED <<queue, childResult, terminating>>
      BY <2>6 DEF ChildReturns
    <3> QED
      BY <1>u, <2>0, <3>1 DEF Branches, Results, Delivered, HasResult, Released
  <2>7. CASE AbortTakesEffect(i)
    BY <1>a, <2>7 DEF AbortTakesEffect
  <2> QED
    BY <2>1, <2>2, <2>3, <2>4, <2>5, <2>6, <2>7 DEF ChildAction
<1>1. JoinedStarted'
  BY <1>u DEF Branches, JoinedStarted
<1>2. Results'
  BY <1>s, <1>u DEF Branches, Results, HasResult
<1>3. Starting'
  <2> SUFFICES ASSUME NEW k \in DOMAIN queue', queue'[k].op # Batch, queue'[k].action = "Start"
               PROVE  childPc'[queue'[k].op] \in {"starting", "aborted"}
    BY DEF Starting
  <2>1. CASE queue'[k].op = i
    BY <1>s, <2>1
  <2>2. CASE queue'[k].op # i
    <3>1. k \in DOMAIN queue /\ queue'[k] = queue[k]
      <4>1. ASSUME NEW a, queue' = Append(queue, [op |-> i, action |-> a])
            PROVE  k \in DOMAIN queue /\ queue'[k] = queue[k]
        BY <1>a, <2>2, <4>1, Pushed
      <4> QED
        BY <1>q, <4>1
    <3>2. queue[k] \in Update
      BY <1>a, <3>1
    <3>3. queue[k].op \in Item
      BY <3>1, <3>2, UpdateType
    <3> QED
      BY <1>u, <2>2, <3>1, <3>3 DEF Branches, Starting
  <2> QED
    BY <2>1, <2>2
<1>4. Untouched'
  BY <1>a, <1>r, <1>u DEF Branches, Untouched
<1>5. Delivered'
  BY <1>r, <1>s, <1>u DEF Branches, Delivered, HasResult
<1>6. Fresh'
  <2>1. pc \notin {"down", "replay"}
    BY <1>u, <1>a DEF Tasks
  <2> QED
    BY <1>u, <2>1 DEF Fresh
<1> QED
  BY <1>1, <1>2, <1>3, <1>4, <1>5, <1>6 DEF Branches

LEMMA BranchesBatch ==
  ASSUME IInv, Branches, BatchAction
  PROVE  Branches'
<1>a. /\ Types /\ queue \in Seq(Update) /\ Tasks /\ started \in Nat /\ joined \subseteq Item
      /\ finished \in Seq(Item) /\ terminating \in BOOLEAN
      /\ childPc \in [Item -> {"none", "spawned", "starting", "body", "completing",
                               "finished", "aborted", "parked"}]
  BY Facts DEF IInv
<1>i. \A i \in Item : i # Batch /\ i \in Nat /\ i >= 1
  BY UpdateType DEF Item
<1>1. CASE Panic
  BY <1>a, <1>1, BranchesDown DEF Panic
<1>2. CASE ~Panic
  <2>u. UNCHANGED <<record, childRecord, snapshot, childResult, terminating>>
    BY <1>2 DEF BatchAction, StartBatch, StartReturns, Resume, ReturnRecorded, Rebuild, Spawn,
       JoinNext, Complete, CompleteEmpty, CompleteMapOfNothing, BatchReturns,
       NextOperationRecorded, serviceVars, childVars
  <2>p. pc # "down" /\ pc' # "down" /\ pc' # "replay"
    BY <1>2 DEF BatchAction, StartBatch, StartReturns, Resume, ReturnRecorded, Rebuild, Spawn,
       JoinNext, Complete, CompleteEmpty, CompleteMapOfNothing, BatchReturns,
       NextOperationRecorded, NothingToJoin, BatchSends
  <2>q. \/ queue' = queue
        \/ \E a \in {"Start", "Succeed"} : queue' = Append(queue, [op |-> Batch, action |-> a])
    BY <1>2 DEF BatchAction, StartBatch, StartReturns, Resume, ReturnRecorded, Rebuild, Spawn,
       JoinNext, Complete, CompleteEmpty, CompleteMapOfNothing, BatchReturns,
       NextOperationRecorded, BatchSends
  <2>r. \A i \in Item : Released(i)' <=> Released(i)
    <3> SUFFICES ASSUME NEW i \in Item PROVE Released(i)' <=> Released(i)
      OBVIOUS
    <3>1. ASSUME NEW a, queue' = Append(queue, [op |-> Batch, action |-> a])
          PROVE  Released(i)' <=> Released(i)
      <4> DEFINE u == [op |-> Batch, action |-> a]
      <4>1. u.op # i
        BY <1>i
      <4> HIDE DEF u
      <4>2. CASE Released(i)
        BY <1>a, <3>1, <4>1, <4>2, ReleasedLater DEF Released, u
      <4>3. CASE ~Released(i)
        <5>1. \E k \in DOMAIN queue : queue[k].op = i
          BY <4>3 DEF Released
        <5>2. \E k \in DOMAIN Append(queue, u) : Append(queue, u)[k].op = i
          BY <1>a, <5>1, ReleasedLater
        <5> QED
          BY <3>1, <4>3, <5>2 DEF Released, u
      <4> QED
        BY <4>2, <4>3
    <3> QED
      BY <2>q, <3>1 DEF Released
  <2>s. \A k \in DOMAIN queue' : queue'[k].op # Batch =>
          k \in DOMAIN queue /\ queue'[k] = queue[k] /\ queue[k].op \in Item
    <3>1. \A k \in DOMAIN queue : queue[k].op # Batch => queue[k].op \in Item
      BY <1>a, UpdateType
    <3>2. ASSUME NEW a, queue' = Append(queue, [op |-> Batch, action |-> a])
          PROVE  \A k \in DOMAIN queue' : queue'[k].op # Batch =>
                   k \in DOMAIN queue /\ queue'[k] = queue[k]
      BY <1>a, <3>2, Pushed
    <3> QED
      BY <2>q, <3>1, <3>2
  \* A branch is spawned, or aborted.
  <2>c. /\ \A i \in Item : \/ childPc'[i] = childPc[i]
                           \/ childPc[i] = "none" /\ childPc'[i] = "spawned"
                           \/ childPc[i] # "finished" /\ childPc'[i] = "aborted"
        /\ joined' \subseteq 1..started'
    <3>1. CASE Spawn
      <4>1. /\ started' \in Nat /\ started <= started' /\ joined' = joined
            /\ childPc' = [i \in Item |-> IF i \in started + 1..started' THEN "spawned"
                                          ELSE childPc[i]]
        BY <1>a, <3>1, SpawnType
      <4>2. \A i \in Item : i \in started + 1..started' => childPc[i] = "none"
        BY <1>a, <1>i, <4>1 DEF Tasks
      <4> QED
        BY <1>a, <4>1, <4>2 DEF Branches, JoinedStarted
    <3>2. CASE JoinNext \/ Complete
      <4>1. /\ finished # <<>> /\ joined' = joined \cup {Head(finished)} /\ started' = started
        BY <3>2 DEF JoinNext, Complete
      <4>2. Head(finished) \in Item /\ childPc[Head(finished)] = "finished"
        BY <1>a, <4>1, Popped DEF Tasks
      <4>3. Head(finished) \in 1..started
        <5> DEFINE h == Head(finished)
        <5>1. h \in Nat /\ h >= 1
          BY <1>i, <4>2
        <5>2. ~(h > started)
          <6>1. \A i \in Item : i > started => childPc[i] = "none"
            BY <1>a DEF Tasks
          <6> HIDE DEF h
          <6>2. h \in Item /\ childPc[h] = "finished"
            BY <4>2 DEF h
          <6> QED
            BY <6>1, <6>2
        <5> HIDE DEF h
        <5>3. h \in 1..started
          BY <1>a, <5>1, <5>2
        <5> QED
          BY <5>3 DEF h
      <4>4. \A i \in Item : \/ childPc'[i] = childPc[i]
                            \/ childPc[i] # "finished" /\ childPc'[i] = "aborted"
        BY <1>a, <3>2 DEF JoinNext, Complete, AbortAll, childVars
      <4> QED
        BY <4>1, <4>3, <4>4 DEF Branches, JoinedStarted
    <3>3. CASE ~Spawn /\ ~JoinNext /\ ~Complete
      <4>1. UNCHANGED <<childPc, joined, started>>
        BY <1>2, <3>3 DEF BatchAction, StartBatch, StartReturns, Resume, ReturnRecorded, Rebuild,
           CompleteEmpty, CompleteMapOfNothing, BatchReturns, NextOperationRecorded, childVars,
           joinVars
      <4> QED
        BY <4>1 DEF Branches, JoinedStarted
    <3> QED
      BY <3>1, <3>2, <3>3
  <2>1. Results'
    BY <2>c, <2>u DEF Branches, Results, HasResult
  <2>2. Starting'
    <3> SUFFICES ASSUME NEW k \in DOMAIN queue', queue'[k].op # Batch, queue'[k].action = "Start"
                 PROVE  childPc'[queue'[k].op] \in {"starting", "aborted"}
      BY DEF Starting
    <3>1. childPc[queue[k].op] \in {"starting", "aborted"}
      BY <2>s DEF Branches, Starting
    <3> QED
      BY <2>c, <2>s, <3>1
  <2>3. Untouched'
    BY <2>c, <2>p, <2>r, <2>u DEF Branches, Untouched
  <2>4. Delivered'
    BY <2>c, <2>r, <2>u DEF Branches, Delivered, HasResult
  <2>5. Fresh'
    BY <2>p DEF Fresh
  <2> QED
    BY <2>1, <2>2, <2>3, <2>4, <2>5, <2>c DEF Branches, JoinedStarted
<1> QED
  BY <1>1, <1>2

LEMMA BranchesStep ==
  ASSUME IInv, Branches, [Next]_vars
  PROVE  Branches'
<1>1. CASE Next
  BY <1>1, BranchesBatch, BranchesChild, BranchesEnvironment DEF Next
<1>2. CASE UNCHANGED vars
  BY <1>2 DEF vars, callVars, serviceVars, joinVars, childVars, historyVars, Branches,
     JoinedStarted, Results, HasResult, Starting, Untouched, Released, Delivered, Fresh
<1> QED
  BY <1>1, <1>2

-----------------------------------------------------------------------------
\* The loop goes on only while its batch is not over, so it waits for a branch unless
\* none was ever wanted.
Progress ==
  /\ pc \in {"down", "replay", "starting"} => started = 0
  /\ pc = "loop" => started = 0 \/ ~IsOver(joined)
  /\ pc = "joining" /\ joined = 1..started => started = 0

\* What the joined branches say does not change under the batch.
LEMMA SameResults ==
  ASSUME UNCHANGED <<joined, started, config, items>>,
         \A i \in joined : childResult'[i] = childResult[i],
         joined \subseteq Item
  PROVE  /\ IsOver(joined)' <=> IsOver(joined)
         /\ ResultOf(joined)' = ResultOf(joined)
<1>1. \A status : Having(status, joined, childResult)' = Having(status, joined, childResult)
  BY DEF Having
<1>2. /\ Failures(joined)' = Failures(joined)
      /\ Successes(joined)' = Successes(joined)
  BY <1>1 DEF Failures, Successes
<1>3. [i \in Item |-> IF i \in joined THEN childResult[i]
                      ELSE IF i <= started THEN [status |-> "Started", run |-> 0]
                      ELSE NoResult]'
      = [i \in Item |-> IF i \in joined THEN childResult[i]
                        ELSE IF i <= started THEN [status |-> "Started", run |-> 0]
                        ELSE NoResult]
  OBVIOUS
<1>4. IsOver(joined)' <=> IsOver(joined)
  BY <1>2 DEF IsOver, MinReached, ShouldContinue, HasCriteria
<1>5. CompletionReason(Failures(joined), Successes(joined), Cardinality(joined), items, config)'
      = CompletionReason(Failures(joined), Successes(joined), Cardinality(joined), items, config)
  BY <1>2 DEF CompletionReason, MinReached, ShouldContinue, HasCriteria
<1> QED
  BY <1>1, <1>3, <1>4, <1>5 DEF ResultOf

LEMMA SpawnProgress ==
  ASSUME IInv, JoinedStarted, Progress, Spawn
  PROVE  Progress'
<1>a. /\ Types /\ started \in Nat /\ started <= items /\ items \in Nat /\ joined \subseteq Item
      /\ config.maxConcurrency \in Nat /\ config.maxConcurrency >= 1
  BY Facts DEF IInv
<1>1. /\ started' \in Nat /\ started <= started' /\ joined' = joined /\ pc = "loop"
      /\ pc' = "joining"
  BY <1>a, SpawnType DEF Spawn
<1> SUFFICES ASSUME joined = 1..started', started' # 0 PROVE FALSE
  BY <1>1 DEF Progress
<1>2. started' \in joined
  BY <1>1
<1>3. started' = started
  BY <1>a, <1>1, <1>2 DEF JoinedStarted
<1>4. ~IsOver(joined)
  BY <1>1, <1>3 DEF Progress
<1>5. Cardinality(joined) = started
  BY <1>a, <1>3, IntervalCardinality
<1>6. /\ ShouldContinue(Failures(joined), items, config)
      /\ ~MinReached(Successes(joined), config) /\ started # items
  BY <1>4, <1>5 DEF IsOver
<1>7. Room = config.maxConcurrency
  <2>1. 1..started \ joined = {}
    BY <1>3
  <2>2. Cardinality(1..started \ joined) = 0
    BY <2>1, FS_EmptySet
  <2> QED
    BY <1>a, <2>2 DEF Room
<1> DEFINE left == items - started
           more == IF Room < left THEN Room ELSE left
<1>8. more > 0 /\ more \in Nat
  BY <1>a, <1>6, <1>7
<1>9. started' = started + more
  BY <1>6 DEF Spawn
<1> HIDE DEF more
<1> QED
  BY <1>a, <1>3, <1>8, <1>9

LEMMA ProgressStep ==
  ASSUME IInv, Branches, Progress, [Next]_vars
  PROVE  Progress'
<1>a. Types /\ Tasks /\ joined \subseteq Item /\ JoinedStarted
  BY Facts DEF IInv, Branches
\* While the batch keeps its place and its branches.
<1>s. ASSUME UNCHANGED <<pc, joined, started, config, items>>,
             \A i \in joined : childResult'[i] = childResult[i]
      PROVE  Progress'
  BY <1>a, <1>s, SameResults DEF Progress
<1>1. CASE UNCHANGED vars
  BY <1>1, <1>s DEF vars, callVars, joinVars, childVars
<1>2. ASSUME NEW i \in Item, ChildAction(i)
      PROVE  Progress'
  <2>1. UNCHANGED <<pc, joined, started, config, items>> /\ childPc[i] # "finished"
    BY <1>2 DEF ChildAction, ChildReplays, ChildStarts, ChildRuns, ChildCompletes, ChildSuspends,
       ChildReturns, AbortTakesEffect, joinVars, callVars
  <2>2. i \notin joined
    BY <1>a, <2>1 DEF Tasks
  <2>3. \A j \in joined : childResult'[j] = childResult[j]
    BY <1>2, <1>a, <2>2, Facts DEF ChildAction, ChildReplays, ChildStarts, ChildRuns,
       ChildCompletes, ChildSuspends, ChildReturns, AbortTakesEffect
  <2> QED
    BY <1>s, <2>1, <2>3
<1>3. CASE RecordUpdate \/ BatchOfUpdatesFails \/ NextOperationRecorded
  BY <1>3, <1>s DEF RecordUpdate, BatchOfUpdatesFails, NextOperationRecorded, callVars, joinVars,
     childVars
<1>4. CASE Invoke
  BY <1>4 DEF Invoke, Progress, joinVars
<1>5. CASE Crash \/ InvocationEnds \/ Panic
  <2>1. pc' = "down" /\ started' = 0
    BY <1>5, <1>a, DownType DEF Crash, InvocationEnds, Panic
  <2> QED
    BY <2>1 DEF Progress
<1>6. CASE StartBatch \/ StartReturns \/ Resume \/ ReturnRecorded \/ Rebuild
  <2>1. /\ pc \in {"replay", "starting"} /\ started' = started
        /\ pc' \in {"starting", "loop", "parked", "returned"}
    BY <1>6 DEF StartBatch, StartReturns, Resume, ReturnRecorded, Rebuild, BatchSends, joinVars
  <2> QED
    BY <2>1 DEF Progress
<1>7. CASE Complete \/ CompleteEmpty \/ CompleteMapOfNothing \/ BatchReturns
  <2>1. pc' \in {"completing", "parked", "returned"}
    BY <1>7 DEF Complete, CompleteEmpty, CompleteMapOfNothing, BatchReturns, BatchSends
  <2> QED
    BY <2>1 DEF Progress
<1>8. CASE Spawn
  BY <1>8, <1>a, SpawnProgress
<1>9. CASE JoinNext
  <2>1. ~IsOver(joined') /\ pc' = "loop" /\ UNCHANGED <<config, items, childResult>>
    BY <1>9 DEF JoinNext, callVars, childVars
  <2>2. ~IsOver(joined)'
    BY <2>1 DEF IsOver, MinReached, ShouldContinue, HasCriteria, Successes, Failures, Having
  <2> QED
    BY <2>1, <2>2 DEF Progress
<1> QED
  BY <1>1, <1>2, <1>3, <1>4, <1>5, <1>6, <1>7, <1>8, <1>9
     DEF Next, BatchAction, EnvironmentAction

-----------------------------------------------------------------------------
\* What the batch returns is what it has joined, and its completion is on its way or
\* recorded, unless the invocation is ending.
Completing ==
  /\ pc = "completing" =>
       /\ Loose \/ Quiet
       /\ outcome = ResultOf(joined)
       /\ aborted \/ joined = 1..started
       /\ \/ terminating
          \/ record.status = "Succeeded"
          \/ \E k \in DOMAIN queue : IsCompletion(queue[k])
  /\ \A k \in DOMAIN queue : IsCompletion(queue[k]) => ~terminating \/ Loose

\* Where the batch decides what it returns, it does so of all branches it joined.
LEMMA CompletionBegins ==
  ASSUME IInv, Branches, Progress, Complete \/ CompleteEmpty \/ CompleteMapOfNothing
  PROVE  /\ outcome' = ResultOf(joined)' /\ (Loose' \/ Quiet')
         /\ aborted' \/ joined' = 1..started'
         /\ \/ pc' = "parked" /\ queue' = queue
            \/ /\ pc' = "completing" /\ queue' = Append(queue, [op |-> Batch, action |-> "Succeed"])
               /\ ~terminating'
<1>r. Preemptive' = Preemptive
  BY RuntimeStays DEF Next, BatchAction
<1>a. /\ Types /\ Tasks /\ joined \subseteq 1..started /\ joined \subseteq Item
      /\ started \in Nat /\ started <= items /\ finished \in Seq(Item)
      /\ \A i \in Item : i \in 1..started \/ i > started
      /\ \A i \in Item : i > started => childPc[i] = "none"
  <2>1. \A i \in Item : i \in Nat /\ i >= 1
    BY DEF Item
  <2> QED
    BY <2>1, Facts DEF IInv, Tasks, Branches, JoinedStarted
<1>1. /\ \/ pc' = "parked" /\ queue' = queue
         \/ /\ pc' = "completing" /\ queue' = Append(queue, [op |-> Batch, action |-> "Succeed"])
            /\ ~terminating'
      /\ UNCHANGED <<started, config, items, childResult>>
  BY DEF Complete, CompleteEmpty, CompleteMapOfNothing, BatchSends, callVars, joinVars, childVars
<1>2. CASE Complete
  <2>1. /\ finished # <<>> /\ joined' = joined \cup {Head(finished)}
        /\ outcome' = ResultOf(joined')
        /\ \A i \in Item :
             childPc'[i] = IF /\ ~Preemptive /\ i \in 1..started \ joined'
                              /\ childPc[i] # "finished"
                           THEN "aborted"
                           ELSE childPc[i]
        /\ aborted' = (aborted \/ 1..started \ joined' # {})
    BY <1>2 DEF Complete, AbortAll
  <2>2. Head(finished) \in Item /\ childPc[Head(finished)] = "finished"
    BY <1>a, <2>1, Popped DEF Tasks
  <2>3. joined' \subseteq 1..started /\ joined' \subseteq Item
    BY <1>a, <2>1, <2>2
  <2>4. \A j \in joined' : childPc[j] = "finished"
    BY <1>a, <2>1, <2>2 DEF Tasks
  <2>5. Loose' \/ Quiet'
    <3>1. CASE Preemptive /\ 1..started \ joined' # {}
      BY <1>r, <2>1, <3>1 DEF Loose
    <3>2. CASE ~(Preemptive /\ 1..started \ joined' # {})
      BY <1>a, <2>1, <2>4, <3>2 DEF Quiet
    <3> QED
      BY <3>1, <3>2
  <2>6. ResultOf(joined)' = ResultOf(joined')
    BY <1>1 DEF ResultOf, Having, Successes, Failures, CompletionReason, MinReached,
       ShouldContinue, HasCriteria
  <2> QED
    BY <1>1, <2>1, <2>3, <2>5, <2>6
<1>3. CASE CompleteEmpty \/ CompleteMapOfNothing
  <2>1. started = 0
    BY <1>3, <1>a DEF CompleteEmpty, NothingToJoin, CompleteMapOfNothing, IsMapOfNothing, Progress
  <2>2. joined = {} /\ 1..started = {}
    BY <1>a, <2>1
  <2>3. UNCHANGED <<joined, childPc>> /\ outcome' = ResultOf({})
    BY <1>3 DEF CompleteEmpty, CompleteMapOfNothing, joinVars, childVars
  <2>4. ResultOf(joined)' = ResultOf(joined)
    BY <1>1, <1>a, <2>3, SameResults
  <2>5. Quiet'
    BY <1>a, <2>1, <2>3 DEF Quiet
  <2> QED
    BY <1>1, <2>2, <2>3, <2>4, <2>5
<1> QED
  BY <1>2, <1>3

LEMMA CompletionRecorded ==
  ASSUME Types, queue # <<>>, Apply(Head(queue)), IsCompletion(Head(queue))
  PROVE  record' = [status |-> "Succeeded", result |-> Payload] /\ childRecord' = childRecord
BY DEF IsCompletion, Apply

LEMMA CompletingStep ==
  ASSUME IInv, Branches, Progress, Completing, [Next]_vars
  PROVE  Completing'
<1>r. Preemptive' = Preemptive
  BY RuntimeStays
<1>a. /\ Types /\ Tasks /\ Order /\ Final /\ queue \in Seq(Update) /\ joined \subseteq Item
      /\ terminating \in BOOLEAN
  BY Facts DEF IInv
<1>e. DOMAIN <<>> = {}
  OBVIOUS
\* While the batch keeps its place.
<1>s. ASSUME UNCHANGED <<pc, joined, started, config, items, childPc, childResult, outcome, aborted>>
      PROVE  pc' = "completing" =>
               /\ Loose' \/ Quiet'
               /\ outcome' = ResultOf(joined)' /\ (aborted' \/ joined' = 1..started')
  BY <1>r, <1>a, <1>s, SameResults DEF Completing, Quiet, Loose
<1>1. CASE UNCHANGED vars
  <2>1. UNCHANGED <<pc, joined, started, config, items, childPc, childResult, outcome, aborted,
                    queue, record, terminating>>
    BY <1>1 DEF vars, callVars, serviceVars, joinVars, childVars, historyVars
  <2> QED
    BY <1>r, <1>s, <2>1 DEF Completing, IsCompletion, Loose
<1>2. ASSUME NEW i \in Item, ChildAction(i)
      PROVE  Completing'
  <2>1. /\ ~Quiet /\ UNCHANGED <<pc, joined, started, config, items, outcome, aborted, record>>
        /\ childPc[i] # "finished" /\ (terminating => terminating')
    BY <1>a, <1>2 DEF ChildAction, ChildReplays, ChildStarts, ChildRuns, ChildCompletes,
       ChildSuspends, ChildReturns, AbortTakesEffect, Quiet, joinVars, callVars, historyVars,
       serviceVars
  <2>2. \/ queue' = queue
        \/ \E a \in {"Start", "Succeed", "Fail"} : queue' = Append(queue, [op |-> i, action |-> a])
    BY <1>2 DEF ChildAction, ChildReplays, ChildStarts, ChildRuns, ChildCompletes, ChildSuspends,
       ChildReturns, AbortTakesEffect, ChildSends
  <2>3. ASSUME NEW k \in DOMAIN queue', IsCompletion(queue'[k])
        PROVE  Loose'
    <3>1. k \in DOMAIN queue /\ queue'[k] = queue[k]
      <4>1. ASSUME NEW a, queue' = Append(queue, [op |-> i, action |-> a])
            PROVE  k \in DOMAIN queue /\ queue'[k] = queue[k]
        <5>1. ~IsCompletion([op |-> i, action |-> a])
          BY UpdateType DEF IsCompletion
        <5> QED
          BY <1>a, <2>3, <4>1, <5>1, Pushed
      <4> QED
        BY <2>2, <2>3, <4>1
    <3> QED
      BY <1>r, <1>a, <2>1, <2>3, <3>1 DEF Order, Loose
  <2>4. ASSUME NEW k \in DOMAIN queue, IsCompletion(queue[k])
        PROVE  \E j \in DOMAIN queue' : IsCompletion(queue'[j])
    <3>1. ASSUME NEW a, queue' = Append(queue, [op |-> i, action |-> a])
          PROVE  k \in DOMAIN queue' /\ queue'[k] = queue[k]
      BY <1>a, <3>1
    <3> QED
      BY <2>2, <2>4, <3>1
  <2>5. \A j \in joined : childResult'[j] = childResult[j]
    BY <1>2, <1>a, <2>1, Facts DEF Tasks, ChildAction, ChildReplays, ChildStarts, ChildRuns,
       ChildCompletes, ChildSuspends, ChildReturns, AbortTakesEffect
  <2>6. ResultOf(joined)' = ResultOf(joined)
    BY <1>a, <2>1, <2>5, SameResults
  <2>7. pc = "completing" =>
          /\ Loose /\ outcome = ResultOf(joined) /\ (aborted \/ joined = 1..started)
          /\ \/ terminating
             \/ record.status = "Succeeded"
             \/ \E k \in DOMAIN queue : IsCompletion(queue[k])
    BY <2>1 DEF Completing
  <2>8. pc' = "completing" =>
          /\ Loose' /\ outcome' = ResultOf(joined)' /\ (aborted' \/ joined' = 1..started')
          /\ \/ terminating'
             \/ record'.status = "Succeeded"
             \/ \E k \in DOMAIN queue' : IsCompletion(queue'[k])
    BY <1>r, <2>1, <2>4, <2>6, <2>7 DEF Loose
  <2> QED
    BY <2>3, <2>8 DEF Completing, IsCompletion
<1>3. CASE RecordUpdate
  <2>1. /\ queue # <<>> /\ Apply(Head(queue)) /\ queue' = Tail(queue)
        /\ UNCHANGED <<pc, joined, started, config, items, childPc, childResult, outcome, aborted,
                       terminating>>
    BY <1>3 DEF RecordUpdate, callVars, joinVars, childVars, historyVars
  <2>2. /\ \A k \in DOMAIN queue' : k + 1 \in DOMAIN queue /\ queue'[k] = queue[k + 1]
        /\ Head(queue) = queue[1] /\ 1 \in DOMAIN queue
    BY <1>a, <2>1, Popped
  <2>3. \A k \in DOMAIN queue' : IsCompletion(queue'[k]) => ~terminating' \/ Loose'
    BY <1>r, <2>1, <2>2 DEF Completing, Loose
  <2>4. ASSUME pc' = "completing"
        PROVE  \/ terminating'
               \/ record'.status = "Succeeded"
               \/ \E k \in DOMAIN queue' : IsCompletion(queue'[k])
    <3>1. CASE terminating
      BY <2>1, <3>1
    <3>2. CASE record.status = "Succeeded"
      <4>1. Head(queue).op # Batch
        BY <1>a, <2>2, <3>2 DEF Final
      <4> QED
        BY <2>1, <3>2, <4>1, RecordOfBranch
    <3>3. ASSUME NEW k \in DOMAIN queue, IsCompletion(queue[k])
          PROVE  \/ record'.status = "Succeeded"
                 \/ \E j \in DOMAIN queue' : IsCompletion(queue'[j])
      <4>1. CASE k = 1
        BY <1>a, <2>1, <2>2, <3>3, <4>1, CompletionRecorded
      <4>2. CASE k # 1
        <5>1. k - 1 \in DOMAIN queue' /\ queue'[k - 1] = queue[k]
          BY <1>a, <2>1, <3>3, <4>2
        <5> QED
          BY <3>3, <5>1
      <4> QED
        BY <4>1, <4>2
    <3> QED
      BY <2>1, <2>4, <3>1, <3>2, <3>3 DEF Completing
  <2> QED
    BY <1>s, <2>1, <2>3, <2>4 DEF Completing, IsCompletion
<1>4. CASE BatchOfUpdatesFails
  <2>1. /\ queue' = <<>> /\ terminating' = TRUE
        /\ UNCHANGED <<pc, joined, started, config, items, childPc, childResult, outcome, aborted>>
    BY <1>4 DEF BatchOfUpdatesFails, callVars, joinVars, childVars, historyVars
  <2> QED
    BY <1>e, <1>s, <2>1 DEF Completing
<1>5. CASE Invoke
  <2>1. pc' = "replay" /\ queue' = <<>>
    BY <1>5 DEF Invoke, Branches, Fresh
  <2> QED
    BY <1>e, <2>1 DEF Completing
<1>6. CASE Crash \/ InvocationEnds \/ Panic
  <2>1. pc' = "down" /\ queue' = <<>>
    BY <1>6, <1>a, DownType DEF Crash, InvocationEnds, Panic
  <2> QED
    BY <1>e, <2>1 DEF Completing
<1>7. CASE Complete \/ CompleteEmpty \/ CompleteMapOfNothing
  <2>1. /\ outcome' = ResultOf(joined)' /\ (Loose' \/ Quiet')
        /\ aborted' \/ joined' = 1..started'
        /\ \/ pc' = "parked" /\ queue' = queue
           \/ /\ pc' = "completing" /\ queue' = Append(queue, [op |-> Batch, action |-> "Succeed"])
              /\ ~terminating'
    BY <1>7, CompletionBegins
  <2>2. \A k \in DOMAIN queue : ~IsCompletion(queue[k])
    BY <1>7, <1>a DEF Order, Complete, CompleteEmpty, NothingToJoin, CompleteMapOfNothing
  <2>3. CASE pc' = "parked" /\ queue' = queue
    BY <2>2, <2>3 DEF Completing, IsCompletion
  <2>4. CASE /\ pc' = "completing" /\ ~terminating'
             /\ queue' = Append(queue, [op |-> Batch, action |-> "Succeed"])
    <3>1. /\ Len(queue) + 1 \in DOMAIN queue'
          /\ queue'[Len(queue) + 1] = [op |-> Batch, action |-> "Succeed"]
      BY <1>a, <2>4
    <3>2. IsCompletion(queue'[Len(queue) + 1])
      BY <3>1 DEF IsCompletion
    <3> QED
      BY <2>1, <2>4, <3>1, <3>2 DEF Completing, IsCompletion
  <2> QED
    BY <2>1, <2>3, <2>4
<1>8. CASE StartBatch \/ StartReturns \/ Resume \/ ReturnRecorded \/ Rebuild \/ Spawn \/ JoinNext
           \/ BatchReturns \/ NextOperationRecorded
  <2>1. /\ pc' # "completing" /\ terminating' = terminating
        /\ \/ queue' = queue
           \/ queue' = Append(queue, [op |-> Batch, action |-> "Start"])
    BY <1>8 DEF StartBatch, StartReturns, Resume, ReturnRecorded, Rebuild, Spawn, JoinNext,
       BatchReturns, NextOperationRecorded, BatchSends
  <2>2. ~IsCompletion([op |-> Batch, action |-> "Start"])
    BY DEF IsCompletion
  <2>3. \A k \in DOMAIN queue' : IsCompletion(queue'[k]) => k \in DOMAIN queue /\ queue'[k] = queue[k]
    BY <1>a, <2>1, <2>2, Pushed
  <2>4. aborted' = aborted
    BY <1>8 DEF StartBatch, StartReturns, Resume, ReturnRecorded, Rebuild, Spawn, JoinNext,
       BatchReturns, NextOperationRecorded, historyVars
  <2> QED
    BY <1>r, <2>1, <2>3, <2>4 DEF Completing, IsCompletion, Loose
<1> QED
  BY <1>1, <1>2, <1>3, <1>4, <1>5, <1>6, <1>7, <1>8 DEF Next, BatchAction, EnvironmentAction

-----------------------------------------------------------------------------
\* What any later invocation is given of the batch that is on record.
Lasting ==
  IF output = "large" THEN Rebuilt(childRecord, record.result.ids) ELSE record.result

\* The results that the records can give again.
Repeatable == ~(output = "large" /\ aborted)

Stable ==
  /\ output # "null"
  /\ committed # {} => record.status = "Succeeded"
  /\ record.status = "Succeeded" /\ output # "large" =>
       Cardinality({i \in Item : record.result.all[i] # NoResult}) = record.result.ids
  /\ record.status = "Succeeded" /\ Repeatable =>
       /\ committed \subseteq {Lasting}
       /\ pc = "completing" => outcome = Lasting
       /\ pc = "returned" /\ ~terminating => outcome = Lasting
  /\ pc = "returned" /\ ~terminating => record.status = "Succeeded"

\* A result counts as many items as it took ids.
LEMMA IdsOfResult ==
  ASSUME Types, Tasks, JoinedStarted, Results
  PROVE  Cardinality({i \in Item : ResultOf(joined).all[i] # NoResult}) = ResultOf(joined).ids
<1>1. /\ started \in Nat /\ started <= items /\ items <= MaxItems /\ MaxItems \in Nat
      /\ items \in Nat /\ joined \subseteq Item
  BY Facts
<1>2. \A i \in joined : childResult[i].status \in {"Succeeded", "Failed"}
  BY <1>1 DEF Tasks, Results, HasResult
<1>3. \A i \in joined : childResult[i] # NoResult
  BY <1>2 DEF NoResult
<1>4. [status |-> "Started", run |-> 0] # NoResult
  <2>1. [status |-> "Started", run |-> 0].status # NoResult.status
    BY DEF NoResult
  <2> QED
    BY <2>1
<1>5. \A i \in Item : ResultOf(joined).all[i] # NoResult <=> i \in 1..started
  <2> SUFFICES ASSUME NEW i \in Item
               PROVE  ResultOf(joined).all[i] # NoResult <=> i \in 1..started
    OBVIOUS
  <2>1. ResultOf(joined).all[i] =
          IF i \in joined THEN childResult[i]
          ELSE IF i <= started THEN [status |-> "Started", run |-> 0] ELSE NoResult
    BY DEF ResultOf
  <2>2. i \in 1..started <=> i <= started
    BY <1>1 DEF Item
  <2> QED
    BY <1>3, <1>4, <2>1, <2>2 DEF JoinedStarted
<1>6. {i \in Item : ResultOf(joined).all[i] # NoResult} = 1..started
  BY <1>1, <1>5 DEF Item
<1>7. ResultOf(joined).ids = started
  BY DEF ResultOf
<1> QED
  BY <1>1, <1>6, <1>7, IntervalCardinality

\* If no branch was aborted and each has its outcome on record, the records give the
\* result again, for what it was and why.
LEMMA RebuiltIsResult ==
  ASSUME Types, Tasks, Results, joined = 1..started,
         \A i \in joined : childRecord[i] = childResult[i]
  PROVE  Rebuilt(childRecord, started) = ResultOf(joined)
<1>1. /\ started \in Nat /\ joined \subseteq Item
      /\ \A i \in Item : i <= started <=> i \in joined
  <2>1. \A i \in Item : i \in Nat /\ i >= 1
    BY DEF Item
  <2> QED
    BY <2>1, Facts
<1>2. \A i \in joined : childResult[i].status \in {"Succeeded", "Failed"}
  BY <1>1 DEF Tasks, Results, HasResult
<1>3. \A status : Having(status, 1..started, childRecord) = Having(status, joined, childResult)
  BY DEF Having
<1>4. ~\E i \in 1..started : childRecord[i].status = "None"
  BY <1>2
<1>5. [i \in Item |-> IF i <= started THEN childRecord[i] ELSE NoResult]
      = [i \in Item |-> IF i \in joined THEN childResult[i]
                        ELSE IF i <= started THEN [status |-> "Started", run |-> 0]
                        ELSE NoResult]
  BY <1>1
<1> DEFINE S == Having("Succeeded", joined, childResult)
           F == Having("Failed", joined, childResult)
<1>6. Cardinality(S) + Cardinality(F) = Cardinality(joined)
  <2>1. S \cup F = joined /\ S \cap F = {}
    BY <1>2 DEF Having
  <2>2. IsFiniteSet(joined)
    BY <1>1, IntervalCardinality
  <2>3. IsFiniteSet(S) /\ IsFiniteSet(F)
    BY <2>1, <2>2, FS_Subset
  <2> HIDE DEF S, F
  <2>4. /\ Cardinality(S \cup F) = Cardinality(S) + Cardinality(F) - Cardinality(S \cap F)
        /\ Cardinality(S) \in Nat /\ Cardinality(F) \in Nat
    BY <2>3, FS_Union, FS_CardinalityType
  <2>5. Cardinality(S \cap F) = 0
    BY <2>1, FS_EmptySet
  <2>6. Cardinality(joined) = Cardinality(S \cup F)
    BY <2>1
  <2>7. \A a, b \in Nat : a + b - 0 = a + b
    OBVIOUS
  <2>8. Cardinality(S \cup F) = Cardinality(S) + Cardinality(F) - 0
    BY <2>4, <2>5
  <2> QED
    BY <2>4, <2>6, <2>7, <2>8
<1>7. /\ Successes(joined) = Cardinality(S) /\ Failures(joined) = Cardinality(F)
  BY DEF Successes, Failures
<1> HIDE DEF S, F
<1>8. Rebuilt(childRecord, started) =
        [all |-> [i \in Item |-> IF i <= started THEN childRecord[i] ELSE NoResult],
         values |-> S,
         reason |-> CompletionReason(Cardinality(F), Cardinality(S),
                                     Cardinality(S) + Cardinality(F), items, config),
         ids |-> started]
  BY <1>3, <1>4 DEF Rebuilt, S, F
<1> QED
  BY <1>5, <1>6, <1>7, <1>8 DEF ResultOf, S

\* The completion is recorded: from now on the records give what the batch returns.
LEMMA StableBegins ==
  ASSUME IInv, Branches, Completing, Stable, queue # <<>>, Apply(Head(queue)),
         record.status # "Succeeded", record'.status = "Succeeded",
         UNCHANGED <<callVars, pc, joinVars, childVars, historyVars, outcome>>
  PROVE  /\ pc = "completing" /\ committed = {}
         /\ output # "large" =>
              Cardinality({i \in Item : record'.result.all[i] # NoResult}) = record'.result.ids
         /\ Repeatable => outcome = Lasting'
<1>a. /\ Types /\ Tasks /\ Final /\ queue \in Seq(Update)
      /\ joined \subseteq Item /\ terminating \in BOOLEAN
  BY Facts DEF IInv
<1>1. /\ pc = "completing" /\ IsCompletion(Head(queue))
      /\ Loose \/ Tail(queue) = <<>>
  BY <1>a, FinalRecorded
<1>2. outcome = ResultOf(joined) /\ (aborted \/ joined = 1..started)
  BY <1>1 DEF Completing
<1>3. Head(queue) = queue[1] /\ 1 \in DOMAIN queue /\ Len(Tail(queue)) = Len(queue) - 1
      /\ Len(queue) \in Nat
  BY <1>a, Popped
<1>5. record' = [status |-> "Succeeded", result |-> Payload] /\ childRecord' = childRecord
  BY <1>1, <1>a, CompletionRecorded
<1>6. committed = {}
  BY <1>a DEF Stable
<1>7. ~aborted => \A i \in joined : childRecord[i] = childResult[i]
  <2> SUFFICES ASSUME ~aborted, NEW i \in joined PROVE childRecord[i] = childResult[i]
    OBVIOUS
  <2>1. ~terminating /\ Tail(queue) = <<>>
    BY <1>1, <1>3 DEF Completing, Loose
  <2>2. HasResult(i)
    BY <1>a DEF Tasks, HasResult
  <2>3. Released(i)
    <3>1. Len(queue) = 1
      <4>1. Len(Tail(queue)) = 0
        <5>1. Tail(queue) = <<>>
          BY <2>1
        <5> QED
          BY <5>1, Len(<<>>) = 0
      <4> DEFINE rest == Len(Tail(queue))
                 all == Len(queue)
      <4>2. rest = 0 /\ rest = all - 1 /\ all \in Nat
        BY <1>3, <4>1
      <4>3. all = 1
        <5> HIDE DEF rest, all
        <5> QED
          BY <4>2
      <4> QED
        BY <4>3
    <3>2. DOMAIN queue = {1} /\ queue[1].op = Batch
      BY <1>a, <1>1, <1>3, <3>1 DEF IsCompletion
    <3> QED
      BY <1>a, <3>2, UpdateType DEF Released
  <2> QED
    BY <1>a, <2>1, <2>2, <2>3 DEF Branches, Delivered
<1>9. CASE output # "large"
  <2>1. record'.result = outcome /\ Lasting' = record'.result
    BY <1>5, <1>9 DEF Payload, Lasting, callVars
  <2> QED
    BY <1>1, <1>2, <1>6, <1>a, <2>1, IdsOfResult DEF Branches
<1>10. CASE output = "large"
  <2> SUFFICES ASSUME Repeatable PROVE outcome = Lasting'
    BY <1>1, <1>6, <1>10
  <2>1. joined = 1..started /\ ~aborted
    BY <1>2, <1>10 DEF Repeatable
  <2>2. record'.result.ids = started
    BY <1>2, <1>5, <1>10 DEF Payload, Summary, ResultOf, NoOutcome
  <2>3. Lasting' = Rebuilt(childRecord, started)
    BY <1>5, <1>10, <2>2 DEF Lasting, Rebuilt, callVars, CompletionReason, MinReached,
       ShouldContinue, HasCriteria, Having
  <2> QED
    BY <1>2, <1>7, <1>a, <2>1, <2>3, RebuiltIsResult DEF Branches
<1> QED
  BY <1>9, <1>10

\* As long as the records stay as they are and nothing new is returned or built upon.
LEMMA StableKept ==
  ASSUME Stable, UNCHANGED <<callVars, serviceVars, committed>>, aborted => aborted',
         pc' \in {"completing", "returned"} =>
           pc' = pc /\ outcome' = outcome /\ (terminating => terminating'),
         terminating \in BOOLEAN, terminating' \in BOOLEAN
  PROVE  Stable'
<1>1. Lasting' = Lasting
  <2>1. \A children, total : Rebuilt(children, total)' = Rebuilt(children, total)
    BY DEF Rebuilt, Having, CompletionReason, MinReached, ShouldContinue, HasCriteria, callVars
  <2>2. Rebuilt(childRecord, record.result.ids)' = Rebuilt(childRecord, record.result.ids)
    BY DEF Rebuilt, Having, CompletionReason, MinReached, ShouldContinue, HasCriteria, callVars,
       serviceVars
  <2> QED
    BY <2>2 DEF Lasting, callVars, serviceVars
<1>2. Repeatable' => Repeatable
  BY DEF Repeatable, callVars
<1> QED
  BY <1>1, <1>2 DEF Stable, callVars, serviceVars

LEMMA StableStep ==
  ASSUME IInv, Branches, Progress, Completing, Stable, [Next]_vars, Mode = "Replay"
  PROVE  Stable'
<1>a. /\ Types /\ Types' /\ Tasks /\ Final /\ terminating \in BOOLEAN /\ terminating' \in BOOLEAN
      /\ record \in BatchRecord /\ childRecord \in [Item -> Result]
  <2>1. Types /\ Types'
    BY TypesStep DEF IInv
  <2> QED
    BY <2>1, Facts DEF IInv, Types, BatchTypeOK
<1>1. CASE UNCHANGED vars
  BY <1>1, <1>a, StableKept DEF vars, historyVars
<1>2. ASSUME NEW i \in Item, ChildAction(i)
      PROVE  Stable'
  BY <1>2, <1>a, StableKept DEF ChildAction, ChildReplays, ChildStarts, ChildRuns, ChildCompletes,
     ChildSuspends, ChildReturns, AbortTakesEffect, historyVars
<1>3. CASE RecordUpdate \/ BatchOfUpdatesFails
  <2>1. /\ \/ queue # <<>> /\ Apply(Head(queue))
           \/ UNCHANGED serviceVars /\ BatchOfUpdatesFails
        /\ UNCHANGED <<callVars, pc, joinVars, childVars, historyVars, outcome>>
        /\ terminating => terminating'
    BY <1>3 DEF RecordUpdate, BatchOfUpdatesFails
  <2>2. CASE record.status = "Succeeded"
    <3>1. queue # <<>> /\ queue \in Seq(Update)
      BY <1>3, <1>a, Facts DEF RecordUpdate, BatchOfUpdatesFails
    <3>2. Head(queue).op # Batch /\ aborted
      BY <1>a, <2>2, <3>1, Popped DEF Final, Loose
    <3>3. record' = record
      BY <2>1, <3>2, RecordOfBranch DEF serviceVars
    <3>4. Lasting' = Lasting \/ output = "large"
      BY <2>1, <3>3 DEF Lasting, callVars
    <3> QED
      BY <2>1, <3>2, <3>3, <3>4 DEF Stable, Repeatable, callVars, historyVars
  <2>3. CASE record.status # "Succeeded" /\ record'.status = "Succeeded"
    <3>1. Apply(Head(queue)) /\ queue # <<>>
      BY <1>3, <2>1, <2>3 DEF serviceVars, RecordUpdate, BatchOfUpdatesFails
    <3>2. /\ pc = "completing" /\ committed = {}
          /\ output # "large" =>
               Cardinality({i \in Item : record'.result.all[i] # NoResult}) = record'.result.ids
          /\ Repeatable => outcome = Lasting'
      BY <2>1, <2>3, <3>1, StableBegins
    <3>3. Repeatable' <=> Repeatable
      BY <2>1 DEF Repeatable, callVars, historyVars
    <3> QED
      BY <2>1, <2>3, <3>2, <3>3 DEF Stable, callVars, historyVars
  <2>4. CASE record.status # "Succeeded" /\ record'.status # "Succeeded"
    BY <1>a, <2>1, <2>4 DEF Stable, callVars, historyVars
  <2> QED
    BY <2>2, <2>3, <2>4
<1>4. CASE Invoke
  BY <1>4, <1>a, StableKept DEF Invoke, historyVars
<1>5. CASE Crash \/ InvocationEnds \/ Panic
  <2>1. pc' = "down" /\ UNCHANGED <<callVars, serviceVars, historyVars>>
    BY <1>5, <1>a, DownType DEF Crash, InvocationEnds, Panic
  <2> QED
    BY <1>a, <2>1, StableKept DEF historyVars
<1>6. CASE StartBatch \/ StartReturns \/ Resume \/ Spawn \/ JoinNext
  BY <1>6, <1>a, StableKept DEF StartBatch, StartReturns, Resume, Spawn, JoinNext, BatchSends,
     historyVars
<1>7. CASE Complete \/ CompleteEmpty \/ CompleteMapOfNothing
  <2>1. record.status # "Succeeded"
    BY <1>7, <1>a DEF Final, Complete, CompleteEmpty, NothingToJoin, CompleteMapOfNothing
  <2>2. pc' # "returned" /\ UNCHANGED <<callVars, serviceVars, committed>>
    BY <1>7 DEF Complete, CompleteEmpty, CompleteMapOfNothing, BatchSends, historyVars
  <2> QED
    BY <2>1, <2>2 DEF Stable, callVars, serviceVars
<1>8. CASE BatchReturns
  <2>1. /\ pc = "completing" /\ pc' = "returned" /\ Released(Batch)
        /\ UNCHANGED <<callVars, serviceVars, terminating, committed, aborted, outcome>>
    BY <1>8 DEF BatchReturns, historyVars
  <2>2. ~terminating => record.status = "Succeeded"
    BY <2>1 DEF Completing, Released, IsCompletion
  <2>3. Lasting' = Lasting /\ (Repeatable' <=> Repeatable)
    BY <2>1 DEF Lasting, Repeatable, Rebuilt, Having, CompletionReason, MinReached,
       ShouldContinue, HasCriteria, callVars, serviceVars
  <2> QED
    BY <2>1, <2>2, <2>3 DEF Stable, callVars, serviceVars
<1>9. CASE ReturnRecorded \/ Rebuild
  <2>1. /\ pc = "replay" /\ pc' = "returned" /\ snapshot.batch.status = "Succeeded"
        /\ UNCHANGED <<callVars, serviceVars, terminating, committed, aborted>>
    BY <1>9 DEF ReturnRecorded, Rebuild, IsReplayed, historyVars
  <2>2. snapshot.batch = record /\ record.status = "Succeeded"
    BY <2>1 DEF Branches, Fresh
  <2>3. Lasting' = Lasting /\ (Repeatable' <=> Repeatable)
    BY <2>1 DEF Lasting, Repeatable, Rebuilt, Having, CompletionReason, MinReached,
       ShouldContinue, HasCriteria, callVars, serviceVars
  <2>4. outcome' = Lasting
    <3>1. CASE ReturnRecorded
      <4> DEFINE old == record.result
      <4>1. old \in Outcome
        BY <1>a DEF BatchRecord
      <4>2. outcome' = [old EXCEPT !.ids = Cardinality({i \in Item : old.all[i] # NoResult})]
        <5>1. [old EXCEPT !.values = @,
                          !.ids = Cardinality({i \in Item : old.all[i] # NoResult})]
              = [old EXCEPT !.ids = Cardinality({i \in Item : old.all[i] # NoResult})]
          BY <4>1 DEF Outcome
        <5> QED
          BY <2>2, <3>1, <5>1 DEF ReturnRecorded, Recorded, Stable
      <4>3. old.ids = Cardinality({i \in Item : old.all[i] # NoResult}) /\ Lasting = old
        BY <2>2, <3>1 DEF ReturnRecorded, Stable, Lasting
      <4> HIDE DEF old
      <4>4. [old EXCEPT !.ids = old.ids] = old
        BY <4>1 DEF Outcome
      <4> QED
        BY <4>2, <4>3, <4>4
    <3>2. CASE Rebuild
      <4>1. \A i \in Item : childRecord[i] = snapshot.children[i]
        BY <2>1, <1>a DEF Branches, Untouched, Tasks
      <4>2. childRecord = snapshot.children
        BY <4>1, <1>a, Facts
      <4> QED
        BY <2>2, <3>2, <4>2 DEF Rebuild, Lasting
    <3> QED
      BY <1>9, <3>1, <3>2
  <2> QED
    BY <2>1, <2>2, <2>3, <2>4 DEF Stable, callVars, serviceVars
<1>10. CASE NextOperationRecorded
  <2>1. /\ pc = "returned" /\ ~terminating /\ committed' = committed \cup {outcome}
        /\ UNCHANGED <<callVars, serviceVars, terminating, aborted, pc, outcome>>
    BY <1>10 DEF NextOperationRecorded
  <2>2. Lasting' = Lasting /\ (Repeatable' <=> Repeatable)
    BY <2>1 DEF Lasting, Repeatable, Rebuilt, Having, CompletionReason, MinReached,
       ShouldContinue, HasCriteria, callVars, serviceVars
  <2> QED
    BY <2>1, <2>2 DEF Stable, callVars, serviceVars
<1> QED
  BY <1>1, <1>2, <1>3, <1>4, <1>5, <1>6, <1>7, <1>8, <1>9, <1>10
     DEF Next, BatchAction, EnvironmentAction

\* Every invocation in which the handler goes on past the batch gives it the same result
\* and the same ids for what follows, for any policy, any number of items, any faults and
\* either runtime, so also with aborted branches that run on: when the result was recorded
\* as it is, and when it is made again from the records of branches none of which was
\* aborted (map/replay.rs, parallel/replay.rs).
THEOREM ResultsAreStable ==
  ASSUME Mode = "Replay", "null" \notin Outputs
  PROVE  Spec => []ResultIsStable
<1> DEFINE Inv == Branches /\ Progress /\ Completing /\ Stable
<1>1. Init => Inv
  <2> SUFFICES ASSUME Init PROVE Inv
    OBVIOUS
  <2>1. /\ DOMAIN queue = {} /\ queue = <<>> /\ joined = {} /\ pc = "down" /\ started = 0
        /\ \A i \in Item : childPc[i] = "none"
        /\ committed = {} /\ record.status = "None" /\ output # "null"
    BY DEF Init
  <2> QED
    BY <2>1 DEF Branches, JoinedStarted, Results, HasResult, Starting, Untouched, Delivered, Fresh,
       Progress, Completing, Stable
<1>2. IInv /\ Inv /\ [Next]_vars => Inv'
  BY BranchesStep, ProgressStep, CompletingStep, StableStep
<1>3. Inv => ResultIsStable
  <2> SUFFICES ASSUME Inv, Repeatable, NEW one \in committed, NEW other \in committed
               PROVE  one = other
    BY DEF ResultIsStable, Repeatable
  <2>1. committed \subseteq {Lasting}
    BY DEF Stable
  <2> QED
    BY <2>1
<1> QED
  BY <1>1, <1>2, <1>3, Invariance, PTL DEF Spec
=============================================================================
