--------------------------- MODULE BatchExecution ---------------------------
(***************************************************************************)
(* A map or parallel operation and the child contexts of its branches      *)
(* (src/context/durable_context/map.rs, map/execute.rs, map/replay.rs,     *)
(* parallel.rs, parallel/execute.rs, parallel/replay.rs, child.rs,         *)
(* child/execute.rs, child/replay.rs) across invocations that may be cut   *)
(* off between any two steps.  Branches run in a JoinSet; the batch is     *)
(* over when its policy says so, and it then aborts what is still running. *)
(***************************************************************************)
EXTENDS BatchPolicy, Sequences

CONSTANTS
  Calls,         \* the operations and their configurations
  Outputs,       \* of a branch: "large" if the result of all exceeds
                 \* CHECKPOINT_SIZE_LIMIT_BYTES, "null" if JSON writes it as null
  Mode,          \* what ExecutionContext.mode says when the record is found:
                 \* "Execution" once an unfinished context has been entered
  Runtimes,      \* of tokio: branches of a multi-thread one run on several threads
  MaxFaults      \* bound: the items, the invocations cut off or suspended and
                 \* the batches of updates that fail, together

ASSUME BatchAssumption ==
  /\ Calls \subseteq [kind : {"map", "parallel"}, config : BatchConfig]
  /\ Outputs \subseteq {"small", "large", "null"}
  /\ Mode \in {"Replay", "Execution"}
  /\ Runtimes \subseteq {"current-thread", "multi-thread"}
  /\ MaxFaults \in Nat

VARIABLES
  kind, config, output, items, runtime,  \* the call: fixed over all invocations
  record,        \* the service's record of the batch
  childRecord,   \* the service's records of the branches
  snapshot,      \* both, as the invocation loaded them
  pc,            \* where the batch's task is; "down" between invocations
  childPc,       \* where the branches are
  childResult,   \* what a branch returns, or would return
  finished,      \* JoinSet: branches that returned, in that order
  joined,        \* branches whose result the batch has taken
  started,       \* how many branches were spawned: a prefix of the items
  queue,         \* updates that are not recorded yet
  terminating,
  faults,
  runs,          \* history: how often each branch's function was called
  aborted,       \* history: whether a branch was aborted
  outcome,       \* what the batch returns in this invocation
  committed      \* history: outcomes on which a later operation was recorded

callVars == <<kind, config, output, items, runtime>>
serviceVars == <<record, childRecord>>
joinVars == <<finished, joined, started>>
childVars == <<childPc, childResult>>
historyVars == <<runs, aborted, committed>>
vars == <<callVars, serviceVars, snapshot, pc, joinVars, childVars, queue, terminating,
          faults, historyVars, outcome>>

Preemptive == runtime = "multi-thread"

Item == 1..MaxItems
Status == {"None", "Started", "Succeeded", "Failed"}

\* A branch's result: its status and the run that gave it.
Result == [status : Status, run : Nat]
NoResult == [status |-> "None", run |-> 0]

\* A BatchResult, the items of which it gives a value (BatchResult::values), and
\* how many operation ids of the context it took.
Reasons == {"AllCompleted", "MinSuccessfulReached", "FailureToleranceExceeded"}
Outcome ==
  [all : [Item -> Result], values : SUBSET Item,
   reason : Reasons \cup {"ReplayValidationFailed"}, ids : 0..MaxItems]
NoOutcome ==
  [all |-> [i \in Item |-> NoResult], values |-> {}, reason |-> "AllCompleted", ids |-> 0]

Batch == 0
Update ==
  [op : {Batch}, action : {"Start", "Succeed"}]
    \cup [op : Item, action : {"Start", "Succeed", "Fail"}]

BatchRecord == [status : {"None", "Started", "Succeeded"}, result : Outcome]

BatchTypeOK ==
  /\ record \in BatchRecord
  /\ childRecord \in [Item -> Result]
  /\ snapshot \in [batch : BatchRecord, children : [Item -> Result]]
  /\ pc \in {"down", "replay", "starting", "loop", "joining", "completing", "returned",
             "parked"}
  /\ childPc \in [Item -> {"none", "spawned", "starting", "body", "completing",
                           "finished", "aborted", "parked"}]
  /\ childResult \in [Item -> Result]
  /\ finished \in Seq(Item)
  /\ joined \subseteq Item
  /\ started \in 0..items
  /\ queue \in Seq(Update)
  /\ terminating \in BOOLEAN
  /\ runs \in [Item -> Nat]
  /\ outcome \in Outcome
  /\ committed \subseteq Outcome
  \* max_concurrency
  /\ Cardinality(1..started \ joined) <= config.maxConcurrency

Init ==
  /\ \E call \in Calls : kind = call.kind /\ config = call.config
  /\ output \in Outputs
  /\ items \in {n \in 0..MaxItems : IsValid(config, n)}
  /\ runtime \in Runtimes
  /\ record = [status |-> "None", result |-> NoOutcome]
  /\ childRecord = [i \in Item |-> NoResult]
  /\ snapshot = [batch |-> record, children |-> childRecord]
  /\ pc = "down"
  /\ childPc = [i \in Item |-> "none"]
  /\ childResult = [i \in Item |-> NoResult]
  /\ finished = <<>>
  /\ joined = {}
  /\ started = 0
  /\ queue = <<>>
  /\ terminating = FALSE
  /\ faults = 0
  /\ runs = [i \in Item |-> 0]
  /\ aborted = FALSE
  /\ outcome = NoOutcome
  /\ committed = {}
-----------------------------------------------------------------------------
(***************************************************************************)
(* The service, and the invocations.                              *)
(***************************************************************************)

\* map_summary_payload, parallel_summary_payload: of the counts, a later invocation
\* reads only the total.
Summary == [NoOutcome EXCEPT !.ids = outcome.ids]

\* What a SUCCEED of the batch records: the result, or a summary and replay_children.
Payload == IF output = "large" THEN Summary ELSE outcome

Apply(u) ==
  CASE u.op = Batch /\ u.action = "Start" ->
         /\ record' = [record EXCEPT !.status = "Started"]
         /\ UNCHANGED childRecord
    [] u.op = Batch /\ u.action = "Succeed" ->
         /\ record' = [status |-> "Succeeded", result |-> Payload]
         /\ UNCHANGED childRecord
    [] u.op # Batch /\ u.action = "Start" ->
         /\ childRecord' = [childRecord EXCEPT ![u.op].status = "Started"]
         /\ UNCHANGED record
    [] u.op # Batch /\ u.action # "Start" ->
         /\ childRecord' = [childRecord EXCEPT ![u.op] = childResult[u.op]]
         /\ UNCHANGED record

\* Updates are recorded in the order in which they were accepted (DurableLog).
RecordUpdate ==
  /\ queue # <<>>
  /\ Apply(Head(queue))
  /\ queue' = Tail(queue)
  /\ UNCHANGED <<callVars, snapshot, pc, joinVars, childVars, terminating, faults,
                 historyVars, outcome>>

\* One more fault, within the bound.
Fault ==
  /\ items + faults < MaxFaults
  /\ faults' = faults + 1

\* Callers are released, the queue is dropped, the invocation terminates; the
\* service may have recorded the first update all the same.
BatchOfUpdatesFails ==
  /\ queue # <<>>
  /\ Fault
  /\ Apply(Head(queue)) \/ UNCHANGED serviceVars
  /\ queue' = <<>>
  /\ terminating' = TRUE
  /\ UNCHANGED <<callVars, snapshot, pc, joinVars, childVars, historyVars,
                 outcome>>

\* The invocation is over, and what its tasks knew is gone.
Down ==
  /\ pc' = "down"
  /\ queue' = <<>>
  /\ snapshot' = [batch |-> [status |-> "None", result |-> NoOutcome],
                  children |-> [i \in Item |-> NoResult]]
  /\ childPc' = [i \in Item |-> "none"]
  /\ childResult' = [i \in Item |-> NoResult]
  /\ finished' = <<>>
  /\ joined' = {}
  /\ started' = 0
  /\ outcome' = NoOutcome

Invoke ==
  /\ pc = "down"
  /\ pc' = "replay"
  /\ snapshot' = [batch |-> record, children |-> childRecord]
  /\ terminating' = FALSE
  /\ UNCHANGED <<callVars, serviceVars, joinVars, childVars, queue, faults, historyVars,
                 outcome>>

Crash ==
  /\ pc # "down"
  /\ Fault
  /\ Down
  /\ UNCHANGED <<callVars, serviceVars, terminating, historyVars>>

InvocationEnds ==
  /\ pc = "returned" \/ (pc # "down" /\ terminating)
  /\ queue = <<>>
  /\ Down
  /\ UNCHANGED <<callVars, serviceVars, terminating, faults, historyVars>>

EnvironmentAction ==
  \/ RecordUpdate
  \/ BatchOfUpdatesFails
  \/ Invoke
  \/ Crash
  \/ InvocationEnds

-----------------------------------------------------------------------------
(***************************************************************************)
(* A branch: run_in_child_context_with_ids in a task of its own.           *)
(***************************************************************************)

\* checkpoint() returns when its update was sent, recorded or not.
Released(op) == \A k \in DOMAIN queue : queue[k].op # op

\* has_finished_ancestor: the parent of a branch is the batch, of which the manager knows
\* what the invocation loaded and what it has recorded since.
HasFinishedAncestor == record.status = "Succeeded"

\* A running branch may have looked for ancestors before its batch was recorded.
LookedBefore == Preemptive /\ snapshot.batch.status # "Succeeded"

\* The call of checkpoint() of a branch, which a terminating manager parks.
ChildSends(i, action, next) ==
  \/ /\ terminating \/ HasFinishedAncestor
     /\ childPc' = [childPc EXCEPT ![i] = "parked"]
     /\ UNCHANGED queue
  \/ /\ ~terminating
     /\ ~HasFinishedAncestor \/ LookedBefore
     /\ childPc' = [childPc EXCEPT ![i] = next]
     /\ queue' = Append(queue, [op |-> i, action |-> action])

\* evaluate_replay gives what is recorded.
ChildReplays(i) ==
  /\ childPc[i] = "spawned"
  /\ snapshot.children[i].status \in {"Succeeded", "Failed"}
  /\ childResult' = [childResult EXCEPT ![i] = snapshot.children[i]]
  /\ childPc' = [childPc EXCEPT ![i] = "finished"]
  /\ finished' = Append(finished, i)
  /\ UNCHANGED <<callVars, serviceVars, snapshot, pc, joined, started, queue, terminating,
                 faults, historyVars, outcome>>

ChildStarts(i) ==
  /\ childPc[i] = "spawned"
  /\ snapshot.children[i].status = "None"
  /\ ChildSends(i, "Start", "starting")
  /\ UNCHANGED <<callVars, serviceVars, snapshot, pc, joinVars, childResult, terminating,
                 faults, historyVars, outcome>>

\* The branch's function is called.
ChildRuns(i) ==
  /\ \/ childPc[i] = "spawned" /\ snapshot.children[i].status = "Started"
     \/ childPc[i] = "starting" /\ Released(i)
  /\ childPc' = [childPc EXCEPT ![i] = "body"]
  /\ runs' = [runs EXCEPT ![i] = @ + 1]
  /\ UNCHANGED <<callVars, serviceVars, snapshot, pc, joinVars, childResult, queue,
                 terminating, faults, aborted, committed, outcome>>

\* The function returns; what it gives may differ from run to run.
ChildCompletes(i) ==
  /\ childPc[i] = "body"
  /\ \E end \in {<<"Succeed", "Succeeded">>, <<"Fail", "Failed">>} :
       /\ ChildSends(i, end[1], "completing")
       /\ childResult' = [childResult EXCEPT ![i] = [status |-> end[2], run |-> runs[i]]]
  /\ UNCHANGED <<callVars, serviceVars, snapshot, pc, joinVars, terminating, faults,
                 historyVars, outcome>>

\* An operation in the branch suspends the invocation.
ChildSuspends(i) ==
  /\ childPc[i] = "body"
  /\ Fault
  /\ terminating' = TRUE
  /\ childPc' = [childPc EXCEPT ![i] = "parked"]
  /\ UNCHANGED <<callVars, serviceVars, snapshot, pc, joinVars, childResult, queue,
                 historyVars, outcome>>

ChildReturns(i) ==
  /\ childPc[i] = "completing"
  /\ Released(i)
  /\ childPc' = [childPc EXCEPT ![i] = "finished"]
  /\ finished' = Append(finished, i)
  /\ UNCHANGED <<callVars, serviceVars, snapshot, pc, joined, started, childResult, queue,
                 terminating, faults, historyVars, outcome>>

\* JoinSet::abort_all stops a branch that another thread runs at its next await that
\* has to wait; until then it goes on.
AbortTakesEffect(i) ==
  /\ Preemptive
  /\ pc \in {"completing", "returned", "parked"}
  /\ childPc[i] \in {"spawned", "starting", "body", "completing"}
  /\ childPc' = [childPc EXCEPT ![i] = "aborted"]
  /\ UNCHANGED <<callVars, serviceVars, snapshot, pc, joinVars, childResult, queue,
                 terminating, faults, historyVars, outcome>>

ChildAction(i) ==
  /\ pc # "down"
  /\ \/ ChildReplays(i)
     \/ ChildStarts(i)
     \/ ChildRuns(i)
     \/ ChildCompletes(i)
     \/ ChildSuspends(i)
     \/ ChildReturns(i)
     \/ AbortTakesEffect(i)
-----------------------------------------------------------------------------
(***************************************************************************)
(* The batch: map() and parallel_named().                                  *)
(***************************************************************************)

\* The call of checkpoint() of the batch.
BatchSends(action, next) ==
  \/ /\ terminating
     /\ pc' = "parked"
     /\ UNCHANGED queue
  \/ /\ ~terminating
     /\ pc' = next
     /\ queue' = Append(queue, [op |-> Batch, action |-> action])

Having(status, branches, result) == {i \in branches : result[i].status = status}

Successes(branches) == Cardinality(Having("Succeeded", branches, childResult))
Failures(branches) == Cardinality(Having("Failed", branches, childResult))

StartBatch ==
  /\ pc = "replay"
  /\ snapshot.batch.status = "None"
  /\ BatchSends("Start", "starting")
  /\ UNCHANGED <<callVars, serviceVars, snapshot, joinVars, childVars, terminating,
                 faults, historyVars, outcome>>

StartReturns ==
  /\ pc = "starting"
  /\ Released(Batch)
  /\ pc' = "loop"
  /\ UNCHANGED <<callVars, serviceVars, snapshot, joinVars, childVars, queue, terminating,
                 faults, historyVars, outcome>>

\* Mutant of IsReplayed: a completed batch is executed like one under way.
NeverReplayed == FALSE

\* A completed batch is looked at only if the mode is Replay.
IsReplayed == Mode = "Replay" /\ snapshot.batch.status = "Succeeded"

Resume ==
  /\ pc = "replay"
  /\ snapshot.batch.status # "None"
  /\ ~IsReplayed
  /\ pc' = "loop"
  /\ UNCHANGED <<callVars, serviceVars, snapshot, joinVars, childVars, queue, terminating,
                 faults, historyVars, outcome>>

(***************************************************************************)
(* evaluate_map_replay, evaluate_parallel_replay                           *)
(***************************************************************************)
\* The recorded result, an Option that was written as null without its value; the
\* ids of its branches are skipped.
Recorded ==
  [snapshot.batch.result EXCEPT
     !.values = IF output = "null" THEN {} ELSE @,
     !.ids = Cardinality({i \in Item : snapshot.batch.result.all[i] # NoResult})]

ReturnRecorded ==
  /\ pc = "replay"
  /\ IsReplayed
  /\ output # "large"
  /\ outcome' = Recorded
  /\ pc' = "returned"
  /\ UNCHANGED <<callVars, serviceVars, snapshot, joinVars, childVars, queue, terminating,
                 faults, historyVars>>

\* reconstruct_map_from_children, reconstruct_parallel_from_children: a branch
\* with no record is an error, one without an outcome counts as started.
Rebuilt(children, total) ==
  LET successes == Cardinality(Having("Succeeded", 1..total, children))
      failures == Cardinality(Having("Failed", 1..total, children))
  IN  IF \E i \in 1..total : children[i].status = "None"
      THEN [NoOutcome EXCEPT !.reason = "ReplayValidationFailed"]
      ELSE [all |-> [i \in Item |-> IF i <= total THEN children[i] ELSE NoResult],
            values |-> Having("Succeeded", 1..total, children),
            reason |-> CompletionReason(failures, successes, successes + failures,
                                        items, config),
            ids |-> total]

Rebuild ==
  /\ pc = "replay"
  /\ IsReplayed
  /\ output = "large"
  /\ outcome' = Rebuilt(snapshot.children, snapshot.batch.result.ids)
  /\ pc' = "returned"
  /\ UNCHANGED <<callVars, serviceVars, snapshot, joinVars, childVars, queue, terminating,
                 faults, historyVars>>

(***************************************************************************)
(* run_map_execution, run_parallel_execution                               *)
(***************************************************************************)
\* Mutant of Room: one more at the limit.
RoomAtLimit == config.maxConcurrency + 1 - Cardinality(1..started \ joined)

\* How many more branches max_concurrency lets run.
Room == config.maxConcurrency - Cardinality(1..started \ joined)

\* What the batch returns if it is over with these branches joined.
ResultOf(branches) ==
  [all |-> [i \in Item |-> IF i \in branches THEN childResult[i]
                          ELSE IF i <= started THEN [status |-> "Started", run |-> 0]
                          ELSE NoResult],
   values |-> Having("Succeeded", branches, childResult),
   reason |-> CompletionReason(Failures(branches), Successes(branches),
                               Cardinality(branches), items, config),
   ids |-> started]

\* A map looks for items before its loop, a parallel in it.
IsMapOfNothing == kind = "map" /\ items = 0

CompleteMapOfNothing ==
  /\ pc = "loop"
  /\ IsMapOfNothing
  /\ outcome' = ResultOf({})
  /\ BatchSends("Succeed", "completing")
  /\ UNCHANGED <<callVars, serviceVars, snapshot, joinVars, childVars, terminating,
                 faults, historyVars>>

\* Branches are spawned in the order of the items, each with the next id.
Spawn ==
  /\ pc = "loop"
  /\ ~IsMapOfNothing
  /\ LET left == items - started
         more == IF \/ ~ShouldContinue(Failures(joined), items, config)
                    \/ MinReached(Successes(joined), config)
                 THEN 0
                 ELSE IF Room < left THEN Room ELSE left
     IN  /\ started' = started + more
         /\ childPc' = [i \in Item |-> IF i \in started + 1..started + more THEN "spawned"
                                       ELSE childPc[i]]
  /\ pc' = "joining"
  /\ UNCHANGED <<callVars, serviceVars, snapshot, finished, joined, childResult, queue,
                 terminating, faults, historyVars, outcome>>

\* Mutant of IsOver: failures that exceed the tolerance do not end the batch.
IsOverBySuccess(branches) ==
  \/ Cardinality(branches) = items
  \/ MinReached(Successes(branches), config)

IsOver(branches) ==
  \/ Cardinality(branches) = items
  \/ MinReached(Successes(branches), config)
  \/ ~ShouldContinue(Failures(branches), items, config)

JoinNext ==
  /\ pc = "joining"
  /\ finished # <<>>
  /\ joined' = joined \cup {Head(finished)}
  /\ finished' = Tail(finished)
  /\ ~IsOver(joined')
  /\ pc' = "loop"
  /\ UNCHANGED <<callVars, serviceVars, snapshot, started, childVars, queue, terminating,
                 faults, historyVars, outcome>>

\* Mutant of AbortAll: the other branches go on.
AbortNone(branches) == UNCHANGED <<childPc, aborted>>

\* JoinSet::abort_all stops at once what no other thread is running.
AbortAll(branches) ==
  /\ childPc' = [i \in Item |-> IF ~Preemptive /\ i \in branches /\ childPc[i] # "finished"
                                THEN "aborted"
                                ELSE childPc[i]]
  /\ aborted' = (aborted \/ branches # {})

Complete ==
  /\ pc = "joining"
  /\ finished # <<>>
  /\ joined' = joined \cup {Head(finished)}
  /\ finished' = Tail(finished)
  /\ IsOver(joined')
  /\ AbortAll(1..started \ joined')
  /\ outcome' = ResultOf(joined')
  /\ BatchSends("Succeed", "completing")
  /\ UNCHANGED <<callVars, serviceVars, snapshot, started, childResult, terminating,
                 faults, runs, committed>>

\* The JoinSet is empty: there are no items, or min_successful = 0 started none.
NothingToJoin ==
  /\ pc = "joining"
  /\ joined = 1..started

\* A parallel is then complete.
CompleteEmpty ==
  /\ NothingToJoin
  /\ kind = "parallel"
  /\ outcome' = ResultOf({})
  /\ BatchSends("Succeed", "completing")
  /\ UNCHANGED <<callVars, serviceVars, snapshot, joinVars, childVars, terminating,
                 faults, historyVars>>

\* unreachable!
Panic ==
  /\ NothingToJoin
  /\ kind = "map"
  /\ Down
  /\ UNCHANGED <<callVars, serviceVars, terminating, faults, historyVars>>

BatchReturns ==
  /\ pc = "completing"
  /\ Released(Batch)
  /\ pc' = "returned"
  /\ UNCHANGED <<callVars, serviceVars, snapshot, joinVars, childVars, queue, terminating,
                 faults, historyVars, outcome>>

\* The handler goes on and its next operation is recorded.
NextOperationRecorded ==
  /\ pc = "returned"
  /\ ~terminating
  /\ queue = <<>>
  /\ committed' = committed \cup {outcome}
  /\ UNCHANGED <<callVars, serviceVars, snapshot, pc, joinVars, childVars, queue,
                 terminating, faults, runs, aborted, outcome>>

BatchAction ==
  \/ StartBatch
  \/ StartReturns
  \/ Resume
  \/ ReturnRecorded
  \/ Rebuild
  \/ CompleteMapOfNothing
  \/ Spawn
  \/ JoinNext
  \/ Complete
  \/ CompleteEmpty
  \/ Panic
  \/ BatchReturns
  \/ NextOperationRecorded

Next ==
  \/ BatchAction
  \/ \E i \in Item : ChildAction(i)
  \/ EnvironmentAction

Spec == Init /\ [][Next]_vars

(***************************************************************************)
(* Fairness: tokio polls the batch and every branch, their functions       *)
(* return, a request is answered, the service invokes the function again.  *)
(***************************************************************************)
Fairness ==
  /\ WF_vars(BatchAction)
  /\ \A i \in Item : WF_vars(ChildAction(i))
  /\ WF_vars(RecordUpdate)
  /\ WF_vars(Invoke)
  /\ WF_vars(InvocationEnds)

FairSpec == Spec /\ Fairness

-----------------------------------------------------------------------------
\* Every invocation in which the handler goes on past the batch gives it the same
\* result and the same ids for what follows (map/replay.rs); not so a result that
\* was too large to record and that aborted a branch, whose records decide later.
ResultIsStable ==
  ~(output = "large" /\ aborted) => \A one, other \in committed : one = other

\* On a current-thread runtime, once the batch is recorded as completed, no record of a
\* branch changes: the service never sees a child's update after its parent's
\* (map/execute.rs:201).  A branch that another thread runs may still push one.
CompletionIsLast ==
  [][~Preemptive /\ record.status = "Succeeded" => childRecord' = childRecord]_childRecord

\* On a current-thread runtime, once the batch is recorded as completed, the function of
\* no branch is called again (map/replay.rs).
NoBranchRunsAgain ==
  [][~Preemptive /\ record.status = "Succeeded" => runs' = runs]_runs

\* The batch comes to a result, unless it is a map that needs no success.
BatchSettles ==
  <>(record.status = "Succeeded" \/ (kind = "map" /\ config.minSuccessful = {0}))
=============================================================================
