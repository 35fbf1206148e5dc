------------------------------- MODULE MCBatch -------------------------------
(* Small instances of BatchExecution; what a batch reads back.             *)
EXTENDS BatchExecution, BatchValues, MCAgent

Policy(min, tol, concurrency) ==
  [minSuccessful |-> min, toleratedFailureCount |-> tol,
   toleratedFailurePercentage |-> {}, maxConcurrency |-> concurrency]

\* All of the batch; the first success; no success; one tolerated failure, one
\* at a time; a third of failures tolerated and two successes wanted.
MCConfigs ==
  {Policy({}, {}, 2),
   Policy({1}, {}, 2),
   Policy({0}, {}, 2),
   Policy({}, {1}, 1),
   [Policy({2}, {}, 2) EXCEPT !.toleratedFailurePercentage = {34}]}

\* map and parallel differ if no success is needed, and if there are no items.
MCCalls ==
  [kind : {"map"}, config : MCConfigs]
    \cup [kind : {"parallel"}, config : {Policy({0}, {}, 2), Policy({1}, {}, 1)}]

-----------------------------------------------------------------------------
\* The items of a batch: an item that failed has its error, one that was aborted nothing.
Errors == [kind : {"Internal", "ChildContextFailed"}, message : {<<"refused">>}]
ItemsAt(index) ==
  {BatchItem(index, "Succeeded", {v}, {}) : v \in {"null", "value"}}
    \cup {BatchItem(index, "Failed", {}, {error}) : error \in Errors}
    \cup {BatchItem(index, "Started", {}, {})}
Batches ==
  [reason : Reasons, all : {<<>>} \cup {<<a>> : a \in ItemsAt(0)}
                             \cup {<<a, b>> : a \in ItemsAt(0), b \in ItemsAt(1)}
                             \cup {<<a, b>> : a \in ItemsAt(1), b \in ItemsAt(0)}]

\* A batch that is read again has the status, the reason, and in the order of the items
\* the values it had, but for those written as null; it throws if it threw.
ASSUME RoundTripAssumption ==
  \A batch \in Batches :
    LET again == ReadBack(Written(batch))
        IsValue(v) == v # "null"
    IN  /\ BatchStatus(again.all) = BatchStatus(batch.all)
        /\ again.reason = batch.reason
        /\ Values(again.all) = SelectSeq(Values(batch.all), IsValue)
        /\ ThrowIfError(again.all) = {} <=> ThrowIfError(batch.all) = {}

\* What a later invocation reads, every later one reads: no text grows from one to the
\* next, though the first invocation had errors of other kinds.
ASSUME RereadAssumption ==
  \A batch \in Batches :
    LET again == ReadBack(Written(batch))
    IN  /\ ReadBack(Written(again)) = again
        /\ again # batch => \/ \E k \in DOMAIN batch.all :
                                 \/ batch.all[k].result = {"null"}
                                 \/ \E error \in batch.all[k].error : error.kind # "Internal"
                            \/ batch.all # ByIndex(batch.all)
=============================================================================
