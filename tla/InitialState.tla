---------------------------- MODULE InitialState ----------------------------
(***************************************************************************)
(* What an invocation starts from: the recorded operations, which arrive   *)
(* in pages, and the event of the handler (src/context/                    *)
(* execution_context.rs, src/runtime/handler/execute.rs).  The first page  *)
(* comes with the invocation.  An Option is the set of its value, if any.  *)
(***************************************************************************)
EXTENDS Naturals, Sequences, FiniteSets
LOCAL INSTANCE SequencesExt

\* Of an operation: its id, its type, and the input payload it may hold.
OperationOf(id, type, input) == [id |-> id, type |-> type, input |-> input]

\* GetStateResponse, or the state in the invocation's input.
Page(operations, marker) == [operations |-> operations, marker |-> marker]

\* An empty marker is none.
HasNext(page) == page.marker \notin {{}, {"empty"}}

\* The pages are read up to page k: the first without a next one, at most
\* maxPages (GET_STATE_MAX_PAGES) after the one that came with the invocation.
ReadsUpTo(pages, k, maxPages) ==
  /\ k \in DOMAIN pages
  /\ ~HasNext(pages[k])
  /\ \A j \in 1..k - 1 : HasNext(pages[j])
  /\ k <= maxPages + 1

\* step_data.insert
Insert(data, op) ==
  [id \in DOMAIN data \cup {op.id} |-> IF id = op.id THEN op ELSE data[id]]

\* step_data, once these pages were read.
StepData(pages) ==
  LET InsertPage(data, page) == FoldLeft(Insert, data, page.operations)
  IN  FoldLeft(InsertPage, <<>>, pages)

\* One operation, the EXECUTION, is there from the start.
ModeOf(data) == IF Cardinality(DOMAIN data) > 1 THEN "Replay" ELSE "Execution"

\* What the handler is called with, or why it is not called: HashMap::values gives
\* the operations in any order, and the first EXECUTION decides.
Events(data) ==
  LET executions == {id \in DOMAIN data : data[id].type = "Execution"}
      Event(input) == CASE input = {} -> "Missing input payload"
                        [] input = {"unreadable"} -> "Failed to deserialize input"
                        [] OTHER -> "called"
  IN  IF executions = {} THEN {"Missing execution operation"}
      ELSE {Event(data[id].input) : id \in executions}

\* How the invocation may start; a page that is missing is a request that failed.
Starts(pages, maxPages) ==
  IF \E k \in DOMAIN pages : ReadsUpTo(pages, k, maxPages)
  THEN LET last == CHOOSE k \in DOMAIN pages : ReadsUpTo(pages, k, maxPages)
           data == StepData(SubSeq(pages, 1, last))
       IN  [event : Events(data), mode : {ModeOf(data)}]
  ELSE [event : {"Failed to initialize context"}, mode : {"Execution"}]
=============================================================================
