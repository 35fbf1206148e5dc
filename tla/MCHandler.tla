------------------------------ MODULE MCHandler ------------------------------
(* Small instances of DurableHandler: the programs of the tasks.           *)
EXTENDS DurableHandlerProps, InitialState

CONSTANTS t1, t2, t3, s1, s2, w1, ctx, inv, exec

Plain(o, actions, awaited) ==
  [op |-> o, actions |-> actions, awaited |-> awaited, after |-> {}, aborts |-> {}]

Queued(o, a) == Plain(o, {a}, FALSE)
Awaited(o, a) == Plain(o, {a}, TRUE)
Outcome(o) == Plain(o, {"Succeed", "Fail", "Retry"}, TRUE)
OrSerdesError(call) == [call EXCEPT !.actions = @ \cup {"SerdesError"}]
Local(o, a) == Plain(o, {a}, FALSE)

Branch(call) == [call EXCEPT !.after = {<<t1, 1>>}]

LargeResult == <<Awaited(exec, "Succeed")>>

MCKind == [o \in Op |-> CASE o = w1 -> "Wait" [] o = ctx -> "Context" [] o = inv -> "Invoke"
                          [] o = exec -> "Execution" [] OTHER -> "Step"]

\* Two branches: an at-least-once step and then an at-most-once step whose result may
\* fail to serialize; and an invoke that is replayed, for which the handler does not wait.
StepsProgram ==
  [t \in Task |-> CASE t = t1 -> <<Queued(s1, "Start"), Outcome(s1), Awaited(s2, "Start"),
                                   OrSerdesError(Awaited(s2, "Succeed"))>>
                    [] t = t2 -> <<Local(inv, "Refresh"), Local(inv, "Suspend")>>
                    [] t = Main -> LargeResult]

\* A batch operation ctx with two branches, complete when the first, a step that may
\* be retried, is over: it then aborts the other (a wait) and records its own completion.
BatchProgram ==
  [t \in Task |->
     CASE t = t1 -> <<Awaited(ctx, "Start"),
                      [Awaited(ctx, "Succeed") EXCEPT !.after = {<<t2, 2>>},
                                                      !.aborts = {t3}]>>
       [] t = t2 -> <<Branch(Queued(s1, "Start")), OrSerdesError(Outcome(s1))>>
       [] t = t3 -> <<Branch(Awaited(w1, "Start")), Local(w1, "Suspend")>>
       [] t = Main -> LargeResult]

ChildOfBatch == [o \in Op |-> IF o \in {s1, w1} THEN ctx ELSE NoOp]

\* The simplest handler: one at-most-once step.
OneStepProgram ==
  [t \in Task |-> CASE t = t1 -> <<Awaited(s1, "Start"), Awaited(s1, "Succeed")>>
                    [] t = Main -> LargeResult]

NoParent == [o \in Op |-> NoOp]

\* The START of the wait alone is larger than a batch may be.
MCSize == [o \in Op |-> IF o = w1 THEN 3 ELSE 1]

\* The programs keep to what the theorems assume of one.
ASSUME ProgramsAssumption == CompletesOnce /\ ResumableProgram

-----------------------------------------------------------------------------
Execution(id, input) == OperationOf(id, "Execution", input)
Operations == {OperationOf(id, "Step", {}) : id \in {"a", "b"}}
                \cup {Execution("a", {}), Execution("b", {"event"})}
Histories == UNION {[1..n -> Operations] : n \in 0..3}
OnePage(history) == <<Page(history, {})>>
TwoPages(history, cut) ==
  <<Page(SubSeq(history, 1, cut), {"next"}),
    Page(SubSeq(history, cut + 1, Len(history)), {"empty"})>>

\* Wherever the service cuts the history into pages, the context has each operation
\* as it was recorded last, and the invocation starts the same way.
ASSUME PagingAssumption ==
  \A history \in Histories : \A cut \in 0..Len(history) :
    /\ StepData(TwoPages(history, cut)) =
         [id \in {history[i].id : i \in DOMAIN history} |->
            history[CHOOSE i \in DOMAIN history :
                      /\ history[i].id = id
                      /\ \A j \in i + 1..Len(history) : history[j].id # id]]
    /\ Starts(TwoPages(history, cut), 1) = Starts(OnePage(history), 1)

\* The handler is called in Execution mode as long as nothing but the EXECUTION is
\* recorded, and in Replay mode after that.
ASSUME ModeAssumption ==
  LET first == Execution("b", {"event"})
  IN  /\ Starts(OnePage(<<first>>), 0) = [event : {"called"}, mode : {"Execution"}]
      /\ \A op \in Operations : op.type = "Step" /\ op.id # "b" =>
           Starts(OnePage(<<first, op>>), 0) = [event : {"called"}, mode : {"Replay"}]

\* A page beyond GET_STATE_MAX_PAGES, or one that cannot be had, ends the invocation.
ASSUME LimitAssumption ==
  LET more == Page(<<>>, {"next"})
      last == Page(<<Execution("b", {"event"})>>, {})
  IN  \A limit \in 0..2, n \in 0..4 :
        LET before == [k \in 1..n |-> more]
        IN  /\ "called" \in {s.event : s \in Starts(Append(before, last), limit)} <=> n <= limit
            /\ "called" \notin {s.event : s \in Starts(before, limit)}

\* A large result is recorded as a second EXECUTION without an input: which of the two
\* an invocation after it would find is left to the order of a HashMap.
ASSUME LargeResultAssumption ==
  {s.event : s \in Starts(OnePage(<<Execution("b", {"event"}), Execution("a", {})>>), 0)}
    = {"called", "Missing input payload"}
=============================================================================
