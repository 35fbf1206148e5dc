----------------------------- MODULE BatchValues -----------------------------
(***************************************************************************)
(* What a batch returns (src/types/batch.rs), and what is left of it when  *)
(* it was recorded and read again (src/types/batch_serdes.rs).  A text is  *)
(* a sequence of phrases; an Option is the set of its value, if any.       *)
(***************************************************************************)
EXTENDS Naturals, Sequences, FiniteSets
LOCAL INSTANCE SequencesExt

BatchItem(index, status, result, error) ==
  [index |-> index, status |-> status, result |-> result, error |-> error]

With(all, status) == SelectSeq(all, LAMBDA item : item.status = status)
HasFailure(all) == With(all, "Failed") # <<>>

\* BatchResult::status
BatchStatus(all) ==
  CASE HasFailure(all) -> "Failed"
    [] ~HasFailure(all) /\ With(all, "Started") # <<>> -> "Started"
    [] OTHER -> "Succeeded"

ByIndex(all) == SortSeq(all, LAMBDA a, b : a.index < b.index)

\* BatchResult::values
Values(all) ==
  LET some == ByIndex(SelectSeq(all, LAMBDA item : item.result # {}))
  IN  [k \in DOMAIN some |-> CHOOSE v \in some[k].result : TRUE]

\* to_string of an error
Display(error) == <<error.kind>> \o error.message

\* BatchResult::throw_if_error: of the first item that failed, if it has an error.
ThrowIfError(all) ==
  LET failed == With(all, "Failed")
  IN  IF failed = <<>> THEN {}
      ELSE {[index |-> Head(failed).index, message |-> Display(error),
             successes |-> Len(With(all, "Succeeded")), failures |-> Len(failed)]
              : error \in Head(failed).error}

-----------------------------------------------------------------------------
\* BatchItemPayload: an internal error is written as its bare message.
WrittenItem(item) ==
  [item EXCEPT !.error = {IF error.kind = "Internal" THEN error.message
                          ELSE Display(error) : error \in @}]

\* BatchResultSerdes::serialize
Written(batch) ==
  [reason |-> batch.reason,
   items |-> [k \in DOMAIN batch.all |-> WrittenItem(batch.all[k])]]

Internal(message) == [kind |-> "Internal", message |-> message]

\* A value that was written as null is none; a failure has an error, the others none.
ReadItem(item) ==
  [item EXCEPT
     !.result = @ \ {"null"},
     !.error = IF item.status # "Failed" THEN {}
               ELSE IF @ = {} THEN {Internal(<<"Batch item failed">>)}
               ELSE {Internal(message) : message \in @}]

\* BatchResultSerdes::deserialize
ReadBack(payload) ==
  [reason |-> payload.reason,
   all |-> ByIndex([k \in DOMAIN payload.items |-> ReadItem(payload.items[k])])]
=============================================================================
