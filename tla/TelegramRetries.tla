--------------------------- MODULE TelegramRetries ---------------------------
(***************************************************************************)
(* TelegramQueue with a history of how often the work on a post has come   *)
(* to nothing, to state what the repository says of its retries.           *)
(***************************************************************************)
EXTENDS TelegramQueue

VARIABLE wasted  \* times a post could not be extracted or not be written

(* A post that is in hand is not extracted, or not written.                *)
Fails(w) == RecordFailure(w) \/ CompleteError(w) \/ DeadlockAbort(w)

RetryInit == Init /\ wasted = [p \in Posts |-> 0]

(* Wasted work is counted up to the retry budget.                          *)
RetryNext ==
  /\ Next
  /\ wasted' = [p \in Posts |->
       IF wasted[p] < MaxAttempts /\ \E w \in Workers : post[w] = p /\ Fails(w)
       THEN wasted[p] + 1 ELSE wasted[p]]

RetrySpec == RetryInit /\ [][RetryNext]_<<vars, wasted>>

(* What cmd/tg-extract/store.go says of maxAttempts: "the retry budget per *)
(* post: the first failure leaves the post retryable (after its lease      *)
(* expires), the second dead-letters it".  A failure to write is counted   *)
(* nowhere, so a post the database refuses is taken up without end.        *)
RetryBudget ==
  \A p \in DOMAIN queue :
    wasted[p] >= MaxAttempts => queue[p].failed \/ queue[p].extracted
=============================================================================
