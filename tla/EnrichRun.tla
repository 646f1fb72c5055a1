------------------------------ MODULE EnrichRun ------------------------------
(***************************************************************************)
(* EnrichQueue with a history of what each run has failed, to state what   *)
(* the repository says of a single run.                                    *)
(***************************************************************************)
EXTENDS EnrichQueue

VARIABLE failedHere  \* ids of the entries the current run has failed

RunInit == Init /\ failedHere = [w \in Workers |-> {}]

RunNext ==
  /\ Next
  /\ failedHere' = [w \in Workers |->
       IF pc'[w] = "idle" THEN {}
       ELSE IF pc[w] = "fail" /\ pc'[w] # "fail" THEN failedHere[w] \cup {entry[w].id}
       ELSE failedHere[w]]

RunSpec == RunInit /\ [][RunNext]_<<vars, failedHere>>

(* "a failed entry is never reprocessed within the same run"               *)
(* (RecordEnrichmentFailure).  The lease is counted from the claim, not    *)
(* from the failure, so a run that outlives it claims the entry again.     *)
NeverReprocessedInRun ==
  \A w \in Workers : pc[w] \in Working => entry[w].id \notin failedHere[w]
==============================================================================
