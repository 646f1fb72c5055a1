----------------------------- MODULE MCUserJobs -----------------------------
(* Instances of UserJobs for TLC: either the requests are mostly sign-ins, *)
(* or they manage keys, or they track jobs.                                *)
EXTENDS UserJobs, TLC

MCBudgets ==
  {[signin |-> 3, manage |-> 0, track |-> 0, faults |-> 1],
   [signin |-> 2, manage |-> 2, track |-> 1, faults |-> 1],
   [signin |-> 1, manage |-> 0, track |-> 4, faults |-> 1]}

MCSymmetry == Permutations(Emails) \cup Permutations(Identities) \cup Permutations(Clients)
==============================================================================
