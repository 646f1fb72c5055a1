------------------------------ MODULE WorkQueue ------------------------------
(***************************************************************************)
(* What a Postgres work queue of this system promises about one item of    *)
(* work, whoever the workers are and however they interleave or die.  The  *)
(* outbox of cmd/enrich and the post queue of cmd/tg-extract both promise  *)
(* this and nothing more:                                                  *)
(*                                                                         *)
(*   absent   not stored yet                                               *)
(*   waiting  stored before there was a queue, not queued yet              *)
(*   queued   waiting for, or in the hands of, a worker                    *)
(*   dead     dead-lettered: retries are exhausted                         *)
(*   done     the result has been written                                  *)
(*                                                                         *)
(* An item never leaves "done" and never goes back to "absent" or          *)
(* "waiting".  A dead item may still become done, when a worker whose      *)
(* lease ran out finishes late, or be queued again under a new target.     *)
(***************************************************************************)
CONSTANT Items

VARIABLE phase

Phases == {"absent", "waiting", "queued", "dead", "done"}

Init == phase \in [Items -> {"absent", "waiting"}]

Move(i, from, to) ==
  /\ phase[i] \in from
  /\ phase' = [phase EXCEPT ![i] = to]

(* An item is stored and queued in one step.  A worker may queue any number *)
(* of waiting items with one statement, and a new target revives dead ones. *)
Queue ==
  \E S \in SUBSET {i \in Items : phase[i] \in {"absent", "waiting", "dead"}} :
    phase' = [i \in Items |-> IF i \in S THEN "queued" ELSE phase[i]]

Finish(i) == Move(i, {"absent", "queued", "dead"}, "done")

GiveUp(i) == Move(i, {"queued"}, "dead")

Next == Queue \/ \E i \in Items : Finish(i) \/ GiveUp(i)

Resolve(i) == phase[i] = "queued" /\ (Finish(i) \/ GiveUp(i))

Safe == Init /\ [][Next]_phase

(* Every queued item is eventually finished or dead-lettered.               *)
Spec == Safe /\ \A i \in Items : WF_phase(Resolve(i))

==============================================================================
