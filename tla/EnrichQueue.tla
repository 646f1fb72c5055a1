----------------------------- MODULE EnrichQueue -----------------------------
(***************************************************************************)
(* The enrichment outbox: cmd/ingest queues jobs in the transaction that   *)
(* stores them, any number of overlapping cmd/enrich runs claim batches    *)
(* under a lease, call the LLM for each entry, and write the result back   *)
(* or record the failure.                                                  *)
(*                                                                         *)
(* claimed_at is read only as "NULL or older than the lease", so a row     *)
(* carries the time left on its lease: 0 stands for both.  enriched_at and *)
(* enrichment_version are always written together, so one number per job   *)
(* stands for both: 0 is a job that was never enriched.                    *)
(***************************************************************************)
EXTENDS Naturals, FiniteSets

CONSTANTS
  Jobs,         \* job rows that may ever exist
  Legacy,       \* jobs stored before the outbox existed (migration 0004)
  Workers,      \* cmd/enrich processes that may be alive at the same time
  BatchSize,    \* ENRICH_BATCH_SIZE
  Lease,        \* ENRICH_LEASE_SECONDS, in ticks
  MaxAttempts,  \* ENRICH_MAX_ATTEMPTS
  MaxVersion,   \* bound: how often enrich.Version is bumped
  MaxId,        \* bound: outbox ids ever allocated
  MaxFaults     \* bound: database errors and process crashes

ASSUME ConstantsAssumption ==
  /\ Legacy \subseteq Jobs
  /\ IsFiniteSet(Jobs)
  /\ BatchSize \in Nat \ {0}
  /\ Lease \in Nat \ {0}
  /\ MaxAttempts \in Nat \ {0}
  /\ MaxVersion \in Nat \ {0}
  /\ MaxId \in Nat
  /\ MaxFaults \in Nat

VARIABLES
  catalogue,  \* jobs stored in the jobs table
  enriched,   \* enrichment_version of each job, 0 while enriched_at is NULL
  outbox,     \* enrichment_outbox: id -> row
  lastId,     \* the identity sequence of enrichment_outbox
  deployed,   \* enrich.Version of the binaries started from now on
  pc,         \* where each run stands
  version,    \* opt.TargetVersion of each run, until it has enqueued
  pending,    \* jobs the enqueue statement of the run has read as pending
  batch,      \* claimed entries the run has not started on
  entry,      \* the entry the run is working on
  held,       \* history: time left on the lease of the run's last claim
  faults      \* history: errors and crashes so far

db == <<catalogue, enriched, outbox, lastId>>
run == <<version, pending, batch, entry, held>>
vars == <<catalogue, enriched, outbox, lastId, deployed,
          pc, version, pending, batch, entry, held, faults>>

Versions == 1..MaxVersion
Ids == 1..MaxId

Row == [job : Jobs, target : Versions, attempts : Nat,
        failed : BOOLEAN, lease : 0..Lease]

Claimed == [id : Ids, job : Jobs, target : Versions]

NoEntry == [id |-> 0]

(* "next" is the head of the batch loop; "call" and "recall" are the first *)
(* and the second call to the provider.                                    *)
Steps == {"idle", "enqueue", "claim", "next", "call", "recall", "write", "fail"}

-----------------------------------------------------------------------------
(* The queue table.                                                        *)

NewRow(j, v) ==
  [job |-> j, target |-> v, attempts |-> 0, failed |-> FALSE, lease |-> 0]

Queued(j, v) == \E i \in DOMAIN outbox : outbox[i].job = j /\ outbox[i].target = v

(* Mutant: the enqueues forget that an old version needs enrichment too.    *)
NeedsEnrichment_OnlyUnenriched(j, v) == enriched[j] = 0

(* The condition both enqueues test on the job row.                        *)
NeedsEnrichment(j, v) == enriched[j] < v

(* Mutant: ids are MAX(id) + 1 instead of coming from a sequence.           *)
Insert_ReuseIds(jobs, v) ==
  LET new == {j \in jobs : ~Queued(j, v)}
      top == CHOOSE k \in 0..MaxId :
               /\ k = 0 \/ k \in DOMAIN outbox
               /\ \A i \in DOMAIN outbox : i <= k
      fresh == (top + 1)..(top + Cardinality(new))
  IN /\ lastId' = lastId
     /\ top + Cardinality(new) <= MaxId
     /\ \E job \in [fresh -> new] :
          /\ \A j \in new : \E i \in fresh : job[i] = j
          /\ outbox' = [i \in DOMAIN outbox \cup fresh |->
                          IF i \in fresh THEN NewRow(job[i], v) ELSE outbox[i]]

(* INSERT ... ON CONFLICT (job_id, target_version) DO NOTHING of one row    *)
(* for each job of a set, in whatever order the statement produces them.   *)
Insert(jobs, v) ==
  LET new == {j \in jobs : ~Queued(j, v)}
      fresh == (lastId + 1)..(lastId + Cardinality(new))
  IN /\ lastId + Cardinality(new) <= MaxId
     /\ lastId' = lastId + Cardinality(new)
     /\ \E job \in [fresh -> new] :
          /\ \A j \in new : \E i \in fresh : job[i] = j
          /\ outbox' = [i \in DOMAIN outbox \cup fresh |->
                          IF i \in fresh THEN NewRow(job[i], v) ELSE outbox[i]]

(* Mutant: the claim forgets the lease.                                     *)
Claimable_IgnoresLease == {i \in DOMAIN outbox : ~outbox[i].failed}

Claimable == {i \in DOMAIN outbox : ~outbox[i].failed /\ outbox[i].lease = 0}

(* Rows that another run's uncommitted write has locked: SKIP LOCKED passes *)
(* over them.                                                              *)
Locked(w) == {entry[u].id : u \in {x \in Workers \ {w} : pc[x] \in {"write", "fail"}}}

-----------------------------------------------------------------------------
(* Mutant: the upsert overwrites the enrichment columns too.                *)
Ingest_ResetsEnrichment(j, v) ==
  /\ v <= deployed
  /\ catalogue' = catalogue \cup {j}
  /\ enriched' = [enriched EXCEPT ![j] = 0]
  /\ Insert({j}, v)
  /\ UNCHANGED <<deployed, pc, run, faults>>

(* cmd/ingest: one transaction per posting, UpsertJob then                 *)
(* EnqueueJobEnrichment, by a binary that may be older than the deployed   *)
(* one.  The upsert writes no enrichment column.                           *)
Ingest(j, v) ==
  /\ v <= deployed
  /\ catalogue' = catalogue \cup {j}
  /\ Insert({x \in {j} : NeedsEnrichment(x, v)}, v)
  /\ UNCHANGED <<enriched, deployed, pc, run, faults>>

(* enrich.Version is bumped and the new binary takes over the schedule.    *)
Deploy ==
  /\ deployed < MaxVersion
  /\ deployed' = deployed + 1
  /\ UNCHANGED <<db, pc, run, faults>>

Less(n) == IF n = 0 THEN 0 ELSE n - 1

(* Mutant: the claim only takes rows with claimed_at NULL, never expired ones. *)
Tick_NoReaper ==
  /\ \E w \in Workers : held[w] > 0
  /\ held' = [w \in Workers |-> Less(held[w])]
  /\ UNCHANGED <<db, deployed, pc, version, pending, batch, entry, faults>>

(* A unit of time passes for every lease.                                  *)
Tick ==
  /\ \/ \E i \in DOMAIN outbox : outbox[i].lease > 0
     \/ \E w \in Workers : held[w] > 0
  /\ outbox' = [i \in DOMAIN outbox |-> [outbox[i] EXCEPT !.lease = Less(@)]]
  /\ held' = [w \in Workers |-> Less(held[w])]
  /\ UNCHANGED <<catalogue, enriched, lastId, deployed,
                 pc, version, pending, batch, entry, faults>>

-----------------------------------------------------------------------------
(* One run of cmd/enrich.                                                  *)

(* The run starts and its enqueue statement takes its snapshot of jobs.    *)
Start(w) ==
  /\ pc[w] = "idle"
  /\ pc' = [pc EXCEPT ![w] = "enqueue"]
  /\ version' = [version EXCEPT ![w] = deployed]
  /\ pending' = [pending EXCEPT ![w] =
                   {j \in catalogue : NeedsEnrichment(j, deployed)}]
  /\ UNCHANGED <<db, deployed, batch, entry, held, faults>>

(* The statement inserts what its snapshot found pending.  A completion    *)
(* committed in between has removed the row ON CONFLICT would have hit.    *)
Enqueue(w) ==
  /\ pc[w] = "enqueue"
  /\ Insert(pending[w], version[w])
  /\ pc' = [pc EXCEPT ![w] = "claim"]
  /\ version' = [version EXCEPT ![w] = 1]
  /\ pending' = [pending EXCEPT ![w] = {}]
  /\ UNCHANGED <<catalogue, enriched, deployed, batch, entry, held, faults>>

(* The first BatchSize claimable rows by id, of any target version.        *)
FirstByID(S, avail) ==
  /\ S \subseteq avail
  /\ Cardinality(S) = IF Cardinality(avail) < BatchSize
                      THEN Cardinality(avail) ELSE BatchSize
  /\ \A i \in S, k \in avail \ S : i < k

Claim(w) ==
  /\ pc[w] = "claim"
  /\ \E skipped \in SUBSET (Claimable \cap Locked(w)) :
     \E S \in SUBSET (Claimable \ skipped) :
       /\ FirstByID(S, Claimable \ skipped)
       /\ S # {}
       /\ outbox' = [i \in DOMAIN outbox |->
                       IF i \in S THEN [outbox[i] EXCEPT !.lease = Lease]
                                  ELSE outbox[i]]
       /\ batch' = [batch EXCEPT ![w] =
                      {[id |-> i, job |-> outbox[i].job,
                        target |-> outbox[i].target] : i \in S}]
  /\ held' = [held EXCEPT ![w] = Lease]
  /\ pc' = [pc EXCEPT ![w] = "next"]
  /\ UNCHANGED <<catalogue, enriched, lastId, deployed, version, pending, entry, faults>>

(* The process is gone, or the run is over: nothing of it survives.        *)
Reset(w) ==
  /\ pc' = [pc EXCEPT ![w] = "idle"]
  /\ version' = [version EXCEPT ![w] = 1]
  /\ pending' = [pending EXCEPT ![w] = {}]
  /\ batch' = [batch EXCEPT ![w] = {}]
  /\ entry' = [entry EXCEPT ![w] = NoEntry]
  /\ held' = [held EXCEPT ![w] = 0]

(* An empty claim ends the run.                                            *)
Finish(w) ==
  /\ pc[w] = "claim"
  /\ Claimable \subseteq Locked(w)
  /\ Reset(w)
  /\ UNCHANGED <<db, deployed, faults>>

(* The batch loop takes the next entry.  RETURNING fixes no order.         *)
Take(w) ==
  /\ pc[w] = "next"
  /\ \E c \in batch[w] :
       /\ entry' = [entry EXCEPT ![w] = c]
       /\ batch' = [batch EXCEPT ![w] = @ \ {c}]
       /\ \/ pc' = [pc EXCEPT ![w] = "call"] /\ UNCHANGED faults
          \/ /\ faults < MaxFaults                     \* Job failed to load
             /\ faults' = faults + 1
             /\ pc' = [pc EXCEPT ![w] = "fail"]
  /\ UNCHANGED <<db, deployed, version, pending, held>>

(* provider.Enrich and Validate, tried twice.                              *)
Answer(w) ==
  /\ pc[w] \in {"call", "recall"}
  /\ pc' = [pc EXCEPT ![w] = "write"]
  /\ UNCHANGED <<db, deployed, run, faults>>

NoAnswer(w) ==
  /\ pc[w] \in {"call", "recall"}
  /\ pc' = [pc EXCEPT ![w] = IF pc[w] = "call" THEN "recall" ELSE "fail"]
  /\ UNCHANGED <<db, deployed, run, faults>>

(* After an entry the loop goes on with the batch, or claims the next one. *)
Done(w) ==
  /\ pc' = [pc EXCEPT ![w] = IF batch[w] = {} THEN "claim" ELSE "next"]
  /\ entry' = [entry EXCEPT ![w] = NoEntry]
  /\ held' = IF batch[w] = {} THEN [held EXCEPT ![w] = 0] ELSE held

(* Mutants: the entry is deleted although the payload was not stored, and   *)
(* the outbox id is passed where the version belongs.                      *)
WriteBack_DeleteOnly(c) ==
  /\ enriched' = enriched
  /\ outbox' = [i \in DOMAIN outbox \ {c.id} |-> outbox[i]]
WriteBack_SwappedArguments(c) ==
  /\ enriched' = [enriched EXCEPT ![c.job] = c.id]
  /\ outbox' = [i \in DOMAIN outbox \ {c.id} |-> outbox[i]]

(* The committed transaction: SetJobEnrichment, then delete the row by id. *)
WriteBack(c) ==
  /\ enriched' = [enriched EXCEPT ![c.job] = c.target]
  /\ outbox' = [i \in DOMAIN outbox \ {c.id} |-> outbox[i]]

Complete(w) ==
  /\ pc[w] = "write"
  /\ WriteBack(entry[w])
  /\ Done(w)
  /\ UNCHANGED <<catalogue, lastId, deployed, version, pending, batch, faults>>

(* Complete returns an error: rolled back, or committed with the           *)
(* acknowledgement lost.  Either way the entry is failed.                  *)
CompleteError(w) ==
  /\ pc[w] = "write"
  /\ faults < MaxFaults
  /\ faults' = faults + 1
  /\ WriteBack(entry[w]) \/ UNCHANGED <<enriched, outbox>>
  /\ pc' = [pc EXCEPT ![w] = "fail"]
  /\ UNCHANGED <<catalogue, lastId, deployed, run>>

(* Mutants: off by one, equality instead of >=, attempts not counted.       *)
CountFailure_OneTooMany(r) ==
  [r EXCEPT !.attempts = @ + 1, !.failed = r.attempts >= MaxAttempts]
CountFailure_OnlyAtMax(r) ==
  [r EXCEPT !.attempts = @ + 1, !.failed = r.attempts + 1 = MaxAttempts]
CountFailure_NotCounted(r) ==
  [r EXCEPT !.failed = r.attempts + 1 >= MaxAttempts]

(* The UPDATE of RecordEnrichmentFailure; the lease stays.                 *)
CountFailure(r) ==
  [r EXCEPT !.attempts = @ + 1, !.failed = r.attempts + 1 >= MaxAttempts]

(* Fail updates the row if it still exists; ErrNoRows is only tallied.     *)
RecordFailure(w) ==
  /\ pc[w] = "fail"
  /\ outbox' = [i \in DOMAIN outbox |->
                  IF i = entry[w].id THEN CountFailure(outbox[i]) ELSE outbox[i]]
  /\ Done(w)
  /\ UNCHANGED <<catalogue, enriched, lastId, deployed,
                 version, pending, batch, faults>>

(* Fail itself errors: the attempt is lost and the run goes on.            *)
FailError(w) ==
  /\ pc[w] = "fail"
  /\ faults < MaxFaults
  /\ faults' = faults + 1
  /\ Done(w)
  /\ UNCHANGED <<db, deployed, version, pending, batch>>

(* The process dies, or Enqueue or Claim returns an error and the run is   *)
(* abandoned (log.Fatalf).                                                 *)
Crash(w) ==
  /\ pc[w] # "idle"
  /\ faults < MaxFaults
  /\ faults' = faults + 1
  /\ Reset(w)
  /\ UNCHANGED <<db, deployed>>

-----------------------------------------------------------------------------
Init ==
  /\ catalogue = Legacy
  /\ enriched = [j \in Jobs |-> 0]
  /\ outbox = [i \in {} |-> NewRow(i, 1)]
  /\ lastId = 0
  /\ deployed = 1
  /\ pc = [w \in Workers |-> "idle"]
  /\ version = [w \in Workers |-> 1]
  /\ pending = [w \in Workers |-> {}]
  /\ batch = [w \in Workers |-> {}]
  /\ entry = [w \in Workers |-> NoEntry]
  /\ held = [w \in Workers |-> 0]
  /\ faults = 0

RunStep(w) ==
  \/ Start(w) \/ Enqueue(w) \/ Claim(w) \/ Finish(w) \/ Take(w)
  \/ Answer(w) \/ NoAnswer(w) \/ Complete(w) \/ RecordFailure(w)

Fault(w) == CompleteError(w) \/ FailError(w) \/ Crash(w)

Next ==
  \/ \E j \in Jobs, v \in Versions : Ingest(j, v)
  \/ Deploy
  \/ Tick
  \/ \E w \in Workers : RunStep(w) \/ Fault(w)

Spec == Init /\ [][Next]_vars

(* cron starts a run again and again, a live process keeps going (the HTTP *)
(* client of the LLM gives up in the end), and time passes.                *)
FairSpec ==
  /\ Spec
  /\ WF_vars(Tick)
  /\ \A w \in Workers : WF_vars(RunStep(w))
-----------------------------------------------------------------------------
(* Properties.                                                             *)

Working == {"call", "recall", "write", "fail"}

(* The claims a run has in hand: the rest of its batch and its entry.      *)
Hands(w) == batch[w] \cup IF pc[w] \in Working THEN {entry[w]} ELSE {}

TypeOK ==
  /\ catalogue \subseteq Jobs
  /\ enriched \in [Jobs -> 0..MaxVersion]
  /\ lastId \in 0..MaxId
  /\ DOMAIN outbox \subseteq 1..lastId
  /\ \A i \in DOMAIN outbox : outbox[i] \in Row
  /\ deployed \in Versions
  /\ pc \in [Workers -> Steps]
  /\ version \in [Workers -> Versions]
  /\ pending \in [Workers -> SUBSET Jobs]
  /\ batch \in [Workers -> SUBSET Claimed]
  /\ entry \in [Workers -> Claimed \cup {NoEntry}]
  /\ \A w \in Workers : pc[w] \in Working => entry[w] \in Claimed
  /\ held \in [Workers -> 0..Lease]
  /\ faults \in 0..MaxFaults

(* The point of the transactional outbox: a job stored by ingest that was  *)
(* never enriched has a row in the queue, whatever has crashed, been       *)
(* retried, failed or been written late since (cmd/ingest/store.go Save,   *)
(* cmd/enrich/store.go Complete).                                          *)
QueuedUntilEnriched ==
  \A j \in catalogue \ Legacy :
    enriched[j] = 0 => \E i \in DOMAIN outbox : outbox[i].job = j

(* Two runs never have the same entry in hand while both their leases run: *)
(* a second claim waits for the lease of the first (ClaimEnrichmentBatch). *)
LeaseExclusive ==
  \A u, w \in Workers :
    u # w /\ held[u] > 0 /\ held[w] > 0 =>
      \A c \in Hands(u), d \in Hands(w) : c.id # d.id

(* An entry is dead-lettered exactly when its counted failures have reached *)
(* the maximum, also when late workers go on to fail it after that         *)
(* (RecordEnrichmentFailure).                                              *)
DeadIffExhausted ==
  \A i \in DOMAIN outbox : outbox[i].failed <=> outbox[i].attempts >= MaxAttempts

(* A result is written to the job of the row it deletes: what a run holds  *)
(* agrees with the row of that id for as long as the row exists, although  *)
(* the pair (job, version) may by then have been queued again under        *)
(* another id (Complete deletes by outbox id, not by pair).                *)
HandsMatchRows ==
  \A w \in Workers : \A c \in Hands(w) :
    c.id \in DOMAIN outbox =>
      outbox[c.id].job = c.job /\ outbox[c.id].target = c.target

(* Dead letters are final: a row with failed_at set is neither revived nor *)
(* leased again; it can only disappear, when a late run completes it.      *)
DeadIsFinal ==
  [][\A i \in DOMAIN outbox \cap DOMAIN outbox' :
       outbox[i].failed => outbox'[i].failed /\ outbox'[i].lease <= outbox[i].lease
    ]_outbox

(* The queue keeps the promise of WorkQueue for every job.                 *)
Phase(j) ==
  LET rows == {i \in DOMAIN outbox : outbox[i].job = j}
  IN IF j \notin catalogue THEN "absent"
     ELSE IF enriched[j] > 0 THEN "done"
     ELSE IF rows = {} THEN "waiting"
     ELSE IF \A i \in rows : outbox[i].failed THEN "dead"
     ELSE "queued"

Promise == INSTANCE WorkQueue WITH Items <- Jobs, phase <- [j \in Jobs |-> Phase(j)]

KeepsPromiseSafely == Promise!Safe
KeepsPromise == Promise!Spec

(* Every run ends: the drain loop does not feed on the retries it causes   *)
(* when leases run out under it (Runner.Run loops until a claim is empty). *)
RunsEnd == \A w \in Workers : pc[w] # "idle" ~> pc[w] = "idle"

(* Once the last version is out, every job ends up enriched at it, or its  *)
(* entry for it is dead-lettered; a late write-back of an older version    *)
(* (SetJobEnrichment does not compare versions) is only a detour.          *)
Converges ==
  <>[](\A j \in catalogue \ Legacy :
         \/ enriched[j] = deployed
         \/ \E i \in DOMAIN outbox :
              outbox[i].job = j /\ outbox[i].target = deployed /\ outbox[i].failed)
=============================================================================
