---------------------------- MODULE TelegramQueue ----------------------------
(***************************************************************************)
(* The telegram_posts queue: cmd/tg-ingest stores the posts of a channel   *)
(* once, any number of overlapping cmd/tg-extract runs claim one batch     *)
(* each, follow the links of a post or ask the LLM for its vacancies, and  *)
(* write the jobs and the completion of the post in one transaction, whose *)
(* upserts hold their rows until it ends.                                  *)
(*                                                                         *)
(* It looks like EnrichQueue and differs where it matters: rows are never  *)
(* deleted, a run ends after one batch, an error of Complete or Fail aborts *)
(* the run without counting an attempt, and the LLM call has no timeout.   *)
(***************************************************************************)
EXTENDS Naturals, FiniteSets

CONSTANTS
  Posts,      \* posts of all channels, numbered by posted_at
  Plausible,  \* posts whose text looks like a vacancy
  Links,      \* vacancies on sites a link source can read
  LinksOf,    \* the vacancies each post links to
  LinkOrder,  \* the order of the links of each post, as pairs
  MaxJobs,    \* vacancies the LLM finds in a post, at most
  Workers,    \* cmd/tg-extract processes that may be alive at the same time
  BatchSize,  \* batchSize
  Lease,      \* leaseSeconds, in ticks
  MaxAttempts,\* maxAttempts
  MaxFaults   \* bound: database errors, hanging calls and process crashes

ASSUME TelegramAssumption ==
  /\ Posts \subseteq Nat \ {0}
  /\ Plausible \subseteq Posts
  /\ LinksOf \in [Posts -> SUBSET Links]
  /\ LinkOrder \in [Posts -> SUBSET (Links \X Links)]
  /\ MaxJobs \in Nat
  /\ BatchSize \in Nat \ {0}
  /\ Lease \in Nat \ {0}
  /\ MaxAttempts \in Nat \ {0}
  /\ MaxFaults \in Nat

VARIABLES
  queue,   \* telegram_posts: post -> row
  jobs,    \* vacancies written to the jobs table
  pc,      \* where each run stands
  batch,   \* claimed posts the run has not started on
  post,    \* the post the run is working on
  result,  \* the vacancies it is about to write
  written, \* those its open transaction has upserted, seen by nobody else
  held,    \* history: time left on the lease of the run's claim
  faults   \* history: faults so far

db == <<queue, jobs>>
hands == <<batch, post, result, written, held>>
vars == <<queue, jobs, pc, batch, post, result, written, held, faults>>

Row == [attempts : Nat, failed : BOOLEAN, extracted : BOOLEAN, lease : 0..Lease]

NoPost == 0

(* Mutant: the numbers of the vacancies of a post run from 0 to n.          *)
Extracted_OneTooMany(p, n) == {<<p, i>> : i \in 0..n}

(* The identity of a job: that of the page a link leads to, or             *)
(* <channel>/<msg_id>/<n>, here counted from 1.                            *)
Extracted(p, n) == {<<p, i>> : i \in 1..n}
Identities == Links \cup (Posts \X (1..MaxJobs))

Steps == {"idle", "next", "resolve", "extract", "write", "fail", "hung"}

-----------------------------------------------------------------------------
(* The crawl.                                                              *)

IsVacancy(p) == p \in Plausible \/ LinksOf[p] # {}

NewRow(p) ==
  [attempts |-> 0, failed |-> FALSE, extracted |-> ~IsVacancy(p), lease |-> 0]

(* Mutant: a post that is crawled again overwrites its row.                 *)
Insert_Overwrites(p) ==
  /\ queue' = [q \in DOMAIN queue \cup {p} |-> IF q = p THEN NewRow(p) ELSE queue[q]]
  /\ UNCHANGED <<jobs, pc, hands, faults>>

(* A post on the preview page of its channel is stored, or left alone if   *)
(* it is stored already (ON CONFLICT DO NOTHING).                          *)
Insert(p) ==
  /\ queue' = [q \in DOMAIN queue \cup {p} |->
                 IF q \in DOMAIN queue THEN queue[q] ELSE NewRow(q)]
  /\ UNCHANGED <<jobs, pc, hands, faults>>

-----------------------------------------------------------------------------
Less(n) == IF n = 0 THEN 0 ELSE n - 1

(* A unit of time passes for every lease.                                  *)
Tick ==
  /\ \/ \E p \in DOMAIN queue : queue[p].lease > 0
     \/ \E w \in Workers : held[w] > 0
  /\ queue' = [p \in DOMAIN queue |-> [queue[p] EXCEPT !.lease = Less(@)]]
  /\ held' = [w \in Workers |-> Less(held[w])]
  /\ UNCHANGED <<jobs, pc, batch, post, result, written, faults>>

-----------------------------------------------------------------------------
(* One run of cmd/tg-extract.                                              *)

(* Mutant: the claim forgets the lease.                                     *)
Claimable_Leased == {p \in DOMAIN queue : ~queue[p].extracted /\ ~queue[p].failed}

Claimable == {p \in DOMAIN queue :
                ~queue[p].extracted /\ ~queue[p].failed /\ queue[p].lease = 0}

(* What the transaction of a run has yet to upsert.                        *)
Rest(w) == result[w] \ written[w]

(* Links are resolved, and vacancies extracted, in the order of the post.  *)
Precedes(p, j, k) ==
  \/ <<j, k>> \in LinkOrder[p]
  \/ \E m, n \in 1..MaxJobs : m < n /\ j = <<p, m>> /\ k = <<p, n>>

First(w) == {j \in Rest(w) : \A k \in Rest(w) : ~Precedes(post[w], k, j)}

(* Rows another run has marked or counted and not committed: SKIP LOCKED   *)
(* passes over them.                                                       *)
Locked(w) ==
  {post[u] : u \in {x \in Workers \ {w} : pc[x] \in {"write", "fail"} /\ Rest(x) = {}}}

(* The oldest BatchSize of the claimable posts.                            *)
Oldest(S, avail) ==
  /\ S \subseteq avail
  /\ Cardinality(S) = IF Cardinality(avail) < BatchSize
                      THEN Cardinality(avail) ELSE BatchSize
  /\ \A p \in S, q \in avail \ S : p < q

(* The run starts with its only claim; without a post to claim it ends.    *)
Claim(w) ==
  /\ pc[w] = "idle"
  /\ \E skipped \in SUBSET (Claimable \cap Locked(w)) :
     \E S \in SUBSET (Claimable \ skipped) :
       /\ Oldest(S, Claimable \ skipped)
       /\ S # {}
       /\ queue' = [p \in DOMAIN queue |->
                      IF p \in S THEN [queue[p] EXCEPT !.lease = Lease] ELSE queue[p]]
       /\ batch' = [batch EXCEPT ![w] = S]
  /\ held' = [held EXCEPT ![w] = Lease]
  /\ pc' = [pc EXCEPT ![w] = "next"]
  /\ UNCHANGED <<jobs, post, result, written, faults>>

(* RETURNING fixes no order.                                               *)
Take(w) ==
  /\ pc[w] = "next"
  /\ \E p \in batch[w] :
       /\ post' = [post EXCEPT ![w] = p]
       /\ batch' = [batch EXCEPT ![w] = @ \ {p}]
  /\ pc' = [pc EXCEPT ![w] = "resolve"]
  /\ UNCHANGED <<db, result, written, held, faults>>

(* The links are followed.  What could be read of them is all that will be *)
(* written; if nothing could, a failed link fails the post, and links that *)
(* turn out to be no vacancies leave it to the LLM.                        *)
ResolveLinks(w) ==
  /\ pc[w] = "resolve"
  /\ \E found \in SUBSET LinksOf[post[w]] :
       /\ result' = [result EXCEPT ![w] = found]
       /\ \/ found # {} /\ pc' = [pc EXCEPT ![w] = "write"]
          \/ found = {} /\ pc' = [pc EXCEPT ![w] = "extract"]
          \/ /\ found = {} /\ LinksOf[post[w]] # {}
             /\ pc' = [pc EXCEPT ![w] = "fail"]
  /\ UNCHANGED <<db, batch, post, written, held, faults>>

(* The LLM answers with any number of vacancies ...                        *)
Extract(w) ==
  /\ pc[w] = "extract"
  /\ \E n \in 0..MaxJobs :
       result' = [result EXCEPT ![w] = Extracted(post[w], n)]
  /\ pc' = [pc EXCEPT ![w] = "write"]
  /\ UNCHANGED <<db, batch, post, written, held, faults>>

(* ... with an error or an invalid payload ...                             *)
NoExtraction(w) ==
  /\ pc[w] = "extract"
  /\ pc' = [pc EXCEPT ![w] = "fail"]
  /\ UNCHANGED <<db, hands, faults>>

(* ... or not at all: nothing bounds the call.                             *)
Hang(w) ==
  /\ pc[w] = "extract"
  /\ faults < MaxFaults
  /\ faults' = faults + 1
  /\ pc' = [pc EXCEPT ![w] = "hung"]
  /\ UNCHANGED <<db, hands>>

(* The run goes on with its batch, and ends with it.                       *)
Done(w) ==
  /\ pc' = [pc EXCEPT ![w] = IF batch[w] = {} THEN "idle" ELSE "next"]
  /\ post' = [post EXCEPT ![w] = NoPost]
  /\ result' = [result EXCEPT ![w] = {}]
  /\ written' = [written EXCEPT ![w] = {}]
  /\ held' = IF batch[w] = {} THEN [held EXCEPT ![w] = 0] ELSE held

Leave(w) ==
  /\ pc' = [pc EXCEPT ![w] = "idle"]
  /\ batch' = [batch EXCEPT ![w] = {}]
  /\ post' = [post EXCEPT ![w] = NoPost]
  /\ result' = [result EXCEPT ![w] = {}]
  /\ held' = [held EXCEPT ![w] = 0]

Exit(w) == Leave(w) /\ written' = [written EXCEPT ![w] = {}]

(* Mutant: the upserts are not made in the transaction.                     *)
Upsert_Autocommit(w, j) ==
  /\ pc[w] = "write"
  /\ j \in First(w)
  /\ written' = [written EXCEPT ![w] = @ \cup {j}]
  /\ jobs' = jobs \cup {j}
  /\ UNCHANGED <<queue, pc, batch, post, result, held, faults>>

(* The transaction of Complete and CompleteLinks upserts the vacancies one *)
(* by one, and waits for a row another open transaction has upserted.      *)
Upsert(w, j) ==
  /\ pc[w] = "write"
  /\ j \in First(w)
  /\ \A u \in Workers \ {w} : j \notin written[u]
  /\ written' = [written EXCEPT ![w] = @ \cup {j}]
  /\ UNCHANGED <<db, pc, batch, post, result, held, faults>>

(* Then it marks the post, dead-lettered or not, and commits.              *)
Commit(w) ==
  /\ Rest(w) = {}
  /\ jobs' = jobs \cup written[w]
  /\ queue' = [queue EXCEPT ![post[w]].extracted = TRUE]

Complete(w) ==
  /\ pc[w] = "write"
  /\ Commit(w)
  /\ Done(w)
  /\ UNCHANGED <<batch, faults>>

(* Complete returns an error, rolled back or with the acknowledgement      *)
(* lost: the run is over, the failure is counted nowhere, and the rest of  *)
(* the batch waits for its lease.                                          *)
CompleteError(w) ==
  /\ pc[w] = "write"
  /\ faults < MaxFaults
  /\ faults' = faults + 1
  /\ Commit(w) \/ UNCHANGED db
  /\ Exit(w)

(* Transactions that wait for each other's rows.                           *)
Deadlocked(W) ==
  \A w \in W : /\ pc[w] = "write"
               /\ Rest(w) # {}
               /\ \A j \in First(w) : \E u \in W \ {w} : j \in written[u]

(* Postgres aborts one of them, which is an error of Complete like any     *)
(* other, and the row it had goes to the one that waits for it.            *)
DeadlockAbort(w) ==
  /\ \E W \in SUBSET Workers :
       /\ w \in W /\ Deadlocked(W)
       /\ \E u \in W \ {w} : \E j \in First(u) \cap written[w] :
            written' = [written EXCEPT ![w] = {}, ![u] = @ \cup {j}]
  /\ Leave(w)
  /\ UNCHANGED <<db, faults>>

(* Mutant: attempts are never counted.                                      *)
CountFailure_NotCounted(r) == [r EXCEPT !.failed = r.attempts + 1 >= MaxAttempts]

(* RecordTelegramPostFailure; the lease stays.                             *)
CountFailure(r) ==
  [r EXCEPT !.attempts = @ + 1, !.failed = r.attempts + 1 >= MaxAttempts]

RecordFailure(w) ==
  /\ pc[w] = "fail"
  /\ queue' = [queue EXCEPT ![post[w]] = CountFailure(@)]
  /\ Done(w)
  /\ UNCHANGED <<jobs, batch, faults>>

(* Fail errors: the run is over too.                                       *)
FailError(w) ==
  /\ pc[w] = "fail"
  /\ faults < MaxFaults
  /\ faults' = faults + 1
  /\ Exit(w)
  /\ UNCHANGED db

(* The process dies or is killed.                                          *)
Crash(w) ==
  /\ pc[w] # "idle"
  /\ faults < MaxFaults
  /\ faults' = faults + 1
  /\ Exit(w)
  /\ UNCHANGED db

-----------------------------------------------------------------------------
Init ==
  /\ queue = [p \in {} |-> NewRow(p)]
  /\ jobs = {}
  /\ pc = [w \in Workers |-> "idle"]
  /\ batch = [w \in Workers |-> {}]
  /\ post = [w \in Workers |-> NoPost]
  /\ result = [w \in Workers |-> {}]
  /\ written = [w \in Workers |-> {}]
  /\ held = [w \in Workers |-> 0]
  /\ faults = 0

RunStep(w) ==
  \/ Claim(w) \/ Take(w) \/ ResolveLinks(w) \/ Extract(w) \/ NoExtraction(w)
  \/ \E j \in result[w] : Upsert(w, j)
  \/ Complete(w) \/ DeadlockAbort(w) \/ RecordFailure(w)

Fault(w) == Hang(w) \/ CompleteError(w) \/ FailError(w) \/ Crash(w)

Next ==
  \/ \E p \in Posts : Insert(p)
  \/ Tick
  \/ \E w \in Workers : RunStep(w) \/ Fault(w)

Spec == Init /\ [][Next]_vars

(* cron starts a run again and again, a run that does not hang goes on,    *)
(* Postgres resolves deadlocks, and time passes.                           *)
FairSpec ==
  /\ Spec
  /\ WF_vars(Tick)
  /\ \A w \in Workers : WF_vars(RunStep(w))

-----------------------------------------------------------------------------
(* Properties.                                                             *)

Working == {"resolve", "extract", "write", "fail", "hung"}
Hands(w) == batch[w] \cup IF pc[w] \in Working THEN {post[w]} ELSE {}

TypeOK ==
  /\ DOMAIN queue \subseteq Posts
  /\ \A p \in DOMAIN queue : queue[p] \in Row
  /\ jobs \subseteq Identities
  /\ pc \in [Workers -> Steps]
  /\ batch \in [Workers -> SUBSET Posts]
  /\ post \in [Workers -> Posts \cup {NoPost}]
  /\ result \in [Workers -> SUBSET Identities]
  /\ written \in [Workers -> SUBSET Identities]
  /\ held \in [Workers -> 0..Lease]
  /\ faults \in 0..MaxFaults

(* A post is never half-persisted: whenever a vacancy enters the catalogue *)
(* or a stored post is marked, it is one run that marks its post and no    *)
(* other, and everything it has found in that post is there from then on,  *)
(* however runs crash, overlap, wait for each other's rows or lose an      *)
(* acknowledgement (extractStore.Complete).                                *)
Extracts(p) == ~queue[p].extracted /\ queue'[p].extracted

PersistedWhole ==
  [][(jobs' # jobs \/ \E p \in DOMAIN queue : Extracts(p)) =>
       \E w \in Workers :
         /\ pc[w] = "write" /\ queue'[post[w]].extracted
         /\ result[w] \subseteq jobs' /\ jobs' \subseteq jobs \cup result[w]
         /\ \A p \in DOMAIN queue \ {post[w]} : ~Extracts(p)]_db

(* Two runs never work on one post while the leases of both run.           *)
LeaseExclusive ==
  \A u, w \in Workers :
    u # w /\ held[u] > 0 /\ held[w] > 0 => Hands(u) \cap Hands(w) = {}

(* A row that is settled stays so: neither a crawl that meets the post     *)
(* again nor a late run takes extracted_at or failed_at back, and nobody   *)
(* leases it again.                                                        *)
SettledIsFinal ==
  [][\A p \in DOMAIN queue : queue[p].extracted \/ queue[p].failed =>
       /\ p \in DOMAIN queue'
       /\ queue[p].extracted => queue'[p].extracted
       /\ queue[p].failed => queue'[p].failed
       /\ queue'[p].lease <= queue[p].lease]_queue

(* The queue keeps the promise of WorkQueue for every post: what is stored *)
(* is extracted or dead-lettered in the end, across crashes, aborted runs  *)
(* and hanging calls.                                                      *)
Phase(p) ==
  CASE p \notin DOMAIN queue -> "absent"
    [] p \in DOMAIN queue /\ queue[p].extracted -> "done"
    [] p \in DOMAIN queue /\ ~queue[p].extracted /\ queue[p].failed -> "dead"
    [] p \in DOMAIN queue /\ ~queue[p].extracted /\ ~queue[p].failed -> "queued"

Promise == INSTANCE WorkQueue WITH Items <- Posts, phase <- [p \in Posts |-> Phase(p)]

KeepsPromise == Promise!Spec
=============================================================================
