# Verification of freehire

freehire aggregates job postings: cron-driven workers crawl boards and Telegram
channels into one Postgres table, enrich what they find with an LLM, close what
has gone, and copy the open jobs into Meilisearch; a server reads both and keeps
accounts and what they do with jobs. The workers are separate run-once
processes. They share nothing but the database and nothing in the repository
keeps two runs of one of them from overlapping, and every request of the server
is a sequence of statements next to other requests, so the hard part of the
system is what its SQL statements and transactions do when runs and requests
interleave, fail, die and come back. That is what these modules are about.

Source paths are relative to the repository (`src/` in `PROJECT.json`).

## Contents

| file | what it is |
|---|---|
| `WorkQueue.tla` | abstract: what a Postgres work queue promises about one item |
| `EnrichQueue.tla` | enrichment outbox, `cmd/enrich`, and the enqueue in `cmd/ingest` |
| `EnrichRun.tla` | `EnrichQueue` with a history per run |
| `JobLifecycle.tla` | opening and closing of jobs: crawl, sweep, probes |
| `TelegramQueue.tla` | `cmd/tg-ingest` and `cmd/tg-extract` |
| `TelegramRetries.tla` | `TelegramQueue` with a history of the work that came to nothing |
| `SearchIndex.tla` | `cmd/reindex` and the Meilisearch index |
| `Accounts.tla` | accounts, sessions, OAuth sign-in, API keys |
| `UserJobs.tla` | what accounts do with jobs; extends `Accounts` |
| `Catalogue.tla` | `cmd/reslug`, `cmd/backfill-geo`, `cmd/backfill-skills`, companies |
| `Adapters.tla` | the requests of the 31 source adapters, as records |
| `Fetching.tla` | one `Source.Fetch` over the shared HTTP client; extends `Adapters` |
| `MC*.tla`, `*.cfg` | instances for TLC |
| `EnrichQueueProofs.tla`, `JobLifecycleProofs.tla`, `TelegramQueueProofs.tla`, `SearchIndexProofs.tla`, `CatalogueProofs.tla`, `FetchingProofs.tla` | theorems about the module of that name, checked by TLAPS |
| `UserJobsProofs.tla` | theorems about `UserJobs` and the `Accounts` it extends |
| `KeysetPages.tla` | lemmas about keyset scans, for the proofs of the two modules that have them |

## Inventory

| component | state | operations | hard behaviour | what makes it correct | module |
|---|---|---|---|---|---|
| enrichment queue (`internal/enrich`, `cmd/enrich`, `enrichment.sql`) | `enrichment_outbox`, enrichment columns of `jobs` | enqueue, claim, call LLM, complete, fail | overlapping runs, leases that run out under a slow batch, late and lost write-backs, version bumps | no job is lost, leases exclude, results land on their job, every entry ends | `EnrichQueue` |
| crawl and sweep (`internal/pipeline`, `cmd/ingest`) | `jobs`, per-run statistics | fetch boards concurrently, save, cutoff, sweep per provider | outages, partial boards, stale fetches, overlapping crawls | closes only on evidence, reopens what is listed | `JobLifecycle` |
| orphan liveness (`internal/liveness`, `cmd/liveness`) | `liveness_strikes`, `closed_at` | select, probe, strike, reset | decisions on a count read earlier | closes only its own jobs, after consecutive expired reads | `JobLifecycle` |
| Telegram (`internal/telegram`, `internal/linksource`, `cmd/tg-*`) | `telegram_posts`, `jobs` | insert post, claim, resolve links, extract, complete, fail | calls without a timeout, aborted runs, several jobs in one transaction | posts are persisted whole and once settled stay so | `TelegramQueue` |
| search index (`internal/search`, `cmd/reindex`, `internal/jobview`) | Meilisearch documents and tasks | keyset scan, index, delete | commits out of id order, queued tasks of dead runs, merged documents | the index shows exactly the open jobs | `SearchIndex` |
| accounts (`internal/handler`, `internal/auth`) | `users`, `user_identities`, `api_keys`, cookies of the clients | register, login, OAuth callback, key management | lookup-then-insert races, lost commits, accounts removed under a request | one account per email and per identity, keys under sessions | `Accounts` |
| job tracking (`user_jobs`) | one row per account and job | view, apply, save, unsave, track, list | concurrent partial updates, two-statement reads | no request undoes another's column, the page agrees with its total | `UserJobs` |
| catalogue maintenance (`cmd/reslug`, `cmd/backfill-*`, `companies.sql`) | slugs, companies, derived columns | scan and rewrite, sync, delete orphans | writes computed from stale pages, deletion under an upsert, crashes half-way | every job's company exists, columns agree, in the end | `Catalogue` |
| fetching (`internal/sources`) | none | six ways of paging, detail fan-out, retries | failing attempts, boards that change while they are read, servers that do not advance | no silent loss, bounded waits, an end | `Fetching`, `Adapters` |
| search queries, dictionaries, configuration, read endpoints, contract generator, frontend, scripts | none of their own | | sequential or I/O | | not modelled |

How they interact: `cmd/ingest` and `cmd/tg-extract` store a job and queue its
enrichment in one transaction (`cmd/ingest/store.go`, `cmd/tg-extract/store.go`);
`cmd/enrich` writes back to the job and deletes the entry in one transaction; the
sweep and the probes both write `closed_at`; `cmd/reindex` reads all of it and
writes elsewhere. The modules are cut along the columns: each keeps the part of a
job row its mechanism reads and writes, and the environment's writes to that part
are actions of the module (`Ingest` in `EnrichQueue`, `Post` in `JobLifecycle`,
`Edit` in `SearchIndex`, `UpsertJob` in `Catalogue`). `Fetching` is the inside of what
`JobLifecycle` takes as one `Fetch`: its `Complete` says when a fetch may leave out a
listed posting, which is what the sweep then closes. `UserJobs` composes with `Accounts`:
its requests are those of the same clients, let in by the same middleware, and a removed
account takes its rows along. The hazards found in this code are listed, line by line, in
`PROJECT.json`, with the properties that would catch each.

## The modules and the code

**WorkQueue.** One item is absent, waiting, queued, dead or done; it may be queued,
finished (also after it was given up, by a late worker) or given up, and a queued
one is finished or given up in the end. `EnrichQueue` and `TelegramQueue` implement
it by `INSTANCE ... WITH` and a `Phase` computed from the tables.

**EnrichQueue.** `outbox` is the table, `catalogue` and `enriched` what matters of
`jobs`. `claimed_at` is only compared with the lease, so a row carries the time
left on it and `Tick` lets time pass. A run is a program counter: `Start` and
`Enqueue` are the two halves of `EnqueuePendingJobs` (its snapshot, then its
inserts), `Claim` is `ClaimEnrichmentBatch` with `FOR UPDATE SKIP LOCKED` (rows
another run is writing may be skipped), `Take`, `Answer` and `NoAnswer` are
`process` and `enrich` with the one repeated call, `Complete` and `RecordFailure` the
two transactions. `CompleteError` covers a rollback and a commit whose
acknowledgement is lost; `Crash` any death of the process and every `log.Fatalf`.
`Deploy` bumps `enrich.Version`; old binaries may go on ingesting. `held` is a
history variable: the lease as the run that took it could measure it.

**JobLifecycle.** A posting stands for its `(source, external_id)`. `last_seen_at`
is only compared with the cutoff, so a row carries its age up to the first value
that is old enough. A crawl fetches the boards of its file (at most `Slots` of them
unsaved at a time), saves postings one by one, takes one cutoff (`old`) and sweeps
the providers it ingested something of. A probe run selects its candidates once with
their strikes, fetches, judges and acts. Every page may give every verdict: what
`Classify` concludes from a page is not part of this module. A fault is a failed
board or detail request, a failed write, a commit whose acknowledgement is lost, or a crash.
`streak` and `unreset` are history: how often a page has been read expired since it was last
read live, counted at the reads whatever becomes of the writes, and the postings that were read
live while the write that should clear their strikes was lost (`ResetLivenessStrikes` failed,
which is only logged, or the process died first).

**TelegramQueue.** As `EnrichQueue`, with the post as its own queue entry, the link path
before the LLM path, a `Hang` (the LLM client of `cmd/tg-extract` has no timeout), and
an error of `Complete`, `CompleteLinks` or `Fail` ending the run. The transaction of
`Complete` and `CompleteLinks` is one `Upsert` per vacancy, in the order of the post, and then
`Commit`. What it has upserted is in `written`: nobody sees it, and another transaction that
upserts the same row waits until it has ended. Transactions that wait for each other are
`Deadlocked`; Postgres aborts one (`DeadlockAbort`), which ends that run like any other error,
and its row goes to the one that waits for it. `TelegramRetries` adds a history of the posts
that could not be extracted or written, for the retry budget only.
Which posts look like vacancies, and which links they have in which order, are constants.

**SearchIndex.** A transaction takes its id (`Allocate`) before it commits
(`Commit`); a run reads pages in the order of ids, sends a task of documents and a
task of deletions and waits for each; Meilisearch works off its queue in order
(`Process`), including the tasks of runs that have died. `Merge` is the effect of
`PUT /documents`: fields a document leaves out stay. This and the queue are the only
parts modelled from how the code uses a service.

**Accounts.** An email stands for its lower-cased form. A request is a program counter and
what it has read (`local`). The password endpoints are one insert or one read each, so
one step; the OAuth callback is one step per statement of `resolveOAuthUser` and
`linkOrCreateUser`. What an open transaction has inserted is in `made` and `linked`: nobody
sees it, and an insert of the same key waits until it has ended (`EmailPending`,
`IdentityPending`), which is how Postgres enforces a unique index. A unique violation rolls
back and looks the identity up once more (`LostRace`, `RetryFails`). `SignInError` is a failed
statement, or a commit whose acknowledgement is lost. A session is a cookie that the server cannot end:
it outlives its account. `Register` may be refused by the database, or insert the account and lose the
acknowledgement; the client then has no session. `RemoveUser` is external: the repository has no
endpoint for it, but the schema says what it does (`ON DELETE CASCADE`). `vouched`, `opened`
and `contested` are history.

**UserJobs.** A timestamp is whether it is set. `Ask` is the middleware and the validation of
a request, `Interact` its upsert, some steps of others later; `ListUserJobs` and `Respond`
are the two statements of the list. `decided` is history: the stages an account has
tracked.

**Catalogue.** A run reads a page (`Read`), then rewrites its rows one by one
(`Rewrite`), each with what it computes from the row as it was in the page, over the row as it is
then; a statement that would change nothing of the page's row is not issued.
`DeleteOrphanCompanies` is two steps, because the statement sees the jobs as they were when
it began and deletes a company although an upsert has come meanwhile
(`FindOrphans`, `DeleteOrphans`; a row that was updated is re-read for the conditions on
the company only). `Deploy` changes the slug builder, which is what reslug is for; a binary keeps
the builder it was built with, and crawls of the old one may go on saving (`ingests`) until the last
of them has ended (`Retire`). Rows start as the migrations left them: derived columns
empty. `fresh`, `quiet` and `late` are history.

**Adapters and Fetching.** `Adapters` has one record per platform: whether its board id is parsed,
whether a request precedes the listing, how the listing is paged, what is left out, how details are
requested. `Fetching` runs one of them. `Received`, `Counted`, `Offset`, `Cursor` and
`Fresh` say where each way of paging goes next; the last one ends at a page that has no new link,
and `ttJobLinks` has dropped the links without an id by then (`Linked`). A server is honest, stale (the first page
whatever it is asked for) or boastful (it counts postings it has not). `Retry`, `Fails` and
`Succeeds` are the ends of an attempt in `Client.do`; `RetryAfter` computes in the width of a
`time.Duration`, scaled down: a second is 4 units of an 8-bit number, the cap is 120 units, so a hint of
31 seconds is above the cap and one of 40 overflows.

## What TLC checks

| run | question | instance | result |
|---|---|---|---|
| `enrich_safety` | does the outbox keep its promises when runs overlap, crash and fail to write? | 2 jobs (one older than the outbox), 2 runs, batch 2, lease 2, 2 attempts, 4 ids, 2 faults | holds |
| `enrich_liveness` | does every run end, every entry end, and the catalogue converge on the last version? | 1 job, 2 runs, batch 1, 2 versions, 1 fault, ids enough never to run out | holds |
| `enrich_same_run` | "a failed entry is never reprocessed within the same run" | 1 run, 2 jobs in one batch, no fault | violated |
| `lifecycle` | do sweep and probes close only their own jobs, on their own evidence, is what is listed reopened, and what is gone closed for good? | 2 overlapping crawls (one of `lever/a`, one of `lever/b` and `ashby/c`), 1 probe run, 3 postings (one on each `lever` board, one from Telegram), grace 0, 2 strikes, 1 link post, 1 fault | holds |
| `lifecycle_overlapping_probes` | CONSECUTIVE expired reads | 2 probe runs, 1 posting, no fault | violated |
| `telegram_queue` | are posts leased to one run, persisted whole, settled for good, and settled in the end? | 2 runs, 2 posts that link to the same 2 vacancies in opposite orders, one of them readable by the LLM, batch 2, 2 attempts, 1 fault | holds |
| `telegram_retries` | the retry budget per post | 1 run, 3 posts (linked, plain, small talk), 2 faults | violated |
| `search_index` | does a run synchronize the index, and do overlapping ones in the end? | 2 runs, 2 ids, page 1, 2 edits, 1 fault | holds |
| `reindex_drift` | can index and endpoints drift apart? | 1 run, 1 row, 1 edit | violated |
| `server` | do racing sign-ins end in one account each, do keys stay under sessions, does no interaction undo another? | 2 clients, 2 emails, 2 identities, 3 user ids, 2 keys, 2 jobs; three budgets: 3 sign-ins, or 2 with 2 key requests and 1 interaction, or 1 with 4 interactions; 1 fault | holds |
| `catalogue` | what do maintenance runs deliver, what can they lose, and do later crawls heal it? | 2 runs of any command, 2 rows (one crawled), page 1, 2 postings, 2 slug builders, 1 edit, failed statement or crash | holds |
| `fetching` | what may a fetch without an error leave out, what does it tolerate, does it end? | all adapters, 3 servers, all boards of up to 3 postings, page 2, 2 pages at most for Teamtailor, 2 postings without an id, 2 retries, 3 failures that recover, 1 that does not, 1 change of the board | holds |

**Bounds.** Two runs are enough for every race here: each is between one run's stale
knowledge (a claim, a selection, a page) and one other writer. Two items are enough
for a batch to have a rest that waits while the first is worked on. A batch, page or
slot count below the number of items makes the loop go round. A lease or a
grace of 1 or 2 ticks distinguishes running, running out and run out; attempts and
strikes of 2 have a first failure that must not and a last one that must take
effect (2 is also the real `closeThreshold` and `maxAttempts` of `cmd/tg-extract`).
Faults are bounded by 1 or 2: one to break the run and, in the safety runs, one more
to break the recovery. `MaxId` in `enrich_liveness` lies above the ids the instance
can use, so that the guard never hides a behaviour from the liveness properties.
In `server` three sign-ins are two that race and one that comes after; the budgets
split the requests by what they race about, since sign-ins, keys and interactions meet only in the
account. Three user ids are what three sign-ins can use up, failed inserts included.
The crawls of `lifecycle` have a board of one provider each, with a posting on both, so that one
posting can go while the other keeps the provider swept, and one crawl saves what it fetched before
the other's sweep; the second provider is the one a failed sweep leaves unswept. Its grace is 0,
which is past after one tick. In `telegram_queue` two linked vacancies are enough for a transaction
that has one row and waits for another, and for half a post; a post that is no vacancy is settled
when it is inserted and never claimed, so only `telegram_retries` has one. In `catalogue` a run has
both a page before and a page after the row the crawl writes; a run may stop anywhere without a
fault, because no run is fair, and edits and faults share a bound because each of them alone gives a
loss, with crawls and the other run around it. The two postings differ in every derived column, and the second builder gives
a slug to a name that had none. In `fetching` three postings are one page and a part of the next,
two of them have no id where a platform may leave it out, so that a whole page can be without one,
three recoverable failures are one more than a request survives, and the board may
change before, between and after the two pages. Deadlock is checked in every run but
`lifecycle_overlapping_probes`, which has no crawl and is over when its only posting is closed.

**Fairness.** Safety is checked under none. Liveness assumes that time passes and
that each worker takes its steps as long as it can: cron starts a run-once worker again
and again (README.md "Workers", AGENT.md), and the requests of a live process end (90 s
in `internal/enrich/langchain.go`, 15 s in `internal/sources/http.go` and
`cmd/liveness`). The LLM call of `cmd/tg-extract` has no timeout, so there a hanging
run is a fault, and another run must take over. Transactions that wait for each other go on,
because Postgres aborts one of them, and the row of the aborted one goes to the one that has
waited for it. Failed calls are not faults and not
bounded: a provider may fail for ever, and entries are dead-lettered then. Nothing is
assumed of the writers in `SearchIndex`, nor of boards, channels and pages. In `Catalogue`
only the crawls are fair: they come again, and those of an old binary end (they are run-once
processes). The commands are started by hand, may stop anywhere and need not be
started again. In `Fetching` the fetch goes on as long as it can; failing attempts are
bounded there per fetch, and so are changes of the board (one that grows faster than
it is read is not considered). Nothing cancels a fetch: `cmd/ingest` passes
`context.Background()`.

**What the violated runs show.** Each contradicts a sentence of the repository, quoted in
`PROJECT.json` under "findings":
- the lease of an entry is counted from its claim, so a run that outlives it takes up
  an entry it has itself failed;
- whether a live page clears the strikes is decided from the count at selection, so
  with two overlapping runs the reads expired, live, expired close a job (and with a single
  worker they do when the reset fails, which is only logged: the same instance with
  `Probers = {"w1"}` and `MaxFaults = 1` violates the property as well);
- a failed write in `cmd/tg-extract` counts no attempt, so such a post is tried for ever;
- `work_mode` is omitted when empty and documents are merged, so a cleared work mode stays in
  the index for as long as the job is open.

## What is proved

The proofs are about the same `Spec` that TLC checks, for every value of the constants
that satisfies the module's assumption: any number of runs, clients, jobs, postings and ids,
any positive batch size, lease, attempt limit or threshold, and any bounds. What the
assumptions say beyond "a number" or "positive":

- `Jobs` in `EnrichQueue` and `Ids` in `Catalogue` are finite, because a statement numbers
  or counts rows there. Posts and ids are numbers from 1 on, as identity sequences give them.
- `Nobody` is none of the clients, runs or ids: it is how a request without an account and a
  task without a sender are written.
- In `Fetching` the fixed retry delay is not above the cap of `retryAfter`, as it is in
  `http.go`; seconds, hints and the width of a `Duration` are any numbers.
- `Entries` of a crawl are boards of registered providers, which is what `cmd/ingest`
  builds its tasks from.

| module | theorem | property |
|---|---|---|
| `EnrichQueueProofs` | `TypeCorrect` | `TypeOK` |
| | `NoWorkIsLost` | `QueuedUntilEnriched` |
| | `LeasesExclude` | `LeaseExclusive` |
| | `HandsAgreeWithRows` | `HandsMatchRows` |
| | `DeadMeansExhausted` | `DeadIffExhausted` |
| | `DeadLettersStay` | `DeadIsFinal` |
| | `ImplementsWorkQueue` | `KeepsPromiseSafely` |
| `JobLifecycleProofs` | `TypeCorrect` | `TypeOK` |
| | `SweepsAreJustified` | `SweepJustified` |
| | `ProbesKeepToOrphans` | first half of `Territories`, without a hypothesis |
| | `TerritoriesKept` | `Territories`, if probe runs do not overlap |
| | `ProbesAreJustified` | `ProbesJustified`, if probe runs do not overlap |
| `TelegramQueueProofs` | `TypeCorrect` | `TypeOK` |
| | `PostsPersistedWhole` | `PersistedWhole` |
| | `LeasesExclude` | `LeaseExclusive` |
| | `SettledStays` | `SettledIsFinal` |
| | `ImplementsWorkQueue` | safety half of `KeepsPromise` |
| `SearchIndexProofs` | `TypeCorrect` | `TypeOK` |
| | `RunsSynchronize` | `RunSynchronizes` |
| `UserJobsProofs` | `TypeCorrect` | `TypeOK` |
| | `AccountsStaySound` | `AccountsSound` |
| | `SignInsResolve` | `SignInResolves` |
| | `SignInsLoseOnlyToOthers` | `LosesOnlyToOthers` |
| | `KeysNeedSessions` | `KeysBelongToSessions` |
| | `TrackingStays` | `TrackingWins` |
| | `InteractionsAddUp` | `NothingUndone` |
| | `PagesMatchTotals` | `PageMatchesTotals` |
| `CatalogueProofs` | `TypeCorrect` | `TypeOK` |
| | `RunsDeliver` | `RunDelivers` |
| | `LossesAreExplained` | `LossesExplained` |
| `FetchingProofs` | `TypeCorrect` | `TypeOK` |
| | `FetchesAreComplete` | `Complete` |
| | `FailuresAreTolerated` | `Tolerates` |

In each module `InvariantCorrect` proves `Spec => []IInv`, and the rest follows from `IInv`.
Hardly any property is inductive alone. What `IInv` adds:

**EnrichQueue.** What ties a run's private memory to the table: ids in hand were handed out
before (so a new row never takes one), a row in hand whose claim is still leased carries at
least that lease (so no other run can claim it), and what is in hand is the row of that id
or no row at all. So a write-back deletes only the row of the job it enriches, which is why
no job is lost, and a claim takes only rows nobody holds under a running lease. The
refinement maps each job to the phase of its row; the step of the abstract queue is read off
from what a statement does to the rows of one job.

**JobLifecycle.** A crawl has saved a posting of each provider it is going to sweep; a row
behind a cutoff that was taken stays old until an upsert takes it out; candidates and
verdicts are about orphans, so strikes are too. For `Territories` and `ProbesJustified`
the strikes of a row are compared with the streak of expired reads (`ProbeInv`) under
`NoOverlap`: there is one probe run at a time. The strikes are backed by expired reads in a row, with one to spare
for a strike about to be written, unless a live page is about to clear them or has failed to.
The hypothesis is not a formality: `lifecycle_overlapping_probes` is the counterexample without
it, and `ResetLivenessStrikes` does not ask whether the row has been closed meanwhile, so two
overlapping runs can also leave a closed row without strikes. Nor is the exception: one worker
and one failed reset are a counterexample without it. The
property therefore says what the code keeps, and not what its comment at `cmd/liveness/main.go:29`
claims.

**TelegramQueue.** The lease of a row lasts as long as that of any run that has it in hand, what an
open transaction has upserted is part of the run's result (`WrittenInv`), so what a commit with
nothing left to upsert publishes is the result, all of it and no more, and `failed_at` implies
used-up attempts, since `RecordTelegramPostFailure` computes it afresh from the count.

**UserJobs and Accounts.** What a sign-in has read and inserted is still true of the tables
(`ReadsRight`: the unique index holds its email, the row lock its account, the key its
identity); transactions that are open together insert different emails, identities and
accounts (`Apart`); every account that may still be created has its id paid for
(`CountInv`); and a sign-in that is about to fail knows whom to blame (`Blames`), which is what
`LosesOnlyToOthers` needs. The lemmas follow the statements of `linkOrCreateUser`; the
rows of `user_jobs` only need that they belong to accounts and that what a list has read is
the filter of what it has seen.

**SearchIndex.** A row that was left alone is settled (`Settled`): it shows and every task
still queued that mentions it would show it again, or the task the run waits for
will make it show and no later one undoes that. Whoever holds such a row in a page
holds its last state (`PagesInv`), so the tasks other runs are yet to send are right as well. The
lemmas on the queue say what `Process`, an append and the death of a sender do to this.

**Catalogue.** Behind the scan rows are written, in the page they agree with what was read in
the columns of the command, and after the last page everything is behind the scan (`ScanInv`);
after the sync the companies of those rows exist, and a company that is about to be deleted
has a row only if that row was written in between (`CompanyInv`). A reslug that re-keys a row takes
its company page until its own sync: that is in `LossesExplained`, not excused from it. `KeysetPages` has the arithmetic of a
scan: a page is the least ids after the cursor, and a short one is the last.

**Fetching.** Up to its position the fetch has received every posting that was there all the
time, and, for the adapter that stops when nothing is new, nothing from beyond it
(`ListingInv`; where that adapter stops short, for want of an id or of pages, `cut` says so); afterwards such a posting is in the result, in `todo`, being asked for, or its
details have failed (`DetailsInv`). `NextFacts` says of each of the six ways of paging that
an honest server's page covers what lies between two positions. A posting that appears at the
front shifts the rest of the board away from the position but never past it; one that is
withdrawn there does, which is what `shifted` records.

Only model-checked, because liveness, fairness and `ENABLED` are outside the prover's reach:
`RunsEnd`, `Converges` (of both modules), `ListedReopens`, `DelistedCloses`, `Heals`, `Ends`, and
the liveness half of `KeepsPromise`. The runs that expect a violation state what is not true and
have nothing to prove.

## Plan

Every safety property of the runs has its theorem. What is left:
1. What holds instead of the violated sentences, as theorems next to them: within its
   lease a run does not take up an entry again (`EnrichRun`); a post whose writes do not fail
   keeps to its retry budget (`TelegramQueue`); while no work mode is cleared the index agrees
   with the endpoints (`SearchIndex`).
2. Progress without fairness: that a run of `EnrichQueue`, `TelegramQueue` or `SearchIndex` can
   come back to no page and no entry it is done with, by a measure that every step of it lowers.
   Termination itself stays with TLC.
3. An abstract catalogue (a set of open postings) that `JobLifecycle` implements, in the way
   `WorkQueue` stands above the two queues.

## Not modelled

- Parsing of pages, prompts, model output, locations and skills: sequential string work with
  table tests. What an adapter copies from a response into a `Job` belongs here; the
  verdicts of `liveness.Classify` are any verdict, the dictionaries are constants.
- The merge of parsed and enriched facets (`internal/jobview`) and the search filter: pure
  functions of one row or one query.
- Configuration, HTTP routing and read endpoints of a single statement; the frontend; the
  generator and the scripts. Migrations are read for the schema and not modelled as steps.
- Row locks held across the statements of a transaction, but for the keys an open sign-in has
  inserted and the jobs an open extraction has upserted. The other transactions write one job each.
- A keyset scan passes over a row that commits late at an id already behind it (ids are
  allocated before the commit). `SearchIndex` has that step; `RunSynchronizes` claims nothing of such a
  row, and `Converges` says that a later run finds it. The comments at
  `internal/db/queries/jobs.sql:11` and `cmd/reindex/main.go:47`, that concurrent inserts cannot
  make the scan skip rows, are not true of it.
- A work mode that a crawl clears stays in the index (`reindex_drift`), so the other runs of
  `SearchIndex` compare the rest of the document.
