---------------------------- MODULE JobLifecycle ----------------------------
(***************************************************************************)
(* How a job row is opened and closed.  cmd/ingest crawls the boards of a  *)
(* file, saves what they list and then sweeps the providers it has seen;   *)
(* cmd/tg-extract saves single postings it finds links to; cmd/liveness    *)
(* probes the pages of open jobs no crawl covers.  All are cron processes  *)
(* that share only the jobs table, and any of them may overlap.            *)
(*                                                                         *)
(* A posting stands for its dedup key (source, external_id), and so for    *)
(* its row.  last_seen_at is read only against a cutoff, so a row carries  *)
(* its age, counted up to Grace + 1: old enough to be swept.               *)
(***************************************************************************)
EXTENDS Naturals, FiniteSets

CONSTANTS
  Postings,    \* (source, external_id) pairs
  Boards,      \* boards, and the channels of postings that are on none
  BoardOf,     \* the board of each posting
  ProviderOf,  \* the source of each board
  Registry,    \* sources.All: the providers that have an adapter
  Crawlers,    \* cmd/ingest processes that may be alive at the same time
  Entries,     \* the boards in the file of each crawler
  Probers,     \* cmd/liveness processes that may be alive at the same time
  Slots,       \* defaultConcurrency of the pipeline, concurrency of liveness
  Grace,       \* staleAfter, in ticks
  Threshold,   \* closeThreshold
  MaxPosts,    \* bound: postings saved by cmd/tg-extract
  MaxFaults    \* bound: failed requests and writes, and process crashes

ASSUME LifecycleAssumption ==
  /\ BoardOf \in [Postings -> Boards]
  /\ Entries \in [Crawlers -> SUBSET {b \in Boards : ProviderOf[b] \in Registry}]
  /\ Slots \in Nat \ {0}
  /\ Grace \in Nat
  /\ Threshold \in Nat \ {0}
  /\ MaxPosts \in Nat
  /\ MaxFaults \in Nat

VARIABLES
  listed,    \* postings that are up now, on boards that are crawled
  jobs,      \* the jobs table: posting -> row
  pc,        \* where each crawl stands
  todo,      \* boards the crawl has not fetched
  raw,       \* postings it has fetched and not tried to save
  ingested,  \* providers it has saved a posting of
  saved,     \* history: the postings it has saved
  old,       \* rows that are behind the cutoff of its sweep
  sweeping,  \* providers it has yet to sweep
  candidates,\* rows the liveness run has selected and not fetched
  verdicts,  \* pages it has judged and not acted on
  streak,    \* history: expired reads of a page since it was last seen live
  unreset,   \* history: postings seen live whose strikes a lost write has left
  posts,     \* history: postings saved by cmd/tg-extract
  faults     \* history: failures so far

crawl == <<pc, todo, raw, ingested, saved, sweeping>>
probe == <<candidates, verdicts, streak, unreset>>
vars == <<listed, jobs, pc, todo, raw, ingested, saved, old, sweeping,
          candidates, verdicts, streak, unreset, posts, faults>>

Source(p) == ProviderOf[BoardOf[p]]
OnBoard(b) == {p \in Postings : BoardOf[p] = b}

Crawlable == {p \in Postings : \E c \in Crawlers : BoardOf[p] \in Entries[c]}

Row == [closed : BOOLEAN, age : 0..(Grace + 1), strikes : 0..Threshold]

Open == {p \in DOMAIN jobs : ~jobs[p].closed}

Verdict == {"live", "expired", "uncertain"}
Candidate == [posting : Postings, strikes : 0..Threshold]
Judged == [posting : Postings, strikes : 0..Threshold, verdict : Verdict]

-----------------------------------------------------------------------------
(* Mutant: a re-ingest leaves closed_at alone.                              *)
Upsert_NoReopen(p) ==
  LET row == IF p \in DOMAIN jobs THEN [jobs[p] EXCEPT !.age = 0]
             ELSE [closed |-> FALSE, age |-> 0, strikes |-> 0]
  IN /\ jobs' = [q \in DOMAIN jobs \cup {p} |-> IF q = p THEN row ELSE jobs[q]]
     /\ old' = [c \in Crawlers |-> old[c] \ {p}]

(* UpsertJob: the row is seen now and open; the strikes stay.  A row seen  *)
(* now is on the near side of every cutoff that was taken before.          *)
Upsert(p) ==
  LET row == [closed |-> FALSE, age |-> 0,
              strikes |-> IF p \in DOMAIN jobs THEN jobs[p].strikes ELSE 0]
  IN /\ jobs' = [q \in DOMAIN jobs \cup {p} |-> IF q = p THEN row ELSE jobs[q]]
     /\ old' = [c \in Crawlers |-> old[c] \ {p}]

(* Postings come and go on the boards that are crawled; what is up         *)
(* elsewhere nobody looks at.                                              *)
Publish(p) ==
  /\ p \in Crawlable
  /\ listed' = IF p \in listed THEN listed \ {p} ELSE listed \cup {p}
  /\ UNCHANGED <<jobs, crawl, old, probe, posts, faults>>

(* A post in a channel yields a posting, which is saved by the same upsert *)
(* under its own identity: that of its channel, or of the board its link   *)
(* leads to.  It may be gone by the time it is saved.                      *)
Post(p) ==
  /\ posts < MaxPosts
  /\ posts' = posts + 1
  /\ Upsert(p)
  /\ UNCHANGED <<listed, crawl, probe, faults>>

(* A unit of time passes.                                                  *)
Tick ==
  /\ \E p \in DOMAIN jobs : jobs[p].age <= Grace
  /\ jobs' = [p \in DOMAIN jobs |->
                [jobs[p] EXCEPT !.age = IF @ <= Grace THEN @ + 1 ELSE @]]
  /\ UNCHANGED <<listed, crawl, old, probe, posts, faults>>

-----------------------------------------------------------------------------
(* One run of cmd/ingest.                                                  *)

Begin(c) ==
  /\ pc[c] = "idle"
  /\ pc' = [pc EXCEPT ![c] = "crawl"]
  /\ todo' = [todo EXCEPT ![c] = Entries[c]]
  /\ UNCHANGED <<listed, jobs, raw, ingested, saved, old, sweeping, probe, posts, faults>>

(* One board is fetched, as it is at this moment.  A failed request fails  *)
(* the board, or drops the posting whose details it was for.               *)
Fetch(c, b) ==
  /\ b \in todo[c]
  /\ Cardinality({BoardOf[p] : p \in raw[c]}) < Slots
  /\ \E S \in SUBSET (listed \cap OnBoard(b)) :
       /\ \/ S = listed \cap OnBoard(b) /\ UNCHANGED faults
          \/ /\ S # listed \cap OnBoard(b)
             /\ faults < MaxFaults
             /\ faults' = faults + 1
       /\ raw' = [raw EXCEPT ![c] = @ \cup S]
  /\ todo' = [todo EXCEPT ![c] = @ \ {b}]
  /\ UNCHANGED <<listed, jobs, pc, ingested, saved, old, sweeping, probe, posts>>

(* One posting of a fetched board is saved ...                             *)
Save(c, p) ==
  /\ p \in raw[c]
  /\ Upsert(p)
  /\ raw' = [raw EXCEPT ![c] = @ \ {p}]
  /\ ingested' = [ingested EXCEPT ![c] = @ \cup {Source(p)}]
  /\ saved' = [saved EXCEPT ![c] = @ \cup {p}]
  /\ UNCHANGED <<listed, pc, todo, sweeping, probe, posts, faults>>

(* ... or counted as failed, when the transaction is, or when only the     *)
(* acknowledgement of its commit is lost.                                  *)
Skip(c, p) ==
  /\ p \in raw[c]
  /\ faults < MaxFaults
  /\ faults' = faults + 1
  /\ Upsert(p) \/ UNCHANGED <<jobs, old>>
  /\ raw' = [raw EXCEPT ![c] = @ \ {p}]
  /\ UNCHANGED <<listed, pc, todo, ingested, saved, sweeping, probe, posts>>

(* Mutants: every provider of the file is swept; the stats are per board.   *)
Sweepable_All(c) == {ProviderOf[b] : b \in Entries[c]}
Sweepable_Boards(c) == {b \in Entries[c] : ProviderOf[b] \in ingested[c]}

(* The providers of the run with Ingested > 0.                             *)
Sweepable(c) == ingested[c]

(* All boards are done: the cutoff is taken, once for all sweeps.          *)
Cutoff(c) ==
  /\ pc[c] = "crawl" /\ todo[c] = {} /\ raw[c] = {}
  /\ pc' = [pc EXCEPT ![c] = "sweep"]
  /\ old' = [old EXCEPT ![c] = {p \in DOMAIN jobs : jobs[p].age > Grace}]
  /\ sweeping' = [sweeping EXCEPT ![c] = Sweepable(c)]
  /\ UNCHANGED <<listed, jobs, todo, raw, ingested, saved, probe, posts, faults>>

(* Mutant: only the boards of the file are swept, not the provider.         *)
Unseen_OwnBoards(c, provider) ==
  {p \in old[c] \cap Open : Source(p) = provider /\ BoardOf[p] \in Entries[c]}

Unseen(c, provider) == {p \in old[c] \cap Open : Source(p) = provider}

(* CloseUnseenJobs for one provider.                                       *)
Sweep(c, provider) ==
  /\ provider \in sweeping[c]
  /\ jobs' = [p \in DOMAIN jobs |->
                IF p \in Unseen(c, provider) THEN [jobs[p] EXCEPT !.closed = TRUE]
                ELSE jobs[p]]
  /\ sweeping' = [sweeping EXCEPT ![c] = @ \ {provider}]
  /\ UNCHANGED <<listed, pc, todo, raw, ingested, saved, old, probe, posts, faults>>

Exit(c) ==
  /\ pc' = [pc EXCEPT ![c] = "idle"]
  /\ todo' = [todo EXCEPT ![c] = {}]
  /\ raw' = [raw EXCEPT ![c] = {}]
  /\ ingested' = [ingested EXCEPT ![c] = {}]
  /\ saved' = [saved EXCEPT ![c] = {}]
  /\ old' = [old EXCEPT ![c] = {}]
  /\ sweeping' = [sweeping EXCEPT ![c] = {}]
  /\ UNCHANGED <<listed, jobs, probe, posts>>

End(c) ==
  /\ pc[c] = "sweep" /\ sweeping[c] = {}
  /\ Exit(c)
  /\ UNCHANGED faults

(* The process dies, or a sweep errors and ends it (log.Fatalf).           *)
CrashCrawl(c) ==
  /\ pc[c] # "idle"
  /\ faults < MaxFaults
  /\ faults' = faults + 1
  /\ Exit(c)

-----------------------------------------------------------------------------
(* One run of cmd/liveness.                                                *)

(* Mutant: the exclusion list is ignored.                                   *)
Orphans_AnySource == Postings

Orphans == {p \in Postings : Source(p) \notin Registry}

(* The candidates are selected once, with their strikes.                   *)
Select(w) ==
  /\ Registry # {}
  /\ candidates[w] = {} /\ verdicts[w] = {}
  /\ Open \cap Orphans # {}
  /\ candidates' = [candidates EXCEPT ![w] =
       {[posting |-> p, strikes |-> jobs[p].strikes] : p \in Open \cap Orphans}]
  /\ UNCHANGED <<listed, jobs, crawl, old, verdicts, streak, unreset, posts, faults>>

(* What one more read makes of the expired reads in a row.                 *)
Read(n, v) ==
  CASE v = "live" -> 0
    [] v = "expired" -> IF n < Threshold THEN n + 1 ELSE n
    [] v = "uncertain" -> n

(* One page is fetched and classified.  What a page shows says little      *)
(* about the posting: every verdict may come of every page.                *)
Fetched(w, k) ==
  /\ k \in candidates[w]
  /\ Cardinality(verdicts[w]) < Slots
  /\ \E v \in Verdict :
       /\ verdicts' = [verdicts EXCEPT ![w] = @ \cup
            {[posting |-> k.posting, strikes |-> k.strikes, verdict |-> v]}]
       /\ streak' = [streak EXCEPT ![k.posting] = Read(@, v)]
  /\ candidates' = [candidates EXCEPT ![w] = @ \ {k}]
  /\ UNCHANGED <<listed, jobs, crawl, old, unreset, posts, faults>>

(* MarkLivenessExpired, counting up to the threshold: nothing tells higher *)
(* counts apart.                                                           *)
Mark(r) ==
  LET n == IF r.strikes < Threshold THEN r.strikes + 1 ELSE Threshold
  IN [r EXCEPT !.strikes = n, !.closed = @ \/ n >= Threshold]

(* Mutant: no verdict but "expired" writes anything.                        *)
Apply_NeverResets(r, v) ==
  CASE v.verdict = "expired" -> Mark(r)
    [] v.verdict # "expired" -> r

(* What a verdict does to the row as it is by now.  A live page resets the *)
(* strikes if the candidate had any when it was selected.                  *)
Apply(r, v) ==
  CASE v.verdict = "expired" -> Mark(r)
    [] v.verdict = "live" -> IF v.strikes # 0 THEN [r EXCEPT !.strikes = 0] ELSE r
    [] v.verdict = "uncertain" -> r

(* A live page has strikes to clear, and so a write to make.               *)
Clears(v) == v.verdict = "live" /\ v.strikes # 0

Uncleared(V) == {v.posting : v \in {u \in V : Clears(u)}}

Applied(v) ==
  /\ jobs' = [jobs EXCEPT ![v.posting] = Apply(@, v)]
  /\ unreset' = unreset \ Uncleared({v})

(* Writes of these verdicts are never made.  What was read stays read.     *)
Lost(V) ==
  /\ unreset' = unreset \cup Uncleared(V)
  /\ UNCHANGED jobs

Act(w, v) ==
  /\ v \in verdicts[w]
  /\ verdicts' = [verdicts EXCEPT ![w] = @ \ {v}]
  /\ Applied(v)
  /\ UNCHANGED <<listed, crawl, old, candidates, streak, posts, faults>>

(* The write fails, which is only logged, or its acknowledgement is lost.  *)
ActError(w, v) ==
  /\ v \in verdicts[w]
  /\ v.verdict = "expired" \/ Clears(v)
  /\ faults < MaxFaults
  /\ faults' = faults + 1
  /\ verdicts' = [verdicts EXCEPT ![w] = @ \ {v}]
  /\ Applied(v) \/ Lost({v})
  /\ UNCHANGED <<listed, crawl, old, candidates, streak, posts>>

CrashProbe(w) ==
  /\ candidates[w] # {} \/ verdicts[w] # {}
  /\ faults < MaxFaults
  /\ faults' = faults + 1
  /\ candidates' = [candidates EXCEPT ![w] = {}]
  /\ verdicts' = [verdicts EXCEPT ![w] = {}]
  /\ Lost(verdicts[w])
  /\ UNCHANGED <<listed, crawl, old, streak, posts>>

-----------------------------------------------------------------------------
Init ==
  /\ listed \in SUBSET Crawlable
  /\ jobs = [p \in {} |-> [closed |-> FALSE, age |-> 0, strikes |-> 0]]
  /\ pc = [c \in Crawlers |-> "idle"]
  /\ todo = [c \in Crawlers |-> {}]
  /\ raw = [c \in Crawlers |-> {}]
  /\ ingested = [c \in Crawlers |-> {}]
  /\ saved = [c \in Crawlers |-> {}]
  /\ old = [c \in Crawlers |-> {}]
  /\ sweeping = [c \in Crawlers |-> {}]
  /\ candidates = [w \in Probers |-> {}]
  /\ verdicts = [w \in Probers |-> {}]
  /\ streak = [p \in Postings |-> 0]
  /\ unreset = {}
  /\ posts = 0
  /\ faults = 0

CrawlStep(c) ==
  \/ Begin(c)
  \/ \E b \in Boards : Fetch(c, b)
  \/ \E p \in Postings : Save(c, p)
  \/ Cutoff(c)
  \/ \E provider \in Registry : Sweep(c, provider)
  \/ End(c)

ProbeStep(w) ==
  \/ Select(w)
  \/ \E k \in candidates[w] : Fetched(w, k)
  \/ \E v \in verdicts[w] : Act(w, v)

Next ==
  \/ \E p \in Postings : Publish(p) \/ Post(p)
  \/ Tick
  \/ \E c \in Crawlers :
       CrawlStep(c) \/ CrashCrawl(c) \/ \E p \in Postings : Skip(c, p)
  \/ \E w \in Probers :
       ProbeStep(w) \/ CrashProbe(w) \/ \E v \in verdicts[w] : ActError(w, v)

Spec == Init /\ [][Next]_vars

(* cron starts the crawls again and again, the requests of a live process  *)
(* end (HTTP client timeouts), and time passes.                            *)
FairSpec ==
  /\ Spec
  /\ WF_vars(Tick)
  /\ \A c \in Crawlers : WF_vars(CrawlStep(c))

-----------------------------------------------------------------------------
(* Properties.                                                             *)

TypeOK ==
  /\ listed \subseteq Postings
  /\ DOMAIN jobs \subseteq Postings
  /\ \A p \in DOMAIN jobs : jobs[p] \in Row
  /\ pc \in [Crawlers -> {"idle", "crawl", "sweep"}]
  /\ todo \in [Crawlers -> SUBSET Boards]
  /\ raw \in [Crawlers -> SUBSET Postings]
  /\ ingested \in [Crawlers -> SUBSET Registry]
  /\ saved \in [Crawlers -> SUBSET Postings]
  /\ old \in [Crawlers -> SUBSET Postings]
  /\ \A c \in Crawlers : old[c] \subseteq DOMAIN jobs
  /\ sweeping \in [Crawlers -> SUBSET Registry]
  /\ candidates \in [Probers -> SUBSET Candidate]
  /\ verdicts \in [Probers -> SUBSET Judged]
  /\ \A w \in Probers :
       /\ \A k \in candidates[w] : k.posting \in DOMAIN jobs
       /\ \A v \in verdicts[w] : v.posting \in DOMAIN jobs
  /\ streak \in [Postings -> 0..Threshold]
  /\ unreset \subseteq Postings
  /\ posts \in 0..MaxPosts
  /\ faults \in 0..MaxFaults

(* Each of the two closing mechanisms keeps to its own jobs: no probe ever *)
(* touches a job of a registered provider, whatever overlaps, and an       *)
(* orphan is closed only by probes, and stays closed with its strikes      *)
(* until it is reopened (openspec/specs/job-lifecycle).  The second half   *)
(* is for probe runs that do not overlap: ResetLivenessStrikes does not    *)
(* ask whether the row has been closed meanwhile.                          *)
Territories ==
  \A p \in DOMAIN jobs :
    /\ p \notin Orphans => jobs[p].strikes = 0
    /\ p \in Orphans /\ jobs[p].closed => jobs[p].strikes >= Threshold

ClosedNow(p) == p \in Open /\ jobs'[p].closed

(* A crawl closes a job only when nobody has seen the posting for the whole *)
(* grace window, although a crawl of the same provider by this very run    *)
(* got through to the database: an outage, of a provider or of the         *)
(* database, closes nothing (sweepableProviders).                          *)
SweepJustified ==
  [][\A p \in DOMAIN jobs : ClosedNow(p) /\ p \notin Orphans =>
       /\ jobs[p].age > Grace
       /\ \E c \in Crawlers :
            /\ sweeping'[c] # sweeping[c]
            /\ \E q \in saved[c] : Source(q) = Source(p)]_vars

(* "closeThreshold is the number of CONSECUTIVE expired probes that closes *)
(* a job": an orphan is closed only when its page has been read expired    *)
(* Threshold times since it was last read live.  The code does not keep    *)
(* this: neither when runs overlap nor when the write that should clear    *)
(* the strikes of a live page is lost.                                     *)
ConsecutiveProbes ==
  [][\A p \in Orphans : ClosedNow(p) => streak[p] >= Threshold]_vars

(* What it keeps, in runs that do not overlap: an orphan is closed only    *)
(* while its page reads expired, and after Threshold such reads in a row   *)
(* unless the one write that could interrupt them was lost.  Lost, late    *)
(* and repeated strikes and reopening upserts close nothing earlier.       *)
ProbesJustified ==
  [][\A p \in Orphans : ClosedNow(p) =>
       /\ streak[p] > 0
       /\ streak[p] >= Threshold \/ p \in unreset]_vars

(* A posting that stays up on a board that is crawled is open again and    *)
(* again: whatever outage has had it swept, a crawl reopens it.            *)
ListedReopens ==
  \A c \in Crawlers : \A p \in Postings :
    BoardOf[p] \in Entries[c] /\ <>[](p \in listed) => []<>(p \in Open)

(* A posting that is gone for good ends up closed for good, whichever crawl *)
(* has its board in its file, as long as some crawl sees anything of its   *)
(* provider: neither a crawl that saves, or saves again after another has  *)
(* swept it, what it has fetched before, nor runs that end before they     *)
(* have swept the provider, keep it open.                                  *)
DelistedCloses ==
  \A c \in Crawlers : \A p, q \in Postings :
    /\ BoardOf[q] \in Entries[c] /\ Source(q) = Source(p)
    /\ <>[](p \notin listed /\ q \in listed)
    => <>[](p \notin Open)
=============================================================================
