------------------------- MODULE JobLifecycleProofs -------------------------
(***************************************************************************)
(* Proofs about JobLifecycle, for any postings, boards and files, any      *)
(* number of crawls and probe runs, and any grace, threshold and bounds.   *)
(***************************************************************************)
EXTENDS JobLifecycle, TLAPS

-----------------------------------------------------------------------------
(* The inductive invariant.                                                *)

(* A crawl holds nothing that is not on a board of its file, and has       *)
(* ingested and sweeps only providers it has saved a posting of.           *)
CrawlInv ==
  \A c \in Crawlers :
    /\ todo[c] \subseteq Entries[c]
    /\ \A p \in raw[c] : BoardOf[p] \in Entries[c]
    /\ \A s \in ingested[c] \cup sweeping[c] : \E q \in saved[c] : Source(q) = s

(* A row behind a cutoff that has been taken is old, for as long as it     *)
(* stays behind it: every upsert moves it to the near side.                *)
OldInv == \A c \in Crawlers : \A p \in old[c] : jobs[p].age > Grace

(* Probes meet orphans alone, and so do strikes.                           *)
OrphanInv ==
  /\ \A w \in Probers :
       /\ \A k \in candidates[w] : k.posting \in Orphans
       /\ \A v \in verdicts[w] : v.posting \in Orphans
  /\ \A p \in DOMAIN jobs : p \notin Orphans => jobs[p].strikes = 0

IInv == TypeOK /\ CrawlInv /\ OldInv /\ OrphanInv

-----------------------------------------------------------------------------
(* What happens to a row.                                                  *)

LEMMA RowType ==
  \A f \in BOOLEAN, a \in 0..(Grace + 1), n \in 0..Threshold :
    [closed |-> f, age |-> a, strikes |-> n] \in Row
  BY DEF Row

LEMMA AgedRow ==
  ASSUME NEW r \in Row
  PROVE  LET a == [r EXCEPT !.age = IF @ <= Grace THEN @ + 1 ELSE @]
         IN /\ a \in Row /\ a.closed = r.closed /\ a.strikes = r.strikes
            /\ r.age > Grace => a.age > Grace
  BY LifecycleAssumption DEF Row

LEMMA ClosedRow ==
  ASSUME NEW r \in Row
  PROVE  LET a == [r EXCEPT !.closed = TRUE]
         IN a \in Row /\ a.closed /\ a.age = r.age /\ a.strikes = r.strikes
  BY DEF Row

LEMMA MarkedRow ==
  ASSUME NEW r \in Row
  PROVE  /\ Mark(r) \in Row
         /\ Mark(r).age = r.age
         /\ Mark(r).strikes = IF r.strikes < Threshold THEN r.strikes + 1 ELSE Threshold
         /\ Mark(r).closed <=> r.closed \/ Mark(r).strikes >= Threshold
<1> DEFINE n == IF r.strikes < Threshold THEN r.strikes + 1 ELSE Threshold
           dead == r.closed \/ n >= Threshold
<1>1. n \in 0..Threshold /\ dead \in BOOLEAN
  BY LifecycleAssumption DEF Row
<1>2. Mark(r) = [r EXCEPT !.strikes = n, !.closed = dead]
  BY DEF Mark
<1>3. PICK f \in BOOLEAN, a \in 0..(Grace + 1), s \in 0..Threshold :
        r = [closed |-> f, age |-> a, strikes |-> s]
  BY Zenon DEF Row
<1> HIDE DEF n, dead
<1>4. Mark(r) = [closed |-> dead, age |-> a, strikes |-> n]
  BY <1>2, <1>3
<1>5. Mark(r) \in Row
  BY <1>1, <1>4, RowType, Zenon
<1>6. Mark(r).age = r.age /\ Mark(r).strikes = n /\ Mark(r).closed = dead
  BY <1>3, <1>4
<1> QED BY <1>5, <1>6 DEF n, dead

LEMMA AppliedRow ==
  ASSUME NEW r \in Row, NEW v \in Judged
  PROVE  /\ Apply(r, v) \in Row
         /\ Apply(r, v).age = r.age
         /\ v.verdict = "expired" => Apply(r, v) = Mark(r)
         /\ v.verdict # "expired" => Apply(r, v).closed = r.closed
         /\ v.verdict = "live" /\ v.strikes # 0 => Apply(r, v).strikes = 0
         /\ v.verdict = "live" /\ v.strikes = 0 => Apply(r, v).strikes = r.strikes
         /\ v.verdict = "uncertain" => Apply(r, v) = r
<1>1. v.verdict \in {"live", "expired", "uncertain"}
  BY DEF Judged, Verdict
<1>2. CASE v.verdict = "expired"
  BY <1>2, MarkedRow DEF Apply
<1>3. CASE v.verdict = "live"
  BY <1>3, LifecycleAssumption DEF Apply, Row
<1>4. CASE v.verdict = "uncertain"
  BY <1>4 DEF Apply
<1> QED BY <1>1, <1>2, <1>3, <1>4

LEMMA ReadType == \A n \in 0..Threshold, v \in Verdict : Read(n, v) \in 0..Threshold
  BY LifecycleAssumption DEF Read, Verdict

(* An upsert opens one row, keeps its strikes, and takes it from behind    *)
(* every cutoff.                                                           *)
LEMMA UpsertFacts ==
  ASSUME TypeOK, NEW p \in Postings, Upsert(p)
  PROVE  /\ DOMAIN jobs' = DOMAIN jobs \cup {p}
         /\ DOMAIN jobs \subseteq DOMAIN jobs' /\ DOMAIN jobs' \subseteq Postings
         /\ \A q \in DOMAIN jobs' : jobs'[q] \in Row
         /\ \A q \in DOMAIN jobs \ {p} : jobs'[q] = jobs[q]
         /\ ~jobs'[p].closed
         /\ jobs'[p].strikes = IF p \in DOMAIN jobs THEN jobs[p].strikes ELSE 0
         /\ old' \in [Crawlers -> SUBSET Postings]
         /\ \A c \in Crawlers : old'[c] = old[c] \ {p} /\ old'[c] \subseteq DOMAIN jobs'
<1> DEFINE n == IF p \in DOMAIN jobs THEN jobs[p].strikes ELSE 0
           row == [closed |-> FALSE, age |-> 0, strikes |-> n]
<1>1. n \in 0..Threshold
  BY LifecycleAssumption DEF TypeOK, Row
<1>2. row \in Row
  <2> HIDE DEF n
  <2>1. FALSE \in BOOLEAN /\ 0 \in 0..(Grace + 1)
    BY LifecycleAssumption
  <2> QED BY <1>1, <2>1, RowType, Zenon
<1>3. row.closed = FALSE /\ row.strikes = n
  OBVIOUS
<1>4. /\ jobs' = [q \in DOMAIN jobs \cup {p} |-> IF q = p THEN row ELSE jobs[q]]
      /\ old' = [c \in Crawlers |-> old[c] \ {p}]
  BY DEF Upsert
<1> HIDE DEF row, n
<1>5. jobs'[p] = row
  BY <1>4
<1>6. /\ DOMAIN jobs' = DOMAIN jobs \cup {p}
      /\ \A q \in DOMAIN jobs' : jobs'[q] \in Row
      /\ \A q \in DOMAIN jobs \ {p} : jobs'[q] = jobs[q]
  BY <1>2, <1>4 DEF TypeOK
<1>7. old' \in [Crawlers -> SUBSET Postings] /\ \A c \in Crawlers : old'[c] = old[c] \ {p}
  BY <1>4 DEF TypeOK
<1>8. DOMAIN jobs \subseteq Postings /\ \A c \in Crawlers : old[c] \subseteq DOMAIN jobs
  BY DEF TypeOK
<1> QED BY <1>3, <1>5, <1>6, <1>7, <1>8 DEF n

-----------------------------------------------------------------------------
(* Type correctness of one step.  The cases are the actions; a crawl's     *)
(* providers are registered because its boards are those of its file.      *)
LEMMA TypeStep ==
  ASSUME TypeOK, CrawlInv, [Next]_vars
  PROVE  TypeOK'
<1> USE LifecycleAssumption DEF crawl, probe
<1>1. ASSUME NEW p \in Postings, Publish(p) PROVE TypeOK'
  BY <1>1 DEF Publish, TypeOK
<1>u. ASSUME NEW p \in Postings, Upsert(p), UNCHANGED <<listed, pc, todo, sweeping, probe>>,
             raw' \in [Crawlers -> SUBSET Postings], saved' \in [Crawlers -> SUBSET Postings],
             ingested' \in [Crawlers -> SUBSET Registry], posts' \in 0..MaxPosts,
             faults' \in 0..MaxFaults
      PROVE  TypeOK'
  <2> DEFINE J == DOMAIN jobs'
  <2>1. /\ DOMAIN jobs \subseteq J /\ J \subseteq Postings
        /\ \A q \in J : jobs'[q] \in Row
        /\ old' \in [Crawlers -> SUBSET Postings]
        /\ \A c \in Crawlers : old'[c] \subseteq J
    BY <1>u, UpsertFacts
  <2> HIDE DEF J
  <2>2. \A w \in Probers :
          /\ \A k \in candidates'[w] : k.posting \in J
          /\ \A v \in verdicts'[w] : v.posting \in J
    BY <1>u, <2>1 DEF TypeOK
  <2> USE DEF J
  <2> QED BY <1>u, <2>1, <2>2 DEF TypeOK
<1>2. ASSUME NEW p \in Postings, Post(p) PROVE TypeOK'
  <2>1. posts' \in 0..MaxPosts /\ Upsert(p)
    BY <1>2 DEF Post, TypeOK
  <2>2. UNCHANGED <<listed, crawl, probe, faults>>
    BY <1>2 DEF Post
  <2> QED BY <2>1, <2>2, <1>u DEF TypeOK
<1>3. CASE Tick
  <2>1. /\ DOMAIN jobs' = DOMAIN jobs
        /\ \A p \in DOMAIN jobs : jobs'[p] \in Row
    BY <1>3, AgedRow DEF Tick, TypeOK
  <2>2. UNCHANGED <<listed, crawl, old, probe, posts, faults>>
    BY <1>3 DEF Tick
  <2> QED BY <2>1, <2>2 DEF TypeOK
<1>4. ASSUME NEW c \in Crawlers, Begin(c) PROVE TypeOK'
  <2>1. Entries[c] \subseteq Boards
    OBVIOUS
  <2> QED BY <1>4, <2>1 DEF Begin, TypeOK
<1>5. ASSUME NEW c \in Crawlers, NEW b \in Boards, Fetch(c, b) PROVE TypeOK'
  <2>1. faults' \in 0..MaxFaults
    BY <1>5 DEF Fetch, TypeOK
  <2>2. raw' \in [Crawlers -> SUBSET Postings]
    BY <1>5 DEF Fetch, TypeOK
  <2> QED BY <1>5, <2>1, <2>2 DEF Fetch, TypeOK
<1>6. ASSUME NEW c \in Crawlers, NEW p \in Postings, Save(c, p) PROVE TypeOK'
  <2>1. Source(p) \in Registry
    BY <1>6 DEF Save, CrawlInv, Source
  <2>2. Upsert(p)
    BY <1>6 DEF Save
  <2>3. /\ ingested' \in [Crawlers -> SUBSET Registry]
        /\ raw' \in [Crawlers -> SUBSET Postings]
        /\ saved' \in [Crawlers -> SUBSET Postings]
    BY <1>6, <2>1 DEF Save, TypeOK
  <2>4. UNCHANGED <<listed, pc, todo, sweeping, probe, posts, faults>>
    BY <1>6 DEF Save
  <2> QED BY <2>2, <2>3, <2>4, <1>u DEF TypeOK
<1>7. ASSUME NEW c \in Crawlers, NEW p \in Postings, Skip(c, p) PROVE TypeOK'
  <2>1. /\ faults' \in 0..MaxFaults
        /\ raw' \in [Crawlers -> SUBSET Postings]
        /\ UNCHANGED <<listed, pc, todo, ingested, saved, sweeping, probe, posts>>
    BY <1>7 DEF Skip, TypeOK
  <2>2. CASE Upsert(p)
    BY <1>u, <2>1, <2>2 DEF TypeOK
  <2>3. CASE UNCHANGED <<jobs, old>>
    BY <2>1, <2>3 DEF TypeOK
  <2> QED BY <1>7, <2>2, <2>3 DEF Skip
<1>8. ASSUME NEW c \in Crawlers, Cutoff(c) PROVE TypeOK'
  BY <1>8 DEF Cutoff, Sweepable, TypeOK
<1>9. ASSUME NEW c \in Crawlers, NEW s \in Registry, Sweep(c, s) PROVE TypeOK'
  <2>1. /\ DOMAIN jobs' = DOMAIN jobs
        /\ \A p \in DOMAIN jobs : jobs'[p] \in Row
    BY <1>9, ClosedRow DEF Sweep, TypeOK
  <2> QED BY <1>9, <2>1 DEF Sweep, TypeOK
<1>10. ASSUME NEW c \in Crawlers, Exit(c), faults' \in 0..MaxFaults PROVE TypeOK'
  BY <1>10 DEF Exit, TypeOK
<1>11. ASSUME NEW c \in Crawlers, End(c) \/ CrashCrawl(c) PROVE TypeOK'
  <2>1. faults' \in 0..MaxFaults
    BY <1>11 DEF End, CrashCrawl, TypeOK
  <2> QED BY <1>10, <1>11, <2>1 DEF End, CrashCrawl
<1>12. ASSUME NEW w \in Probers, Select(w) PROVE TypeOK'
  <2>1. \A p \in Open \cap Orphans :
          /\ p \in DOMAIN jobs
          /\ [posting |-> p, strikes |-> jobs[p].strikes] \in Candidate
    BY DEF Open, TypeOK, Row, Candidate
  <2> QED BY <1>12, <2>1 DEF Select, TypeOK
<1>13. ASSUME NEW w \in Probers, NEW k \in candidates[w], Fetched(w, k) PROVE TypeOK'
  <2>1. k \in Candidate /\ k.posting \in DOMAIN jobs
    BY DEF TypeOK
  <2>2. PICK v \in Verdict :
          /\ verdicts' = [verdicts EXCEPT ![w] = @ \cup
               {[posting |-> k.posting, strikes |-> k.strikes, verdict |-> v]}]
          /\ streak' = [streak EXCEPT ![k.posting] = Read(@, v)]
    BY <1>13 DEF Fetched
  <2>3. [posting |-> k.posting, strikes |-> k.strikes, verdict |-> v] \in Judged
    BY <2>1 DEF Candidate, Judged
  <2>4. streak' \in [Postings -> 0..Threshold]
    BY <2>2, ReadType DEF TypeOK
  <2> QED BY <1>13, <2>1, <2>2, <2>3, <2>4 DEF Fetched, TypeOK
<1>14. ASSUME NEW w \in Probers, NEW v \in verdicts[w], Applied(v) \/ Lost({v}),
              verdicts' = [verdicts EXCEPT ![w] = @ \ {v}], faults' \in 0..MaxFaults,
              UNCHANGED <<listed, crawl, old, candidates, streak, posts>>
       PROVE  TypeOK'
  <2>1. v \in Judged /\ v.posting \in DOMAIN jobs
    BY DEF TypeOK
  <2>2. /\ DOMAIN jobs' = DOMAIN jobs
        /\ \A p \in DOMAIN jobs : jobs'[p] \in Row
    BY <1>14, <2>1, AppliedRow DEF Applied, Lost, TypeOK
  <2>3. unreset' \subseteq Postings
    BY <1>14, <2>1 DEF Applied, Lost, Uncleared, Judged, TypeOK
  <2> QED BY <1>14, <2>2, <2>3 DEF TypeOK
<1>15. ASSUME NEW w \in Probers, NEW v \in verdicts[w], Act(w, v) \/ ActError(w, v) PROVE TypeOK'
  <2>1. faults' \in 0..MaxFaults
    BY <1>15 DEF Act, ActError, TypeOK
  <2> QED BY <1>14, <1>15, <2>1 DEF Act, ActError
<1>17. ASSUME NEW w \in Probers, CrashProbe(w) PROVE TypeOK'
  <2>1. unreset' \subseteq Postings
    BY <1>17 DEF CrashProbe, Lost, Uncleared, Judged, TypeOK
  <2>2. faults' \in 0..MaxFaults
    BY <1>17 DEF CrashProbe, TypeOK
  <2> QED BY <1>17, <2>1, <2>2 DEF CrashProbe, Lost, TypeOK
<1>18. CASE UNCHANGED vars
  BY <1>18 DEF vars, TypeOK
<1> QED BY <1>1, <1>2, <1>3, <1>4, <1>5, <1>6, <1>7, <1>8, <1>9, <1>11, <1>12, <1>13, <1>15,
           <1>17, <1>18 DEF Next, CrawlStep, ProbeStep

-----------------------------------------------------------------------------
LEMMA CrawlStepInv ==
  ASSUME TypeOK, CrawlInv, [Next]_vars
  PROVE  CrawlInv'
<1> USE LifecycleAssumption DEF crawl, probe
<1>0. ASSUME UNCHANGED crawl PROVE CrawlInv'
  BY <1>0 DEF CrawlInv
<1>1. ASSUME NEW c \in Crawlers, Begin(c) PROVE CrawlInv'
  BY <1>1 DEF Begin, CrawlInv, TypeOK
<1>2. ASSUME NEW c \in Crawlers, NEW b \in Boards, Fetch(c, b) PROVE CrawlInv'
  <2>1. PICK S \in SUBSET (listed \cap OnBoard(b)) : raw' = [raw EXCEPT ![c] = @ \cup S]
    BY <1>2 DEF Fetch
  <2>2. b \in Entries[c] /\ \A p \in S : BoardOf[p] = b
    BY <1>2, <2>1 DEF Fetch, CrawlInv, OnBoard
  <2> QED BY <1>2, <2>1, <2>2 DEF Fetch, CrawlInv, TypeOK
<1>3. ASSUME NEW c \in Crawlers, NEW p \in Postings, Save(c, p) PROVE CrawlInv'
  <2>1. /\ raw' = [raw EXCEPT ![c] = @ \ {p}]
        /\ ingested' = [ingested EXCEPT ![c] = @ \cup {Source(p)}]
        /\ saved' = [saved EXCEPT ![c] = @ \cup {p}]
        /\ UNCHANGED <<todo, sweeping>>
    BY <1>3 DEF Save
  <2> QED BY <2>1 DEF CrawlInv, TypeOK
<1>4. ASSUME NEW c \in Crawlers, NEW p \in Postings, Skip(c, p) PROVE CrawlInv'
  BY <1>4 DEF Skip, CrawlInv, TypeOK
<1>5. ASSUME NEW c \in Crawlers, Cutoff(c) PROVE CrawlInv'
  BY <1>5 DEF Cutoff, Sweepable, CrawlInv, TypeOK
<1>6. ASSUME NEW c \in Crawlers, NEW s \in Registry, Sweep(c, s) PROVE CrawlInv'
  BY <1>6 DEF Sweep, CrawlInv, TypeOK
<1>7. ASSUME NEW c \in Crawlers, Exit(c) PROVE CrawlInv'
  BY <1>7 DEF Exit, CrawlInv, TypeOK
<1> QED BY <1>0, <1>1, <1>2, <1>3, <1>4, <1>5, <1>6, <1>7
   DEF Next, CrawlStep, ProbeStep, Publish, Post, Tick, End, CrashCrawl, Select, Fetched, Act,
       ActError, CrashProbe, vars

LEMMA OldStep ==
  ASSUME TypeOK, OldInv, [Next]_vars
  PROVE  OldInv'
<1> USE LifecycleAssumption DEF crawl, probe
<1>1. ASSUME NEW p \in Postings, Upsert(p) PROVE OldInv'
  <2> SUFFICES ASSUME NEW c \in Crawlers, NEW q \in old'[c]
               PROVE  jobs'[q].age > Grace
    BY DEF OldInv
  <2>0. old'[c] = old[c] \ {p}
    BY <1>1, UpsertFacts
  <2>1. q \in old[c] /\ q # p /\ q \in DOMAIN jobs
    BY <2>0 DEF TypeOK
  <2>2. jobs'[q] = jobs[q]
    BY <1>1, <2>1, UpsertFacts
  <2> QED BY <2>1, <2>2 DEF OldInv
<1>2. CASE Tick
  <2> SUFFICES ASSUME NEW c \in Crawlers, NEW p \in old[c]
               PROVE  jobs'[p].age > Grace
    BY <1>2 DEF Tick, OldInv
  <2>1. p \in DOMAIN jobs /\ jobs[p] \in Row /\ jobs[p].age > Grace
    BY DEF TypeOK, OldInv
  <2> QED BY <1>2, <2>1, AgedRow DEF Tick
<1>3. ASSUME NEW c \in Crawlers, Cutoff(c) PROVE OldInv'
  BY <1>3 DEF Cutoff, OldInv, TypeOK
<1>4. ASSUME UNCHANGED old,
             \A p \in DOMAIN jobs : p \in DOMAIN jobs' /\ jobs'[p].age = jobs[p].age
      PROVE  OldInv'
  BY <1>4 DEF OldInv, TypeOK
<1>5. ASSUME NEW c \in Crawlers, NEW s \in Registry, Sweep(c, s) PROVE OldInv'
  <2>1. \A p \in DOMAIN jobs : p \in DOMAIN jobs' /\ jobs'[p].age = jobs[p].age
    BY <1>5, ClosedRow DEF Sweep, TypeOK
  <2> QED BY <1>4, <1>5, <2>1 DEF Sweep
<1>6. ASSUME NEW w \in Probers, NEW v \in verdicts[w], Applied(v), UNCHANGED old PROVE OldInv'
  <2>1. \A p \in DOMAIN jobs : p \in DOMAIN jobs' /\ jobs'[p].age = jobs[p].age
    BY <1>6, AppliedRow DEF Applied, TypeOK
  <2> QED BY <1>4, <1>6, <2>1
<1>7. ASSUME NEW c \in Crawlers, Exit(c) PROVE OldInv'
  BY <1>7 DEF Exit, OldInv, TypeOK
<1>8. ASSUME UNCHANGED <<jobs, old>> PROVE OldInv'
  BY <1>8 DEF OldInv
<1> QED BY <1>1, <1>2, <1>3, <1>5, <1>6, <1>7, <1>8
   DEF Next, CrawlStep, ProbeStep, Publish, Post, Begin, Fetch, Save, Skip, End, CrashCrawl,
       Select, Fetched, Act, ActError, CrashProbe, Lost, vars

LEMMA OrphanStep ==
  ASSUME TypeOK, OrphanInv, [Next]_vars
  PROVE  OrphanInv'
<1> USE LifecycleAssumption DEF crawl, probe
<1>0. ASSUME \A w \in Probers : candidates'[w] \subseteq candidates[w] /\ verdicts'[w] \subseteq verdicts[w],
             \A p \in DOMAIN jobs' : p \notin Orphans =>
               jobs'[p].strikes = IF p \in DOMAIN jobs THEN jobs[p].strikes ELSE 0
      PROVE  OrphanInv'
  BY <1>0 DEF OrphanInv
<1>1. ASSUME NEW p \in Postings, Upsert(p), UNCHANGED probe PROVE OrphanInv'
  <2>1. /\ DOMAIN jobs' = DOMAIN jobs \cup {p}
        /\ \A q \in DOMAIN jobs \ {p} : jobs'[q] = jobs[q]
        /\ jobs'[p].strikes = IF p \in DOMAIN jobs THEN jobs[p].strikes ELSE 0
    BY <1>1, UpsertFacts
  <2>2. \A q \in DOMAIN jobs' :
          jobs'[q].strikes = IF q \in DOMAIN jobs THEN jobs[q].strikes ELSE 0
    BY <2>1
  <2> QED BY <1>0, <1>1, <2>2
<1>2. CASE Tick
  <2>1. \A p \in DOMAIN jobs : jobs'[p].strikes = jobs[p].strikes
    BY <1>2, AgedRow DEF Tick, TypeOK
  <2> QED BY <1>0, <1>2, <2>1 DEF Tick
<1>3. ASSUME NEW c \in Crawlers, NEW s \in Registry, Sweep(c, s) PROVE OrphanInv'
  <2>1. \A p \in DOMAIN jobs : jobs'[p].strikes = jobs[p].strikes
    BY <1>3, ClosedRow DEF Sweep, TypeOK
  <2> QED BY <1>0, <1>3, <2>1 DEF Sweep
<1>4. ASSUME UNCHANGED <<jobs, probe>> PROVE OrphanInv'
  BY <1>4 DEF OrphanInv
<1>5. ASSUME NEW w \in Probers, Select(w) PROVE OrphanInv'
  <2>1. \A k \in candidates'[w] : k.posting \in Orphans
    BY <1>5 DEF Select, TypeOK
  <2> QED BY <1>5, <2>1 DEF Select, OrphanInv, TypeOK
<1>6. ASSUME NEW w \in Probers, NEW k \in candidates[w], Fetched(w, k) PROVE OrphanInv'
  <2>1. PICK v \in Verdict :
          verdicts' = [verdicts EXCEPT ![w] = @ \cup
            {[posting |-> k.posting, strikes |-> k.strikes, verdict |-> v]}]
    BY <1>6 DEF Fetched
  <2>2. candidates' = [candidates EXCEPT ![w] = @ \ {k}] /\ jobs' = jobs
    BY <1>6 DEF Fetched
  <2>3. k.posting \in Orphans
    BY DEF OrphanInv
  <2> QED BY <2>1, <2>2, <2>3 DEF OrphanInv, TypeOK
<1>7. ASSUME NEW w \in Probers, NEW v \in verdicts[w], Act(w, v) \/ ActError(w, v) PROVE OrphanInv'
  <2>1. v.posting \in Orphans
    BY DEF OrphanInv
  <2>2. /\ \A p \in DOMAIN jobs \ Orphans : jobs'[p] = jobs[p]
        /\ DOMAIN jobs' = DOMAIN jobs
    BY <1>7, <2>1 DEF Act, ActError, Applied, Lost
  <2>3. \A x \in Probers : candidates'[x] = candidates[x] /\ verdicts'[x] \subseteq verdicts[x]
    BY <1>7 DEF Act, ActError, TypeOK
  <2> QED BY <1>0, <2>2, <2>3
<1>9. ASSUME NEW w \in Probers, CrashProbe(w) PROVE OrphanInv'
  BY <1>9 DEF CrashProbe, Lost, OrphanInv, TypeOK
<1> QED BY <1>1, <1>2, <1>3, <1>4, <1>5, <1>6, <1>7, <1>9
   DEF Next, CrawlStep, ProbeStep, Publish, Post, Begin, Fetch, Save, Skip, Cutoff, Exit, End,
       CrashCrawl, vars

-----------------------------------------------------------------------------
(* The table, the crawls and the probes stay well formed, every crawl      *)
(* sweeps only what it has saved something of, and strikes are of orphans. *)
THEOREM InvariantCorrect == Spec => []IInv
<1>1. Init => IInv
  BY LifecycleAssumption DEF Init, Crawlable, IInv, TypeOK, CrawlInv, OldInv, OrphanInv
<1>2. IInv /\ [Next]_vars => IInv'
  BY TypeStep, CrawlStepInv, OldStep, OrphanStep DEF IInv
<1> QED BY <1>1, <1>2, PTL DEF Spec

(* Every step keeps the table and the runs well formed.                    *)
THEOREM TypeCorrect == Spec => []TypeOK
<1>1. IInv => TypeOK
  BY DEF IInv
<1> QED BY <1>1, InvariantCorrect, PTL

(* A sweep closes only what has not been seen for the whole grace window,  *)
(* and only where this run has saved something of the provider.            *)
THEOREM SweepsAreJustified == Spec => SweepJustified
<1> DEFINE Justified(p) ==
             /\ jobs[p].age > Grace
             /\ \E c \in Crawlers :
                  /\ sweeping'[c] # sweeping[c]
                  /\ \E q \in saved[c] : Source(q) = Source(p)
           Fine == \A p \in DOMAIN jobs : ClosedNow(p) /\ p \notin Orphans => Justified(p)
<1>1. IInv /\ [Next]_vars => [Fine]_vars
  <2> SUFFICES ASSUME IInv, [Next]_vars PROVE Fine
    OBVIOUS
  <2> USE DEF IInv
  <2>1. ASSUME \A p \in Open : p \notin Orphans => ~jobs'[p].closed PROVE Fine
    BY <2>1 DEF ClosedNow
  <2>2. ASSUME NEW p \in Postings, Upsert(p) PROVE Fine
    BY <2>1, <2>2, UpsertFacts DEF Open
  <2>3. CASE Tick
    <3>1. \A p \in DOMAIN jobs : jobs'[p].closed = jobs[p].closed
      BY <2>3, AgedRow DEF Tick, TypeOK
    <3> QED BY <2>1, <3>1 DEF Open
  <2>4. ASSUME NEW c \in Crawlers, NEW s \in Registry, Sweep(c, s) PROVE Fine
    <3> SUFFICES ASSUME NEW p \in DOMAIN jobs, ClosedNow(p) PROVE Justified(p)
      OBVIOUS
    <3>1. p \in Unseen(c, s)
      BY <2>4 DEF Sweep, ClosedNow, Open
    <3>2. p \in old[c] /\ Source(p) = s
      BY <3>1 DEF Unseen
    <3>3. jobs[p].age > Grace
      BY <3>2 DEF OldInv
    <3>4. s \in sweeping[c] /\ sweeping'[c] # sweeping[c]
      BY <2>4 DEF Sweep, TypeOK
    <3>5. \E q \in saved[c] : Source(q) = s
      BY <3>4 DEF CrawlInv
    <3> QED BY <3>2, <3>3, <3>4, <3>5
  <2>5. ASSUME NEW w \in Probers, NEW v \in verdicts[w], Applied(v) PROVE Fine
    <3>1. v.posting \in Orphans
      BY DEF OrphanInv
    <3>2. \A p \in DOMAIN jobs \ Orphans : jobs'[p] = jobs[p]
      BY <2>5, <3>1 DEF Applied
    <3> QED BY <2>1, <3>2 DEF Open
  <2>6. ASSUME UNCHANGED jobs PROVE Fine
    BY <2>1, <2>6 DEF Open
  <2> HIDE DEF Fine
  <2> QED BY <2>2, <2>3, <2>4, <2>5, <2>6
     DEF Next, CrawlStep, ProbeStep, Publish, Post, Begin, Fetch, Save, Skip, Cutoff, Exit, End,
         CrashCrawl, Select, Fetched, Act, ActError, CrashProbe, Lost, vars
<1> QED BY <1>1, InvariantCorrect, PTL DEF Spec, SweepJustified

-----------------------------------------------------------------------------
(* Runs of cmd/liveness that do not overlap.  Then nobody else touches the *)
(* rows a run has selected, but for upserts that reopen them: what the run *)
(* remembers of the strikes is what the row says, and the row is open.     *)

NoOverlap == \A u, w \in Probers : u = w

Remembered(w) == candidates[w] \cup verdicts[w]

HandInv ==
  \A w \in Probers :
    /\ \A k \in Remembered(w) : ~jobs[k.posting].closed /\ k.strikes = jobs[k.posting].strikes
    /\ \A k, l \in candidates[w] : k.posting = l.posting => k = l
    /\ \A v, u \in verdicts[w] : v.posting = u.posting => v = u
    /\ \A k \in candidates[w], v \in verdicts[w] : k.posting # v.posting

(* The strikes of a row are backed by as many expired reads in a row, with *)
(* one to spare for a strike that is about to be written, unless a live    *)
(* page is about to clear them or has failed to.                           *)
Pending(p, x) == \E w \in Probers : \E v \in verdicts[w] : v.posting = p /\ v.verdict = x

Backed(p) ==
  /\ jobs[p].strikes <= streak[p]
  /\ Pending(p, "expired") => jobs[p].strikes < streak[p] \/ streak[p] = Threshold

StrikesInv ==
  \A p \in DOMAIN jobs \cap Orphans :
    /\ Pending(p, "live") \/ p \in unreset \/ Backed(p)
    /\ Pending(p, "expired") => streak[p] > 0

ClosedInv == \A p \in DOMAIN jobs \cap Orphans : jobs[p].closed => jobs[p].strikes >= Threshold

ProbeInv == HandInv /\ StrikesInv /\ ClosedInv

(* A step of the others, as the probes see it: orphans are only opened.    *)
LEMMA ProbeBystander ==
  ASSUME TypeOK, OrphanInv, ProbeInv, UNCHANGED probe,
         \A p \in DOMAIN jobs : p \in DOMAIN jobs',
         \A p \in DOMAIN jobs' \cap Orphans :
           /\ jobs'[p].strikes = IF p \in DOMAIN jobs THEN jobs[p].strikes ELSE 0
           /\ jobs'[p].closed => p \in DOMAIN jobs /\ jobs[p].closed
  PROVE  ProbeInv'
<1> USE LifecycleAssumption DEF probe
<1>1. HandInv'
  <2>1. \A w \in Probers : \A k \in Remembered(w) : k.posting \in DOMAIN jobs' \cap Orphans
    BY DEF Remembered, TypeOK, OrphanInv
  <2>2. \A w \in Probers : Remembered(w)' = Remembered(w)
    BY DEF Remembered
  <2>3. \A w \in Probers : \A k \in Remembered(w) :
          ~jobs'[k.posting].closed /\ k.strikes = jobs'[k.posting].strikes
    <3> SUFFICES ASSUME NEW w \in Probers, NEW k \in Remembered(w)
                 PROVE  ~jobs'[k.posting].closed /\ k.strikes = jobs'[k.posting].strikes
      OBVIOUS
    <3>1. k.posting \in DOMAIN jobs /\ k.posting \in DOMAIN jobs' \cap Orphans
      BY <2>1 DEF Remembered, TypeOK
    <3>2. ~jobs[k.posting].closed /\ k.strikes = jobs[k.posting].strikes
      BY DEF ProbeInv, HandInv
    <3> QED BY <3>1, <3>2
  <2> QED BY <2>2, <2>3 DEF ProbeInv, HandInv
<1>2. StrikesInv'
  <2> SUFFICES ASSUME NEW p \in DOMAIN jobs' \cap Orphans
               PROVE  /\ Pending(p, "live") \/ p \in unreset \/ Backed(p)'
                      /\ Pending(p, "expired") => streak[p] > 0
    BY DEF StrikesInv, Pending
  <2>1. CASE p \in DOMAIN jobs
    BY <2>1 DEF ProbeInv, StrikesInv, Backed, Pending
  <2>2. CASE p \notin DOMAIN jobs
    <3>1. p \in Postings /\ ~Pending(p, "expired") /\ jobs'[p].strikes = 0
      BY <2>2 DEF Orphans, TypeOK, Pending
    <3>2. streak[p] \in Nat
      BY <3>1 DEF TypeOK
    <3> QED BY <3>1, <3>2 DEF Backed, Pending
  <2> QED BY <2>1, <2>2
<1>3. ClosedInv'
  BY DEF ProbeInv, ClosedInv
<1> QED BY <1>1, <1>2, <1>3 DEF ProbeInv

(* A probe run judges a page, with nobody else about.                      *)
LEMMA ProbeFetched ==
  ASSUME NoOverlap, TypeOK, OrphanInv, ProbeInv,
         NEW w \in Probers, NEW k \in candidates[w], Fetched(w, k)
  PROVE  ProbeInv'
<1>1. PICK x \in Verdict :
        /\ verdicts' = [verdicts EXCEPT ![w] = @ \cup
             {[posting |-> k.posting, strikes |-> k.strikes, verdict |-> x]}]
        /\ streak' = [streak EXCEPT ![k.posting] = Read(@, x)]
  BY DEF Fetched
<1> DEFINE j == [posting |-> k.posting, strikes |-> k.strikes, verdict |-> x]
<1>2. j.posting = k.posting /\ j.strikes = k.strikes /\ j.verdict = x
  OBVIOUS
<1>3. /\ jobs' = jobs
      /\ candidates'[w] = candidates[w] \ {k}
      /\ verdicts'[w] = verdicts[w] \cup {j}
      /\ \A u \in Probers : u = w
  BY <1>1 DEF Fetched, TypeOK, NoOverlap
<1>4. k.posting \in DOMAIN jobs /\ k.posting \in Postings
  BY DEF TypeOK
<1>5. /\ streak'[k.posting] = Read(streak[k.posting], x)
      /\ \A p \in Postings \ {k.posting} : streak'[p] = streak[p]
      /\ \A p \in Postings : streak[p] \in 0..Threshold
      /\ unreset' = unreset
  BY <1>1, <1>4 DEF TypeOK, Fetched
<1> HIDE DEF j
<1>6. HandInv'
  <2>1. /\ \A c \in candidates[w] : ~jobs[c.posting].closed /\ c.strikes = jobs[c.posting].strikes
        /\ \A v \in verdicts[w] : ~jobs[v.posting].closed /\ v.strikes = jobs[v.posting].strikes
        /\ \A c, l \in candidates[w] : c.posting = l.posting => c = l
        /\ \A v, u \in verdicts[w] : v.posting = u.posting => v = u
        /\ \A c \in candidates[w], v \in verdicts[w] : c.posting # v.posting
    BY DEF ProbeInv, HandInv, Remembered
  <2> QED BY <1>2, <1>3, <2>1 DEF HandInv, Remembered
<1>7. StrikesInv'
  <2> SUFFICES ASSUME NEW p \in DOMAIN jobs \cap Orphans
               PROVE  /\ Pending(p, "live")' \/ p \in unreset \/ Backed(p)'
                      /\ Pending(p, "expired")' => streak'[p] > 0
    BY <1>3, <1>5 DEF StrikesInv
  <2>1. /\ p \in Postings /\ streak[p] \in 0..Threshold /\ Threshold \in Nat \ {0}
        /\ jobs[p].strikes \in 0..Threshold
        /\ Pending(p, "live") \/ p \in unreset \/ Backed(p)
        /\ Pending(p, "expired") => streak[p] > 0
    BY <1>5, LifecycleAssumption DEF ProbeInv, StrikesInv, TypeOK, Row
  <2>2. CASE p # k.posting
    <3>1. /\ Pending(p, "live")' <=> Pending(p, "live")
          /\ Pending(p, "expired")' <=> Pending(p, "expired")
      BY <1>2, <1>3, <2>2 DEF Pending
    <3> QED BY <1>3, <1>5, <2>1, <2>2, <3>1 DEF Backed
  <2>3. CASE p = k.posting
    <3>1. ~Pending(p, "live") /\ ~Pending(p, "expired")
      BY <1>3, <2>3 DEF Pending, ProbeInv, HandInv
    <3>2. /\ Pending(p, "live")' <=> x = "live"
          /\ Pending(p, "expired")' <=> x = "expired"
      BY <1>2, <1>3, <2>3, <3>1 DEF Pending
    <3>3. CASE x = "live"
      BY <3>2, <3>3
    <3>4. CASE x = "uncertain"
      <4>1. streak'[p] = streak[p]
        BY <1>5, <2>3, <3>4 DEF Read
      <4> QED BY <1>3, <2>1, <3>1, <3>2, <3>4, <4>1 DEF Backed
    <3>5. CASE x = "expired"
      <4>1. streak'[p] = IF streak[p] < Threshold THEN streak[p] + 1 ELSE streak[p]
        BY <1>5, <2>3, <3>5 DEF Read
      <4> QED BY <1>3, <2>1, <3>1, <3>2, <3>5, <4>1 DEF Backed
    <3> QED BY <3>3, <3>4, <3>5 DEF Verdict
  <2> QED BY <2>2, <2>3
<1>8. ClosedInv'
  BY <1>3 DEF ProbeInv, ClosedInv
<1> QED BY <1>6, <1>7, <1>8 DEF ProbeInv

(* What a verdict does to its row.                                         *)
LEMMA ActFacts ==
  ASSUME TypeOK, NEW w \in Probers, NEW v \in verdicts[w], Applied(v)
  PROVE  /\ v \in Judged /\ v.posting \in DOMAIN jobs /\ v.posting \in Postings
         /\ DOMAIN jobs' = DOMAIN jobs
         /\ jobs'[v.posting] = Apply(jobs[v.posting], v)
         /\ \A p \in DOMAIN jobs \ {v.posting} : jobs'[p] = jobs[p]
         /\ \A p \in unreset \ {v.posting} : p \in unreset'
         /\ ~Clears(v) => unreset' = unreset
<1>1. v \in Judged /\ v.posting \in DOMAIN jobs /\ v.posting \in Postings
  BY DEF TypeOK
<1>2. /\ DOMAIN jobs' = DOMAIN jobs
      /\ jobs'[v.posting] = Apply(jobs[v.posting], v)
      /\ \A p \in DOMAIN jobs \ {v.posting} : jobs'[p] = jobs[p]
  BY <1>1 DEF Applied
<1>3. /\ Uncleared({v}) \subseteq {v.posting}
      /\ ~Clears(v) => Uncleared({v}) = {}
  BY DEF Uncleared
<1>4. unreset' = unreset \ Uncleared({v})
  BY DEF Applied
<1> QED BY <1>1, <1>2, <1>3, <1>4

LEMMA ProbeActs ==
  ASSUME NoOverlap, TypeOK, OrphanInv, ProbeInv,
         NEW w \in Probers, NEW v \in verdicts[w], Applied(v),
         verdicts' = [verdicts EXCEPT ![w] = @ \ {v}], UNCHANGED <<candidates, streak>>
  PROVE  ProbeInv'
<1> DEFINE o == v.posting
           r == jobs[o]
<1>1. /\ v \in Judged /\ o \in DOMAIN jobs /\ o \in Postings /\ r \in Row
      /\ DOMAIN jobs' = DOMAIN jobs
      /\ jobs'[o] = Apply(r, v)
      /\ \A p \in DOMAIN jobs \ {o} : jobs'[p] = jobs[p]
      /\ \A p \in unreset \ {o} : p \in unreset'
      /\ ~Clears(v) => unreset' = unreset
  BY ActFacts DEF TypeOK
<1>2. /\ candidates' = candidates
      /\ verdicts'[w] = verdicts[w] \ {v}
      /\ \A u \in Probers : u = w
      /\ streak' = streak
  BY DEF TypeOK, NoOverlap
<1>3. /\ \A c \in Remembered(w) : ~jobs[c.posting].closed /\ c.strikes = jobs[c.posting].strikes
      /\ \A c, l \in candidates[w] : c.posting = l.posting => c = l
      /\ \A y, u \in verdicts[w] : y.posting = u.posting => y = u
      /\ \A c \in candidates[w], u \in verdicts[w] : c.posting # u.posting
  BY DEF ProbeInv, HandInv
<1>4. \A c \in Remembered(w)' : c \in Remembered(w) /\ c.posting # o /\ c.posting \in DOMAIN jobs
  <2>1. \A c \in Remembered(w) : c.posting \in DOMAIN jobs
    BY DEF Remembered, TypeOK
  <2> QED BY <1>2, <1>3, <2>1 DEF Remembered
<1>5. /\ Apply(r, v) \in Row
      /\ v.verdict = "expired" => Apply(r, v) = Mark(r)
      /\ v.verdict # "expired" => Apply(r, v).closed = r.closed
      /\ v.verdict = "live" => Apply(r, v).strikes = 0
      /\ v.verdict = "uncertain" => Apply(r, v) = r
  <2>1. v.strikes = r.strikes
    BY <1>3 DEF Remembered
  <2> QED BY <1>1, <2>1, AppliedRow
<1>6. /\ Mark(r).strikes = IF r.strikes < Threshold THEN r.strikes + 1 ELSE Threshold
      /\ Mark(r).closed <=> r.closed \/ Mark(r).strikes >= Threshold
  BY <1>1, MarkedRow
<1>7. v.verdict \in {"live", "expired", "uncertain"} /\ ~r.closed
  BY <1>1, <1>3 DEF Judged, Verdict, Remembered
<1>8. /\ r.strikes \in 0..Threshold /\ streak[o] \in 0..Threshold /\ Threshold \in Nat
  BY <1>1, LifecycleAssumption DEF TypeOK, Row
<1>9. /\ Pending(o, v.verdict)
      /\ \A x \in Verdict : Pending(o, x) => x = v.verdict
      /\ \A x \in Verdict : ~Pending(o, x)'
      /\ \A p \in Postings \ {o}, x \in Verdict : Pending(p, x)' <=> Pending(p, x)
  BY <1>2, <1>3 DEF Pending
<1> HIDE DEF o, r
<1>10. HandInv'
  <2>1. \A c \in Remembered(w)' : ~jobs'[c.posting].closed /\ c.strikes = jobs'[c.posting].strikes
    BY <1>1, <1>3, <1>4
  <2>2. candidates'[w] = candidates[w] /\ verdicts'[w] \subseteq verdicts[w]
    BY <1>2
  <2> QED BY <1>2, <1>3, <2>1, <2>2 DEF HandInv
<1>11. StrikesInv'
  <2> SUFFICES ASSUME NEW p \in DOMAIN jobs \cap Orphans
               PROVE  /\ Pending(p, "live")' \/ p \in unreset' \/ Backed(p)'
                      /\ Pending(p, "expired")' => streak'[p] > 0
    BY <1>1 DEF StrikesInv
  <2>1. /\ p \in Postings
        /\ Pending(p, "live") \/ p \in unreset \/ Backed(p)
        /\ Pending(p, "expired") => streak[p] > 0
        /\ "live" \in Verdict /\ "expired" \in Verdict
    BY DEF ProbeInv, StrikesInv, Orphans, Verdict
  <2>2. CASE p # o
    <3>1. /\ Pending(p, "live")' <=> Pending(p, "live")
          /\ Pending(p, "expired")' <=> Pending(p, "expired")
      BY <1>9, <2>1, <2>2
    <3> QED BY <1>1, <1>2, <2>1, <2>2, <3>1 DEF Backed
  <2>3. CASE p = o
    <3>1. ~Pending(p, "live")' /\ ~Pending(p, "expired")'
      BY <1>9, <2>1, <2>3
    <3>2. CASE v.verdict = "live"
      BY <1>1, <1>2, <1>5, <1>8, <2>3, <3>1, <3>2 DEF Backed
    <3>3. CASE v.verdict = "expired"
      <4>1. unreset' = unreset
        BY <1>1, <3>3 DEF Clears
      <4>2. p \in unreset \/ r.strikes < streak[o] \/ streak[o] = Threshold
        BY <1>9, <2>1, <2>3, <3>3 DEF Backed, r
      <4> QED BY <1>1, <1>2, <1>5, <1>6, <1>8, <2>3, <3>1, <3>3, <4>1, <4>2 DEF Backed
    <3>4. CASE v.verdict = "uncertain"
      <4>1. unreset' = unreset
        BY <1>1, <3>4 DEF Clears
      <4>2. p \in unreset \/ r.strikes <= streak[o]
        BY <1>9, <2>1, <2>3, <3>4 DEF Backed, r
      <4> QED BY <1>1, <1>2, <1>5, <2>3, <3>1, <3>4, <4>1, <4>2 DEF Backed
    <3> QED BY <1>7, <3>2, <3>3, <3>4
  <2> QED BY <2>2, <2>3
<1>12. ClosedInv'
  <2> SUFFICES ASSUME NEW p \in DOMAIN jobs \cap Orphans, jobs'[p].closed
               PROVE  jobs'[p].strikes >= Threshold
    BY <1>1 DEF ClosedInv
  <2>1. CASE p # o
    BY <1>1, <2>1 DEF ProbeInv, ClosedInv
  <2>2. CASE p = o
    BY <1>1, <1>5, <1>6, <1>7, <2>2
  <2> QED BY <2>1, <2>2
<1> QED BY <1>10, <1>11, <1>12 DEF ProbeInv

(* Verdicts are lost: those of live pages leave strikes that nothing backs.*)
LEMMA ProbeLoses ==
  ASSUME NoOverlap, TypeOK, ProbeInv,
         NEW w \in Probers, NEW V \in SUBSET verdicts[w], Lost(V), UNCHANGED streak,
         candidates'[w] \subseteq candidates[w], verdicts'[w] = verdicts[w] \ V
  PROVE  ProbeInv'
<1>1. (\A u \in Probers : u = w) /\ jobs' = jobs
  BY DEF NoOverlap, Lost
<1>2. HandInv'
  BY <1>1 DEF ProbeInv, HandInv, Remembered
<1>3. StrikesInv'
  <2> SUFFICES ASSUME NEW p \in DOMAIN jobs \cap Orphans
               PROVE  /\ Pending(p, "live")' \/ p \in unreset' \/ Backed(p)'
                      /\ Pending(p, "expired")' => streak[p] > 0
    BY <1>1 DEF StrikesInv
  <2>1. /\ p \in Postings /\ jobs[p].strikes \in Nat /\ streak[p] \in Nat
        /\ Pending(p, "live") \/ p \in unreset \/ Backed(p)
        /\ Pending(p, "expired") => streak[p] > 0
    BY LifecycleAssumption DEF ProbeInv, StrikesInv, TypeOK, Row
  <2>2. Pending(p, "expired")' => Pending(p, "expired")
    BY <1>1 DEF Pending
  <2>3. p \in unreset => p \in unreset'
    BY DEF Lost
  <2>4. Backed(p) => Backed(p)'
    BY <1>1, <2>2 DEF Backed
  <2>5. CASE \E v \in V : v.posting = p /\ v.verdict = "live"
    <3>1. PICK v \in V : v.posting = p /\ v.verdict = "live"
      BY <2>5
    <3>2. CASE v.strikes # 0
      BY <2>1, <2>2, <3>1, <3>2 DEF Lost, Uncleared, Clears
    <3>3. CASE v.strikes = 0
      <4>1. jobs[p].strikes = 0 /\ ~Pending(p, "expired")
        BY <1>1, <3>1, <3>3 DEF ProbeInv, HandInv, Remembered, Pending
      <4> QED BY <1>1, <2>1, <2>2, <4>1 DEF Backed
    <3> QED BY <3>2, <3>3
  <2>6. CASE ~\E v \in V : v.posting = p /\ v.verdict = "live"
    <3>1. Pending(p, "live") => Pending(p, "live")'
      BY <1>1, <2>6 DEF Pending
    <3> QED BY <2>1, <2>2, <2>3, <2>4, <3>1
  <2> QED BY <2>5, <2>6
<1>4. ClosedInv'
  BY <1>1 DEF ProbeInv, ClosedInv
<1> QED BY <1>2, <1>3, <1>4 DEF ProbeInv

LEMMA ProbeStepInv ==
  ASSUME NoOverlap, IInv, ProbeInv, [Next]_vars
  PROVE  ProbeInv'
<1> USE DEF IInv, crawl, probe
<1>1. ASSUME NEW p \in Postings, Upsert(p), UNCHANGED probe PROVE ProbeInv'
  <2>1. /\ DOMAIN jobs' = DOMAIN jobs \cup {p}
        /\ \A q \in DOMAIN jobs \ {p} : jobs'[q] = jobs[q]
        /\ ~jobs'[p].closed
        /\ jobs'[p].strikes = IF p \in DOMAIN jobs THEN jobs[p].strikes ELSE 0
    BY <1>1, UpsertFacts
  <2>2. \A q \in DOMAIN jobs' :
          /\ jobs'[q].strikes = IF q \in DOMAIN jobs THEN jobs[q].strikes ELSE 0
          /\ jobs'[q].closed => q \in DOMAIN jobs /\ jobs[q].closed
    BY <2>1
  <2> QED BY <1>1, <2>1, <2>2, ProbeBystander
<1>2. CASE Tick
  <2>1. \A p \in DOMAIN jobs : jobs'[p].strikes = jobs[p].strikes /\ jobs'[p].closed = jobs[p].closed
    BY <1>2, AgedRow DEF Tick, TypeOK
  <2>2. DOMAIN jobs' = DOMAIN jobs /\ UNCHANGED probe
    BY <1>2 DEF Tick
  <2> QED BY <2>1, <2>2, ProbeBystander
<1>3. ASSUME NEW c \in Crawlers, NEW s \in Registry, Sweep(c, s) PROVE ProbeInv'
  <2>1. \A p \in DOMAIN jobs \cap Orphans : jobs'[p] = jobs[p]
    BY <1>3 DEF Sweep, Unseen, Orphans
  <2>2. DOMAIN jobs' = DOMAIN jobs /\ UNCHANGED probe
    BY <1>3 DEF Sweep
  <2> QED BY <2>1, <2>2, ProbeBystander
<1>4. ASSUME UNCHANGED <<jobs, probe>> PROVE ProbeInv'
  BY <1>4, ProbeBystander
<1>5. ASSUME NEW w \in Probers, Select(w) PROVE ProbeInv'
  <2>1. /\ candidates'[w] = {[posting |-> p, strikes |-> jobs[p].strikes] : p \in Open \cap Orphans}
        /\ verdicts[w] = {} /\ UNCHANGED <<jobs, verdicts, streak, unreset>>
        /\ \A u \in Probers : u = w
    BY <1>5 DEF Select, TypeOK, NoOverlap
  <2>2. \A k \in candidates'[w] : ~jobs[k.posting].closed /\ k.strikes = jobs[k.posting].strikes
    BY <2>1 DEF Open
  <2>3. \A k, l \in candidates'[w] : k.posting = l.posting => k = l
    BY <2>1
  <2>4. HandInv'
    BY <2>1, <2>2, <2>3 DEF HandInv, Remembered
  <2>5. StrikesInv' /\ ClosedInv'
    BY <2>1 DEF ProbeInv, StrikesInv, ClosedInv, Pending, Backed
  <2> QED BY <2>4, <2>5 DEF ProbeInv
<1>6. ASSUME NEW w \in Probers, NEW v \in verdicts[w], Act(w, v) \/ ActError(w, v) PROVE ProbeInv'
  <2>1. /\ Applied(v) \/ Lost({v})
        /\ verdicts' = [verdicts EXCEPT ![w] = @ \ {v}]
        /\ UNCHANGED <<candidates, streak>>
    BY <1>6 DEF Act, ActError
  <2>2. CASE Applied(v)
    BY <2>1, <2>2, ProbeActs
  <2>3. CASE Lost({v})
    <3>1. /\ {v} \in SUBSET verdicts[w]
          /\ candidates'[w] \subseteq candidates[w] /\ verdicts'[w] = verdicts[w] \ {v}
      BY <2>1 DEF TypeOK
    <3> QED BY <2>1, <2>3, <3>1, ProbeLoses
  <2> QED BY <2>1, <2>2, <2>3
<1>7. ASSUME NEW w \in Probers, CrashProbe(w) PROVE ProbeInv'
  <2>1. /\ Lost(verdicts[w]) /\ UNCHANGED streak
        /\ candidates'[w] = {} /\ verdicts'[w] = {}
    BY <1>7 DEF CrashProbe, TypeOK
  <2> QED BY <2>1, ProbeLoses
<1> QED BY <1>1, <1>2, <1>3, <1>4, <1>5, <1>6, <1>7, ProbeFetched
   DEF Next, CrawlStep, ProbeStep, Publish, Post, Begin, Fetch, Save, Skip, Cutoff, Exit, End,
       CrashCrawl, vars

LEMMA ProbeInvariant == NoOverlap => (Spec => []ProbeInv)
<1> SUFFICES ASSUME NoOverlap PROVE Spec => []ProbeInv
  OBVIOUS
<1>1. Init => ProbeInv
  BY DEF Init, ProbeInv, HandInv, Remembered, StrikesInv, ClosedInv
<1>2. IInv /\ ProbeInv /\ [Next]_vars => ProbeInv'
  BY ProbeStepInv
<1> QED BY <1>1, <1>2, InvariantCorrect, PTL DEF Spec

(* Probes never touch a job of a registered provider, however many overlap.*)
THEOREM ProbesKeepToOrphans ==
  Spec => [](\A p \in DOMAIN jobs : p \notin Orphans => jobs[p].strikes = 0)
<1>1. IInv => \A p \in DOMAIN jobs : p \notin Orphans => jobs[p].strikes = 0
  BY DEF IInv, OrphanInv
<1> QED BY <1>1, InvariantCorrect, PTL

(* Sweep and probes keep to their own jobs.                                *)
THEOREM TerritoriesKept == NoOverlap => (Spec => []Territories)
<1> SUFFICES ASSUME NoOverlap PROVE Spec => []Territories
  OBVIOUS
<1>1. IInv /\ ProbeInv => Territories
  BY DEF IInv, OrphanInv, ProbeInv, ClosedInv, Territories
<1> QED BY <1>1, InvariantCorrect, ProbeInvariant, PTL

(* An orphan is closed only while its page reads expired, and after        *)
(* Threshold such reads in a row unless a reset was lost between them.     *)
THEOREM ProbesAreJustified == NoOverlap => (Spec => ProbesJustified)
<1> SUFFICES ASSUME NoOverlap PROVE Spec => ProbesJustified
  OBVIOUS
<1> DEFINE Justified(p) ==
             /\ streak[p] > 0
             /\ streak[p] >= Threshold \/ p \in unreset
           Fine == \A p \in Orphans : ClosedNow(p) => Justified(p)
<1>1. IInv /\ ProbeInv /\ [Next]_vars => [Fine]_vars
  <2> SUFFICES ASSUME IInv, ProbeInv, [Next]_vars PROVE Fine
    OBVIOUS
  <2> USE DEF IInv
  <2>1. ASSUME \A p \in Open \cap Orphans : ~jobs'[p].closed PROVE Fine
    BY <2>1 DEF ClosedNow
  <2>2. ASSUME NEW p \in Postings, Upsert(p) PROVE Fine
    BY <2>1, <2>2, UpsertFacts DEF Open
  <2>3. CASE Tick
    <3>1. \A p \in DOMAIN jobs : jobs'[p].closed = jobs[p].closed
      BY <2>3, AgedRow DEF Tick, TypeOK
    <3> QED BY <2>1, <3>1 DEF Open
  <2>4. ASSUME NEW c \in Crawlers, NEW s \in Registry, Sweep(c, s) PROVE Fine
    <3>1. \A p \in DOMAIN jobs \cap Orphans : jobs'[p] = jobs[p]
      BY <2>4 DEF Sweep, Unseen, Orphans
    <3> QED BY <2>1, <3>1 DEF Open
  <2>5. ASSUME NEW w \in Probers, NEW v \in verdicts[w], Applied(v) PROVE Fine
    <3> SUFFICES ASSUME NEW p \in Orphans, ClosedNow(p) PROVE Justified(p)
      OBVIOUS
    <3>1. p \in DOMAIN jobs /\ ~jobs[p].closed /\ jobs'[p].closed /\ jobs[p] \in Row
      BY DEF ClosedNow, Open, TypeOK
    <3>2. p = v.posting /\ jobs'[p] = Apply(jobs[p], v) /\ v \in Judged
      BY <2>5, <3>1, ActFacts
    <3>3. v.verdict = "expired" /\ jobs'[p] = Mark(jobs[p])
      BY <3>1, <3>2, AppliedRow
    <3>4. Pending(p, "expired") /\ ~Pending(p, "live")
      BY <3>2, <3>3 DEF Pending, ProbeInv, HandInv, NoOverlap
    <3>5. /\ streak[p] > 0
          /\ p \in unreset \/ jobs[p].strikes < streak[p] \/ streak[p] = Threshold
      BY <3>1, <3>4 DEF ProbeInv, StrikesInv, Backed
    <3>6. jobs[p].strikes + 1 >= Threshold
      BY <3>1, <3>3, MarkedRow, LifecycleAssumption DEF Row
    <3>7. streak[p] \in Nat /\ jobs[p].strikes \in Nat /\ Threshold \in Nat
      BY <3>1, LifecycleAssumption DEF TypeOK, Row
    <3> QED BY <3>5, <3>6, <3>7
  <2>6. ASSUME UNCHANGED jobs PROVE Fine
    BY <2>1, <2>6 DEF Open
  <2> HIDE DEF Fine
  <2> QED BY <2>2, <2>3, <2>4, <2>5, <2>6
     DEF Next, CrawlStep, ProbeStep, Publish, Post, Begin, Fetch, Save, Skip, Cutoff, Exit, End,
         CrashCrawl, Select, Fetched, Act, ActError, CrashProbe, Lost, vars
<1> QED BY <1>1, InvariantCorrect, ProbeInvariant, PTL DEF Spec, ProbesJustified
=============================================================================
