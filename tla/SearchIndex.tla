---------------------------- MODULE SearchIndex -----------------------------
(***************************************************************************)
(* cmd/reindex copies the jobs table into the Meilisearch index, page by   *)
(* page in the order of the primary key, while the other processes insert  *)
(* rows and edit, close and reopen them.  Meilisearch only queues what it  *)
(* is sent; a run waits for each of its tasks.                             *)
(*                                                                         *)
(* A row, and its document, consists of a text, which stands for all the   *)
(* fields that every document carries, and of a work mode, the one field a *)
(* document leaves out when it is empty.                                   *)
(***************************************************************************)
EXTENDS Naturals, Sequences, FiniteSets

CONSTANTS
  Texts,        \* what the fields sent with every document may hold
  Modes,        \* the work modes, the empty one included
  NoMode,       \* work_mode = ''
  Reindexers,   \* cmd/reindex processes that may be alive at the same time
  BatchSize,    \* reindexBatchSize
  MaxId,        \* bound: job ids ever allocated
  MaxEdits,     \* bound: changes to rows that are in the table
  MaxFaults     \* bound: failed requests and tasks, and process crashes

Nobody == "nobody"   \* whoever sent a task and died

ASSUME SearchAssumption ==
  /\ Texts # {}
  /\ NoMode \in Modes
  /\ Nobody \notin Reindexers
  /\ BatchSize \in Nat \ {0}
  /\ MaxId \in Nat
  /\ MaxEdits \in Nat
  /\ MaxFaults \in Nat

VARIABLES
  rows,       \* the committed rows of jobs: id -> row
  lastId,     \* the identity sequence of jobs
  open,       \* ids allocated by transactions that have not ended
  index,      \* the Meilisearch index: id -> document
  tasks,      \* the tasks Meilisearch has accepted and not processed
  pc,         \* where each run stands
  afterID,    \* the last id of the page each run has read
  page,       \* what it holds of that page
  fresh,      \* history: rows unchanged since a run started, as long as no
              \* other run overlaps it, or since they came in ahead of it
  edits,      \* history: changes so far
  faults      \* history: failures so far

table == <<rows, lastId, open>>
engine == <<index, tasks>>
run == <<afterID, page>>
vars == <<rows, lastId, open, index, tasks, pc, afterID, page,
          fresh, edits, faults>>

Ids == 1..MaxId
Row == [closed : BOOLEAN, text : Texts, mode : Modes]
Document == [text : Texts, mode : Modes]
NoPage == [i \in {} |-> [closed |-> TRUE, text |-> CHOOSE t \in Texts : TRUE, mode |-> NoMode]]

NoDocs == [i \in {} |-> NoPage[i]]

(* The document, and the wire shape, of a row.                             *)
FromJob(row) == [text |-> row.text, mode |-> row.mode]

-----------------------------------------------------------------------------
(* The table.  An insert takes its id from the sequence when it runs, and  *)
(* the row shows when its transaction commits: not always in that order.   *)

Allocate ==
  /\ lastId < MaxId
  /\ lastId' = lastId + 1
  /\ open' = open \cup {lastId + 1}
  /\ UNCHANGED <<rows, engine, pc, run, fresh, edits, faults>>

(* Mutant: off by one, any page is the last.                                *)
Short_OffByOne(r) == Cardinality(DOMAIN page[r]) <= BatchSize

Short(r) == Cardinality(DOMAIN page[r]) < BatchSize

(* The run has yet to read the page the id belongs to.                     *)
Ahead(r, i) ==
  /\ i > afterID[r]
  /\ pc[r] # "idle"
  /\ pc[r] # "read" => ~Short(r)

Commit(i) ==
  /\ i \in open
  /\ open' = open \ {i}
  /\ \E t \in Texts, m \in Modes :
       rows' = [k \in DOMAIN rows \cup {i} |->
                  IF k = i THEN [closed |-> FALSE, text |-> t, mode |-> m] ELSE rows[k]]
  /\ fresh' = [r \in Reindexers |-> IF Ahead(r, i) THEN fresh[r] \cup {i} ELSE fresh[r]]
  /\ UNCHANGED <<lastId, engine, pc, run, edits, faults>>

(* The transaction rolls back, or its upsert hit an existing row: either   *)
(* way the id is spent.                                                    *)
Spend(i) ==
  /\ i \in open
  /\ open' = open \ {i}
  /\ UNCHANGED <<rows, lastId, engine, pc, run, fresh, edits, faults>>

(* A row is re-ingested, enriched, closed or reopened.                     *)
Edit(i) ==
  /\ edits < MaxEdits
  /\ i \in DOMAIN rows
  /\ \E row \in Row \ {rows[i]} : rows' = [rows EXCEPT ![i] = row]
  /\ edits' = edits + 1
  /\ fresh' = [r \in Reindexers |-> fresh[r] \ {i}]
  /\ UNCHANGED <<lastId, open, engine, pc, run, faults>>

-----------------------------------------------------------------------------
(* Meilisearch processes its tasks in the order it accepted them.  A task  *)
(* holds the documents to merge in, or the ids to delete.                  *)

Send(r, docs, ids) == tasks' = Append(tasks, [by |-> r, docs |-> docs, ids |-> ids])
Awaits(r) == \E n \in DOMAIN tasks : tasks[n].by = r

(* PUT documents: a field that a document leaves out keeps its old value.  *)
Merge(docs) ==
  [i \in DOMAIN index \cup DOMAIN docs |->
     IF i \notin DOMAIN docs THEN index[i]
     ELSE IF docs[i].mode = NoMode /\ i \in DOMAIN index
          THEN [docs[i] EXCEPT !.mode = index[i].mode]
     ELSE docs[i]]

Process ==
  /\ tasks # <<>>
  /\ LET task == Head(tasks)
         merged == Merge(task.docs)
     IN index' = [i \in DOMAIN merged \ task.ids |-> merged[i]]
  /\ tasks' = Tail(tasks)
  /\ UNCHANGED <<table, pc, run, fresh, edits, faults>>

-----------------------------------------------------------------------------
(* One run of cmd/reindex.                                                 *)

(* EnsureIndex leaves the documents alone.                                 *)
Start(r) ==
  /\ pc[r] = "idle"
  /\ pc' = [pc EXCEPT ![r] = "read"]
  /\ fresh' = [q \in Reindexers |->
                 IF q = r /\ \A x \in Reindexers : pc[x] = "idle" THEN DOMAIN rows ELSE {}]
  /\ UNCHANGED <<table, engine, run, edits, faults>>

(* Mutant: a page survives its run.                                         *)
Reset_KeepsPage(r) ==
  /\ pc' = [pc EXCEPT ![r] = "idle"]
  /\ afterID' = [afterID EXCEPT ![r] = 0]
  /\ page' = page
  /\ fresh' = [fresh EXCEPT ![r] = {}]

(* The run is over, or its process is gone: nothing of it survives.        *)
Reset(r) ==
  /\ pc' = [pc EXCEPT ![r] = "idle"]
  /\ afterID' = [afterID EXCEPT ![r] = 0]
  /\ page' = [page EXCEPT ![r] = NoPage]
  /\ fresh' = [fresh EXCEPT ![r] = {}]

(* Mutant: the feed leaves out closed rows, as the lists do.                *)
PageAfter_OpenOnly(n) ==
  LET rest == {i \in DOMAIN rows : i > n /\ ~rows[i].closed}
  IN {i \in rest : Cardinality({k \in rest : k < i}) < BatchSize}

(* ListJobsByIDAfter: the ids of the next page.                            *)
PageAfter(n) ==
  LET rest == {i \in DOMAIN rows : i > n}
  IN {i \in rest : Cardinality({k \in rest : k < i}) < BatchSize}

Read(r) ==
  /\ pc[r] = "read"
  /\ LET ids == PageAfter(afterID[r])
     IN /\ ids # {}
        /\ afterID' = [afterID EXCEPT ![r] = CHOOSE n \in ids : \A i \in ids : i <= n]
        /\ page' = [page EXCEPT ![r] = [i \in ids |-> rows[i]]]
  /\ pc' = [pc EXCEPT ![r] = "index"]
  /\ UNCHANGED <<table, engine, fresh, edits, faults>>

(* splitJobs: open rows become documents, closed ones deletions.           *)
Docs(r) == [i \in {k \in DOMAIN page[r] : ~page[r][k].closed} |-> FromJob(page[r][i])]
DeleteIDs(r) == {i \in DOMAIN page[r] : page[r][i].closed}

(* IndexJobs, then DeleteJobs: each sends its task unless it has nothing   *)
(* to send.                                                                *)
IndexJobs(r) ==
  /\ pc[r] = "index"
  /\ IF DOMAIN Docs(r) = {} THEN UNCHANGED tasks ELSE Send(r, Docs(r), {})
  /\ pc' = [pc EXCEPT ![r] = "delete"]
  /\ UNCHANGED <<table, index, run, fresh, edits, faults>>

DeleteJobs(r) ==
  /\ pc[r] = "delete" /\ ~Awaits(r)
  /\ IF DeleteIDs(r) = {} THEN UNCHANGED tasks ELSE Send(r, NoDocs, DeleteIDs(r))
  /\ pc' = [pc EXCEPT ![r] = "next"]
  /\ UNCHANGED <<table, index, run, fresh, edits, faults>>

(* A full page is followed by another one ...                              *)
NextPage(r) ==
  /\ pc[r] = "next" /\ ~Awaits(r) /\ ~Short(r)
  /\ pc' = [pc EXCEPT ![r] = "read"]
  /\ page' = [page EXCEPT ![r] = NoPage]
  /\ UNCHANGED <<table, engine, afterID, fresh, edits, faults>>

(* ... and a short or an empty one is the last.                            *)
AtEnd(r) ==
  \/ pc[r] = "next" /\ ~Awaits(r) /\ Short(r)
  \/ pc[r] = "read" /\ PageAfter(afterID[r]) = {}

Finish(r) ==
  /\ AtEnd(r)
  /\ Reset(r)
  /\ UNCHANGED <<table, engine, edits, faults>>

(* The process dies or a query fails.  A task it has sent is processed     *)
(* all the same.                                                           *)
Crash(r) ==
  /\ pc[r] # "idle"
  /\ faults < MaxFaults
  /\ faults' = faults + 1
  /\ Reset(r)
  /\ tasks' = [n \in DOMAIN tasks |->
                 IF tasks[n].by = r THEN [tasks[n] EXCEPT !.by = Nobody] ELSE tasks[n]]
  /\ UNCHANGED <<table, index, edits>>

(* A task fails, and with it the run that waits for it.                    *)
TaskFails(r) ==
  /\ tasks # <<>>
  /\ Head(tasks).by = r
  /\ faults < MaxFaults
  /\ faults' = faults + 1
  /\ tasks' = Tail(tasks)
  /\ Reset(r)
  /\ UNCHANGED <<table, index, edits>>

-----------------------------------------------------------------------------
Init ==
  /\ rows = NoPage
  /\ lastId = 0
  /\ open = {}
  /\ index = NoDocs
  /\ tasks = <<>>
  /\ pc = [r \in Reindexers |-> "idle"]
  /\ afterID = [r \in Reindexers |-> 0]
  /\ page = [r \in Reindexers |-> NoPage]
  /\ fresh = [r \in Reindexers |-> {}]
  /\ edits = 0
  /\ faults = 0

RunStep(r) ==
  \/ Start(r) \/ Read(r) \/ IndexJobs(r) \/ DeleteJobs(r) \/ NextPage(r) \/ Finish(r)

Next ==
  \/ Allocate
  \/ \E i \in Ids : Commit(i) \/ Spend(i) \/ Edit(i)
  \/ Process
  \/ \E r \in Reindexers : RunStep(r) \/ Crash(r) \/ TaskFails(r)

Spec == Init /\ [][Next]_vars

(* cron starts a run again and again, a live process keeps going and       *)
(* Meilisearch works off its queue.  Nothing is assumed of the writers.    *)
FairSpec ==
  /\ Spec
  /\ WF_vars(Process)
  /\ \A r \in Reindexers : WF_vars(RunStep(r))

-----------------------------------------------------------------------------
(* Properties.                                                             *)

TypeOK ==
  /\ DOMAIN rows \subseteq 1..lastId
  /\ \A i \in DOMAIN rows : rows[i] \in Row
  /\ lastId \in 0..MaxId
  /\ open \subseteq 1..lastId
  /\ DOMAIN index \subseteq DOMAIN rows
  /\ \A i \in DOMAIN index : index[i] \in Document
  /\ pc \in [Reindexers -> {"idle", "read", "index", "delete", "next"}]
  /\ afterID \in [Reindexers -> 0..MaxId]
  /\ \A r \in Reindexers :
       /\ \A i \in DOMAIN page[r] : i <= afterID[r] /\ i \in DOMAIN rows
       /\ fresh[r] \subseteq DOMAIN rows
  /\ \A n \in DOMAIN tasks : tasks[n].by \in Reindexers \cup {Nobody}

(* The index shows an open row with its text, and no closed one.           *)
Shows(i) ==
  IF rows[i].closed THEN i \notin DOMAIN index
  ELSE i \in DOMAIN index /\ index[i].text = rows[i].text

(* A run that ends well has brought the index up to date with every row    *)
(* that was left alone since it started, or since it appeared at an id the *)
(* run had yet to read, whatever tasks a crashed run left behind in the    *)
(* queue (reindexAll).  A row whose transaction commits late, at an id     *)
(* that is already behind the run, is the one thing the scan skips.  Runs  *)
(* that overlap promise less: see Converges.                               *)
RunSynchronizes ==
  [][\A r \in Reindexers : Finish(r) => \A i \in fresh[r] : Shows(i)]_vars

(* Also when runs overlap, and one writes a page it read before another    *)
(* run wrote a later state of it: once the table stops changing, the index *)
(* ends up showing exactly its open rows (job-search: "keeps the index in  *)
(* sync").                                                                 *)
Converges == <>[](\A i \in DOMAIN rows : Shows(i))

(* What a run indexes is the wire shape of the row, as the list and detail *)
(* endpoints serve it: the surfaces cannot drift apart (jobview).          *)
NoDrift ==
  [][\A r \in Reindexers : Finish(r) =>
       \A i \in fresh[r] \cap DOMAIN index : index[i] = FromJob(rows[i])]_vars
=============================================================================
