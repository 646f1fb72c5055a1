-------------------------- MODULE SearchIndexProofs --------------------------
(***************************************************************************)
(* Proofs about SearchIndex, for any rows, any number of reindex runs and  *)
(* any value of the batch size and the bounds.                             *)
(***************************************************************************)
EXTENDS SearchIndex, KeysetPages

-----------------------------------------------------------------------------
(* The inductive invariant.                                                *)

TableType ==
  /\ DOMAIN rows \subseteq 1..lastId
  /\ \A i \in DOMAIN rows : rows[i] \in Row
  /\ lastId \in 0..MaxId
  /\ open \subseteq 1..lastId
  /\ open \cap DOMAIN rows = {}

Docsets == UNION {[D -> Document] : D \in SUBSET Ids}
Tasks == [by : Reindexers \cup {Nobody}, docs : Docsets, ids : SUBSET Ids]

EngineType ==
  /\ DOMAIN index \subseteq DOMAIN rows
  /\ \A i \in DOMAIN index : index[i] \in Document
  /\ tasks \in Seq(Tasks)
  /\ \A n \in DOMAIN tasks : DOMAIN tasks[n].docs \subseteq DOMAIN rows

RunType ==
  /\ pc \in [Reindexers -> {"idle", "read", "index", "delete", "next"}]
  /\ afterID \in [Reindexers -> 0..MaxId]
  /\ DOMAIN page = Reindexers /\ DOMAIN fresh = Reindexers
  /\ \A r \in Reindexers :
       /\ \A i \in DOMAIN page[r] : i <= afterID[r] /\ i \in DOMAIN rows /\ page[r][i] \in Row
       /\ fresh[r] \subseteq DOMAIN rows

TypeInv == TableType /\ EngineType /\ RunType

(* A run has at most one task in the queue, one it waits for, and holds a  *)
(* page only between reading it and being done with it.                    *)
OwnInv(r) ==
  /\ pc[r] \in {"idle", "read"} => DOMAIN page[r] = {}
  /\ pc[r] = "idle" => afterID[r] = 0 /\ fresh[r] = {}
  /\ pc[r] \in {"idle", "read", "index"} => ~Awaits(r)
  /\ \A m, n \in DOMAIN tasks : tasks[m].by = r /\ tasks[n].by = r => m = n

(* Nothing is fresh beyond a short page, where the run will not look.      *)
ShortInv(r) ==
  pc[r] \in {"index", "delete", "next"} /\ Short(r) => \A i \in fresh[r] : i <= afterID[r]

(* Whoever has read a fresh row has read its last state.                   *)
PagesInv(r) ==
  \A i \in fresh[r] : \A q \in Reindexers : i \in DOMAIN page[q] => page[q][i] = rows[i]

Mentions(t, i) == i \in DOMAIN t.docs \/ i \in t.ids

(* Whatever the index holds, the task makes it show the row.               *)
Right(t, i) ==
  IF rows[i].closed THEN i \in t.ids
  ELSE i \in DOMAIN t.docs /\ i \notin t.ids /\ t.docs[i].text = rows[i].text

RightAfter(k, i) ==
  \A n \in DOMAIN tasks : n > k /\ Mentions(tasks[n], i) => Right(tasks[n], i)

(* The row shows and will go on showing, or it will from the moment the    *)
(* task that the run waits for is done.                                    *)
Settled(r, i) ==
  \/ Shows(i) /\ RightAfter(0, i)
  \/ \E k \in DOMAIN tasks : tasks[k].by = r /\ Right(tasks[k], i) /\ RightAfter(k, i)

(* The run has sent the row off.                                           *)
Behind(r, i) ==
  /\ i <= afterID[r]
  /\ i \in DOMAIN page[r] => (pc[r] = "next" \/ (pc[r] = "delete" /\ ~page[r][i].closed))

SettledInv(r) == \A i \in fresh[r] : Behind(r, i) => Settled(r, i)

IInv ==
  /\ TypeInv
  /\ \A r \in Reindexers : OwnInv(r) /\ ShortInv(r) /\ PagesInv(r) /\ SettledInv(r)

-----------------------------------------------------------------------------
(* The tasks of the queue.                                                 *)

LEMMA TaskFacts ==
  ASSUME NEW t \in Tasks
  PROVE  /\ t.by \in Reindexers \cup {Nobody} /\ t.ids \subseteq Ids
         /\ DOMAIN t.docs \subseteq Ids
         /\ \A i \in DOMAIN t.docs : t.docs[i] \in Document
         /\ \A b \in Reindexers \cup {Nobody} :
              LET u == [t EXCEPT !.by = b]
              IN u \in Tasks /\ u.by = b /\ u.docs = t.docs /\ u.ids = t.ids
<1>1. PICK D \in SUBSET Ids : t.docs \in [D -> Document]
  BY DEF Tasks, Docsets
<1>2. t.by \in Reindexers \cup {Nobody} /\ t.ids \subseteq Ids
  BY DEF Tasks
<1>3. \A b \in Reindexers \cup {Nobody} :
              LET u == [t EXCEPT !.by = b]
              IN u \in Tasks /\ u.by = b /\ u.docs = t.docs /\ u.ids = t.ids
  BY DEF Tasks
<1> QED BY <1>1, <1>2, <1>3

LEMMA TaskMade ==
  ASSUME NEW b \in Reindexers \cup {Nobody}, NEW D \in SUBSET Ids, NEW f \in [D -> Document],
         NEW I \in SUBSET Ids
  PROVE  LET t == [by |-> b, docs |-> f, ids |-> I]
         IN t \in Tasks /\ t.by = b /\ t.docs = f /\ t.ids = I
<1>1. f \in Docsets
  BY DEF Docsets
<1> QED BY <1>1 DEF Tasks

(* A queue loses its head, gets a task at its end, or forgets a sender.    *)
LEMMA QueueFacts ==
  ASSUME tasks \in Seq(Tasks)
  PROVE  /\ Len(tasks) \in Nat /\ DOMAIN tasks = 1..Len(tasks)
         /\ \A n \in DOMAIN tasks : tasks[n] \in Tasks
         /\ \A t \in Tasks :
              /\ Append(tasks, t) \in Seq(Tasks)
              /\ DOMAIN Append(tasks, t) = 1..(Len(tasks) + 1)
              /\ Append(tasks, t)[Len(tasks) + 1] = t
              /\ \A n \in DOMAIN tasks : Append(tasks, t)[n] = tasks[n]
         /\ tasks # <<>> =>
              /\ Len(tasks) > 0 /\ Head(tasks) = tasks[1] /\ 1 \in DOMAIN tasks
              /\ Tail(tasks) \in Seq(Tasks)
              /\ DOMAIN Tail(tasks) = 1..(Len(tasks) - 1)
              /\ \A n \in 1..(Len(tasks) - 1) : n + 1 \in DOMAIN tasks /\ Tail(tasks)[n] = tasks[n + 1]
  OBVIOUS

Forget(r) ==
  [n \in DOMAIN tasks |->
     IF tasks[n].by = r THEN [tasks[n] EXCEPT !.by = Nobody] ELSE tasks[n]]

LEMMA ForgottenFacts ==
  ASSUME tasks \in Seq(Tasks), NEW r, NEW queue, queue = Forget(r)
  PROVE  /\ queue \in Seq(Tasks) /\ DOMAIN queue = DOMAIN tasks
         /\ \A n \in DOMAIN tasks :
              /\ queue[n].docs = tasks[n].docs /\ queue[n].ids = tasks[n].ids
              /\ tasks[n].by = r => queue[n].by = Nobody
              /\ tasks[n].by # r => queue[n].by = tasks[n].by
<1>1. /\ Len(tasks) \in Nat /\ DOMAIN tasks = 1..Len(tasks)
      /\ \A n \in DOMAIN tasks : tasks[n] \in Tasks
  BY QueueFacts
<1>2. \A n \in DOMAIN tasks :
         /\ queue[n] \in Tasks
         /\ queue[n].docs = tasks[n].docs /\ queue[n].ids = tasks[n].ids
         /\ tasks[n].by = r => queue[n].by = Nobody
         /\ tasks[n].by # r => queue[n].by = tasks[n].by
  <2> SUFFICES ASSUME NEW n \in DOMAIN tasks
               PROVE  /\ queue[n] \in Tasks
                      /\ queue[n].docs = tasks[n].docs /\ queue[n].ids = tasks[n].ids
                      /\ tasks[n].by = r => queue[n].by = Nobody
                      /\ tasks[n].by # r => queue[n].by = tasks[n].by
    OBVIOUS
  <2>1. tasks[n] \in Tasks
    BY <1>1
  <2>2. PICK u : u = [tasks[n] EXCEPT !.by = Nobody]
    OBVIOUS
  <2>3. u \in Tasks /\ u.by = Nobody /\ u.docs = tasks[n].docs /\ u.ids = tasks[n].ids
    BY <2>1, <2>2, TaskFacts
  <2>4. queue[n] = IF tasks[n].by = r THEN u ELSE tasks[n]
    BY <2>2 DEF Forget
  <2> QED BY <2>1, <2>3, <2>4
<1>3. DOMAIN queue = 1..Len(tasks) /\ queue = [n \in 1..Len(tasks) |-> queue[n]]
  BY <1>1 DEF Forget
<1>4. queue \in [1..Len(tasks) -> Tasks]
  BY <1>1, <1>2, <1>3
<1> QED BY <1>1, <1>2, <1>3, <1>4
(* Process: the documents are merged in, the ids deleted.                  *)
After(t) ==
  LET merged == Merge(t.docs)
  IN [i \in DOMAIN merged \ t.ids |-> merged[i]]

Merged(t, new) ==
  /\ DOMAIN new = (DOMAIN index \cup DOMAIN t.docs) \ t.ids
  /\ \A i \in DOMAIN new :
       /\ new[i] \in Document
       /\ i \in DOMAIN t.docs => new[i].text = t.docs[i].text
       /\ i \notin DOMAIN t.docs => new[i] = index[i]

LEMMA MergeFacts ==
  ASSUME EngineType, NEW t \in Tasks, NEW new, new = After(t)
  PROVE  Merged(t, new)
<1>1. PICK docs : docs = t.docs
  OBVIOUS
<1> DEFINE m == Merge(t.docs)
<1>2. DOMAIN m = DOMAIN index \cup DOMAIN docs
  BY <1>1 DEF Merge
<1>3. \A i \in DOMAIN docs : docs[i] \in Document
  BY <1>1, TaskFacts
<1>4. \A d \in Document, e \in Document :
        [d EXCEPT !.mode = e.mode] \in Document /\ [d EXCEPT !.mode = e.mode].text = d.text
  BY DEF Document
<1>5. \A i \in DOMAIN m :
        /\ m[i] \in Document
        /\ i \in DOMAIN docs => m[i].text = docs[i].text
        /\ i \notin DOMAIN docs => m[i] = index[i]
  <2> SUFFICES ASSUME NEW i \in DOMAIN m
               PROVE  /\ m[i] \in Document
                      /\ i \in DOMAIN docs => m[i].text = docs[i].text
                      /\ i \notin DOMAIN docs => m[i] = index[i]
    OBVIOUS
  <2>1. CASE i \notin DOMAIN docs
    BY <1>1, <1>2, <2>1 DEF Merge, EngineType
  <2>2. CASE i \in DOMAIN docs
    <3>1. PICK e : e = index[i]
      OBVIOUS
    <3>2. m[i] = IF docs[i].mode = NoMode /\ i \in DOMAIN index
                 THEN [docs[i] EXCEPT !.mode = e.mode] ELSE docs[i]
      BY <1>1, <1>2, <2>2, <3>1 DEF Merge
    <3>3. i \in DOMAIN index => e \in Document
      BY <3>1 DEF EngineType
    <3> QED BY <1>3, <1>4, <2>2, <3>2, <3>3
  <2> QED BY <2>1, <2>2
<1> HIDE DEF m
<1>6. new = [i \in DOMAIN m \ t.ids |-> m[i]]
  BY DEF After, m
<1> QED BY <1>1, <1>2, <1>5, <1>6 DEF Merged

-----------------------------------------------------------------------------
(* What a run sends.                                                       *)

LEMMA IdsFacts ==
  ASSUME TypeInv
  PROVE  /\ DOMAIN rows \subseteq Ids /\ Ids \subseteq Nat
         /\ \A i \in DOMAIN rows : i > 0
         /\ \A r \in Reindexers : /\ DOMAIN page[r] \subseteq Ids
                                  /\ DOMAIN page[r] \subseteq DOMAIN rows
                                  /\ afterID[r] \in Nat
         /\ MaxId \in Nat
  BY SearchAssumption DEF TypeInv, TableType, RunType, Ids

LEMMA DocsFacts ==
  ASSUME TypeInv, NEW r \in Reindexers, NEW d, d = Docs(r)
  PROVE  /\ DOMAIN d = {i \in DOMAIN page[r] : ~page[r][i].closed}
         /\ \A i \in DOMAIN d : d[i].text = page[r][i].text
         /\ d \in [DOMAIN d -> Document]
         /\ DOMAIN d \in SUBSET Ids /\ DeleteIDs(r) \in SUBSET Ids
<1>1. DOMAIN d = {i \in DOMAIN page[r] : ~page[r][i].closed}
  BY DEF Docs
<1>2. \A i \in DOMAIN d : d[i] = FromJob(page[r][i])
  BY DEF Docs
<1>3. \A x \in Row : FromJob(x) \in Document /\ FromJob(x).text = x.text
  BY DEF FromJob, Row, Document
<1>4. \A i \in DOMAIN page[r] : page[r][i] \in Row
  BY DEF TypeInv, RunType
<1>5. d = [i \in DOMAIN d |-> d[i]]
  BY <1>1 DEF Docs
<1> QED BY <1>1, <1>2, <1>3, <1>4, <1>5, IdsFacts DEF DeleteIDs

(* IndexJobs and DeleteJobs queue at most one task, which holds the open   *)
(* rows of the page, or the closed ones.                                   *)
LEMMA SendFacts ==
  ASSUME TypeInv, NEW r \in Reindexers, IndexJobs(r) \/ DeleteJobs(r)
  PROVE  \/ /\ tasks' = tasks
            /\ \A i \in DOMAIN page[r] : page[r][i].closed <=> IndexJobs(r)
         \/ \E t \in Tasks :
              /\ tasks' = Append(tasks, t) /\ t.by = r
              /\ \A i : Mentions(t, i) => i \in DOMAIN page[r]
              /\ \A i \in DOMAIN page[r] :
                   /\ IndexJobs(r) /\ ~page[r][i].closed => Mentions(t, i)
                   /\ DeleteJobs(r) /\ page[r][i].closed => Mentions(t, i)
                   /\ Mentions(t, i) =>
                        IF page[r][i].closed THEN i \in t.ids
                        ELSE i \in DOMAIN t.docs /\ i \notin t.ids
                             /\ t.docs[i].text = page[r][i].text
<1> DEFINE Fine(t) ==
              /\ t \in Tasks
              /\ tasks' = Append(tasks, t) /\ t.by = r
              /\ \A i : Mentions(t, i) => i \in DOMAIN page[r]
              /\ \A i \in DOMAIN page[r] :
                   /\ IndexJobs(r) /\ ~page[r][i].closed => Mentions(t, i)
                   /\ DeleteJobs(r) /\ page[r][i].closed => Mentions(t, i)
                   /\ Mentions(t, i) =>
                        IF page[r][i].closed THEN i \in t.ids
                        ELSE i \in DOMAIN t.docs /\ i \notin t.ids
                             /\ t.docs[i].text = page[r][i].text
<1>0. /\ IndexJobs(r) => pc[r] = "index" /\ ~DeleteJobs(r)
      /\ DeleteJobs(r) => pc[r] = "delete" /\ ~IndexJobs(r)
  BY DEF IndexJobs, DeleteJobs
<1>1. PICK d : d = Docs(r)
  OBVIOUS
<1>2. /\ DOMAIN d = {i \in DOMAIN page[r] : ~page[r][i].closed}
      /\ \A i \in DOMAIN d : d[i].text = page[r][i].text
      /\ d \in [DOMAIN d -> Document]
      /\ DOMAIN d \in SUBSET Ids /\ DeleteIDs(r) \in SUBSET Ids
  BY <1>1, DocsFacts
<1>3. \A i : i \in DeleteIDs(r) <=> i \in DOMAIN page[r] /\ page[r][i].closed
  BY DEF DeleteIDs
<1>4. \A i \in DOMAIN page[r] : page[r][i].closed \in BOOLEAN
  BY DEF TypeInv, RunType, Row
<1>5. ASSUME IndexJobs(r)
      PROVE  \/ tasks' = tasks /\ \A i \in DOMAIN page[r] : page[r][i].closed
             \/ \E t : Fine(t)
  <2>1. CASE DOMAIN d = {}
    BY <1>1, <1>2, <1>5, <2>1 DEF IndexJobs
  <2>2. CASE DOMAIN d # {}
    <3>1. PICK t : t = [by |-> r, docs |-> d, ids |-> {}]
      OBVIOUS
    <3>2. t \in Tasks /\ t.by = r /\ t.docs = d /\ t.ids = {}
      BY <1>2, <3>1, TaskMade
    <3>3. tasks' = Append(tasks, t)
      BY <1>1, <1>5, <2>2, <3>1 DEF IndexJobs, Send
    <3>4. Fine(t)
      BY <1>0, <1>2, <1>5, <3>2, <3>3 DEF Mentions
    <3> QED BY <3>4
  <2> QED BY <2>1, <2>2
<1>6. ASSUME DeleteJobs(r)
      PROVE  \/ tasks' = tasks /\ \A i \in DOMAIN page[r] : ~page[r][i].closed
             \/ \E t : Fine(t)
  <2>1. CASE DeleteIDs(r) = {}
    BY <1>3, <1>6, <2>1 DEF DeleteJobs
  <2>2. CASE DeleteIDs(r) # {}
    <3>1. PICK t : t = [by |-> r, docs |-> NoDocs, ids |-> DeleteIDs(r)]
      OBVIOUS
    <3>2. NoDocs \in [{} -> Document] /\ DOMAIN NoDocs = {}
      BY DEF NoDocs
    <3>3. t \in Tasks /\ t.by = r /\ t.docs = NoDocs /\ t.ids = DeleteIDs(r)
      BY <1>2, <3>1, <3>2, TaskMade
    <3>4. tasks' = Append(tasks, t)
      BY <1>6, <2>2, <3>1 DEF DeleteJobs, Send
    <3>5. Fine(t)
      BY <1>0, <1>3, <1>6, <3>2, <3>3, <3>4 DEF Mentions
    <3> QED BY <3>5
  <2> QED BY <2>1, <2>2
<1> QED BY <1>0, <1>4, <1>5, <1>6

-----------------------------------------------------------------------------
(* Steps.                                                                  *)

RunSteps(r) == RunStep(r) \/ Crash(r) \/ TaskFails(r)

LEMMA StepCases ==
  ASSUME [Next]_vars
  PROVE  \/ Allocate
         \/ \E i \in Ids : Commit(i) \/ Spend(i) \/ Edit(i)
         \/ Process
         \/ \E r \in Reindexers : RunSteps(r)
         \/ UNCHANGED vars
  BY DEF Next, RunSteps

(* A step of a run leaves the table alone, and the other runs, except that *)
(* nothing stays fresh for them when it starts.                            *)
LEMMA RunFrame ==
  ASSUME RunType, NEW r \in Reindexers, RunSteps(r)
  PROVE  /\ UNCHANGED <<rows, lastId, open, index>>
         /\ \A q \in Reindexers :
              q # r => /\ pc'[q] = pc[q] /\ afterID'[q] = afterID[q] /\ page'[q] = page[q]
                       /\ \/ fresh'[q] = fresh[q]
                          \/ Start(r) /\ fresh'[q] = {}
         /\ pc' \in [Reindexers -> {"idle", "read", "index", "delete", "next"}]
         /\ DOMAIN page' = Reindexers /\ DOMAIN fresh' = Reindexers
<1> USE DEF RunType, table, engine, run
<1>1. ASSUME Start(r) PROVE /\ UNCHANGED <<rows, lastId, open, index, afterID, page>>
                            /\ pc' = [pc EXCEPT ![r] = "read"]
                            /\ DOMAIN fresh' = Reindexers
                            /\ \A q \in Reindexers : q # r => fresh'[q] = {}
  BY <1>1 DEF Start
<1>2. ASSUME Reset(r) PROVE /\ pc' = [pc EXCEPT ![r] = "idle"]
                            /\ DOMAIN page' = Reindexers /\ DOMAIN fresh' = Reindexers
                            /\ \A q \in Reindexers : q # r =>
                              /\ afterID'[q] = afterID[q] /\ page'[q] = page[q]
                              /\ fresh'[q] = fresh[q]
  BY <1>2 DEF Reset
<1>3. CASE Start(r)
  BY <1>1, <1>3
<1>4. CASE Read(r)
  BY <1>4 DEF Read
<1>5. CASE IndexJobs(r)
  BY <1>5 DEF IndexJobs
<1>6. CASE DeleteJobs(r)
  BY <1>6 DEF DeleteJobs
<1>7. CASE NextPage(r)
  BY <1>7 DEF NextPage
<1>8. CASE Finish(r) \/ Crash(r) \/ TaskFails(r)
  BY <1>2, <1>8 DEF Finish, Crash, TaskFails
<1> QED BY <1>3, <1>4, <1>5, <1>6, <1>7, <1>8 DEF RunSteps, RunStep

(* The page that a run reads.                                              *)
LEMMA ReadFacts ==
  ASSUME TypeInv, NEW r \in Reindexers, Read(r)
  PROVE  /\ afterID' \in [Reindexers -> 0..MaxId]
         /\ afterID'[r] > afterID[r]
         /\ DOMAIN page'[r] \subseteq DOMAIN rows
         /\ \A i \in DOMAIN page'[r] : i <= afterID'[r] /\ page'[r][i] = rows[i]
         /\ \A i \in DOMAIN rows : i > afterID[r] /\ i <= afterID'[r] => i \in DOMAIN page'[r]
         /\ Short(r)' => \A i \in DOMAIN rows : i <= afterID'[r]
<1>1. PICK ids : ids = PageAfter(afterID[r])
  OBVIOUS
<1>2. PICK m : m = CHOOSE x \in ids : \A i \in ids : i <= x
  OBVIOUS
<1>3. DOMAIN rows \subseteq Nat /\ IsFiniteSet(DOMAIN rows) /\ BatchSize \in Nat \ {0}
  <2>1. IsFiniteSet(Ids)
    BY FS_Interval, SearchAssumption DEF Ids
  <2> QED BY <2>1, IdsFacts, FS_Subset, SearchAssumption
<1>4. ids = KeysetPage(DOMAIN rows, afterID[r], BatchSize) /\ afterID[r] \in Nat
  BY <1>1, IdsFacts DEF PageAfter, KeysetPage
<1>5. ids # {}
  BY <1>1 DEF Read
<1>6. /\ ids \subseteq DOMAIN rows
      /\ \A i \in ids : i > afterID[r]
      /\ m \in ids /\ m \in Nat
      /\ \A i \in ids : i <= m
      /\ \A i \in DOMAIN rows : i > afterID[r] /\ i <= m => i \in ids
      /\ Cardinality(ids) < BatchSize => \A i \in DOMAIN rows : i > afterID[r] => i \in ids
  BY <1>2, <1>3, <1>4, <1>5, PageOfSet
<1>7. /\ afterID' = [afterID EXCEPT ![r] = m]
      /\ page' = [page EXCEPT ![r] = [i \in ids |-> rows[i]]]
  BY <1>1, <1>2 DEF Read
<1>8. /\ afterID'[r] = m /\ DOMAIN page'[r] = ids
      /\ \A i \in ids : page'[r][i] = rows[i]
  BY <1>7 DEF TypeInv, RunType
<1>9. m \in 0..MaxId
  BY <1>6, IdsFacts DEF Ids
<1>10. afterID' \in [Reindexers -> 0..MaxId]
  BY <1>7, <1>9 DEF TypeInv, RunType
<1>11. Short(r)' <=> Cardinality(ids) < BatchSize
  BY <1>8 DEF Short
<1>12. \A i \in DOMAIN rows : i > afterID[r] \/ i <= m
  <2>1. \A i \in Nat : i > afterID[r] \/ i <= m
    BY <1>4, <1>6
  <2> QED BY <1>3, <2>1
<1> QED BY <1>6, <1>8, <1>10, <1>11, <1>12

(* Nothing is left when a page is empty.                                   *)
LEMMA EmptyPage ==
  ASSUME TypeInv, NEW r \in Reindexers, PageAfter(afterID[r]) = {}
  PROVE  \A i \in DOMAIN rows : i <= afterID[r]
<1>1. DOMAIN rows \subseteq Nat /\ IsFiniteSet(DOMAIN rows) /\ BatchSize \in Nat \ {0}
  <2>1. IsFiniteSet(Ids)
    BY FS_Interval, SearchAssumption DEF Ids
  <2> QED BY <2>1, IdsFacts, FS_Subset, SearchAssumption
<1>2. KeysetPage(DOMAIN rows, afterID[r], BatchSize) = {} /\ afterID[r] \in Nat
  BY IdsFacts DEF PageAfter, KeysetPage
<1> QED BY <1>1, <1>2, PageOfSet

-----------------------------------------------------------------------------
(* Types.                                                                  *)

LEMMA TableStep ==
  ASSUME TypeInv, [Next]_vars
  PROVE  TableType' /\ DOMAIN rows \subseteq DOMAIN rows'
<1> USE DEF TypeInv, TableType
<1>0. CASE UNCHANGED <<rows, lastId, open>>
  BY <1>0
<1>1. CASE Allocate
  BY <1>1, SearchAssumption DEF Allocate
<1>2. ASSUME NEW i \in Ids, Commit(i)
      PROVE  TableType' /\ DOMAIN rows \subseteq DOMAIN rows'
  <2>1. PICK t \in Texts, m \in Modes :
          rows' = [k \in DOMAIN rows \cup {i} |->
                     IF k = i THEN [closed |-> FALSE, text |-> t, mode |-> m] ELSE rows[k]]
    BY <1>2 DEF Commit
  <2>2. [closed |-> FALSE, text |-> t, mode |-> m] \in Row
    BY DEF Row
  <2> QED BY <1>2, <2>1, <2>2 DEF Commit
<1>3. ASSUME NEW i \in Ids, Spend(i)
      PROVE  TableType' /\ DOMAIN rows \subseteq DOMAIN rows'
  BY <1>3 DEF Spend
<1>4. ASSUME NEW i \in Ids, Edit(i)
      PROVE  TableType' /\ DOMAIN rows \subseteq DOMAIN rows'
  BY <1>4 DEF Edit
<1>5. ASSUME NEW r \in Reindexers, RunSteps(r)
      PROVE  UNCHANGED <<rows, lastId, open>>
  BY <1>5, RunFrame
<1>6. CASE Process
  BY <1>0, <1>6 DEF Process, table
<1> QED BY <1>0, <1>1, <1>2, <1>3, <1>4, <1>5, <1>6, StepCases DEF vars

LEMMA IndexStep ==
  ASSUME TypeInv, [Next]_vars
  PROVE  /\ DOMAIN index' \subseteq DOMAIN rows'
         /\ \A i \in DOMAIN index' : index'[i] \in Document
<1> USE DEF TypeInv, EngineType
<1>1. CASE index' = index
  BY <1>1, TableStep
<1>2. CASE Process
  <2>1. PICK t : t = Head(tasks)
    OBVIOUS
  <2>2. t \in Tasks /\ DOMAIN t.docs \subseteq DOMAIN rows
    BY <1>2, <2>1, QueueFacts DEF Process
  <2>4. PICK new : new = After(t)
    OBVIOUS
  <2>5. index' = new
    BY <1>2, <2>1, <2>4 DEF Process, After
  <2>6. Merged(t, new)
    BY <2>2, <2>4, MergeFacts
  <2> QED BY <2>2, <2>5, <2>6, TableStep DEF Merged
<1>3. ASSUME NEW i \in Ids, Commit(i) \/ Spend(i) \/ Edit(i)
      PROVE  index' = index
  BY <1>3 DEF Commit, Spend, Edit, engine
<1>4. Allocate => index' = index
  BY DEF Allocate, engine
<1>5. ASSUME NEW r \in Reindexers, RunSteps(r)
      PROVE  index' = index
  BY <1>5, RunFrame
<1> QED BY <1>1, <1>2, <1>3, <1>4, <1>5, StepCases DEF vars

(* The queue stays as it is, gets a task, loses its first or forgets a     *)
(* sender.                                                                 *)
LEMMA QueueCases ==
  ASSUME TypeInv, [Next]_vars
  PROVE  \/ tasks' = tasks /\ index' = index
         \/ \E r \in Reindexers : (IndexJobs(r) \/ DeleteJobs(r)) /\ \E t \in Tasks :
              /\ tasks' = Append(tasks, t) /\ t.by = r
              /\ \A i : Mentions(t, i) => i \in DOMAIN page[r]
         \/ Process /\ tasks # <<>> /\ tasks' = Tail(tasks)
         \/ \E r \in Reindexers : TaskFails(r) /\ tasks # <<>> /\ tasks' = Tail(tasks)
         \/ \E r \in Reindexers : Crash(r) /\ tasks' = Forget(r)
<1>1. ASSUME NEW i \in Ids, Commit(i) \/ Spend(i) \/ Edit(i)
      PROVE  tasks' = tasks /\ index' = index
  BY <1>1 DEF Commit, Spend, Edit, engine
<1>2. Allocate => tasks' = tasks /\ index' = index
  BY DEF Allocate, engine
<1>3. Process => tasks # <<>> /\ tasks' = Tail(tasks)
  BY DEF Process
<1>4. ASSUME NEW r \in Reindexers, Start(r) \/ Read(r) \/ NextPage(r) \/ Finish(r)
      PROVE  tasks' = tasks /\ index' = index
  BY <1>4 DEF Start, Read, NextPage, Finish, engine
<1>5. ASSUME NEW r \in Reindexers, IndexJobs(r) \/ DeleteJobs(r)
      PROVE  \/ tasks' = tasks /\ index' = index
             \/ \E t \in Tasks : /\ tasks' = Append(tasks, t) /\ t.by = r
                                 /\ \A i : Mentions(t, i) => i \in DOMAIN page[r]
  <2>1. index' = index
    BY <1>5 DEF IndexJobs, DeleteJobs
  <2> QED BY <1>5, <2>1, SendFacts
<1>6. ASSUME NEW r \in Reindexers, TaskFails(r)
      PROVE  tasks # <<>> /\ tasks' = Tail(tasks)
  BY <1>6 DEF TaskFails
<1>7. ASSUME NEW r \in Reindexers, Crash(r)
      PROVE  tasks' = Forget(r)
  BY <1>7 DEF Crash, Forget
<1>8. UNCHANGED vars => tasks' = tasks /\ index' = index
  BY DEF vars
<1> QED BY <1>1, <1>2, <1>3, <1>4, <1>5, <1>6, <1>7, <1>8, StepCases DEF RunSteps, RunStep

LEMMA QueueStep ==
  ASSUME TypeInv, [Next]_vars
  PROVE  /\ tasks' \in Seq(Tasks)
         /\ \A n \in DOMAIN tasks' : DOMAIN tasks'[n].docs \subseteq DOMAIN rows'
<1>1. /\ tasks \in Seq(Tasks) /\ Len(tasks) \in Nat /\ DOMAIN tasks = 1..Len(tasks)
      /\ \A n \in DOMAIN tasks : DOMAIN tasks[n].docs \subseteq DOMAIN rows'
  BY TableStep, QueueFacts DEF TypeInv, EngineType
<1>2. CASE tasks' = tasks
  BY <1>1, <1>2
<1>3. ASSUME NEW r \in Reindexers, NEW t \in Tasks, tasks' = Append(tasks, t),
             \A i : Mentions(t, i) => i \in DOMAIN page[r]
      PROVE  /\ tasks' \in Seq(Tasks)
             /\ \A n \in DOMAIN tasks' : DOMAIN tasks'[n].docs \subseteq DOMAIN rows'
  <2>1. DOMAIN t.docs \subseteq DOMAIN rows'
    BY <1>3, IdsFacts, TableStep DEF Mentions
  <2>2. /\ tasks' \in Seq(Tasks) /\ DOMAIN tasks' = 1..(Len(tasks) + 1)
        /\ tasks'[Len(tasks) + 1] = t
        /\ \A n \in DOMAIN tasks : tasks'[n] = tasks[n]
    BY <1>1, <1>3, QueueFacts
  <2>3. \A n \in 1..(Len(tasks) + 1) : n \in 1..Len(tasks) \/ n = Len(tasks) + 1
    BY <1>1
  <2> QED BY <1>1, <2>1, <2>2, <2>3
<1>4. ASSUME tasks # <<>>, tasks' = Tail(tasks)
      PROVE  /\ tasks' \in Seq(Tasks)
             /\ \A n \in DOMAIN tasks' : DOMAIN tasks'[n].docs \subseteq DOMAIN rows'
  <2>1. /\ tasks' \in Seq(Tasks) /\ DOMAIN tasks' = 1..(Len(tasks) - 1)
        /\ \A n \in 1..(Len(tasks) - 1) : n + 1 \in DOMAIN tasks /\ tasks'[n] = tasks[n + 1]
    BY <1>1, <1>4, QueueFacts
  <2> QED BY <1>1, <2>1
<1>5. ASSUME NEW r \in Reindexers, Crash(r),
             tasks' = Forget(r)
      PROVE  /\ tasks' \in Seq(Tasks)
             /\ \A n \in DOMAIN tasks' : DOMAIN tasks'[n].docs \subseteq DOMAIN rows'
  <2>1. PICK queue : queue = tasks'
    OBVIOUS
  <2>2. /\ queue \in Seq(Tasks) /\ DOMAIN queue = DOMAIN tasks
        /\ \A n \in DOMAIN tasks : queue[n].docs = tasks[n].docs
    BY <1>1, <1>5, <2>1, ForgottenFacts
  <2>3. \A n \in DOMAIN queue : DOMAIN queue[n].docs \subseteq DOMAIN rows'
    BY <1>1, <2>2
  <2> QED BY <2>1, <2>2, <2>3
<1> QED BY <1>2, <1>3, <1>4, <1>5, QueueCases

LEMMA RunTypeStep ==
  ASSUME TypeInv, [Next]_vars
  PROVE  RunType'
<1>0. /\ RunType /\ DOMAIN rows \subseteq DOMAIN rows'
      /\ \A i \in DOMAIN rows : rows[i] \in Row
  BY TableStep DEF TypeInv, TableType
<1>1. CASE /\ UNCHANGED <<pc, afterID, page>> /\ DOMAIN fresh' = Reindexers
           /\ \A r \in Reindexers : fresh'[r] \subseteq DOMAIN rows'
  BY <1>0, <1>1 DEF RunType
<1>2. ASSUME NEW i \in Ids, Commit(i)
      PROVE  /\ UNCHANGED <<pc, afterID, page>> /\ DOMAIN fresh' = Reindexers
             /\ \A r \in Reindexers : fresh'[r] \subseteq DOMAIN rows'
  BY <1>0, <1>2 DEF Commit, RunType, run
<1>3. ASSUME NEW i \in Ids, Edit(i)
      PROVE  /\ UNCHANGED <<pc, afterID, page>> /\ DOMAIN fresh' = Reindexers
             /\ \A r \in Reindexers : fresh'[r] \subseteq DOMAIN rows'
  BY <1>0, <1>3 DEF Edit, RunType, run
<1>4. CASE Allocate \/ Process \/ (\E i \in Ids : Spend(i)) \/ UNCHANGED vars
  BY <1>0, <1>4 DEF Allocate, Process, Spend, vars, run, RunType
<1>5. ASSUME NEW r \in Reindexers, RunSteps(r)
      PROVE  RunType'
  <2> USE DEF RunType
  <2>1. /\ UNCHANGED rows
        /\ \A q \in Reindexers :
              q # r => /\ pc'[q] = pc[q] /\ afterID'[q] = afterID[q] /\ page'[q] = page[q]
                       /\ fresh'[q] = fresh[q] \/ fresh'[q] = {}
        /\ pc' \in [Reindexers -> {"idle", "read", "index", "delete", "next"}]
        /\ DOMAIN page' = Reindexers /\ DOMAIN fresh' = Reindexers
    BY <1>0, <1>5, RunFrame
  <2>2. ASSUME afterID' \in [Reindexers -> 0..MaxId],
               \A i \in DOMAIN page'[r] :
                  i <= afterID'[r] /\ i \in DOMAIN rows /\ page'[r][i] \in Row,
               fresh'[r] \subseteq DOMAIN rows
        PROVE  RunType'
    BY <1>0, <2>1, <2>2
  <2>3. CASE Start(r)
    BY <1>0, <2>2, <2>3 DEF Start, run
  <2>4. CASE Read(r)
    <3>1. fresh' = fresh
      BY <2>4 DEF Read
    <3> QED BY <1>0, <2>2, <2>4, <3>1, ReadFacts
  <2>5. CASE IndexJobs(r) \/ DeleteJobs(r)
    BY <1>0, <2>2, <2>5 DEF IndexJobs, DeleteJobs, run
  <2>6. CASE NextPage(r)
    BY <1>0, <2>2, <2>6 DEF NextPage, NoPage
  <2>7. CASE Finish(r) \/ Crash(r) \/ TaskFails(r)
    <3>1. Reset(r)
      BY <2>7 DEF Finish, Crash, TaskFails
    <3>2. afterID' \in [Reindexers -> 0..MaxId]
      BY <1>0, <3>1, SearchAssumption DEF Reset
    <3>3. DOMAIN page'[r] = {} /\ fresh'[r] = {}
      BY <1>0, <3>1 DEF Reset, NoPage
    <3> QED BY <2>2, <3>2, <3>3
  <2> QED BY <1>5, <2>3, <2>4, <2>5, <2>6, <2>7 DEF RunSteps, RunStep
<1> QED BY <1>1, <1>2, <1>3, <1>4, <1>5, StepCases

LEMMA TypeStep ==
  ASSUME TypeInv, [Next]_vars
  PROVE  TypeInv'
<1>1. EngineType'
  BY IndexStep, QueueStep DEF EngineType
<1> QED BY <1>1, TableStep, RunTypeStep DEF TypeInv

-----------------------------------------------------------------------------
(* A run and its task.                                                     *)

LEMMA OwnersKept ==
  ASSUME TypeInv, [Next]_vars, NEW r \in Reindexers, OwnInv(r), ~IndexJobs(r), ~DeleteJobs(r)
  PROVE  /\ \A m, n \in DOMAIN tasks' : tasks'[m].by = r /\ tasks'[n].by = r => m = n
         /\ Awaits(r)' => Awaits(r)
         /\ Crash(r) \/ TaskFails(r) => ~Awaits(r)'
<1> DEFINE Fine == /\ \A m, n \in DOMAIN tasks' : tasks'[m].by = r /\ tasks'[n].by = r => m = n
                   /\ (\E n \in DOMAIN tasks' : tasks'[n].by = r) => (\E n \in DOMAIN tasks : tasks[n].by = r)
           Gone == \A n \in DOMAIN tasks' : tasks'[n].by # r
<1>1. /\ tasks \in Seq(Tasks) /\ Len(tasks) \in Nat /\ DOMAIN tasks = 1..Len(tasks)
      /\ \A m, n \in DOMAIN tasks : tasks[m].by = r /\ tasks[n].by = r => m = n
      /\ Nobody # r
  BY QueueFacts, SearchAssumption DEF TypeInv, EngineType, OwnInv
<1>2. ASSUME tasks' = tasks PROVE Fine
  BY <1>1, <1>2
<1>3. ASSUME NEW q \in Reindexers, IndexJobs(q) \/ DeleteJobs(q),
             NEW t \in Tasks, tasks' = Append(tasks, t), t.by = q
      PROVE  Fine
  <2>1. q # r
    BY <1>3
  <2>2. /\ tasks' \in Seq(Tasks) /\ DOMAIN tasks' = 1..(Len(tasks) + 1)
        /\ tasks'[Len(tasks) + 1] = t
        /\ \A n \in DOMAIN tasks : tasks'[n] = tasks[n]
    BY <1>1, <1>3, QueueFacts
  <2>3. \A n \in DOMAIN tasks' : tasks'[n].by = r => n \in DOMAIN tasks /\ tasks[n].by = r
    <3>1. \A n \in 1..(Len(tasks) + 1) : n \in 1..Len(tasks) \/ n = Len(tasks) + 1
      BY <1>1
    <3> QED BY <1>1, <1>3, <2>1, <2>2, <3>1
  <2> QED BY <1>1, <2>3
<1>4. ASSUME tasks # <<>>, tasks' = Tail(tasks)
      PROVE  Fine /\ (Head(tasks).by = r => Gone)
  <2>1. /\ tasks' \in Seq(Tasks) /\ DOMAIN tasks' = 1..(Len(tasks) - 1)
        /\ \A n \in 1..(Len(tasks) - 1) : n + 1 \in DOMAIN tasks /\ tasks'[n] = tasks[n + 1]
        /\ Head(tasks) = tasks[1] /\ 1 \in DOMAIN tasks
    BY <1>1, <1>4, QueueFacts
  <2>2. \A m, n \in 1..(Len(tasks) - 1) : m + 1 = n + 1 => m = n
    BY <1>1
  <2>3. \A n \in 1..(Len(tasks) - 1) : n + 1 # 1
    BY <1>1
  <2>4. Fine
    <3>1. ASSUME NEW m \in DOMAIN tasks', NEW n \in DOMAIN tasks',
                 tasks'[m].by = r, tasks'[n].by = r
          PROVE  m = n
      <4>1. m + 1 = n + 1
        BY <1>1, <2>1, <3>1
      <4> QED BY <2>1, <2>2, <3>1, <4>1
    <3>2. (\E n \in DOMAIN tasks' : tasks'[n].by = r) => (\E n \in DOMAIN tasks : tasks[n].by = r)
      BY <2>1
    <3> QED BY <3>1, <3>2
  <2>5. Head(tasks).by = r => Gone
    BY <1>1, <2>1, <2>3
  <2> QED BY <2>4, <2>5
<1>5. ASSUME NEW q \in Reindexers, tasks' = Forget(q)
      PROVE  Fine /\ (q = r => Gone)
  <2>1. PICK queue : queue = Forget(q)
    OBVIOUS
  <2>2. /\ queue \in Seq(Tasks) /\ DOMAIN queue = DOMAIN tasks
        /\ \A n \in DOMAIN tasks : /\ tasks[n].by = q => queue[n].by = Nobody
                                   /\ tasks[n].by # q => queue[n].by = tasks[n].by
    BY <1>1, <2>1, ForgottenFacts
  <2>3. \A n \in DOMAIN tasks : queue[n].by = r => tasks[n].by = r /\ q # r
    BY <1>1, <2>2
  <2>4. tasks' = queue
    BY <1>5, <2>1
  <2> QED BY <1>1, <2>2, <2>3, <2>4
<1>6. Crash(r) => tasks' = Forget(r)
  BY DEF Crash, Forget
<1>7. TaskFails(r) => tasks # <<>> /\ tasks' = Tail(tasks) /\ Head(tasks).by = r
  BY DEF TaskFails
<1>8. Crash(r) \/ TaskFails(r) => Gone
  BY <1>4, <1>5, <1>6, <1>7
<1>9. Fine
  <2> HIDE DEF Fine, Gone
  <2> QED BY <1>2, <1>3, <1>4, <1>5, QueueCases
<1> QED BY <1>8, <1>9 DEF Awaits

LEMMA OwnStep ==
  ASSUME TypeInv, [Next]_vars, NEW r \in Reindexers, OwnInv(r)
  PROVE  OwnInv(r)'
<1>1. CASE IndexJobs(r) \/ DeleteJobs(r)
  <2>1. pc'[r] \in {"delete", "next"} /\ ~Awaits(r)
    BY <1>1 DEF IndexJobs, DeleteJobs, OwnInv, TypeInv, RunType
  <2>2. /\ tasks \in Seq(Tasks) /\ Len(tasks) \in Nat /\ DOMAIN tasks = 1..Len(tasks)
        /\ \A n \in DOMAIN tasks : tasks[n].by # r
    BY <2>1, QueueFacts DEF TypeInv, EngineType, Awaits
  <2>3. \A m, n \in DOMAIN tasks' : tasks'[m].by = r /\ tasks'[n].by = r => m = n
    <3>1. CASE tasks' = tasks
      BY <2>2, <3>1
    <3>2. ASSUME NEW t \in Tasks, tasks' = Append(tasks, t)
          PROVE  \A m, n \in DOMAIN tasks' : tasks'[m].by = r /\ tasks'[n].by = r => m = n
      <4>1. /\ DOMAIN tasks' = 1..(Len(tasks) + 1)
            /\ \A n \in DOMAIN tasks : tasks'[n] = tasks[n]
        BY <2>2, <3>2, QueueFacts
      <4>2. \A n \in 1..(Len(tasks) + 1) : n \in 1..Len(tasks) \/ n = Len(tasks) + 1
        BY <2>2
      <4> QED BY <2>2, <4>1, <4>2
    <3> QED BY <1>1, <3>1, <3>2, SendFacts
  <2> QED BY <2>1, <2>3 DEF OwnInv
<1>2. CASE ~IndexJobs(r) /\ ~DeleteJobs(r)
  <2>1. /\ \A m, n \in DOMAIN tasks' : tasks'[m].by = r /\ tasks'[n].by = r => m = n
        /\ Awaits(r)' => Awaits(r)
        /\ Crash(r) \/ TaskFails(r) => ~Awaits(r)'
    BY <1>2, OwnersKept
  <2>2. RunType
    BY DEF TypeInv
  <2>3. CASE /\ pc'[r] = pc[r] /\ afterID'[r] = afterID[r] /\ page'[r] = page[r]
             /\ pc[r] = "idle" => fresh'[r] = fresh[r] \/ fresh'[r] = {}
    BY <2>1, <2>3 DEF OwnInv
  <2>4. CASE Start(r)
    BY <2>1, <2>2, <2>4 DEF Start, OwnInv, run, RunType
  <2>5. CASE Read(r)
    <3>1. /\ pc[r] = "read" /\ pc'[r] = "index" /\ ~Awaits(r)
      BY <2>2, <2>5 DEF Read, OwnInv, RunType
    <3> QED BY <2>1, <3>1 DEF OwnInv
  <2>6. CASE NextPage(r)
    BY <2>1, <2>2, <2>6 DEF NextPage, OwnInv, NoPage, RunType
  <2>7. CASE Finish(r) \/ Crash(r) \/ TaskFails(r)
    <3>1. /\ pc'[r] = "idle" /\ afterID'[r] = 0 /\ DOMAIN page'[r] = {} /\ fresh'[r] = {}
      BY <2>2, <2>7 DEF Finish, Crash, TaskFails, Reset, NoPage, RunType
    <3>2. Finish(r) => ~Awaits(r)
      BY DEF Finish, AtEnd, OwnInv
    <3> QED BY <2>1, <2>7, <3>1, <3>2 DEF OwnInv
  <2>8. ASSUME NEW q \in Reindexers, q # r, RunSteps(q)
        PROVE  OwnInv(r)'
    BY <2>2, <2>3, <2>8, RunFrame
  <2>9. ASSUME NEW i \in Ids, Commit(i) \/ Spend(i) \/ Edit(i)
        PROVE  OwnInv(r)'
    <3>1. /\ pc'[r] = pc[r] /\ afterID'[r] = afterID[r] /\ page'[r] = page[r]
      BY <2>9 DEF Commit, Spend, Edit, run
    <3>2. pc[r] = "idle" => fresh'[r] = fresh[r] \/ fresh'[r] = {}
      BY <2>2, <2>9 DEF Commit, Spend, Edit, Ahead, RunType, OwnInv
    <3> QED BY <2>3, <3>1, <3>2
  <2>10. CASE Allocate \/ Process \/ UNCHANGED vars
    BY <2>3, <2>10 DEF Allocate, Process, vars, run
  <2> QED BY <1>2, <2>4, <2>5, <2>6, <2>7, <2>8, <2>9, <2>10, StepCases DEF RunSteps, RunStep
<1> QED BY <1>1, <1>2

-----------------------------------------------------------------------------
(* What becomes of a run, and of what is fresh for it.                     *)

LEMMA RunCases ==
  ASSUME RunType, [Next]_vars, NEW r \in Reindexers
  PROVE  \/ pc'[r] = pc[r] /\ page'[r] = page[r] /\ afterID'[r] = afterID[r]
         \/ Start(r) /\ pc[r] = "idle" /\ pc'[r] = "read" /\ page' = page /\ afterID' = afterID
         \/ Read(r) /\ pc[r] = "read" /\ pc'[r] = "index"
         \/ IndexJobs(r) /\ pc[r] = "index" /\ pc'[r] = "delete" /\ page' = page /\ afterID' = afterID
         \/ DeleteJobs(r) /\ pc[r] = "delete" /\ pc'[r] = "next" /\ page' = page /\ afterID' = afterID
         \/ /\ NextPage(r) /\ pc[r] = "next" /\ ~Awaits(r) /\ pc'[r] = "read"
            /\ DOMAIN page'[r] = {} /\ afterID'[r] = afterID[r]
         \/ pc'[r] = "idle" /\ DOMAIN page'[r] = {} /\ fresh'[r] = {}
<1> USE DEF RunType
<1>1. Start(r) => pc[r] = "idle" /\ pc'[r] = "read" /\ page' = page /\ afterID' = afterID
  BY DEF Start, run
<1>2. Read(r) => pc[r] = "read" /\ pc'[r] = "index"
  BY DEF Read
<1>3. IndexJobs(r) => pc[r] = "index" /\ pc'[r] = "delete" /\ page' = page /\ afterID' = afterID
  BY DEF IndexJobs, run
<1>4. DeleteJobs(r) => pc[r] = "delete" /\ pc'[r] = "next" /\ page' = page /\ afterID' = afterID
  BY DEF DeleteJobs, run
<1>5. NextPage(r) => /\ pc[r] = "next" /\ ~Awaits(r) /\ pc'[r] = "read"
                     /\ DOMAIN page'[r] = {} /\ afterID'[r] = afterID[r]
  BY DEF NextPage, NoPage
<1>6. Reset(r) => pc'[r] = "idle" /\ DOMAIN page'[r] = {} /\ fresh'[r] = {}
  BY DEF Reset, NoPage
<1>7. Finish(r) \/ Crash(r) \/ TaskFails(r) => Reset(r)
  BY DEF Finish, Crash, TaskFails
<1>8. ASSUME NEW q \in Reindexers, q # r, RunSteps(q)
      PROVE  pc'[r] = pc[r] /\ page'[r] = page[r] /\ afterID'[r] = afterID[r]
  BY <1>8, RunFrame
<1>9. ASSUME NEW i \in Ids, Commit(i) \/ Spend(i) \/ Edit(i)
      PROVE  pc'[r] = pc[r] /\ page'[r] = page[r] /\ afterID'[r] = afterID[r]
  BY <1>9 DEF Commit, Spend, Edit, run
<1>10. Allocate \/ Process \/ UNCHANGED vars =>
         pc'[r] = pc[r] /\ page'[r] = page[r] /\ afterID'[r] = afterID[r]
  BY DEF Allocate, Process, vars, run
<1> HIDE DEF RunType
<1> QED BY <1>1, <1>2, <1>3, <1>4, <1>5, <1>6, <1>7, <1>8, <1>9, <1>10, StepCases
        DEF RunSteps, RunStep

LEMMA FreshCases ==
  ASSUME TypeInv, [Next]_vars, NEW r \in Reindexers, NEW i, i \in fresh'[r]
  PROVE  \/ i \in fresh[r] /\ i \in DOMAIN rows /\ rows'[i] = rows[i]
         \/ Commit(i) /\ i \in open /\ Ahead(r, i) /\ UNCHANGED <<page, pc, afterID>>
         \/ Start(r) /\ (\A x \in Reindexers : pc[x] = "idle") /\ UNCHANGED <<page, afterID>>
<1> DEFINE Kept == i \in fresh[r] /\ i \in DOMAIN rows /\ rows'[i] = rows[i]
<1>0. RunType /\ (i \in fresh[r] => i \in DOMAIN rows)
  BY DEF TypeInv, RunType
<1>1. ASSUME NEW k \in Ids, Commit(k)
      PROVE  Kept \/ (Commit(i) /\ i \in open /\ Ahead(r, i) /\ UNCHANGED <<page, pc, afterID>>)
  <2>1. /\ k \in open /\ k \notin DOMAIN rows /\ UNCHANGED <<page, pc, afterID>>
        /\ fresh'[r] = IF Ahead(r, k) THEN fresh[r] \cup {k} ELSE fresh[r]
        /\ \A n \in DOMAIN rows : n # k => rows'[n] = rows[n]
    BY <1>1 DEF Commit, run, TypeInv, TableType
  <2>2. CASE i = k
    BY <1>0, <1>1, <2>1, <2>2
  <2>3. CASE i # k
    BY <1>0, <2>1, <2>3
  <2> QED BY <2>2, <2>3
<1>2. ASSUME NEW k \in Ids, Edit(k)
      PROVE  Kept
  BY <1>0, <1>2 DEF Edit
<1>3. CASE Allocate \/ Process \/ (\E k \in Ids : Spend(k)) \/ UNCHANGED vars
  BY <1>0, <1>3 DEF Allocate, Process, Spend, vars, table
<1>4. ASSUME NEW q \in Reindexers, RunSteps(q), q # r
      PROVE  Kept
  <2>1. rows' = rows /\ (fresh'[r] = fresh[r] \/ fresh'[r] = {})
    BY <1>0, <1>4, RunFrame
  <2> QED BY <1>0, <2>1
<1>5. ASSUME RunSteps(r)
      PROVE  \/ Kept
             \/ Start(r) /\ (\A x \in Reindexers : pc[x] = "idle") /\ UNCHANGED <<page, afterID>>
  <2>1. rows' = rows
    BY <1>0, <1>5, RunFrame
  <2>2. CASE Start(r)
    BY <1>0, <2>2 DEF Start, run
  <2>3. CASE Read(r) \/ IndexJobs(r) \/ DeleteJobs(r) \/ NextPage(r)
    BY <1>0, <2>1, <2>3 DEF Read, IndexJobs, DeleteJobs, NextPage
  <2>4. CASE Finish(r) \/ Crash(r) \/ TaskFails(r)
    BY <1>0, <2>4 DEF Finish, Crash, TaskFails, Reset, RunType
  <2> QED BY <1>5, <2>2, <2>3, <2>4 DEF RunSteps, RunStep
<1> QED BY <1>1, <1>2, <1>3, <1>4, <1>5, StepCases

LEMMA PagesStep ==
  ASSUME TypeInv, [Next]_vars, \A q \in Reindexers : OwnInv(q), NEW r \in Reindexers, PagesInv(r)
  PROVE  PagesInv(r)'
<1> SUFFICES ASSUME NEW i, i \in fresh'[r], NEW q \in Reindexers, i \in DOMAIN page'[q]
             PROVE  page'[q][i] = rows'[i]
  BY DEF PagesInv
<1>1. CASE i \in fresh[r] /\ i \in DOMAIN rows /\ rows'[i] = rows[i]
  <2>1. page'[q] = page[q] \/ Read(q) \/ DOMAIN page'[q] = {}
    BY RunCases DEF TypeInv
  <2>2. Read(q) => page'[q][i] = rows[i]
    BY ReadFacts
  <2>3. page'[q] = page[q] => page'[q][i] = rows[i]
    BY <1>1 DEF PagesInv
  <2> QED BY <1>1, <2>1, <2>2, <2>3
<1>2. CASE Commit(i) /\ i \in open /\ Ahead(r, i) /\ UNCHANGED <<page, pc, afterID>>
  BY <1>2 DEF TypeInv, TableType, RunType
<1>3. CASE Start(r) /\ (\A x \in Reindexers : pc[x] = "idle") /\ UNCHANGED <<page, afterID>>
  BY <1>3 DEF OwnInv
<1> QED BY <1>1, <1>2, <1>3, FreshCases

LEMMA ShortStep ==
  ASSUME TypeInv, [Next]_vars, NEW r \in Reindexers, ShortInv(r)
  PROVE  ShortInv(r)'
<1> SUFFICES ASSUME pc'[r] \in {"index", "delete", "next"}, Short(r)', NEW i, i \in fresh'[r]
             PROVE  i <= afterID'[r]
  BY DEF ShortInv
<1>1. \/ Read(r)
      \/ /\ page'[r] = page[r] /\ afterID'[r] = afterID[r]
         /\ pc[r] \in {"index", "delete", "next"}
  BY RunCases DEF TypeInv
<1>2. page'[r] = page[r] => Short(r)
  BY DEF Short
<1>3. CASE i \in fresh[r] /\ i \in DOMAIN rows /\ rows'[i] = rows[i]
  <2>1. CASE Read(r)
    BY <1>3, <2>1, ReadFacts
  <2>2. CASE ~Read(r)
    BY <1>1, <1>2, <1>3, <2>2 DEF ShortInv
  <2> QED BY <2>1, <2>2
<1>4. CASE Commit(i) /\ i \in open /\ Ahead(r, i) /\ UNCHANGED <<page, pc, afterID>>
  BY <1>2, <1>4 DEF Ahead
<1>5. CASE Start(r) /\ (\A x \in Reindexers : pc[x] = "idle") /\ UNCHANGED <<page, afterID>>
  BY <1>1, <1>5 DEF Read
<1> QED BY <1>3, <1>4, <1>5, FreshCases

-----------------------------------------------------------------------------
(* What is settled stays so as long as the row does.                       *)

(* Settled in the next state, of a row that stays as it is.                *)
LEMMA SettledNext ==
  ASSUME NEW r, NEW i, rows'[i] = rows[i]
  PROVE  Settled(r, i)' <=>
           \/ /\ IF rows[i].closed THEN i \notin DOMAIN index'
                 ELSE i \in DOMAIN index' /\ index'[i].text = rows[i].text
              /\ \A n \in DOMAIN tasks' : n > 0 /\ Mentions(tasks'[n], i) => Right(tasks'[n], i)
           \/ \E k \in DOMAIN tasks' :
                /\ tasks'[k].by = r /\ Right(tasks'[k], i)
                /\ \A n \in DOMAIN tasks' : n > k /\ Mentions(tasks'[n], i) => Right(tasks'[n], i)
  BY DEF Settled, RightAfter, Right, Mentions, Shows

LEMMA TaskShows ==
  ASSUME TypeInv, NEW i, Process
  PROVE  /\ tasks # <<>>
         /\ Right(tasks[1], i) => IF rows[i].closed THEN i \notin DOMAIN index'
                                  ELSE i \in DOMAIN index' /\ index'[i].text = rows[i].text
         /\ ~Mentions(tasks[1], i) => /\ i \in DOMAIN index' <=> i \in DOMAIN index
                                      /\ i \in DOMAIN index => index'[i] = index[i]
<1>1. tasks # <<>> /\ EngineType
  BY DEF Process, TypeInv
<1>2. PICK t : t = Head(tasks)
  OBVIOUS
<1>3. t \in Tasks /\ t = tasks[1]
  BY <1>1, <1>2, QueueFacts DEF EngineType
<1>4. PICK new : new = After(t)
  OBVIOUS
<1>5. index' = new
  BY <1>2, <1>4 DEF Process, After
<1>6. Merged(t, new)
  BY <1>1, <1>3, <1>4, MergeFacts
<1> QED BY <1>1, <1>3, <1>5, <1>6 DEF Merged, Right, Mentions

LEMMA SettledKept ==
  ASSUME TypeInv, [Next]_vars, NEW r \in Reindexers, PagesInv(r),
         NEW i, i \in fresh[r], rows'[i] = rows[i], Settled(r, i), ~Crash(r), ~TaskFails(r)
  PROVE  Settled(r, i)'
<1>0. /\ tasks \in Seq(Tasks) /\ Len(tasks) \in Nat /\ DOMAIN tasks = 1..Len(tasks)
  BY QueueFacts DEF TypeInv, EngineType
<1> DEFINE Show(d) == IF rows[i].closed THEN i \notin DOMAIN d
                      ELSE i \in DOMAIN d /\ d[i].text = rows[i].text
           Rest(q, k) == \A n \in DOMAIN q : n > k /\ Mentions(q[n], i) => Right(q[n], i)
           Fine(d, q) == \/ Show(d) /\ Rest(q, 0)
                         \/ \E k \in DOMAIN q : q[k].by = r /\ Right(q[k], i) /\ Rest(q, k)
<1>1. Fine(index, tasks)
  BY DEF Settled, RightAfter, Shows
<1>2. Fine(index', tasks') => Settled(r, i)'
  BY SettledNext
<1>3. CASE tasks' = tasks /\ index' = index
  BY <1>1, <1>2, <1>3
<1>4. ASSUME NEW q \in Reindexers, IndexJobs(q) \/ DeleteJobs(q)
      PROVE  Fine(index', tasks')
  <2>1. index' = index
    BY <1>4 DEF IndexJobs, DeleteJobs
  <2>2. CASE tasks' = tasks
    BY <1>1, <2>1, <2>2
  <2>3. ASSUME NEW t \in Tasks, tasks' = Append(tasks, t),
               \A n : Mentions(t, n) => n \in DOMAIN page[q],
               \A n \in DOMAIN page[q] : Mentions(t, n) =>
                        IF page[q][n].closed THEN n \in t.ids
                        ELSE n \in DOMAIN t.docs /\ n \notin t.ids
                             /\ t.docs[n].text = page[q][n].text
        PROVE  Fine(index', tasks')
    <3>1. Mentions(t, i) => Right(t, i)
      BY <2>3 DEF PagesInv, Right
    <3>2. /\ DOMAIN tasks' = 1..(Len(tasks) + 1)
          /\ tasks'[Len(tasks) + 1] = t
          /\ \A n \in DOMAIN tasks : tasks'[n] = tasks[n]
      BY <1>0, <2>3, QueueFacts
    <3>3. \A n \in 1..(Len(tasks) + 1) : n \in DOMAIN tasks \/ n = Len(tasks) + 1
      BY <1>0
    <3>4. \A k : Rest(tasks, k) => Rest(tasks', k)
      BY <3>1, <3>2, <3>3
    <3>5. \A k \in DOMAIN tasks : k \in DOMAIN tasks'
      BY <1>0, <3>2
    <3> HIDE DEF Rest
    <3> QED BY <1>1, <2>1, <3>2, <3>4, <3>5
  <2> QED BY <1>4, <2>2, <2>3, SendFacts
<1>5. ASSUME tasks # <<>>, tasks' = Tail(tasks)
      PROVE  /\ Rest(tasks, 0) => Rest(tasks', 0)
             /\ \A k \in DOMAIN tasks : tasks[k].by = r /\ Right(tasks[k], i) /\ Rest(tasks, k) =>
                  \/ k = 1 /\ Rest(tasks', 0)
                  \/ \E n \in DOMAIN tasks' : tasks'[n].by = r /\ Right(tasks'[n], i) /\ Rest(tasks', n)
  <2>1. /\ DOMAIN tasks' = 1..(Len(tasks) - 1)
        /\ \A n \in 1..(Len(tasks) - 1) : n + 1 \in DOMAIN tasks /\ tasks'[n] = tasks[n + 1]
    BY <1>0, <1>5, QueueFacts
  <2>2. \A n \in 1..(Len(tasks) - 1) : n + 1 > 0 /\ n + 1 > 1
    BY <1>0
  <2>3. (Rest(tasks, 0) => Rest(tasks', 0)) /\ (Rest(tasks, 1) => Rest(tasks', 0))
    BY <2>1, <2>2
  <2>4. ASSUME NEW k \in DOMAIN tasks, tasks[k].by = r, Right(tasks[k], i), Rest(tasks, k), k # 1
        PROVE  \E n \in DOMAIN tasks' : tasks'[n].by = r /\ Right(tasks'[n], i) /\ Rest(tasks', n)
    <3>1. PICK m : m = k - 1
      OBVIOUS
    <3>2. m \in 1..(Len(tasks) - 1) /\ m + 1 = k
      BY <1>0, <2>4, <3>1
    <3>3. \A n \in 1..(Len(tasks) - 1) : n > m => n + 1 > k
      BY <1>0, <2>4, <3>1
    <3>4. Rest(tasks', m)
      BY <2>1, <2>4, <3>3
    <3>5. tasks'[m] = tasks[k] /\ m \in DOMAIN tasks'
      BY <2>1, <3>2
    <3> HIDE DEF Rest
    <3> QED BY <2>4, <3>4, <3>5
  <2> HIDE DEF Rest
  <2> QED BY <2>3, <2>4
<1>6. CASE Process
  <2>1. tasks # <<>> /\ tasks' = Tail(tasks) /\ 1 \in DOMAIN tasks
    BY <1>0, <1>6, QueueFacts DEF Process
  <2>2. Right(tasks[1], i) => Show(index')
    BY <1>6, TaskShows
  <2>3. Show(index) /\ ~Mentions(tasks[1], i) => Show(index')
    BY <1>6, TaskShows
  <2>4. Rest(tasks, 0) /\ Mentions(tasks[1], i) => Right(tasks[1], i)
    BY <2>1
  <2> HIDE DEF Rest, Show
  <2> QED BY <1>1, <1>2, <1>5, <2>1, <2>2, <2>3, <2>4
<1>7. ASSUME NEW q \in Reindexers, TaskFails(q), tasks # <<>>, tasks' = Tail(tasks)
      PROVE  Fine(index', tasks')
  <2>1. index' = index /\ Head(tasks).by = q /\ q # r
    BY <1>7 DEF TaskFails
  <2>2. tasks[1].by # r
    BY <1>0, <1>7, <2>1, QueueFacts
  <2> HIDE DEF Rest, Show
  <2> QED BY <1>1, <1>5, <1>7, <2>1, <2>2
<1>8. ASSUME NEW q \in Reindexers, Crash(q), tasks' = Forget(q)
      PROVE  Fine(index', tasks')
  <2>1. index' = index /\ q # r
    BY <1>8 DEF Crash
  <2>2. PICK queue : queue = Forget(q)
    OBVIOUS
  <2>3. /\ DOMAIN queue = DOMAIN tasks
        /\ \A n \in DOMAIN tasks :
              /\ queue[n].docs = tasks[n].docs /\ queue[n].ids = tasks[n].ids
              /\ tasks[n].by # q => queue[n].by = tasks[n].by
    BY <1>0, <2>2, ForgottenFacts
  <2>4. \A n \in DOMAIN tasks : /\ Mentions(queue[n], i) <=> Mentions(tasks[n], i)
                                /\ Right(queue[n], i) <=> Right(tasks[n], i)
                                /\ tasks[n].by = r => queue[n].by = r
    BY <2>1, <2>3 DEF Mentions, Right
  <2>5. Fine(index, queue)
    BY <1>1, <2>3, <2>4
  <2> QED BY <1>8, <2>1, <2>2, <2>5
<1> HIDE DEF Fine
<1> QED BY <1>2, <1>3, <1>4, <1>6, <1>7, <1>8, QueueCases

(* A row that a run has just sent is settled by the task.                  *)
LEMMA SentSettles ==
  ASSUME TypeInv, NEW r \in Reindexers, PagesInv(r), NEW i, i \in fresh[r], i \in DOMAIN page[r],
         \/ IndexJobs(r) /\ ~page[r][i].closed
         \/ DeleteJobs(r) /\ page[r][i].closed
  PROVE  Settled(r, i)'
<1>0. /\ tasks \in Seq(Tasks) /\ Len(tasks) \in Nat /\ DOMAIN tasks = 1..Len(tasks)
  BY QueueFacts DEF TypeInv, EngineType
<1>1. /\ IndexJobs(r) => pc[r] = "index" /\ ~DeleteJobs(r)
      /\ DeleteJobs(r) => pc[r] = "delete" /\ ~IndexJobs(r)
      /\ rows' = rows /\ page[r][i] = rows[i]
  BY DEF IndexJobs, DeleteJobs, table, PagesInv
<1>2. PICK t \in Tasks :
        /\ tasks' = Append(tasks, t) /\ t.by = r
        /\ Mentions(t, i)
        /\ IF page[r][i].closed THEN i \in t.ids
           ELSE i \in DOMAIN t.docs /\ i \notin t.ids /\ t.docs[i].text = page[r][i].text
  <2>1. ~(tasks' = tasks /\ \A n \in DOMAIN page[r] : page[r][n].closed <=> IndexJobs(r))
    BY <1>1
  <2> QED BY <1>1, <2>1, SendFacts
<1>3. Right(t, i)
  BY <1>1, <1>2 DEF Right
<1>4. /\ DOMAIN tasks' = 1..(Len(tasks) + 1) /\ tasks'[Len(tasks) + 1] = t
  BY <1>0, <1>2, QueueFacts
<1>5. \A n \in 1..(Len(tasks) + 1) : ~(n > Len(tasks) + 1)
  BY <1>0
<1>6. Len(tasks) + 1 \in DOMAIN tasks'
  BY <1>0, <1>4
<1> QED BY <1>1, <1>2, <1>3, <1>4, <1>5, <1>6, SettledNext

LEMMA SettledStep ==
  ASSUME TypeInv, [Next]_vars, NEW r \in Reindexers, OwnInv(r), PagesInv(r), SettledInv(r)
  PROVE  SettledInv(r)'
<1> SUFFICES ASSUME NEW i, i \in fresh'[r], Behind(r, i)'
             PROVE  Settled(r, i)'
  BY DEF SettledInv
<1>0. RunType /\ i <= afterID'[r]
  BY DEF TypeInv, Behind
<1>1. CASE i \in fresh[r] /\ i \in DOMAIN rows /\ rows'[i] = rows[i]
  <2>1. ~Crash(r) /\ ~TaskFails(r)
    BY <1>0 DEF Crash, TaskFails, Reset, RunType
  <2>2. CASE Behind(r, i)
    BY <1>1, <2>1, <2>2, SettledKept DEF SettledInv
  <2>3. ASSUME ~Behind(r, i)
        PROVE  Settled(r, i)'
    <3>1. /\ i \in DOMAIN page[r] => page[r][i].closed \in BOOLEAN
          /\ i > 0 /\ i \in Nat /\ afterID[r] \in Nat
      BY <1>0, <1>1, IdsFacts DEF RunType, Row
    <3>2. CASE pc'[r] = pc[r] /\ page'[r] = page[r] /\ afterID'[r] = afterID[r]
      BY <2>3, <3>2 DEF Behind
    <3>3. CASE Start(r) /\ pc[r] = "idle" /\ pc'[r] = "read" /\ page' = page /\ afterID' = afterID
      BY <1>0, <3>1, <3>3 DEF OwnInv
    <3>4. CASE Read(r) /\ pc[r] = "read" /\ pc'[r] = "index"
      <4>1. i \notin DOMAIN page'[r] /\ DOMAIN page[r] = {}
        BY <3>4 DEF Behind, OwnInv
      <4>2. i <= afterID[r]
        BY <1>0, <1>1, <3>1, <3>4, <4>1, ReadFacts
      <4> QED BY <2>3, <4>1, <4>2 DEF Behind
    <3>5. CASE IndexJobs(r) /\ pc[r] = "index" /\ pc'[r] = "delete" /\ page' = page /\ afterID' = afterID
      <4>1. i \in DOMAIN page[r] /\ ~page[r][i].closed
        BY <2>3, <3>5 DEF Behind
      <4> QED BY <1>1, <3>5, <4>1, SentSettles
    <3>6. CASE DeleteJobs(r) /\ pc[r] = "delete" /\ pc'[r] = "next" /\ page' = page /\ afterID' = afterID
      <4>1. i \in DOMAIN page[r] /\ page[r][i].closed
        BY <1>0, <2>3, <3>1, <3>6 DEF Behind
      <4> QED BY <1>1, <3>6, <4>1, SentSettles
    <3>7. CASE pc[r] = "next" /\ afterID'[r] = afterID[r]
      BY <1>0, <2>3, <3>7 DEF Behind
    <3>8. CASE pc'[r] = "idle" /\ DOMAIN page'[r] = {} /\ fresh'[r] = {}
      BY <3>8
    <3> QED BY <1>0, <3>2, <3>3, <3>4, <3>5, <3>6, <3>7, <3>8, RunCases
  <2> QED BY <2>2, <2>3
<1>2. CASE Commit(i) /\ i \in open /\ Ahead(r, i) /\ UNCHANGED <<page, pc, afterID>>
  <2>1. i \in Nat /\ afterID[r] \in Nat /\ i > afterID[r]
    BY <1>2, IdsFacts, SearchAssumption DEF TypeInv, TableType, Ahead
  <2> QED BY <1>0, <1>2, <2>1
<1>3. CASE Start(r) /\ (\A x \in Reindexers : pc[x] = "idle") /\ UNCHANGED <<page, afterID>>
  <2>1. i \in DOMAIN rows /\ afterID'[r] = 0
    BY <1>0, <1>3 DEF Start, RunType, OwnInv
  <2> QED BY <1>0, <2>1, IdsFacts
<1> QED BY <1>1, <1>2, <1>3, FreshCases

-----------------------------------------------------------------------------
(* Every reachable state satisfies the inductive invariant: what the tasks *)
(* in the queue and the pages in memory are going to make of the index     *)
(* agrees with the rows that were left alone (reindexAll).                 *)
THEOREM InvariantCorrect == Spec => []IInv
<1>1. Init => IInv
  <2> SUFFICES ASSUME Init PROVE IInv
    OBVIOUS
  <2>1. DOMAIN NoPage = {} /\ DOMAIN NoDocs = {}
    BY DEF NoPage, NoDocs
  <2>2. TypeInv
    BY <2>1, SearchAssumption DEF Init, TypeInv, TableType, EngineType, RunType
  <2>3. ASSUME NEW r \in Reindexers
        PROVE  OwnInv(r) /\ ShortInv(r) /\ PagesInv(r) /\ SettledInv(r)
    BY <2>1 DEF Init, OwnInv, ShortInv, PagesInv, SettledInv, Awaits
  <2> QED BY <2>2, <2>3 DEF IInv
<1>2. IInv /\ [Next]_vars => IInv'
  <2> SUFFICES ASSUME IInv, [Next]_vars PROVE IInv'
    OBVIOUS
  <2>1. TypeInv'
    BY TypeStep DEF IInv
  <2>2. ASSUME NEW r \in Reindexers
        PROVE  OwnInv(r)' /\ ShortInv(r)' /\ PagesInv(r)' /\ SettledInv(r)'
    BY OwnStep, ShortStep, PagesStep, SettledStep DEF IInv
  <2> QED BY <2>1, <2>2 DEF IInv
<1> QED BY <1>1, <1>2, PTL DEF Spec

(* Rows, documents, tasks and runs keep their types, and a run remembers   *)
(* only rows that are there.                                               *)
THEOREM TypeCorrect == Spec => []TypeOK
<1>1. IInv => TypeOK
  <2> SUFFICES ASSUME IInv PROVE TypeOK
    OBVIOUS
  <2>1. /\ \A n \in DOMAIN tasks : tasks[n] \in Tasks
        /\ TableType /\ EngineType /\ RunType
    BY QueueFacts DEF IInv, TypeInv, EngineType
  <2>2. \A n \in DOMAIN tasks : tasks[n].by \in Reindexers \cup {Nobody}
    BY <2>1, TaskFacts
  <2> QED BY <2>1, <2>2 DEF TypeOK, TableType, EngineType, RunType
<1> QED BY <1>1, InvariantCorrect, PTL

(* A run that ends well has brought the index up to date with every row    *)
(* that was left alone, whatever crashed runs left behind in the queue.    *)
THEOREM RunsSynchronize == Spec => RunSynchronizes
<1> DEFINE Fine == \A r \in Reindexers : Finish(r) => \A i \in fresh[r] : Shows(i)
<1>1. IInv /\ [Next]_vars => [Fine]_vars
  <2> SUFFICES ASSUME IInv, NEW r \in Reindexers, Finish(r), NEW i, i \in fresh[r]
               PROVE  Shows(i)
    BY DEF Fine
  <2>1. TypeInv /\ OwnInv(r) /\ ShortInv(r) /\ SettledInv(r)
    BY DEF IInv
  <2>2. i \in DOMAIN rows
    BY <2>1 DEF TypeInv, RunType
  <2>3. ~Awaits(r) /\ Behind(r, i)
    <3>1. CASE pc[r] = "next" /\ ~Awaits(r) /\ Short(r)
      BY <2>1, <3>1 DEF ShortInv, Behind
    <3>2. CASE pc[r] = "read" /\ PageAfter(afterID[r]) = {}
      BY <2>1, <2>2, <3>2, EmptyPage DEF OwnInv, Behind
    <3> QED BY <3>1, <3>2 DEF Finish, AtEnd
  <2>4. Settled(r, i)
    BY <2>1, <2>3 DEF SettledInv
  <2> QED BY <2>3, <2>4 DEF Settled, Awaits
<1> QED BY <1>1, InvariantCorrect, PTL DEF Spec, RunSynchronizes

==============================================================================
