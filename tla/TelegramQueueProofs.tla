------------------------- MODULE TelegramQueueProofs -------------------------
(***************************************************************************)
(* Proofs about TelegramQueue, for any posts and links, any number of runs *)
(* and any value of the batch size, the lease, the retry budget and the    *)
(* bounds; and that it implements the safety part of WorkQueue.            *)
(***************************************************************************)
EXTENDS TelegramQueue, TLAPS

-----------------------------------------------------------------------------
(* The inductive invariant.                                                *)

(* What a run has in hand is stored: rows are never deleted.               *)
HandsKnown == \A w \in Workers : Hands(w) \subseteq DOMAIN queue

(* A transaction upserts what its run has found, and nothing survives it.  *)
WrittenInv ==
  \A w \in Workers : /\ written[w] \subseteq result[w]
                     /\ pc[w] # "write" => written[w] = {}

(* The lease of a row lasts as long as that of any run that has it in hand.*)
LeaseCovers ==
  \A w \in Workers : \A p \in Hands(w) : held[w] > 0 => queue[p].lease >= held[w]

(* Without this RecordFailure, which computes failed_at afresh, could take *)
(* a dead letter back.                                                     *)
FailedInv == \A p \in DOMAIN queue : queue[p].failed => queue[p].attempts >= MaxAttempts

IInv == /\ TypeOK /\ HandsKnown /\ WrittenInv /\ FailedInv
        /\ LeaseCovers /\ LeaseExclusive

-----------------------------------------------------------------------------
(* What happens to a row.                                                  *)

LEMMA RowType ==
  \A a \in Nat, f, e \in BOOLEAN, l \in 0..Lease :
    [attempts |-> a, failed |-> f, extracted |-> e, lease |-> l] \in Row
  BY DEF Row

LEMMA NewRowFacts ==
  ASSUME NEW p
  PROVE  NewRow(p) \in Row /\ ~NewRow(p).failed /\ NewRow(p).lease = 0
<1>1. IsVacancy(p) \in BOOLEAN /\ 0 \in 0..Lease
  BY TelegramAssumption DEF IsVacancy
<1> DEFINE e == ~IsVacancy(p)
<1>2. e \in BOOLEAN /\ NewRow(p) = [attempts |-> 0, failed |-> FALSE, extracted |-> e, lease |-> 0]
  BY <1>1 DEF NewRow
<1> HIDE DEF e
<1>3. NewRow(p).failed = FALSE /\ NewRow(p).lease = 0
  BY <1>2
<1>4. NewRow(p) \in Row
  BY <1>1, <1>2, RowType
<1> QED BY <1>3, <1>4

LEMMA LeasedRow ==
  ASSUME NEW r \in Row, NEW n \in 0..Lease
  PROVE  LET a == [r EXCEPT !.lease = n]
         IN /\ a \in Row /\ a.lease = n /\ a.attempts = r.attempts
            /\ a.failed = r.failed /\ a.extracted = r.extracted
  BY DEF Row

LEMMA MarkedRow ==
  ASSUME NEW r \in Row
  PROVE  LET a == [r EXCEPT !.extracted = TRUE]
         IN /\ a \in Row /\ a.lease = r.lease /\ a.attempts = r.attempts
            /\ a.failed = r.failed /\ a.extracted
  BY DEF Row

LEMMA CountedRow ==
  ASSUME NEW r \in Row
  PROVE  LET a == CountFailure(r)
         IN /\ a \in Row /\ a.lease = r.lease /\ a.attempts = r.attempts + 1
            /\ a.extracted = r.extracted
            /\ a.failed <=> r.attempts + 1 >= MaxAttempts
<1> DEFINE dead == r.attempts + 1 >= MaxAttempts
<1>1. dead \in BOOLEAN /\ r.attempts \in Nat
  BY DEF Row
<1>2. CountFailure(r) = [r EXCEPT !.attempts = r.attempts + 1, !.failed = dead]
  BY DEF CountFailure
<1> HIDE DEF dead
<1>3. /\ CountFailure(r).lease = r.lease
      /\ CountFailure(r).attempts = r.attempts + 1
      /\ CountFailure(r).extracted = r.extracted
      /\ CountFailure(r).failed = dead
  BY <1>1, <1>2 DEF Row
<1>4. CountFailure(r) \in Row
  <2>1. PICK a \in Nat, f \in BOOLEAN, e \in BOOLEAN, l \in 0..Lease :
          r = [attempts |-> a, failed |-> f, extracted |-> e, lease |-> l]
    BY Zenon DEF Row
  <2>2. CountFailure(r) = [attempts |-> r.attempts + 1, failed |-> dead,
                           extracted |-> e, lease |-> l]
    BY <1>2, <2>1
  <2>3. r.attempts + 1 \in Nat
    BY <1>1
  <2> QED BY <1>1, <2>1, <2>2, <2>3, RowType, Zenon
<1> QED BY <1>3, <1>4 DEF dead

LEMMA LessFacts == \A n \in 0..Lease : Less(n) \in 0..Lease /\ Less(n) <= n
  BY TelegramAssumption DEF Less

LEMMA LessMono == \A m, n \in Nat : m <= n => Less(m) <= Less(n)
  BY DEF Less

-----------------------------------------------------------------------------
(* What each statement does to the table, and that there are no others.    *)

LEMMA QueueWrites ==
  ASSUME [Next]_vars
  PROVE  \/ UNCHANGED queue
         \/ \E p \in Posts : Insert(p)
         \/ Tick
         \/ \E w \in Workers : Claim(w)
         \/ \E w \in Workers : pc[w] = "write" /\ Commit(w)
         \/ \E w \in Workers : RecordFailure(w)
  BY DEF Next, RunStep, Fault, Take, ResolveLinks, Extract, NoExtraction, Hang, Upsert, Complete,
         CompleteError, DeadlockAbort, FailError, Crash, db, vars

LEMMA Inserted ==
  ASSUME TypeOK, NEW p \in Posts, Insert(p)
  PROVE  /\ DOMAIN queue' = DOMAIN queue \cup {p}
         /\ \A q \in DOMAIN queue : queue'[q] = queue[q]
         /\ p \notin DOMAIN queue => queue'[p] = NewRow(p)
  BY DEF Insert, TypeOK

LEMMA Ticked ==
  ASSUME TypeOK, Tick
  PROVE  /\ DOMAIN queue' = DOMAIN queue
         /\ \A p \in DOMAIN queue :
              /\ queue'[p] \in Row /\ queue'[p].lease = Less(queue[p].lease)
              /\ queue'[p].attempts = queue[p].attempts
              /\ queue'[p].failed = queue[p].failed
              /\ queue'[p].extracted = queue[p].extracted
         /\ \A w \in Workers : held'[w] = Less(held[w])
<1>1. /\ DOMAIN queue' = DOMAIN queue
      /\ \A p \in DOMAIN queue :
           queue'[p] = [queue[p] EXCEPT !.lease = Less(queue[p].lease)]
      /\ \A w \in Workers : held'[w] = Less(held[w])
  BY DEF Tick
<1>2. \A p \in DOMAIN queue : queue[p] \in Row /\ queue[p].lease \in 0..Lease
  BY DEF TypeOK, Row
<1>3. \A p \in DOMAIN queue : Less(queue[p].lease) \in 0..Lease
  BY <1>2, LessFacts
<1>4. ASSUME NEW p \in DOMAIN queue
      PROVE  /\ queue'[p] \in Row /\ queue'[p].lease = Less(queue[p].lease)
             /\ queue'[p].attempts = queue[p].attempts
             /\ queue'[p].failed = queue[p].failed
             /\ queue'[p].extracted = queue[p].extracted
  <2> DEFINE n == Less(queue[p].lease)
             r == queue[p]
  <2>1. n \in 0..Lease /\ r \in Row /\ queue'[p] = [r EXCEPT !.lease = n]
    BY <1>1, <1>2, <1>3
  <2> HIDE DEF n, r
  <2>2. /\ queue'[p] \in Row /\ queue'[p].lease = n
        /\ queue'[p].attempts = r.attempts
        /\ queue'[p].failed = r.failed
        /\ queue'[p].extracted = r.extracted
    BY <2>1, LeasedRow
  <2> QED BY <2>2 DEF n, r
<1> QED BY <1>1, <1>4

(* A claim takes rows that are neither settled nor leased.                 *)
LEMMA ClaimFacts ==
  ASSUME TypeOK, NEW w \in Workers, Claim(w)
  PROVE  /\ DOMAIN queue' = DOMAIN queue
         /\ \E S \in SUBSET DOMAIN queue :
              /\ batch' = [batch EXCEPT ![w] = S]
              /\ \A p \in S : /\ ~queue[p].extracted /\ ~queue[p].failed
                              /\ queue[p].lease = 0 /\ queue'[p].lease = Lease
              /\ \A p \in DOMAIN queue \ S : queue'[p] = queue[p]
         /\ \A p \in DOMAIN queue : /\ queue'[p] \in Row
                                    /\ queue'[p].attempts = queue[p].attempts
                                    /\ queue'[p].failed = queue[p].failed
                                    /\ queue'[p].extracted = queue[p].extracted
<1>1. PICK S \in SUBSET Claimable :
        /\ queue' = [p \in DOMAIN queue |->
                       IF p \in S THEN [queue[p] EXCEPT !.lease = Lease] ELSE queue[p]]
        /\ batch' = [batch EXCEPT ![w] = S]
  BY DEF Claim
<1>2. /\ \A p \in S : /\ p \in DOMAIN queue /\ queue[p].lease = 0
                      /\ ~queue[p].extracted /\ ~queue[p].failed
      /\ \A p \in DOMAIN queue : queue[p] \in Row
      /\ Lease \in 0..Lease
  BY <1>1, TelegramAssumption DEF Claimable, TypeOK
<1>3. /\ DOMAIN queue' = DOMAIN queue
      /\ \A p \in S : queue'[p] = [queue[p] EXCEPT !.lease = Lease]
      /\ \A p \in DOMAIN queue \ S : queue'[p] = queue[p]
  BY <1>1, <1>2
<1>4. ASSUME NEW p \in S
      PROVE  /\ queue'[p] \in Row /\ queue'[p].lease = Lease
             /\ queue'[p].attempts = queue[p].attempts
             /\ queue'[p].failed = queue[p].failed
             /\ queue'[p].extracted = queue[p].extracted
  <2> DEFINE r == queue[p]
  <2>1. r \in Row /\ queue'[p] = [r EXCEPT !.lease = Lease]
    BY <1>2, <1>3
  <2> HIDE DEF r
  <2>2. /\ queue'[p] \in Row /\ queue'[p].lease = Lease
        /\ queue'[p].attempts = r.attempts
        /\ queue'[p].failed = r.failed
        /\ queue'[p].extracted = r.extracted
    BY <1>2, <2>1, LeasedRow
  <2> QED BY <2>2 DEF r
<1>5. S \in SUBSET DOMAIN queue
  BY <1>2
<1> QED BY <1>1, <1>2, <1>3, <1>4, <1>5

LEMMA CommitFacts ==
  ASSUME TypeOK, HandsKnown, NEW w \in Workers, pc[w] = "write", Commit(w)
  PROVE  /\ post[w] \in DOMAIN queue
         /\ DOMAIN queue' = DOMAIN queue
         /\ LET a == queue'[post[w]]
                r == queue[post[w]]
            IN /\ a \in Row /\ a.lease = r.lease /\ a.attempts = r.attempts
               /\ a.failed = r.failed /\ a.extracted
         /\ \A p \in DOMAIN queue \ {post[w]} : queue'[p] = queue[p]
<1>1. post[w] \in DOMAIN queue
  BY DEF HandsKnown, Hands, Working
<1>2. queue[post[w]] \in Row
  BY <1>1 DEF TypeOK
<1>3. /\ DOMAIN queue' = DOMAIN queue
      /\ queue'[post[w]] = [queue[post[w]] EXCEPT !.extracted = TRUE]
      /\ \A p \in DOMAIN queue \ {post[w]} : queue'[p] = queue[p]
  BY <1>1 DEF Commit
<1> QED BY <1>1, <1>2, <1>3, MarkedRow

LEMMA FailureFacts ==
  ASSUME TypeOK, HandsKnown, NEW w \in Workers, RecordFailure(w)
  PROVE  /\ post[w] \in DOMAIN queue
         /\ DOMAIN queue' = DOMAIN queue
         /\ LET a == queue'[post[w]]
                r == queue[post[w]]
            IN /\ a \in Row /\ a.lease = r.lease /\ a.attempts = r.attempts + 1
               /\ a.extracted = r.extracted
               /\ a.failed <=> r.attempts + 1 >= MaxAttempts
         /\ \A p \in DOMAIN queue \ {post[w]} : queue'[p] = queue[p]
<1>1. post[w] \in DOMAIN queue
  BY DEF HandsKnown, Hands, Working, RecordFailure
<1>2. queue[post[w]] \in Row
  BY <1>1 DEF TypeOK
<1>3. /\ DOMAIN queue' = DOMAIN queue
      /\ queue'[post[w]] = CountFailure(queue[post[w]])
      /\ \A p \in DOMAIN queue \ {post[w]} : queue'[p] = queue[p]
  BY <1>1 DEF RecordFailure
<1> QED BY <1>1, <1>2, <1>3, CountedRow

-----------------------------------------------------------------------------
(* A run, but for its claim, only lets go of posts.                        *)
LEMMA HandsFacts ==
  ASSUME TypeOK, NEW w \in Workers,
         \/ Take(w) \/ ResolveLinks(w) \/ Extract(w) \/ NoExtraction(w)
         \/ \E j \in result[w] : Upsert(w, j)
         \/ Complete(w) \/ DeadlockAbort(w) \/ RecordFailure(w) \/ Fault(w)
  PROVE  \A u \in Workers : /\ Hands(u)' \subseteq Hands(u)
                            /\ held'[u] = held[u] \/ held'[u] = 0
<1> USE DEF Hands, Working, TypeOK
<1>1. CASE Take(w)
  <2>1. PICK p \in batch[w] : /\ post' = [post EXCEPT ![w] = p]
                             /\ batch' = [batch EXCEPT ![w] = @ \ {p}]
    BY <1>1 DEF Take
  <2> QED BY <1>1, <2>1 DEF Take
<1>2. CASE ResolveLinks(w)
  BY <1>2 DEF ResolveLinks
<1>3. CASE Extract(w)
  BY <1>3 DEF Extract
<1>4. CASE NoExtraction(w)
  BY <1>4 DEF NoExtraction, hands
<1>5. CASE Complete(w)
  BY <1>5 DEF Complete, Done
<1>6. CASE RecordFailure(w)
  BY <1>6 DEF RecordFailure, Done
<1>7. CASE Fault(w)
  BY <1>7 DEF Fault, Hang, CompleteError, FailError, Crash, Exit, Leave, hands
<1>8. CASE \E j \in result[w] : Upsert(w, j)
  BY <1>8 DEF Upsert
<1>9. CASE DeadlockAbort(w)
  BY <1>9 DEF DeadlockAbort, Leave
<1> QED BY <1>1, <1>2, <1>3, <1>4, <1>5, <1>6, <1>7, <1>8, <1>9

-----------------------------------------------------------------------------
(* Every step keeps the queue and the runs well formed.                    *)

LEMMA JobsType == \A p \in Posts : \A n \in 0..MaxJobs :
                    LinksOf[p] \cup Extracted(p, n) \subseteq Identities
<1> SUFFICES ASSUME NEW p \in Posts, NEW n \in 0..MaxJobs
             PROVE  LinksOf[p] \cup Extracted(p, n) \subseteq Identities
  OBVIOUS
<1>1. 1..n \subseteq 1..MaxJobs
  BY TelegramAssumption
<1>2. Extracted(p, n) \subseteq Posts \X (1..MaxJobs)
  BY <1>1 DEF Extracted
<1>3. LinksOf[p] \subseteq Links
  BY TelegramAssumption
<1> QED BY <1>2, <1>3 DEF Identities

(* The row of an aborted transaction goes to one that has yet to upsert it. *)
LEMMA AbortFacts ==
  ASSUME NEW w \in Workers, DeadlockAbort(w)
  PROVE  \E u \in Workers : \E j \in First(u) :
           /\ u # w /\ pc[u] = "write"
           /\ written' = [written EXCEPT ![w] = {}, ![u] = @ \cup {j}]
  BY DEF DeadlockAbort, Deadlocked

(* The end of a post, of a run, or of both.                                *)
LEMMA RunEnds ==
  ASSUME TypeOK, NEW w \in Workers, (Done(w) /\ UNCHANGED batch) \/ Exit(w)
  PROVE  /\ pc' \in [Workers -> Steps]
         /\ batch' \in [Workers -> SUBSET Posts]
         /\ post' \in [Workers -> Posts \cup {NoPost}]
         /\ result' \in [Workers -> SUBSET Identities]
         /\ written' \in [Workers -> SUBSET Identities]
         /\ held' \in [Workers -> 0..Lease]
<1>1. 0 \in 0..Lease /\ {"idle", "next"} \subseteq Steps
  BY TelegramAssumption DEF Steps
<1>2. CASE Done(w) /\ UNCHANGED batch
  BY <1>1, <1>2 DEF Done, TypeOK
<1>3. CASE Exit(w)
  BY <1>1, <1>3 DEF Exit, Leave, TypeOK
<1> QED BY <1>2, <1>3

LEMMA TypeStep ==
  ASSUME TypeOK, HandsKnown, [Next]_vars
  PROVE  TypeOK'
<1>a. /\ MaxFaults \in Nat /\ \A n \in 0..MaxFaults : n < MaxFaults => n + 1 \in 0..MaxFaults
      /\ Lease \in 0..Lease
  BY TelegramAssumption
<1>1. ASSUME NEW p \in Posts, Insert(p) PROVE TypeOK'
  <2>1. /\ DOMAIN queue' = DOMAIN queue \cup {p}
        /\ \A q \in DOMAIN queue : queue'[q] = queue[q]
        /\ p \notin DOMAIN queue => queue'[p] = NewRow(p)
    BY <1>1, Inserted
  <2>2. NewRow(p) \in Row
    BY NewRowFacts
  <2>3. DOMAIN queue' \subseteq Posts /\ \A q \in DOMAIN queue' : queue'[q] \in Row
    BY <2>1, <2>2 DEF TypeOK
  <2> QED BY <1>1, <2>3 DEF Insert, TypeOK, hands
<1>2. CASE Tick
  <2>1. DOMAIN queue' \subseteq Posts /\ \A q \in DOMAIN queue' : queue'[q] \in Row
    BY <1>2, Ticked DEF TypeOK
  <2>2. held' \in [Workers -> 0..Lease]
    BY <1>2, LessFacts DEF Tick, TypeOK
  <2> QED BY <1>2, <2>1, <2>2 DEF Tick, TypeOK
<1>3. ASSUME NEW w \in Workers, Claim(w) PROVE TypeOK'
  <2>1. DOMAIN queue' = DOMAIN queue /\ \A q \in DOMAIN queue' : queue'[q] \in Row
    BY <1>3, ClaimFacts
  <2>2. batch' \in [Workers -> SUBSET Posts]
    BY <1>3, ClaimFacts DEF TypeOK
  <2> QED BY <1>a, <1>3, <2>1, <2>2 DEF Claim, TypeOK, Steps
<1>4. ASSUME NEW w \in Workers, Take(w) PROVE TypeOK'
  BY <1>4 DEF Take, TypeOK, Steps, db
<1>5. ASSUME NEW w \in Workers, pc[w] \in Working PROVE post[w] \in Posts
  BY <1>5 DEF HandsKnown, Hands, TypeOK
<1>6. ASSUME NEW w \in Workers, ResolveLinks(w) PROVE TypeOK'
  <2>1. post[w] \in Posts /\ 0 \in 0..MaxJobs
    BY <1>5, <1>6, TelegramAssumption DEF ResolveLinks, Working
  <2>2. LinksOf[post[w]] \subseteq Identities
    BY <2>1, JobsType
  <2> QED BY <1>6, <2>2 DEF ResolveLinks, TypeOK, Steps, db
<1>7. ASSUME NEW w \in Workers, Extract(w) PROVE TypeOK'
  <2>1. post[w] \in Posts
    BY <1>5, <1>7 DEF Extract, Working
  <2>2. \A n \in 0..MaxJobs : Extracted(post[w], n) \subseteq Identities
    BY <2>1, JobsType
  <2> QED BY <1>7, <2>2 DEF Extract, TypeOK, Steps, db
<1>8. ASSUME NEW w \in Workers, NoExtraction(w) \/ Hang(w) PROVE TypeOK'
  BY <1>a, <1>8 DEF NoExtraction, Hang, TypeOK, Steps, db, hands
<1>9. ASSUME NEW w \in Workers, pc[w] = "write", Commit(w)
      PROVE  /\ DOMAIN queue' \subseteq Posts /\ \A q \in DOMAIN queue' : queue'[q] \in Row
             /\ jobs' \subseteq Identities
  <2>1. DOMAIN queue' \subseteq Posts /\ \A q \in DOMAIN queue' : queue'[q] \in Row
    BY <1>9, CommitFacts DEF TypeOK
  <2>2. jobs' \subseteq Identities
    BY <1>9 DEF Commit, TypeOK
  <2> QED BY <2>1, <2>2
<1>10. ASSUME NEW w \in Workers, Complete(w) PROVE TypeOK'
  BY <1>9, <1>10, RunEnds DEF Complete, TypeOK
<1>11. ASSUME NEW w \in Workers, CompleteError(w) PROVE TypeOK'
  <2>1. /\ DOMAIN queue' \subseteq Posts /\ \A q \in DOMAIN queue' : queue'[q] \in Row
        /\ jobs' \subseteq Identities
    BY <1>9, <1>11 DEF CompleteError, TypeOK, db
  <2>2. faults' \in 0..MaxFaults
    BY <1>a, <1>11 DEF CompleteError, TypeOK
  <2> QED BY <1>11, <2>1, <2>2, RunEnds DEF CompleteError, TypeOK
<1>12. ASSUME NEW w \in Workers, RecordFailure(w) PROVE TypeOK'
  <2>1. DOMAIN queue' \subseteq Posts /\ \A q \in DOMAIN queue' : queue'[q] \in Row
    BY <1>12, FailureFacts DEF TypeOK
  <2> QED BY <1>12, <2>1, RunEnds DEF RecordFailure, TypeOK
<1>13. ASSUME NEW w \in Workers, FailError(w) \/ Crash(w) PROVE TypeOK'
  <2>1. faults' \in 0..MaxFaults /\ Exit(w) /\ UNCHANGED db
    BY <1>a, <1>13 DEF FailError, Crash, TypeOK
  <2> QED BY <2>1, RunEnds DEF TypeOK, db
<1>14. ASSUME NEW w \in Workers, NEW j \in result[w], Upsert(w, j) PROVE TypeOK'
  BY <1>14 DEF Upsert, TypeOK, db
<1>15. ASSUME NEW w \in Workers, DeadlockAbort(w) PROVE TypeOK'
  <2>1. \A u \in Workers : First(u) \subseteq Identities
    BY DEF First, Rest, TypeOK
  <2>2. \E u \in Workers : \E j \in First(u) :
          written' = [written EXCEPT ![w] = {}, ![u] = @ \cup {j}]
    BY <1>15, AbortFacts
  <2>3. written' \in [Workers -> SUBSET Identities]
    BY <2>1, <2>2 DEF TypeOK
  <2>4. "idle" \in Steps /\ 0 \in 0..Lease
    BY TelegramAssumption DEF Steps
  <2> QED BY <1>15, <2>3, <2>4 DEF DeadlockAbort, Leave, TypeOK, db
<1>16. CASE UNCHANGED vars
  BY <1>16 DEF vars, TypeOK
<1> QED BY <1>1, <1>2, <1>3, <1>4, <1>6, <1>7, <1>8, <1>10, <1>11, <1>12, <1>13, <1>14,
          <1>15, <1>16
   DEF Next, RunStep, Fault

-----------------------------------------------------------------------------
(* Rows are never deleted, marks are never taken back, and a settled row   *)
(* is leased by nobody.                                                    *)
LEMMA RowStep ==
  ASSUME TypeOK, HandsKnown, FailedInv, [Next]_vars
  PROVE  \A p \in DOMAIN queue :
           /\ p \in DOMAIN queue'
           /\ queue[p].extracted => queue'[p].extracted
           /\ queue[p].failed => queue'[p].failed
           /\ queue'[p].failed => queue'[p].attempts >= MaxAttempts
           /\ queue[p].extracted \/ queue[p].failed => queue'[p].lease <= queue[p].lease
<1> DEFINE Kept(p) ==
             /\ p \in DOMAIN queue'
             /\ queue[p].extracted => queue'[p].extracted
             /\ queue[p].failed => queue'[p].failed
             /\ queue'[p].failed => queue'[p].attempts >= MaxAttempts
             /\ queue[p].extracted \/ queue[p].failed => queue'[p].lease <= queue[p].lease
<1> SUFFICES ASSUME NEW p \in DOMAIN queue PROVE Kept(p)
  OBVIOUS
<1>a. /\ queue[p] \in Row /\ queue[p].lease \in 0..Lease /\ queue[p].lease <= queue[p].lease
      /\ queue[p].failed => queue[p].attempts >= MaxAttempts
      /\ queue[p].attempts \in Nat /\ MaxAttempts \in Nat
  BY TelegramAssumption DEF TypeOK, Row, FailedInv
<1>b. ASSUME p \in DOMAIN queue', queue'[p] = queue[p] PROVE Kept(p)
  BY <1>a, <1>b
<1>1. CASE UNCHANGED queue
  BY <1>b, <1>1
<1>2. ASSUME NEW q \in Posts, Insert(q) PROVE p \in DOMAIN queue' /\ queue'[p] = queue[p]
  BY <1>2, Inserted
<1>3. CASE Tick
  <2>1. Less(queue[p].lease) <= queue[p].lease
    BY <1>a, LessFacts
  <2> QED BY <1>a, <1>3, <2>1, Ticked
<1>4. ASSUME NEW w \in Workers, Claim(w)
      PROVE  /\ p \in DOMAIN queue' /\ queue'[p].attempts = queue[p].attempts
             /\ queue'[p].failed = queue[p].failed
             /\ queue'[p].extracted = queue[p].extracted
             /\ queue[p].extracted \/ queue[p].failed => queue'[p] = queue[p]
  BY <1>4, ClaimFacts
<1>5. ASSUME NEW w \in Workers, pc[w] = "write", Commit(w)
      PROVE  /\ p \in DOMAIN queue'
             /\ queue'[p].lease = queue[p].lease /\ queue'[p].attempts = queue[p].attempts
             /\ queue'[p].failed = queue[p].failed
             /\ queue[p].extracted => queue'[p].extracted
  BY <1>5, CommitFacts
<1>6. ASSUME NEW w \in Workers, RecordFailure(w)
      PROVE  /\ p \in DOMAIN queue'
             /\ queue'[p].lease = queue[p].lease
             /\ queue'[p].extracted = queue[p].extracted
             /\ \/ queue'[p] = queue[p]
                \/ /\ queue'[p].attempts = queue[p].attempts + 1
                   /\ queue'[p].failed <=> queue[p].attempts + 1 >= MaxAttempts
  BY <1>6, FailureFacts
<1>7. ASSUME NEW w \in Workers, Claim(w) PROVE Kept(p)
  BY <1>a, <1>4, <1>7
<1>8. ASSUME NEW w \in Workers, pc[w] = "write", Commit(w) PROVE Kept(p)
  BY <1>a, <1>5, <1>8
<1>9. ASSUME NEW w \in Workers, RecordFailure(w) PROVE Kept(p)
  BY <1>a, <1>6, <1>9
<1> QED BY <1>b, <1>1, <1>2, <1>3, <1>7, <1>8, <1>9, QueueWrites

(* Only a crawl adds rows.                                                 *)
LEMMA NewRows ==
  ASSUME TypeOK, [Next]_vars
  PROVE  \A p \in DOMAIN queue' \ DOMAIN queue : queue'[p] = NewRow(p)
<1>1. ASSUME NEW q \in Posts, Insert(q)
      PROVE  \A p \in DOMAIN queue' \ DOMAIN queue : queue'[p] = NewRow(p)
  BY <1>1, Inserted
<1>2. ASSUME DOMAIN queue' = DOMAIN queue
      PROVE  \A p \in DOMAIN queue' \ DOMAIN queue : queue'[p] = NewRow(p)
  BY <1>2
<1>3. CASE UNCHANGED queue
  BY <1>3
<1>4. CASE Tick
  BY <1>4 DEF Tick
<1>5. ASSUME NEW w \in Workers, Claim(w) PROVE DOMAIN queue' = DOMAIN queue
  BY <1>5, ClaimFacts
<1>6. ASSUME NEW w \in Workers, Commit(w) \/ RecordFailure(w)
      PROVE  DOMAIN queue' = DOMAIN queue
  BY <1>6 DEF Commit, RecordFailure
<1> QED BY <1>1, <1>2, <1>3, <1>4, <1>5, <1>6, QueueWrites

LEMMA FailedStep ==
  ASSUME TypeOK, HandsKnown, FailedInv, [Next]_vars
  PROVE  FailedInv'
<1>1. \A p \in DOMAIN queue : queue'[p].failed => queue'[p].attempts >= MaxAttempts
  BY RowStep
<1> QED BY <1>1, NewRows, NewRowFacts DEF FailedInv

-----------------------------------------------------------------------------
(* Who has what in hand.                                                   *)

HandsInv == HandsKnown /\ LeaseCovers /\ LeaseExclusive

(* A step that takes nothing into hands and lets no lease in the table run *)
(* out before that of its holder.                                          *)
LEMMA HandsQuiet ==
  ASSUME TypeOK, TypeOK', HandsInv,
         \A u \in Workers : Hands(u)' \subseteq Hands(u) /\ held'[u] <= held[u],
         \A p \in DOMAIN queue :
           /\ p \in DOMAIN queue'
           /\ \A u \in Workers : held'[u] > 0 /\ queue[p].lease >= held[u]
                                    => queue'[p].lease >= held'[u]
  PROVE  HandsInv'
<1>0. \A u \in Workers : held[u] \in Nat /\ held'[u] \in Nat
  BY TelegramAssumption DEF TypeOK
<1>1. HandsKnown'
  BY DEF HandsInv, HandsKnown
<1>2. LeaseCovers'
  <2> SUFFICES ASSUME NEW u \in Workers, NEW p \in Hands(u)', held'[u] > 0
               PROVE  queue'[p].lease >= held'[u]
    BY DEF LeaseCovers
  <2>1. p \in Hands(u) /\ p \in DOMAIN queue /\ held[u] > 0
    BY <1>0 DEF HandsInv, HandsKnown
  <2> QED BY <2>1 DEF HandsInv, LeaseCovers
<1>3. LeaseExclusive'
  <2> SUFFICES ASSUME NEW u \in Workers, NEW w \in Workers, u # w,
                      held'[u] > 0, held'[w] > 0
               PROVE  Hands(u)' \cap Hands(w)' = {}
    BY DEF LeaseExclusive
  <2>1. held[u] > 0 /\ held[w] > 0
    BY <1>0
  <2> QED BY <2>1 DEF HandsInv, LeaseExclusive
<1> QED BY <1>1, <1>2, <1>3 DEF HandsInv

(* A claim takes rows whose lease has run out, so no run whose own lease   *)
(* still runs has any of them in hand.                                     *)
LEMMA HandsClaim ==
  ASSUME TypeOK, TypeOK', HandsInv, NEW w \in Workers, Claim(w)
  PROVE  HandsInv'
<1>0. Lease \in Nat /\ Lease > 0 /\ \A u \in Workers : held[u] \in Nat
  BY TelegramAssumption DEF TypeOK
<1>1. PICK S \in SUBSET DOMAIN queue :
        /\ batch' = [batch EXCEPT ![w] = S]
        /\ \A p \in S : queue[p].lease = 0 /\ queue'[p].lease = Lease
        /\ \A p \in DOMAIN queue \ S : queue'[p] = queue[p]
  BY ClaimFacts
<1>2. DOMAIN queue' = DOMAIN queue
  BY ClaimFacts
<1>3. /\ \A u \in Workers \ {w} : Hands(u)' = Hands(u) /\ held'[u] = held[u]
      /\ Hands(w)' = S /\ held'[w] = Lease
  BY <1>1 DEF Claim, Hands, Working, TypeOK
(* No other running lease covers a claimed row.                            *)
<1>4. ASSUME NEW u \in Workers \ {w}, held[u] > 0 PROVE Hands(u) \cap S = {}
  BY <1>0, <1>1, <1>4 DEF HandsInv, LeaseCovers
<1>5. HandsKnown'
  BY <1>2, <1>3 DEF HandsInv, HandsKnown
<1>6. LeaseCovers'
  <2> SUFFICES ASSUME NEW u \in Workers, NEW p \in Hands(u)', held'[u] > 0
               PROVE  queue'[p].lease >= held'[u]
    BY DEF LeaseCovers
  <2>1. CASE u = w
    BY <2>1, <1>0, <1>1, <1>3
  <2>2. CASE u # w
    <3>1. p \in Hands(u) /\ held[u] > 0 /\ p \in DOMAIN queue
      BY <2>2, <1>3 DEF HandsInv, HandsKnown
    <3>2. p \notin S
      BY <2>2, <3>1, <1>4
    <3> QED BY <2>2, <3>1, <3>2, <1>1, <1>3 DEF HandsInv, LeaseCovers
  <2> QED BY <2>1, <2>2
<1>7. LeaseExclusive'
  <2> SUFFICES ASSUME NEW u \in Workers, NEW x \in Workers, u # x,
                      held'[u] > 0, held'[x] > 0
               PROVE  Hands(u)' \cap Hands(x)' = {}
    BY DEF LeaseExclusive
  <2>1. CASE u # w /\ x # w
    BY <2>1, <1>3 DEF HandsInv, LeaseExclusive
  <2>2. CASE u = w
    BY <2>2, <1>3, <1>4
  <2>3. CASE x = w
    BY <2>3, <1>3, <1>4
  <2> QED BY <2>1, <2>2, <2>3
<1> QED BY <1>5, <1>6, <1>7 DEF HandsInv

LEMMA HandsStep ==
  ASSUME TypeOK, TypeOK', HandsInv, [Next]_vars
  PROVE  HandsInv'
<1>a. /\ HandsKnown
      /\ \A u \in Workers : held[u] \in Nat
      /\ \A p \in DOMAIN queue : queue[p].lease \in Nat
  BY TelegramAssumption DEF HandsInv, TypeOK, Row
(* What remains to be shown of a step that leaves the leases of rows alone.*)
<1>b. ASSUME \A u \in Workers : /\ Hands(u)' \subseteq Hands(u)
                                /\ held'[u] = held[u] \/ held'[u] = 0,
             \A p \in DOMAIN queue : p \in DOMAIN queue' /\ queue'[p].lease = queue[p].lease
      PROVE  HandsInv'
  <2>1. \A u \in Workers : Hands(u)' \subseteq Hands(u) /\ held'[u] <= held[u]
    BY <1>a, <1>b
  <2>2. \A p \in DOMAIN queue :
          /\ p \in DOMAIN queue'
          /\ \A u \in Workers : held'[u] > 0 /\ queue[p].lease >= held[u]
                                   => queue'[p].lease >= held'[u]
    BY <1>a, <1>b
  <2> QED BY <2>1, <2>2, HandsQuiet
<1>1. ASSUME NEW p \in Posts, Insert(p) PROVE HandsInv'
  <2>1. \A q \in DOMAIN queue : q \in DOMAIN queue' /\ queue'[q] = queue[q]
    BY <1>1, Inserted
  <2>2. \A u \in Workers : Hands(u)' = Hands(u) /\ held'[u] = held[u]
    BY <1>1 DEF Insert, Hands, hands
  <2> QED BY <2>1, <2>2, <1>b
<1>2. CASE Tick
  <2>1. \A u \in Workers : Hands(u)' = Hands(u) /\ held'[u] = Less(held[u])
    BY <1>2 DEF Tick, Hands
  <2>2. \A p \in DOMAIN queue : p \in DOMAIN queue' /\ queue'[p].lease = Less(queue[p].lease)
    BY <1>2, Ticked
  <2>3. \A u \in Workers : Hands(u)' \subseteq Hands(u) /\ held'[u] <= held[u]
    BY <2>1, <1>a, LessFacts DEF TypeOK
  <2>4. \A p \in DOMAIN queue :
          /\ p \in DOMAIN queue'
          /\ \A u \in Workers : held'[u] > 0 /\ queue[p].lease >= held[u]
                                   => queue'[p].lease >= held'[u]
    BY <2>1, <2>2, <1>a, LessMono
  <2> QED BY <2>3, <2>4, HandsQuiet
<1>3. ASSUME NEW w \in Workers, Claim(w) PROVE HandsInv'
  BY <1>3, HandsClaim
<1>4. ASSUME NEW w \in Workers,
             \/ Take(w) \/ ResolveLinks(w) \/ Extract(w) \/ NoExtraction(w)
             \/ \E j \in result[w] : Upsert(w, j)
             \/ Complete(w) \/ DeadlockAbort(w) \/ RecordFailure(w) \/ Fault(w)
      PROVE  HandsInv'
  <2>1. \A u \in Workers : /\ Hands(u)' \subseteq Hands(u)
                           /\ held'[u] = held[u] \/ held'[u] = 0
    BY <1>4, HandsFacts
  <2>2. \/ UNCHANGED queue
        \/ pc[w] = "write" /\ Commit(w)
        \/ RecordFailure(w)
    BY <1>4 DEF Fault, Take, ResolveLinks, Extract, NoExtraction, Hang, Upsert, Complete,
                CompleteError, DeadlockAbort, FailError, Crash, db
  <2>3. ASSUME pc[w] = "write", Commit(w)
        PROVE  \A p \in DOMAIN queue : p \in DOMAIN queue' /\ queue'[p].lease = queue[p].lease
    BY <1>a, <2>3, CommitFacts
  <2>4. ASSUME RecordFailure(w)
        PROVE  \A p \in DOMAIN queue : p \in DOMAIN queue' /\ queue'[p].lease = queue[p].lease
    BY <1>a, <2>4, FailureFacts
  <2>5. \A p \in DOMAIN queue : p \in DOMAIN queue' /\ queue'[p].lease = queue[p].lease
    BY <2>2, <2>3, <2>4
  <2> QED BY <2>1, <2>5, <1>b
<1>5. CASE UNCHANGED vars
  BY <1>5, <1>b DEF vars, Hands
<1> QED BY <1>1, <1>2, <1>3, <1>4, <1>5 DEF Next, RunStep

-----------------------------------------------------------------------------
(* What is written.                                                        *)

LEMMA WrittenStep ==
  ASSUME TypeOK, WrittenInv, [Next]_vars
  PROVE  WrittenInv'
<1>1. ASSUME NEW w \in Workers, NEW j \in result[w], Upsert(w, j) PROVE WrittenInv'
  BY <1>1 DEF Upsert, First, Rest, WrittenInv, TypeOK
<1>2. ASSUME NEW w \in Workers, ResolveLinks(w) \/ Extract(w) PROVE WrittenInv'
  BY <1>2 DEF ResolveLinks, Extract, WrittenInv, TypeOK
<1>3. ASSUME NEW w \in Workers, Done(w) \/ Exit(w) PROVE WrittenInv'
  BY <1>3 DEF Done, Exit, Leave, WrittenInv, TypeOK
<1>4. ASSUME NEW w \in Workers, pc[w] # "write", result' = result, written' = written,
             \A u \in Workers \ {w} : pc'[u] = pc[u]
      PROVE  WrittenInv'
  BY <1>4 DEF WrittenInv
<1>5. ASSUME NEW w \in Workers, Claim(w) \/ Take(w) \/ NoExtraction(w) \/ Hang(w)
      PROVE  WrittenInv'
  <2>1. /\ pc[w] # "write" /\ result' = result /\ written' = written
        /\ \A u \in Workers \ {w} : pc'[u] = pc[u]
    BY <1>5 DEF Claim, Take, NoExtraction, Hang, hands, TypeOK
  <2> QED BY <2>1, <1>4
<1>6. ASSUME pc' = pc, result' = result, written' = written PROVE WrittenInv'
  BY <1>6 DEF WrittenInv
<1>7. ASSUME NEW w \in Workers, DeadlockAbort(w) PROVE WrittenInv'
  <2>1. \A u \in Workers : First(u) \subseteq result[u]
    BY DEF First, Rest
  <2>2. PICK u \in Workers \ {w} :
          /\ pc[u] = "write"
          /\ \E j \in First(u) : written' = [written EXCEPT ![w] = {}, ![u] = @ \cup {j}]
    BY <1>7, AbortFacts
  <2>3. /\ pc' = [pc EXCEPT ![w] = "idle"]
        /\ result' = [result EXCEPT ![w] = {}]
    BY <1>7 DEF DeadlockAbort, Leave
  <2> QED BY <2>1, <2>2, <2>3 DEF WrittenInv, TypeOK
<1>8. \/ pc' = pc /\ result' = result /\ written' = written
      \/ \E w \in Workers :
           \/ ResolveLinks(w) \/ Extract(w) \/ Claim(w) \/ Take(w) \/ NoExtraction(w)
           \/ Hang(w) \/ Done(w) \/ Exit(w) \/ DeadlockAbort(w)
           \/ \E j \in result[w] : Upsert(w, j)
  BY DEF Next, RunStep, Fault, Insert, Tick, Complete, CompleteError,
         RecordFailure, FailError, Crash, hands, vars
<1> QED BY <1>1, <1>2, <1>3, <1>5, <1>6, <1>7, <1>8

(* A commit puts the whole of what was found into the catalogue.           *)
LEMMA CommitWhole ==
  ASSUME TypeOK, HandsKnown, WrittenInv, NEW w \in Workers, pc[w] = "write", Commit(w)
  PROVE  /\ queue'[post[w]].extracted
         /\ result[w] \subseteq jobs' /\ jobs' \subseteq jobs \cup result[w]
         /\ \A p \in DOMAIN queue \ {post[w]} : ~Extracts(p)
<1>1. result[w] = written[w] /\ jobs' = jobs \cup written[w]
  BY DEF Commit, Rest, WrittenInv
<1>2. \A p \in DOMAIN queue \ {post[w]} : queue'[p] = queue[p]
  BY CommitFacts
<1>3. queue'[post[w]].extracted
  BY CommitFacts
<1> QED BY <1>1, <1>2, <1>3 DEF Extracts

(* No other step writes a vacancy or marks a stored post.                  *)
LEMMA OnlyCommits ==
  ASSUME TypeOK, HandsKnown, [Next]_vars,
         ~\E w \in Workers : pc[w] = "write" /\ Commit(w)
  PROVE  jobs' = jobs /\ \A p \in DOMAIN queue : ~Extracts(p)
<1>1. jobs' = jobs
  BY DEF Next, RunStep, Fault, Insert, Tick, Claim, Take, ResolveLinks, Extract, NoExtraction,
         Hang, Upsert, Complete, CompleteError, DeadlockAbort, RecordFailure, FailError,
         Crash, db, vars
<1> SUFFICES ASSUME NEW p \in DOMAIN queue
             PROVE  queue[p].extracted \/ ~queue'[p].extracted
  BY <1>1 DEF Extracts
<1>2. ASSUME NEW q \in Posts, Insert(q) PROVE queue'[p] = queue[p]
  BY <1>2, Inserted
<1>3. CASE Tick
  BY <1>3, Ticked
<1>4. ASSUME NEW w \in Workers, Claim(w) PROVE queue'[p].extracted = queue[p].extracted
  BY <1>4, ClaimFacts
<1>5. ASSUME NEW w \in Workers, RecordFailure(w)
      PROVE  queue'[p].extracted = queue[p].extracted
  BY <1>5, FailureFacts
<1> QED BY <1>2, <1>3, <1>4, <1>5, QueueWrites

-----------------------------------------------------------------------------
(* Claims, crashes, errors and crawls in any order keep every post that is *)
(* being worked on stored, leased and unmarked until it is written.        *)
THEOREM InvariantCorrect == Spec => []IInv
<1>1. Init => IInv
  BY TelegramAssumption
     DEF Init, IInv, TypeOK, Steps, HandsKnown, Hands, Working, WrittenInv, FailedInv,
         LeaseCovers, LeaseExclusive
<1>2. IInv /\ [Next]_vars => IInv'
  <2> SUFFICES ASSUME IInv, [Next]_vars PROVE IInv'
    OBVIOUS
  <2>1. TypeOK'
    BY TypeStep DEF IInv
  <2>2. HandsInv'
    BY <2>1, HandsStep DEF IInv, HandsInv
  <2> QED BY <2>1, <2>2, WrittenStep, FailedStep DEF IInv, HandsInv
<1> QED BY <1>1, <1>2, PTL DEF Spec

(* Every statement of the crawl and of the runs keeps the rows well formed,*)
(* and a run works on posts only.                                          *)
THEOREM TypeCorrect == Spec => []TypeOK
<1>1. IInv => TypeOK
  BY DEF IInv
<1> QED BY <1>1, InvariantCorrect, PTL

(* Vacancies and marks become visible only by the commit of a transaction  *)
(* that has upserted all the run had found in the one post it marks: no    *)
(* crash, lost acknowledgement, wait or deadlock leaves half of them.      *)
THEOREM PostsPersistedWhole == Spec => PersistedWhole
<1> DEFINE Fine ==
      (jobs' # jobs \/ \E p \in DOMAIN queue : Extracts(p)) =>
         \E w \in Workers :
           /\ pc[w] = "write" /\ queue'[post[w]].extracted
           /\ result[w] \subseteq jobs' /\ jobs' \subseteq jobs \cup result[w]
           /\ \A p \in DOMAIN queue \ {post[w]} : ~Extracts(p)
<1>1. IInv /\ [Next]_vars => [Fine]_db
  <2> SUFFICES ASSUME IInv, [Next]_vars PROVE Fine
    BY DEF db
  <2>1. ASSUME NEW w \in Workers, pc[w] = "write", Commit(w) PROVE Fine
    BY <2>1, CommitWhole DEF IInv
  <2>2. CASE ~\E w \in Workers : pc[w] = "write" /\ Commit(w)
    BY <2>2, OnlyCommits DEF IInv
  <2> QED BY <2>1, <2>2
<1> QED BY <1>1, InvariantCorrect, PTL DEF Spec, PersistedWhole

(* Two runs whose leases still run have no post in common: the claim skips *)
(* what is leased, and no other statement moves claimed_at.                *)
THEOREM LeasesExclude == Spec => []LeaseExclusive
<1>1. IInv => LeaseExclusive
  BY DEF IInv
<1> QED BY <1>1, InvariantCorrect, PTL

(* extracted_at and failed_at are never taken back, and a row with one of  *)
(* them is not leased again.                                               *)
THEOREM SettledStays == Spec => SettledIsFinal
<1> DEFINE Fine == \A p \in DOMAIN queue : queue[p].extracted \/ queue[p].failed =>
                     /\ p \in DOMAIN queue'
                     /\ queue[p].extracted => queue'[p].extracted
                     /\ queue[p].failed => queue'[p].failed
                     /\ queue'[p].lease <= queue[p].lease
<1>1. IInv /\ [Next]_vars => [Fine]_queue
  BY RowStep DEF IInv
<1> QED BY <1>1, InvariantCorrect, PTL DEF Spec, SettledIsFinal

-----------------------------------------------------------------------------
(* The queue implements WorkQueue.                                         *)

(* The row of one post at most changes its phase in a step.                *)
LEMMA OneRowMoves ==
  ASSUME TypeOK, HandsKnown, [Next]_vars
  PROVE  \E p : \A q \in Posts \ {p} :
           /\ q \in DOMAIN queue <=> q \in DOMAIN queue'
           /\ q \in DOMAIN queue => /\ queue'[q].extracted = queue[q].extracted
                                    /\ queue'[q].failed = queue[q].failed
<1> DEFINE Still(p) == \A q \in Posts \ {p} :
             /\ q \in DOMAIN queue <=> q \in DOMAIN queue'
             /\ q \in DOMAIN queue => /\ queue'[q].extracted = queue[q].extracted
                                      /\ queue'[q].failed = queue[q].failed
<1>1. ASSUME NEW p \in Posts, Insert(p) PROVE Still(p)
  BY <1>1, Inserted
<1>2. ASSUME Tick PROVE Still(NoPost)
  BY <1>2, Ticked
<1>3. ASSUME NEW w \in Workers, Claim(w) PROVE Still(NoPost)
  BY <1>3, ClaimFacts
<1>4. ASSUME NEW w \in Workers, pc[w] = "write", Commit(w) PROVE Still(post[w])
  BY <1>4, CommitFacts
<1>5. ASSUME NEW w \in Workers, RecordFailure(w) PROVE Still(post[w])
  BY <1>5, FailureFacts
<1>6. ASSUME UNCHANGED queue PROVE Still(NoPost)
  BY <1>6
<1> HIDE DEF Still
<1>7. \E p : Still(p)
  BY <1>1, <1>2, <1>3, <1>4, <1>5, <1>6, QueueWrites
<1> QED BY <1>7 DEF Still

(* A post moves the way an item of WorkQueue may.                          *)
LEMMA PhaseMoves ==
  ASSUME TypeOK, HandsKnown, FailedInv, [Next]_vars, NEW p \in Posts
  PROVE  \/ Phase(p)' = Phase(p)
         \/ Phase(p) = "absent" /\ Phase(p)' = "queued"
         \/ Phase(p) \in {"absent", "queued", "dead"} /\ Phase(p)' = "done"
         \/ Phase(p) = "queued" /\ Phase(p)' = "dead"
<1>1. CASE p \in DOMAIN queue
  <2>1. /\ p \in DOMAIN queue'
        /\ queue[p].extracted => queue'[p].extracted
        /\ queue[p].failed => queue'[p].failed
    BY <1>1, RowStep
  <2>2. Phase(p) = IF queue[p].extracted THEN "done"
                   ELSE IF queue[p].failed THEN "dead" ELSE "queued"
    BY <1>1 DEF Phase
  <2>3. Phase(p)' = IF queue'[p].extracted THEN "done"
                    ELSE IF queue'[p].failed THEN "dead" ELSE "queued"
    BY <2>1 DEF Phase
  <2> QED BY <2>1, <2>2, <2>3
<1>2. CASE p \notin DOMAIN queue /\ p \in DOMAIN queue'
  <2>1. Phase(p) = "absent"
    BY <1>2 DEF Phase
  <2>2. ~queue'[p].failed
    BY <1>2, NewRows, NewRowFacts
  <2>3. Phase(p)' \in {"queued", "done"}
    BY <1>2, <2>2 DEF Phase
  <2> QED BY <2>1, <2>3
<1>3. CASE p \notin DOMAIN queue /\ p \notin DOMAIN queue'
  BY <1>3 DEF Phase
<1> QED BY <1>1, <1>2, <1>3

(* What is stored stays stored, an extracted post is extracted for good,   *)
(* and nothing comes back from the dead but by being extracted after all.  *)
THEOREM ImplementsWorkQueue == Spec => Promise!Safe
<1> DEFINE phase == [p \in Posts |-> Phase(p)]
<1>1. Init => Promise!Init
  <2> SUFFICES ASSUME Init PROVE Promise!Init
    OBVIOUS
  <2>1. \A p \in Posts : Phase(p) = "absent"
    BY DEF Init, Phase
  <2> QED BY <2>1 DEF Promise!Init
<1>2. IInv /\ [Next]_vars => [Promise!Next]_phase
  <2> SUFFICES ASSUME IInv, [Next]_vars, phase' # phase PROVE Promise!Next
    OBVIOUS
  <2>1. PICK p : \A q \in Posts \ {p} :
          /\ q \in DOMAIN queue <=> q \in DOMAIN queue'
          /\ q \in DOMAIN queue => /\ queue'[q].extracted = queue[q].extracted
                                   /\ queue'[q].failed = queue[q].failed
    BY OneRowMoves DEF IInv
  <2>2. \A q \in Posts \ {p} : Phase(q)' = Phase(q)
    BY <2>1 DEF Phase
  <2>3. p \in Posts /\ Phase(p)' # Phase(p)
    BY <2>2
  <2> DEFINE next == Phase(p)'
  <2>4. phase' = [phase EXCEPT ![p] = next]
    <3>1. next = Phase(p)'
      OBVIOUS
    <3> HIDE DEF next
    <3>2. \A q \in Posts : Phase(q)' = IF q = p THEN next ELSE Phase(q)
      BY <2>2, <3>1
    <3> QED BY <3>2
  <2>5. phase[p] = Phase(p)
    BY <2>3
  <2>6. \/ Phase(p) = "absent" /\ Phase(p)' = "queued"
        \/ Phase(p) \in {"absent", "queued", "dead"} /\ Phase(p)' = "done"
        \/ Phase(p) = "queued" /\ Phase(p)' = "dead"
    BY <2>3, PhaseMoves DEF IInv
  <2>7. CASE Phase(p) = "absent" /\ Phase(p)' = "queued"
    <3>1. {p} \in SUBSET {i \in Posts : phase[i] \in {"absent", "waiting", "dead"}}
      BY <2>3, <2>7
    <3>2. phase' = [i \in Posts |-> IF i \in {p} THEN "queued" ELSE phase[i]]
      BY <2>2, <2>7
    <3>3. Promise!Queue
      BY <3>1, <3>2 DEF Promise!Queue
    <3> QED BY <3>3 DEF Promise!Next
  <2>8. CASE Phase(p) \in {"absent", "queued", "dead"} /\ Phase(p)' = "done"
    BY <2>3, <2>4, <2>5, <2>8 DEF Promise!Next, Promise!Finish, Promise!Move
  <2>9. CASE Phase(p) = "queued" /\ Phase(p)' = "dead"
    BY <2>3, <2>4, <2>5, <2>9 DEF Promise!Next, Promise!GiveUp, Promise!Move
  <2> QED BY <2>6, <2>7, <2>8, <2>9
<1> QED BY <1>1, <1>2, InvariantCorrect, PTL DEF Spec, Promise!Safe

=============================================================================
