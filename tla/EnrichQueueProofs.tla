-------------------------- MODULE EnrichQueueProofs --------------------------
(***************************************************************************)
(* Proofs about EnrichQueue, for any number of jobs and runs and any value *)
(* of the batch size, the lease, the attempt limit and the bounds.         *)
(***************************************************************************)
EXTENDS EnrichQueue, FiniteSetTheorems, TLAPS

(* What is new in an insert lies above every id handed out so far, every   *)
(* older row is kept as it was, and every requested job ends up with a row.*)
LEMMA InsertFacts ==
  ASSUME TypeOK, NEW J \in SUBSET Jobs, NEW v \in Versions, Insert(J, v)
  PROVE  /\ lastId' \in 0..MaxId /\ lastId <= lastId'
         /\ DOMAIN outbox \subseteq DOMAIN outbox'
         /\ DOMAIN outbox' \subseteq 1..lastId'
         /\ \A i \in DOMAIN outbox : outbox'[i] = outbox[i]
         /\ \A i \in DOMAIN outbox' \ DOMAIN outbox :
              /\ i > lastId
              /\ \E j \in J : outbox'[i] = NewRow(j, v)
         /\ \A j \in J : \E i \in DOMAIN outbox' : outbox'[i].job = j
<1> DEFINE new == {j \in J : ~Queued(j, v)}
           fresh == (lastId + 1)..(lastId + Cardinality(new))
<1>1. Cardinality(new) \in Nat
  <2>1. IsFiniteSet(new)
    BY ConstantsAssumption, FS_Subset
  <2> QED BY <2>1, FS_CardinalityType
<1>2. /\ lastId + Cardinality(new) <= MaxId
      /\ lastId' = lastId + Cardinality(new)
      /\ \E job \in [fresh -> new] :
          /\ \A j \in new : \E i \in fresh : job[i] = j
          /\ outbox' = [i \in DOMAIN outbox \cup fresh |->
                          IF i \in fresh THEN NewRow(job[i], v) ELSE outbox[i]]
  BY DEF Insert
<1>3. PICK job \in [fresh -> new] :
          /\ \A j \in new : \E i \in fresh : job[i] = j
          /\ outbox' = [i \in DOMAIN outbox \cup fresh |->
                          IF i \in fresh THEN NewRow(job[i], v) ELSE outbox[i]]
  BY <1>2
<1> HIDE DEF new
<1>4. lastId \in Nat /\ DOMAIN outbox \subseteq 1..lastId /\ MaxId \in Nat
  BY ConstantsAssumption DEF TypeOK
<1>5. DOMAIN outbox \cap fresh = {}
  BY <1>1, <1>4
<1>6. DOMAIN outbox' = DOMAIN outbox \cup fresh
  BY <1>3
<1>7. lastId' \in 0..MaxId /\ lastId <= lastId' /\ DOMAIN outbox' \subseteq 1..lastId'
  BY <1>1, <1>2, <1>4, <1>6
<1>8. \A i \in DOMAIN outbox : outbox'[i] = outbox[i]
  BY <1>3, <1>5
<1>9. \A i \in DOMAIN outbox' \ DOMAIN outbox :
        /\ i > lastId
        /\ \E j \in J : outbox'[i] = NewRow(j, v)
  <2> SUFFICES ASSUME NEW i \in fresh
               PROVE  i > lastId /\ \E j \in J : outbox'[i] = NewRow(j, v)
    BY <1>6
  <2>1. job[i] \in J
    BY <1>3 DEF new
  <2> QED BY <2>1, <1>1, <1>3, <1>4
<1>10. ASSUME NEW j \in J
       PROVE  \E i \in DOMAIN outbox' : outbox'[i].job = j
  <2>1. CASE Queued(j, v)
    BY <2>1, <1>6, <1>8 DEF Queued
  <2>2. CASE ~Queued(j, v)
    <3>1. PICK i \in fresh : job[i] = j
      BY <2>2, <1>3 DEF new
    <3>2. outbox'[i] = NewRow(j, v)
      BY <3>1, <1>3
    <3> QED BY <3>1, <3>2, <1>6 DEF NewRow
  <2> QED BY <2>1, <2>2
<1> QED BY <1>6, <1>7, <1>8, <1>9, <1>10

LEMMA NewRowType == \A j \in Jobs, v \in Versions : NewRow(j, v) \in Row
  BY ConstantsAssumption DEF NewRow, Row

LEMMA LessType == \A n \in 0..Lease : Less(n) \in 0..Lease /\ Less(n) <= n
  BY ConstantsAssumption DEF Less

(* What the updates of a row change.                                       *)
LEMMA AgedRow ==
  ASSUME NEW r \in Row, NEW n \in 0..Lease
  PROVE  /\ [r EXCEPT !.lease = n] \in Row
         /\ [r EXCEPT !.lease = n].job = r.job
         /\ [r EXCEPT !.lease = n].target = r.target
         /\ [r EXCEPT !.lease = n].attempts = r.attempts
         /\ [r EXCEPT !.lease = n].failed = r.failed
         /\ [r EXCEPT !.lease = n].lease = n
  BY DEF Row

LEMMA CountedRow ==
  ASSUME NEW r \in Row
  PROVE  /\ CountFailure(r) \in Row
         /\ CountFailure(r).job = r.job
         /\ CountFailure(r).target = r.target
         /\ CountFailure(r).attempts = r.attempts + 1
         /\ CountFailure(r).failed <=> r.attempts + 1 >= MaxAttempts
         /\ CountFailure(r).lease = r.lease
<1> DEFINE dead == r.attempts + 1 >= MaxAttempts
<1>1. dead \in BOOLEAN /\ r.attempts \in Nat
  BY DEF Row
<1>2. CountFailure(r) = [r EXCEPT !.attempts = r.attempts + 1, !.failed = dead]
  BY DEF CountFailure
<1> HIDE DEF dead
<1>4. CountFailure(r) \in Row
  <2>1. PICK j \in Jobs, t \in Versions, a \in Nat, f \in BOOLEAN, l \in 0..Lease :
          r = [job |-> j, target |-> t, attempts |-> a, failed |-> f, lease |-> l]
    BY Zenon DEF Row
  <2>2. CountFailure(r) = [job |-> j, target |-> t, attempts |-> r.attempts + 1,
                           failed |-> dead, lease |-> l]
    BY <1>2, <2>1
  <2>3. r.attempts + 1 \in Nat
    BY <1>1
  <2>4. \A a2 \in Nat, f2 \in BOOLEAN :
          [job |-> j, target |-> t, attempts |-> a2, failed |-> f2, lease |-> l] \in Row
    BY <2>1 DEF Row
  <2> QED BY <1>1, <2>2, <2>3, <2>4, Zenon
<1>3. /\ CountFailure(r).job = r.job
      /\ CountFailure(r).target = r.target
      /\ CountFailure(r).attempts = r.attempts + 1
      /\ CountFailure(r).failed = dead
      /\ CountFailure(r).lease = r.lease
  BY <1>1, <1>2 DEF Row
<1> QED BY <1>3, <1>4 DEF dead

LEMMA InsertType ==
  ASSUME TypeOK, NEW J \in SUBSET Jobs, NEW v \in Versions, Insert(J, v)
  PROVE  /\ lastId' \in 0..MaxId
         /\ DOMAIN outbox' \subseteq 1..lastId'
         /\ \A i \in DOMAIN outbox' : outbox'[i] \in Row
<1>1. \A i \in DOMAIN outbox : outbox[i] \in Row
  BY DEF TypeOK
<1>2. /\ lastId' \in 0..MaxId
      /\ DOMAIN outbox' \subseteq 1..lastId'
      /\ \A i \in DOMAIN outbox : outbox'[i] = outbox[i]
      /\ \A i \in DOMAIN outbox' \ DOMAIN outbox :
           \E j \in J : outbox'[i] = NewRow(j, v)
  BY InsertFacts
<1> QED BY <1>1, <1>2, NewRowType

(* A claim in hand while the run works on an entry.                        *)
LEMMA EntryType ==
  ASSUME TypeOK, NEW w \in Workers, pc[w] \in Working
  PROVE  /\ entry[w] \in Claimed
         /\ entry[w].id \in Ids /\ entry[w].job \in Jobs /\ entry[w].target \in Versions
  BY DEF TypeOK, Claimed

(* Type correctness: every step keeps the tables and the runs well formed. *)
THEOREM TypeCorrect == Spec => []TypeOK
<1>1. Init => TypeOK
  BY ConstantsAssumption DEF Init, TypeOK, Versions, Steps, Working, NoEntry, Claimed
<1>2. TypeOK /\ [Next]_vars => TypeOK'
  <2> SUFFICES ASSUME TypeOK, [Next]_vars PROVE TypeOK'
    OBVIOUS
  <2>0. /\ Lease \in Nat \ {0} /\ MaxVersion \in Nat \ {0}
        /\ MaxId \in Nat /\ MaxFaults \in Nat /\ MaxAttempts \in Nat \ {0}
    BY ConstantsAssumption
  <2>1. ASSUME NEW j \in Jobs, NEW v \in Versions, Ingest(j, v) PROVE TypeOK'
    <3>1. Insert({x \in {j} : NeedsEnrichment(x, v)}, v)
      BY <2>1 DEF Ingest
    <3>2. /\ lastId' \in 0..MaxId
          /\ DOMAIN outbox' \subseteq 1..lastId'
          /\ \A i \in DOMAIN outbox' : outbox'[i] \in Row
      BY <3>1, InsertType
    <3> QED BY <2>1, <3>2 DEF Ingest, TypeOK, run
  <2>2. CASE Deploy
    BY <2>2, <2>0 DEF Deploy, TypeOK, Versions, db, run
  <2>3. CASE Tick
    <3>1. /\ DOMAIN outbox' = DOMAIN outbox
          /\ \A i \in DOMAIN outbox : outbox'[i] \in Row
      BY <2>3, LessType, AgedRow DEF Tick, TypeOK, Row
    <3>2. held' \in [Workers -> 0..Lease]
      BY <2>3, LessType DEF Tick, TypeOK
    <3> QED BY <2>3, <3>1, <3>2 DEF Tick, TypeOK
  <2>4. ASSUME NEW w \in Workers, Start(w) PROVE TypeOK'
    BY <2>4 DEF Start, TypeOK, db, Steps, Working
  <2>5. ASSUME NEW w \in Workers, Enqueue(w) PROVE TypeOK'
    <3>1. Insert(pending[w], version[w]) /\ pending[w] \in SUBSET Jobs /\ version[w] \in Versions
      BY <2>5 DEF Enqueue, TypeOK
    <3>2. /\ lastId' \in 0..MaxId
          /\ DOMAIN outbox' \subseteq 1..lastId'
          /\ \A i \in DOMAIN outbox' : outbox'[i] \in Row
      BY <3>1, InsertType
    <3>3. 1 \in Versions
      BY <2>0 DEF Versions
    <3> QED BY <2>5, <3>2, <3>3 DEF Enqueue, TypeOK, Steps, Working
  <2>6. ASSUME NEW w \in Workers, Claim(w) PROVE TypeOK'
    <3>1. PICK S \in SUBSET Claimable :
            /\ outbox' = [i \in DOMAIN outbox |->
                            IF i \in S THEN [outbox[i] EXCEPT !.lease = Lease]
                                       ELSE outbox[i]]
            /\ batch' = [batch EXCEPT ![w] =
                           {[id |-> i, job |-> outbox[i].job,
                             target |-> outbox[i].target] : i \in S}]
      BY <2>6 DEF Claim
    <3>2. /\ DOMAIN outbox' = DOMAIN outbox
          /\ \A i \in DOMAIN outbox : outbox'[i] \in Row
      BY <3>1, <2>0 DEF TypeOK, Row
    <3>3. batch' \in [Workers -> SUBSET Claimed]
      <4>1. \A i \in S : [id |-> i, job |-> outbox[i].job, target |-> outbox[i].target] \in Claimed
        BY <3>1, <2>0 DEF TypeOK, Claimable, Claimed, Row, Ids
      <4> QED BY <3>1, <4>1 DEF TypeOK
    <3>4. held' \in [Workers -> 0..Lease]
      BY <2>6, <2>0 DEF Claim, TypeOK
    <3> QED BY <2>6, <3>2, <3>3, <3>4 DEF Claim, TypeOK, Steps, Working
  <2>7. ASSUME NEW w \in Workers, Reset(w),
               UNCHANGED <<db, deployed>>, faults' \in 0..MaxFaults
        PROVE  TypeOK'
    BY <2>7, <2>0 DEF Reset, TypeOK, db, Steps, Working, Versions
  <2>8. ASSUME NEW w \in Workers, Finish(w) PROVE TypeOK'
    BY <2>7, <2>8 DEF Finish, TypeOK
  <2>9. ASSUME NEW w \in Workers, Take(w) PROVE TypeOK'
    <3>1. faults' \in 0..MaxFaults
      BY <2>9, <2>0 DEF Take, TypeOK
    <3> QED BY <2>9, <3>1 DEF Take, TypeOK, db, Steps, Working
  <2>10. ASSUME NEW w \in Workers, Answer(w) \/ NoAnswer(w) PROVE TypeOK'
    BY <2>10 DEF Answer, NoAnswer, TypeOK, db, run, Steps, Working
  <2>11. ASSUME NEW w \in Workers, pc[w] \in Working, WriteBack(entry[w])
         PROVE  /\ enriched' \in [Jobs -> 0..MaxVersion]
                /\ DOMAIN outbox' \subseteq 1..lastId
                /\ \A i \in DOMAIN outbox' : outbox'[i] \in Row
    BY <2>11, <2>0, EntryType DEF WriteBack, TypeOK, Versions
  <2>12. ASSUME NEW w \in Workers, Done(w)
         PROVE  /\ pc' \in [Workers -> Steps]
                /\ entry' \in [Workers -> Claimed \cup {NoEntry}]
                /\ \A u \in Workers : pc'[u] \in Working => entry'[u] \in Claimed
                /\ held' \in [Workers -> 0..Lease]
    BY <2>12, <2>0 DEF Done, TypeOK, Steps, Working
  <2>13. ASSUME NEW w \in Workers, Complete(w) PROVE TypeOK'
    BY <2>11, <2>12, <2>13 DEF Complete, TypeOK, Working
  <2>14. ASSUME NEW w \in Workers, CompleteError(w) PROVE TypeOK'
    <3>1. /\ enriched' \in [Jobs -> 0..MaxVersion]
          /\ DOMAIN outbox' \subseteq 1..lastId
          /\ \A i \in DOMAIN outbox' : outbox'[i] \in Row
      BY <2>11, <2>14 DEF CompleteError, TypeOK, Working
    <3>2. faults' \in 0..MaxFaults
      BY <2>14, <2>0 DEF CompleteError, TypeOK
    <3> QED BY <2>14, <3>1, <3>2 DEF CompleteError, TypeOK, run, Working, Steps
  <2>15. ASSUME NEW w \in Workers, RecordFailure(w) PROVE TypeOK'
    <3>1. /\ DOMAIN outbox' = DOMAIN outbox
          /\ \A i \in DOMAIN outbox : outbox'[i] \in Row
      BY <2>15, CountedRow DEF RecordFailure, TypeOK
    <3> QED BY <2>12, <2>15, <3>1 DEF RecordFailure, TypeOK
  <2>16. ASSUME NEW w \in Workers, FailError(w) PROVE TypeOK'
    <3>1. faults' \in 0..MaxFaults
      BY <2>16, <2>0 DEF FailError, TypeOK
    <3> QED BY <2>12, <2>16, <3>1 DEF FailError, TypeOK, db
  <2>17. ASSUME NEW w \in Workers, Crash(w) PROVE TypeOK'
    BY <2>7, <2>17, <2>0 DEF Crash, TypeOK
  <2>18. CASE UNCHANGED vars
    BY <2>18 DEF vars, TypeOK
  <2> QED BY <2>1, <2>2, <2>3, <2>4, <2>5, <2>6, <2>8, <2>9, <2>10, <2>13, <2>14,
             <2>15, <2>16, <2>17, <2>18 DEF Next, RunStep, Fault
<1> QED BY <1>1, <1>2, PTL DEF Spec

-----------------------------------------------------------------------------
(* The inductive invariant.  Ids in hand have been handed out, so a fresh  *)
(* row never takes the id of an entry a slow run still works on; and the   *)
(* lease on a row in hand lasts at least as long as the run's own.         *)

HandsKnown == \A w \in Workers : \A c \in Hands(w) : c.id <= lastId

LeaseCovers ==
  \A w \in Workers : \A c \in Hands(w) :
    c.id \in DOMAIN outbox /\ held[w] > 0 => outbox[c.id].lease >= held[w]

HandsInv == HandsKnown /\ HandsMatchRows /\ LeaseCovers /\ LeaseExclusive

IInv == TypeOK /\ HandsInv /\ DeadIffExhausted /\ QueuedUntilEnriched

LEMMA HandsType == ASSUME TypeOK, NEW w \in Workers PROVE Hands(w) \subseteq Claimed
  BY DEF TypeOK, Hands

(* Every step but a claim only takes entries out of hands, keeps what rows *)
(* say, and lets no lease in the table run out before that of its holder.  *)
LEMMA HandsStep ==
  ASSUME TypeOK, TypeOK', HandsInv,
         \A u \in Workers : Hands(u)' \subseteq Hands(u) /\ held'[u] <= held[u],
         lastId <= lastId',
         \A i \in DOMAIN outbox' :
           \/ i > lastId
           \/ /\ i \in DOMAIN outbox
              /\ outbox'[i].job = outbox[i].job
              /\ outbox'[i].target = outbox[i].target
              /\ \A u \in Workers : held'[u] > 0 /\ outbox[i].lease >= held[u]
                                       => outbox'[i].lease >= held'[u]
  PROVE  HandsInv'
<1>0. /\ lastId \in Nat /\ lastId' \in Nat
      /\ \A u \in Workers : held[u] \in Nat /\ held'[u] \in Nat
  BY ConstantsAssumption DEF TypeOK
<1>1. ASSUME NEW u \in Workers, NEW c \in Hands(u)'
      PROVE  /\ c \in Hands(u) /\ c.id \in Nat /\ c.id <= lastId
             /\ c.id \in DOMAIN outbox' => c.id \in DOMAIN outbox
  <2>1. c \in Hands(u)
    OBVIOUS
  <2>2. c.id \in Nat
    BY <2>1, HandsType, ConstantsAssumption DEF Claimed, Ids
  <2>3. c.id <= lastId
    BY <2>1 DEF HandsInv, HandsKnown
  <2> QED BY <2>1, <2>2, <2>3, <1>0
<1>2. HandsKnown'
  BY <1>0, <1>1 DEF HandsKnown
<1>3. HandsMatchRows'
  <2> SUFFICES ASSUME NEW u \in Workers, NEW c \in Hands(u)', c.id \in DOMAIN outbox'
               PROVE  outbox'[c.id].job = c.job /\ outbox'[c.id].target = c.target
    BY DEF HandsMatchRows
  <2> QED BY <1>0, <1>1 DEF HandsInv, HandsMatchRows
<1>4. LeaseCovers'
  <2> SUFFICES ASSUME NEW u \in Workers, NEW c \in Hands(u)',
                      c.id \in DOMAIN outbox', held'[u] > 0
               PROVE  outbox'[c.id].lease >= held'[u]
    BY DEF LeaseCovers
  <2>1. held[u] > 0
    BY <1>0
  <2>2. outbox[c.id].lease >= held[u]
    BY <2>1, <1>1 DEF HandsInv, LeaseCovers
  <2> QED BY <2>2, <1>0, <1>1
<1>5. LeaseExclusive'
  <2> SUFFICES ASSUME NEW u \in Workers, NEW w \in Workers, u # w,
                      held'[u] > 0, held'[w] > 0,
                      NEW c \in Hands(u)', NEW d \in Hands(w)'
               PROVE  c.id # d.id
    BY DEF LeaseExclusive
  <2>1. held[u] > 0 /\ held[w] > 0
    BY <1>0
  <2> QED BY <2>1, <1>1 DEF HandsInv, LeaseExclusive
<1> QED BY <1>2, <1>3, <1>4, <1>5 DEF HandsInv

(* A claim takes rows whose lease has run out, so no run whose own lease   *)
(* still runs has any of them in hand.                                     *)
LEMMA HandsClaim ==
  ASSUME TypeOK, TypeOK', HandsInv, NEW w \in Workers, Claim(w)
  PROVE  HandsInv'
<1>0. /\ lastId \in Nat /\ Lease \in Nat /\ Lease > 0
      /\ \A u \in Workers : held[u] \in Nat
  BY ConstantsAssumption DEF TypeOK
<1>1. PICK S \in SUBSET Claimable :
        /\ outbox' = [i \in DOMAIN outbox |->
                        IF i \in S THEN [outbox[i] EXCEPT !.lease = Lease]
                                   ELSE outbox[i]]
        /\ batch' = [batch EXCEPT ![w] =
                       {[id |-> i, job |-> outbox[i].job,
                         target |-> outbox[i].target] : i \in S}]
  BY DEF Claim
<1>2. /\ lastId' = lastId
      /\ held' = [held EXCEPT ![w] = Lease]
      /\ \A u \in Workers \ {w} : Hands(u)' = Hands(u)
      /\ Hands(w)' = {[id |-> i, job |-> outbox[i].job,
                       target |-> outbox[i].target] : i \in S}
  BY <1>1 DEF Claim, Hands, Working, TypeOK
<1>3. \A i \in S : i \in DOMAIN outbox /\ outbox[i] \in Row /\ outbox[i].lease = 0
  BY <1>1 DEF Claimable, TypeOK
<1>4. \A i \in DOMAIN outbox : /\ outbox'[i].job = outbox[i].job
                               /\ outbox'[i].target = outbox[i].target
                               /\ i \notin S => outbox'[i].lease = outbox[i].lease
                               /\ i \in S => outbox'[i].lease = Lease
  <2>1. \A i \in S : Lease \in 0..Lease /\ outbox[i] \in Row
    BY <1>0, <1>3
  <2> QED BY <1>1, <2>1, AgedRow
<1>5. DOMAIN outbox' = DOMAIN outbox /\ DOMAIN outbox \subseteq 1..lastId
  BY <1>1 DEF TypeOK
<1>6. /\ \A u \in Workers \ {w} : held'[u] = held[u]
      /\ held'[w] = Lease
  BY <1>2 DEF TypeOK
(* No other running lease covers a claimed row.                            *)
<1>7. ASSUME NEW u \in Workers \ {w}, NEW c \in Hands(u), c.id \in S
      PROVE  held[u] = 0
  BY <1>0, <1>3, <1>7 DEF HandsInv, LeaseCovers
<1>8. HandsKnown'
  <2>1. \A c \in Hands(w)' : c.id \in S
    BY <1>2
  <2> QED BY <1>0, <1>2, <1>3, <1>5, <2>1 DEF HandsInv, HandsKnown
<1>9. HandsMatchRows'
  <2> SUFFICES ASSUME NEW u \in Workers, NEW c \in Hands(u)', c.id \in DOMAIN outbox
               PROVE  outbox[c.id].job = c.job /\ outbox[c.id].target = c.target
    BY <1>4, <1>5 DEF HandsMatchRows
  <2>1. CASE u = w
    BY <2>1, <1>2
  <2>2. CASE u # w
    BY <2>2, <1>2 DEF HandsInv, HandsMatchRows
  <2> QED BY <2>1, <2>2
<1>10. LeaseCovers'
  <2> SUFFICES ASSUME NEW u \in Workers, NEW c \in Hands(u)',
                      c.id \in DOMAIN outbox, held'[u] > 0
               PROVE  outbox'[c.id].lease >= held'[u]
    BY <1>5 DEF LeaseCovers
  <2>1. CASE u = w
    <3>1. c.id \in S
      BY <2>1, <1>2
    <3> QED BY <2>1, <3>1, <1>0, <1>4, <1>6
  <2>2. CASE u # w
    <3>1. c \in Hands(u) /\ held[u] > 0 /\ c.id \notin S
      BY <2>2, <1>0, <1>2, <1>6, <1>7
    <3>2. outbox[c.id].lease >= held[u]
      BY <3>1 DEF HandsInv, LeaseCovers
    <3> QED BY <2>2, <3>1, <3>2, <1>4, <1>6
  <2> QED BY <2>1, <2>2
<1>11. LeaseExclusive'
  <2> SUFFICES ASSUME NEW u \in Workers, NEW x \in Workers, u # x,
                      held'[u] > 0, held'[x] > 0,
                      NEW c \in Hands(u)', NEW d \in Hands(x)', c.id = d.id
               PROVE  FALSE
    BY DEF LeaseExclusive
  <2>1. CASE u # w /\ x # w
    BY <2>1, <1>2, <1>6 DEF HandsInv, LeaseExclusive
  <2>2. CASE u = w
    <3>1. d.id \in S
      BY <2>2, <1>2
    <3> QED BY <2>2, <3>1, <1>0, <1>2, <1>6, <1>7
  <2>3. CASE x = w
    <3>1. c.id \in S
      BY <2>3, <1>2
    <3> QED BY <2>3, <3>1, <1>0, <1>2, <1>6, <1>7
  <2> QED BY <2>1, <2>2, <2>3
<1> QED BY <1>8, <1>9, <1>10, <1>11 DEF HandsInv

(* The actions other than a claim, seen through HandsStep.  Most of them   *)
(* leave job, target and lease of every surviving row alone.               *)
LEMMA HandsQuiet ==
  ASSUME TypeOK, TypeOK', HandsInv,
         \A u \in Workers : Hands(u)' \subseteq Hands(u),
         \A u \in Workers : held'[u] = held[u] \/ held'[u] = 0,
         lastId <= lastId',
         \A i \in DOMAIN outbox' :
           \/ i > lastId
           \/ /\ i \in DOMAIN outbox
              /\ outbox'[i].job = outbox[i].job
              /\ outbox'[i].target = outbox[i].target
              /\ outbox'[i].lease = outbox[i].lease
  PROVE  HandsInv'
<1>1. \A u \in Workers : held[u] \in Nat /\ held'[u] \in Nat
  BY ConstantsAssumption DEF TypeOK
<1>2. \A u \in Workers : held'[u] <= held[u]
  BY <1>1
<1>3. \A i \in DOMAIN outbox' :
        \/ i > lastId
        \/ /\ i \in DOMAIN outbox
           /\ outbox'[i].job = outbox[i].job
           /\ outbox'[i].target = outbox[i].target
           /\ \A u \in Workers : held'[u] > 0 /\ outbox[i].lease >= held[u]
                                    => outbox'[i].lease >= held'[u]
  BY <1>1
<1> QED BY <1>2, <1>3, HandsStep

LEMMA HandsInvStep ==
  ASSUME TypeOK, TypeOK', HandsInv, [Next]_vars
  PROVE  HandsInv'
<1> USE DEF Hands, Working
<1>a. \A u \in Workers : pc[u] \in Steps /\ held[u] \in 0..Lease
  BY DEF TypeOK
<1>1. ASSUME NEW j \in Jobs, NEW v \in Versions, Ingest(j, v) PROVE HandsInv'
  <2>1. Insert({x \in {j} : NeedsEnrichment(x, v)}, v)
    BY <1>1 DEF Ingest
  <2>2. /\ lastId <= lastId'
        /\ \A i \in DOMAIN outbox : outbox'[i] = outbox[i]
        /\ \A i \in DOMAIN outbox' \ DOMAIN outbox : i > lastId
    BY <2>1, InsertFacts
  <2> QED BY <1>1, <2>2, HandsQuiet DEF Ingest, run
<1>2. CASE Deploy
  BY <1>2, HandsQuiet DEF Deploy, db, run, TypeOK
<1>3. CASE Tick
  <2>1. \A i \in DOMAIN outbox : /\ outbox'[i].job = outbox[i].job
                                 /\ outbox'[i].target = outbox[i].target
                                 /\ outbox'[i].lease = Less(outbox[i].lease)
    <3>1. \A i \in DOMAIN outbox : outbox[i] \in Row /\ outbox[i].lease \in 0..Lease
      BY DEF TypeOK, Row
    <3> QED BY <1>3, <3>1, AgedRow, LessType DEF Tick
  <2>2. \A i \in DOMAIN outbox, u \in Workers :
          held'[u] > 0 /\ outbox[i].lease >= held[u] => outbox'[i].lease >= held'[u]
    <3>1. \A i \in DOMAIN outbox : outbox[i].lease \in Nat
      BY ConstantsAssumption DEF TypeOK, Row
    <3>2. \A u \in Workers : held[u] \in Nat /\ held'[u] = Less(held[u])
      BY <1>3, <1>a, ConstantsAssumption DEF Tick
    <3> QED BY <2>1, <3>1, <3>2 DEF Less
  <2>3. \A u \in Workers : held'[u] <= held[u]
    BY <1>3, <1>a, LessType DEF Tick
  <2>4. lastId <= lastId' /\ DOMAIN outbox' = DOMAIN outbox
    BY <1>3 DEF Tick, TypeOK
  <2>5. \A u \in Workers : Hands(u)' = Hands(u)
    BY <1>3 DEF Tick
  <2> HIDE DEF Hands
  <2> QED BY <2>1, <2>2, <2>3, <2>4, <2>5, HandsStep
<1>4. ASSUME NEW w \in Workers, Start(w) PROVE HandsInv'
  BY <1>4, HandsQuiet DEF Start, db, TypeOK
<1>5. ASSUME NEW w \in Workers, Enqueue(w) PROVE HandsInv'
  <2>1. Insert(pending[w], version[w]) /\ pending[w] \in SUBSET Jobs /\ version[w] \in Versions
    BY <1>5 DEF Enqueue, TypeOK
  <2>2. /\ lastId <= lastId'
        /\ \A i \in DOMAIN outbox : outbox'[i] = outbox[i]
        /\ \A i \in DOMAIN outbox' \ DOMAIN outbox : i > lastId
    BY <2>1, InsertFacts
  <2> QED BY <1>5, <2>2, HandsQuiet DEF Enqueue, TypeOK
<1>6. ASSUME NEW w \in Workers, Claim(w) PROVE HandsInv'
  BY <1>6, HandsClaim
<1>7. ASSUME NEW w \in Workers, Reset(w), UNCHANGED <<outbox, lastId>> PROVE HandsInv'
  BY <1>7, HandsQuiet DEF Reset, TypeOK
<1>8. ASSUME NEW w \in Workers, Finish(w) \/ Crash(w) PROVE HandsInv'
  BY <1>7, <1>8 DEF Finish, Crash, db
<1>9. ASSUME NEW w \in Workers, Take(w) PROVE HandsInv'
  <2>1. \A u \in Workers : Hands(u)' \subseteq Hands(u)
    BY <1>9 DEF Take, TypeOK
  <2> QED BY <1>9, <2>1, HandsQuiet DEF Take, db, TypeOK
<1>10. ASSUME NEW w \in Workers, Answer(w) \/ NoAnswer(w) PROVE HandsInv'
  BY <1>10, HandsQuiet DEF Answer, NoAnswer, db, run, TypeOK
<1>11. ASSUME NEW w \in Workers, Done(w), UNCHANGED batch
       PROVE  /\ \A u \in Workers : Hands(u)' \subseteq Hands(u)
              /\ \A u \in Workers : held'[u] = held[u] \/ held'[u] = 0
  BY <1>11 DEF Done, TypeOK
<1>12. ASSUME NEW w \in Workers, WriteBack(entry[w])
       PROVE  \A i \in DOMAIN outbox' : i \in DOMAIN outbox /\ outbox'[i] = outbox[i]
  BY <1>12 DEF WriteBack
<1>13. ASSUME NEW w \in Workers, Complete(w) PROVE HandsInv'
  <2> HIDE DEF Hands
  <2>1. Done(w) /\ UNCHANGED <<batch, lastId>> /\ WriteBack(entry[w])
    BY <1>13 DEF Complete
  <2> QED BY <2>1, <1>11, <1>12, HandsQuiet DEF TypeOK
<1>14. ASSUME NEW w \in Workers, CompleteError(w) PROVE HandsInv'
  <2>1. \A u \in Workers : Hands(u)' = Hands(u) /\ held'[u] = held[u]
    BY <1>14 DEF CompleteError, run, TypeOK
  <2> HIDE DEF Hands
  <2>2. \A i \in DOMAIN outbox' : i \in DOMAIN outbox /\ outbox'[i] = outbox[i]
    BY <1>12, <1>14 DEF CompleteError
  <2>3. lastId <= lastId'
    BY <1>14 DEF CompleteError, TypeOK
  <2> QED BY <2>1, <2>2, <2>3, HandsQuiet
<1>15. ASSUME NEW w \in Workers, RecordFailure(w) PROVE HandsInv'
  <2> HIDE DEF Hands
  <2>1. Done(w) /\ UNCHANGED <<batch, lastId>>
    BY <1>15 DEF RecordFailure
  <2>2. \A i \in DOMAIN outbox' : /\ i \in DOMAIN outbox
                                  /\ outbox'[i].job = outbox[i].job
                                  /\ outbox'[i].target = outbox[i].target
                                  /\ outbox'[i].lease = outbox[i].lease
    BY <1>15, CountedRow DEF RecordFailure, TypeOK
  <2> QED BY <2>1, <2>2, <1>11, HandsQuiet DEF TypeOK
<1>16. ASSUME NEW w \in Workers, FailError(w) PROVE HandsInv'
  <2> HIDE DEF Hands
  <2>1. Done(w) /\ UNCHANGED <<batch, lastId, outbox>>
    BY <1>16 DEF FailError, db
  <2> QED BY <2>1, <1>11, HandsQuiet DEF TypeOK
<1>17. CASE UNCHANGED vars
  BY <1>17, HandsQuiet DEF vars, TypeOK
<1> QED BY <1>1, <1>2, <1>3, <1>4, <1>5, <1>6, <1>8, <1>9, <1>10, <1>13, <1>14, <1>15,
           <1>16, <1>17 DEF Next, RunStep, Fault

-----------------------------------------------------------------------------
(* What one step may do to the rows it keeps: nothing but let time pass,   *)
(* lease them or count a failure.  New rows are live and untried.          *)
LEMMA RowStep ==
  ASSUME TypeOK, [Next]_vars
  PROVE  \A i \in DOMAIN outbox' :
           IF i \notin DOMAIN outbox
           THEN ~outbox'[i].failed /\ outbox'[i].attempts = 0
           ELSE /\ outbox'[i].job = outbox[i].job
                /\ \/ /\ outbox'[i].attempts = outbox[i].attempts
                      /\ outbox'[i].failed = outbox[i].failed
                      /\ outbox[i].failed => outbox'[i].lease <= outbox[i].lease
                   \/ /\ outbox'[i].attempts = outbox[i].attempts + 1
                      /\ outbox'[i].failed <=> outbox'[i].attempts >= MaxAttempts
                      /\ outbox'[i].lease = outbox[i].lease
<1> DEFINE New(i) == ~outbox'[i].failed /\ outbox'[i].attempts = 0
           Kept(i) == /\ outbox'[i].job = outbox[i].job
                      /\ outbox'[i].attempts = outbox[i].attempts
                      /\ outbox'[i].failed = outbox[i].failed
                      /\ outbox[i].failed => outbox'[i].lease <= outbox[i].lease
           Counted(i) == /\ outbox'[i].job = outbox[i].job
                         /\ outbox'[i].attempts = outbox[i].attempts + 1
                         /\ outbox'[i].failed <=> outbox'[i].attempts >= MaxAttempts
                         /\ outbox'[i].lease = outbox[i].lease
           Fine == \A i \in DOMAIN outbox' :
                     IF i \notin DOMAIN outbox THEN New(i) ELSE Kept(i) \/ Counted(i)
<1>0. \A i \in DOMAIN outbox : outbox[i] \in Row /\ outbox[i].lease \in 0..Lease
  BY DEF TypeOK, Row
<1>a. \A i \in DOMAIN outbox : outbox[i].lease <= outbox[i].lease
  BY <1>0, ConstantsAssumption
<1>1. ASSUME NEW J \in SUBSET Jobs, NEW v \in Versions, Insert(J, v) PROVE Fine
  <2>1. /\ \A i \in DOMAIN outbox : outbox'[i] = outbox[i]
        /\ \A i \in DOMAIN outbox' \ DOMAIN outbox : \E j \in J : outbox'[i] = NewRow(j, v)
    BY <1>1, InsertFacts
  <2>2. \A i \in DOMAIN outbox' \ DOMAIN outbox : New(i)
    BY <2>1 DEF NewRow
  <2> QED BY <2>1, <2>2, <1>a
<1>2. ASSUME \A i \in DOMAIN outbox' : i \in DOMAIN outbox /\ outbox'[i] = outbox[i] PROVE Fine
  BY <1>2, <1>a
<1>3. ASSUME NEW j \in Jobs, NEW v \in Versions, Ingest(j, v) PROVE Fine
  <2>1. Insert({x \in {j} : NeedsEnrichment(x, v)}, v)
    BY <1>3 DEF Ingest
  <2> QED BY <1>1, <2>1
<1>4. CASE Tick
  <2>1. ASSUME NEW i \in DOMAIN outbox PROVE Kept(i)
    <3>1. /\ outbox'[i] = [outbox[i] EXCEPT !.lease = Less(outbox[i].lease)]
          /\ Less(outbox[i].lease) \in 0..Lease /\ Less(outbox[i].lease) <= outbox[i].lease
      BY <1>0, <1>4, LessType DEF Tick
    <3> QED BY <1>0, <3>1, AgedRow
  <2> QED BY <1>4, <2>1 DEF Tick
<1>5. ASSUME NEW w \in Workers, Enqueue(w) PROVE Fine
  <2>1. Insert(pending[w], version[w]) /\ pending[w] \in SUBSET Jobs /\ version[w] \in Versions
    BY <1>5 DEF Enqueue, TypeOK
  <2> QED BY <1>1, <2>1
<1>6. ASSUME NEW w \in Workers, Claim(w) PROVE Fine
  <2>1. PICK S \in SUBSET Claimable :
          outbox' = [i \in DOMAIN outbox |->
                      IF i \in S THEN [outbox[i] EXCEPT !.lease = Lease] ELSE outbox[i]]
    BY <1>6 DEF Claim
  <2>2. \A i \in S : i \in DOMAIN outbox /\ ~outbox[i].failed
    BY DEF Claimable
  <2>3. Lease \in 0..Lease
    BY ConstantsAssumption
  <2> QED BY <1>0, <1>a, <2>1, <2>2, <2>3, AgedRow
<1>7. ASSUME NEW w \in Workers, RecordFailure(w) PROVE Fine
  <2>1. outbox' = [i \in DOMAIN outbox |->
                     IF i = entry[w].id THEN CountFailure(outbox[i]) ELSE outbox[i]]
    BY <1>7 DEF RecordFailure
  <2>2. ASSUME NEW i \in DOMAIN outbox, i = entry[w].id PROVE Counted(i)
    <3>1. outbox'[i] = CountFailure(outbox[i])
      BY <2>1, <2>2
    <3> QED BY <1>0, <3>1, CountedRow
  <2> HIDE DEF Counted
  <2> QED BY <1>a, <2>1, <2>2
<1>8. ASSUME NEW w \in Workers, Complete(w) \/ CompleteError(w) PROVE Fine
  BY <1>2, <1>8 DEF Complete, CompleteError, WriteBack
<1>9. ASSUME UNCHANGED outbox PROVE Fine
  BY <1>2, <1>9
<1>10. Fine
  BY <1>3, <1>4, <1>5, <1>6, <1>7, <1>8, <1>9
     DEF Next, RunStep, Fault, Deploy, Start, Finish, Take, Answer, NoAnswer, FailError, Crash,
         db, vars
<1> QED BY <1>10

(* Dead-lettering and the attempt count never drift apart.                 *)
LEMMA DeadStep ==
  ASSUME TypeOK, TypeOK', DeadIffExhausted, [Next]_vars
  PROVE  DeadIffExhausted'
<1> SUFFICES ASSUME NEW i \in DOMAIN outbox'
             PROVE  outbox'[i].failed <=> outbox'[i].attempts >= MaxAttempts
  BY DEF DeadIffExhausted
<1>1. CASE i \notin DOMAIN outbox
  BY <1>1, RowStep, ConstantsAssumption
<1>2. CASE i \in DOMAIN outbox
  <2>1. outbox[i].failed <=> outbox[i].attempts >= MaxAttempts
    BY <1>2 DEF DeadIffExhausted
  <2> QED BY <1>2, <2>1, RowStep
<1> QED BY <1>1, <1>2

(* A stored job leaves the queue only in the transaction that enriches it. *)
LEMMA QueuedStep ==
  ASSUME TypeOK, HandsInv, QueuedUntilEnriched, [Next]_vars
  PROVE  QueuedUntilEnriched'
<1>1. ASSUME catalogue' = catalogue, enriched' = enriched,
             \A i \in DOMAIN outbox : i \in DOMAIN outbox' /\ outbox'[i].job = outbox[i].job
      PROVE  QueuedUntilEnriched'
  BY <1>1 DEF QueuedUntilEnriched
<1>2. ASSUME NEW w \in Workers, pc[w] \in Working, WriteBack(entry[w]), catalogue' = catalogue
      PROVE  QueuedUntilEnriched'
  <2> DEFINE c == entry[w]
  <2>1. c \in Claimed /\ c.job \in Jobs /\ c.target \in Versions
    BY <1>2, EntryType
  <2>2. c.id \in DOMAIN outbox => outbox[c.id].job = c.job
    BY <1>2 DEF HandsInv, HandsMatchRows, Hands
  <2> SUFFICES ASSUME NEW j \in catalogue \ Legacy, enriched'[j] = 0
               PROVE  \E i \in DOMAIN outbox' : outbox'[i].job = j
    BY <1>2 DEF QueuedUntilEnriched
  <2>3. j # c.job /\ enriched[j] = 0
    BY <1>2, <2>1, ConstantsAssumption DEF WriteBack, TypeOK, Versions
  <2>4. PICK i \in DOMAIN outbox : outbox[i].job = j
    BY <2>3 DEF QueuedUntilEnriched
  <2>5. i # c.id
    BY <2>2, <2>3, <2>4
  <2> QED BY <1>2, <2>4, <2>5 DEF WriteBack
<1>3. ASSUME NEW j \in Jobs, NEW v \in Versions, Ingest(j, v) PROVE QueuedUntilEnriched'
  <2> DEFINE J == {x \in {j} : NeedsEnrichment(x, v)}
  <2>1. Insert(J, v)
    BY <1>3 DEF Ingest
  <2>2. /\ DOMAIN outbox \subseteq DOMAIN outbox'
        /\ \A i \in DOMAIN outbox : outbox'[i] = outbox[i]
        /\ \A x \in J : \E i \in DOMAIN outbox' : outbox'[i].job = x
    BY <2>1, InsertFacts
  <2>3. enriched[j] = 0 => j \in J
    BY ConstantsAssumption DEF NeedsEnrichment, Versions
  <2> QED BY <1>3, <2>2, <2>3 DEF Ingest, QueuedUntilEnriched
<1>4. CASE Tick
  <2>1. \A i \in DOMAIN outbox : outbox[i] \in Row /\ Less(outbox[i].lease) \in 0..Lease
    BY LessType DEF TypeOK, Row
  <2> QED BY <1>1, <1>4, <2>1, AgedRow DEF Tick
<1>5. ASSUME NEW w \in Workers, Enqueue(w) PROVE QueuedUntilEnriched'
  <2>1. Insert(pending[w], version[w]) /\ pending[w] \in SUBSET Jobs /\ version[w] \in Versions
    BY <1>5 DEF Enqueue, TypeOK
  <2>2. \A i \in DOMAIN outbox : i \in DOMAIN outbox' /\ outbox'[i] = outbox[i]
    BY <2>1, InsertFacts
  <2> QED BY <1>1, <1>5, <2>2 DEF Enqueue
<1>6. ASSUME NEW w \in Workers, Claim(w) PROVE QueuedUntilEnriched'
  <2>1. PICK S \in SUBSET Claimable :
          outbox' = [i \in DOMAIN outbox |->
                      IF i \in S THEN [outbox[i] EXCEPT !.lease = Lease] ELSE outbox[i]]
    BY <1>6 DEF Claim
  <2>2. \A i \in DOMAIN outbox : outbox[i] \in Row /\ Lease \in 0..Lease
    BY ConstantsAssumption DEF TypeOK
  <2> QED BY <1>1, <1>6, <2>1, <2>2, AgedRow DEF Claim
<1>7. ASSUME NEW w \in Workers, RecordFailure(w) PROVE QueuedUntilEnriched'
  BY <1>1, <1>7, CountedRow DEF RecordFailure, TypeOK
<1>8. ASSUME NEW w \in Workers, Complete(w) \/ CompleteError(w) PROVE QueuedUntilEnriched'
  BY <1>1, <1>2, <1>8 DEF Complete, CompleteError, Working
<1>9. ASSUME UNCHANGED <<catalogue, enriched, outbox>> PROVE QueuedUntilEnriched'
  BY <1>1, <1>9
<1> QED BY <1>3, <1>4, <1>5, <1>6, <1>7, <1>8, <1>9
   DEF Next, RunStep, Fault, Deploy, Start, Finish, Take, Answer, NoAnswer, FailError, Crash,
       db, vars

-----------------------------------------------------------------------------
(* The inductive invariant holds in every state of every behaviour.        *)
THEOREM InvariantCorrect == Spec => []IInv
<1>1. Init => IInv
  <2> SUFFICES ASSUME Init PROVE HandsInv /\ DeadIffExhausted /\ QueuedUntilEnriched /\ TypeOK
    BY DEF IInv
  <2>1. \A w \in Workers : Hands(w) = {}
    BY DEF Init, Hands, Working
  <2>2. HandsInv
    BY <2>1 DEF HandsInv, HandsKnown, HandsMatchRows, LeaseCovers, LeaseExclusive
  <2>3. DeadIffExhausted /\ QueuedUntilEnriched
    BY DEF Init, DeadIffExhausted, QueuedUntilEnriched
  <2>4. TypeOK
    BY ConstantsAssumption DEF Init, TypeOK, Versions, Steps, Working, NoEntry, Claimed
  <2> QED BY <2>2, <2>3, <2>4
<1>2. IInv /\ TypeOK' /\ [Next]_vars => IInv'
  BY HandsInvStep, DeadStep, QueuedStep DEF IInv
<1> QED BY <1>1, <1>2, TypeCorrect, PTL DEF Spec

(* No stored, never enriched job is ever without a queue entry.            *)
THEOREM NoWorkIsLost == Spec => []QueuedUntilEnriched
<1>1. IInv => QueuedUntilEnriched
  BY DEF IInv
<1> QED BY <1>1, InvariantCorrect, PTL

(* Running leases exclude each other.                                      *)
THEOREM LeasesExclude == Spec => []LeaseExclusive
<1>1. IInv => LeaseExclusive
  BY DEF IInv, HandsInv
<1> QED BY <1>1, InvariantCorrect, PTL

(* What a run holds agrees with the row its write-back will delete.        *)
THEOREM HandsAgreeWithRows == Spec => []HandsMatchRows
<1>1. IInv => HandsMatchRows
  BY DEF IInv, HandsInv
<1> QED BY <1>1, InvariantCorrect, PTL

(* Dead-lettered is the same as out of attempts.                           *)
THEOREM DeadMeansExhausted == Spec => []DeadIffExhausted
<1>1. IInv => DeadIffExhausted
  BY DEF IInv
<1> QED BY <1>1, InvariantCorrect, PTL

(* Nothing revives or leases a dead letter.                                *)
THEOREM DeadLettersStay == Spec => DeadIsFinal
<1>1. TypeOK /\ DeadIffExhausted /\ [Next]_vars =>
        [\A i \in DOMAIN outbox \cap DOMAIN outbox' :
           outbox[i].failed => outbox'[i].failed /\ outbox'[i].lease <= outbox[i].lease
        ]_outbox
  <2> SUFFICES ASSUME TypeOK, DeadIffExhausted, [Next]_vars,
                      NEW i \in DOMAIN outbox \cap DOMAIN outbox', outbox[i].failed
               PROVE  outbox'[i].failed /\ outbox'[i].lease <= outbox[i].lease
    OBVIOUS
  <2>1. outbox[i].attempts \in Nat /\ outbox[i].lease \in Nat
    BY ConstantsAssumption DEF TypeOK, Row
  <2>2. outbox[i].attempts >= MaxAttempts
    BY DEF DeadIffExhausted
  <2> QED BY <2>1, <2>2, RowStep, ConstantsAssumption
<1>2. IInv => TypeOK /\ DeadIffExhausted
  BY DEF IInv
<1> QED BY <1>1, <1>2, InvariantCorrect, PTL DEF Spec, DeadIsFinal

-----------------------------------------------------------------------------
(* The queue implements WorkQueue.  For that a row must be of a stored job, *)
(* and a claim in hand whose row is gone must be of an enriched one.       *)
RowsStored == /\ \A i \in DOMAIN outbox : outbox[i].job \in catalogue
              /\ \A w \in Workers : pending[w] \subseteq catalogue

HandsLive == \A w \in Workers : \A c \in Hands(w) :
               c.id \in DOMAIN outbox \/ enriched[c.job] > 0

(* What a step does to the rows of the queue: it inserts some, writes one  *)
(* entry back, counts one failure, or leaves job and failed_at of every    *)
(* row alone.                                                              *)
Inserts == /\ UNCHANGED enriched
           /\ \/ \E j \in Jobs, v \in Versions :
                   /\ catalogue' = catalogue \cup {j}
                   /\ Insert({x \in {j} : NeedsEnrichment(x, v)}, v)
                   /\ UNCHANGED pending
              \/ \E w \in Workers :
                   /\ UNCHANGED catalogue
                   /\ Insert(pending[w], version[w])
                   /\ pending' = [pending EXCEPT ![w] = {}]

Writes == \E w \in Workers : /\ pc[w] = "write"
                             /\ WriteBack(entry[w])
                             /\ UNCHANGED <<catalogue, pending>>

Counts == /\ UNCHANGED <<catalogue, enriched, pending>>
          /\ \E w \in Workers :
               /\ pc[w] = "fail"
               /\ outbox' = [i \in DOMAIN outbox |->
                               IF i = entry[w].id THEN CountFailure(outbox[i]) ELSE outbox[i]]

Leaves == /\ UNCHANGED <<catalogue, enriched>>
          /\ DOMAIN outbox' = DOMAIN outbox
          /\ \A i \in DOMAIN outbox : /\ outbox'[i].job = outbox[i].job
                                      /\ outbox'[i].failed = outbox[i].failed
          /\ \A w \in Workers : pending'[w] \subseteq pending[w] \cup catalogue

LEMMA QueueWrites ==
  ASSUME TypeOK, [Next]_vars
  PROVE  Inserts \/ Writes \/ Counts \/ Leaves
<1>0. \A i \in DOMAIN outbox : outbox[i] \in Row
  BY DEF TypeOK
<1>1. ASSUME NEW j \in Jobs, NEW v \in Versions, Ingest(j, v) PROVE Inserts
  BY <1>1 DEF Ingest, run, Inserts
<1>2. ASSUME NEW w \in Workers, Enqueue(w) PROVE Inserts
  BY <1>2 DEF Enqueue, Inserts
<1>3. CASE Tick
  <2>1. \A i \in DOMAIN outbox : outbox[i].lease \in 0..Lease
    BY <1>0 DEF Row
  <2>2. \A i \in DOMAIN outbox : Less(outbox[i].lease) \in 0..Lease
    BY <2>1, LessType
  <2> QED BY <1>0, <1>3, <2>2, AgedRow DEF Tick, Leaves
<1>4. ASSUME NEW w \in Workers, Start(w) PROVE Leaves
  BY <1>4 DEF Start, db, Leaves, TypeOK
<1>5. ASSUME NEW w \in Workers, Claim(w) PROVE Leaves
  <2>1. PICK S \in SUBSET Claimable :
          outbox' = [i \in DOMAIN outbox |->
                      IF i \in S THEN [outbox[i] EXCEPT !.lease = Lease] ELSE outbox[i]]
    BY <1>5 DEF Claim
  <2>2. Lease \in 0..Lease
    BY ConstantsAssumption
  <2> QED BY <1>0, <1>5, <2>1, <2>2, AgedRow DEF Claim, Leaves
<1>6. ASSUME NEW w \in Workers, Complete(w) PROVE Writes
  BY <1>6 DEF Complete, Writes
<1>7. ASSUME NEW w \in Workers, CompleteError(w) PROVE Writes \/ Leaves
  BY <1>7 DEF CompleteError, run, Writes, Leaves
<1>8. ASSUME NEW w \in Workers, RecordFailure(w) PROVE Counts
  BY <1>8 DEF RecordFailure, Counts
<1>9. ASSUME NEW w \in Workers, Finish(w) \/ Crash(w) PROVE Leaves
  BY <1>9 DEF Finish, Crash, Reset, db, Leaves, TypeOK
<1>10. ASSUME NEW w \in Workers, Take(w) \/ Answer(w) \/ NoAnswer(w) \/ FailError(w) PROVE Leaves
  BY <1>10 DEF Take, Answer, NoAnswer, FailError, db, run, Leaves
<1>11. ASSUME Deploy \/ UNCHANGED vars PROVE Leaves
  BY <1>11 DEF Deploy, db, run, vars, Leaves
<1> QED BY <1>1, <1>2, <1>3, <1>4, <1>5, <1>6, <1>7, <1>8, <1>9, <1>10, <1>11
   DEF Next, RunStep, Fault

LEMMA RowsStoredStep ==
  ASSUME TypeOK, RowsStored, [Next]_vars
  PROVE  RowsStored'
<1>1. CASE Inserts
  <2>1. ASSUME NEW J \in SUBSET Jobs, NEW v \in Versions, Insert(J, v), J \subseteq catalogue',
               catalogue \subseteq catalogue'
        PROVE  \A i \in DOMAIN outbox' : outbox'[i].job \in catalogue'
    <3>1. /\ \A i \in DOMAIN outbox : outbox'[i] = outbox[i]
          /\ \A i \in DOMAIN outbox' \ DOMAIN outbox : \E j \in J : outbox'[i] = NewRow(j, v)
      BY <2>1, InsertFacts
    <3> QED BY <2>1, <3>1 DEF RowsStored, NewRow
  <2>2. CASE \E j \in Jobs, v \in Versions :
               /\ catalogue' = catalogue \cup {j}
               /\ Insert({x \in {j} : NeedsEnrichment(x, v)}, v)
               /\ UNCHANGED pending
    <3>1. PICK j \in Jobs, v \in Versions :
               /\ catalogue' = catalogue \cup {j}
               /\ Insert({x \in {j} : NeedsEnrichment(x, v)}, v)
               /\ UNCHANGED pending
      BY <2>2
    <3>2. \A i \in DOMAIN outbox' : outbox'[i].job \in catalogue'
      BY <2>1, <3>1
    <3> QED BY <3>1, <3>2 DEF RowsStored
  <2>3. CASE \E w \in Workers : /\ UNCHANGED catalogue
                                /\ Insert(pending[w], version[w])
                                /\ pending' = [pending EXCEPT ![w] = {}]
    <3>1. PICK w \in Workers : /\ UNCHANGED catalogue
                               /\ Insert(pending[w], version[w])
                               /\ pending' = [pending EXCEPT ![w] = {}]
      BY <2>3
    <3>2. pending[w] \in SUBSET Jobs /\ version[w] \in Versions /\ pending[w] \subseteq catalogue
      BY DEF TypeOK, RowsStored
    <3>3. \A i \in DOMAIN outbox' : outbox'[i].job \in catalogue'
      BY <2>1, <3>1, <3>2
    <3> QED BY <3>1, <3>3 DEF RowsStored, TypeOK
  <2> QED BY <1>1, <2>2, <2>3 DEF Inserts
<1>2. CASE Writes
  BY <1>2 DEF Writes, WriteBack, RowsStored
<1>3. CASE Counts
  BY <1>3, CountedRow DEF Counts, RowsStored, TypeOK
<1>4. CASE Leaves
  BY <1>4 DEF Leaves, RowsStored
<1> QED BY <1>1, <1>2, <1>3, <1>4, QueueWrites

(* What is in hand after a step was in hand before, or has just been       *)
(* claimed from a row.                                                     *)
LEMMA HandsGrow ==
  ASSUME TypeOK, [Next]_vars, NEW w \in Workers, NEW c \in Hands(w)'
  PROVE  c \in Hands(w) \/ (c.id \in DOMAIN outbox /\ c.id \in DOMAIN outbox')
<1> DEFINE Fine == \A u \in Workers : \A d \in Hands(u)' :
                     d \in Hands(u) \/ (d.id \in DOMAIN outbox /\ d.id \in DOMAIN outbox')
<1>1. ASSUME \A u \in Workers : Hands(u)' \subseteq Hands(u) PROVE Fine
  BY <1>1
<1>2. ASSUME NEW u \in Workers, Claim(u) PROVE Fine
  <2>1. PICK S \in SUBSET Claimable :
          /\ outbox' = [i \in DOMAIN outbox |->
                         IF i \in S THEN [outbox[i] EXCEPT !.lease = Lease] ELSE outbox[i]]
          /\ batch' = [batch EXCEPT ![u] =
                         {[id |-> i, job |-> outbox[i].job,
                           target |-> outbox[i].target] : i \in S}]
    BY <1>2 DEF Claim
  <2>2. \A i \in S : i \in DOMAIN outbox /\ i \in DOMAIN outbox'
    BY <2>1 DEF Claimable
  <2>3. pc[u] = "claim" /\ pc' = [pc EXCEPT ![u] = "next"] /\ entry' = entry
    BY <1>2 DEF Claim
  <2>4. Hands(u)' = {[id |-> i, job |-> outbox[i].job, target |-> outbox[i].target] : i \in S}
    BY <2>1, <2>3 DEF Hands, Working, TypeOK
  <2>5. \A x \in Workers \ {u} : Hands(x)' = Hands(x)
    BY <2>1, <2>3 DEF Hands, TypeOK
  <2> HIDE DEF Hands
  <2> QED BY <2>2, <2>4, <2>5
<1>3. ASSUME NEW u \in Workers, Reset(u) PROVE \A x \in Workers : Hands(x)' \subseteq Hands(x)
  BY <1>3 DEF Reset, Hands, Working, TypeOK
<1>4. ASSUME NEW u \in Workers, Take(u) PROVE \A x \in Workers : Hands(x)' \subseteq Hands(x)
  BY <1>4 DEF Take, Hands, Working, TypeOK
<1>5. ASSUME NEW u \in Workers, Done(u), UNCHANGED batch
      PROVE  \A x \in Workers : Hands(x)' \subseteq Hands(x)
  BY <1>5 DEF Done, Hands, Working, TypeOK
<1>6. ASSUME NEW u \in Workers, Start(u) \/ Enqueue(u)
      PROVE  \A x \in Workers : Hands(x)' \subseteq Hands(x)
  BY <1>6 DEF Start, Enqueue, Hands, Working, TypeOK
<1>7. ASSUME NEW u \in Workers, Answer(u) \/ NoAnswer(u) \/ CompleteError(u)
      PROVE  \A x \in Workers : Hands(x)' \subseteq Hands(x)
  BY <1>7 DEF Answer, NoAnswer, CompleteError, run, Hands, Working, TypeOK
<1>8. ASSUME UNCHANGED <<pc, batch, entry>>
      PROVE  \A x \in Workers : Hands(x)' \subseteq Hands(x)
  BY <1>8 DEF Hands
<1>9. Fine
  <2> HIDE DEF Fine
  <2>1. ASSUME NEW u \in Workers, RunStep(u) \/ Fault(u) PROVE Fine
    BY <1>1, <1>2, <1>3, <1>4, <1>5, <1>6, <1>7, <2>1
       DEF RunStep, Fault, Finish, Crash, Complete, RecordFailure, FailError
  <2>2. ASSUME NEW j \in Jobs, NEW v \in Versions, Ingest(j, v) PROVE Fine
    BY <1>1, <1>8, <2>2 DEF Ingest, run
  <2>3. ASSUME Deploy \/ Tick \/ UNCHANGED vars PROVE Fine
    BY <1>1, <1>8, <2>3 DEF Deploy, Tick, vars, run
  <2> QED BY <2>1, <2>2, <2>3 DEF Next
<1> QED BY <1>9

LEMMA HandsLiveStep ==
  ASSUME IInv, HandsLive, [Next]_vars
  PROVE  HandsLive'
<1>0. TypeOK
  BY DEF IInv
<1> SUFFICES ASSUME NEW w \in Workers, NEW c \in Hands(w)', c.id \notin DOMAIN outbox'
             PROVE  enriched'[c.job] > 0
  BY DEF HandsLive
<1>1. c \in Hands(w)
  BY <1>0, HandsGrow
<1>2. c.job \in Jobs
  BY <1>0, <1>1, EntryType DEF Hands, TypeOK, Claimed
<1>3. c.id \in DOMAIN outbox \/ enriched[c.job] > 0
  BY <1>1 DEF HandsLive
<1>4. CASE Inserts
  <2>1. DOMAIN outbox \subseteq DOMAIN outbox'
    BY <1>4 DEF Inserts, Insert
  <2> QED BY <1>3, <1>4, <2>1 DEF Inserts
<1>5. CASE Writes
  <2>1. PICK u \in Workers : pc[u] = "write" /\ WriteBack(entry[u])
    BY <1>5 DEF Writes
  <2>2. /\ entry[u] \in Hands(u)
        /\ entry[u].job \in Jobs /\ entry[u].target \in Versions
    BY <1>0, <2>1, EntryType DEF Hands, Working
  <2>3. entry[u].target > 0
    BY <2>2, ConstantsAssumption DEF Versions
  <2>4. enriched' = [enriched EXCEPT ![entry[u].job] = entry[u].target]
    BY <2>1 DEF WriteBack
  <2>5. c.id \in DOMAIN outbox => c.id = entry[u].id
    BY <2>1 DEF WriteBack
  <2>6. c.id \in DOMAIN outbox => c.job = entry[u].job
    BY <1>1, <2>2, <2>5 DEF IInv, HandsInv, HandsMatchRows
  <2> QED BY <1>0, <1>2, <1>3, <2>2, <2>3, <2>4, <2>6 DEF TypeOK
<1>6. CASE Counts
  BY <1>3, <1>6 DEF Counts
<1>7. CASE Leaves
  BY <1>3, <1>7 DEF Leaves
<1> QED BY <1>0, <1>4, <1>5, <1>6, <1>7, QueueWrites

(* The phase of a job depends on nothing but these.                        *)
LEMMA SamePhase ==
  ASSUME NEW j,
         j \in catalogue <=> j \in catalogue',
         enriched'[j] = enriched[j],
         \A i : (i \in DOMAIN outbox /\ outbox[i].job = j)
                  <=> (i \in DOMAIN outbox' /\ outbox'[i].job = j),
         \A i \in DOMAIN outbox : outbox[i].job = j => outbox'[i].failed = outbox[i].failed
  PROVE  Phase(j)' = Phase(j)
<1> DEFINE rows == {i \in DOMAIN outbox : outbox[i].job = j}
           new == {i \in DOMAIN outbox' : outbox'[i].job = j}
<1>1. new = rows
  OBVIOUS
<1>2. (\A i \in new : outbox'[i].failed) <=> (\A i \in rows : outbox[i].failed)
  BY <1>1
<1>3. Phase(j) = IF j \notin catalogue THEN "absent"
                 ELSE IF enriched[j] > 0 THEN "done"
                 ELSE IF rows = {} THEN "waiting"
                 ELSE IF \A i \in rows : outbox[i].failed THEN "dead"
                 ELSE "queued"
  BY DEF Phase
<1>4. Phase(j)' = IF j \notin catalogue' THEN "absent"
                  ELSE IF enriched'[j] > 0 THEN "done"
                  ELSE IF new = {} THEN "waiting"
                  ELSE IF \A i \in new : outbox'[i].failed THEN "dead"
                  ELSE "queued"
  BY DEF Phase
<1> HIDE DEF rows, new
<1> QED BY <1>1, <1>2, <1>3, <1>4

(* An insert queues jobs: it moves any number of them to "queued", and one *)
(* that is stored enriched already, or not stored yet, at most to "done".  *)
LEMMA InsertMoves ==
  ASSUME TypeOK, RowsStored, NEW J \in SUBSET Jobs, NEW v \in Versions, Insert(J, v),
         UNCHANGED enriched, catalogue \subseteq catalogue',
         \A j \in catalogue' \ catalogue : enriched[j] = 0 => j \in J,
         NEW j \in Jobs
  PROVE  \/ Phase(j)' = Phase(j)
         \/ Phase(j) \in {"absent", "waiting", "dead"} /\ Phase(j)' = "queued"
         \/ j \in catalogue' \ catalogue /\ Phase(j) = "absent" /\ Phase(j)' = "done"
<1>1. /\ DOMAIN outbox \subseteq DOMAIN outbox'
      /\ \A i \in DOMAIN outbox : outbox'[i] = outbox[i]
      /\ \A i \in DOMAIN outbox' \ DOMAIN outbox : \E k \in J : outbox'[i] = NewRow(k, v)
      /\ \A k \in J : \E i \in DOMAIN outbox' : outbox'[i].job = k
  BY InsertFacts
<1>2. \A i \in DOMAIN outbox' \ DOMAIN outbox : ~outbox'[i].failed
  BY <1>1 DEF NewRow
<1>3. CASE j \in catalogue' \ catalogue
  <2>1. Phase(j) = "absent"
    BY <1>3 DEF Phase
  <2>2. CASE enriched'[j] > 0
    BY <1>3, <2>1, <2>2 DEF Phase
  <2>3. CASE ~(enriched'[j] > 0)
    <3>1. enriched[j] = 0
      BY <2>3, ConstantsAssumption DEF TypeOK
    <3>2. PICK i \in DOMAIN outbox' : outbox'[i].job = j
      BY <1>1, <1>3, <3>1
    <3>3. i \notin DOMAIN outbox
      BY <1>1, <1>3, <3>2 DEF RowsStored
    <3>4. ~outbox'[i].failed
      BY <1>2, <3>2, <3>3
    <3>5. Phase(j)' = "queued"
      BY <1>3, <2>3, <3>2, <3>4 DEF Phase
    <3> QED BY <2>1, <3>5
  <2> QED BY <2>2, <2>3
<1>4. CASE j \in catalogue /\ \E i \in DOMAIN outbox' \ DOMAIN outbox : outbox'[i].job = j
  <2>1. PICK i \in DOMAIN outbox' : outbox'[i].job = j /\ ~outbox'[i].failed
    BY <1>2, <1>4
  <2>2. Phase(j)' = IF enriched[j] > 0 THEN "done" ELSE "queued"
    BY <1>4, <2>1 DEF Phase
  <2>3. Phase(j) = IF enriched[j] > 0 THEN "done" ELSE Phase(j)
    BY <1>4 DEF Phase
  <2>4. Phase(j) \in {"done", "waiting", "dead", "queued"}
    BY <1>4 DEF Phase
  <2>5. enriched[j] > 0 \/ Phase(j) # "done"
    BY DEF Phase
  <2> QED BY <2>2, <2>3, <2>4, <2>5
<1>5. CASE /\ j \in catalogue <=> j \in catalogue'
           /\ ~\E i \in DOMAIN outbox' \ DOMAIN outbox : outbox'[i].job = j
  <2>1. \A i : (i \in DOMAIN outbox /\ outbox[i].job = j)
                 <=> (i \in DOMAIN outbox' /\ outbox'[i].job = j)
    BY <1>1, <1>5
  <2> QED BY <1>1, <1>5, <2>1, SamePhase
<1>6. CASE j \notin catalogue'
  BY <1>6 DEF Phase
<1> QED BY <1>3, <1>4, <1>5, <1>6

(* A write-back finishes the job of the entry, and touches no other.       *)
LEMMA WriteMoves ==
  ASSUME TypeOK, HandsMatchRows, HandsLive, NEW w \in Workers, pc[w] = "write",
         WriteBack(entry[w]), UNCHANGED catalogue
  PROVE  \E b \in Jobs :
           /\ \A j \in Jobs \ {b} : Phase(j)' = Phase(j)
           /\ \/ Phase(b)' = Phase(b)
              \/ Phase(b) \in {"queued", "dead"} /\ Phase(b)' = "done"
<1>0. PICK c : c = entry[w]
  OBVIOUS
<1>1. c.job \in Jobs /\ c.target \in Versions /\ c \in Hands(w)
  BY <1>0, EntryType DEF Working, Hands
<1>2. c.id \in DOMAIN outbox => outbox[c.id].job = c.job
  BY <1>1 DEF HandsMatchRows
<1>3. c.id \in DOMAIN outbox \/ enriched[c.job] > 0
  BY <1>1 DEF HandsLive
<1>4. /\ enriched' = [enriched EXCEPT ![c.job] = c.target]
      /\ outbox' = [i \in DOMAIN outbox \ {c.id} |-> outbox[i]]
  BY <1>0 DEF WriteBack
<1>5. ASSUME NEW j \in Jobs \ {c.job} PROVE Phase(j)' = Phase(j)
  <2>1. enriched'[j] = enriched[j]
    BY <1>1, <1>4 DEF TypeOK
  <2>2. \A i : (i \in DOMAIN outbox /\ outbox[i].job = j)
                 <=> (i \in DOMAIN outbox' /\ outbox'[i].job = j)
    BY <1>2, <1>4
  <2>3. \A i \in DOMAIN outbox : outbox[i].job = j => outbox'[i].failed = outbox[i].failed
    BY <1>2, <1>4
  <2> QED BY <2>1, <2>2, <2>3, SamePhase
<1>6. c.job \notin catalogue => Phase(c.job) = "absent" /\ Phase(c.job)' = "absent"
  BY DEF Phase
<1>7. c.job \in catalogue => Phase(c.job)' = "done"
  <2>1. enriched'[c.job] = c.target /\ c.target > 0
    BY <1>1, <1>4, ConstantsAssumption DEF TypeOK, Versions
  <2> QED BY <2>1 DEF Phase
<1>8. c.job \in catalogue => Phase(c.job) \in {"done", "queued", "dead"}
  BY <1>2, <1>3 DEF Phase
<1> QED BY <1>1, <1>5, <1>6, <1>7, <1>8

(* A failure at most gives up the job of the entry, and touches no other.  *)
LEMMA CountMoves ==
  ASSUME TypeOK, DeadIffExhausted, UNCHANGED <<catalogue, enriched>>, NEW k,
         outbox' = [i \in DOMAIN outbox |-> IF i = k THEN CountFailure(outbox[i])
                                            ELSE outbox[i]]
  PROVE  \/ \A j \in Jobs : Phase(j)' = Phase(j)
         \/ \E b \in Jobs : /\ \A j \in Jobs \ {b} : Phase(j)' = Phase(j)
                            /\ Phase(b) = "queued" /\ Phase(b)' = "dead"
<1>1. CASE k \notin DOMAIN outbox
  <2>1. \A i \in DOMAIN outbox : outbox'[i] = outbox[i]
    BY <1>1
  <2>2. DOMAIN outbox' = DOMAIN outbox
    OBVIOUS
  <2> QED BY <2>1, <2>2, SamePhase
<1>2. CASE k \in DOMAIN outbox
  <2>0. PICK b : b = outbox[k].job
    OBVIOUS
  <2>1. outbox[k] \in Row /\ b \in Jobs
    BY <1>2, <2>0 DEF TypeOK, Row
  <2>2. DOMAIN outbox' = DOMAIN outbox /\ outbox'[k].job = b
    BY <1>2, <2>0, <2>1, CountedRow
  <2>3. \A i \in DOMAIN outbox \ {k} : outbox'[i] = outbox[i]
    OBVIOUS
  <2>4. outbox[k].failed => outbox'[k].failed
    <3>1. outbox'[k].failed <=> outbox[k].attempts + 1 >= MaxAttempts
      BY <1>2, <2>1, CountedRow
    <3>2. outbox[k].attempts \in Nat
      BY <2>1 DEF Row
    <3> QED BY <1>2, <3>1, <3>2, ConstantsAssumption DEF DeadIffExhausted
  <2>5. ASSUME NEW j \in Jobs \ {b} PROVE Phase(j)' = Phase(j)
    <3>1. \A i : (i \in DOMAIN outbox /\ outbox[i].job = j)
                   <=> (i \in DOMAIN outbox' /\ outbox'[i].job = j)
      BY <2>0, <2>2, <2>3
    <3>2. \A i \in DOMAIN outbox : outbox[i].job = j => outbox'[i].failed = outbox[i].failed
      BY <2>0, <2>3
    <3> QED BY <3>1, <3>2, SamePhase
  <2>6. \/ Phase(b)' = Phase(b)
        \/ Phase(b) = "queued" /\ Phase(b)' = "dead"
    <3> DEFINE rows == {i \in DOMAIN outbox : outbox[i].job = b}
    <3>1. {i \in DOMAIN outbox' : outbox'[i].job = b} = rows
      BY <2>0, <2>2, <2>3
    <3>2. Phase(b) = IF b \notin catalogue THEN "absent"
                     ELSE IF enriched[b] > 0 THEN "done"
                     ELSE IF rows = {} THEN "waiting"
                     ELSE IF \A i \in rows : outbox[i].failed THEN "dead"
                     ELSE "queued"
      BY DEF Phase
    <3>3. Phase(b)' = IF b \notin catalogue THEN "absent"
                      ELSE IF enriched[b] > 0 THEN "done"
                      ELSE IF rows = {} THEN "waiting"
                      ELSE IF \A i \in rows : outbox'[i].failed THEN "dead"
                      ELSE "queued"
      BY <3>1 DEF Phase
    <3>4. (\A i \in rows : outbox[i].failed) => \A i \in rows : outbox'[i].failed
      BY <2>3, <2>4
    <3> HIDE DEF rows
    <3> QED BY <3>2, <3>3, <3>4
  <2> QED BY <1>2, <2>1, <2>5, <2>6
<1> QED BY <1>1, <1>2

(* Those two hold throughout.                                              *)
LEMMA HandsAndRows == Spec => [](RowsStored /\ HandsLive)
<1>1. Init => RowsStored /\ HandsLive
  BY DEF Init, RowsStored, HandsLive, Hands, Working
<1>2. IInv /\ RowsStored /\ HandsLive /\ [Next]_vars => RowsStored' /\ HandsLive'
  BY RowsStoredStep, HandsLiveStep DEF IInv
<1> QED BY <1>1, <1>2, InvariantCorrect, PTL DEF Spec

(* A stored job stays stored, an enriched one enriched; a queue entry is   *)
(* finished or given up, and a dead one revived only by a new target       *)
(* version or a late write-back.                                           *)
THEOREM ImplementsWorkQueue == Spec => KeepsPromiseSafely
<1> DEFINE phase == [j \in Jobs |-> Phase(j)]
<1>1. Init => Promise!Init
  <2> SUFFICES ASSUME Init PROVE Promise!Init
    OBVIOUS
  <2>1. \A j \in Jobs : Phase(j) \in {"absent", "waiting"}
    BY DEF Init, Phase
  <2> QED BY <2>1 DEF Promise!Init
<1>2. IInv /\ RowsStored /\ HandsLive /\ [Next]_vars => [Promise!Next]_phase
  <2> SUFFICES ASSUME IInv, RowsStored, HandsLive, [Next]_vars, phase' # phase
               PROVE  Promise!Next
    OBVIOUS
  <2>0. TypeOK /\ HandsMatchRows /\ DeadIffExhausted
    BY DEF IInv, HandsInv
  <2>1. ASSUME NEW b \in Jobs, \A j \in Jobs \ {b} : Phase(j)' = Phase(j)
        PROVE  phase' = [phase EXCEPT ![b] = Phase(b)']
    <3> DEFINE next == Phase(b)'
    <3>1. next = Phase(b)'
      OBVIOUS
    <3> HIDE DEF next
    <3>2. \A j \in Jobs : Phase(j)' = IF j = b THEN next ELSE Phase(j)
      BY <2>1, <3>1
    <3>3. phase' = [phase EXCEPT ![b] = next]
      BY <3>2
    <3> QED BY <3>1, <3>3
  <2>2. ASSUME NEW b \in Jobs, \A j \in Jobs \ {b} : Phase(j)' = Phase(j),
               Phase(b) \in {"absent", "queued", "dead"}, Phase(b)' = "done"
        PROVE  Promise!Next
    BY <2>1, <2>2 DEF Promise!Next, Promise!Finish, Promise!Move
  <2>3. ASSUME NEW b \in Jobs, \A j \in Jobs \ {b} : Phase(j)' = Phase(j),
               Phase(b) = "queued", Phase(b)' = "dead"
        PROVE  Promise!Next
    BY <2>1, <2>3 DEF Promise!Next, Promise!GiveUp, Promise!Move
  <2>4. ASSUME \A j \in Jobs :
                 \/ Phase(j)' = Phase(j)
                 \/ Phase(j) \in {"absent", "waiting", "dead"} /\ Phase(j)' = "queued"
        PROVE  Promise!Next
    <3> DEFINE S == {j \in Jobs : Phase(j)' # Phase(j)}
    <3>1. S \in SUBSET {j \in Jobs : phase[j] \in {"absent", "waiting", "dead"}}
      BY <2>4
    <3>2. phase' = [j \in Jobs |-> IF j \in S THEN "queued" ELSE phase[j]]
      BY <2>4
    <3>3. Promise!Queue
      BY <3>1, <3>2 DEF Promise!Queue
    <3> QED BY <3>3 DEF Promise!Next
  <2>5. ASSUME NEW j \in Jobs, NEW v \in Versions, catalogue' = catalogue \cup {j},
               Insert({x \in {j} : NeedsEnrichment(x, v)}, v), UNCHANGED enriched
        PROVE  Promise!Next
    <3> DEFINE J == {x \in {j} : NeedsEnrichment(x, v)}
    <3>1. J \in SUBSET Jobs /\ \A x \in catalogue' \ catalogue : enriched[x] = 0 => x \in J
      BY <2>5, ConstantsAssumption DEF NeedsEnrichment, Versions
    <3>2. \A x \in Jobs :
            \/ Phase(x)' = Phase(x)
            \/ Phase(x) \in {"absent", "waiting", "dead"} /\ Phase(x)' = "queued"
            \/ x \in catalogue' \ catalogue /\ Phase(x) = "absent" /\ Phase(x)' = "done"
      <4> HIDE DEF J
      <4>1. Insert(J, v) /\ catalogue \subseteq catalogue'
        BY <2>5 DEF J
      <4> QED BY <2>0, <2>5, <3>1, <4>1, InsertMoves
    <3>3. CASE Phase(j) = "absent" /\ Phase(j)' = "done"
      <4>1. \A x \in Jobs \ {j} : Phase(x)' = Phase(x)
        <5> TAKE x \in Jobs \ {j}
        <5>1. (x \in catalogue) <=> (x \in catalogue')
          BY <2>5
        <5>2. enriched'[x] = enriched[x]
          BY <2>5
        <5>3. /\ DOMAIN outbox \subseteq DOMAIN outbox'
              /\ \A i \in DOMAIN outbox : outbox'[i] = outbox[i]
              /\ \A i \in DOMAIN outbox' \ DOMAIN outbox : \E k \in J : outbox'[i] = NewRow(k, v)
          BY <2>0, <2>5, <3>1, InsertFacts
        <5>4. \A i \in DOMAIN outbox' \ DOMAIN outbox : outbox'[i].job # x
          BY <5>3 DEF NewRow
        <5>5. \A i : (i \in DOMAIN outbox /\ outbox[i].job = x)
                       <=> (i \in DOMAIN outbox' /\ outbox'[i].job = x)
          BY <5>3, <5>4
        <5> QED BY <5>1, <5>2, <5>3, <5>5, SamePhase
      <4> QED BY <2>2, <3>3, <4>1
    <3>4. CASE ~(Phase(j) = "absent" /\ Phase(j)' = "done")
      <4>1. \A x \in catalogue' \ catalogue : x = j
        BY <2>5
      <4> QED BY <2>4, <3>2, <3>4, <4>1
    <3> QED BY <3>3, <3>4
  <2>6. ASSUME NEW w \in Workers, UNCHANGED <<catalogue, enriched>>,
               Insert(pending[w], version[w])
        PROVE  Promise!Next
    <3>1. pending[w] \in SUBSET Jobs /\ version[w] \in Versions
      BY <2>0 DEF TypeOK
    <3>2. \A x \in Jobs :
            \/ Phase(x)' = Phase(x)
            \/ Phase(x) \in {"absent", "waiting", "dead"} /\ Phase(x)' = "queued"
            \/ x \in catalogue' \ catalogue /\ Phase(x) = "absent" /\ Phase(x)' = "done"
      BY <2>0, <2>6, <3>1, InsertMoves
    <3> QED BY <2>4, <2>6, <3>2
  <2>7. CASE Inserts
    BY <2>5, <2>6, <2>7 DEF Inserts
  <2>8. CASE Writes
    <3>1. PICK w \in Workers : pc[w] = "write" /\ WriteBack(entry[w]) /\ UNCHANGED catalogue
      BY <2>8 DEF Writes
    <3>2. PICK b \in Jobs :
            /\ \A j \in Jobs \ {b} : Phase(j)' = Phase(j)
            /\ \/ Phase(b)' = Phase(b)
               \/ Phase(b) \in {"queued", "dead"} /\ Phase(b)' = "done"
      BY <2>0, <3>1, WriteMoves
    <3>3. CASE Phase(b)' = Phase(b)
      BY <2>4, <3>2, <3>3
    <3>4. CASE Phase(b) \in {"queued", "dead"} /\ Phase(b)' = "done"
      <4>1. Phase(b) \in {"absent", "queued", "dead"}
        BY <3>4
      <4> QED BY <2>2, <3>2, <3>4, <4>1
    <3> QED BY <3>2, <3>3, <3>4
  <2>9. CASE Counts
    <3>0. PICK w \in Workers :
            outbox' = [i \in DOMAIN outbox |->
                        IF i = entry[w].id THEN CountFailure(outbox[i]) ELSE outbox[i]]
      BY <2>9 DEF Counts
    <3>1. PICK k : k = entry[w].id
      OBVIOUS
    <3>2. \/ \A j \in Jobs : Phase(j)' = Phase(j)
          \/ \E b \in Jobs : /\ \A j \in Jobs \ {b} : Phase(j)' = Phase(j)
                             /\ Phase(b) = "queued" /\ Phase(b)' = "dead"
      BY <2>0, <2>9, <3>0, <3>1, CountMoves DEF Counts
    <3> QED BY <2>3, <2>4, <3>2
  <2>10. CASE Leaves
    BY <2>10, SamePhase DEF Leaves
  <2> QED BY <2>0, <2>7, <2>8, <2>9, <2>10, QueueWrites
<1> QED BY <1>1, <1>2, InvariantCorrect, HandsAndRows, PTL DEF Spec, KeepsPromiseSafely, Promise!Safe

==============================================================================
