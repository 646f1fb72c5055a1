--------------------------- MODULE FetchingProofs ---------------------------
(***************************************************************************)
(* Proofs about Fetching, for every adapter of the registry, any board and *)
(* page size, any number of workers and retries, and any changes of the    *)
(* board while it is fetched.                                              *)
(***************************************************************************)
EXTENDS Fetching, FiniteSetTheorems, TLAPS

-----------------------------------------------------------------------------
(* The inductive invariant.                                                *)

TypeInv ==
  /\ adapter \in All /\ server \in Servers
  /\ board \in Seq(Postings) /\ IsInjective(board)
  /\ steady \subseteq Range(board)
  /\ phase \in {"start", "prelim", "list", "english", "details"} \cup Ended
  /\ position \in Nat /\ shifted \in BOOLEAN
  /\ received \subseteq Postings
  /\ jobs \subseteq received /\ todo \subseteq received /\ dropped \subseteq received
  /\ transients \in Nat /\ finals \in Nat
  /\ longest \in 0..MaxDelay

(* One request at a time until the details are asked for, and then no more *)
(* than the workers take; and none has failed more often than requests     *)
(* have.                                                                   *)
RequestsInv ==
  /\ attempts \in [DOMAIN attempts -> 0..MaxRetries]
  /\ \A q \in DOMAIN attempts : attempts[q] <= transients
  /\ IF phase \in {"prelim", "list", "english"} THEN DOMAIN attempts = {Listing}
     ELSE /\ DOMAIN attempts \subseteq received
          /\ IsFiniteSet(DOMAIN attempts) /\ Cardinality(DOMAIN attempts) <= Workers
  /\ phase \in {"start", "done"} => DOMAIN attempts = {}
  /\ phase = "english" => adapter.details = "fill"
  /\ phase = "done" => todo = {}

(* While nothing has been withdrawn from what it has passed, the fetch has *)
(* received every steady posting up to its position; and, where new        *)
(* postings would shift the rest too, nothing from beyond it.              *)
Undisturbed == server = "honest" /\ ~shifted

ListingInv ==
  /\ phase \in {"start", "prelim"} => position = 0 /\ received = {}
  /\ Undisturbed /\ phase = "list" =>
       /\ \A n \in DOMAIN board : n <= position /\ board[n] \in steady => board[n] \in received
       /\ adapter.paging = "fresh" =>
            \A p \in received : \E n \in DOMAIN board : n <= position /\ board[n] = p

(* Afterwards a steady posting is in the result, on its way there, or its  *)
(* details have failed.                                                    *)
DetailsInv ==
  Undisturbed /\ phase \in {"english", "details", "done"} =>
    \/ adapter.paging = "fresh" /\ cut # "no"
    \/ Wanted(steady) \subseteq
         IF adapter.details \in {"none", "fill"} THEN jobs
         ELSE jobs \cup dropped \cup todo \cup DOMAIN attempts

IInv == /\ TypeInv
        /\ RequestsInv
        /\ ListingInv
        /\ DetailsInv
        /\ Tolerates

-----------------------------------------------------------------------------
(* A board with a posting more, and with one less.                         *)

LEMMA PartFacts ==
  ASSUME NEW S, NEW s \in Seq(S), NEW a \in Nat \ {0}, NEW b \in Nat, b <= Len(s), a <= b + 1
  PROVE  /\ SubSeq(s, a, b) \in Seq(S) /\ Len(SubSeq(s, a, b)) = b - a + 1
         /\ \A k \in 1..(b - a + 1) : SubSeq(s, a, b)[k] = s[a + k - 1]
<1>1. SubSeq(s, a, b) = [i \in 1..(b - a + 1) |-> s[a + i - 1]]
  OBVIOUS
<1> QED BY <1>1

LEMMA JoinFacts ==
  ASSUME NEW S, NEW s \in Seq(S), NEW t \in Seq(S)
  PROVE  /\ s \o t \in Seq(S) /\ Len(s \o t) = Len(s) + Len(t)
         /\ \A k \in 1..Len(s) : (s \o t)[k] = s[k]
         /\ \A k \in 1..Len(t) : (s \o t)[Len(s) + k] = t[k]
  OBVIOUS

LEMMA InsertFacts ==
  ASSUME NEW S, NEW s \in Seq(S), NEW n \in 1..(Len(s) + 1), NEW e \in S,
         NEW t, t = InsertAt(s, n, e)
  PROVE  /\ t \in Seq(S) /\ Len(t) = Len(s) + 1
         /\ \A k \in 1..(n - 1) : t[k] = s[k]
         /\ t[n] = e
         /\ \A k \in n..Len(s) : t[k + 1] = s[k]
<1>1. PICK a : a = SubSeq(s, 1, n - 1)
  OBVIOUS
<1>2. PICK b : b = SubSeq(s, n, Len(s))
  OBVIOUS
<1>3. PICK c : c = a \o <<e>>
  OBVIOUS
<1>4. t = c \o b /\ Len(s) \in Nat
  BY <1>1, <1>2, <1>3 DEF InsertAt
<1>5. /\ a \in Seq(S) /\ Len(a) = n - 1
      /\ \A k \in 1..(n - 1) : a[k] = s[k]
  <2>1. n - 1 \in Nat /\ n - 1 <= Len(s) /\ 1 <= n - 1 + 1
    BY <1>4
  <2>2. /\ a \in Seq(S) /\ Len(a) = (n - 1) - 1 + 1
        /\ \A k \in 1..((n - 1) - 1 + 1) : a[k] = s[1 + k - 1]
    BY <1>1, <2>1, PartFacts
  <2> QED BY <2>2
<1>6. /\ b \in Seq(S) /\ Len(b) = Len(s) - n + 1
      /\ \A k \in 1..(Len(s) - n + 1) : b[k] = s[n + k - 1]
  <2>1. n \in Nat \ {0} /\ Len(s) <= Len(s) /\ n <= Len(s) + 1
    BY <1>4
  <2> QED BY <1>2, <1>4, <2>1, PartFacts
<1>7. /\ c \in Seq(S) /\ Len(c) = n /\ c[n] = e
      /\ \A k \in 1..(n - 1) : c[k] = a[k]
  <2>1. <<e>> \in Seq(S) /\ Len(<<e>>) = 1 /\ <<e>>[1] = e
    OBVIOUS
  <2>2. PICK d : d = <<e>>
    OBVIOUS
  <2>3. /\ c \in Seq(S) /\ Len(c) = Len(a) + Len(d)
        /\ \A k \in 1..Len(a) : c[k] = a[k]
        /\ \A k \in 1..Len(d) : c[Len(a) + k] = d[k]
    BY <1>3, <1>5, <2>1, <2>2, JoinFacts
  <2>4. c[Len(a) + 1] = e
    BY <2>1, <2>2, <2>3
  <2> QED BY <1>5, <2>1, <2>2, <2>3, <2>4
<1>8. /\ t \in Seq(S) /\ Len(t) = Len(c) + Len(b)
      /\ \A k \in 1..Len(c) : t[k] = c[k]
      /\ \A k \in 1..Len(b) : t[Len(c) + k] = b[k]
  BY <1>4, <1>6, <1>7, JoinFacts
<1>9. Len(t) = Len(s) + 1
  BY <1>4, <1>6, <1>7, <1>8
<1>10. \A k \in 1..(n - 1) : t[k] = s[k]
  BY <1>5, <1>7, <1>8
<1>11. t[n] = e
  BY <1>7, <1>8
<1>12. ASSUME NEW k \in n..Len(s) PROVE t[k + 1] = s[k]
  <2>1. PICK m : m = k - n + 1
    OBVIOUS
  <2>2. m \in 1..(Len(s) - n + 1) /\ n + m = k + 1 /\ n + m - 1 = k
    BY <1>4, <2>1
  <2>3. t[n + m] = b[m] /\ b[m] = s[n + m - 1]
    BY <1>6, <1>7, <1>8, <2>2
  <2> QED BY <2>2, <2>3
<1> QED BY <1>8, <1>9, <1>10, <1>11, <1>12

Removed(S, s, n, t) ==
  /\ t \in Seq(S) /\ Len(t) = Len(s) - 1
  /\ \A k \in 1..(n - 1) : t[k] = s[k]
  /\ \A k \in n..(Len(s) - 1) : t[k] = s[k + 1]

LEMMA RemoveFacts ==
  ASSUME NEW S, NEW s \in Seq(S), NEW n \in 1..Len(s), NEW t, t = RemoveAt(s, n)
  PROVE  Removed(S, s, n, t)
<1>1. PICK a : a = SubSeq(s, 1, n - 1)
  OBVIOUS
<1>2. PICK b : b = SubSeq(s, n + 1, Len(s))
  OBVIOUS
<1>3. t = a \o b /\ Len(s) \in Nat
  BY <1>1, <1>2 DEF RemoveAt
<1>4. /\ a \in Seq(S) /\ Len(a) = n - 1
      /\ \A k \in 1..(n - 1) : a[k] = s[k]
  <2>1. n - 1 \in Nat /\ n - 1 <= Len(s) /\ 1 <= n - 1 + 1
    BY <1>3
  <2>2. /\ a \in Seq(S) /\ Len(a) = (n - 1) - 1 + 1
        /\ \A k \in 1..((n - 1) - 1 + 1) : a[k] = s[1 + k - 1]
    BY <1>1, <2>1, PartFacts
  <2> QED BY <2>2
<1>5. /\ b \in Seq(S) /\ Len(b) = Len(s) - n
      /\ \A k \in 1..(Len(s) - n) : b[k] = s[n + k]
  <2>1. n + 1 \in Nat \ {0} /\ Len(s) <= Len(s) /\ n + 1 <= Len(s) + 1
    BY <1>3
  <2>2. /\ b \in Seq(S) /\ Len(b) = Len(s) - (n + 1) + 1
        /\ \A k \in 1..(Len(s) - (n + 1) + 1) : b[k] = s[(n + 1) + k - 1]
    BY <1>2, <1>3, <2>1, PartFacts
  <2>3. Len(s) - (n + 1) + 1 = Len(s) - n /\ \A k \in Nat : (n + 1) + k - 1 = n + k
    BY <1>3
  <2> QED BY <1>3, <2>2, <2>3
<1>6. /\ t \in Seq(S) /\ Len(t) = Len(a) + Len(b)
      /\ \A k \in 1..Len(a) : t[k] = a[k]
      /\ \A k \in 1..Len(b) : t[Len(a) + k] = b[k]
  <2>1. t = a \o b /\ a \in Seq(S) /\ b \in Seq(S)
    BY <1>3, <1>4, <1>5
  <2> QED BY ONLY <2>1, JoinFacts
<1>7. Len(t) = Len(s) - 1
  <2>1. Len(t) = (n - 1) + (Len(s) - n)
    BY <1>4, <1>5, <1>6
  <2> QED BY <1>3, <2>1
<1>8. \A k \in 1..(n - 1) : t[k] = s[k]
  BY <1>4, <1>6
<1>9. ASSUME NEW k \in n..(Len(s) - 1) PROVE t[k] = s[k + 1]
  <2>1. PICK m : m = k - n + 1
    OBVIOUS
  <2>2. m \in 1..(Len(s) - n) /\ (n - 1) + m = k /\ n + m = k + 1
    BY <1>3, <2>1
  <2>3. t[(n - 1) + m] = b[m] /\ b[m] = s[n + m]
    BY <1>4, <1>5, <1>6, <2>2
  <2> QED BY <2>2, <2>3
<1> QED BY <1>6, <1>7, <1>8, <1>9 DEF Removed

-----------------------------------------------------------------------------
(* The registry.                                                           *)

Adapter ==
  [parses : BOOLEAN, prelim : BOOLEAN,
   paging : {"whole", "received", "counted", "offset", "cursor", "fresh"},
   picks : BOOLEAN, named : BOOLEAN, details : {"none", "pool", "paced", "fill"}]

LEMMA AdapterFacts == All \subseteq Adapter
<1> USE DEF Adapter
<1>1. Listed \in Adapter
  BY DEF Listed
<1>2. Detailed \in Adapter
  BY <1>1 DEF Detailed
<1>3. {Greenhouse, Lever, Ashby, Workable, Recruitee, Pinpoint} \subseteq Adapter
  BY <1>1 DEF Greenhouse, Lever, Ashby, Workable, Recruitee, Pinpoint
<1>4. Personio \in Adapter /\ Sber \in Adapter /\ Kuper \in Adapter
  BY <1>1 DEF Personio, Sber, Kuper
<1>5. AlfaBank \in Adapter
  BY <1>1 DEF AlfaBank
<1>6. VK \in Adapter
  BY <1>1 DEF VK
<1>7. {Rippling, BambooHR, Breezy, Gem, Aviasales, Dodo, Domclick} \subseteq Adapter
  BY <1>2 DEF Rippling, BambooHR, Breezy, Gem, Aviasales, Dodo, Domclick
<1>8. MtsLink \in Adapter /\ Huntflow \in Adapter /\ SuccessFactors \in Adapter
  BY <1>2 DEF MtsLink, Huntflow, SuccessFactors
<1>9. SmartRecruiters \in Adapter /\ Lamoda \in Adapter /\ RWB \in Adapter
      /\ Join \in Adapter /\ TBank \in Adapter
  BY <1>2 DEF SmartRecruiters, Lamoda, RWB, Join, TBank
<1>10. Workday \in Adapter
  BY <1>2 DEF Workday
<1>11. Ozon \in Adapter
  BY <1>2 DEF Ozon
<1>12. MTS \in Adapter
  BY <1>2 DEF MTS
<1>13. Yandex \in Adapter
  BY <1>2 DEF Yandex
<1>14. Teamtailor \in Adapter
  BY <1>2 DEF Teamtailor
<1> HIDE DEF Adapter
<1> QED BY <1>3, <1>4, <1>5, <1>6, <1>7, <1>8, <1>9, <1>10, <1>11, <1>12, <1>13, <1>14
        DEF All

-----------------------------------------------------------------------------
(* A page of the listing.                                                  *)

LEMMA TypeFacts ==
  ASSUME TypeInv
  PROVE  /\ adapter.paging \in {"whole", "received", "counted", "offset", "cursor", "fresh"}
         /\ adapter.details \in {"none", "pool", "paced", "fill"}
         /\ Len(board) \in Nat /\ DOMAIN board = 1..Len(board)
         /\ \A n \in DOMAIN board : board[n] \in Postings
         /\ \A m, n \in DOMAIN board : board[m] = board[n] => m = n
         /\ position \in Nat /\ PageSize \in Nat /\ PageSize > 0
         /\ Len(board) \in Int
<1>1. adapter \in Adapter
  BY AdapterFacts DEF TypeInv
<1>2. board \in Seq(Postings) /\ IsInjective(board)
  BY DEF TypeInv
<1> QED BY <1>1, <1>2, FetchingAssumption DEF TypeInv, Adapter, IsInjective

LEMMA PageType ==
  ASSUME TypeInv
  PROVE  /\ Page \subseteq Range(board) /\ Page \subseteq Postings
         /\ IsFiniteSet(Page) /\ Cardinality(Page) \in Nat
         /\ adapter.paging # "whole" => Cardinality(Page) <= PageSize
<1> DEFINE from == IF server = "stale" THEN 0 ELSE position
           to == IF adapter.paging = "whole" THEN Len(board) ELSE from + PageSize
           I == {n \in DOMAIN board : from < n /\ n <= to}
<1>1. from \in Nat /\ to \in Nat
  BY TypeFacts
<1>2. Page = {board[n] : n \in I}
  BY DEF Page
<1>3. /\ Len(board) \in Nat /\ DOMAIN board = 1..Len(board)
      /\ \A n \in DOMAIN board : board[n] \in Postings
      /\ PageSize \in Nat
  BY TypeFacts
<1>4. adapter.paging # "whole" => to = from + PageSize
  OBVIOUS
<1> HIDE DEF from, to
<1>5. I \subseteq (from + 1)..to
  BY <1>1, <1>3
<1>6. /\ IsFiniteSet((from + 1)..to)
      /\ adapter.paging # "whole" => Cardinality((from + 1)..to) <= PageSize
  <2>1. from + 1 \in Int /\ to \in Int
    BY <1>1
  <2>2. IsFiniteSet((from + 1)..to) /\
        Cardinality((from + 1)..to) = IF from + 1 > to THEN 0 ELSE to - (from + 1) + 1
    BY <2>1, FS_Interval
  <2> QED BY <1>1, <1>3, <1>4, <2>2
<1>7. /\ IsFiniteSet(I) /\ Cardinality(I) \in Nat
      /\ Cardinality(I) <= Cardinality((from + 1)..to)
  BY <1>5, <1>6, FS_Subset, FS_CardinalityType
<1>8. Cardinality((from + 1)..to) \in Nat
  BY <1>6, FS_CardinalityType
<1>9. PICK f : f = [n \in I |-> board[n]]
  OBVIOUS
<1>10. f \in Surjection(I, Page)
  BY <1>2, <1>9 DEF Surjection
<1> HIDE DEF I
<1>11. /\ IsFiniteSet(Page) /\ Cardinality(Page) \in Nat
       /\ Cardinality(Page) <= Cardinality(I)
  BY <1>7, <1>10, FS_Surjection, FS_CardinalityType
<1>12. Page \subseteq Range(board) /\ Page \subseteq Postings
  BY <1>2, <1>3 DEF Range, I
<1>13. adapter.paging # "whole" => Cardinality(Page) <= PageSize
  BY <1>3, <1>6, <1>7, <1>8, <1>11
<1> QED BY <1>11, <1>12, <1>13

(* What a page of an honest server holds.                                  *)
LEMMA PageHolds ==
  ASSUME TypeInv, server = "honest"
  PROVE  /\ adapter.paging = "whole" => \A n \in DOMAIN board : n > position => board[n] \in Page
         /\ adapter.paging # "whole" =>
              /\ \A n \in DOMAIN board : n > position /\ n <= position + PageSize => board[n] \in Page
              /\ \A p \in Page : \E n \in DOMAIN board :
                   n > position /\ n <= position + PageSize /\ board[n] = p
              /\ Page = {} => \A n \in DOMAIN board : n <= position
<1>1. adapter.paging = "whole" =>
        Page = {board[n] : n \in {n \in DOMAIN board : position < n /\ n <= Len(board)}}
  BY DEF Page
<1>2. adapter.paging # "whole" =>
        Page = {board[n] : n \in {n \in DOMAIN board : position < n /\ n <= position + PageSize}}
  BY DEF Page
<1>3. \A n \in DOMAIN board : n \in Nat /\ n <= Len(board) /\ (n > position <=> position < n)
  BY TypeFacts
<1>4. ASSUME adapter.paging # "whole", Page = {}, NEW n \in DOMAIN board, ~(n <= position)
      PROVE  FALSE
  <2>1. position + 1 \in DOMAIN board /\ position < position + 1 /\ position + 1 <= position + PageSize
    BY <1>4, TypeFacts
  <2>2. board[position + 1] \in Page
    BY <1>2, <1>4, <2>1
  <2> QED BY <1>4, <2>2
<1> QED BY <1>1, <1>2, <1>3, <1>4

LEMMA NextType ==
  ASSUME TypeInv, NEW next \in NextPositions
  PROVE  next \in Nat
<1>1. position + Cardinality(Page) \in Nat /\ position + PageSize \in Nat
  BY TypeFacts, PageType
<1> QED BY <1>1, TypeFacts DEF NextPositions, Received, Counted, Offset, Cursor, Fresh

(* Every adapter goes on where an honest server's page ends, and stops     *)
(* where its listing does; the one that stops when nothing is new goes on  *)
(* by whole pages.                                                         *)
LEMMA NextFacts ==
  ASSUME TypeInv, server = "honest"
  PROVE  /\ \A next \in NextPositions : \A n \in DOMAIN board :
              n > position /\ n <= next => board[n] \in Page
         /\ NextPositions = {} /\ adapter.paging # "fresh" =>
              \A n \in DOMAIN board : n > position => board[n] \in Page
         /\ adapter.paging = "fresh" => NextPositions \subseteq {position + PageSize}
<1>1. Total = Len(board)
  BY TypeFacts DEF Total
<1>2. /\ Cardinality(Page) \in Nat /\ (Cardinality(Page) = 0 <=> Page = {})
      /\ adapter.paging # "whole" => Cardinality(Page) <= PageSize
  BY PageType, FS_EmptySet
<1>3. \A n \in DOMAIN board : n \in Nat /\ n <= Len(board)
  BY TypeFacts
<1>4. position \in Nat /\ PageSize \in Nat /\ PageSize > 0 /\ Len(board) \in Nat
  BY TypeFacts
<1>5. CASE adapter.paging = "whole"
  BY <1>5, PageHolds DEF NextPositions
<1>6. ASSUME adapter.paging # "whole"
      PROVE  \A n \in DOMAIN board : /\ n > position /\ n <= position + PageSize => board[n] \in Page
                                     /\ n > position /\ n <= position + Cardinality(Page) => board[n] \in Page
                                     /\ Page = {} => n <= position
  BY <1>2, <1>3, <1>4, <1>6, PageHolds
<1>7. CASE adapter.paging = "received"
  <2>1. NextPositions = IF Page = {} \/ position + Cardinality(Page) >= Len(board) THEN {}
                        ELSE {position + Cardinality(Page)}
    BY <1>1, <1>7 DEF NextPositions, Received
  <2> QED BY <1>2, <1>3, <1>4, <1>6, <1>7, <2>1
<1>8. CASE adapter.paging = "counted"
  <2>1. NextPositions = IF position + PageSize >= Len(board) THEN {} ELSE {position + PageSize}
    BY <1>1, <1>8 DEF NextPositions, Counted
  <2> QED BY <1>3, <1>4, <1>6, <1>8, <2>1
<1>9. CASE adapter.paging = "offset"
  <2>1. NextPositions = IF \/ position + Cardinality(Page) >= Len(board)
                           \/ ~(position + Cardinality(Page) > position)
                        THEN {} ELSE {position + Cardinality(Page)}
    BY <1>1, <1>9 DEF NextPositions, Offset, Advances
  <2>2. ~(position + Cardinality(Page) > position) => Page = {}
    BY <1>2, <1>4
  <2> QED BY <1>2, <1>3, <1>4, <1>6, <1>9, <2>1, <2>2
<1>10. CASE adapter.paging = "cursor"
  <2>1. NextPositions = IF position + PageSize < Len(board) THEN {position + PageSize} ELSE {}
    BY <1>1, <1>10 DEF NextPositions, Cursor
  <2> QED BY <1>3, <1>4, <1>6, <1>10, <2>1
<1>11. CASE adapter.paging = "fresh"
  <2>1. NextPositions \subseteq {position + PageSize}
    BY <1>11 DEF NextPositions, Fresh
  <2> QED BY <1>6, <1>11, <2>1
<1> QED BY <1>5, <1>7, <1>8, <1>9, <1>10, <1>11, TypeFacts

-----------------------------------------------------------------------------
(* What a step makes of the requests, and of the details there are.        *)

LEMMA AskingFacts ==
  ASSUME NEW q, Asking(q)
  PROVE  /\ DOMAIN attempts' = {q}
         /\ attempts' \in [DOMAIN attempts' -> 0..MaxRetries]
         /\ \A x \in DOMAIN attempts' : attempts'[x] = 0
  BY FetchingAssumption DEF Asking

LEMMA NotAskingFacts ==
  ASSUME RequestsInv, NEW q, NotAsking(q)
  PROVE  /\ DOMAIN attempts' = DOMAIN attempts \ {q}
         /\ attempts' \in [DOMAIN attempts' -> 0..MaxRetries]
         /\ \A x \in DOMAIN attempts' : attempts'[x] = attempts[x]
  BY DEF NotAsking, RequestsInv

(* A request fails for good only if it has failed once more than it is     *)
(* retried, or in a way that is not retried.                               *)
LEMMA FailsFacts ==
  ASSUME TypeInv, RequestsInv, NEW q, Fails(q)
  PROVE  /\ q \in DOMAIN attempts
         /\ transients' \in Nat /\ transients' >= transients
         /\ finals' \in Nat /\ finals' >= finals
         /\ finals' > 0 \/ transients' > MaxRetries
         /\ longest' = longest
<1>1. q \in DOMAIN attempts /\ longest' = longest
  BY DEF Fails
<1>2. attempts[q] \in 0..MaxRetries /\ attempts[q] <= transients /\ transients \in Nat /\ finals \in Nat
  BY <1>1 DEF TypeInv, RequestsInv
<1>3. MaxRetries \in Nat
  BY FetchingAssumption
<1>4. CASE ~MayRetry(q) /\ transients' = transients + 1 /\ finals' = finals
  BY <1>1, <1>2, <1>3, <1>4 DEF MayRetry
<1>5. CASE finals' = finals + 1 /\ transients' = transients
  BY <1>1, <1>2, <1>5
<1> QED BY <1>4, <1>5 DEF Fails

LEMMA WantedFacts ==
  /\ \A P : Wanted(P) \subseteq P
  /\ \A P, Q : P \subseteq Q => Wanted(P) \subseteq Wanted(Q)
  BY DEF Wanted

LEMMA DetailsFacts ==
  ASSUME NEW P, Details(P)
  PROVE  /\ phase' \in {"english", "details"}
         /\ jobs' \subseteq P /\ todo' \subseteq P
         /\ attempts' \in [DOMAIN attempts' -> 0..MaxRetries]
         /\ \A x \in DOMAIN attempts' : attempts'[x] = 0
         /\ phase' = "english" => adapter.details = "fill"
         /\ IF phase' = "english" THEN DOMAIN attempts' = {Listing} ELSE DOMAIN attempts' = {}
         /\ Wanted(P) \subseteq IF adapter.details \in {"none", "fill"} THEN jobs' ELSE todo'
<1>1. CASE adapter.details = "fill" /\ P \cap Undescribed # {}
  <2>1. phase' = "english" /\ jobs' = P /\ todo' = P \cap Undescribed /\ Asking(Listing)
    BY <1>1 DEF Details
  <2> QED BY <1>1, <2>1, AskingFacts, WantedFacts
<1>2. CASE ~(adapter.details = "fill" /\ P \cap Undescribed # {})
  <2>1. /\ phase' = "details"
        /\ attempts' = [q \in {} |-> 0]
        /\ jobs' = IF adapter.details \in {"none", "fill"} THEN Wanted(P) ELSE {}
        /\ todo' = IF adapter.details \in {"none", "fill"} THEN {} ELSE Wanted(P)
    BY <1>2 DEF Details
  <2> QED BY <2>1, WantedFacts
<1> QED BY <1>1, <1>2

(* The wait before a retry is capped, whatever the server asks for.        *)
LEMMA RetryFacts ==
  ASSUME TypeInv, RequestsInv, NEW q, Retry(q)
  PROVE  /\ q \in DOMAIN attempts /\ DOMAIN attempts' = DOMAIN attempts
         /\ transients' = transients + 1
         /\ attempts' \in [DOMAIN attempts' -> 0..MaxRetries]
         /\ \A x \in DOMAIN attempts' : attempts'[x] <= transients'
         /\ longest' \in 0..MaxDelay
         /\ UNCHANGED <<adapter, server, board, steady, shifted, phase, position, received, cut,
                        todo, jobs, dropped, finals>>
<1>1. /\ q \in DOMAIN attempts /\ attempts[q] < MaxRetries
      /\ transients' = transients + 1
      /\ attempts' = [attempts EXCEPT ![q] = attempts[q] + 1]
      /\ UNCHANGED <<adapter, server, board, steady, shifted, phase, position, received, cut,
                        todo, jobs, dropped, finals>>
  BY DEF Retry, MayRetry, world, listing, detail
<1>2. /\ transients \in Nat /\ MaxRetries \in Nat
      /\ attempts \in [DOMAIN attempts -> 0..MaxRetries]
      /\ \A x \in DOMAIN attempts : attempts[x] <= transients
  BY FetchingAssumption DEF TypeInv, RequestsInv
<1>3. /\ DOMAIN attempts' = DOMAIN attempts
      /\ attempts' \in [DOMAIN attempts' -> 0..MaxRetries]
      /\ \A x \in DOMAIN attempts' : attempts'[x] <= transients'
  BY <1>1, <1>2
<1>4. \A secs \in Hints : RetryAfter(secs) \in Int /\ RetryAfter(secs) <= MaxDelay
  <2> SUFFICES ASSUME NEW secs \in Hints
               PROVE  RetryAfter(secs) \in Int /\ RetryAfter(secs) <= MaxDelay
    OBVIOUS
  <2>1. PICK a : a = secs * Second + HalfRange
    OBVIOUS
  <2>2. a \in Nat
    <3>1. secs \in Nat /\ Second \in Nat /\ HalfRange \in Nat
      BY FetchingAssumption
    <3>2. secs * Second \in Nat
      BY <3>1
    <3> QED BY <2>1, <3>1, <3>2
  <2>3. PICK b : b = 2 * HalfRange
    OBVIOUS
  <2>4. b \in Nat \ {0} /\ HalfRange \in Nat /\ MaxDelay \in Nat
    BY <2>3, FetchingAssumption
  <2>5. PICK d : d = (a % b) - HalfRange
    OBVIOUS
  <2>6. d \in Int
    BY <2>2, <2>4, <2>5
  <2>7. RetryAfter(secs) = IF d > MaxDelay THEN MaxDelay ELSE d
    BY <2>1, <2>3, <2>5 DEF RetryAfter
  <2> QED BY <2>4, <2>6, <2>7
<1>5. PICK d \in {RetryDelay} \cup {RetryAfter(secs) : secs \in Hints} :
        longest' = IF d > longest THEN d ELSE longest
  BY DEF Retry
<1>6. d \in Int /\ d <= MaxDelay
  BY <1>4, <1>5, FetchingAssumption
<1>7. longest' \in 0..MaxDelay
  BY <1>5, <1>6, FetchingAssumption DEF TypeInv
<1> QED BY <1>1, <1>3, <1>7

-----------------------------------------------------------------------------
(* What happens to the board.                                              *)

LEMMA PublishFacts ==
  ASSUME TypeInv, NEW p \in Postings, Publish(p)
  PROVE  /\ board' \in Seq(Postings) /\ IsInjective(board') /\ steady \subseteq Range(board')
         /\ shifted' \in BOOLEAN /\ (shifted => shifted')
         /\ \A m \in DOMAIN board' : board'[m] \in steady =>
              \E k \in DOMAIN board : k <= m /\ board[k] = board'[m]
         /\ phase = "list" /\ adapter.paging = "fresh" /\ ~shifted' =>
              \A m \in DOMAIN board : m <= position => m \in DOMAIN board' /\ board'[m] = board[m]
         /\ UNCHANGED <<adapter, server, steady, phase, position, received, cut, todo, jobs,
                        dropped, attempts, longest, transients, finals>>
<1>1. /\ p \notin Range(board)
      /\ UNCHANGED <<adapter, server, steady, phase, position, received, cut, todo, jobs,
                        dropped, attempts, longest, transients, finals>>
  BY DEF Publish, listing, detail
<1>2. PICK n \in 1..(Len(board) + 1) :
        /\ board' = InsertAt(board, n, p)
        /\ shifted' = (shifted \/ (adapter.paging = "fresh" /\ Passed(n)))
  BY DEF Publish
<1>3. PICK b : b = InsertAt(board, n, p)
  OBVIOUS
<1>4. /\ Len(board) \in Nat /\ DOMAIN board = 1..Len(board) /\ board \in Seq(Postings)
      /\ \A k \in DOMAIN board : board[k] \in Postings
      /\ \A k, m \in DOMAIN board : board[k] = board[m] => k = m
      /\ position \in Nat
  BY TypeFacts DEF TypeInv
<1>5. /\ b \in Seq(Postings) /\ Len(b) = Len(board) + 1
      /\ \A k \in 1..(n - 1) : b[k] = board[k]
      /\ b[n] = p
      /\ \A k \in n..Len(board) : b[k + 1] = board[k]
  <2>1. board \in Seq(Postings) /\ n \in 1..(Len(board) + 1) /\ p \in Postings
    BY <1>4
  <2> QED BY ONLY <2>1, <1>3, InsertFacts
<1>6. DOMAIN b = 1..(Len(board) + 1)
  BY <1>4, <1>5
<1>7. ASSUME NEW m \in DOMAIN b
      PROVE  \/ m = n /\ b[m] = p
             \/ m < n /\ m \in DOMAIN board /\ b[m] = board[m]
             \/ m > n /\ m - 1 \in DOMAIN board /\ b[m] = board[m - 1]
  <2>1. CASE m = n
    BY <1>5, <2>1
  <2>2. CASE m < n
    BY <1>4, <1>5, <1>6, <2>2
  <2>3. CASE m > n
    <3>1. PICK k : k = m - 1
      OBVIOUS
    <3>2. k \in n..Len(board) /\ k + 1 = m /\ k \in 1..Len(board)
      BY <1>4, <1>6, <2>3, <3>1
    <3> QED BY <1>4, <1>5, <2>3, <3>1, <3>2
  <2>4. m \in Nat /\ n \in Nat
    BY <1>4, <1>6
  <2> QED BY <2>1, <2>2, <2>3, <2>4
<1>8. \A k \in DOMAIN board : board[k] # p
  BY <1>1 DEF Range
<1>9. IsInjective(b)
  <2> SUFFICES ASSUME NEW m \in DOMAIN b, NEW k \in DOMAIN b, b[m] = b[k]
               PROVE  m = k
    BY DEF IsInjective
  <2>1. m \in Nat /\ k \in Nat /\ n \in Nat
    BY <1>4, <1>6
  <2> QED BY <1>4, <1>7, <1>8, <2>1
<1>10. \A k \in DOMAIN board : \E m \in DOMAIN b : b[m] = board[k]
  <2> SUFFICES ASSUME NEW k \in DOMAIN board
               PROVE  \E m \in DOMAIN b : b[m] = board[k]
    OBVIOUS
  <2>1. k \in 1..(n - 1) \/ k \in n..Len(board)
    BY <1>4
  <2>2. k \in DOMAIN b /\ k + 1 \in DOMAIN b
    BY <1>4, <1>6
  <2> QED BY <1>5, <2>1, <2>2
<1>11. steady \subseteq Range(b)
  BY <1>10 DEF TypeInv, Range
<1>12. ASSUME NEW m \in DOMAIN b, b[m] \in steady
       PROVE  \E k \in DOMAIN board : k <= m /\ board[k] = b[m]
  <2>1. b[m] # p
    BY <1>1, <1>12 DEF TypeInv
  <2>2. m <= m /\ m - 1 <= m
    BY <1>6
  <2> QED BY <1>7, <2>1, <2>2
<1>13. ASSUME phase = "list", adapter.paging = "fresh", ~shifted',
              NEW m \in DOMAIN board, m <= position
       PROVE  m \in DOMAIN b /\ b[m] = board[m]
  <2>1. ~(n <= position)
    BY <1>2, <1>13 DEF Passed
  <2>2. m \in 1..(n - 1) /\ m \in DOMAIN b
    BY <1>4, <1>6, <1>13, <2>1
  <2> QED BY <1>5, <2>2
<1>14. shifted' \in BOOLEAN /\ (shifted => shifted')
  BY <1>2 DEF TypeInv
<1> QED BY <1>1, <1>2, <1>3, <1>5, <1>9, <1>11, <1>12, <1>13, <1>14

LEMMA WithdrawFacts ==
  ASSUME TypeInv, NEW n \in DOMAIN board, Withdraw(n)
  PROVE  /\ board' \in Seq(Postings) /\ IsInjective(board')
         /\ steady' \subseteq Range(board') /\ steady' \subseteq steady
         /\ shifted' \in BOOLEAN /\ (shifted => shifted')
         /\ phase = "list" /\ ~shifted' =>
              /\ \A m \in DOMAIN board : m <= position => m \in DOMAIN board' /\ board'[m] = board[m]
              /\ \A m \in DOMAIN board' : m <= position => m \in DOMAIN board /\ board'[m] = board[m]
         /\ UNCHANGED <<adapter, server, phase, position, received, cut, todo, jobs,
                        dropped, attempts, longest, transients, finals>>
<1>1. /\ steady' = steady \ {board[n]}
      /\ shifted' = (shifted \/ Passed(n))
      /\ board' = RemoveAt(board, n)
      /\ UNCHANGED <<adapter, server, phase, position, received, cut, todo, jobs,
                        dropped, attempts, longest, transients, finals>>
  BY DEF Withdraw, listing, detail
<1>2. PICK b : b = RemoveAt(board, n)
  OBVIOUS
<1>3. /\ Len(board) \in Nat /\ DOMAIN board = 1..Len(board) /\ board \in Seq(Postings)
      /\ \A k, m \in DOMAIN board : board[k] = board[m] => k = m
      /\ position \in Nat
  BY TypeFacts DEF TypeInv
<1>4. /\ b \in Seq(Postings) /\ Len(b) = Len(board) - 1
      /\ \A k \in 1..(n - 1) : b[k] = board[k]
      /\ \A k \in n..(Len(board) - 1) : b[k] = board[k + 1]
  <2>1. board \in Seq(Postings) /\ n \in 1..Len(board)
    BY <1>3
  <2>2. Removed(Postings, board, n, b)
    BY <1>2, <2>1, RemoveFacts
  <2> QED BY <2>2 DEF Removed
<1>5. DOMAIN b = 1..(Len(board) - 1)
  BY <1>3, <1>4
<1>6. ASSUME NEW m \in DOMAIN b
      PROVE  \/ m < n /\ m \in DOMAIN board /\ b[m] = board[m]
             \/ m >= n /\ m + 1 \in DOMAIN board /\ b[m] = board[m + 1]
  <2>1. m \in 1..(n - 1) \/ m \in n..(Len(board) - 1)
    BY <1>3, <1>5
  <2>2. m \in DOMAIN board /\ m + 1 \in DOMAIN board
    BY <1>3, <1>5
  <2> QED BY <1>3, <1>4, <2>1, <2>2
<1>7. IsInjective(b)
  <2> SUFFICES ASSUME NEW m \in DOMAIN b, NEW k \in DOMAIN b, b[m] = b[k]
               PROVE  m = k
    BY DEF IsInjective
  <2>1. m \in Nat /\ k \in Nat /\ n \in Nat
    BY <1>3, <1>5
  <2>2. (m < n /\ k < n) => m = k
    BY <1>3, <1>6, <2>1
  <2>3. (m >= n /\ k >= n) => m = k
    <3>1. (m >= n /\ k >= n) => m + 1 = k + 1
      BY <1>3, <1>6, <2>1
    <3> QED BY <2>1, <3>1
  <2>4. ~(m < n /\ k >= n) /\ ~(k < n /\ m >= n)
    <3>1. (m < n /\ k >= n) => m = k + 1
      BY <1>3, <1>6, <2>1
    <3>2. (k < n /\ m >= n) => k = m + 1
      BY <1>3, <1>6, <2>1
    <3> QED BY <2>1, <3>1, <3>2
  <2> QED BY <2>1, <2>2, <2>3, <2>4
<1>8. ASSUME NEW k \in DOMAIN board, k # n
      PROVE  \E m \in DOMAIN b : b[m] = board[k]
  <2>1. CASE k < n
    <3>1. k \in 1..(n - 1) /\ k \in DOMAIN b
      BY <1>3, <1>5, <2>1
    <3> QED BY <1>4, <3>1
  <2>2. CASE k > n
    <3>1. PICK m : m = k - 1
      OBVIOUS
    <3>2. m \in n..(Len(board) - 1) /\ m + 1 = k /\ m \in DOMAIN b
      BY <1>3, <1>5, <2>2, <3>1
    <3> QED BY <1>4, <3>2
  <2> QED BY <1>3, <1>8, <2>1, <2>2
<1>9. steady' \subseteq Range(b)
  <2> SUFFICES ASSUME NEW x \in steady, x # board[n] PROVE x \in Range(b)
    BY <1>1
  <2>1. PICK k \in DOMAIN board : x = board[k]
    BY DEF TypeInv, Range
  <2> QED BY <1>8, <2>1 DEF Range
<1>10. ASSUME phase = "list", ~shifted'
       PROVE  /\ \A m \in DOMAIN board : m <= position => m \in DOMAIN b /\ b[m] = board[m]
              /\ \A m \in DOMAIN b : m <= position => m \in DOMAIN board /\ b[m] = board[m]
  <2>1. ~(n <= position)
    BY <1>1, <1>10 DEF Passed
  <2>2. \A m \in Nat : m <= position => m < n
    BY <1>3, <2>1
  <2>3. \A m \in DOMAIN board : m <= position => m \in 1..(n - 1) /\ m \in DOMAIN b
    BY <1>3, <1>5, <2>1
  <2>4. \A m \in DOMAIN b : m <= position => m \in 1..(n - 1) /\ m \in DOMAIN board
    BY <1>3, <1>5, <2>1
  <2> QED BY <1>4, <2>3, <2>4
<1>11. shifted' \in BOOLEAN /\ (shifted => shifted')
  BY <1>1 DEF TypeInv
<1> QED BY <1>1, <1>2, <1>4, <1>7, <1>9, <1>10, <1>11

-----------------------------------------------------------------------------
(* Every step keeps the invariant.                                         *)

(* The two steps of the listing, one alternative at a time.                *)
LEMMA ReadPageFacts ==
  ASSUME TypeInv, ReadPage
  PROVE  /\ phase = "list" /\ Listing \in DOMAIN attempts
         /\ received' = received \cup Page
         /\ \/ /\ NextPositions = {} /\ Details(received \cup Page) /\ position' = position
               /\ cut' = IF adapter.paging = "fresh" /\ ~(Page \subseteq received)
                         THEN Stops ELSE cut
            \/ /\ position' \in NextPositions /\ position' \in Nat
               /\ Asking(Listing)
               /\ UNCHANGED <<phase, jobs, todo, cut>>
         /\ UNCHANGED <<adapter, server, board, steady, shifted, dropped, longest,
                        transients, finals>>
<1>1. /\ phase = "list" /\ Listing \in DOMAIN attempts
      /\ received' = received \cup Page
      /\ UNCHANGED <<adapter, server, board, steady, shifted, dropped, longest,
                     transients, finals>>
  BY DEF ReadPage, Succeeds, world
<1>2. CASE NextPositions = {}
  BY <1>1, <1>2 DEF ReadPage
<1>3. CASE NextPositions # {}
  <2>1. position' \in NextPositions /\ Asking(Listing) /\ UNCHANGED <<phase, jobs, todo, cut>>
    BY <1>3 DEF ReadPage
  <2> QED BY <1>1, <2>1, NextType
<1> QED BY <1>2, <1>3

LEMMA PageFailsFacts ==
  ASSUME TypeInv, PageFails
  PROVE  /\ phase \in {"prelim", "list"} /\ Fails(Listing)
         /\ \/ /\ adapter.paging = "fresh" /\ Details(received) /\ cut' = "failed"
               /\ phase = "list"
            \/ /\ phase' = "failed" /\ NotAsking(Listing)
               /\ UNCHANGED <<cut, jobs, todo>>
         /\ UNCHANGED <<adapter, server, board, steady, shifted, position, received, dropped>>
  BY DEF PageFails, Lenient, world

LEMMA TypeStep ==
  ASSUME IInv, [Next]_vars
  PROVE  TypeInv'
<1> USE DEF IInv
<1>1. CASE Begin \/ Reject \/ Prelim \/ Return \/ UNCHANGED vars
  BY <1>1 DEF TypeInv, Begin, Reject, Prelim, Return, Succeeds, vars, world, listing, detail, Ended
<1>2. CASE ReadPage
  <2>1. received \cup Page \subseteq Postings
    BY PageType DEF TypeInv
  <2>2. CASE Details(received \cup Page) /\ position' = position
    <3>1. phase' \in {"english", "details"} /\ jobs' \subseteq received' /\ todo' \subseteq received'
      BY <1>2, <2>2, DetailsFacts, ReadPageFacts
    <3> QED BY <1>2, <2>1, <2>2, <3>1, ReadPageFacts DEF TypeInv
  <2>3. CASE position' \in Nat /\ UNCHANGED <<phase, jobs, todo>>
    BY <1>2, <2>1, <2>3, ReadPageFacts DEF TypeInv
  <2> QED BY <1>2, <2>2, <2>3, ReadPageFacts
<1>3. CASE PageFails
  <2>1. /\ transients' \in Nat /\ finals' \in Nat /\ longest' = longest
    BY <1>3, PageFailsFacts, FailsFacts
  <2>2. CASE Details(received)
    <3>1. phase' \in {"english", "details"} /\ jobs' \subseteq received /\ todo' \subseteq received
      BY <2>2, DetailsFacts
    <3> QED BY <1>3, <2>1, <3>1, PageFailsFacts DEF TypeInv
  <2>3. CASE phase' = "failed" /\ UNCHANGED <<cut, jobs, todo>>
    BY <1>3, <2>1, <2>3, PageFailsFacts DEF TypeInv, Ended
  <2> QED BY <1>3, <2>2, <2>3, PageFailsFacts
<1>4. CASE EnglishArrives
  BY <1>4 DEF TypeInv, EnglishArrives, Succeeds, world, listing
<1>5. CASE EnglishFails
  <2>1. /\ transients' \in Nat /\ finals' \in Nat /\ longest' = longest
    BY <1>5, FailsFacts DEF EnglishFails
  <2> QED BY <1>5, <2>1 DEF TypeInv, EnglishFails, world, listing
<1>6. ASSUME NEW p \in Postings, AskDetail(p) \/ DetailArrives(p)
      PROVE  TypeInv'
  <2>1. CASE AskDetail(p)
    BY <2>1 DEF TypeInv, AskDetail, world, listing
  <2>2. CASE DetailArrives(p)
    <3>1. p \in received
      BY <2>2 DEF DetailArrives, Succeeds, RequestsInv
    <3> QED BY <2>2, <3>1 DEF TypeInv, DetailArrives, Succeeds, world, listing
  <2> QED BY <1>6, <2>1, <2>2
<1>7. ASSUME NEW p \in Postings, DetailFails(p)
      PROVE  TypeInv'
  <2>1. /\ transients' \in Nat /\ finals' \in Nat /\ longest' = longest
        /\ p \in DOMAIN attempts
    BY <1>7, FailsFacts DEF DetailFails
  <2>2. p \in received
    BY <1>7, <2>1 DEF DetailFails, RequestsInv
  <2> QED BY <1>7, <2>1, <2>2 DEF TypeInv, DetailFails, world, listing
<1>8. ASSUME NEW q, Retry(q)
      PROVE  TypeInv'
  BY <1>8, RetryFacts DEF TypeInv
<1>9. ASSUME NEW p \in Postings, Publish(p)
      PROVE  TypeInv'
  BY <1>9, PublishFacts DEF TypeInv
<1>10. ASSUME NEW n \in DOMAIN board, Withdraw(n)
       PROVE  TypeInv'
  BY <1>10, WithdrawFacts DEF TypeInv
<1> QED BY <1>1, <1>2, <1>3, <1>4, <1>5, <1>6, <1>7, <1>8, <1>9, <1>10 DEF Next, Work, Trouble

LEMMA RequestsStep ==
  ASSUME IInv, [Next]_vars
  PROVE  RequestsInv'
<1> USE DEF IInv
<1>1. transients \in Nat /\ Workers \in Nat /\ Workers > 0 /\ MaxRetries \in Nat
  BY FetchingAssumption DEF TypeInv
<1>0. ASSUME Asking(Listing), phase' \in {"prelim", "list"}, transients' = transients
      PROVE  RequestsInv'
  <2>1. /\ DOMAIN attempts' = {Listing}
        /\ attempts' \in [DOMAIN attempts' -> 0..MaxRetries]
        /\ \A x \in DOMAIN attempts' : attempts'[x] = 0
    BY <1>0, AskingFacts
  <2>2. \A x \in DOMAIN attempts' : attempts'[x] <= transients'
    BY <1>0, <1>1, <2>1
  <2> QED BY <1>0, <2>1, <2>2 DEF RequestsInv
<1>2. CASE Begin \/ Prelim
  <2>1. phase' \in {"prelim", "list"} /\ Asking(Listing) /\ transients' = transients
    BY <1>2 DEF Begin, Prelim, Succeeds
  <2> QED BY <1>0, <2>1
<1>3. CASE Reject \/ Return \/ UNCHANGED vars
  BY <1>3 DEF RequestsInv, Reject, Return, vars, listing, detail
<1>4. IsFiniteSet({}) /\ Cardinality({}) = 0
  BY FS_EmptySet
<1>5. ASSUME NEW P, Details(P), transients' \in Nat, adapter' = adapter
      PROVE  RequestsInv'
  <2>1. /\ phase' \in {"english", "details"}
        /\ attempts' \in [DOMAIN attempts' -> 0..MaxRetries]
        /\ \A x \in DOMAIN attempts' : attempts'[x] = 0
        /\ phase' = "english" => adapter.details = "fill"
        /\ IF phase' = "english" THEN DOMAIN attempts' = {Listing} ELSE DOMAIN attempts' = {}
    BY <1>5, DetailsFacts
  <2>2. \A x \in DOMAIN attempts' : attempts'[x] <= transients'
    BY <1>5, <2>1
  <2> QED BY <1>1, <1>4, <1>5, <2>1, <2>2 DEF RequestsInv
<1>6. CASE ReadPage
  <2>1. CASE Asking(Listing) /\ phase' = phase
    BY <1>0, <1>6, <2>1, ReadPageFacts
  <2> QED BY <1>1, <1>5, <1>6, <2>1, ReadPageFacts
<1>7. ASSUME DOMAIN attempts = {Listing}, NotAsking(Listing), phase' \in {"failed", "details"}
      PROVE  RequestsInv'
  <2>1. DOMAIN attempts' = {} /\ attempts' \in [DOMAIN attempts' -> 0..MaxRetries]
    BY <1>7, NotAskingFacts
  <2> QED BY <1>1, <1>4, <1>7, <2>1 DEF RequestsInv
<1>8. CASE PageFails
  <2>1. DOMAIN attempts = {Listing} /\ transients' \in Nat
    BY <1>8, PageFailsFacts, FailsFacts DEF RequestsInv
  <2> QED BY <1>5, <1>7, <1>8, <2>1, PageFailsFacts
<1>9. CASE EnglishArrives \/ EnglishFails
  <2>1. DOMAIN attempts = {Listing} /\ NotAsking(Listing) /\ phase' = "details"
    BY <1>9 DEF EnglishArrives, EnglishFails, RequestsInv
  <2> QED BY <1>7, <2>1
<1>10. ASSUME NEW p \in Postings, AskDetail(p)
       PROVE  RequestsInv'
  <2>1. /\ phase = "details" /\ p \in todo /\ Cardinality(DOMAIN attempts) < AtOnce
        /\ attempts' = [q \in DOMAIN attempts \cup {p} |-> IF q = p THEN 0 ELSE attempts[q]]
        /\ UNCHANGED <<adapter, phase, received, transients>>
    BY <1>10 DEF AskDetail, listing
  <2>2. /\ DOMAIN attempts' = DOMAIN attempts \cup {p}
        /\ attempts' \in [DOMAIN attempts' -> 0..MaxRetries]
        /\ \A q \in DOMAIN attempts' : attempts'[q] <= transients'
    BY <1>1, <2>1 DEF RequestsInv
  <2>3. IsFiniteSet(DOMAIN attempts) /\ DOMAIN attempts \subseteq received
    BY <2>1 DEF RequestsInv
  <2>4. /\ IsFiniteSet(DOMAIN attempts \cup {p})
        /\ Cardinality(DOMAIN attempts \cup {p}) <= Cardinality(DOMAIN attempts) + 1
        /\ Cardinality(DOMAIN attempts) \in Nat /\ Cardinality(DOMAIN attempts \cup {p}) \in Nat
    <3>1. /\ IsFiniteSet(DOMAIN attempts \cup {p})
          /\ Cardinality(DOMAIN attempts \cup {p}) =
               IF p \in DOMAIN attempts THEN Cardinality(DOMAIN attempts)
               ELSE Cardinality(DOMAIN attempts) + 1
      BY <2>3, FS_AddElement
    <3> QED BY <2>3, <3>1, FS_CardinalityType
  <2>5. AtOnce \in Nat /\ AtOnce <= Workers
    BY <1>1 DEF AtOnce
  <2>6. Cardinality(DOMAIN attempts') <= Workers /\ IsFiniteSet(DOMAIN attempts')
    BY <1>1, <2>1, <2>2, <2>4, <2>5
  <2>7. DOMAIN attempts' \subseteq received'
    BY <2>1, <2>2, <2>3 DEF TypeInv
  <2> QED BY <2>1, <2>2, <2>6, <2>7 DEF RequestsInv
<1>11. ASSUME NEW p, phase = "details", NotAsking(p), transients' \in Nat,
              transients' >= transients, UNCHANGED <<phase, received>>
       PROVE  RequestsInv'
  <2>1. /\ DOMAIN attempts' = DOMAIN attempts \ {p}
        /\ attempts' \in [DOMAIN attempts' -> 0..MaxRetries]
        /\ \A q \in DOMAIN attempts' : attempts'[q] = attempts[q]
    BY <1>11, NotAskingFacts
  <2>2. /\ IsFiniteSet(DOMAIN attempts) /\ DOMAIN attempts \subseteq received
        /\ Cardinality(DOMAIN attempts) <= Workers
    BY <1>11 DEF RequestsInv
  <2>3. /\ IsFiniteSet(DOMAIN attempts')
        /\ Cardinality(DOMAIN attempts') <= Cardinality(DOMAIN attempts)
    BY <2>1, <2>2, FS_Subset
  <2>4. Cardinality(DOMAIN attempts') \in Nat /\ Cardinality(DOMAIN attempts) \in Nat
    BY <2>2, <2>3, FS_CardinalityType
  <2>5. \A q \in DOMAIN attempts' : attempts'[q] <= transients'
    BY <1>1, <1>11, <2>1 DEF RequestsInv
  <2> QED BY <1>1, <1>11, <2>1, <2>2, <2>3, <2>4, <2>5 DEF RequestsInv
<1>12. ASSUME NEW p \in Postings, DetailArrives(p)
       PROVE  RequestsInv'
  <2>1. /\ phase = "details" /\ NotAsking(p)
        /\ UNCHANGED <<transients, phase, received>>
    BY <1>12 DEF DetailArrives, Succeeds, listing
  <2> QED BY <1>1, <1>11, <2>1
<1>13. ASSUME NEW p \in Postings, DetailFails(p)
       PROVE  RequestsInv'
  <2>1. phase = "details" /\ NotAsking(p) /\ UNCHANGED <<phase, received>> /\ Fails(p)
    BY <1>13 DEF DetailFails, listing
  <2> QED BY <1>11, <2>1, FailsFacts
<1>14. ASSUME NEW q, Retry(q)
       PROVE  RequestsInv'
  BY <1>14, RetryFacts DEF RequestsInv
<1>15. ASSUME NEW p \in Postings, Publish(p)
       PROVE  RequestsInv'
  BY <1>15, PublishFacts DEF RequestsInv
<1>16. ASSUME NEW n \in DOMAIN board, Withdraw(n)
       PROVE  RequestsInv'
  BY <1>16, WithdrawFacts DEF RequestsInv
<1> QED BY <1>2, <1>3, <1>6, <1>8, <1>9, <1>10, <1>12, <1>13, <1>14, <1>15, <1>16
        DEF Next, Work, Trouble

LEMMA ListingStep ==
  ASSUME IInv, [Next]_vars
  PROVE  ListingInv'
<1> USE DEF IInv
<1>1. /\ DOMAIN board = 1..Len(board) /\ Len(board) \in Nat /\ position \in Nat
      /\ PageSize \in Nat /\ shifted \in BOOLEAN
  BY TypeFacts DEF TypeInv
<1>2. CASE Begin \/ Prelim
  <2>1. /\ position' = position /\ received' = received /\ board' = board
        /\ position = 0 /\ received = {}
    BY <1>2 DEF Begin, Prelim, ListingInv, world, listing
  <2> QED BY <1>1, <2>1 DEF ListingInv
<1>3. CASE Reject \/ Return
  BY <1>3 DEF ListingInv, Reject, Return
<1>4. CASE UNCHANGED vars
  BY <1>4 DEF ListingInv, Undisturbed, vars, world, listing
<1>5. CASE ReadPage
  <2>1. CASE Details(received \cup Page)
    BY <2>1, DetailsFacts DEF ListingInv
  <2>2. CASE position' \in NextPositions
    <3>1. /\ phase = "list" /\ phase' = phase /\ received' = received \cup Page
          /\ UNCHANGED <<adapter, server, board, steady, shifted>>
      <4>1. ~(Details(received \cup Page) /\ NextPositions = {})
        BY <2>2
      <4> QED BY <1>5, <4>1, ReadPageFacts
    <3>2. position' \in Nat
      BY <2>2, NextType
    <3> SUFFICES ASSUME Undisturbed
                 PROVE  /\ \A n \in DOMAIN board :
                             n <= position' /\ board[n] \in steady => board[n] \in received \cup Page
                        /\ adapter.paging = "fresh" =>
                             \A p \in received \cup Page :
                               \E n \in DOMAIN board : n <= position' /\ board[n] = p
      BY <3>1 DEF ListingInv, Undisturbed
    <3>3. /\ \A n \in DOMAIN board : n <= position /\ board[n] \in steady => board[n] \in received
          /\ adapter.paging = "fresh" =>
               \A p \in received : \E n \in DOMAIN board : n <= position /\ board[n] = p
      BY <3>1 DEF ListingInv
    <3>4. server = "honest"
      BY DEF Undisturbed
    <3>5. ASSUME NEW n \in DOMAIN board, n <= position', board[n] \in steady
          PROVE  board[n] \in received \cup Page
      <4>1. n > position => board[n] \in Page
        BY <2>2, <3>4, <3>5, NextFacts
      <4>2. n \in Nat
        BY <1>1
      <4> QED BY <1>1, <3>3, <3>5, <4>1, <4>2
    <3>6. ASSUME adapter.paging = "fresh", NEW p \in received \cup Page
          PROVE  \E n \in DOMAIN board : n <= position' /\ board[n] = p
      <4>1. position' = position + PageSize
        BY <2>2, <3>4, <3>6, NextFacts
      <4>2. \A n \in DOMAIN board : n \in Nat /\ (n <= position => n <= position')
        BY <1>1, <4>1
      <4>3. CASE p \in received
        BY <3>3, <3>6, <4>2, <4>3
      <4>4. CASE p \in Page
        BY <3>4, <3>6, <4>1, <4>4, PageHolds
      <4> QED BY <3>6, <4>3, <4>4
    <3> QED BY <3>5, <3>6
  <2> QED BY <1>5, <2>1, <2>2, ReadPageFacts
<1>6. CASE PageFails
  <2>1. CASE Details(received)
    BY <2>1, DetailsFacts DEF ListingInv
  <2>2. CASE phase' = "failed"
    BY <2>2 DEF ListingInv
  <2> QED BY <1>6, <2>1, <2>2, PageFailsFacts
<1>7. CASE EnglishArrives \/ EnglishFails
  BY <1>7 DEF ListingInv, EnglishArrives, EnglishFails
<1>8. ASSUME NEW p \in Postings, AskDetail(p) \/ DetailArrives(p) \/ DetailFails(p)
      PROVE  ListingInv'
  BY <1>8 DEF ListingInv, AskDetail, DetailArrives, DetailFails
<1>9. ASSUME NEW q, Retry(q)
      PROVE  ListingInv'
  <2>1. UNCHANGED <<adapter, server, board, steady, shifted, phase, position, received>>
    BY <1>9, RetryFacts
  <2> QED BY <2>1 DEF ListingInv, Undisturbed
<1>10. ASSUME NEW p \in Postings, Publish(p)
       PROVE  ListingInv'
  <2>1. /\ UNCHANGED <<adapter, server, steady, phase, position, received>>
        /\ shifted' \in BOOLEAN /\ (shifted => shifted')
    BY <1>10, PublishFacts
  <2> SUFFICES ASSUME Undisturbed', phase = "list"
               PROVE  /\ \A m \in DOMAIN board' :
                           m <= position /\ board'[m] \in steady => board'[m] \in received
                      /\ adapter.paging = "fresh" =>
                           \A x \in received :
                             \E m \in DOMAIN board' : m <= position /\ board'[m] = x
    BY <2>1 DEF ListingInv
  <2>2. Undisturbed
    BY <2>1 DEF Undisturbed
  <2>3. /\ \A n \in DOMAIN board : n <= position /\ board[n] \in steady => board[n] \in received
        /\ adapter.paging = "fresh" =>
             \A x \in received : \E n \in DOMAIN board : n <= position /\ board[n] = x
    BY <2>2 DEF ListingInv
  <2>4. \A m \in DOMAIN board' : board'[m] \in steady =>
          \E k \in DOMAIN board : k <= m /\ board[k] = board'[m]
    BY <1>10, PublishFacts
  <2>5. ASSUME NEW m \in DOMAIN board', m <= position, board'[m] \in steady
        PROVE  board'[m] \in received
    <3>1. PICK k \in DOMAIN board : k <= m /\ board[k] = board'[m]
      BY <2>4, <2>5
    <3>2. m \in Nat /\ k \in Nat
      <4>1. board' \in Seq(Postings)
        BY <1>10, PublishFacts
      <4> QED BY <1>1, <2>5, <4>1
    <3> QED BY <1>1, <2>3, <2>5, <3>1, <3>2
  <2>6. ~shifted'
    BY DEF Undisturbed
  <2>7. adapter.paging = "fresh" =>
          \A m \in DOMAIN board : m <= position => m \in DOMAIN board' /\ board'[m] = board[m]
    BY <1>10, <2>6, PublishFacts
  <2> QED BY <2>3, <2>5, <2>7
<1>11. ASSUME NEW n \in DOMAIN board, Withdraw(n)
       PROVE  ListingInv'
  <2>1. /\ UNCHANGED <<adapter, server, phase, position, received>>
        /\ shifted' \in BOOLEAN /\ (shifted => shifted') /\ steady' \subseteq steady
    BY <1>11, WithdrawFacts
  <2> SUFFICES ASSUME Undisturbed', phase = "list"
               PROVE  /\ \A m \in DOMAIN board' :
                           m <= position /\ board'[m] \in steady' => board'[m] \in received
                      /\ adapter.paging = "fresh" =>
                           \A x \in received :
                             \E m \in DOMAIN board' : m <= position /\ board'[m] = x
    BY <2>1 DEF ListingInv
  <2>2. Undisturbed /\ ~shifted'
    BY <2>1 DEF Undisturbed
  <2>3. /\ \A m \in DOMAIN board : m <= position /\ board[m] \in steady => board[m] \in received
        /\ adapter.paging = "fresh" =>
             \A x \in received : \E m \in DOMAIN board : m <= position /\ board[m] = x
    BY <2>2 DEF ListingInv
  <2>4. /\ \A m \in DOMAIN board : m <= position => m \in DOMAIN board' /\ board'[m] = board[m]
        /\ \A m \in DOMAIN board' : m <= position => m \in DOMAIN board /\ board'[m] = board[m]
    BY <1>11, <2>2, WithdrawFacts
  <2> QED BY <2>1, <2>3, <2>4
<1> QED BY <1>2, <1>3, <1>4, <1>5, <1>6, <1>7, <1>8, <1>9, <1>10, <1>11 DEF Next, Work, Trouble

LEMMA ToleratesStep ==
  ASSUME IInv, [Next]_vars
  PROVE  Tolerates'
<1> USE DEF IInv
<1>1. transients \in Nat /\ finals \in Nat /\ MaxRetries \in Nat
  BY FetchingAssumption DEF TypeInv
<1>2. CASE Begin \/ Reject \/ Prelim \/ Return \/ EnglishArrives \/ UNCHANGED vars
  BY <1>2 DEF Tolerates, Begin, Reject, Prelim, Return, EnglishArrives, Succeeds, vars, listing,
              detail
<1>3. CASE ReadPage
  <2>1. phase' = "failed" => phase = "failed"
    BY <1>3, ReadPageFacts, DetailsFacts
  <2>2. cut' = "failed" => cut = "failed"
    BY <1>3, ReadPageFacts DEF Stops
  <2>3. UNCHANGED <<dropped, transients, finals>>
    BY <1>3, ReadPageFacts
  <2> QED BY <2>1, <2>2, <2>3 DEF Tolerates
<1>4. ASSUME NEW q, Fails(q)
      PROVE  Tolerates'
  <2>1. finals' > 0 \/ transients' > MaxRetries
    BY <1>4, FailsFacts
  <2> QED BY <2>1 DEF Tolerates
<1>5. CASE PageFails \/ EnglishFails
  BY <1>4, <1>5 DEF PageFails, EnglishFails
<1>6. ASSUME NEW p \in Postings, AskDetail(p) \/ DetailArrives(p)
      PROVE  Tolerates'
  BY <1>6 DEF Tolerates, AskDetail, DetailArrives, Succeeds, listing
<1>7. ASSUME NEW p \in Postings, DetailFails(p)
      PROVE  Tolerates'
  BY <1>4, <1>7 DEF DetailFails
<1>8. ASSUME NEW q, Retry(q)
      PROVE  Tolerates'
  <2>1. transients' = transients + 1 /\ UNCHANGED <<phase, cut, dropped, finals>>
    BY <1>8, RetryFacts
  <2> QED BY <1>1, <2>1 DEF Tolerates
<1>9. ASSUME NEW p \in Postings, Publish(p)
      PROVE  Tolerates'
  BY <1>9, PublishFacts DEF Tolerates
<1>10. ASSUME NEW n \in DOMAIN board, Withdraw(n)
       PROVE  Tolerates'
  BY <1>10, WithdrawFacts DEF Tolerates
<1> QED BY <1>2, <1>3, <1>5, <1>6, <1>7, <1>8, <1>9, <1>10 DEF Next, Work, Trouble

(* What the listing yields: the page that ends it completes what was       *)
(* received, or the adapter has given up: at its cap, or at links that are *)
(* none.                                                                   *)
LEMMA ListingEnds ==
  ASSUME TypeInv, ListingInv, ReadPage, NextPositions = {}, Undisturbed,
         ~(adapter.paging = "fresh" /\ cut' # "no")
  PROVE  steady \subseteq received \cup Page
<1>1. /\ phase = "list" /\ server = "honest"
      /\ cut' = IF adapter.paging = "fresh" /\ ~(Page \subseteq received) THEN Stops ELSE cut
  BY DEF Undisturbed, ReadPage
<1>2. /\ \A n \in DOMAIN board : n <= position /\ board[n] \in steady => board[n] \in received
      /\ adapter.paging = "fresh" =>
           \A p \in received : \E n \in DOMAIN board : n <= position /\ board[n] = p
  BY <1>1 DEF ListingInv
<1>3. /\ \A n \in DOMAIN board : n \in Nat
      /\ \A m, n \in DOMAIN board : board[m] = board[n] => m = n
      /\ position \in Nat
  BY TypeFacts
<1>4. \A n \in DOMAIN board : n > position => board[n] \in Page
  <2>1. CASE adapter.paging # "fresh"
    BY <1>1, <2>1, NextFacts
  <2>2. CASE adapter.paging = "fresh"
    <3>1. Page \subseteq received
      BY <1>1, <2>2 DEF Stops
    <3>2. \A p \in Page : \E n \in DOMAIN board : n > position /\ board[n] = p
      BY <1>1, <2>2, PageHolds
    <3>3. Page = {}
      <4> SUFFICES ASSUME NEW p \in Page PROVE FALSE
        OBVIOUS
      <4>1. PICK n \in DOMAIN board : n > position /\ board[n] = p
        BY <3>2
      <4>2. PICK m \in DOMAIN board : m <= position /\ board[m] = p
        BY <1>2, <2>2, <3>1
      <4>3. m = n
        BY <1>3, <4>1, <4>2
      <4> QED BY <1>3, <4>1, <4>2, <4>3
    <3>4. \A n \in DOMAIN board : n <= position
      BY <1>1, <2>2, <3>3, PageHolds
    <3> QED BY <1>3, <3>4
  <2> QED BY <2>1, <2>2
<1> SUFFICES ASSUME NEW x \in steady PROVE x \in received \cup Page
  OBVIOUS
<1>5. PICK n \in DOMAIN board : board[n] = x
  BY DEF TypeInv, Range
<1> QED BY <1>2, <1>3, <1>4, <1>5

LEMMA DetailsStep ==
  ASSUME IInv, [Next]_vars
  PROVE  DetailsInv'
<1> USE DEF IInv
<1>1. CASE Begin \/ Reject \/ Prelim
  BY <1>1 DEF DetailsInv, Begin, Reject, Prelim, Ended
<1>2. CASE UNCHANGED vars
  BY <1>2 DEF DetailsInv, Undisturbed, Wanted, vars, world, listing, detail
<1>3. ASSUME UNCHANGED <<adapter, server, shifted, cut>>, steady' \subseteq steady,
             phase \in {"english", "details", "done"},
             adapter.details \in {"none", "fill"} => jobs \subseteq jobs',
             adapter.details \notin {"none", "fill"} =>
               jobs \cup dropped \cup todo \cup DOMAIN attempts
                 \subseteq jobs' \cup dropped' \cup todo' \cup DOMAIN attempts'
      PROVE  DetailsInv'
  <2> SUFFICES ASSUME Undisturbed', ~(adapter.paging = "fresh" /\ cut # "no")
               PROVE  Wanted(steady') \subseteq
                        IF adapter.details \in {"none", "fill"} THEN jobs'
                        ELSE jobs' \cup dropped' \cup todo' \cup DOMAIN attempts'
    BY <1>3 DEF DetailsInv, Wanted
  <2>1. Undisturbed
    BY <1>3 DEF Undisturbed
  <2>2. Wanted(steady) \subseteq
          IF adapter.details \in {"none", "fill"} THEN jobs
          ELSE jobs \cup dropped \cup todo \cup DOMAIN attempts
    BY <1>3, <2>1 DEF DetailsInv
  <2>3. Wanted(steady') \subseteq Wanted(steady)
    BY <1>3, WantedFacts
  <2> QED BY <1>3, <2>2, <2>3
<1>4. CASE ReadPage
  <2>1. CASE position' \in NextPositions /\ phase' = phase
    BY <1>4, <2>1, ReadPageFacts DEF DetailsInv
  <2>2. CASE NextPositions = {} /\ Details(received \cup Page)
    <3>1. UNCHANGED <<adapter, server, steady, shifted>>
      BY <1>4, ReadPageFacts
    <3> SUFFICES ASSUME Undisturbed', ~(adapter.paging = "fresh" /\ cut' # "no")
                 PROVE  Wanted(steady) \subseteq
                          IF adapter.details \in {"none", "fill"} THEN jobs' ELSE todo'
      BY <3>1 DEF DetailsInv, Wanted
    <3>2. Undisturbed
      BY <3>1 DEF Undisturbed
    <3>3. steady \subseteq received \cup Page
      BY <1>4, <2>2, <3>2, ListingEnds
    <3>4. Wanted(steady) \subseteq Wanted(received \cup Page)
      BY <3>3, WantedFacts
    <3>5. Wanted(received \cup Page) \subseteq
            IF adapter.details \in {"none", "fill"} THEN jobs' ELSE todo'
      BY <2>2, DetailsFacts
    <3> QED BY <3>4, <3>5
  <2> QED BY <1>4, <2>1, <2>2, ReadPageFacts
<1>5. CASE PageFails
  <2>1. CASE adapter.paging = "fresh" /\ cut' = "failed"
    BY <1>5, <2>1, PageFailsFacts DEF DetailsInv
  <2>2. CASE phase' = "failed"
    BY <2>2 DEF DetailsInv
  <2> QED BY <1>5, <2>1, <2>2, PageFailsFacts
<1>6. CASE EnglishArrives \/ EnglishFails
  <2>1. phase = "english" /\ UNCHANGED <<adapter, server, shifted, cut, steady, jobs>>
    BY <1>6 DEF EnglishArrives, EnglishFails, world, listing
  <2>2. adapter.details = "fill"
    BY <2>1 DEF RequestsInv
  <2> QED BY <1>3, <2>1, <2>2
<1>7. ASSUME NEW p \in Postings, AskDetail(p)
      PROVE  DetailsInv'
  <2>1. /\ phase = "details" /\ UNCHANGED <<adapter, server, shifted, cut, steady, jobs, dropped>>
        /\ todo' = todo \ {p} /\ DOMAIN attempts' = DOMAIN attempts \cup {p}
    BY <1>7 DEF AskDetail, world, listing
  <2> QED BY <1>3, <2>1
<1>8. ASSUME NEW p \in Postings, DetailArrives(p)
      PROVE  DetailsInv'
  <2>1. /\ phase = "details" /\ UNCHANGED <<adapter, server, shifted, cut, steady, todo, dropped>>
        /\ NotAsking(p) /\ jobs' = jobs \cup {p}
    BY <1>8 DEF DetailArrives, world, listing
  <2>2. DOMAIN attempts' = DOMAIN attempts \ {p}
    BY <2>1, NotAskingFacts
  <2> QED BY <1>3, <2>1, <2>2
<1>9. ASSUME NEW p \in Postings, DetailFails(p)
      PROVE  DetailsInv'
  <2>1. /\ phase = "details" /\ UNCHANGED <<adapter, server, shifted, cut, steady, todo, jobs>>
        /\ NotAsking(p)
        /\ dropped' = IF adapter.details = "fill" THEN dropped ELSE dropped \cup {p}
    BY <1>9 DEF DetailFails, world, listing
  <2>2. DOMAIN attempts' = DOMAIN attempts \ {p}
    BY <2>1, NotAskingFacts
  <2> QED BY <1>3, <2>1, <2>2
<1>10. CASE Return
  <2>1. phase = "details" /\ UNCHANGED <<adapter, server, shifted, cut, steady, todo, jobs,
                                         dropped, attempts>>
    BY <1>10 DEF Return, world, listing, detail
  <2> QED BY <1>3, <2>1
<1>11. ASSUME NEW q, Retry(q)
       PROVE  DetailsInv'
  <2>1. /\ UNCHANGED <<adapter, server, shifted, cut, steady, phase, todo, jobs, dropped>>
        /\ DOMAIN attempts' = DOMAIN attempts
    BY <1>11, RetryFacts
  <2>2. CASE phase \in {"english", "details", "done"}
    BY <1>3, <2>1, <2>2
  <2>3. CASE phase \notin {"english", "details", "done"}
    BY <2>1, <2>3 DEF DetailsInv
  <2> QED BY <2>2, <2>3
<1>12. ASSUME UNCHANGED <<adapter, server, cut, phase, todo, jobs, dropped, attempts>>,
              shifted' \in BOOLEAN, shifted => shifted', steady' \subseteq steady
       PROVE  DetailsInv'
  <2>1. CASE shifted' = shifted /\ phase \in {"english", "details", "done"}
    BY <1>3, <1>12, <2>1
  <2>2. CASE shifted' # shifted
    <3>1. shifted'
      BY <1>12, <2>2 DEF TypeInv
    <3> QED BY <3>1 DEF DetailsInv, Undisturbed
  <2>3. CASE phase \notin {"english", "details", "done"}
    BY <1>12, <2>3 DEF DetailsInv
  <2> QED BY <2>1, <2>2, <2>3
<1>13. ASSUME NEW p \in Postings, Publish(p)
       PROVE  DetailsInv'
  BY <1>12, <1>13, PublishFacts
<1>14. ASSUME NEW n \in DOMAIN board, Withdraw(n)
       PROVE  DetailsInv'
  BY <1>12, <1>14, WithdrawFacts
<1> QED BY <1>1, <1>2, <1>4, <1>5, <1>6, <1>7, <1>8, <1>9, <1>10, <1>11, <1>13, <1>14
        DEF Next, Work, Trouble

-----------------------------------------------------------------------------
(* The theorems.                                                           *)

(* The invariant holds of every fetch, and every step keeps it.            *)
THEOREM InvariantCorrect == Spec => []IInv
<1>1. Init => IInv
  <2> SUFFICES ASSUME Init PROVE IInv
    OBVIOUS
  <2>1. board \in Seq(Postings) /\ IsInjective(board)
    <3>1. board \in SeqOf(Postings, Cardinality(Postings)) /\ IsInjective(board)
      BY DEF Init
    <3> QED BY <3>1 DEF SeqOf
  <2>2. TypeInv
    <3>1. /\ adapter \in All /\ server \in Servers /\ steady \subseteq Range(board)
          /\ phase = "start" /\ position = 0 /\ shifted = FALSE
          /\ received = {} /\ jobs = {} /\ todo = {} /\ dropped = {}
          /\ transients = 0 /\ finals = 0 /\ longest = 0
      BY DEF Init
    <3>2. longest \in 0..MaxDelay
      BY <3>1, FetchingAssumption
    <3> QED BY <2>1, <3>1, <3>2 DEF TypeInv
  <2>3. RequestsInv
    <3>1. IsFiniteSet({}) /\ Cardinality({}) = 0
      BY FS_EmptySet
    <3> QED BY <3>1, FetchingAssumption DEF RequestsInv, Init
  <2>4. ListingInv /\ DetailsInv /\ Tolerates
    BY DEF ListingInv, DetailsInv, Tolerates, Init
  <2> QED BY <2>2, <2>3, <2>4 DEF IInv
<1>2. IInv /\ [Next]_vars => IInv'
  BY TypeStep, RequestsStep, ListingStep, DetailsStep, ToleratesStep DEF IInv
<1> QED BY <1>1, <1>2, PTL DEF Spec

(* The pool and the retries keep to their bounds, and no wait before a     *)
(* retry is longer than the cap of retryAfter, whatever Retry-After says.  *)
THEOREM TypeCorrect == Spec => []TypeOK
<1>1. IInv => TypeOK
  <2> SUFFICES ASSUME IInv PROVE TypeOK
    OBVIOUS
  <2> USE DEF IInv
  <2>1. Cardinality(DOMAIN attempts) <= Workers
    <3>1. CASE phase \in {"prelim", "list", "english"}
      <4>1. DOMAIN attempts = {Listing}
        BY <3>1 DEF RequestsInv
      <4>2. Cardinality({Listing}) = 1
        BY FS_Singleton
      <4> QED BY <4>1, <4>2, FetchingAssumption
    <3> QED BY <3>1 DEF RequestsInv
  <2>2. DOMAIN attempts = {Listing} \/ DOMAIN attempts \subseteq Postings
    BY DEF RequestsInv, TypeInv
  <2> QED BY <2>1, <2>2 DEF TypeOK, TypeInv, RequestsInv
<1> QED BY <1>1, InvariantCorrect, PTL

(* A fetch of any adapter that reports no error is complete, as far as the *)
(* server is honest and what it has passed stays where it was.             *)
THEOREM FetchesAreComplete == Spec => []Complete
<1>1. IInv => Complete
  BY DEF IInv, RequestsInv, DetailsInv, Undisturbed, Complete
<1> QED BY <1>1, InvariantCorrect, PTL

(* Nothing is lost to fewer failures that may recover than a request is    *)
(* retried.                                                                *)
THEOREM FailuresAreTolerated == Spec => []Tolerates
<1>1. IInv => Tolerates
  BY DEF IInv
<1> QED BY <1>1, InvariantCorrect, PTL

==============================================================================
