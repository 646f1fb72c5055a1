------------------------------ MODULE Fetching ------------------------------
(***************************************************************************)
(* One Source.Fetch: an adapter reads the listing of a board page by page, *)
(* then the details of its postings, over the client of http.go, which     *)
(* retries what may recover.  The board changes meanwhile.                 *)
(*                                                                         *)
(* The postings received are a set: their order and repetitions are left   *)
(* out, as saving a posting twice does nothing more.                       *)
(***************************************************************************)
EXTENDS Integers, FiniteSets, SequencesExt, Adapters

CONSTANTS
  Postings,
  Internal,     \* those an adapter that picks leaves out
  Unnamed,      \* those whose URL has no id in it
  Undescribed,  \* those without a body in the feed of Personio
  English,      \* those with one in its English feed
  Listing,      \* the request for a page of the listing, or for what precedes it
  PageSize,
  MaxPages,     \* ttMaxPages
  Workers,      \* defaultDetailWorkers
  MaxRetries,   \* Client.maxRetries
  RetryDelay,   \* Client.retryDelay
  Second,       \* time.Second, in the units of a Duration
  HalfRange,    \* 2^63, half the range of a Duration
  MaxDelay,     \* the cap of retryAfter
  Hints,        \* the seconds a server may send in Retry-After
  MaxTransient, \* bound: attempts that fail in a way that may recover
  MaxFinal,     \* bound: attempts that fail for good
  MaxChanges    \* bound: changes of the board

ASSUME FetchingAssumption ==
  /\ Listing \notin Postings
  /\ PageSize \in Nat \ {0} /\ MaxPages \in Nat \ {0} /\ Workers \in Nat \ {0}
  /\ MaxRetries \in Nat
  /\ MaxDelay \in Nat /\ RetryDelay \in 0..MaxDelay
  /\ Second \in Nat /\ HalfRange \in Nat \ {0}
  /\ Hints \subseteq Nat
  /\ MaxTransient \in Nat /\ MaxFinal \in Nat /\ MaxChanges \in Nat

VARIABLES
  adapter,
  server,     \* what the server of the board is like
  board,      \* its postings, in the order it lists them
  phase,      \* what Fetch is doing
  position,   \* postings on the pages before the one it asks for
  received,   \* the postings of the pages it has read
  todo,       \* those it has yet to ask the details of
  attempts,   \* failed attempts of each request that is under way
  jobs,       \* the postings it returns
  dropped,    \* history: those whose details failed
  cut,        \* history: why the listing was not read to its end, if it was not
  steady,     \* history: postings that were on the board all the time
  shifted,    \* history: a change has moved what was unread across position
  longest,    \* history: the longest wait before an attempt
  transients, finals, changes

listing == <<position, received, cut>>
detail == <<todo, jobs, dropped>>
world == <<server, board, steady, shifted, changes>>
vars == <<adapter, world, phase, listing, detail, attempts, longest, transients, finals>>

Ended == {"rejected", "failed", "done"}

-----------------------------------------------------------------------------
(* The client: Client.do.                                                  *)

(* Mutant: the hint is not capped.                                          *)
RetryAfter_Uncapped(secs) == ((secs * Second + HalfRange) % (2 * HalfRange)) - HalfRange

(* The product overflows a Duration; a hint that comes out negative is no  *)
(* wait at all.                                                            *)
RetryAfter(secs) ==
  LET d == ((secs * Second + HalfRange) % (2 * HalfRange)) - HalfRange
  IN IF d > MaxDelay THEN MaxDelay ELSE d

Asking(q) == attempts' = [r \in {q} |-> 0]
NotAsking(q) == attempts' = [r \in DOMAIN attempts \ {q} |-> attempts[r]]

(* Mutant: one attempt too few.                                             *)
MayRetry_OneLess(q) == attempts[q] + 1 < MaxRetries

MayRetry(q) == attempts[q] < MaxRetries

(* A network error, a 5xx or a 429: it is tried again after the fixed      *)
(* delay, or after the one the server asks for.                            *)
Retry(q) ==
  /\ q \in DOMAIN attempts
  /\ MayRetry(q)
  /\ transients < MaxTransient
  /\ transients' = transients + 1
  /\ attempts' = [attempts EXCEPT ![q] = @ + 1]
  /\ \E d \in {RetryDelay} \cup {RetryAfter(secs) : secs \in Hints} :
       longest' = IF d > longest THEN d ELSE longest
  /\ UNCHANGED <<adapter, world, phase, listing, detail, finals>>

(* The attempts are used up, or it failed for good: another status, or a   *)
(* body that cannot be decoded.                                            *)
Fails(q) ==
  /\ q \in DOMAIN attempts
  /\ \/ /\ ~MayRetry(q)
        /\ transients < MaxTransient
        /\ transients' = transients + 1
        /\ UNCHANGED finals
     \/ /\ finals < MaxFinal
        /\ finals' = finals + 1
        /\ UNCHANGED transients
  /\ UNCHANGED longest

Succeeds(q) ==
  /\ q \in DOMAIN attempts
  /\ UNCHANGED <<longest, transients, finals>>

-----------------------------------------------------------------------------
(* The listing.                                                            *)

(* Most servers are honest.  One that is stale serves the first page       *)
(* whatever it is asked for; one that boasts counts postings it has not.   *)
Servers == {"honest", "stale", "boastful"}

Total == Len(board) + IF server = "boastful" THEN 2 * PageSize ELSE 0

Page ==
  LET from == IF server = "stale" THEN 0 ELSE position
      to == IF adapter.paging = "whole" THEN Len(board) ELSE from + PageSize
  IN {board[n] : n \in {n \in DOMAIN board : from < n /\ n <= to}}

(* Where the next page is, and none if this was the last one.              *)
Received ==
  LET next == position + Cardinality(Page)
  IN IF Page = {} \/ next >= Total THEN {} ELSE {next}

Counted ==
  IF position + PageSize >= Total THEN {} ELSE {position + PageSize}

(* Mutant: the server's word that it has not finished is enough.            *)
Advances_Trusted(next) == TRUE

Advances(next) == next > position

Offset ==
  LET next == IF server = "stale" THEN position ELSE position + Cardinality(Page)
      finished == server # "stale" /\ next >= Total
  IN IF finished \/ ~Advances(next) THEN {} ELSE {next}

Cursor ==
  CASE server = "stale" -> {PageSize}
    [] position + PageSize < Total -> {position + PageSize}
    [] OTHER -> {}

(* Links without an id are dropped before the new ones are counted.        *)
Linked(P) == P \ Unnamed

Fresh ==
  IF Linked(Page) \subseteq received \/ position + PageSize >= MaxPages * PageSize THEN {}
  ELSE {position + PageSize}

NextPositions ==
  CASE adapter.paging = "whole" -> {}
    [] adapter.paging = "received" -> Received
    [] adapter.paging = "counted" -> Counted
    [] adapter.paging = "offset" -> Offset
    [] adapter.paging = "cursor" -> Cursor
    [] adapter.paging = "fresh" -> Fresh

Wanted(P) ==
  {p \in P : (adapter.picks => p \notin Internal) /\ (~adapter.named => p \notin Unnamed)}

(* The listing has been read: what it yields by itself, and what there is  *)
(* to ask for.                                                             *)
Details(P) ==
  IF adapter.details = "fill" /\ P \cap Undescribed # {}
  THEN phase' = "english" /\ jobs' = P /\ todo' = P \cap Undescribed /\ Asking(Listing)
  ELSE /\ phase' = "details"
       /\ attempts' = [q \in {} |-> 0]
       /\ jobs' = IF adapter.details \in {"none", "fill"} THEN Wanted(P) ELSE {}
       /\ todo' = IF adapter.details \in {"none", "fill"} THEN {} ELSE Wanted(P)

Begin ==
  /\ phase = "start"
  /\ phase' = IF adapter.prelim THEN "prelim" ELSE "list"
  /\ Asking(Listing)
  /\ UNCHANGED <<adapter, world, listing, detail, longest, transients, finals>>

Reject ==
  /\ phase = "start"
  /\ adapter.parses
  /\ phase' = "rejected"
  /\ UNCHANGED <<adapter, world, listing, detail, attempts, longest, transients, finals>>

Prelim ==
  /\ phase = "prelim"
  /\ Succeeds(Listing)
  /\ phase' = "list"
  /\ Asking(Listing)
  /\ UNCHANGED <<adapter, world, listing, detail>>

(* Why the listing ends with a page that is not a repetition.              *)
Stops == IF Linked(Page) \subseteq received THEN "unlinked" ELSE "capped"

(* A page arrives.                                                         *)
ReadPage ==
  /\ phase = "list"
  /\ Succeeds(Listing)
  /\ received' = received \cup Page
  /\ IF NextPositions = {}
     THEN /\ Details(received \cup Page)
          /\ cut' = IF adapter.paging = "fresh" /\ ~(Page \subseteq received) THEN Stops ELSE cut
          /\ UNCHANGED position
     ELSE /\ position' \in NextPositions
          /\ Asking(Listing)
          /\ UNCHANGED <<phase, jobs, todo, cut>>
  /\ UNCHANGED <<adapter, world, dropped>>

(* Mutant: a later page that fails ends the listing of any adapter.         *)
Lenient_Always == position > 0

(* Teamtailor goes on with the pages it has got.                           *)
Lenient == adapter.paging = "fresh" /\ position > 0

PageFails ==
  /\ phase \in {"prelim", "list"}
  /\ Fails(Listing)
  /\ IF phase = "list" /\ Lenient
     THEN /\ Details(received)
          /\ cut' = "failed"
     ELSE /\ phase' = "failed"
          /\ NotAsking(Listing)
          /\ UNCHANGED <<cut, jobs, todo>>
  /\ UNCHANGED <<adapter, world, position, received, dropped>>

-----------------------------------------------------------------------------
(* The details.                                                            *)

(* The English feed of Personio is read if a posting lacks a body; if it   *)
(* cannot be read, their pages are.                                        *)
EnglishArrives ==
  /\ phase = "english"
  /\ Succeeds(Listing)
  /\ todo' = todo \ English
  /\ phase' = "details"
  /\ NotAsking(Listing)
  /\ UNCHANGED <<adapter, world, listing, jobs, dropped>>

EnglishFails ==
  /\ phase = "english"
  /\ Fails(Listing)
  /\ UNCHANGED todo
  /\ phase' = "details"
  /\ NotAsking(Listing)
  /\ UNCHANGED <<adapter, world, listing, jobs, dropped>>

AtOnce == IF adapter.details = "pool" THEN Workers ELSE 1

AskDetail(p) ==
  /\ phase = "details"
  /\ p \in todo
  /\ Cardinality(DOMAIN attempts) < AtOnce
  /\ todo' = todo \ {p}
  /\ attempts' = [q \in DOMAIN attempts \cup {p} |-> IF q = p THEN 0 ELSE attempts[q]]
  /\ UNCHANGED <<adapter, world, phase, listing, jobs, dropped, longest, transients, finals>>

DetailArrives(p) ==
  /\ phase = "details"
  /\ Succeeds(p)
  /\ NotAsking(p)
  /\ jobs' = jobs \cup {p}
  /\ UNCHANGED <<adapter, world, phase, listing, todo, dropped>>

DetailFails(p) ==
  /\ phase = "details"
  /\ Fails(p)
  /\ NotAsking(p)
  /\ dropped' = IF adapter.details = "fill" THEN dropped ELSE dropped \cup {p}
  /\ UNCHANGED <<adapter, world, phase, listing, todo, jobs>>

Return ==
  /\ phase = "details"
  /\ todo = {}
  /\ DOMAIN attempts = {}
  /\ phase' = "done"
  /\ UNCHANGED <<adapter, world, listing, detail, attempts, longest, transients, finals>>

-----------------------------------------------------------------------------
(* The board.                                                              *)

(* The fetch has read the listing up to there, and goes on.                *)
Passed(n) == phase = "list" /\ n <= position

(* A posting appears somewhere on the board.                               *)
Publish(p) ==
  /\ changes < MaxChanges
  /\ changes' = changes + 1
  /\ p \notin Range(board)
  /\ \E n \in 1..(Len(board) + 1) :
       /\ board' = InsertAt(board, n, p)
       /\ shifted' = (shifted \/ (adapter.paging = "fresh" /\ Passed(n)))
  /\ UNCHANGED <<adapter, server, steady, phase, listing, detail, attempts, longest,
                 transients, finals>>

(* A posting is taken off it.                                              *)
Withdraw(n) ==
  /\ changes < MaxChanges
  /\ changes' = changes + 1
  /\ n \in DOMAIN board
  /\ board' = RemoveAt(board, n)
  /\ steady' = steady \ {board[n]}
  /\ shifted' = (shifted \/ Passed(n))
  /\ UNCHANGED <<adapter, server, phase, listing, detail, attempts, longest,
                 transients, finals>>

-----------------------------------------------------------------------------
Init ==
  /\ adapter \in All
  /\ server \in Servers
  /\ board \in {s \in SeqOf(Postings, Cardinality(Postings)) : IsInjective(s)}
  /\ phase = "start"
  /\ position = 0
  /\ received = {}
  /\ todo = {}
  /\ attempts = [q \in {} |-> 0]
  /\ jobs = {}
  /\ dropped = {}
  /\ cut = "no"
  /\ steady = Range(board)
  /\ shifted = FALSE
  /\ longest = 0
  /\ transients = 0
  /\ finals = 0
  /\ changes = 0

Work ==
  \/ Begin \/ Reject \/ Prelim \/ ReadPage \/ EnglishArrives \/ Return
  \/ \E p \in Postings : AskDetail(p) \/ DetailArrives(p)

Trouble ==
  \/ PageFails \/ EnglishFails
  \/ \E q \in Postings \cup {Listing} : Retry(q)
  \/ \E p \in Postings : DetailFails(p)

Next ==
  \/ Work
  \/ Trouble
  \/ \E p \in Postings : Publish(p)
  \/ \E n \in DOMAIN board : Withdraw(n)
  \/ phase \in Ended /\ UNCHANGED vars

Spec == Init /\ [][Next]_vars

(* An attempt is over after 15 seconds at most, and those that fail are    *)
(* bounded.                                                                *)
FairSpec == Spec /\ WF_vars(Work)

-----------------------------------------------------------------------------
(* Properties.                                                             *)

(* The pools and the retries keep to their bounds, and no wait is longer   *)
(* than the cap: "so one rate-limited board cannot stall the whole crawl"  *)
(* (retryAfter).                                                           *)
TypeOK ==
  /\ adapter \in All /\ server \in Servers
  /\ board \in Seq(Postings) /\ steady \subseteq Range(board)
  /\ phase \in {"start", "prelim", "list", "english", "details"} \cup Ended
  /\ attempts \in [DOMAIN attempts -> 0..MaxRetries]
  /\ DOMAIN attempts = {Listing} \/ DOMAIN attempts \subseteq Postings
  /\ Cardinality(DOMAIN attempts) <= Workers
  /\ jobs \cup todo \cup dropped \subseteq received
  /\ longest \in 0..MaxDelay

(* A fetch that reports no error has every posting that was on the board   *)
(* throughout, but for those whose own details failed, if the server is    *)
(* honest and nothing the fetch had passed was withdrawn (or, for an       *)
(* adapter that stops when nothing is new, published) while it read the    *)
(* listing; unless a later page of Teamtailor fails, is one too many, or   *)
(* has only links without an id.  The sweep closes what a fetch leaves     *)
(* out.                                                                    *)
Complete ==
  phase = "done" /\ server = "honest" /\ ~shifted =>
    \/ Wanted(steady) \subseteq jobs \cup dropped
    \/ adapter.paging = "fresh" /\ cut # "no"

(* As few attempts that may recover as the client retries cost nothing: no *)
(* board fails, no listing is cut short, and no posting is dropped.        *)
Tolerates ==
  phase = "failed" \/ cut = "failed" \/ dropped # {} =>
    finals > 0 \/ transients > MaxRetries

(* A fetch comes to an end, whatever the server says, unless it follows    *)
(* links and the server sends it back to where it has been.                *)
Ends == (server = "stale" /\ adapter.paging = "cursor") \/ <>(phase \in Ended)
=============================================================================
