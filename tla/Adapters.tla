------------------------------ MODULE Adapters ------------------------------
(***************************************************************************)
(* The adapters of internal/sources, one record per platform: the requests *)
(* its Fetch makes, and what it does when one fails.  What an adapter      *)
(* copies from a response into a Job is left out.                          *)
(*                                                                         *)
(*   parses   the board id is parsed first, and may be malformed           *)
(*   prelim   a request that has to succeed comes before the listing       *)
(*   paging   how the listing is read:                                     *)
(*     "whole"     one request lists the board                             *)
(*     "received"  from the number of postings received, until a page is   *)
(*                 empty or the total is reached                           *)
(*     "counted"   at a fixed stride, until the total or the number of     *)
(*                 pages is reached                                        *)
(*     "offset"    from where the server says, until it says it has        *)
(*                 finished or does not advance                            *)
(*     "cursor"    where the server's link leads, until there is none      *)
(*     "fresh"     page by page, until one has no link that is new or the  *)
(*                 last page is reached; only the first page must succeed  *)
(*   picks    postings that are not meant for applicants are left out      *)
(*   named    a posting whose URL has no id in it is left out              *)
(*   details  what is requested for each posting:                          *)
(*     "none"   nothing                                                    *)
(*     "pool"   its page, concurrently; if that fails it is left out       *)
(*     "paced"  its page, one after the other; likewise                    *)
(*     "fill"   its page, if neither feed has a body for it; it is kept    *)
(***************************************************************************)

Listed == [parses |-> FALSE, prelim |-> FALSE, paging |-> "whole", picks |-> FALSE,
           named |-> TRUE, details |-> "none"]

(* fetchDetails with defaultDetailWorkers.                                 *)
Detailed == [Listed EXCEPT !.details = "pool"]

-----------------------------------------------------------------------------
(* The board in one request, bodies and all.                               *)
Greenhouse == Listed
Lever == Listed
Ashby == Listed
Workable == Listed
Recruitee == Listed
Pinpoint == Listed

(* The English feed and the pages of the postings only fill in bodies.     *)
Personio == [Listed EXCEPT !.details = "fill"]

-----------------------------------------------------------------------------
(* The board in one request, and one for each posting.                     *)
Rippling == Detailed
BambooHR == Detailed
Breezy == Detailed
Gem == Detailed
Aviasales == Detailed
Dodo == Detailed
Domclick == Detailed
MtsLink == [Detailed EXCEPT !.picks = TRUE]
Huntflow == [Detailed EXCEPT !.picks = TRUE]
SuccessFactors == [Detailed EXCEPT !.named = FALSE]

-----------------------------------------------------------------------------
(* The board in pages.                                                     *)
SmartRecruiters == [Detailed EXCEPT !.paging = "received"]
Lamoda == [Detailed EXCEPT !.paging = "received"]
Workday == [Detailed EXCEPT !.paging = "received", !.parses = TRUE]

Sber == [Listed EXCEPT !.paging = "counted"]
Kuper == [Listed EXCEPT !.paging = "counted"]
AlfaBank == [Listed EXCEPT !.paging = "counted", !.prelim = TRUE]
RWB == [Detailed EXCEPT !.paging = "counted"]
Join == [Detailed EXCEPT !.paging = "counted"]
Ozon == [Detailed EXCEPT !.paging = "counted", !.picks = TRUE]
MTS == [Detailed EXCEPT !.paging = "counted", !.prelim = TRUE]

TBank == [Detailed EXCEPT !.paging = "offset"]

Yandex == [Detailed EXCEPT !.paging = "cursor", !.picks = TRUE]
VK == [Listed EXCEPT !.paging = "cursor", !.details = "paced"]

Teamtailor == [Detailed EXCEPT !.paging = "fresh", !.parses = TRUE, !.named = FALSE]

(* The registry, without the names: platforms that behave alike are one.   *)
All ==
  {Greenhouse, Lever, Ashby, Workable, Recruitee, SmartRecruiters, Personio, Pinpoint,
   Rippling, BambooHR, Workday, Huntflow, Gem, SuccessFactors, Teamtailor, Breezy, Join,
   Yandex, Ozon, RWB, Sber, AlfaBank, Lamoda, Kuper, Aviasales, Dodo, Domclick, MtsLink,
   TBank, MTS, VK}
=============================================================================
