------------------------------ MODULE UserJobs ------------------------------
(***************************************************************************)
(* What accounts do with jobs: one row of user_jobs per account and job,   *)
(* written by single statements that each set some of its columns.  The    *)
(* requests are those of Accounts' clients, and get in by a session or by  *)
(* an API key; account and job are read first and the row is written       *)
(* later.  ListMyJobs reads its page and its totals by two statements.     *)
(*                                                                         *)
(* A timestamp is modelled by whether it is set.                           *)
(***************************************************************************)
EXTENDS Accounts

CONSTANTS
  Jobs,     \* jobs, by id: the slug in the path is resolved to it once
  Stages,   \* userjob.Stages
  Applied,  \* the stage an application starts in
  Notes,    \* what a note may say
  None      \* NULL

ASSUME UserJobsAssumption ==
  /\ Applied \in Stages
  /\ None \notin Stages \cup Notes

VARIABLES
  rows,     \* user_jobs: <<account, job>> -> row
  ask,      \* what the request of each client asks for
  page,     \* the jobs ListMyJobs has read
  seen,     \* history: the rows of the account at that moment
  decided   \* history: stages set by TrackJob, for each account and job

vars == <<accountVars, rows, ask, page, seen, decided>>

Pairs == UserIds \X Jobs
Row == [saved : BOOLEAN, applied : BOOLEAN, stage : Stages \cup {None}, notes : Notes \cup {None}]
NewRow == [saved |-> FALSE, applied |-> FALSE, stage |-> None, notes |-> None]
NoRows == [k \in {} |-> NewRow]

Filters == {"all", "viewed", "saved", "applied"}
AskFor(op, job) == [op |-> op, job |-> job, stage |-> None, notes |-> None]
NoAsk == AskFor("none", None)

(* The bodies and paths that pass validation: a track request sets a       *)
(* stage, notes or both (ValidStage).                                      *)
Asks ==
  {AskFor(op, j) : op \in {"view", "apply", "save", "unsave"}, j \in Jobs}
  \cup {[op |-> "track", job |-> j, stage |-> s, notes |-> n] :
          j \in Jobs, s \in Stages \cup {None}, n \in Notes \cup {None}}
  \cup {AskFor("list", f) : f \in Filters}

WellFormed(a) == a.op = "track" => a.stage # None \/ a.notes # None

-----------------------------------------------------------------------------
(* The request is let in; TrackJob, UnsaveJob etc. resolve the slug.       *)
Ask(c) ==
  /\ pc[c] = "idle"
  /\ Spend("track")
  /\ \E a \in RequireAuthOrKey(c) :
       local' = [local EXCEPT ![c] = [Blank EXCEPT !.via = a[1], !.who = a[2]]]
  /\ \E a \in {x \in Asks : WellFormed(x)} : ask' = [ask EXCEPT ![c] = a]
  /\ pc' = [pc EXCEPT ![c] = "interact"]
  /\ UNCHANGED <<tables, keyring, cookies, vouched, opened, contested, rows, page, seen, decided>>

Key(c) == <<local[c].who, ask[c].job>>
Existing(c) == IF Key(c) \in DOMAIN rows THEN rows[Key(c)] ELSE NewRow

(* COALESCE.                                                               *)
Coalesce(x, y) == IF x # None THEN x ELSE y

(* Mutant: an application overwrites the stage.                             *)
MarkJobApplied_Resets(r) == [r EXCEPT !.applied = TRUE, !.stage = Applied]

(* The stage is seeded only if there is none.                              *)
MarkJobApplied(r) == [r EXCEPT !.applied = TRUE, !.stage = Coalesce(@, Applied)]

(* Mutant: what the body leaves out is cleared.                             *)
TrackJob_Overwrites(r, a) == [r EXCEPT !.stage = a.stage, !.notes = a.notes]

TrackJob(r, a) ==
  [r EXCEPT !.stage = Coalesce(a.stage, @), !.notes = Coalesce(a.notes, @)]

SaveJob(r) == [r EXCEPT !.saved = TRUE]
UnsaveJob(r) == [r EXCEPT !.saved = FALSE]

(* The row after the upsert; a view touches viewed_at alone.               *)
Updated(r, a) ==
  CASE a.op = "view" -> r
    [] a.op = "apply" -> MarkJobApplied(r)
    [] a.op = "save" -> SaveJob(r)
    [] a.op = "unsave" -> UnsaveJob(r)
    [] a.op = "track" -> TrackJob(r, a)

Leave(c) ==
  /\ Fail(c)
  /\ ask' = [ask EXCEPT ![c] = NoAsk]

(* Mutant: user_jobs does not refer to users.                               *)
HasAccount_Always(c) == TRUE

(* The foreign key of user_jobs.                                           *)
HasAccount(c) == local[c].who \in DOMAIN users

(* One statement writes the row.  An account that is gone by now has no    *)
(* row and gets none (foreign key, 404); unsaving creates none.            *)
Interact(c) ==
  /\ pc[c] = "interact" /\ ask[c].op # "list"
  /\ IF /\ HasAccount(c)
        /\ ask[c].op = "unsave" => Key(c) \in DOMAIN rows
     THEN rows' = [k \in DOMAIN rows \cup {Key(c)} |->
                     IF k = Key(c) THEN Updated(Existing(c), ask[c]) ELSE rows[k]]
     ELSE UNCHANGED rows
  /\ decided' = IF ask[c].stage # None /\ HasAccount(c)
                THEN [decided EXCEPT ![Key(c)] = @ \cup {ask[c].stage}] ELSE decided
  /\ Leave(c)
  /\ UNCHANGED <<tables, keyring, started, budget, vouched, opened, page, seen>>

-----------------------------------------------------------------------------
(* GET /me/jobs.                                                           *)

MyRows(u) == [j \in {x \in Jobs : <<u, x>> \in DOMAIN rows} |-> rows[<<u, j>>]]

(* The WHERE clause of ListUserJobs.                                       *)
InFilter(r, filter) ==
  \/ filter = "all"
  \/ filter = "viewed" /\ ~r.saved /\ ~r.applied
  \/ filter = "saved" /\ r.saved
  \/ filter = "applied" /\ r.applied

ListUserJobs(c) ==
  /\ pc[c] = "interact" /\ ask[c].op = "list"
  /\ LET mine == MyRows(local[c].who)
     IN /\ page' = [page EXCEPT ![c] = {j \in DOMAIN mine : InFilter(mine[j], ask[c].job)}]
        /\ seen' = [seen EXCEPT ![c] = mine]
  /\ pc' = [pc EXCEPT ![c] = "count"]
  /\ UNCHANGED <<tables, keyring, cookies, local, budget, vouched, opened, contested,
                 rows, ask, decided>>

(* Mutant: the badge counts as viewed whatever is not saved.                *)
CountUserJobs_Unsaved(mine) ==
  [all |-> Cardinality(DOMAIN mine),
   viewed |-> Cardinality({j \in DOMAIN mine : ~mine[j].saved}),
   saved |-> Cardinality({j \in DOMAIN mine : mine[j].saved}),
   applied |-> Cardinality({j \in DOMAIN mine : mine[j].applied})]

(* The FILTER clauses of CountUserJobs.                                    *)
CountUserJobs(mine) ==
  [all |-> Cardinality(DOMAIN mine),
   viewed |-> Cardinality({j \in DOMAIN mine : ~(mine[j].saved \/ mine[j].applied)}),
   saved |-> Cardinality({j \in DOMAIN mine : mine[j].saved}),
   applied |-> Cardinality({j \in DOMAIN mine : mine[j].applied})]

(* The total of the response: that of the active tab.                      *)
Total(c) == CountUserJobs(MyRows(local[c].who))[ask[c].job]

(* The counts are read, and the response is sent.                          *)
Respond(c) ==
  /\ pc[c] = "count"
  /\ page' = [page EXCEPT ![c] = {}]
  /\ seen' = [seen EXCEPT ![c] = NoRows]
  /\ Leave(c)
  /\ UNCHANGED <<tables, keyring, started, budget, vouched, opened, rows, decided>>

-----------------------------------------------------------------------------
Init ==
  /\ AccountsInit
  /\ rows = NoRows
  /\ ask = [c \in Clients |-> NoAsk]
  /\ page = [c \in Clients |-> {}]
  /\ seen = [c \in Clients |-> NoRows]
  /\ decided = [k \in Pairs |-> {}]

(* Removing an account cascades to its rows.                               *)
Remove(u) ==
  /\ RemoveUser(u)
  /\ rows' = [k \in {x \in DOMAIN rows : x[1] # u} |-> rows[k]]
  /\ decided' = [k \in Pairs |-> IF k[1] = u THEN {} ELSE decided[k]]
  /\ UNCHANGED <<ask, page, seen>>

Next ==
  \/ AccountsNext /\ UNCHANGED <<rows, ask, page, seen, decided>>
  \/ \E u \in UserIds : Remove(u)
  \/ \E c \in Clients : Ask(c) \/ Interact(c) \/ ListUserJobs(c) \/ Respond(c)

Spec == Init /\ [][Next]_vars

-----------------------------------------------------------------------------
(* Properties.                                                             *)

TypeOK ==
  /\ AccountsTypeOK
  /\ DOMAIN rows \subseteq (DOMAIN users) \X Jobs
  /\ \A k \in DOMAIN rows : rows[k] \in Row
  /\ \A c \in Clients : ask[c] \in Asks \cup {NoAsk} /\ page[c] \subseteq Jobs
  /\ decided \in [Pairs -> SUBSET Stages]

Writing(c, k) == pc[c] = "interact" /\ local[c].who = k[1] /\ ask[c].job = k[2]

(* No interaction takes back another: a row stays, and so do its apply     *)
(* mark, its stage and its notes; only its account unsaves it, and changes *)
(* of its rows come from requests of the account alone, however the        *)
(* requests of its devices and keys cross (UnsaveJob, MarkJobApplied,      *)
(* TrackJob).                                                              *)
NothingUndone ==
  [][\A k \in DOMAIN rows : k[1] \in DOMAIN users' =>
       /\ k \in DOMAIN rows'
       /\ rows[k].applied => rows'[k].applied
       /\ rows[k].stage # None => rows'[k].stage # None
       /\ rows[k].notes # None => rows'[k].notes # None
       /\ rows'[k] # rows[k] =>
            \E c \in Clients : Writing(c, k) /\ pc'[c] = "idle"
       /\ rows[k].saved /\ ~rows'[k].saved =>
            \E c \in Clients : Writing(c, k) /\ ask[c].op = "unsave"]_vars

(* Applying and tracking commute: in whichever order they reach the        *)
(* database, once or again, the stage is one the account has decided on if *)
(* it has decided at all, and an application always has a stage            *)
(* ("applying again, or after the stage has been advanced, leaves the      *)
(* existing stage unchanged", user-job-tracking).                          *)
TrackingWins ==
  \A k \in Pairs :
    /\ decided[k] # {} => k \in DOMAIN rows /\ rows[k].stage \in decided[k]
    /\ k \in DOMAIN rows /\ rows[k].applied => rows[k].stage # None

(* The page and the total of a tab agree unless an interaction came in     *)
(* between the two statements: their two versions of the filter are the    *)
(* same (ListUserJobs, CountUserJobs).                                     *)
PageMatchesTotals ==
  [][\A c \in Clients :
       pc[c] = "count" /\ pc'[c] = "idle" /\ seen[c] = MyRows(local[c].who) =>
         Cardinality(page[c]) = Total(c)]_vars
=============================================================================
