----------------------------- MODULE Catalogue ------------------------------
(***************************************************************************)
(* The one-off maintenance commands against the crawls.  cmd/reslug        *)
(* recomputes the slugs of every job after the slug builder has changed    *)
(* and re-keys the companies to match; cmd/backfill-geo and                *)
(* cmd/backfill-skills recompute the columns derived from the location and *)
(* the description.  All three page through the table by id and write      *)
(* what they computed from a page over the row as it is by then.           *)
(*                                                                         *)
(* A name stands for the title and company of a posting, a text for its    *)
(* location and description.                                               *)
(***************************************************************************)
EXTENDS Naturals, FiniteSets

CONSTANTS
  Ids,        \* job ids
  Crawled,    \* those whose posting is still crawled
  Names, Texts, Modes,
  Postings,   \* what boards may show: records of a name, a text and a mode
  NoMode,     \* work_mode = ''
  NoSlug,     \* the slug of a name that cannot be transliterated
  SlugOf,     \* normalize.Slug of each build: build -> name -> slug
  GeoOf,      \* location.Parse: text -> countries and regions
  ModeOf,     \* location.Parse: text -> work mode
  SkillsOf,   \* skilltag.Parse: text -> skills
  Empty,      \* '{}', the default of the derived columns
  Runs,       \* maintenance processes that may be alive at the same time
  BatchSize,  \* reslugBatchSize, backfillBatchSize
  MaxRuns,    \* bound: maintenance runs ever started
  MaxEvents   \* bound: edits of postings, failed statements and crashes

Builds == {1, 2}
Kinds == {"reslug", "geo", "skills"}

ASSUME CatalogueAssumption ==
  /\ IsFiniteSet(Ids) /\ Ids \subseteq Nat \ {0}
  /\ Crawled \subseteq Ids
  /\ NoMode \in Modes
  /\ Postings \subseteq [name : Names, text : Texts, mode : Modes]
  /\ ModeOf \in [Texts -> Modes]
  /\ BatchSize \in Nat \ {0}
  /\ MaxRuns \in Nat /\ MaxEvents \in Nat

VARIABLES
  board,      \* the postings as their boards show them
  rows,       \* the jobs table: id -> row
  companies,  \* the companies table: its slugs
  build,      \* the slug builder that is deployed
  ingests,    \* the builders of the crawls that run
  kind,       \* the command of each run
  binary,     \* the builder it was built with
  pc,         \* where it stands
  afterID,    \* the last id of the page it has read
  page,       \* the rows of that page it has yet to work on
  orphans,    \* the companies it is about to delete
  fresh,      \* history: rows that were there when it started and were not
              \* upserted since, as long as no run of the same kind overlaps
  quiet,      \* history: runs since whose start no upsert has come
  late,       \* history: rows written since it looked for orphans
  runs, events

job == <<rows, companies>>
run == <<kind, binary, pc, afterID, page, orphans>>
history == <<fresh, quiet, late>>
software == <<build, ingests>>
vars == <<board, job, software, run, history, runs, events>>

NoRow == [name |-> NoSlug]
NoPage == [i \in {} |-> NoRow]

Slug(b, name) == SlugOf[b][name]
(* The shortcode makes every slug unique: it derives from the dedup key.   *)
JobSlug(b, name, i) == <<SlugOf[b][name], i>>

(* normalizeJob: a structured work mode wins over the parsed one.          *)
WorkMode(p) == IF p.mode # NoMode THEN p.mode ELSE ModeOf[p.text]

-----------------------------------------------------------------------------
(* The crawls.                                                             *)

(* Mutant: the company is upserted with new jobs only.                     *)
CompanyUpsert_NewOnly(i, b) ==
  companies' = companies \cup IF i \in DOMAIN rows THEN {}
                              ELSE {Slug(b, board[i].name)} \ {NoSlug}

CompanyUpsert(i, b) ==
  companies' = companies \cup ({Slug(b, board[i].name)} \ {NoSlug})

(* What the upsert stores: everything but the public slug of a row that    *)
(* exists, which was minted when it was inserted.                          *)
Stored(i, b) ==
  LET p == board[i] IN
  [name |-> p.name, text |-> p.text, company |-> Slug(b, p.name),
   public |-> IF i \in DOMAIN rows THEN rows[i].public ELSE JobSlug(b, p.name, i),
   geo |-> GeoOf[p.text], skills |-> SkillsOf[p.text], mode |-> WorkMode(p)]

Late(i) ==
  late' = [r \in Runs |-> IF pc[r] = "delete" THEN late[r] \cup {i} ELSE late[r]]

(* The transaction of a crawl that saves one posting.                      *)
UpsertJob(i) ==
  /\ i \in Crawled
  /\ \E b \in ingests :
       /\ CompanyUpsert(i, b)
       /\ rows' = [k \in DOMAIN rows \cup {i} |-> IF k = i THEN Stored(i, b) ELSE rows[k]]
  /\ fresh' = [r \in Runs |-> fresh[r] \ {i}]
  /\ quiet' = {}
  /\ Late(i)
  /\ UNCHANGED <<board, software, run, runs, events>>

(* A posting is edited on its board.                                       *)
Edit(i) ==
  /\ i \in Crawled
  /\ events < MaxEvents
  /\ events' = events + 1
  /\ \E p \in Postings \ {board[i]} : board' = [board EXCEPT ![i] = p]
  /\ UNCHANGED <<job, software, run, history, runs>>

(* The slug builder is changed on purpose ...                              *)
Deploy ==
  /\ build = 1
  /\ build' = 2
  /\ ingests' = ingests \cup {2}
  /\ UNCHANGED <<board, job, run, history, runs, events>>

(* ... and the last crawl of the old binary ends.                          *)
Retire ==
  /\ ingests # {build}
  /\ ingests' = {build}
  /\ UNCHANGED <<board, job, build, run, history, runs, events>>

-----------------------------------------------------------------------------
(* One run of a maintenance command.                                       *)

Start(r, k) ==
  /\ pc[r] = "idle"
  /\ runs < MaxRuns
  /\ runs' = runs + 1
  /\ pc' = [pc EXCEPT ![r] = "read"]
  /\ kind' = [kind EXCEPT ![r] = k]
  /\ binary' = [binary EXCEPT ![r] = build]
  /\ LET rivals == {q \in Runs : pc[q] # "idle" /\ kind[q] = k}
     IN /\ fresh' = [q \in Runs |-> CASE q = r -> IF rivals = {} THEN DOMAIN rows ELSE {}
                                      [] q \in rivals -> {}
                                      [] OTHER -> fresh[q]]
        /\ quiet' = IF rivals = {} THEN quiet \cup {r} ELSE quiet \ rivals
  /\ UNCHANGED <<board, job, software, afterID, page, orphans, late, events>>

Exit(r) ==
  /\ pc' = [pc EXCEPT ![r] = "idle"]
  /\ afterID' = [afterID EXCEPT ![r] = 0]
  /\ page' = [page EXCEPT ![r] = NoPage]
  /\ orphans' = [orphans EXCEPT ![r] = {}]
  /\ fresh' = [fresh EXCEPT ![r] = {}]
  /\ quiet' = quiet \ {r}
  /\ late' = [late EXCEPT ![r] = {}]
  /\ UNCHANGED <<kind, binary>>

(* ListJobsByIDAfter.                                                      *)
PageAfter(n) ==
  LET rest == {i \in DOMAIN rows : i > n}
  IN {i \in rest : Cardinality({k \in rest : k < i}) < BatchSize}

(* What follows the last page: only reslug has more to do.                 *)
Last(r) == pc' = [pc EXCEPT ![r] = IF kind[r] = "reslug" THEN "sync" ELSE "end"]

Read(r) ==
  /\ pc[r] = "read"
  /\ LET ids == PageAfter(afterID[r])
     IN IF ids = {} THEN Last(r) /\ UNCHANGED <<afterID, page>>
        ELSE /\ afterID' = [afterID EXCEPT ![r] = CHOOSE n \in ids : \A i \in ids : i <= n]
             /\ page' = [page EXCEPT ![r] = [i \in ids |-> rows[i]]]
             /\ pc' = [pc EXCEPT ![r] = IF Cardinality(ids) < BatchSize THEN "last" ELSE "rows"]
  /\ UNCHANGED <<board, job, software, kind, binary, orphans, history, runs, events>>

(* Mutant: the work mode is parsed again whatever it is.                    *)
FilledMode_Always(old) == ModeOf[old.text]

(* The parsed work mode only fills an empty one.                           *)
FilledMode(old) == IF old.mode = NoMode THEN ModeOf[old.text] ELSE old.mode

(* The statement a run issues for a row it has read as old, against the    *)
(* row as it is now; nothing, if what it computes is what it has read.     *)
Rewritten(r, i, old, now) ==
  CASE kind[r] = "reslug" ->
         LET public == JobSlug(binary[r], old.name, i)
             company == Slug(binary[r], old.name)
         IN IF public = old.public /\ company = old.company THEN now
            ELSE [now EXCEPT !.public = public, !.company = company]
    [] kind[r] = "geo" ->
         IF GeoOf[old.text] = old.geo /\ FilledMode(old) = old.mode THEN now
         ELSE [now EXCEPT !.geo = GeoOf[old.text], !.mode = FilledMode(old)]
    [] kind[r] = "skills" ->
         IF SkillsOf[old.text] = old.skills THEN now
         ELSE [now EXCEPT !.skills = SkillsOf[old.text]]

(* The next row of the page.                                               *)
Rewrite(r) ==
  /\ pc[r] \in {"rows", "last"}
  /\ \E i \in DOMAIN page[r] :
       /\ \A k \in DOMAIN page[r] : i <= k
       /\ rows' = [rows EXCEPT ![i] = Rewritten(r, i, page[r][i], @)]
       /\ page' = [page EXCEPT ![r] = [k \in DOMAIN @ \ {i} |-> @[k]]]
       /\ Late(i)
  /\ UNCHANGED <<board, companies, software, kind, binary, pc, afterID, orphans, fresh, quiet,
                 runs, events>>

PageDone(r) ==
  /\ DOMAIN page[r] = {}
  /\ \/ pc[r] = "rows" /\ pc' = [pc EXCEPT ![r] = "read"]
     \/ pc[r] = "last" /\ Last(r)
  /\ UNCHANGED <<board, job, software, kind, binary, afterID, page, orphans, history,
                 runs, events>>

Used == {rows[i].company : i \in DOMAIN rows} \ {NoSlug}

(* Mutants: the companies are not brought back; jobs without a slug are    *)
(* not left out.                                                           *)
SyncCompaniesFromJobs_Not == companies' = companies

SyncCompaniesFromJobs_All == companies' = companies \cup {rows[i].company : i \in DOMAIN rows}

SyncCompaniesFromJobs == companies' = companies \cup Used

Sync(r) ==
  /\ pc[r] = "sync"
  /\ SyncCompaniesFromJobs
  /\ pc' = [pc EXCEPT ![r] = "orphans"]
  /\ UNCHANGED <<board, rows, software, kind, binary, afterID, page, orphans, history,
                 runs, events>>

(* Mutant: closed or not, old or not: all companies are taken for orphans   *)
(* that no crawled job has.                                                 *)
Orphans_Uncrawled == companies \ {rows[i].company : i \in DOMAIN rows \cap Crawled}

Orphans == companies \ Used

(* DeleteOrphanCompanies sees the jobs as they were when the statement     *)
(* began, and deletes a company also if an upsert has updated it since:    *)
(* the check for jobs is not repeated.                                     *)
FindOrphans(r) ==
  /\ pc[r] = "orphans"
  /\ orphans' = [orphans EXCEPT ![r] = Orphans]
  /\ pc' = [pc EXCEPT ![r] = "delete"]
  /\ UNCHANGED <<board, job, software, kind, binary, afterID, page, history, runs, events>>

DeleteOrphans(r) ==
  /\ pc[r] = "delete"
  /\ companies' = companies \ orphans[r]
  /\ pc' = [pc EXCEPT ![r] = "end"]
  /\ UNCHANGED <<board, rows, software, kind, binary, afterID, page, orphans, history,
                 runs, events>>

Finish(r) ==
  /\ pc[r] = "end"
  /\ Exit(r)
  /\ UNCHANGED <<board, job, software, runs, events>>

(* The process dies, or a statement fails (log.Fatalf).                    *)
Crash(r) ==
  /\ pc[r] # "idle"
  /\ events < MaxEvents
  /\ events' = events + 1
  /\ Exit(r)
  /\ UNCHANGED <<board, job, software, runs>>

-----------------------------------------------------------------------------
(* The table holds rows from before the derived columns, of any builder.   *)
Legacy(i, p, b) ==
  [name |-> p.name, text |-> p.text, company |-> Slug(b, p.name),
   public |-> JobSlug(b, p.name, i), geo |-> Empty, skills |-> Empty, mode |-> NoMode]

Init ==
  /\ board \in [Ids -> Postings]
  /\ \E S \in SUBSET Ids :
       /\ Ids \ Crawled \subseteq S
       /\ rows = [i \in S |-> Legacy(i, board[i], 1)]
  /\ companies = Used
  /\ build = 1
  /\ ingests = {1}
  /\ kind = [r \in Runs |-> "reslug"]
  /\ binary = [r \in Runs |-> 1]
  /\ pc = [r \in Runs |-> "idle"]
  /\ afterID = [r \in Runs |-> 0]
  /\ page = [r \in Runs |-> NoPage]
  /\ orphans = [r \in Runs |-> {}]
  /\ fresh = [r \in Runs |-> {}]
  /\ quiet = {}
  /\ late = [r \in Runs |-> {}]
  /\ runs = 0
  /\ events = 0

RunStep(r) ==
  \/ \E k \in Kinds : Start(r, k)
  \/ Read(r) \/ Rewrite(r) \/ PageDone(r) \/ Sync(r) \/ FindOrphans(r)
  \/ DeleteOrphans(r) \/ Finish(r) \/ Crash(r)

Next ==
  \/ \E i \in Ids : UpsertJob(i) \/ Edit(i)
  \/ Deploy \/ Retire
  \/ \E r \in Runs : RunStep(r)

Spec == Init /\ [][Next]_vars

(* Crawls come again and again, and each of them ends.  The commands are   *)
(* started by hand.                                                        *)
FairSpec == Spec /\ WF_vars(Retire) /\ \A i \in Crawled : WF_vars(UpsertJob(i))

-----------------------------------------------------------------------------
(* Properties.                                                             *)

Steps == {"idle", "read", "rows", "last", "sync", "orphans", "delete", "end"}

TypeOK ==
  /\ board \in [Ids -> Postings]
  /\ DOMAIN rows \subseteq Ids
  /\ \A i \in DOMAIN rows :
       /\ rows[i].name \in Names /\ rows[i].text \in Texts /\ rows[i].mode \in Modes
       /\ rows[i].public[2] = i
  /\ build \in Builds /\ ingests \subseteq Builds
  /\ kind \in [Runs -> Kinds] /\ binary \in [Runs -> Builds] /\ pc \in [Runs -> Steps]
  /\ NoSlug \notin companies
  /\ \A r \in Runs : DOMAIN page[r] \subseteq DOMAIN rows /\ fresh[r] \subseteq DOMAIN rows

Resolves(i) == rows[i].company \in companies \cup {NoSlug}

Done(r, i) ==
  CASE kind[r] = "reslug" ->
         /\ rows[i].public = JobSlug(binary[r], rows[i].name, i)
         /\ rows[i].company = Slug(binary[r], rows[i].name)
         /\ Resolves(i)
    [] kind[r] = "geo" ->
         /\ rows[i].geo = GeoOf[rows[i].text]
         /\ rows[i].mode = NoMode => ModeOf[rows[i].text] = NoMode
    [] kind[r] = "skills" -> rows[i].skills = SkillsOf[rows[i].text]

(* A run that ends well has done its work on every row that was there when *)
(* it started and was not upserted since, whatever was upserted around it, *)
(* and whatever a run that crashed before left half done; and if nothing   *)
(* was, reslug leaves exactly the companies the jobs have.                 *)
RunDelivers ==
  [][\A r \in Runs : Finish(r) =>
       /\ \A i \in fresh[r] : Done(r, i)
       /\ kind[r] = "reslug" /\ r \in quiet => companies = Used]_vars

(* A job loses its company page in two ways only: by reslug, which has     *)
(* rewritten its key and not yet synced the companies, or by a deletion of *)
(* orphans that were looked for before the job was written, by an upsert   *)
(* or by another run.  And it loses a work mode that is set only to an     *)
(* upsert, or to a run that has read its page before the mode was set      *)
(* ("work_mode is preserved when already set", backfill-geo).              *)
Rekeyed(i) ==
  \E r \in Runs : /\ kind[r] = "reslug" /\ i \in DOMAIN page[r]
                  /\ rows'[i].company = Slug(binary[r], page[r][i].name)

LossesExplained ==
  [][\A i \in DOMAIN rows :
       /\ Resolves(i) /\ ~Resolves(i)' =>
            IF rows'[i].company # rows[i].company THEN Rekeyed(i)
            ELSE \E r \in Runs : /\ pc[r] = "delete" /\ pc'[r] = "end"
                                 /\ rows[i].company \in orphans[r] /\ i \in late[r]
       /\ rows[i].mode \notin {NoMode, rows'[i].mode} =>
            \/ UpsertJob(i)
            \/ \E r \in Runs : /\ kind[r] = "geo" /\ i \in DOMAIN page[r]
                               /\ page[r][i].mode # rows[i].mode]_vars

(* Every column of a row is in step with the others.                       *)
Consistent(i) ==
  /\ rows[i].company = Slug(build, rows[i].name)
  /\ Resolves(i)
  /\ rows[i].geo = GeoOf[rows[i].text]
  /\ rows[i].skills = SkillsOf[rows[i].text]
  /\ rows[i].mode = WorkMode(board[i])

(* What the commands have written from a stale page over a newer upsert,   *)
(* or deleted under it, is not for ever: a posting that is still crawled   *)
(* is consistent for good after the last of them, and has its company.     *)
Heals == \A i \in Crawled : <>[](i \in DOMAIN rows /\ Consistent(i))
=============================================================================
