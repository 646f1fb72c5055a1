--------------------------- MODULE CatalogueProofs ---------------------------
(***************************************************************************)
(* Proofs about Catalogue, for any finite set of job ids, any postings and *)
(* dictionaries, and any number of runs.                                   *)
(***************************************************************************)
EXTENDS Catalogue, KeysetPages

-----------------------------------------------------------------------------
(* The inductive invariant.                                                *)

IsRow(x) ==
  /\ x = [name |-> x.name, text |-> x.text, company |-> x.company, public |-> x.public,
          geo |-> x.geo, skills |-> x.skills, mode |-> x.mode]
  /\ x.name \in Names /\ x.text \in Texts /\ x.mode \in Modes

TypeInv ==
  /\ TypeOK
  /\ \A i \in DOMAIN rows : IsRow(rows[i])
  /\ DOMAIN page = Runs /\ DOMAIN fresh = Runs /\ DOMAIN orphans = Runs /\ DOMAIN late = Runs
  /\ \A r \in Runs : \A i \in DOMAIN page[r] : IsRow(page[r][i])
  /\ afterID \in [Runs -> Nat]
  /\ quiet \subseteq Runs

(* Where a run stands.                                                     *)
LocalInv(r) ==
  /\ pc[r] = "idle" => afterID[r] = 0 /\ fresh[r] = {} /\ r \notin quiet
  /\ pc[r] \notin {"rows", "last"} => DOMAIN page[r] = {}
  /\ pc[r] \in {"sync", "orphans", "delete"} => kind[r] = "reslug"

(* A run that claims anything has no rival of its kind.                    *)
Alone ==
  \A r \in Runs : \A q \in Runs \ {r} :
    pc[q] # "idle" /\ kind[q] = kind[r] => fresh[r] = {} /\ r \notin quiet

(* The columns a command reads and writes are the same in two rows.        *)
Agree(k, x, y) ==
  CASE k = "reslug" -> x.name = y.name /\ x.public = y.public /\ x.company = y.company
    [] k = "geo" -> x.text = y.text /\ x.geo = y.geo /\ x.mode = y.mode
    [] k = "skills" -> x.text = y.text /\ x.skills = y.skills

(* It has nothing left to write in a row.                                  *)
Written(k, b, i, x) ==
  CASE k = "reslug" -> x.public = JobSlug(b, x.name, i) /\ x.company = Slug(b, x.name)
    [] k = "geo" -> x.geo = GeoOf[x.text] /\ (x.mode = NoMode => ModeOf[x.text] = NoMode)
    [] k = "skills" -> x.skills = SkillsOf[x.text]

(* What is behind the scan is written, what is in the page is as it was    *)
(* read, and after the last page everything is behind the scan.            *)
ScanInv(r) ==
  \A i \in fresh[r] :
    /\ i \in DOMAIN page[r] => Agree(kind[r], page[r][i], rows[i])
    /\ i <= afterID[r] /\ i \notin DOMAIN page[r] => Written(kind[r], binary[r], i, rows[i])
    /\ pc[r] \in {"last", "sync", "orphans", "delete", "end"} => i <= afterID[r]

Ended(r) == pc[r] \in {"orphans", "delete", "end"}

(* After the sync the companies of the rows are there, and none that is    *)
(* about to be deleted has a row but by a write that came in between.      *)
CompanyInv(r) ==
  /\ kind[r] = "reslug" /\ Ended(r) => \A i \in fresh[r] : Resolves(i)
  /\ pc[r] = "delete" => \A i \in DOMAIN rows :
                           rows[i].company \in orphans[r] => i \in late[r] \ fresh[r]

QuietInv(r) ==
  r \in quiet /\ kind[r] = "reslug" =>
    /\ Ended(r) => Used \subseteq companies
    /\ pc[r] = "delete" => orphans[r] = companies \ Used
    /\ pc[r] = "end" => companies = Used

IInv == /\ TypeInv
        /\ Alone
        /\ \A r \in Runs : LocalInv(r) /\ ScanInv(r) /\ CompanyInv(r) /\ QuietInv(r)

-----------------------------------------------------------------------------
(* What a page read holds (ListJobsByIDAfter).                             *)

LEMMA PageFacts ==
  ASSUME DOMAIN rows \subseteq Ids, NEW n \in Nat
  PROVE  LET ids == PageAfter(n)
             m == CHOOSE x \in ids : \A i \in ids : i <= x
         IN /\ ids \subseteq DOMAIN rows
            /\ \A i \in ids : i > n
            /\ ids = {} => \A i \in DOMAIN rows : i <= n
            /\ ids # {} => /\ m \in ids /\ m \in Nat
                           /\ \A i \in ids : i <= m
                           /\ \A i \in DOMAIN rows : i > n /\ i <= m => i \in ids
            /\ Cardinality(ids) < BatchSize => \A i \in DOMAIN rows : i > n => i \in ids
<1>1. DOMAIN rows \subseteq Nat /\ IsFiniteSet(DOMAIN rows) /\ BatchSize \in Nat \ {0}
  BY CatalogueAssumption, FS_Subset
<1>2. PageAfter(n) = KeysetPage(DOMAIN rows, n, BatchSize)
  BY DEF PageAfter, KeysetPage
<1> QED BY <1>1, <1>2, PageOfSet

-----------------------------------------------------------------------------
(* What happens to a row.                                                  *)

LEMMA AgreeFacts ==
  ASSUME NEW k \in Kinds, NEW b, NEW i, NEW x, NEW y, Agree(k, x, y)
  PROVE  /\ Agree(k, y, x)
         /\ Written(k, b, i, x) <=> Written(k, b, i, y)
         /\ \A z : Agree(k, z, x) => Agree(k, z, y)
  BY DEF Agree, Written, Kinds

(* A statement of a run writes the columns of its command and no other,    *)
(* and a row that is still as it was read is done with it.                 *)
LEMMA RewrittenFacts ==
  ASSUME NEW r, kind[r] \in Kinds, NEW i, NEW old, NEW now, IsRow(old), IsRow(now),
         NEW x, x = Rewritten(r, i, old, now)
  PROVE  /\ IsRow(x) /\ x.name = now.name /\ x.text = now.text
         /\ now.public[2] = i => x.public[2] = i
         /\ kind[r] # "reslug" => x.public = now.public /\ x.company = now.company
         /\ kind[r] # "geo" => x.geo = now.geo /\ x.mode = now.mode
         /\ kind[r] # "skills" => x.skills = now.skills
         /\ now.mode # NoMode /\ old.mode = now.mode => x.mode = now.mode
         /\ x.company \in {now.company, Slug(binary[r], old.name)}
         /\ Agree(kind[r], old, now) => Written(kind[r], binary[r], i, x)
<1> DEFINE Made(c, p, g, s, m) == [name |-> now.name, text |-> now.text, company |-> c,
                             public |-> p, geo |-> g, skills |-> s, mode |-> m]
<1>0. \A c, p, g, s : \A m \in Modes : IsRow(Made(c, p, g, s, m))
  BY DEF IsRow
<1>1. now = Made(now.company, now.public, now.geo, now.skills, now.mode) /\ now.mode \in Modes
  BY DEF IsRow
<1>2. \A c, p, g, s, m :
        /\ Made(c, p, g, s, m).name = now.name /\ Made(c, p, g, s, m).text = now.text
        /\ Made(c, p, g, s, m).company = c /\ Made(c, p, g, s, m).public = p
        /\ Made(c, p, g, s, m).geo = g /\ Made(c, p, g, s, m).skills = s
        /\ Made(c, p, g, s, m).mode = m
  OBVIOUS
<1>3. CASE kind[r] = "reslug"
  <2> DEFINE p == JobSlug(binary[r], old.name, i)
             c == Slug(binary[r], old.name)
  <2>1. x = IF p = old.public /\ c = old.company THEN now
            ELSE [now EXCEPT !.public = p, !.company = c]
    BY <1>3 DEF Rewritten
  <2>2. p[2] = i
    BY DEF JobSlug
  <2>3. /\ p = JobSlug(binary[r], old.name, i)
        /\ c = Slug(binary[r], old.name)
    OBVIOUS
  <2> HIDE DEF p, c
  <2>4. [now EXCEPT !.public = p, !.company = c] = Made(c, p, now.geo, now.skills, now.mode)
    <3>1. PICK n, t, c0, p0, g0, s0, m0 :
            now = [name |-> n, text |-> t, company |-> c0, public |-> p0,
                   geo |-> g0, skills |-> s0, mode |-> m0]
      BY <1>1
    <3>2. [now EXCEPT !.public = p] =
             [name |-> n, text |-> t, company |-> c0, public |-> p,
              geo |-> g0, skills |-> s0, mode |-> m0]
      BY <3>1
    <3>3. [now EXCEPT !.public = p, !.company = c] = [[now EXCEPT !.public = p] EXCEPT !.company = c]
      BY <3>1
    <3>4. \A y : y = [name |-> n, text |-> t, company |-> c0, public |-> p,
              geo |-> g0, skills |-> s0, mode |-> m0] =>
            [y EXCEPT !.company = c] =
             [name |-> n, text |-> t, company |-> c, public |-> p,
              geo |-> g0, skills |-> s0, mode |-> m0]
      OBVIOUS
    <3>5. Made(c, p, now.geo, now.skills, now.mode) =
             [name |-> n, text |-> t, company |-> c, public |-> p,
              geo |-> g0, skills |-> s0, mode |-> m0]
      BY <3>1
    <3> HIDE DEF Made
    <3> QED BY <3>2, <3>3, <3>4, <3>5
  <2> HIDE DEF Made
  <2>5. x = now \/ x = Made(c, p, now.geo, now.skills, now.mode)
    BY <2>1, <2>4
  <2>6. IsRow(x) /\ x.name = now.name /\ x.text = now.text /\ x.geo = now.geo
        /\ x.skills = now.skills /\ x.mode = now.mode /\ (now.public[2] = i => x.public[2] = i)
        /\ x.company \in {now.company, c}
    BY <1>0, <1>1, <1>2, <2>2, <2>5
  <2>7. Agree(kind[r], old, now) => x.public = p /\ x.company = c /\ x.name = old.name
    BY <1>2, <1>3, <2>1, <2>4, <2>6 DEF Agree
  <2> QED BY <1>3, <2>3, <2>6, <2>7 DEF Written
<1>4. CASE kind[r] = "geo"
  <2> DEFINE g == GeoOf[old.text]
             m == FilledMode(old)
  <2>1. x = IF g = old.geo /\ m = old.mode THEN now
            ELSE [now EXCEPT !.geo = g, !.mode = m]
    BY <1>4 DEF Rewritten
  <2>2. m \in Modes
    BY CatalogueAssumption DEF IsRow, FilledMode
  <2>3. /\ g = GeoOf[old.text]
        /\ m = IF old.mode = NoMode THEN ModeOf[old.text] ELSE old.mode
    BY DEF FilledMode
  <2> HIDE DEF g, m
  <2>4. [now EXCEPT !.geo = g, !.mode = m] = Made(now.company, now.public, g, now.skills, m)
    <3>1. PICK n, t, c0, p0, g0, s0, m0 :
            now = [name |-> n, text |-> t, company |-> c0, public |-> p0,
                   geo |-> g0, skills |-> s0, mode |-> m0]
      BY <1>1
    <3>2. [now EXCEPT !.geo = g] =
             [name |-> n, text |-> t, company |-> c0, public |-> p0,
              geo |-> g, skills |-> s0, mode |-> m0]
      BY <3>1
    <3>3. [now EXCEPT !.geo = g, !.mode = m] = [[now EXCEPT !.geo = g] EXCEPT !.mode = m]
      BY <3>1
    <3>4. \A y : y = [name |-> n, text |-> t, company |-> c0, public |-> p0,
              geo |-> g, skills |-> s0, mode |-> m0] =>
            [y EXCEPT !.mode = m] =
             [name |-> n, text |-> t, company |-> c0, public |-> p0,
              geo |-> g, skills |-> s0, mode |-> m]
      OBVIOUS
    <3>5. Made(now.company, now.public, g, now.skills, m) =
             [name |-> n, text |-> t, company |-> c0, public |-> p0,
              geo |-> g, skills |-> s0, mode |-> m]
      BY <3>1
    <3> HIDE DEF Made
    <3> QED BY <3>2, <3>3, <3>4, <3>5
  <2> HIDE DEF Made
  <2>5. x = now \/ x = Made(now.company, now.public, g, now.skills, m)
    BY <2>1, <2>4
  <2>6. IsRow(x) /\ x.name = now.name /\ x.text = now.text /\ x.company = now.company
        /\ x.skills = now.skills /\ x.public = now.public
    BY <1>0, <1>1, <1>2, <2>2, <2>5
  <2>7. now.mode # NoMode /\ old.mode = now.mode => x.mode = now.mode
    BY <1>2, <2>3, <2>5
  <2>8. Agree(kind[r], old, now) => x.geo = g /\ x.mode = m /\ x.text = old.text
    BY <1>2, <1>4, <2>1, <2>4, <2>6 DEF Agree
  <2> QED BY <1>4, <2>3, <2>6, <2>7, <2>8 DEF Written
<1>5. CASE kind[r] = "skills"
  <2> DEFINE s == SkillsOf[old.text]
  <2>1. x = IF s = old.skills THEN now ELSE [now EXCEPT !.skills = s]
    BY <1>5 DEF Rewritten
  <2>2. s = SkillsOf[old.text]
    OBVIOUS
  <2> HIDE DEF s
  <2>3. [now EXCEPT !.skills = s] = Made(now.company, now.public, now.geo, s, now.mode)
    BY <1>1
  <2> HIDE DEF Made
  <2>4. x = now \/ x = Made(now.company, now.public, now.geo, s, now.mode)
    BY <2>1, <2>3
  <2>5. IsRow(x) /\ x.name = now.name /\ x.text = now.text /\ x.company = now.company
        /\ x.geo = now.geo /\ x.public = now.public /\ x.mode = now.mode
    BY <1>0, <1>1, <1>2, <2>4
  <2>6. Agree(kind[r], old, now) => x.skills = s /\ x.text = old.text
    BY <1>2, <1>5, <2>1, <2>3, <2>5 DEF Agree
  <2> QED BY <1>5, <2>2, <2>5, <2>6 DEF Written
<1> QED BY <1>3, <1>4, <1>5 DEF Kinds

LEMMA StoredFacts ==
  ASSUME TypeInv, NEW i \in Crawled, NEW b
  PROVE  /\ IsRow(Stored(i, b)) /\ Stored(i, b).public[2] = i
         /\ Stored(i, b).company = Slug(b, board[i].name)
<1> DEFINE p == board[i]
<1>1. p.name \in Names /\ p.text \in Texts /\ p.mode \in Modes
  <2>1. board \in [Ids -> Postings] /\ i \in Ids
    BY CatalogueAssumption DEF TypeInv, TypeOK
  <2>2. p \in Postings
    BY <2>1
  <2>3. p \in [name : Names, text : Texts, mode : Modes]
    BY ONLY <2>2, CatalogueAssumption
  <2> HIDE DEF p
  <2> QED BY ONLY <2>3
<1>2. WorkMode(p) \in Modes
  BY <1>1, CatalogueAssumption DEF WorkMode
<1>3. i \in DOMAIN rows => rows[i].public[2] = i
  BY DEF TypeInv, TypeOK
<1> HIDE DEF p
<1>4. Stored(i, b) = [name |-> p.name, text |-> p.text, company |-> Slug(b, p.name),
                   public |-> IF i \in DOMAIN rows THEN rows[i].public
                              ELSE JobSlug(b, p.name, i),
                   geo |-> GeoOf[p.text], skills |-> SkillsOf[p.text], mode |-> WorkMode(p)]
  BY DEF Stored, p
<1>5. IsRow(Stored(i, b))
  BY <1>1, <1>2, <1>4 DEF IsRow
<1>6. JobSlug(b, p.name, i)[2] = i
  BY DEF JobSlug
<1> QED BY <1>3, <1>4, <1>5, <1>6 DEF p

(* A step of a run leaves the other runs alone.                            *)
Frame(r) ==
  /\ pc'[r] = pc[r] /\ kind'[r] = kind[r] /\ binary'[r] = binary[r]
  /\ afterID'[r] = afterID[r] /\ page'[r] = page[r] /\ orphans'[r] = orphans[r]
  /\ fresh'[r] \subseteq fresh[r] /\ late[r] \subseteq late'[r]
  /\ r \in quiet' => r \in quiet

LEMMA StepCases ==
  ASSUME TypeInv, [Next]_vars, NEW r \in Runs
  PROVE  Frame(r) \/ RunStep(r)
<1>0. /\ DOMAIN page = Runs /\ DOMAIN fresh = Runs /\ DOMAIN orphans = Runs /\ DOMAIN late = Runs
      /\ DOMAIN kind = Runs /\ DOMAIN binary = Runs /\ DOMAIN pc = Runs /\ DOMAIN afterID = Runs
  BY DEF TypeInv, TypeOK
<1>1. ASSUME NEW i \in Ids, UpsertJob(i) PROVE Frame(r)
  BY <1>0, <1>1 DEF UpsertJob, Late, run, software, Frame
<1>2. ASSUME NEW i \in Ids, Edit(i) PROVE Frame(r)
  BY <1>2 DEF Edit, run, history, Frame
<1>3. CASE Deploy \/ Retire
  BY <1>3 DEF Deploy, Retire, run, history, Frame
<1>4. ASSUME NEW q \in Runs \ {r}, RunStep(q) PROVE Frame(r)
  <2>1. ASSUME NEW k \in Kinds, Start(q, k) PROVE Frame(r)
    BY <1>0, <2>1 DEF Start, Frame
  <2>2. CASE Read(q) \/ PageDone(q)
    BY <1>0, <2>2 DEF Read, PageDone, Last, history, Frame
  <2>3. CASE Rewrite(q)
    BY <1>0, <2>3 DEF Rewrite, Late, history, Frame
  <2>4. CASE Sync(q) \/ FindOrphans(q) \/ DeleteOrphans(q)
    BY <1>0, <2>4 DEF Sync, FindOrphans, DeleteOrphans, history, Frame
  <2>5. CASE Finish(q) \/ Crash(q)
    BY <1>0, <2>5 DEF Finish, Crash, Exit, Frame
  <2> QED BY <1>4, <2>1, <2>2, <2>3, <2>4, <2>5 DEF RunStep
<1>5. CASE UNCHANGED vars
  BY <1>5 DEF vars, run, history, Frame
<1> QED BY <1>1, <1>2, <1>3, <1>4, <1>5 DEF Next

(* The table only grows, and a row changes by an upsert or a rewrite.      *)
LEMMA RowsChange ==
  ASSUME TypeInv, [Next]_vars
  PROVE  \/ \E i \in Crawled : \E b \in ingests :
              /\ UpsertJob(i) /\ CompanyUpsert(i, b)
              /\ DOMAIN rows' = DOMAIN rows \cup {i} /\ rows'[i] = Stored(i, b)
              /\ \A k \in DOMAIN rows \ {i} : rows'[k] = rows[k]
         \/ \E q \in Runs : \E i \in DOMAIN page[q] :
              /\ Rewrite(q)
              /\ i \in DOMAIN rows /\ DOMAIN rows' = DOMAIN rows
              /\ page'[q] = [k \in DOMAIN page[q] \ {i} |-> page[q][k]]
              /\ Late(i)
              /\ rows'[i] = Rewritten(q, i, page[q][i], rows[i])
              /\ \A k \in DOMAIN rows \ {i} : rows'[k] = rows[k]
         \/ rows' = rows
<1>1. ASSUME NEW i \in Ids, UpsertJob(i)
      PROVE  /\ i \in Crawled
             /\ \E b \in ingests :
                  /\ CompanyUpsert(i, b)
                  /\ DOMAIN rows' = DOMAIN rows \cup {i} /\ rows'[i] = Stored(i, b)
                  /\ \A k \in DOMAIN rows \ {i} : rows'[k] = rows[k]
  <2>1. PICK b \in ingests :
          /\ CompanyUpsert(i, b)
          /\ rows' = [k \in DOMAIN rows \cup {i} |-> IF k = i THEN Stored(i, b) ELSE rows[k]]
    BY <1>1 DEF UpsertJob
  <2> QED BY <1>1, <2>1 DEF UpsertJob
<1>2. ASSUME NEW q \in Runs, Rewrite(q)
      PROVE  \E i \in DOMAIN page[q] :
              /\ i \in DOMAIN rows /\ DOMAIN rows' = DOMAIN rows
              /\ page'[q] = [k \in DOMAIN page[q] \ {i} |-> page[q][k]]
              /\ Late(i)
              /\ rows'[i] = Rewritten(q, i, page[q][i], rows[i])
              /\ \A k \in DOMAIN rows \ {i} : rows'[k] = rows[k]
  <2>1. PICK i \in DOMAIN page[q] :
          /\ rows' = [rows EXCEPT ![i] = Rewritten(q, i, page[q][i], rows[i])]
          /\ page' = [page EXCEPT ![q] = [k \in DOMAIN page[q] \ {i} |-> page[q][k]]]
          /\ Late(i)
    BY <1>2 DEF Rewrite
  <2>2. i \in DOMAIN rows /\ DOMAIN page = Runs
    BY DEF TypeInv, TypeOK
  <2> QED BY <2>1, <2>2
<1>3. ASSUME NEW q \in Runs, RunStep(q), ~Rewrite(q) PROVE rows' = rows
  BY <1>3 DEF RunStep, Start, Read, PageDone, Sync, FindOrphans, DeleteOrphans, Finish, Crash, job
<1> QED BY <1>1, <1>2, <1>3 DEF Next, Edit, Deploy, Retire, vars, job

-----------------------------------------------------------------------------
(* The invariant, part by part.                                            *)

LEMMA RowsStep ==
  ASSUME TypeInv, [Next]_vars
  PROVE  /\ DOMAIN rows' \subseteq Ids /\ DOMAIN rows \subseteq DOMAIN rows'
         /\ \A i \in DOMAIN rows' : IsRow(rows'[i]) /\ rows'[i].public[2] = i
<1> DEFINE Fine == /\ DOMAIN rows' \subseteq Ids /\ DOMAIN rows \subseteq DOMAIN rows'
                   /\ \A i \in DOMAIN rows' : IsRow(rows'[i]) /\ rows'[i].public[2] = i
<1>0. /\ DOMAIN rows \subseteq Ids
      /\ \A i \in DOMAIN rows : IsRow(rows[i]) /\ rows[i].public[2] = i
      /\ \A r \in Runs : kind[r] \in Kinds /\ \A i \in DOMAIN page[r] : IsRow(page[r][i])
  BY DEF TypeInv, TypeOK
<1>1. ASSUME NEW i \in Crawled, NEW b \in ingests, rows'[i] = Stored(i, b),
             DOMAIN rows' = DOMAIN rows \cup {i},
             \A k \in DOMAIN rows \ {i} : rows'[k] = rows[k]
      PROVE  Fine
  <2>1. IsRow(rows'[i]) /\ rows'[i].public[2] = i /\ i \in Ids
    BY <1>1, StoredFacts, CatalogueAssumption
  <2> QED BY <1>0, <1>1, <2>1
<1>2. ASSUME NEW q \in Runs, NEW i \in DOMAIN page[q], i \in DOMAIN rows,
             DOMAIN rows' = DOMAIN rows,
             rows'[i] = Rewritten(q, i, page[q][i], rows[i]),
             \A k \in DOMAIN rows \ {i} : rows'[k] = rows[k]
      PROVE  Fine
  <2>1. IsRow(rows'[i]) /\ rows'[i].public[2] = i
    BY <1>0, <1>2, RewrittenFacts
  <2> QED BY <1>0, <1>2, <2>1
<1>3. ASSUME rows' = rows PROVE Fine
  BY <1>0, <1>3
<1>4. Fine
  <2> HIDE DEF Fine
  <2> QED BY <1>1, <1>2, <1>3, RowsChange
<1> QED BY <1>4

LEMMA CompaniesChange ==
  ASSUME [Next]_vars
  PROVE  \/ companies' = companies
         \/ \E i \in Crawled : \E b \in ingests : UpsertJob(i) /\ CompanyUpsert(i, b)
         \/ \E q \in Runs : Sync(q) /\ companies' = companies \cup Used
         \/ \E q \in Runs : DeleteOrphans(q) /\ companies' = companies \ orphans[q]
<1>1. ASSUME NEW i \in Ids, UpsertJob(i)
      PROVE  i \in Crawled /\ \E b \in ingests : CompanyUpsert(i, b)
  BY <1>1 DEF UpsertJob
<1>2. ASSUME NEW q \in Runs, RunStep(q)
      PROVE  \/ companies' = companies
             \/ Sync(q) /\ companies' = companies \cup Used
             \/ DeleteOrphans(q) /\ companies' = companies \ orphans[q]
  BY <1>2 DEF RunStep, Start, Read, Rewrite, PageDone, Sync, SyncCompaniesFromJobs, FindOrphans,
              DeleteOrphans, Finish, Crash, job
<1> QED BY <1>1, <1>2 DEF Next, Edit, Deploy, Retire, vars, job

(* What a step of a run does to its own place, page and claims.            *)
LEMMA OwnType ==
  ASSUME TypeInv, NEW r \in Runs, RunStep(r)
  PROVE  /\ kind'[r] \in Kinds /\ binary'[r] \in Builds /\ pc'[r] \in Steps /\ afterID'[r] \in Nat
         /\ DOMAIN page'[r] \subseteq DOMAIN rows
         /\ \A i \in DOMAIN page'[r] : IsRow(page'[r][i])
         /\ fresh'[r] \subseteq DOMAIN rows
         /\ quiet' \subseteq quiet \cup {r}
<1> DEFINE Fine == /\ kind'[r] \in Kinds /\ binary'[r] \in Builds /\ pc'[r] \in Steps
                   /\ afterID'[r] \in Nat /\ DOMAIN page'[r] \subseteq DOMAIN rows
                   /\ \A i \in DOMAIN page'[r] : IsRow(page'[r][i])
                   /\ fresh'[r] \subseteq DOMAIN rows
                   /\ quiet' \subseteq quiet \cup {r}
<1>0. /\ DOMAIN page = Runs /\ DOMAIN fresh = Runs /\ DOMAIN kind = Runs /\ DOMAIN binary = Runs
      /\ DOMAIN pc = Runs /\ DOMAIN afterID = Runs
      /\ build \in Builds /\ kind[r] \in Kinds /\ binary[r] \in Builds /\ pc[r] \in Steps
      /\ afterID[r] \in Nat /\ DOMAIN page[r] \subseteq DOMAIN rows
      /\ \A i \in DOMAIN page[r] : IsRow(page[r][i])
      /\ \A i \in DOMAIN rows : IsRow(rows[i])
      /\ fresh[r] \subseteq DOMAIN rows /\ DOMAIN rows \subseteq Ids
  BY DEF TypeInv, TypeOK
<1>1. ASSUME NEW k \in Kinds, Start(r, k) PROVE Fine
  BY <1>0, <1>1 DEF Start, Steps
<1>2. ASSUME Read(r) PROVE Fine
  <2> DEFINE ids == PageAfter(afterID[r])
             m == CHOOSE x \in ids : \A i \in ids : i <= x
  <2>1. /\ ids \subseteq DOMAIN rows
        /\ ids # {} => m \in Nat
    BY <1>0, PageFacts
  <2> HIDE DEF m
  <2>2. CASE ids = {}
    BY <1>0, <1>2, <2>2 DEF Read, Last, Steps, history
  <2>3. CASE ids # {}
    <3>1. /\ afterID' = [afterID EXCEPT ![r] = m]
          /\ page' = [page EXCEPT ![r] = [i \in ids |-> rows[i]]]
          /\ pc' = [pc EXCEPT ![r] = IF Cardinality(ids) < BatchSize THEN "last" ELSE "rows"]
          /\ UNCHANGED <<kind, binary, fresh, quiet>>
      BY <1>2, <2>3 DEF Read, history, m
    <3> HIDE DEF ids
    <3> QED BY <1>0, <2>1, <2>3, <3>1 DEF Steps
  <2> QED BY <2>2, <2>3
<1>3. ASSUME Rewrite(r) PROVE Fine
  BY <1>0, <1>3 DEF Rewrite
<1>4. ASSUME PageDone(r) \/ Sync(r) \/ FindOrphans(r) \/ DeleteOrphans(r) PROVE Fine
  BY <1>0, <1>4 DEF PageDone, Last, Sync, FindOrphans, DeleteOrphans, history, Steps
<1>5. ASSUME Finish(r) \/ Crash(r) PROVE Fine
  BY <1>0, <1>5 DEF Finish, Crash, Exit, NoPage, Steps
<1> HIDE DEF Fine
<1>6. Fine
  BY <1>1, <1>2, <1>3, <1>4, <1>5 DEF RunStep
<1> QED BY <1>6 DEF Fine

LEMMA DomainStep ==
  ASSUME TypeInv, [Next]_vars
  PROVE  /\ DOMAIN page' = Runs /\ DOMAIN fresh' = Runs /\ DOMAIN orphans' = Runs
         /\ DOMAIN late' = Runs /\ kind' = [r \in Runs |-> kind'[r]]
         /\ binary' = [r \in Runs |-> binary'[r]] /\ pc' = [r \in Runs |-> pc'[r]]
         /\ afterID' = [r \in Runs |-> afterID'[r]]
         /\ board' \in [Ids -> Postings] /\ build' \in Builds /\ ingests' \subseteq Builds
         /\ quiet' \subseteq Runs
<1> DEFINE Fine == /\ DOMAIN page' = Runs /\ DOMAIN fresh' = Runs /\ DOMAIN orphans' = Runs
                   /\ DOMAIN late' = Runs /\ kind' = [r \in Runs |-> kind'[r]]
                   /\ binary' = [r \in Runs |-> binary'[r]] /\ pc' = [r \in Runs |-> pc'[r]]
                   /\ afterID' = [r \in Runs |-> afterID'[r]]
                   /\ board' \in [Ids -> Postings] /\ build' \in Builds /\ ingests' \subseteq Builds
                   /\ quiet' \subseteq Runs
<1>0. /\ DOMAIN page = Runs /\ DOMAIN fresh = Runs /\ DOMAIN orphans = Runs /\ DOMAIN late = Runs
      /\ kind = [r \in Runs |-> kind[r]] /\ binary = [r \in Runs |-> binary[r]]
      /\ pc = [r \in Runs |-> pc[r]] /\ afterID = [r \in Runs |-> afterID[r]]
      /\ board \in [Ids -> Postings] /\ build \in Builds /\ ingests \subseteq Builds
      /\ quiet \subseteq Runs
  BY DEF TypeInv, TypeOK
<1>1. ASSUME NEW i \in Ids, UpsertJob(i) PROVE Fine
  BY <1>0, <1>1 DEF UpsertJob, Late, run, software
<1>2. ASSUME NEW i \in Ids, Edit(i) PROVE Fine
  BY <1>0, <1>2 DEF Edit, run, history, software
<1>3. ASSUME Deploy \/ Retire PROVE Fine
  BY <1>0, <1>3 DEF Deploy, Retire, run, history, Builds
<1>4. ASSUME NEW r \in Runs, RunStep(r) PROVE Fine
  <2>1. ASSUME NEW k \in Kinds, Start(r, k) PROVE Fine
    BY <1>0, <2>1 DEF Start, software
  <2>2. CASE Read(r) \/ PageDone(r)
    BY <1>0, <2>2 DEF Read, PageDone, Last, history, software
  <2>3. CASE Rewrite(r)
    BY <1>0, <2>3 DEF Rewrite, Late, software
  <2>4. CASE Sync(r) \/ FindOrphans(r) \/ DeleteOrphans(r)
    BY <1>0, <2>4 DEF Sync, FindOrphans, DeleteOrphans, history, software
  <2>5. CASE Finish(r) \/ Crash(r)
    BY <1>0, <2>5 DEF Finish, Crash, Exit, software
  <2> HIDE DEF Fine
  <2> QED BY <1>4, <2>1, <2>2, <2>3, <2>4, <2>5 DEF RunStep
<1>5. ASSUME UNCHANGED vars PROVE Fine
  BY <1>0, <1>5 DEF vars, run, history, software
<1> HIDE DEF Fine
<1>6. Fine
  BY <1>1, <1>2, <1>3, <1>4, <1>5 DEF Next
<1> QED BY <1>6 DEF Fine

LEMMA TypeStep ==
  ASSUME TypeInv, [Next]_vars
  PROVE  TypeInv'
<1>1. ASSUME NEW r \in Runs
      PROVE  /\ kind'[r] \in Kinds /\ binary'[r] \in Builds /\ pc'[r] \in Steps
             /\ afterID'[r] \in Nat /\ DOMAIN page'[r] \subseteq DOMAIN rows
             /\ \A i \in DOMAIN page'[r] : IsRow(page'[r][i])
             /\ fresh'[r] \subseteq DOMAIN rows
  <2>1. CASE Frame(r)
    BY <2>1 DEF Frame, TypeInv, TypeOK
  <2>2. CASE RunStep(r)
    BY <2>2, OwnType
  <2> QED BY <2>1, <2>2, StepCases
<1>2. NoSlug \notin companies'
  <2>1. NoSlug \notin companies
    BY DEF TypeInv, TypeOK
  <2> QED BY <2>1, CompaniesChange DEF CompanyUpsert, Used
<1>3. /\ \A r \in Runs : DOMAIN page'[r] \subseteq DOMAIN rows' /\ fresh'[r] \subseteq DOMAIN rows'
  BY <1>1, RowsStep
<1>4. /\ \A i \in DOMAIN rows' : rows'[i].name \in Names /\ rows'[i].text \in Texts
                                 /\ rows'[i].mode \in Modes
  BY RowsStep DEF IsRow
<1>5. TypeOK'
  <2>1. kind' \in [Runs -> Kinds] /\ binary' \in [Runs -> Builds] /\ pc' \in [Runs -> Steps]
    BY <1>1, DomainStep
  <2> QED BY <1>2, <1>3, <1>4, <2>1, RowsStep, DomainStep DEF TypeOK
<1>6. afterID' \in [Runs -> Nat]
  BY <1>1, DomainStep
<1> QED BY <1>1, <1>5, <1>6, RowsStep, DomainStep DEF TypeInv

LEMMA LocalStep ==
  ASSUME TypeInv, NEW r \in Runs, LocalInv(r), [Next]_vars
  PROVE  LocalInv(r)'
<1>0. /\ DOMAIN page = Runs /\ DOMAIN fresh = Runs /\ DOMAIN kind = Runs
      /\ DOMAIN pc = Runs /\ DOMAIN afterID = Runs
  BY DEF TypeInv, TypeOK
<1>1. CASE Frame(r)
  BY <1>1 DEF Frame, LocalInv
<1>2. ASSUME NEW k \in Kinds, Start(r, k) PROVE LocalInv(r)'
  BY <1>0, <1>2 DEF Start, LocalInv
<1>3. CASE Read(r)
  BY <1>0, <1>3 DEF Read, Last, history, LocalInv
<1>4. CASE Rewrite(r)
  BY <1>0, <1>4 DEF Rewrite, LocalInv
<1>5. CASE PageDone(r)
  BY <1>0, <1>5 DEF PageDone, Last, history, LocalInv
<1>6. CASE Sync(r) \/ FindOrphans(r) \/ DeleteOrphans(r)
  BY <1>0, <1>6 DEF Sync, FindOrphans, DeleteOrphans, history, LocalInv
<1>7. CASE Finish(r) \/ Crash(r)
  BY <1>0, <1>7 DEF Finish, Crash, Exit, NoPage, LocalInv
<1> QED BY <1>1, <1>2, <1>3, <1>4, <1>5, <1>6, <1>7, StepCases DEF RunStep

LEMMA AloneStep ==
  ASSUME TypeInv, Alone, \A r \in Runs : LocalInv(r), [Next]_vars
  PROVE  Alone'
<1>0. DOMAIN fresh = Runs /\ DOMAIN kind = Runs /\ DOMAIN pc = Runs
  BY DEF TypeInv, TypeOK
<1>1. ASSUME NEW r \in Runs, NEW k \in Kinds, Start(r, k) PROVE Alone'
  <2> DEFINE rivals == {q \in Runs : pc[q] # "idle" /\ kind[q] = k}
  <2>1. /\ pc[r] = "idle" /\ pc' = [pc EXCEPT ![r] = "read"]
        /\ kind' = [kind EXCEPT ![r] = k]
        /\ fresh' = [q \in Runs |-> CASE q = r -> IF rivals = {} THEN DOMAIN rows ELSE {}
                                      [] q \in rivals -> {}
                                      [] OTHER -> fresh[q]]
        /\ quiet' = IF rivals = {} THEN quiet \cup {r} ELSE quiet \ rivals
    BY <1>1 DEF Start
  <2>2. r \notin quiet
    BY <2>1 DEF LocalInv
  <2> SUFFICES ASSUME NEW u \in Runs, NEW q \in Runs \ {u}, pc'[q] # "idle", kind'[q] = kind'[u]
               PROVE  fresh'[u] = {} /\ u \notin quiet'
    BY DEF Alone
  <2>3. CASE u = r
    <3>1. q \in rivals
      BY <1>0, <2>1, <2>3
    <3> QED BY <2>1, <2>2, <2>3, <3>1
  <2>4. CASE u # r /\ q = r
    <3>1. pc[u] = "idle" => fresh[u] = {} /\ u \notin quiet
      BY DEF LocalInv
    <3>2. pc[u] # "idle" => u \in rivals
      BY <1>0, <2>1, <2>4
    <3> QED BY <2>1, <2>4, <3>1, <3>2
  <2>5. CASE u # r /\ q # r
    <3>1. fresh[u] = {} /\ u \notin quiet
      BY <1>0, <2>1, <2>5 DEF Alone
    <3> QED BY <2>1, <2>5, <3>1
  <2> QED BY <2>3, <2>4, <2>5
<1>2. ASSUME \A r \in Runs : /\ kind'[r] = kind[r]
                             /\ pc[r] = "idle" => pc'[r] = "idle"
                             /\ fresh'[r] \subseteq fresh[r]
                             /\ r \in quiet' => r \in quiet
      PROVE  Alone'
  BY <1>2 DEF Alone
<1>3. ASSUME NEW r \in Runs, RunStep(r), ~\E k \in Kinds : Start(r, k) PROVE Alone'
  <2>1. ASSUME Read(r) \/ PageDone(r) PROVE Alone'
    BY <1>0, <1>2, <2>1 DEF Read, PageDone, Last, history
  <2>2. ASSUME Rewrite(r) PROVE Alone'
    <3>1. UNCHANGED <<kind, pc, fresh, quiet>>
      BY <2>2 DEF Rewrite, Late
    <3> QED BY <1>2, <3>1
  <2>3. ASSUME Sync(r) \/ FindOrphans(r) \/ DeleteOrphans(r) PROVE Alone'
    BY <1>0, <1>2, <2>3 DEF Sync, FindOrphans, DeleteOrphans, history
  <2>4. ASSUME Finish(r) \/ Crash(r) PROVE Alone'
    BY <1>0, <1>2, <2>4 DEF Finish, Crash, Exit
  <2> QED BY <1>3, <2>1, <2>2, <2>3, <2>4 DEF RunStep
<1>4. ASSUME NEW i \in Ids, UpsertJob(i) \/ Edit(i) PROVE Alone'
  BY <1>2, <1>4 DEF UpsertJob, Edit, run, history
<1>5. ASSUME Deploy \/ Retire \/ UNCHANGED vars PROVE Alone'
  BY <1>2, <1>5 DEF Deploy, Retire, vars, run, history
<1> QED BY <1>1, <1>3, <1>4, <1>5 DEF Next

(* A row a run has not lost its claim to is changed in the columns of its  *)
(* command by that run only.                                               *)
LEMMA FreshRows ==
  ASSUME TypeInv, Alone, \A q \in Runs : LocalInv(q), [Next]_vars,
         NEW r \in Runs, ~Rewrite(r), NEW i \in fresh[r], i \in fresh'[r]
  PROVE  Agree(kind[r], rows'[i], rows[i])
<1>0. /\ i \in DOMAIN rows /\ kind[r] \in Kinds /\ IsRow(rows[i])
      /\ DOMAIN fresh = Runs
  BY DEF TypeInv, TypeOK
<1>1. CASE rows'[i] = rows[i]
  BY <1>0, <1>1 DEF Agree, Kinds
<1>2. ASSUME NEW k \in Crawled, UpsertJob(k), \A j \in DOMAIN rows \ {k} : rows'[j] = rows[j]
      PROVE  rows'[i] = rows[i]
  <2>1. i # k
    BY <1>2 DEF UpsertJob
  <2> QED BY <1>0, <1>2, <2>1
<1>3. ASSUME NEW q \in Runs, NEW k \in DOMAIN page[q], Rewrite(q),
             rows'[k] = Rewritten(q, k, page[q][k], rows[k]),
             \A j \in DOMAIN rows \ {k} : rows'[j] = rows[j]
      PROVE  rows'[i] = rows[i] \/ Agree(kind[r], rows'[i], rows[i])
  <2>1. CASE i # k
    BY <1>0, <1>3, <2>1
  <2>2. CASE i = k
    <3>1. q # r /\ pc[q] # "idle"
      BY <1>3 DEF Rewrite
    <3>2. kind[q] # kind[r] /\ kind[q] \in Kinds
      BY <3>1 DEF Alone, TypeInv, TypeOK
    <3>3. IsRow(page[q][i])
      BY <1>3, <2>2 DEF TypeInv
    <3>4. rows'[i] = Rewritten(q, i, page[q][i], rows[i])
      BY <1>3, <2>2
    <3>5. /\ rows'[i].name = rows[i].name /\ rows'[i].text = rows[i].text
          /\ kind[q] # "reslug" => /\ rows'[i].public = rows[i].public
                                   /\ rows'[i].company = rows[i].company
          /\ kind[q] # "geo" => rows'[i].geo = rows[i].geo /\ rows'[i].mode = rows[i].mode
          /\ kind[q] # "skills" => rows'[i].skills = rows[i].skills
      BY <1>0, <3>2, <3>3, <3>4, RewrittenFacts
    <3> QED BY <1>0, <3>2, <3>5 DEF Agree, Kinds
  <2> QED BY <2>1, <2>2
<1> QED BY <1>1, <1>2, <1>3, RowsChange

LEMMA ScanStep ==
  ASSUME IInv, [Next]_vars, NEW r \in Runs
  PROVE  ScanInv(r)'
<1>0. /\ TypeInv /\ Alone /\ LocalInv(r) /\ ScanInv(r) /\ \A q \in Runs : LocalInv(q)
      /\ DOMAIN page = Runs /\ DOMAIN fresh = Runs /\ DOMAIN kind = Runs /\ DOMAIN binary = Runs
      /\ DOMAIN pc = Runs /\ DOMAIN afterID = Runs
      /\ kind[r] \in Kinds /\ afterID[r] \in Nat
      /\ DOMAIN rows \subseteq Ids /\ DOMAIN page[r] \subseteq DOMAIN rows
      /\ fresh[r] \subseteq DOMAIN rows
  BY DEF IInv, TypeInv, TypeOK
<1>1. ASSUME ~Rewrite(r), fresh'[r] \subseteq fresh[r], kind'[r] = kind[r], binary'[r] = binary[r],
             afterID'[r] = afterID[r], page'[r] = page[r],
             pc'[r] \in {"last", "sync", "orphans", "delete", "end"} =>
               \A i \in fresh'[r] : i <= afterID[r]
      PROVE  ScanInv(r)'
  <2> SUFFICES ASSUME NEW i \in fresh'[r]
               PROVE  /\ i \in DOMAIN page[r] => Agree(kind[r], page[r][i], rows'[i])
                      /\ i <= afterID[r] /\ i \notin DOMAIN page[r] =>
                           Written(kind[r], binary[r], i, rows'[i])
    BY <1>1 DEF ScanInv
  <2>1. i \in fresh[r]
    BY <1>1
  <2>2. Agree(kind[r], rows'[i], rows[i])
    BY <1>0, <1>1, <2>1, FreshRows
  <2>3. /\ Agree(kind[r], rows[i], rows'[i])
        /\ Written(kind[r], binary[r], i, rows'[i]) <=> Written(kind[r], binary[r], i, rows[i])
    BY <1>0, <2>2, AgreeFacts
  <2>4. \A z : Agree(kind[r], z, rows[i]) => Agree(kind[r], z, rows'[i])
    BY <1>0, <2>3, AgreeFacts
  <2> QED BY <1>0, <2>1, <2>3, <2>4 DEF ScanInv
<1>2. ASSUME Frame(r), ~Rewrite(r) PROVE ScanInv(r)'
  BY <1>0, <1>1, <1>2 DEF Frame, ScanInv
<1>3. ASSUME NEW k \in Kinds, Start(r, k) PROVE ScanInv(r)'
  <2>1. /\ afterID'[r] = 0 /\ DOMAIN page'[r] = {} /\ pc'[r] = "read"
        /\ fresh'[r] \subseteq DOMAIN rows
    BY <1>0, <1>3 DEF Start, LocalInv
  <2>2. \A i \in fresh'[r] : ~(i <= 0)
    <3>1. \A i \in Ids : i \in Nat /\ i # 0
      BY CatalogueAssumption
    <3>2. \A i \in fresh'[r] : i \in Ids
      BY <1>0, <2>1
    <3> QED BY <3>1, <3>2
  <2> QED BY <2>1, <2>2 DEF ScanInv
<1>4. ASSUME Read(r) PROVE ScanInv(r)'
  <2> DEFINE ids == PageAfter(afterID[r])
             m == CHOOSE x \in ids : \A i \in ids : i <= x
  <2>0. /\ ids \subseteq DOMAIN rows
        /\ \A i \in ids : i > afterID[r]
        /\ ids = {} => \A i \in DOMAIN rows : i <= afterID[r]
        /\ ids # {} => /\ m \in ids /\ m \in Nat
                       /\ \A i \in ids : i <= m
                       /\ \A i \in DOMAIN rows : i > afterID[r] /\ i <= m => i \in ids
        /\ Cardinality(ids) < BatchSize => \A i \in DOMAIN rows : i > afterID[r] => i \in ids
    BY <1>0, PageFacts
  <2>1. /\ pc[r] = "read" /\ UNCHANGED <<rows, kind, binary, fresh>>
        /\ DOMAIN page[r] = {} /\ ~Rewrite(r)
    BY <1>0, <1>4 DEF Read, Rewrite, LocalInv, job, history
  <2>2. CASE ids = {}
    BY <1>0, <1>1, <1>4, <2>0, <2>1, <2>2 DEF Read
  <2>3. CASE ids # {}
    <3>1. /\ afterID' = [afterID EXCEPT ![r] = m]
          /\ page' = [page EXCEPT ![r] = [i \in ids |-> rows[i]]]
          /\ pc' = [pc EXCEPT ![r] = IF Cardinality(ids) < BatchSize THEN "last" ELSE "rows"]
      BY <1>4, <2>3 DEF Read
    <3> HIDE DEF ids, m
    <3>2. /\ afterID'[r] = m /\ page'[r] = [i \in ids |-> rows[i]]
          /\ pc'[r] = IF Cardinality(ids) < BatchSize THEN "last" ELSE "rows"
      BY <1>0, <3>1
    <3> SUFFICES ASSUME NEW i \in fresh[r]
                 PROVE  /\ i \in ids => Agree(kind[r], rows[i], rows[i])
                        /\ i <= m /\ i \notin ids => Written(kind[r], binary[r], i, rows[i])
                        /\ Cardinality(ids) < BatchSize => i <= m
      BY <2>1, <3>2 DEF ScanInv
    <3>3. i \in DOMAIN rows /\ i \in Nat
      BY <1>0, CatalogueAssumption
    <3>4. Agree(kind[r], rows[i], rows[i])
      BY <1>0 DEF Agree, Kinds
    <3>5. i <= m /\ i \notin ids => i <= afterID[r]
      BY <1>0, <2>0, <2>3, <3>3
    <3>6. i <= afterID[r] => i <= m
      BY <1>0, <2>0, <2>3, <3>3
    <3>7. Cardinality(ids) < BatchSize => i <= m
      BY <1>0, <2>0, <2>3, <3>3, <3>6
    <3> QED BY <1>0, <2>1, <3>4, <3>5, <3>7 DEF ScanInv
  <2> QED BY <2>2, <2>3
<1>5. ASSUME Rewrite(r) PROVE ScanInv(r)'
  <2>1. PICK k \in DOMAIN page[r] :
          /\ rows' = [rows EXCEPT ![k] = Rewritten(r, k, page[r][k], rows[k])]
          /\ page' = [page EXCEPT ![r] = [j \in DOMAIN page[r] \ {k} |-> page[r][j]]]
    BY <1>5 DEF Rewrite
  <2>2. /\ rows'[k] = Rewritten(r, k, page[r][k], rows[k])
        /\ \A j \in DOMAIN rows \ {k} : rows'[j] = rows[j]
        /\ page'[r] = [j \in DOMAIN page[r] \ {k} |-> page[r][j]]
        /\ UNCHANGED <<kind, binary, pc, afterID, fresh>>
    BY <1>0, <1>5, <2>1 DEF Rewrite
  <2>3. Agree(kind[r], page[r][k], rows[k]) => Written(kind[r], binary[r], k, rows'[k])
    <3>1. IsRow(page[r][k]) /\ IsRow(rows[k])
      BY <1>0 DEF TypeInv
    <3> QED BY <1>0, <2>2, <3>1, RewrittenFacts
  <2> SUFFICES ASSUME NEW i \in fresh[r]
               PROVE  /\ i \in DOMAIN page[r] \ {k} => Agree(kind[r], page[r][i], rows'[i])
                      /\ i <= afterID[r] /\ i \notin DOMAIN page[r] \ {k} =>
                           Written(kind[r], binary[r], i, rows'[i])
                      /\ pc[r] \in {"last", "sync", "orphans", "delete", "end"} => i <= afterID[r]
    BY <2>2 DEF ScanInv
  <2>4. CASE i = k
    BY <1>0, <2>3, <2>4 DEF ScanInv
  <2>5. CASE i # k
    BY <1>0, <2>2, <2>5 DEF ScanInv
  <2> QED BY <2>4, <2>5
<1>6. ASSUME PageDone(r) PROVE ScanInv(r)'
  <2>1. /\ ~Rewrite(r) /\ UNCHANGED <<kind, binary, afterID, page, fresh>>
        /\ pc[r] = "last" \/ pc'[r] = "read"
    <3>1. DOMAIN page[r] = {} /\ UNCHANGED <<kind, binary, afterID, page, fresh>>
      BY <1>6 DEF PageDone, history
    <3>2. pc[r] = "last" \/ pc'[r] = "read"
      BY <1>0, <1>6 DEF PageDone
    <3>3. ~Rewrite(r)
      BY <3>1 DEF Rewrite
    <3> QED BY <3>1, <3>2, <3>3
  <2> QED BY <1>0, <1>1, <2>1 DEF ScanInv
<1>7. ASSUME Sync(r) \/ FindOrphans(r) \/ DeleteOrphans(r) PROVE ScanInv(r)'
  <2>1. /\ ~Rewrite(r) /\ UNCHANGED <<kind, binary, afterID, page, fresh>>
        /\ pc[r] \in {"sync", "orphans", "delete"}
    BY <1>7 DEF Sync, FindOrphans, DeleteOrphans, Rewrite, history
  <2> QED BY <1>0, <1>1, <2>1 DEF ScanInv
<1>8. ASSUME Finish(r) \/ Crash(r) PROVE ScanInv(r)'
  <2>1. fresh'[r] = {}
    BY <1>0, <1>8 DEF Finish, Crash, Exit
  <2> QED BY <2>1 DEF ScanInv
<1> QED BY <1>0, <1>2, <1>3, <1>4, <1>5, <1>6, <1>7, <1>8, StepCases DEF RunStep

LEMMA CompanyStep ==
  ASSUME IInv, [Next]_vars, NEW r \in Runs
  PROVE  CompanyInv(r)'
<1>0. /\ TypeInv /\ Alone /\ LocalInv(r) /\ CompanyInv(r) /\ \A q \in Runs : LocalInv(q)
      /\ DOMAIN fresh = Runs /\ DOMAIN kind = Runs /\ DOMAIN pc = Runs /\ DOMAIN orphans = Runs
      /\ DOMAIN late = Runs
      /\ kind[r] \in Kinds /\ fresh[r] \subseteq DOMAIN rows /\ NoSlug \notin companies
  BY DEF IInv, TypeInv, TypeOK
<1>a. /\ kind[r] = "reslug" /\ Ended(r) => \A i \in fresh[r] : Resolves(i)
      /\ pc[r] = "delete" => \A i \in DOMAIN rows :
                               rows[i].company \in orphans[r] => i \in late[r] \ fresh[r]
      /\ pc[r] \in {"sync", "orphans", "delete"} => kind[r] = "reslug"
  BY <1>0 DEF CompanyInv, LocalInv
<1>1. ASSUME Frame(r) PROVE CompanyInv(r)'
  <2>0. /\ pc'[r] = pc[r] /\ kind'[r] = kind[r] /\ orphans'[r] = orphans[r]
        /\ fresh'[r] \subseteq fresh[r] /\ late[r] \subseteq late'[r]
    BY <1>1 DEF Frame
  <2>1. ASSUME NEW i \in fresh'[r], kind[r] = "reslug", Ended(r)
        PROVE  rows'[i].company = rows[i].company
    <3>1. ~Rewrite(r)
      BY <2>1 DEF Ended, Rewrite
    <3> QED BY <1>0, <2>0, <2>1, <3>1, FreshRows DEF Agree
  <2>2. ASSUME NEW i \in fresh'[r], kind[r] = "reslug", Ended(r)
        PROVE  companies \subseteq companies'
    <3>1. CASE \E q \in Runs : DeleteOrphans(q)
      <4>1. PICK q \in Runs : DeleteOrphans(q)
        BY <3>1
      <4>2. pc[q] = "delete" /\ pc'[q] = "end"
        BY <1>0, <4>1 DEF DeleteOrphans
      <4>3. q # r
        BY <2>0, <4>2
      <4>4. kind[q] = kind[r]
        BY <1>0, <2>2, <4>2 DEF LocalInv
      <4>5. fresh[r] = {}
        BY <1>0, <4>2, <4>3, <4>4 DEF Alone
      <4> QED BY <2>0, <2>2, <4>5
    <3>2. CASE ~\E q \in Runs : DeleteOrphans(q)
      BY <3>2, CompaniesChange DEF CompanyUpsert
    <3> QED BY <3>1, <3>2
  <2>3. kind[r] = "reslug" /\ Ended(r) => \A i \in fresh'[r] : Resolves(i)'
    BY <1>a, <2>0, <2>1, <2>2 DEF Resolves
  <2>4. ASSUME pc[r] = "delete", NEW i \in DOMAIN rows', rows'[i].company \in orphans[r]
        PROVE  i \in late'[r] \ fresh'[r]
    <3>0. kind[r] = "reslug" /\ Ended(r)
      BY <1>a, <2>4 DEF Ended
    <3>1. i \notin fresh'[r]
      <4> SUFFICES ASSUME i \in fresh'[r] PROVE FALSE
        OBVIOUS
      <4> QED BY <1>0, <1>a, <2>0, <2>1, <2>4, <3>0
    <3>2. CASE i \in DOMAIN rows /\ rows'[i] = rows[i]
      BY <1>a, <2>0, <2>4, <3>1, <3>2
    <3>3. CASE ~(i \in DOMAIN rows /\ rows'[i] = rows[i])
      <4>1. Late(i)
        BY <1>0, <2>4, <3>3, RowsChange DEF UpsertJob
      <4> QED BY <1>0, <2>4, <3>1, <4>1 DEF Late
    <3> QED BY <3>2, <3>3
  <2> QED BY <2>0, <2>3, <2>4 DEF CompanyInv, Ended
<1>2. ASSUME pc'[r] \notin {"orphans", "delete", "end"} PROVE CompanyInv(r)'
  BY <1>2 DEF CompanyInv, Ended
<1>3. ASSUME NEW k \in Kinds, Start(r, k) PROVE CompanyInv(r)'
  BY <1>0, <1>2, <1>3 DEF Start
<1>4. ASSUME Read(r) PROVE CompanyInv(r)'
  <2>1. /\ pc'[r] \in {"rows", "last"} \/ Last(r)
        /\ UNCHANGED <<kind, fresh>>
    BY <1>0, <1>4 DEF Read, history
  <2> QED BY <1>0, <1>2, <2>1 DEF Last, CompanyInv
<1>5. ASSUME Rewrite(r) PROVE CompanyInv(r)'
  BY <1>0, <1>2, <1>5 DEF Rewrite
<1>6. ASSUME PageDone(r) PROVE CompanyInv(r)'
  <2>1. /\ pc'[r] = "read" \/ Last(r)
        /\ UNCHANGED <<kind, fresh>>
    BY <1>0, <1>6 DEF PageDone, history
  <2> QED BY <1>0, <1>2, <2>1 DEF Last, CompanyInv
<1>7. ASSUME Sync(r) PROVE CompanyInv(r)'
  <2>1. /\ companies' = companies \cup Used /\ pc'[r] = "orphans"
        /\ UNCHANGED <<rows, fresh, kind>>
    BY <1>0, <1>7 DEF Sync, SyncCompaniesFromJobs, history
  <2>2. \A i \in DOMAIN rows : Resolves(i)'
    BY <2>1 DEF Resolves, Used
  <2> QED BY <1>0, <2>1, <2>2 DEF CompanyInv
<1>8. ASSUME FindOrphans(r) PROVE CompanyInv(r)'
  <2>1. /\ orphans'[r] = companies \ Used /\ pc[r] = "orphans" /\ pc'[r] = "delete"
        /\ UNCHANGED <<rows, companies, fresh, kind>>
    BY <1>0, <1>8 DEF FindOrphans, Orphans, history, job
  <2>2. \A i \in DOMAIN rows' : rows'[i].company \notin orphans'[r]
    BY <1>0, <2>1 DEF Used
  <2>3. \A i \in fresh'[r] : Resolves(i)'
    BY <1>a, <2>1 DEF Ended, Resolves
  <2> QED BY <2>2, <2>3 DEF CompanyInv
<1>9. ASSUME DeleteOrphans(r) PROVE CompanyInv(r)'
  <2>1. /\ companies' = companies \ orphans[r] /\ pc[r] = "delete" /\ pc'[r] = "end"
        /\ UNCHANGED <<rows, fresh, kind>>
    BY <1>0, <1>9 DEF DeleteOrphans, history
  <2>2. \A i \in fresh[r] : Resolves(i) /\ rows[i].company \notin orphans[r]
    BY <1>0, <1>a, <2>1 DEF Ended
  <2>3. \A i \in fresh'[r] : Resolves(i)'
    BY <2>1, <2>2 DEF Resolves
  <2> QED BY <2>1, <2>3 DEF CompanyInv
<1>10. ASSUME Finish(r) \/ Crash(r) PROVE CompanyInv(r)'
  BY <1>0, <1>2, <1>10 DEF Finish, Crash, Exit
<1> QED BY <1>1, <1>3, <1>4, <1>5, <1>6, <1>7, <1>8, <1>9, <1>10, <1>0, StepCases DEF RunStep

LEMMA QuietStep ==
  ASSUME IInv, [Next]_vars, NEW r \in Runs
  PROVE  QuietInv(r)'
<1>0. /\ TypeInv /\ Alone /\ LocalInv(r) /\ QuietInv(r) /\ \A q \in Runs : LocalInv(q)
      /\ DOMAIN kind = Runs /\ DOMAIN pc = Runs /\ DOMAIN orphans = Runs
      /\ kind[r] \in Kinds
  BY DEF IInv, TypeInv, TypeOK
<1>1. ASSUME Frame(r) PROVE QuietInv(r)'
  <2>0. /\ pc'[r] = pc[r] /\ kind'[r] = kind[r] /\ orphans'[r] = orphans[r]
        /\ r \in quiet' => r \in quiet
    BY <1>1 DEF Frame
  <2> SUFFICES ASSUME r \in quiet', r \in quiet, kind[r] = "reslug", Ended(r)
               PROVE  companies' = companies /\ Used' = Used
    BY <1>0, <2>0 DEF QuietInv, Ended
  <2>1. \A q \in Runs : pc[q] # "idle" /\ kind[q] = "reslug" => q = r
    BY <1>0 DEF Alone
  <2>2. \A i : ~UpsertJob(i)
    BY DEF UpsertJob
  <2>3. companies' = companies
    <3>1. ASSUME NEW q \in Runs, Sync(q) \/ DeleteOrphans(q) PROVE FALSE
      <4>1. pc[q] \in {"sync", "delete"} /\ pc'[q] # pc[q]
        BY <1>0, <3>1 DEF Sync, DeleteOrphans
      <4>2. q = r
        BY <1>0, <2>1, <4>1 DEF LocalInv
      <4> QED BY <2>0, <4>1, <4>2
    <3> QED BY <2>2, <3>1, CompaniesChange
  <2>4. /\ DOMAIN rows' = DOMAIN rows
        /\ \A i \in DOMAIN rows : rows'[i].company = rows[i].company
    <3>1. ASSUME NEW q \in Runs, NEW i \in DOMAIN page[q], Rewrite(q),
                 i \in DOMAIN rows, DOMAIN rows' = DOMAIN rows,
                 rows'[i] = Rewritten(q, i, page[q][i], rows[i]),
                 \A k \in DOMAIN rows \ {i} : rows'[k] = rows[k]
          PROVE  <2>4
      <4>1. pc[q] \in {"rows", "last"}
        BY <3>1 DEF Rewrite
      <4>2. q # r
        BY <4>1 DEF Ended
      <4>3. kind[q] # "reslug" /\ kind[q] \in Kinds
        BY <1>0, <2>1, <4>1, <4>2 DEF TypeInv, TypeOK
      <4>4. IsRow(page[q][i]) /\ IsRow(rows[i])
        BY <1>0, <3>1 DEF TypeInv
      <4>5. rows'[i].company = rows[i].company
        BY <3>1, <4>3, <4>4, RewrittenFacts
      <4> QED BY <3>1, <4>5
    <3> QED BY <1>0, <2>2, <3>1, RowsChange
  <2>5. Used' = Used
    BY <2>4 DEF Used
  <2> QED BY <2>3, <2>5
<1>2. ASSUME pc'[r] \notin {"orphans", "delete", "end"} \/ kind'[r] # "reslug" PROVE QuietInv(r)'
  BY <1>2 DEF QuietInv, Ended
<1>3. ASSUME NEW k \in Kinds, Start(r, k) PROVE QuietInv(r)'
  BY <1>0, <1>2, <1>3 DEF Start
<1>4. ASSUME Read(r) PROVE QuietInv(r)'
  <2>1. pc'[r] \in {"rows", "last"} \/ Last(r)
    BY <1>0, <1>4 DEF Read
  <2>2. UNCHANGED kind
    BY <1>4 DEF Read
  <2> QED BY <1>0, <1>2, <2>1, <2>2 DEF Last
<1>5. ASSUME Rewrite(r) PROVE QuietInv(r)'
  BY <1>0, <1>2, <1>5 DEF Rewrite
<1>6. ASSUME PageDone(r) PROVE QuietInv(r)'
  <2>1. /\ pc'[r] = "read" \/ Last(r)
        /\ UNCHANGED kind
    BY <1>0, <1>6 DEF PageDone
  <2> QED BY <1>0, <1>2, <2>1 DEF Last
<1>7. ASSUME Sync(r) PROVE QuietInv(r)'
  <2>1. companies' = companies \cup Used /\ pc'[r] = "orphans" /\ UNCHANGED rows
    BY <1>0, <1>7 DEF Sync, SyncCompaniesFromJobs
  <2> QED BY <2>1 DEF QuietInv, Used
<1>8. ASSUME FindOrphans(r) PROVE QuietInv(r)'
  <2>1. /\ orphans'[r] = companies \ Used /\ pc[r] = "orphans" /\ pc'[r] = "delete"
        /\ UNCHANGED <<rows, companies, quiet, kind>>
    BY <1>0, <1>8 DEF FindOrphans, Orphans, history, job
  <2>2. Used' = Used
    BY <2>1 DEF Used
  <2> QED BY <1>0, <2>1, <2>2 DEF QuietInv, Ended
<1>9. ASSUME DeleteOrphans(r) PROVE QuietInv(r)'
  <2>1. /\ companies' = companies \ orphans[r] /\ pc[r] = "delete" /\ pc'[r] = "end"
        /\ UNCHANGED <<rows, quiet, kind>>
    BY <1>0, <1>9 DEF DeleteOrphans, history
  <2>2. Used' = Used
    BY <2>1 DEF Used
  <2> QED BY <1>0, <2>1, <2>2 DEF QuietInv, Ended
<1>10. ASSUME Finish(r) \/ Crash(r) PROVE QuietInv(r)'
  BY <1>0, <1>2, <1>10 DEF Finish, Crash, Exit
<1> QED BY <1>1, <1>3, <1>4, <1>5, <1>6, <1>7, <1>8, <1>9, <1>10, <1>0, StepCases DEF RunStep

-----------------------------------------------------------------------------
(* The table, the scans and the companies agree in every state.            *)
THEOREM InvariantCorrect == Spec => []IInv
<1>1. Init => IInv
  <2> SUFFICES ASSUME Init PROVE IInv
    OBVIOUS
  <2>1. PICK S \in SUBSET Ids : rows = [i \in S |-> Legacy(i, board[i], 1)]
    BY DEF Init
  <2>2. ASSUME NEW i \in S PROVE IsRow(rows[i]) /\ rows[i].public[2] = i
    <3> DEFINE p == board[i]
    <3>1. p.name \in Names /\ p.text \in Texts
      BY CatalogueAssumption DEF Init
    <3> HIDE DEF p
    <3>2. rows[i] = [name |-> p.name, text |-> p.text, company |-> Slug(1, p.name),
                     public |-> JobSlug(1, p.name, i), geo |-> Empty, skills |-> Empty,
                     mode |-> NoMode]
      BY <2>1 DEF Legacy, p
    <3>3. JobSlug(1, p.name, i)[2] = i
      BY DEF JobSlug
    <3> QED BY <3>1, <3>2, <3>3, CatalogueAssumption DEF IsRow
  <2>3. \A i \in DOMAIN rows : /\ IsRow(rows[i]) /\ rows[i].public[2] = i
                               /\ rows[i].name \in Names /\ rows[i].text \in Texts
                               /\ rows[i].mode \in Modes
    BY <2>1, <2>2 DEF IsRow
  <2>4. TypeInv
    BY <2>1, <2>3 DEF Init, TypeInv, TypeOK, Builds, Kinds, Steps, NoPage, Used
  <2>5. /\ Alone
        /\ \A r \in Runs : LocalInv(r) /\ ScanInv(r) /\ CompanyInv(r) /\ QuietInv(r)
    BY DEF Init, NoPage, Alone, LocalInv, ScanInv, CompanyInv, QuietInv, Ended
  <2> QED BY <2>4, <2>5 DEF IInv
<1>2. IInv /\ [Next]_vars => IInv'
  <2> SUFFICES ASSUME IInv, [Next]_vars PROVE IInv'
    OBVIOUS
  <2>1. TypeInv' /\ Alone'
    BY TypeStep, AloneStep DEF IInv
  <2>2. \A r \in Runs : LocalInv(r)' /\ ScanInv(r)' /\ CompanyInv(r)' /\ QuietInv(r)'
    BY LocalStep, ScanStep, CompanyStep, QuietStep DEF IInv
  <2> QED BY <2>1, <2>2 DEF IInv
<1> QED BY <1>1, <1>2, PTL DEF Spec

(* Slugs keep the id they were minted for, no company has the empty slug,  *)
(* and a run works on rows that are there.                                 *)
THEOREM TypeCorrect == Spec => []TypeOK
<1>1. IInv => TypeOK
  BY DEF IInv, TypeInv
<1> QED BY <1>1, InvariantCorrect, PTL

(* A run that ends well has done its work, whatever was upserted around it.*)
THEOREM RunsDeliver == Spec => RunDelivers
<1> DEFINE Fine == \A r \in Runs : Finish(r) =>
                     /\ \A i \in fresh[r] : Done(r, i)
                     /\ kind[r] = "reslug" /\ r \in quiet => companies = Used
<1>1. IInv => Fine
  <2> SUFFICES ASSUME IInv, NEW r \in Runs, pc[r] = "end"
               PROVE  /\ \A i \in fresh[r] : Done(r, i)
                      /\ kind[r] = "reslug" /\ r \in quiet => companies = Used
    BY DEF Finish
  <2>1. /\ DOMAIN page[r] = {} /\ ScanInv(r) /\ CompanyInv(r) /\ QuietInv(r)
        /\ kind[r] \in Kinds
    BY DEF IInv, LocalInv, TypeInv, TypeOK
  <2>2. \A i \in fresh[r] : Written(kind[r], binary[r], i, rows[i])
    BY <2>1 DEF ScanInv
  <2>3. \A i \in fresh[r] : kind[r] = "reslug" => Resolves(i)
    BY <2>1 DEF CompanyInv, Ended
  <2>4. \A i \in fresh[r] : Done(r, i)
    BY <2>1, <2>2, <2>3 DEF Done, Written, Kinds
  <2> QED BY <2>1, <2>4 DEF QuietInv
<1>2. IInv /\ [Next]_vars => [Fine]_vars
  BY <1>1
<1> QED BY <1>2, InvariantCorrect, PTL DEF Spec, RunDelivers

(* A job loses its company page only to reslug, by a new key or by a       *)
(* deletion that has looked for orphans before the job was written, and a  *)
(* work mode only to an upsert or to a run with a page from before it.     *)
THEOREM LossesAreExplained == Spec => LossesExplained
<1> DEFINE Fine == \A i \in DOMAIN rows :
              /\ Resolves(i) /\ ~Resolves(i)' =>
                   IF rows'[i].company # rows[i].company THEN Rekeyed(i)
                   ELSE \E r \in Runs : /\ pc[r] = "delete" /\ pc'[r] = "end"
                                        /\ rows[i].company \in orphans[r] /\ i \in late[r]
              /\ rows[i].mode \notin {NoMode, rows'[i].mode} =>
                   \/ UpsertJob(i)
                   \/ \E r \in Runs : /\ kind[r] = "geo" /\ i \in DOMAIN page[r]
                                      /\ page[r][i].mode # rows[i].mode
<1>1. IInv /\ [Next]_vars => [Fine]_vars
  <2> SUFFICES ASSUME IInv, [Next]_vars, NEW i \in DOMAIN rows
               PROVE  /\ Resolves(i) /\ ~Resolves(i)' /\ rows'[i].company # rows[i].company =>
                           Rekeyed(i)
                      /\ Resolves(i) /\ ~Resolves(i)' /\ rows'[i].company = rows[i].company =>
                           \E r \in Runs : /\ pc[r] = "delete" /\ pc'[r] = "end"
                                           /\ rows[i].company \in orphans[r] /\ i \in late[r]
                      /\ rows[i].mode # NoMode /\ rows'[i].mode # rows[i].mode =>
                           \/ UpsertJob(i)
                           \/ \E r \in Runs : /\ kind[r] = "geo" /\ i \in DOMAIN page[r]
                                              /\ page[r][i].mode # rows[i].mode
    OBVIOUS
  <2>0. TypeInv
    BY DEF IInv
  <2>1. ASSUME ~Resolves(i)', rows'[i].company # rows[i].company
        PROVE  Rekeyed(i)
    <3>1. ASSUME NEW k \in Crawled, NEW b \in ingests, CompanyUpsert(k, b),
                 rows'[k] = Stored(k, b), \A j \in DOMAIN rows \ {k} : rows'[j] = rows[j]
          PROVE  FALSE
      <4>1. i = k
        BY <2>1, <3>1
      <4>2. rows'[i].company = Slug(b, board[i].name)
        BY <2>0, <3>1, <4>1, StoredFacts
      <4> QED BY <2>1, <3>1, <4>1, <4>2 DEF CompanyUpsert, Resolves
    <3>2. PICK q \in Runs : /\ i \in DOMAIN page[q]
                            /\ rows'[i] = Rewritten(q, i, page[q][i], rows[i])
      BY <2>1, <3>1, <2>0, RowsChange
    <3>3. IsRow(page[q][i]) /\ IsRow(rows[i]) /\ kind[q] \in Kinds
      BY <2>0, <3>2 DEF TypeInv, TypeOK
    <3>4. kind[q] = "reslug" /\ rows'[i].company = Slug(binary[q], page[q][i].name)
      BY <2>1, <3>2, <3>3, RewrittenFacts
    <3> QED BY <3>2, <3>4 DEF Rekeyed
  <2>2. ASSUME Resolves(i), ~Resolves(i)', rows'[i].company = rows[i].company
        PROVE  \E r \in Runs : /\ pc[r] = "delete" /\ pc'[r] = "end"
                               /\ rows[i].company \in orphans[r] /\ i \in late[r]
    <3>1. rows[i].company \in companies /\ rows[i].company \notin companies'
      BY <2>2 DEF Resolves
    <3>2. PICK q \in Runs : DeleteOrphans(q) /\ companies' = companies \ orphans[q]
      BY <3>1, CompaniesChange DEF CompanyUpsert
    <3>3. pc[q] = "delete" /\ pc'[q] = "end" /\ rows[i].company \in orphans[q]
      BY <2>0, <3>1, <3>2 DEF DeleteOrphans, TypeInv, TypeOK
    <3> QED BY <3>3 DEF IInv, CompanyInv
  <2>3. ASSUME rows[i].mode # NoMode, rows'[i].mode # rows[i].mode, ~UpsertJob(i)
        PROVE  \E r \in Runs : /\ kind[r] = "geo" /\ i \in DOMAIN page[r]
                               /\ page[r][i].mode # rows[i].mode
    <3>1. PICK q \in Runs : /\ i \in DOMAIN page[q]
                            /\ rows'[i] = Rewritten(q, i, page[q][i], rows[i])
      BY <2>0, <2>3, RowsChange
    <3>2. IsRow(page[q][i]) /\ IsRow(rows[i]) /\ kind[q] \in Kinds
      BY <2>0, <3>1 DEF TypeInv, TypeOK
    <3> QED BY <2>3, <3>1, <3>2, RewrittenFacts
  <2> QED BY <2>1, <2>2, <2>3
<1> QED BY <1>1, InvariantCorrect, PTL DEF Spec, LossesExplained

=============================================================================
