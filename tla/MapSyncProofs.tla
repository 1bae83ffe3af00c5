--------------------------- MODULE MapSyncProofs ---------------------------
(***************************************************************************)
(* Theorems about MapSync: for any sources, roots, pages, page size,       *)
(* margin, error policy, set of calls and number of faults.  The types and *)
(* the read window; then what a crawl may lose; then what a run has seen   *)
(* by the time it commits a cursor or archives a page.                     *)
(***************************************************************************)
EXTENDS MapSync, FiniteSetTheorems, TLAPS

(* Type correctness. *)

\* What a step leaves alone keeps its type.
LEMMA CrawlStepTypes ==
  ASSUME TypeOK, run' \in RunType, budget' \in [Fault -> Nat],
         UNCHANGED <<wikiVars, doc, status, vec, cursor, cycle>>,
         raw' \in [Page -> Nat \cup {Never}], ckpt' \in [Root -> Nat \cup {Done}],
         missed' \subseteq Page,
         run'.pc \in {"root", "search", "fetch", "clear"} => run'.src \in Source,
         run'.pc \in {"search", "fetch"} => run'.root \in Root
  PROVE  TypeOK'
BY DEF TypeOK, wikiVars

\* Spending a fault leaves a budget.
LEMMA SpendTypes ==
  ASSUME NEW f \in Fault, budget \in [Fault -> Nat], Spend(f)
  PROVE  budget' \in [Fault -> Nat]
BY DEF Spend

\* The idle run is a run.
LEMMA NoRunType == NoRun \in RunType /\ NoRun.pc = "idle"
BY DEF NoRun, RunType, Phase, Never

\* Leaving a root, with or without a root-level error, keeps the run's type.
RootError == [run EXCEPT !.rootfailed = TRUE, !.failed = @ + 1, !.tried = @ + 1]

LEMMA LeaveTypes ==
  ASSUME run \in RunType, run.src \in Source, LeaveRoot(run) \/ LeaveRoot(RootError)
  PROVE  run' \in RunType /\ run'.pc = "root" /\ run'.src \in Source
<1>1. CASE LeaveRoot(run)
  BY <1>1 DEF LeaveRoot, RunType, Phase
<1>2. CASE LeaveRoot(RootError)
  <2>1. run.failed + 1 \in Nat /\ run.tried + 1 \in Nat
    BY DEF RunType
  <2>2. PICK n \in Nat, m \in Nat : RootError = [run EXCEPT !.rootfailed = TRUE, !.failed = n, !.tried = m]
    BY <2>1 DEF RootError
  <2>3. RootError \in RunType /\ RootError.src \in Source
    BY <2>2 DEF RunType
  <2> QED
    BY <1>2, <2>3, ZenonT(60) DEF LeaveRoot, RunType, Phase
<1> QED
  BY <1>1, <1>2

\* Every step of the crawl keeps the types, ...
LEMMA CrawlTypes == TypeOK /\ Crawl => TypeOK'
<1> SUFFICES ASSUME TypeOK, Crawl PROVE TypeOK'
  OBVIOUS
<1> USE MapAssumption
<1>1. ASSUME NEW s \in Source, BeginSource(s) PROVE TypeOK'
  <2>1. /\ RootsOf(s) \subseteq Root /\ SeedsDue(s) \subseteq Page /\ PagesOf(s) \subseteq Page
        /\ Since(s) \in Int
    BY DEF TypeOK, RootsOf, SeedsDue, PagesOf, Since, Never
  <2>2. run' \in RunType /\ run'.pc = "root" /\ run'.src \in Source
    <3>1. PICK i \in Int, R \in SUBSET Root, P \in SUBSET Page, Q \in SUBSET Page :
            run' = [run EXCEPT !.pc = "root", !.src = s, !.todo = @ \ {s}, !.since = i,
                               !.roots = R, !.seeds = P, !.prev = Q]
      <4>1. (IF run.only = None THEN RootsOf(s) ELSE {run.only}) \in SUBSET Root
        BY <1>1, <2>1 DEF BeginSource, TypeOK, RunType
      <4>2. {p \in PagesOf(s) : doc[p] # Never /\ status[p] = "active"} \in SUBSET Page
        BY <2>1
      <4> QED
        BY <1>1, <2>1, <4>1, <4>2 DEF BeginSource
    <3> QED
      BY <3>1, ZenonT(60) DEF TypeOK, RunType, Phase
  <2> QED
    BY <1>1, <2>2 DEF BeginSource, TypeOK, wikiVars, diskVars, rowVars, RunType
<1>2. ASSUME NEW s \in Source, SkipSource(s) PROVE TypeOK'
  <2>1. run' \in RunType /\ run'.pc = "source"
    BY <1>2 DEF SkipSource, TypeOK, RunType
  <2> QED
    BY <1>2, <2>1, CrawlStepTypes DEF SkipSource, TypeOK, diskVars, rowVars
<1>3. ASSUME NEW r \in Root, BeginRoot(r) PROVE TypeOK'
  <2>1. run \in RunType /\ run.src \in Source /\ run.pc = "root" /\ ckpt[r] \in Nat \cup {Done}
    BY <1>3 DEF BeginRoot, TypeOK
  <2>2. CASE UseCheckpoint /\ ckpt[r] = Done
    <3>1. run' \in RunType /\ run'.src \in Source /\ run'.pc = "root"
      BY <1>3, <2>1, <2>2 DEF BeginRoot, RunType
    <3> QED
      BY <1>3, <3>1, CrawlStepTypes DEF BeginRoot, TypeOK, diskVars, rowVars
  <2>3. CASE ~(UseCheckpoint /\ ckpt[r] = Done)
    <3>1. (IF UseCheckpoint THEN ckpt[r] ELSE 0) \in Nat
      BY <2>1, <2>3
    <3>2. run' \in RunType /\ run'.src \in Source /\ run'.root = r /\ run'.pc = "search"
      BY <1>3, <2>1, <2>3, <3>1, ZenonT(60) DEF BeginRoot, RunType, Phase
    <3> QED
      BY <1>3, <3>2, CrawlStepTypes DEF BeginRoot, TypeOK, diskVars, rowVars
  <2> QED
    BY <2>2, <2>3
<1>4. CASE SearchFails
  <2>1. run' \in RunType /\ run'.pc = "root" /\ run'.src \in Source
    BY <1>4, LeaveTypes DEF SearchFails, RootError, TypeOK
  <2> QED
    BY <1>4, <2>1, CrawlStepTypes, SpendTypes DEF SearchFails, TypeOK, diskVars, rowVars, Fault
<1>5. CASE Search
  <2> DEFINE results == Window(Listing(run.root, run.since), run.start)
  <2>1. results \subseteq Page
    BY DEF Window, Listing, TypeOK
  <2> HIDE DEF results
  <2>2. run \in RunType /\ run.src \in Source /\ run.root \in Root
    BY <1>5 DEF Search, TypeOK
  <2>3. /\ run' \in RunType /\ run'.pc \in {"root", "fetch"} /\ run'.src \in Source
        /\ run'.pc = "fetch" => run'.root \in Root
    <3>1. CASE LeaveRoot(run) \/ LeaveRoot(RootError)
      BY <2>2, <3>1, LeaveTypes
    <3>2. CASE run' = [run EXCEPT !.pc = "fetch", !.batch = results, !.seen = @ \cup results,
                                  !.full = Cardinality(results) = PageSize]
      <4>1. PICK b \in BOOLEAN, S \in SUBSET Page :
              run' = [run EXCEPT !.pc = "fetch", !.batch = results, !.seen = S, !.full = b]
        BY <2>1, <2>2, <3>2 DEF RunType
      <4> QED
        BY <2>1, <2>2, <4>1, ZenonT(60) DEF RunType, Phase
    <3> QED
      BY <1>5, <3>1, <3>2 DEF Search, RootError, results
  <2>4. ckpt' \in [Root -> Nat \cup {Done}]
    BY <1>5 DEF Search, SaveCheckpoint, TypeOK
  <2> QED
    BY <1>5, <2>3, <2>4, CrawlStepTypes DEF Search, TypeOK, diskVars
<1>6. CASE StopAtLimit
  <2>1. run' \in RunType /\ run'.pc = "root" /\ run'.src \in Source
    BY <1>6, LeaveTypes DEF StopAtLimit, TypeOK
  <2> QED
    BY <1>6, <2>1, CrawlStepTypes DEF StopAtLimit, TypeOK, diskVars, rowVars
<1>7. ASSUME NEW p \in Page, WritePage(p) \/ PageFails(p)
      PROVE  /\ run' \in RunType /\ run'.pc = run.pc /\ run'.src = run.src /\ run'.root = run.root
             /\ budget' \in [Fault -> Nat]
             /\ raw' \in [Page -> Nat \cup {Never}]
             /\ missed' \subseteq Page
  <2>1. /\ run.tried + 1 \in Nat /\ run.failed + 1 \in Nat /\ run.inroot + 1 \in Nat
        /\ run \in RunType
    BY DEF TypeOK, RunType
  <2>2. CASE WritePage(p)
    <3>1. PICK t \in Nat, i \in Nat :
            run' = [run EXCEPT !.batch = @ \ {p}, !.seeds = @ \ {p}, !.wrote = @ \cup {p},
                               !.tried = t, !.inroot = i]
      BY <2>1, <2>2 DEF WritePage
    <3>2. run' \in RunType /\ run'.pc = run.pc /\ run'.src = run.src /\ run'.root = run.root
      BY <2>1, <3>1, ZenonT(60) DEF RunType
    <3> QED
      BY <2>2, <3>2 DEF WritePage, TypeOK
  <2>3. CASE PageFails(p)
    <3>1. budget' \in [Fault -> Nat]
      BY <2>3, SpendTypes DEF PageFails, TypeOK, Fault
    <3>2. PICK t \in Nat, f \in Nat :
            run' = [run EXCEPT !.batch = @ \ {p}, !.seeds = @ \ {p}, !.tried = t, !.failed = f]
      BY <2>1, <2>3 DEF PageFails
    <3>3. run' \in RunType /\ run'.pc = run.pc /\ run'.src = run.src /\ run'.root = run.root
      BY <2>1, <3>2, ZenonT(60) DEF RunType
    <3> QED
      BY <2>3, <3>1, <3>3 DEF PageFails, TypeOK
  <2> QED
    BY <1>7, <2>2, <2>3
<1>8. ASSUME NEW p \in Page, FetchPage(p) \/ FetchSeed(p) PROVE TypeOK'
  <2>1. WritePage(p) \/ PageFails(p)
    BY <1>8 DEF FetchPage, FetchSeed
  <2>2. UNCHANGED <<wikiVars, doc, status, vec, rowVars, cycle>>
    BY <1>8 DEF FetchPage, FetchSeed
  <2>3. /\ run.pc \in {"root", "search", "fetch", "clear"} => run.src \in Source
        /\ run.pc \in {"search", "fetch"} => run.root \in Root
        /\ ckpt \in [Root -> Nat \cup {Done}]
    BY DEF TypeOK
  <2> QED
    BY <1>7, <2>1, <2>2, <2>3, CrawlStepTypes DEF rowVars
<1>9. CASE EndBatch
  <2>1. NextOffset \in Nat
    BY DEF NextOffset, TypeOK, RunType
  <2>2. run \in RunType /\ run.src \in Source /\ run.root \in Root
    BY <1>9 DEF EndBatch, TypeOK
  <2>3. /\ run' \in RunType /\ run'.pc \in {"root", "search"} /\ run'.src \in Source
        /\ run'.pc = "search" => run'.root \in Root
    <3>1. CASE run.full
      <4>1. PICK n \in Nat : run' = [run EXCEPT !.pc = "search", !.batch = {}, !.start = n]
        BY <1>9, <2>1, <3>1 DEF EndBatch
      <4> QED
        BY <2>2, <4>1, ZenonT(60) DEF RunType, Phase
    <3>2. CASE ~run.full
      BY <1>9, <2>2, <3>2, LeaveTypes DEF EndBatch
    <3> QED
      BY <3>1, <3>2
  <2>4. ckpt' \in [Root -> Nat \cup {Done}]
    BY <1>9, <2>1 DEF EndBatch, SaveCheckpoint, TypeOK
  <2> QED
    BY <1>9, <2>3, <2>4, CrawlStepTypes DEF EndBatch, TypeOK, diskVars
<1> QED
  BY <1>1, <1>2, <1>3, <1>4, <1>5, <1>6, <1>8, <1>9 DEF Crawl

\* ... and so does every step after it.
LEMMA SettleTypes == TypeOK /\ Settle => TypeOK'
<1> SUFFICES ASSUME TypeOK, Settle PROVE TypeOK'
  OBVIOUS
<1> USE MapAssumption
<1>1. CASE Judge
  <2>1. run' \in RunType /\ run'.pc = "source"
    <3>1. run.src \in Source /\ run \in RunType
      BY <1>1 DEF Judge, Crawled, TypeOK
    <3>2. PICK S \in SUBSET Source :
            run' = [run EXCEPT !.pc = "source", !.src = None, !.prev = {}, !.wrote = {},
                               !.tried = 0, !.failed = 0, !.rootfailed = FALSE, !.staged = S]
      BY <1>1, <3>1 DEF Judge, RunType
    <3> QED
      BY <3>1, <3>2, ZenonT(60) DEF RunType, Phase
  <2> QED
    BY <1>1, <2>1, CrawlStepTypes DEF Judge, TypeOK, diskVars, rowVars
<1>2. CASE SourcesDone
  <2>1. run' \in RunType /\ run'.pc \in {"idle", "ingest", "commit"}
    <3>1. CASE run.dry
      BY <1>2, <3>1, NoRunType DEF SourcesDone
    <3>2. CASE ~run.dry
      <4>1. PICK l \in {"ingest", "commit"} : run' = [run EXCEPT !.pc = l]
        BY <1>2, <3>2 DEF SourcesDone, AfterCrawl
      <4> QED
        BY <4>1, ZenonT(60) DEF TypeOK, RunType, Phase
    <3> QED
      BY <3>1, <3>2
  <2> QED
    BY <1>2, <2>1, CrawlStepTypes DEF SourcesDone, TypeOK, diskVars, rowVars
<1>3. CASE Archive
  <2>1. Gone \subseteq Page
    BY DEF Gone, TypeOK, RunType
  <2>2. run' \in RunType /\ run'.pc \in {"ingest", "report"}
    <3>1. PICK l \in {"ingest", "report"} : run' = [run EXCEPT !.pc = l, !.archived = Gone]
      BY <1>3 DEF Archive
    <3> QED
      BY <2>1, <3>1, ZenonT(60) DEF TypeOK, RunType, Phase
  <2>3. status' \in [Page -> {"active", "archived"}]
    BY <1>3 DEF Archive, TypeOK
  <2> QED
    BY <1>3, <2>2, <2>3 DEF Archive, TypeOK, wikiVars, rowVars
<1>4. ASSUME NEW S \in SUBSET Page, S \subseteq OnDisk, Upsert(S)
      PROVE  /\ doc' \in [Page -> Nat \cup {Never}] /\ status' \in [Page -> {"active", "archived"}]
             /\ vec' \subseteq Page
  BY <1>4 DEF Upsert, TypeOK
<1>5. OnDisk \subseteq Page
  BY DEF OnDisk
<1>6. CASE Ingest
  <2>1. run' \in RunType /\ run'.pc \in {"report", "embed"}
    <3>1. PICK l \in {"report", "embed"} : run' = [run EXCEPT !.pc = l]
      BY <1>6 DEF Ingest, Goto
    <3> QED
      BY <3>1, ZenonT(60) DEF TypeOK, RunType, Phase
  <2>2. budget' \in [Fault -> Nat]
    BY <1>6, SpendTypes DEF Ingest, TypeOK, Fault
  <2>3. PICK S \in SUBSET Page : S \subseteq OnDisk /\ Upsert(S)
    BY <1>5, <1>6 DEF Ingest
  <2> QED
    BY <1>4, <1>6, <2>1, <2>2, <2>3 DEF Ingest, TypeOK, wikiVars, rowVars
<1>7. CASE IngestRaises
  <2>1. budget' \in [Fault -> Nat]
    BY <1>7, SpendTypes DEF IngestRaises, TypeOK, Fault
  <2>2. PICK S \in SUBSET Page : S \subseteq OnDisk /\ Upsert(S)
    BY <1>5, <1>7 DEF IngestRaises
  <2> QED
    BY <1>4, <1>7, <2>1, <2>2, NoRunType DEF IngestRaises, TypeOK, wikiVars, rowVars
<1>8. CASE Embed
  <2>1. run' \in RunType /\ run'.pc = "commit"
    BY <1>8, ZenonT(60) DEF Embed, Goto, TypeOK, RunType, Phase
  <2>2. budget' \in [Fault -> Nat]
    BY <1>8, SpendTypes DEF Embed, TypeOK, Fault
  <2>3. vec' \subseteq Page
    BY <1>8 DEF Embed, TypeOK
  <2> QED
    BY <1>8, <2>1, <2>2, <2>3 DEF Embed, TypeOK, wikiVars, rowVars
<1>9. ASSUME NEW s \in Source, AdvanceCursor(s) PROVE TypeOK'
  <2>1. run' \in RunType /\ run'.pc = "clear" /\ run'.src = s
    BY <1>9, ZenonT(60) DEF AdvanceCursor, TypeOK, RunType, Phase
  <2>2. cursor' \in [Source -> Int]
    BY <1>9 DEF AdvanceCursor, NewCursor, TypeOK, RunType
  <2>3. missed' \subseteq Page
    BY <1>9 DEF AdvanceCursor, Overtaken, TypeOK
  <2> QED
    BY <1>9, <2>1, <2>2, <2>3 DEF AdvanceCursor, TypeOK, wikiVars, diskVars
<1>10. CASE ClearCheckpoints
  <2>1. run' \in RunType /\ run'.pc = "commit"
    BY <1>10, ZenonT(60) DEF ClearCheckpoints, TypeOK, RunType, Phase
  <2>2. ckpt' \in [Root -> Nat \cup {Done}]
    BY <1>10 DEF ClearCheckpoints, TypeOK
  <2> QED
    BY <1>10, <2>1, <2>2, CrawlStepTypes DEF ClearCheckpoints, TypeOK, diskVars
<1>11. CASE Return
  BY <1>11, CrawlStepTypes, NoRunType DEF Return, TypeOK, diskVars, rowVars
<1> QED
  BY <1>1, <1>2, <1>3, <1>6, <1>7, <1>8, <1>9, <1>10, <1>11 DEF Settle

\* The variables keep their types, and a run in hand names its source and root.
THEOREM TypeCorrect == Spec => []TypeOK
<1>1. Init => TypeOK
  BY MapAssumption, NoRunType DEF Init, TypeOK, Never, Done
<1>2. TypeOK /\ [Next]_vars => TypeOK'
  <2> SUFFICES ASSUME TypeOK, [Next]_vars PROVE TypeOK'
    OBVIOUS
  <2>1. ASSUME NEW p \in Page, Edit(p) PROVE TypeOK'
    BY <2>1 DEF Edit, TypeOK, diskVars, rowVars
  <2>2. ASSUME NEW p \in Page, Delete(p) PROVE TypeOK'
    <3>1. budget' \in [Fault -> Nat]
      BY <2>2, SpendTypes DEF Delete, TypeOK, Fault
    <3>2. missed' \subseteq Page
      BY <2>2 DEF Delete, TypeOK
    <3> QED
      BY <2>2, <3>1, <3>2 DEF Delete, TypeOK, diskVars, rowVars
  <2>3. ASSUME NEW o \in SyncOption, StartSync(o) PROVE TypeOK'
    <3>1. o \in Options
      BY MapAssumption
    <3>2. run' \in RunType /\ run'.pc = "source"
      <4>1. /\ run' = [NoRun EXCEPT !.pc = "source", !.dry = o.dry, !.ingest = o.ingest,
                                    !.only = o.only, !.limit = o.limit,
                                    !.started = now, !.todo = o.sources]
            /\ o.dry \in BOOLEAN /\ o.ingest \in BOOLEAN /\ o.only \in Root \cup {None}
            /\ o.limit \in Nat /\ now \in Nat /\ o.sources \in SUBSET Source
        BY <2>3, <3>1 DEF StartSync, Options, TypeOK
      <4> QED
        BY <4>1, NoRunType, ZenonT(60) DEF RunType, Phase
    <3> QED
      BY <2>3, <3>2, CrawlStepTypes DEF StartSync, TypeOK, diskVars, rowVars
  <2>4. ASSUME NEW s \in Source, NEW o \in InvOption, StartInventory(s, o) PROVE TypeOK'
    <3>1. run' \in RunType /\ run'.pc = "source"
      <4>1. /\ run' = [NoRun EXCEPT !.pc = "source", !.inv = TRUE, !.dry = o.dry,
                                    !.ingest = o.ingest, !.started = now, !.todo = {s}]
            /\ o.dry \in BOOLEAN /\ o.ingest \in BOOLEAN /\ now \in Nat
        BY <2>4, MapAssumption DEF StartInventory, TypeOK
      <4> QED
        BY <4>1, NoRunType, ZenonT(60) DEF RunType, Phase
    <3> QED
      BY <2>4, <3>1, CrawlStepTypes DEF StartInventory, TypeOK, diskVars, rowVars
  <2>5. CASE Crash
    <3>1. budget' \in [Fault -> Nat]
      BY <2>5, SpendTypes DEF Crash, TypeOK, Fault
    <3> QED
      BY <2>5, <3>1, NoRunType, CrawlStepTypes DEF Crash, TypeOK, diskVars, rowVars
  <2>6. CASE UNCHANGED vars
    BY <2>6 DEF vars, wikiVars, diskVars, rowVars, TypeOK
  <2> QED
    BY <2>1, <2>2, <2>3, <2>4, <2>5, <2>6, CrawlTypes, SettleTypes DEF Next
<1> QED
  BY <1>1, <1>2, PTL DEF Spec

-----------------------------------------------------------------------------
(* Partial runs.  Only what Judge staged is committed, and Judge stages the *)
(* sources of full synchronisations only.                                   *)

StagedByFullSync ==
  run.staged # {} \/ run.pc = "clear" => ~run.inv /\ ~run.dry /\ ~Truncated

\* The arguments of the call, which no step of the run rewrites.
SameCall == /\ run'.inv = run.inv /\ run'.dry = run.dry
            /\ run'.limit = run.limit /\ run'.only = run.only

\* A step that keeps the call, stages nothing and does not move to the commit's
\* second half keeps the invariant.
LEMMA StagedFrame ==
  ASSUME StagedByFullSync, SameCall, run'.staged \subseteq run.staged,
         run'.pc = "clear" => run.staged # {} \/ run.pc = "clear"
  PROVE  StagedByFullSync'
BY DEF StagedByFullSync, SameCall, Truncated

\* Ending a run leaves nothing staged.
LEMMA NoRunStages == ASSUME run' = NoRun PROVE StagedByFullSync'
BY DEF NoRun, StagedByFullSync

\* Leaving a root keeps the call.
LEMMA LeaveKeepsCall ==
  ASSUME run \in RunType, LeaveRoot(run) \/ LeaveRoot(RootError)
  PROVE  SameCall /\ run'.staged = run.staged /\ run'.pc # "clear"
<1>1. CASE LeaveRoot(run)
  BY <1>1 DEF LeaveRoot, SameCall, RunType
<1>2. CASE LeaveRoot(RootError)
  <2>1. PICK n, m : RootError = [run EXCEPT !.rootfailed = TRUE, !.failed = n, !.tried = m]
    BY DEF RootError
  <2> QED
    BY <1>2, <2>1 DEF LeaveRoot, SameCall, RunType
<1> QED
  BY <1>1, <1>2

\* What is staged or being committed belongs to a full synchronisation.
LEMMA StagedStep == TypeOK /\ StagedByFullSync /\ [Next]_vars => StagedByFullSync'
<1> SUFFICES ASSUME TypeOK, StagedByFullSync, [Next]_vars PROVE StagedByFullSync'
  OBVIOUS
<1>0. run \in RunType
  BY DEF TypeOK
<1>1. CASE run' = run
  BY <1>1, StagedFrame DEF SameCall
<1>2. ASSUME NEW o \in SyncOption, StartSync(o) PROVE StagedByFullSync'
  BY <1>2 DEF StartSync, NoRun, StagedByFullSync
<1>3. ASSUME NEW s \in Source, NEW o \in InvOption, StartInventory(s, o) PROVE StagedByFullSync'
  BY <1>3 DEF StartInventory, NoRun, StagedByFullSync
<1>4. CASE Crawl
  <2>1. SameCall /\ run'.staged = run.staged /\ run'.pc # "clear"
    <3>1. ASSUME NEW s \in Source, BeginSource(s) \/ SkipSource(s)
          PROVE  SameCall /\ run'.staged = run.staged /\ run'.pc # "clear"
      BY <1>0, <3>1, ZenonT(60) DEF BeginSource, SkipSource, SameCall, RunType
    <3>2. ASSUME NEW r \in Root, BeginRoot(r)
          PROVE  SameCall /\ run'.staged = run.staged /\ run'.pc # "clear"
      BY <1>0, <3>2 DEF BeginRoot, SameCall, RunType
    <3>3. CASE LeaveRoot(run) \/ LeaveRoot(RootError)
      BY <1>0, <3>3, LeaveKeepsCall
    <3>4. CASE Search /\ ~(LeaveRoot(run) \/ LeaveRoot(RootError))
      <4> DEFINE results == Window(Listing(run.root, run.since), run.start)
      <4>1. run' = [run EXCEPT !.pc = "fetch", !.batch = results, !.seen = @ \cup results,
                               !.full = Cardinality(results) = PageSize]
        BY <3>4 DEF Search, RootError
      <4> HIDE DEF results
      <4> QED
        BY <1>0, <4>1 DEF SameCall, RunType
    <3>5. ASSUME NEW p \in Page, FetchPage(p) \/ FetchSeed(p)
          PROVE  SameCall /\ run'.staged = run.staged /\ run'.pc # "clear"
      <4>1. CASE WritePage(p)
        BY <1>0, <3>5, <4>1 DEF FetchPage, FetchSeed, WritePage, SameCall, RunType
      <4>2. CASE PageFails(p)
        BY <1>0, <3>5, <4>2 DEF FetchPage, FetchSeed, PageFails, SameCall, RunType
      <4> QED
        BY <3>5, <4>1, <4>2 DEF FetchPage, FetchSeed
    <3>6. CASE EndBatch
      <4>1. CASE run.full
        BY <1>0, <3>6, <4>1, ZenonT(60) DEF EndBatch, SameCall, RunType
      <4>2. CASE ~run.full
        BY <1>0, <3>6, <4>2, LeaveKeepsCall DEF EndBatch
      <4> QED
        BY <4>1, <4>2
    <3> QED
      BY <1>4, <3>1, <3>2, <3>3, <3>4, <3>5, <3>6 DEF Crawl, SearchFails, StopAtLimit, RootError
  <2> QED
    BY <2>1, StagedFrame
<1>5. CASE Judge
  <2>1. SameCall /\ run'.pc = "source" /\ ~run.inv
    BY <1>0, <1>5 DEF Judge, SameCall, RunType
  <2>2. CASE ~run.dry /\ ~Truncated
    BY <2>1, <2>2 DEF StagedByFullSync, SameCall, Truncated
  <2>3. CASE run.dry \/ Truncated
    <3>1. run'.staged = run.staged
      BY <1>0, <1>5, <2>3 DEF Judge, RunType
    <3> QED
      BY <2>1, <3>1, StagedFrame
  <2> QED
    BY <2>2, <2>3
<1>6. CASE SourcesDone \/ Archive \/ Ingest \/ Embed
  <2>1. CASE run' = NoRun
    BY <2>1, NoRunStages
  <2>2. CASE run' # NoRun
    <3>1. SameCall /\ run'.staged = run.staged /\ run'.pc # "clear"
      <4>1. PICK l, A : l # "clear" /\ (run' = [run EXCEPT !.pc = l] \/ run' = [run EXCEPT !.pc = l, !.archived = A])
        BY <1>6, <2>2 DEF SourcesDone, AfterCrawl, Archive, Ingest, Embed, Goto
      <4> QED
        BY <1>0, <4>1, ZenonT(60) DEF SameCall, RunType
    <3> QED
      BY <3>1, StagedFrame
  <2> QED
    BY <2>1, <2>2
<1>7. ASSUME NEW s \in Source, AdvanceCursor(s) PROVE StagedByFullSync'
  <2>1. SameCall /\ run'.staged \subseteq run.staged /\ run.staged # {}
    BY <1>0, <1>7 DEF AdvanceCursor, SameCall, RunType
  <2> QED
    BY <2>1, StagedFrame
<1>8. CASE ClearCheckpoints
  <2>1. SameCall /\ run'.staged = run.staged /\ run'.pc = "commit"
    BY <1>0, <1>8 DEF ClearCheckpoints, SameCall, RunType
  <2> QED
    BY <2>1, StagedFrame
<1>9. CASE IngestRaises \/ Return \/ Crash
  BY <1>9, NoRunStages DEF IngestRaises, Return, Crash
<1> QED
  BY <1>1, <1>2, <1>3, <1>4, <1>5, <1>6, <1>7, <1>8, <1>9
     DEF Next, Settle, Edit, Delete, vars

\* Neither a run of one root or of a few pages, nor an inventory, moves the
\* window of the next incremental run.
THEOREM PartialRunsLeaveWindow == Spec => PartialRunsKeepWindow
<1>1. Init => StagedByFullSync
  BY DEF Init, NoRun, StagedByFullSync
<1>2. TypeOK /\ StagedByFullSync /\ [Next]_vars => [Truncated \/ run.inv => UNCHANGED rowVars]_vars
  <2> SUFFICES ASSUME TypeOK, StagedByFullSync, Next, Truncated \/ run.inv PROVE UNCHANGED rowVars
    OBVIOUS
  <2>1. ~UseCheckpoint
    BY DEF UseCheckpoint
  <2>2. run.staged = {} /\ run.pc # "clear"
    BY DEF StagedByFullSync
  <2>3. CASE Crawl
    BY <2>1, <2>3 DEF Crawl, BeginSource, SkipSource, BeginRoot, SearchFails, Search, StopAtLimit,
                      FetchPage, FetchSeed, EndBatch, SaveCheckpoint, rowVars
  <2>4. CASE Settle
    BY <2>2, <2>4 DEF Settle, Judge, SourcesDone, Archive, Ingest, IngestRaises, Embed,
                      AdvanceCursor, ClearCheckpoints, Return, rowVars
  <2>5. CASE Crash
    BY <2>5 DEF Crash
  <2> QED
    BY <2>3, <2>4, <2>5 DEF Next, Edit, Delete, StartSync, StartInventory
<1> QED
  BY <1>1, <1>2, StagedStep, TypeCorrect, PTL DEF Spec, PartialRunsKeepWindow

-----------------------------------------------------------------------------
(* What MapSync may lose: an edit is skipped only for a reason `missed'      *)
(* records.                                                                  *)

(* Listings and their windows.  A listing is a finite set of page ids; the  *)
(* rank of a page is the number of pages before it.                         *)

Below(S, p) == {q \in S : q < p}
Rank(S, p)  == Cardinality(Below(S, p))

\* Ranks are below the length of the listing, and grow with the page id.
LEMMA RanksGrow ==
  ASSUME NEW S \in SUBSET Nat, IsFiniteSet(S)
  PROVE  /\ \A p \in S : Rank(S, p) \in 0 .. Cardinality(S) - 1
         /\ \A p, q \in S : p < q => Rank(S, p) < Rank(S, q)
<1>1. Cardinality(S) \in Nat
  BY FS_CardinalityType
<1>2. ASSUME NEW p \in S PROVE IsFiniteSet(Below(S, p)) /\ Rank(S, p) \in Nat
  <2>1. Below(S, p) \in SUBSET S
    BY DEF Below
  <2>2. IsFiniteSet(Below(S, p))
    BY <2>1, FS_Subset
  <2> QED
    BY <2>2, FS_CardinalityType DEF Rank
<1>3. ASSUME NEW p \in S PROVE Rank(S, p) \in 0 .. Cardinality(S) - 1
  <2>1. Below(S, p) \in SUBSET S /\ Below(S, p) # S
    BY DEF Below
  <2>2. /\ Cardinality(Below(S, p)) <= Cardinality(S)
        /\ Cardinality(S) # Cardinality(Below(S, p))
    BY <2>1, FS_Subset
  <2> QED
    BY <1>1, <1>2, <2>2 DEF Rank
<1>4. ASSUME NEW p \in S, NEW q \in S, p < q PROVE Rank(S, p) < Rank(S, q)
  <2>0. p \in Nat /\ q \in Nat /\ \A x \in S : x \in Nat
    OBVIOUS
  <2>1. Below(S, p) \in SUBSET Below(S, q) /\ Below(S, p) # Below(S, q)
    <3>1. \A x \in Below(S, p) : x \in Below(S, q)
      BY <1>4, <2>0 DEF Below
    <3>2. p \in Below(S, q) /\ p \notin Below(S, p)
      BY <1>4, <2>0 DEF Below
    <3> QED
      BY <3>1, <3>2
  <2>2. /\ Cardinality(Below(S, p)) <= Cardinality(Below(S, q))
        /\ Cardinality(Below(S, q)) # Cardinality(Below(S, p))
    BY <1>2, <2>1, FS_Subset
  <2> QED
    BY <1>2, <2>2 DEF Rank
<1> QED
  BY <1>3, <1>4

\* Different pages have different ranks, ...
LEMMA RanksDiffer ==
  ASSUME NEW S \in SUBSET Nat, IsFiniteSet(S), NEW p \in S, NEW q \in S, Rank(S, p) = Rank(S, q)
  PROVE  p = q
<1>1. p \in Nat /\ q \in Nat /\ Rank(S, p) \in Nat
  BY RanksGrow
<1>2. ~(p < q) /\ ~(q < p)
  BY <1>1, RanksGrow
<1> QED
  BY <1>1, <1>2

\* ... and every rank below the length of the listing is some page's.
LEMMA RanksFill ==
  ASSUME NEW S \in SUBSET Nat, IsFiniteSet(S), NEW k \in 0 .. Cardinality(S) - 1
  PROVE  \E p \in S : Rank(S, p) = k
<1> DEFINE T == 0 .. Cardinality(S) - 1
           f == [p \in S |-> Rank(S, p)]
<1>1. Cardinality(S) \in Nat
  BY FS_CardinalityType
<1>2. IsFiniteSet(T) /\ Cardinality(T) = Cardinality(S)
  BY <1>1, FS_Interval
<1>3. f \in [S -> T]
  BY RanksGrow
<1>4. f \in Injection(S, T)
  <2>1. \A p, q \in S : f[p] = f[q] => p = q
    BY RanksDiffer
  <2> QED
    BY <1>3, <2>1 DEF Injection, IsInjective
<1>5. f \in Surjection(S, T)
  BY <1>2, <1>4, FS_Injection
<1>6. k \in T
  OBVIOUS
<1>7. \E p \in S : f[p] = k
  BY <1>5, <1>6 DEF Surjection
<1> QED
  BY <1>7

\* A page at or beyond the start of a window is in the window, or the window is
\* a full one and the page is beyond its end.
LEMMA WindowTakes ==
  ASSUME NEW S \in SUBSET Nat, IsFiniteSet(S), NEW start \in Nat,
         NEW p \in S, Rank(S, p) >= start
  PROVE  /\ Window(S, start) # {}
         /\ \/ p \in Window(S, start)
            \/ /\ Cardinality(Window(S, start)) = PageSize
               /\ Rank(S, p) >= start + PageSize
<1>0. PageSize \in Nat /\ PageSize >= 1
  BY MapAssumption
<1>1. Cardinality(S) \in Nat /\ Rank(S, p) \in 0 .. Cardinality(S) - 1
  BY RanksGrow, FS_CardinalityType
<1>2. Window(S, start) = {q \in S : Rank(S, q) \in start .. start + PageSize - 1}
  BY DEF Window, Rank, Below
<1>3. Window(S, start) # {}
  <2>1. start \in 0 .. Cardinality(S) - 1
    BY <1>1
  <2>2. PICK q \in S : Rank(S, q) = start
    BY <2>1, RanksFill
  <2>3. Rank(S, q) \in start .. start + PageSize - 1
    BY <1>0, <2>2
  <2> QED
    BY <1>2, <2>3
<1>4. CASE Rank(S, p) < start + PageSize
  <2>1. Rank(S, p) \in start .. start + PageSize - 1
    BY <1>0, <1>1, <1>4
  <2> QED
    BY <1>2, <1>3, <2>1
<1>5. CASE Rank(S, p) >= start + PageSize
  <2> DEFINE W == Window(S, start)
             I == start .. start + PageSize - 1
             f == [q \in W |-> Rank(S, q)]
  <2>1. W \subseteq S /\ IsFiniteSet(W)
    BY <1>2, FS_Subset
  <2>2. f \in [W -> I]
    BY <1>2
  <2>3. \A q, r \in W : f[q] = f[r] => q = r
    BY <2>1, RanksDiffer
  <2>4. \A k \in I : \E q \in W : f[q] = k
    <3> SUFFICES ASSUME NEW k \in I PROVE \E q \in W : f[q] = k
      OBVIOUS
    <3>1. k \in 0 .. Cardinality(S) - 1
      BY <1>0, <1>1, <1>5
    <3>2. PICK q \in S : Rank(S, q) = k
      BY <3>1, RanksFill
    <3>3. q \in W
      BY <1>2, <3>2
    <3> QED
      BY <3>2, <3>3
  <2>5. f \in Bijection(W, I)
    BY <2>2, <2>3, <2>4 DEF Bijection, Injection, Surjection, IsInjective
  <2>6. Cardinality(I) = Cardinality(W)
    BY <2>1, <2>5, FS_Bijection DEF ExistsBijection
  <2>7. Cardinality(I) = PageSize
    BY <1>0, FS_Interval
  <2> QED
    BY <1>3, <1>5, <2>6, <2>7
<1> QED
  BY <1>0, <1>1, <1>4, <1>5

-----------------------------------------------------------------------------
(* What each step does to the locals of the run.                            *)

\* The call, and the sources it has still to crawl and to commit.
Carried    == SameCall /\ run'.started = run.started /\ run'.ingest = run.ingest
SameQueue  == Carried /\ run'.todo = run.todo /\ run'.staged = run.staged
SameSource == /\ SameQueue
              /\ run'.src = run.src /\ run'.since = run.since /\ run'.prev = run.prev
SameErrors == run'.failed = run.failed /\ run'.rootfailed = run.rootfailed

LEMMA BeginSourceDoes ==
  ASSUME TypeOK, NEW s \in Source, BeginSource(s)
  PROVE  /\ Carried /\ SameErrors /\ run'.staged = run.staged /\ run'.wrote = run.wrote
         /\ run'.pc = "root" /\ run'.src = s /\ run'.todo = run.todo \ {s}
         /\ run'.since = Since(s) /\ run'.seeds = SeedsDue(s)
         /\ run'.roots = (IF run.only = None THEN RootsOf(s) ELSE {run.only})
         /\ run'.prev = {p \in PagesOf(s) : doc[p] # Never /\ status[p] = "active"}
<1>1. run \in RunType
  BY DEF TypeOK
<1>2. PICK i, R, S, P :
        /\ run' = [run EXCEPT !.pc = "root", !.src = s, !.todo = @ \ {s},
                              !.since = i, !.roots = R, !.seeds = S, !.prev = P]
        /\ i = Since(s) /\ S = SeedsDue(s)
        /\ R = IF run.only = None THEN RootsOf(s) ELSE {run.only}
        /\ P = {p \in PagesOf(s) : doc[p] # Never /\ status[p] = "active"}
  BY DEF BeginSource
<1> QED
  BY <1>1, <1>2 DEF Carried, SameCall, SameErrors, RunType

LEMMA SkipSourceDoes ==
  ASSUME TypeOK, NEW s \in Source, SkipSource(s)
  PROVE  /\ Carried /\ SameErrors /\ run'.staged = run.staged /\ run'.wrote = run.wrote
         /\ run'.pc = "source" /\ run'.todo = run.todo \ {s}
BY DEF TypeOK, SkipSource, Carried, SameCall, SameErrors, RunType

LEMMA BeginRootDoes ==
  ASSUME TypeOK, NEW r \in Root, BeginRoot(r)
  PROVE  /\ SameSource /\ SameErrors /\ run'.wrote = run.wrote /\ run'.seeds = run.seeds
         /\ run'.roots = run.roots \ {r}
         /\ \/ run'.pc = "root" /\ UseCheckpoint /\ ckpt[r] = Done
            \/ /\ run'.pc = "search" /\ run'.root = r /\ ~(UseCheckpoint /\ ckpt[r] = Done)
               /\ run'.start = IF UseCheckpoint THEN ckpt[r] ELSE 0
<1>1. run \in RunType
  BY DEF TypeOK
<1>2. CASE UseCheckpoint /\ ckpt[r] = Done
  BY <1>1, <1>2 DEF BeginRoot, SameSource, SameQueue, Carried, SameCall, SameErrors, RunType
<1>3. CASE ~(UseCheckpoint /\ ckpt[r] = Done)
  <2>1. PICK k : /\ k = IF UseCheckpoint THEN ckpt[r] ELSE 0
                 /\ run' = [run EXCEPT !.pc = "search", !.roots = @ \ {r}, !.root = r,
                                       !.start = k, !.seen = {}, !.inroot = 0]
    BY <1>3 DEF BeginRoot
  <2> QED
    BY <1>1, <1>3, <2>1 DEF SameSource, SameQueue, Carried, SameCall, SameErrors, RunType
<1> QED
  BY <1>2, <1>3

LEMMA LeaveDoes ==
  ASSUME TypeOK, LeaveRoot(run)
  PROVE  /\ SameSource /\ SameErrors /\ run'.wrote = run.wrote /\ run'.seeds = run.seeds
         /\ run'.pc = "root" /\ run'.roots = run.roots
BY DEF TypeOK, LeaveRoot, SameSource, SameQueue, Carried, SameCall, SameErrors, RunType

LEMMA ErrorDoes ==
  ASSUME TypeOK, LeaveRoot(RootError)
  PROVE  /\ SameSource /\ run'.wrote = run.wrote /\ run'.seeds = run.seeds
         /\ run'.pc = "root" /\ run'.roots = run.roots
         /\ run'.rootfailed /\ run'.failed = run.failed + 1
<1>1. run \in RunType
  BY DEF TypeOK
<1>2. PICK n, m : /\ n = run.failed + 1
                  /\ RootError = [run EXCEPT !.rootfailed = TRUE, !.failed = n, !.tried = m]
  BY DEF RootError
<1> QED
  BY <1>1, <1>2 DEF LeaveRoot, SameSource, SameQueue, Carried, SameCall, RunType

\* The window a search request answers with.
Results == Window(Listing(run.root, run.since), run.start)

\* A search leaves the root, its listing exhausted or in error, or goes on to fetch.
LEMMA SearchDoes ==
  ASSUME TypeOK, Search
  PROVE  \/ LeaveRoot(run) /\ Results = {} /\ SaveCheckpoint(Done)
         \/ LeaveRoot(RootError) /\ ckpt' = ckpt
         \/ /\ SameSource /\ SameErrors /\ run'.wrote = run.wrote /\ run'.seeds = run.seeds
            /\ run'.pc = "fetch" /\ run'.roots = run.roots
            /\ run'.root = run.root /\ run'.start = run.start
            /\ run'.batch = Results /\ run'.full = (Cardinality(Results) = PageSize)
            /\ ckpt' = ckpt
<1>1. run \in RunType
  BY DEF TypeOK
<1>2. \/ LeaveRoot(run) /\ Results = {} /\ SaveCheckpoint(Done)
      \/ LeaveRoot(RootError) /\ ckpt' = ckpt
      \/ /\ run' = [run EXCEPT !.pc = "fetch", !.batch = Results, !.seen = @ \cup Results,
                               !.full = Cardinality(Results) = PageSize]
         /\ ckpt' = ckpt
  BY DEF Search, Results, RootError
<1>3. ASSUME run' = [run EXCEPT !.pc = "fetch", !.batch = Results, !.seen = @ \cup Results,
                                !.full = Cardinality(Results) = PageSize]
      PROVE  /\ SameSource /\ SameErrors /\ run'.wrote = run.wrote /\ run'.seeds = run.seeds
             /\ run'.pc = "fetch" /\ run'.roots = run.roots
             /\ run'.root = run.root /\ run'.start = run.start
             /\ run'.batch = Results /\ run'.full = (Cardinality(Results) = PageSize)
  <2>1. PICK b, R, S : /\ b = (Cardinality(Results) = PageSize) /\ R = Results
                       /\ run' = [run EXCEPT !.pc = "fetch", !.batch = R, !.seen = S, !.full = b]
    BY <1>3
  <2> QED
    BY <1>1, <2>1 DEF SameSource, SameQueue, Carried, SameCall, SameErrors, RunType
<1> QED
  BY <1>2, <1>3

LEMMA PageDoes ==
  ASSUME TypeOK, NEW p \in Page, WritePage(p) \/ PageFails(p)
  PROVE  /\ SameSource /\ run'.pc = run.pc /\ run'.roots = run.roots
         /\ run'.root = run.root /\ run'.start = run.start /\ run'.full = run.full
         /\ run'.batch = run.batch \ {p} /\ run'.seeds = run.seeds \ {p}
         /\ \/ WritePage(p) /\ SameErrors /\ run'.wrote = run.wrote \cup {p}
            \/ PageFails(p) /\ run'.wrote = run.wrote /\ run'.failed = run.failed + 1 /\ run'.rootfailed = run.rootfailed
<1>1. run \in RunType
  BY DEF TypeOK
<1>2. CASE WritePage(p)
  <2>1. PICK n, m : run' = [run EXCEPT !.batch = @ \ {p}, !.seeds = @ \ {p}, !.wrote = @ \cup {p},
                                       !.tried = n, !.inroot = m]
    BY <1>2 DEF WritePage
  <2> QED
    BY <1>1, <1>2, <2>1 DEF SameSource, SameQueue, Carried, SameCall, SameErrors, RunType
<1>3. CASE PageFails(p)
  <2>1. PICK n, m : /\ m = run.failed + 1
                    /\ run' = [run EXCEPT !.batch = @ \ {p}, !.seeds = @ \ {p}, !.tried = n, !.failed = m]
    BY <1>3 DEF PageFails
  <2> QED
    BY <1>1, <1>3, <2>1 DEF SameSource, SameQueue, Carried, SameCall, RunType
<1> QED
  BY <1>2, <1>3

\* After a window the next one is searched for, or the root is over.
LEMMA EndBatchDoes ==
  ASSUME TypeOK, EndBatch
  PROVE  \/ LeaveRoot(run) /\ ~run.full /\ SaveCheckpoint(Done)
         \/ /\ SameSource /\ SameErrors /\ run'.wrote = run.wrote /\ run'.seeds = run.seeds
            /\ run'.pc = "search" /\ run'.roots = run.roots
            /\ run'.root = run.root /\ run'.start = NextOffset
            /\ run.full /\ SaveCheckpoint(NextOffset)
<1>1. run \in RunType
  BY DEF TypeOK
<1>2. CASE run.full
  <2>1. PICK k : k = NextOffset /\ run' = [run EXCEPT !.pc = "search", !.batch = {}, !.start = k]
    BY <1>2 DEF EndBatch
  <2>2. SaveCheckpoint(NextOffset)
    BY <1>2 DEF EndBatch
  <2> QED
    BY <1>1, <1>2, <2>1, <2>2 DEF SameSource, SameQueue, Carried, SameCall, SameErrors, RunType
<1>3. CASE ~run.full
  BY <1>3 DEF EndBatch
<1> QED
  BY <1>2, <1>3

LEMMA JudgeDoes ==
  ASSUME TypeOK, Judge
  PROVE  /\ Carried /\ run'.todo = run.todo /\ run'.pc = "source"
         /\ \/ run'.staged = run.staged
            \/ /\ run'.staged = run.staged \cup {run.src}
               /\ ~run.dry /\ UseCheckpoint /\ ~run.rootfailed
<1>1. run \in RunType
  BY DEF TypeOK
<1>2. PICK S : /\ run' = [run EXCEPT !.pc = "source", !.src = None, !.prev = {}, !.wrote = {},
                                   !.tried = 0, !.failed = 0, !.rootfailed = FALSE, !.staged = S]
               /\ \/ S = run.staged
                  \/ S = run.staged \cup {run.src} /\ ~run.dry /\ UseCheckpoint /\ ~run.rootfailed
  BY DEF Judge, UseCheckpoint, ErrorsAllowAdvance
<1> QED
  BY <1>1, <1>2 DEF Carried, SameCall, RunType

\* Between the crawl and the commit the run only moves on, or ends.
LEMMA SettleDoes ==
  ASSUME TypeOK, SourcesDone \/ Archive \/ Ingest \/ Embed
  PROVE  \/ run' = NoRun
         \/ SameQueue /\ run'.pc \in {"ingest", "embed", "commit", "report"}
<1>1. run \in RunType
  BY DEF TypeOK
<1>2. CASE run' # NoRun
  <2>1. CASE Archive
    <3>1. PICK l \in {"ingest", "embed", "commit", "report"} : run' = [run EXCEPT !.pc = l, !.archived = Gone]
      BY <2>1 DEF Archive
    <3> QED
      BY <1>1, <3>1 DEF SameQueue, Carried, SameCall, RunType
  <2>2. CASE SourcesDone \/ Ingest \/ Embed
    <3>1. PICK l \in {"ingest", "embed", "commit", "report"} : run' = [run EXCEPT !.pc = l]
      BY <1>2, <2>2 DEF SourcesDone, AfterCrawl, Ingest, Embed, Goto
    <3> QED
      BY <1>1, <3>1 DEF SameQueue, Carried, SameCall, RunType
  <2> QED
    BY <2>1, <2>2
<1> QED
  BY <1>2

LEMMA CommitDoes ==
  ASSUME TypeOK, NEW s \in Source, AdvanceCursor(s)
  PROVE  /\ Carried /\ run'.todo = run.todo
         /\ run'.pc = "clear" /\ run'.src = s /\ run'.staged = run.staged \ {s}
BY DEF TypeOK, AdvanceCursor, Carried, SameCall, RunType

LEMMA ClearDoes ==
  ASSUME TypeOK, ClearCheckpoints
  PROVE  SameQueue /\ run'.pc = "commit"
BY DEF TypeOK, ClearCheckpoints, SameQueue, Carried, SameCall, RunType

\* A call starts with nothing staged.
LEMMA StartDoes ==
  ASSUME \/ \E o \in SyncOption : StartSync(o)
         \/ \E s \in Source, o \in InvOption : StartInventory(s, o)
  PROVE  /\ run'.pc = "source" /\ run'.staged = {} /\ run'.started = now
         /\ run'.failed = 0 /\ run'.wrote = {}
         /\ run'.inv => run'.limit = 0 /\ run'.only = None
<1>1. ASSUME NEW o \in SyncOption, StartSync(o)
      PROVE  /\ run'.pc = "source" /\ run'.staged = {} /\ run'.started = now
             /\ run'.failed = 0 /\ run'.wrote = {} /\ run'.inv = FALSE
  BY <1>1 DEF StartSync, NoRun
<1>2. ASSUME NEW s \in Source, NEW o \in InvOption, StartInventory(s, o)
      PROVE  /\ run'.pc = "source" /\ run'.staged = {} /\ run'.started = now
             /\ run'.failed = 0 /\ run'.wrote = {} /\ run'.limit = 0 /\ run'.only = None
  BY <1>2 DEF StartInventory, NoRun
<1> QED
  BY <1>1, <1>2

-----------------------------------------------------------------------------
(* What the pipeline still owes, and what stands for it.                    *)

SourceAbove(p) == SourceOf[RootOf[p]]

\* An edit under a root that is not on disk and not given up: something must
\* still bring it in.
Owed(p) == p \in alive /\ RootOf[p] # None /\ raw[p] # wiki[p] /\ p \notin missed

\* An edit made since the first run of the cycle: the next cycle lists it.
Late(p) == wiki[p] > cycle[SourceAbove(p)]

\* The number of pages listed before p.
Before(p, since) == Rank(Listing(RootOf[p], since), p)

\* Cursors and cycles are times that have been.
ClockAhead == run.started <= now /\ \A s \in Source : cursor[s] <= now /\ cycle[s] <= now

\* What is owed is after the cursor, so that a search from the cursor lists it; ...
AfterCursor == \A p \in Page : Owed(p) => wiki[p] > cursor[SourceAbove(p)]

\* ... a root that is done owes late edits only; ...
DoneIsDone == \A p \in Page : Owed(p) /\ ckpt[RootOf[p]] = Done => Late(p)

\* ... and a root that is to be resumed owes nothing before its offset but these.
OffsetBehind == \A p \in Page : Owed(p) /\ ckpt[RootOf[p]] > 0 =>
                  Late(p) \/ Before(p, cursor[SourceAbove(p)]) >= ckpt[RootOf[p]]

Debt == AfterCursor /\ DoneIsDone /\ OffsetBehind

InCrawl == run.pc \in {"root", "search", "fetch"}
InRoot  == run.pc \in {"search", "fetch"}

\* The source in hand is neither waiting nor staged, and its listing starts
\* where the source's window does.
Position ==
  /\ InCrawl => /\ run.src \notin run.todo \cup run.staged
                /\ run.roots \subseteq RootsOf(run.src)
                /\ run.prev \subseteq PagesOf(run.src)
                /\ run.since = Since(run.src)
  /\ InRoot => run.root \in RootsOf(run.src)
  /\ run.pc = "clear" => run.src \notin run.staged
  /\ run.staged \cap run.todo = {}
  /\ run.inv => run.limit = 0 /\ run.only = None

\* Every root of a staged source is done, ...
StagedDone == \A s \in run.staged : \A r \in RootsOf(s) : ckpt[r] = Done

\* ... since each was done before, or is crawled before the source is judged.
RootsAccounted ==
  InCrawl /\ UseCheckpoint /\ ~run.rootfailed =>
    \A r \in RootsOf(run.src) : r \in run.roots \/ (InRoot /\ r = run.root) \/ ckpt[r] = Done

\* The checkpoint of the root in hand is the offset of the window in hand, ...
InHand == InRoot /\ UseCheckpoint => ckpt[run.root] = run.start

\* ... and what the root owes is late, in the window, or beyond it.
InBatch ==
  run.pc = "fetch" /\ UseCheckpoint =>
    \A p \in Page : Owed(p) /\ RootOf[p] = run.root =>
      Late(p) \/ p \in run.batch \/ (run.full /\ Before(p, run.since) >= run.start + PageSize)

CrawlAccounts == StagedDone /\ RootsAccounted /\ InHand /\ InBatch

-----------------------------------------------------------------------------
(* The clock and the position of the run.                                   *)

LEMMA ClockStep == TypeOK /\ ClockAhead /\ [Next]_vars => ClockAhead'
<1> SUFFICES ASSUME TypeOK, ClockAhead, [Next]_vars PROVE ClockAhead'
  OBVIOUS
<1>0. /\ now \in Nat /\ run.started \in Nat /\ Margin \in Nat /\ run.started <= now
      /\ \A s \in Source : cursor[s] \in Int /\ cycle[s] \in Nat /\ cursor[s] <= now /\ cycle[s] <= now
      /\ cursor \in [Source -> Int] /\ cycle \in [Source -> Nat]
  BY MapAssumption DEF TypeOK, RunType, ClockAhead
<1>1. ASSUME NEW p \in Page, Edit(p) PROVE ClockAhead'
  BY <1>0, <1>1 DEF Edit, ClockAhead, rowVars
<1>2. ASSUME now' = now, cursor' = cursor, cycle' = cycle,
             run'.started = run.started \/ run'.started = now \/ run' = NoRun
      PROVE  ClockAhead'
  BY <1>0, <1>2 DEF ClockAhead, NoRun
<1>3. ASSUME NEW s \in Source, BeginSource(s) PROVE ClockAhead'
  <2>1. run'.started = run.started /\ now' = now /\ cursor' = cursor
    BY <1>3, BeginSourceDoes DEF Carried, BeginSource, wikiVars, rowVars
  <2>2. cycle' = cycle \/ cycle' = [cycle EXCEPT ![s] = run.started]
    BY <1>3 DEF BeginSource
  <2> QED
    BY <1>0, <2>1, <2>2 DEF ClockAhead
<1>4. ASSUME NEW s \in Source, AdvanceCursor(s) PROVE ClockAhead'
  <2>1. /\ run'.started = run.started /\ now' = now /\ cycle' = cycle
        /\ cursor' = [cursor EXCEPT ![s] = run.started - Margin]
    BY <1>4, CommitDoes DEF Carried, AdvanceCursor, NewCursor, wikiVars
  <2> QED
    BY <1>0, <2>1 DEF ClockAhead
<1>5. CASE Crawl /\ ~(\E s \in Source : BeginSource(s))
  <2>1. now' = now /\ cursor' = cursor /\ cycle' = cycle
    BY <1>5 DEF Crawl, SkipSource, BeginRoot, SearchFails, Search, StopAtLimit, FetchPage, FetchSeed,
                EndBatch, wikiVars, rowVars
  <2>2. run'.started = run.started
    <3>1. ASSUME NEW s \in Source, SkipSource(s) PROVE run'.started = run.started
      BY <3>1, SkipSourceDoes DEF Carried
    <3>2. ASSUME NEW r \in Root, BeginRoot(r) PROVE run'.started = run.started
      BY <3>2, BeginRootDoes DEF SameSource, SameQueue, Carried
    <3>3. ASSUME LeaveRoot(run) \/ LeaveRoot(RootError) PROVE run'.started = run.started
      BY <3>3, LeaveDoes, ErrorDoes DEF SameSource, SameQueue, Carried
    <3>4. ASSUME NEW p \in Page, WritePage(p) \/ PageFails(p) PROVE run'.started = run.started
      BY <3>4, PageDoes DEF SameSource, SameQueue, Carried
    <3>5. CASE Search
      BY <3>3, <3>5, SearchDoes DEF SameSource, SameQueue, Carried
    <3>6. CASE EndBatch
      BY <3>3, <3>6, EndBatchDoes DEF SameSource, SameQueue, Carried
    <3> QED
      BY <1>5, <3>1, <3>2, <3>3, <3>4, <3>5, <3>6
         DEF Crawl, SearchFails, StopAtLimit, FetchPage, FetchSeed, RootError
  <2> QED
    BY <1>2, <2>1, <2>2
<1>6. CASE Settle /\ ~(\E s \in Source : AdvanceCursor(s))
  <2>1. now' = now /\ cursor' = cursor /\ cycle' = cycle
    BY <1>6 DEF Settle, Judge, SourcesDone, Archive, Ingest, IngestRaises, Embed, ClearCheckpoints,
                Return, wikiVars, rowVars
  <2>2. run'.started = run.started \/ run' = NoRun
    BY <1>6, JudgeDoes, SettleDoes, ClearDoes DEF Settle, SameQueue, Carried, IngestRaises, Return
  <2> QED
    BY <1>2, <2>1, <2>2
<1>7. CASE (\E o \in SyncOption : StartSync(o)) \/ (\E s \in Source, o \in InvOption : StartInventory(s, o))
  <2>1. now' = now /\ cursor' = cursor /\ cycle' = cycle
    BY <1>7 DEF StartSync, StartInventory, wikiVars, rowVars
  <2> QED
    BY <1>2, <1>7, <2>1, StartDoes
<1>8. CASE Crash
  BY <1>2, <1>8 DEF Crash, wikiVars, rowVars
<1>9. ASSUME NEW p \in Page, Delete(p) PROVE ClockAhead'
  BY <1>2, <1>9 DEF Delete, rowVars
<1>10. CASE UNCHANGED vars
  BY <1>2, <1>10 DEF vars, wikiVars, rowVars
<1> QED
  BY <1>1, <1>3, <1>4, <1>5, <1>6, <1>7, <1>8, <1>9, <1>10 DEF Next

\* Where the run is, and that an inventory takes everything.
LEMMA PositionStep == TypeOK /\ Position /\ [Next]_vars => Position'
<1> SUFFICES ASSUME TypeOK, Position, [Next]_vars PROVE Position'
  OBVIOUS
<1>1. ASSUME run' = run, cursor' = cursor PROVE Position'
  BY <1>1 DEF Position, InCrawl, InRoot, Since
<1>2. ASSUME run' = NoRun PROVE Position'
  BY <1>2 DEF Position, InCrawl, InRoot, NoRun
<1>3. ASSUME SameSource, cursor' = cursor, run'.roots \subseteq run.roots, InCrawl,
             run'.pc = "root" \/ (run'.pc \in {"search", "fetch"} /\ run'.root \in RootsOf(run.src))
      PROVE  Position'
  BY <1>3 DEF Position, InCrawl, InRoot, Since, SameSource, SameQueue, Carried, SameCall
<1>4. ASSUME SameQueue, run'.pc \in {"ingest", "embed", "commit", "report"} PROVE Position'
  BY <1>4 DEF Position, InCrawl, InRoot, SameQueue, Carried, SameCall
<1>5. ASSUME NEW s \in Source, BeginSource(s) PROVE Position'
  <2>1. /\ run'.inv = run.inv /\ run'.limit = run.limit /\ run'.only = run.only
        /\ run'.pc = "root" /\ run'.src = s /\ run'.todo = run.todo \ {s} /\ run'.staged = run.staged
        /\ run'.since = Since(s) /\ cursor' = cursor /\ s \in run.todo
    BY <1>5, BeginSourceDoes DEF Carried, SameCall, BeginSource, rowVars
  <2>2. run'.roots \subseteq RootsOf(s)
    <3>1. run'.roots = (IF run.only = None THEN RootsOf(s) ELSE {run.only})
      BY <1>5, BeginSourceDoes
    <3>2. run.only # None => run.only \in RootsOf(s)
      BY <1>5 DEF BeginSource
    <3> QED
      BY <3>1, <3>2
  <2>3. run'.prev \subseteq PagesOf(s)
    BY <1>5, BeginSourceDoes
  <2> QED
    BY <2>1, <2>2, <2>3 DEF Position, InCrawl, InRoot, Since
<1>6. ASSUME NEW s \in Source, SkipSource(s) PROVE Position'
  <2>1. /\ SameCall /\ run'.pc = "source" /\ run'.todo = run.todo \ {s} /\ run'.staged = run.staged
    BY <1>6, SkipSourceDoes DEF Carried
  <2> QED
    BY <2>1 DEF Position, InCrawl, InRoot, SameCall
<1>7. ASSUME NEW r \in Root, BeginRoot(r) PROVE Position'
  <2>1. cursor' = cursor /\ run.pc = "root" /\ r \in run.roots /\ r \in RootsOf(run.src)
    BY <1>7 DEF BeginRoot, rowVars, Position, InCrawl
  <2> QED
    BY <1>3, <1>7, <2>1, BeginRootDoes DEF InCrawl
<1>8. ASSUME LeaveRoot(run) \/ LeaveRoot(RootError), InRoot, cursor' = cursor PROVE Position'
  BY <1>3, <1>8, LeaveDoes, ErrorDoes DEF InCrawl, InRoot
<1>9. CASE Search
  <2>1. cursor' = cursor /\ InRoot /\ run.root \in RootsOf(run.src)
    BY <1>9 DEF Search, InRoot, Position
  <2> QED
    BY <1>3, <1>8, <1>9, <2>1, SearchDoes DEF InCrawl, InRoot
<1>10. CASE SearchFails \/ StopAtLimit
  BY <1>8, <1>10 DEF SearchFails, StopAtLimit, RootError, InRoot, rowVars
<1>11. ASSUME NEW p \in Page, FetchPage(p) \/ FetchSeed(p) PROVE Position'
  <2>1. /\ cursor' = cursor /\ run.pc \in {"root", "fetch"} /\ (WritePage(p) \/ PageFails(p))
        /\ run.pc = "fetch" => run.root \in RootsOf(run.src)
    BY <1>11 DEF FetchPage, FetchSeed, rowVars, Position, InRoot
  <2> QED
    <3>1. SameSource /\ run'.pc = run.pc /\ run'.roots = run.roots /\ run'.root = run.root
      BY <2>1, PageDoes
    <3> QED
      BY <1>3, <2>1, <3>1 DEF InCrawl
<1>12. CASE EndBatch
  <2>1. cursor' = cursor /\ InRoot /\ run.root \in RootsOf(run.src)
    BY <1>12 DEF EndBatch, InRoot, Position
  <2> QED
    BY <1>3, <1>8, <1>12, <2>1, EndBatchDoes DEF InCrawl, InRoot
<1>13. CASE Judge
  <2>1. /\ SameCall /\ run'.todo = run.todo /\ run'.pc = "source"
        /\ run'.staged \subseteq run.staged \cup {run.src} /\ run.src \notin run.todo
    BY <1>13, JudgeDoes DEF Carried, Judge, Crawled, Position, InCrawl
  <2> QED
    BY <2>1 DEF Position, InCrawl, InRoot, SameCall
<1>14. CASE SourcesDone \/ Archive \/ Ingest \/ Embed
  BY <1>2, <1>4, <1>14, SettleDoes
<1>15. ASSUME NEW s \in Source, AdvanceCursor(s) PROVE Position'
  <2>1. /\ SameCall /\ run'.todo = run.todo /\ run'.pc = "clear" /\ run'.src = s
        /\ run'.staged = run.staged \ {s}
    BY <1>15, CommitDoes DEF Carried
  <2> QED
    BY <2>1 DEF Position, InCrawl, InRoot, SameCall
<1>16. CASE ClearCheckpoints
  BY <1>4, <1>16, ClearDoes
<1>17. CASE IngestRaises \/ Return \/ Crash
  BY <1>2, <1>17 DEF IngestRaises, Return, Crash
<1>18. CASE (\E o \in SyncOption : StartSync(o)) \/ (\E s \in Source, o \in InvOption : StartInventory(s, o))
  BY <1>18, StartDoes DEF Position, InCrawl, InRoot
<1>19. ASSUME NEW p \in Page, Edit(p) \/ Delete(p) PROVE Position'
  BY <1>1, <1>19 DEF Edit, Delete, rowVars
<1>20. CASE UNCHANGED vars
  BY <1>1, <1>20 DEF vars, rowVars
<1> QED
  BY <1>5, <1>6, <1>7, <1>9, <1>10, <1>11, <1>12, <1>13, <1>14, <1>15, <1>16, <1>17, <1>18, <1>19, <1>20
     DEF Next, Crawl, Settle

-----------------------------------------------------------------------------
(* The debt.                                                                *)

\* A listing is a finite set of page ids.
LEMMA ListingFinite ==
  ASSUME TypeOK, NEW r, NEW since
  PROVE  Listing(r, since) \in SUBSET Nat /\ IsFiniteSet(Listing(r, since))
<1>1. Listing(r, since) \in SUBSET Page
  BY DEF Listing, TypeOK
<1>2. IsFiniteSet(Page) /\ Page \in SUBSET Nat
  BY MapAssumption
<1> QED
  BY <1>1, <1>2, FS_Subset

\* A listing that gains entries gains them before p too, or leaves p's rank.
LEMMA RankKept ==
  ASSUME NEW S \in SUBSET Nat, NEW T \in SUBSET Nat, IsFiniteSet(S), IsFiniteSet(T), NEW p,
         Below(S, p) \subseteq Below(T, p)
  PROVE  Rank(S, p) \in Nat /\ Rank(T, p) \in Nat /\ Rank(S, p) <= Rank(T, p)
<1>1. Below(T, p) \in SUBSET T /\ Below(S, p) \in SUBSET S /\ Below(S, p) \in SUBSET Below(T, p)
  BY DEF Below
<1>2. IsFiniteSet(Below(T, p)) /\ IsFiniteSet(Below(S, p))
  BY <1>1, FS_Subset
<1>3. Cardinality(Below(S, p)) <= Cardinality(Below(T, p))
  BY <1>1, <1>2, FS_Subset
<1> QED
  BY <1>2, <1>3, FS_CardinalityType DEF Rank

LEMMA BeforeNat ==
  ASSUME TypeOK, NEW p, NEW since
  PROVE  Before(p, since) \in Nat
<1>1. Listing(RootOf[p], since) \in SUBSET Nat /\ IsFiniteSet(Listing(RootOf[p], since))
  BY ListingFinite
<1> QED
  BY <1>1, RankKept DEF Before

\* Under a full synchronisation the root in hand, if it owes an edit of this
\* cycle, lists it at or after the offset in hand.
LEMMA DueAhead ==
  ASSUME TypeOK, Position, Debt, InHand, run.pc = "search", UseCheckpoint,
         NEW p \in Page, Owed(p), RootOf[p] = run.root, ~Late(p)
  PROVE  p \in Listing(run.root, run.since) /\ Before(p, run.since) >= run.start
<1>1. run.root \in RootsOf(run.src) /\ run.src \in Source /\ run.start \in Nat
  BY DEF Position, InRoot, TypeOK, RunType
<1>2. run.since = cursor[SourceAbove(p)]
  BY <1>1 DEF Position, InCrawl, Since, UseCheckpoint, RootsOf, SourceAbove
<1>3. p \in Listing(run.root, run.since)
  BY <1>2 DEF Debt, AfterCursor, Owed, Listing
<1>4. ckpt[RootOf[p]] = run.start
  BY DEF InHand, InRoot
<1>5. CASE run.start > 0
  BY <1>2, <1>3, <1>4, <1>5 DEF Debt, OffsetBehind
<1>6. CASE run.start = 0
  BY <1>3, <1>6, BeforeNat
<1> QED
  BY <1>1, <1>3, <1>5, <1>6

\* So the window that answers has it, or is full and stops before it.
LEMMA DueInWindow ==
  ASSUME TypeOK, Position, Debt, InHand, run.pc = "search", UseCheckpoint,
         NEW p \in Page, Owed(p), RootOf[p] = run.root, ~Late(p)
  PROVE  /\ Results # {}
         /\ p \in Results \/ (Cardinality(Results) = PageSize /\ Before(p, run.since) >= run.start + PageSize)
<1>1. p \in Listing(run.root, run.since) /\ Before(p, run.since) >= run.start
  BY DueAhead
<1>2. Listing(run.root, run.since) \in SUBSET Nat /\ IsFiniteSet(Listing(run.root, run.since))
  BY ListingFinite
<1>3. run.start \in Nat /\ Before(p, run.since) = Rank(Listing(run.root, run.since), p)
  BY DEF TypeOK, RunType, Before
<1> QED
  BY <1>1, <1>2, <1>3, WindowTakes DEF Results

\* A step that moves neither Confluence nor the rows, and owes nothing new.
LEMMA DebtKept ==
  ASSUME Debt, UNCHANGED <<wiki, alive, cursor, ckpt, cycle>>, \A p \in Page : Owed(p)' => Owed(p)
  PROVE  Debt'
<1>1. \A p \in Page : /\ Late(p)' = Late(p)
                      /\ Before(p, cursor[SourceAbove(p)])' = Before(p, cursor[SourceAbove(p)])
  BY DEF Late, Before, Listing, SourceAbove
<1> QED
  BY <1>1 DEF Debt, AfterCursor, DoneIsDone, OffsetBehind, SourceAbove

\* The listing after a step.
NextListing(r, since) == {q \in alive' : RootOf[q] = r /\ wiki'[q] > since}

\* An edit adds to the listings, and is in all of them.
LEMMA EditListing ==
  ASSUME TypeOK, NEW x \in Page, Edit(x), NEW r, NEW p, NEW since \in Int, since <= now
  PROVE  /\ Rank(Listing(r, since), p) \in Nat /\ Rank(NextListing(r, since), p) \in Nat
         /\ Rank(Listing(r, since), p) <= Rank(NextListing(r, since), p)
<1>1. Listing(r, since) \in SUBSET Nat /\ IsFiniteSet(Listing(r, since))
  BY ListingFinite
<1>2. NextListing(r, since) \in SUBSET Page /\ IsFiniteSet(Page) /\ Page \in SUBSET Nat
  BY MapAssumption DEF Edit, TypeOK, NextListing
<1>3. NextListing(r, since) \in SUBSET Nat /\ IsFiniteSet(NextListing(r, since))
  BY <1>2, FS_Subset
<1>4. Listing(r, since) \subseteq NextListing(r, since)
  BY DEF Listing, NextListing, Edit, TypeOK
<1>5. Below(Listing(r, since), p) \subseteq Below(NextListing(r, since), p)
  BY <1>4 DEF Below
<1> QED
  BY <1>1, <1>3, <1>5, RankKept

\* A deletion leaves the rank of what it does not give up.
LEMMA DeleteListing ==
  ASSUME TypeOK, NEW x \in Page, Delete(x), NEW since,
         NEW p \in Page, RootOf[p] # None, p \in alive', p \notin missed',
         run.root = RootOf[p] \/ ckpt[RootOf[p]] > 0
  PROVE  Rank(NextListing(RootOf[p], since), p) = Rank(Listing(RootOf[p], since), p)
<1>1. alive' = alive \ {x} /\ wiki' = wiki /\ p # x /\ x \in Nat /\ p \in Nat
  BY MapAssumption DEF Delete
<1>2. RootOf[x] = RootOf[p] => ~(p > x)
  BY DEF Delete
<1>3. RootOf[x] = RootOf[p] => ~(x < p)
  BY <1>1, <1>2
<1>4. Below(NextListing(RootOf[p], since), p) = Below(Listing(RootOf[p], since), p)
  BY <1>1, <1>3 DEF Below, Listing, NextListing
<1> QED
  BY <1>4 DEF Rank

\* What the debt is after the step of page p, spelled out.
LEMMA DebtOf ==
  ASSUME \A p \in Page : Owed(p)' =>
           /\ wiki'[p] > cursor'[SourceAbove(p)]
           /\ ckpt'[RootOf[p]] = Done => Late(p)'
           /\ ckpt'[RootOf[p]] > 0 =>
                \/ Late(p)'
                \/ Rank(NextListing(RootOf[p], cursor'[SourceAbove(p)]), p) >= ckpt'[RootOf[p]]
  PROVE  Debt'
<1>1. ASSUME NEW p \in Page
      PROVE  Before(p, cursor[SourceAbove(p)])' = Rank(NextListing(RootOf[p], cursor'[SourceAbove(p)]), p)
  BY DEF Before, Listing, NextListing, SourceAbove
<1> QED
  BY <1>1 DEF Debt, AfterCursor, DoneIsDone, OffsetBehind, SourceAbove

\* The source above a page under a root.
LEMMA SourceAboveIs ==
  ASSUME NEW p \in Page, RootOf[p] # None
  PROVE  SourceAbove(p) \in Source /\ RootOf[p] \in Root /\ \A s \in Source : (SourceAbove(p) = s <=> RootOf[p] \in RootsOf(s))
BY MapAssumption DEF SourceAbove, RootsOf

\* Confluence changes under the run.
LEMMA DebtEdit ==
  ASSUME TypeOK, ClockAhead, Debt, NEW x \in Page, Edit(x)
  PROVE  Debt'
<1>1. /\ cursor' = cursor /\ ckpt' = ckpt /\ cycle' = cycle /\ alive' = alive /\ raw' = raw /\ missed' = missed
      /\ wiki' = [wiki EXCEPT ![x] = now + 1] /\ now \in Nat /\ wiki \in [Page -> Nat]
  BY DEF Edit, rowVars, diskVars, TypeOK
<1>2. ASSUME NEW p \in Page, Owed(p)'
      PROVE  /\ wiki'[p] > cursor'[SourceAbove(p)]
             /\ ckpt'[RootOf[p]] = Done => Late(p)'
             /\ ckpt'[RootOf[p]] > 0 =>
                  \/ Late(p)'
                  \/ Rank(NextListing(RootOf[p], cursor'[SourceAbove(p)]), p) >= ckpt'[RootOf[p]]
  <2>1. RootOf[p] # None
    BY <1>2 DEF Owed
  <2>2. /\ SourceAbove(p) \in Source /\ RootOf[p] \in Root
        /\ cursor[SourceAbove(p)] \in Int /\ cursor[SourceAbove(p)] <= now
        /\ cycle[SourceAbove(p)] \in Nat /\ cycle[SourceAbove(p)] <= now
        /\ ckpt[RootOf[p]] \in Nat \cup {Done}
    BY <2>1, SourceAboveIs DEF TypeOK, ClockAhead
  <2>3. CASE p = x
    BY <1>1, <2>2, <2>3 DEF Late, SourceAbove
  <2>4. CASE p # x
    <3>1. Owed(p) /\ wiki'[p] = wiki[p]
      BY <1>1, <1>2, <2>4 DEF Owed
    <3>2. Late(p)' <=> Late(p)
      BY <1>1, <3>1 DEF Late, SourceAbove
    <3>3. /\ Before(p, cursor[SourceAbove(p)]) <= Rank(NextListing(RootOf[p], cursor[SourceAbove(p)]), p)
          /\ Before(p, cursor[SourceAbove(p)]) \in Nat
          /\ Rank(NextListing(RootOf[p], cursor[SourceAbove(p)]), p) \in Nat
      BY <2>2, EditListing DEF Before
    <3>4. /\ wiki[p] > cursor[SourceAbove(p)]
          /\ ckpt[RootOf[p]] = Done => Late(p)
          /\ ckpt[RootOf[p]] > 0 => Late(p) \/ Before(p, cursor[SourceAbove(p)]) >= ckpt[RootOf[p]]
      BY <3>1 DEF Debt, AfterCursor, DoneIsDone, OffsetBehind
    <3> QED
      BY <1>1, <2>2, <3>1, <3>2, <3>3, <3>4 DEF Done
  <2> QED
    BY <2>3, <2>4
<1> QED
  BY <1>2, DebtOf

LEMMA DebtDelete ==
  ASSUME TypeOK, Debt, NEW x \in Page, Delete(x)
  PROVE  Debt'
<1>1. /\ cursor' = cursor /\ ckpt' = ckpt /\ cycle' = cycle /\ wiki' = wiki /\ raw' = raw
      /\ alive' \subseteq alive /\ missed \subseteq missed'
  BY DEF Delete, rowVars, diskVars
<1>2. ASSUME NEW p \in Page, Owed(p)'
      PROVE  /\ wiki'[p] > cursor'[SourceAbove(p)]
             /\ ckpt'[RootOf[p]] = Done => Late(p)'
             /\ ckpt'[RootOf[p]] > 0 =>
                  \/ Late(p)'
                  \/ Rank(NextListing(RootOf[p], cursor'[SourceAbove(p)]), p) >= ckpt'[RootOf[p]]
  <2>1. Owed(p) /\ p \in alive' /\ p \notin missed' /\ RootOf[p] # None
    BY <1>1, <1>2 DEF Owed
  <2>2. Late(p)' <=> Late(p)
    BY <1>1 DEF Late, SourceAbove
  <2>3. /\ wiki[p] > cursor[SourceAbove(p)]
        /\ ckpt[RootOf[p]] = Done => Late(p)
        /\ ckpt[RootOf[p]] > 0 => Late(p) \/ Before(p, cursor[SourceAbove(p)]) >= ckpt[RootOf[p]]
    BY <2>1 DEF Debt, AfterCursor, DoneIsDone, OffsetBehind
  <2>4. ckpt[RootOf[p]] > 0 =>
          Rank(NextListing(RootOf[p], cursor[SourceAbove(p)]), p) = Before(p, cursor[SourceAbove(p)])
    BY <2>1, DeleteListing DEF Before
  <2> QED
    BY <1>1, <2>2, <2>3, <2>4
<1> QED
  BY <1>2, DebtOf

\* A source begins a cycle when none of its roots has a checkpoint.
LEMMA DebtBegin ==
  ASSUME TypeOK, Debt, NEW s \in Source, BeginSource(s)
  PROVE  Debt'
<1>1. /\ cursor' = cursor /\ ckpt' = ckpt /\ wiki' = wiki /\ raw' = raw /\ alive' = alive /\ missed' = missed
      /\ \/ cycle' = cycle
         \/ cycle' = [cycle EXCEPT ![s] = run.started] /\ \A r \in RootsOf(s) : ckpt[r] = 0
  BY DEF BeginSource, rowVars, diskVars, wikiVars
<1>2. ASSUME NEW p \in Page, Owed(p)'
      PROVE  /\ wiki'[p] > cursor'[SourceAbove(p)]
             /\ ckpt'[RootOf[p]] = Done => Late(p)'
             /\ ckpt'[RootOf[p]] > 0 =>
                  \/ Late(p)'
                  \/ Rank(NextListing(RootOf[p], cursor'[SourceAbove(p)]), p) >= ckpt'[RootOf[p]]
  <2>1. Owed(p) /\ RootOf[p] # None
    BY <1>1, <1>2 DEF Owed
  <2>2. SourceAbove(p) \in Source /\ (SourceAbove(p) = s => RootOf[p] \in RootsOf(s))
    BY <2>1, SourceAboveIs
  <2>3. /\ wiki[p] > cursor[SourceAbove(p)]
        /\ ckpt[RootOf[p]] = Done => Late(p)
        /\ ckpt[RootOf[p]] > 0 => Late(p) \/ Before(p, cursor[SourceAbove(p)]) >= ckpt[RootOf[p]]
    BY <2>1 DEF Debt, AfterCursor, DoneIsDone, OffsetBehind
  <2>4. ckpt[RootOf[p]] = 0 \/ cycle'[SourceAbove(p)] = cycle[SourceAbove(p)]
    BY <1>1, <2>2 DEF TypeOK
  <2>5. CASE ckpt[RootOf[p]] = 0
    BY <1>1, <2>3, <2>5 DEF Done
  <2>6. CASE cycle'[SourceAbove(p)] = cycle[SourceAbove(p)]
    <3>1. Late(p)' <=> Late(p)
      BY <1>1, <2>6 DEF Late, SourceAbove
    <3>2. Rank(NextListing(RootOf[p], cursor[SourceAbove(p)]), p) = Before(p, cursor[SourceAbove(p)])
      BY <1>1 DEF Before, Listing, NextListing
    <3> QED
      BY <1>1, <2>3, <3>1, <3>2
  <2> QED
    BY <2>4, <2>5, <2>6
<1> QED
  BY <1>2, DebtOf

\* A checkpoint may be saved once what its root owes is late or beyond it.
LEMMA DebtSave ==
  ASSUME TypeOK, Debt, NEW v \in Nat \cup {Done}, SaveCheckpoint(v), run.root \in Root,
         UNCHANGED <<wiki, alive, raw, cursor, cycle, missed>>,
         UseCheckpoint => \A p \in Page : Owed(p) /\ RootOf[p] = run.root =>
           Late(p) \/ (v # Done /\ Before(p, cursor[SourceAbove(p)]) >= v)
  PROVE  Debt'
<1>1. ASSUME NEW p \in Page, Owed(p)'
      PROVE  /\ wiki'[p] > cursor'[SourceAbove(p)]
             /\ ckpt'[RootOf[p]] = Done => Late(p)'
             /\ ckpt'[RootOf[p]] > 0 =>
                  \/ Late(p)'
                  \/ Rank(NextListing(RootOf[p], cursor'[SourceAbove(p)]), p) >= ckpt'[RootOf[p]]
  <2>1. Owed(p) /\ RootOf[p] # None
    BY <1>1 DEF Owed
  <2>2. RootOf[p] \in Root /\ ckpt \in [Root -> Nat \cup {Done}]
    BY <2>1, SourceAboveIs DEF TypeOK
  <2>3. /\ wiki[p] > cursor[SourceAbove(p)]
        /\ ckpt[RootOf[p]] = Done => Late(p)
        /\ ckpt[RootOf[p]] > 0 => Late(p) \/ Before(p, cursor[SourceAbove(p)]) >= ckpt[RootOf[p]]
    BY <2>1 DEF Debt, AfterCursor, DoneIsDone, OffsetBehind
  <2>4. Late(p)' <=> Late(p)
    BY DEF Late, SourceAbove
  <2>5. Rank(NextListing(RootOf[p], cursor[SourceAbove(p)]), p) = Before(p, cursor[SourceAbove(p)])
    BY DEF Before, Listing, NextListing
  <2>6. CASE ckpt'[RootOf[p]] = ckpt[RootOf[p]]
    BY <2>3, <2>4, <2>5, <2>6
  <2>7. CASE UseCheckpoint /\ RootOf[p] = run.root
    <3>1. ckpt'[RootOf[p]] = v
      BY <2>2, <2>7 DEF SaveCheckpoint
    <3>2. Late(p) \/ (v # Done /\ Before(p, cursor[SourceAbove(p)]) >= v)
      BY <2>1, <2>7
    <3> QED
      BY <2>3, <2>4, <2>5, <3>1, <3>2
  <2> QED
    BY <2>2, <2>6, <2>7 DEF SaveCheckpoint
<1> QED
  BY <1>1, DebtOf

\* A search that answers with nothing: its root is done.
LEMMA DebtSearch ==
  ASSUME TypeOK, Position, Debt, InHand, Search
  PROVE  Debt'
<1>1. /\ wiki' = wiki /\ alive' = alive /\ raw' = raw /\ cursor' = cursor /\ cycle' = cycle /\ missed' = missed
      /\ run.pc = "search" /\ run.root \in Root
  BY DEF Search, wikiVars, diskVars, TypeOK
<1>2. CASE Results = {} /\ SaveCheckpoint(Done)
  <2>1. UseCheckpoint => \A p \in Page : Owed(p) /\ RootOf[p] = run.root => Late(p)
    BY <1>1, <1>2, DueInWindow
  <2> QED
    BY <1>1, <1>2, <2>1, DebtSave
<1>3. CASE ckpt' = ckpt
  BY <1>1, <1>3, DebtKept DEF Owed
<1> QED
  BY <1>2, <1>3, SearchDoes

\* A window that is over: its root goes on after it, or is done.
LEMMA DebtEndBatch ==
  ASSUME TypeOK, Position, Debt, InBatch, EndBatch
  PROVE  Debt'
<1>1. /\ wiki' = wiki /\ alive' = alive /\ raw' = raw /\ cursor' = cursor /\ cycle' = cycle /\ missed' = missed
      /\ run.pc = "fetch" /\ run.root \in Root /\ run.root \in RootsOf(run.src) /\ run.src \in Source
      /\ run.batch = {} \/ LimitHit
  BY DEF EndBatch, wikiVars, diskVars, TypeOK, Position, InRoot
<1>2. NextOffset \in Nat
  BY MapAssumption DEF NextOffset, TypeOK, RunType
<1>3. UseCheckpoint => run.batch = {} /\ run.since = cursor[run.src]
  BY <1>1 DEF UseCheckpoint, Truncated, LimitHit, TypeOK, RunType, Position, InCrawl, Since
<1>4. UseCheckpoint => \A p \in Page : Owed(p) /\ RootOf[p] = run.root =>
        Late(p) \/ (run.full /\ Before(p, cursor[SourceAbove(p)]) >= NextOffset)
  BY <1>1, <1>3 DEF InBatch, NextOffset, SourceAbove, RootsOf
<1>5. CASE ~run.full /\ SaveCheckpoint(Done)
  BY <1>1, <1>4, <1>5, DebtSave
<1>6. CASE SaveCheckpoint(NextOffset)
  <2>1. NextOffset # Done
    BY <1>2 DEF Done
  <2> QED
    BY <1>1, <1>2, <1>4, <1>6, <2>1, DebtSave
<1> QED
  BY <1>5, <1>6, EndBatchDoes

\* The commit: what the source owes is late, and given up unless it is after
\* the new cursor.
LEMMA DebtCommit ==
  ASSUME TypeOK, Debt, StagedDone, NEW s \in Source, AdvanceCursor(s)
  PROVE  Debt'
<1>1. /\ wiki' = wiki /\ alive' = alive /\ raw' = raw /\ ckpt' = ckpt /\ cycle' = cycle
      /\ missed' = missed \cup Overtaken(s) /\ cursor' = [cursor EXCEPT ![s] = run.started - Margin]
      /\ s \in run.staged /\ cursor \in [Source -> Int] /\ run.started - Margin \in Int
      /\ wiki \in [Page -> Nat]
  BY MapAssumption DEF AdvanceCursor, NewCursor, wikiVars, diskVars, TypeOK, RunType
<1>2. ASSUME NEW p \in Page, Owed(p)'
      PROVE  /\ wiki'[p] > cursor'[SourceAbove(p)]
             /\ ckpt'[RootOf[p]] = Done => Late(p)'
             /\ ckpt'[RootOf[p]] > 0 =>
                  \/ Late(p)'
                  \/ Rank(NextListing(RootOf[p], cursor'[SourceAbove(p)]), p) >= ckpt'[RootOf[p]]
  <2>1. Owed(p) /\ p \notin Overtaken(s) /\ RootOf[p] # None /\ raw[p] # wiki[p]
    BY <1>1, <1>2 DEF Owed
  <2>2. SourceAbove(p) \in Source /\ (SourceAbove(p) = s => RootOf[p] \in RootsOf(s))
    BY <2>1, SourceAboveIs
  <2>3. /\ wiki[p] > cursor[SourceAbove(p)]
        /\ ckpt[RootOf[p]] = Done => Late(p)
        /\ ckpt[RootOf[p]] > 0 => Late(p) \/ Before(p, cursor[SourceAbove(p)]) >= ckpt[RootOf[p]]
    BY <2>1 DEF Debt, AfterCursor, DoneIsDone, OffsetBehind
  <2>4. Late(p)' <=> Late(p)
    BY <1>1 DEF Late, SourceAbove
  <2>5. CASE SourceAbove(p) = s
    <3>1. Late(p)
      BY <1>1, <2>2, <2>3, <2>5 DEF StagedDone
    <3>2. wiki[p] > run.started - Margin
      <4>1. wiki[p] > cycle[s] /\ RootOf[p] \in RootsOf(s)
        BY <2>2, <2>5, <3>1 DEF Late
      <4>2. ~(wiki[p] <= run.started - Margin)
        BY <2>1, <4>1 DEF Overtaken
      <4> QED
        BY <1>1, <4>2
    <3> QED
      BY <1>1, <2>4, <2>5, <3>1, <3>2
  <2>6. CASE SourceAbove(p) # s
    <3>1. cursor'[SourceAbove(p)] = cursor[SourceAbove(p)]
      BY <1>1, <2>2, <2>6
    <3>2. Rank(NextListing(RootOf[p], cursor[SourceAbove(p)]), p) = Before(p, cursor[SourceAbove(p)])
      BY <1>1 DEF Before, Listing, NextListing
    <3> QED
      BY <1>1, <2>3, <2>4, <3>1, <3>2
  <2> QED
    BY <2>5, <2>6
<1> QED
  BY <1>2, DebtOf

\* The cycle is closed: the source's checkpoints are gone.
LEMMA DebtClear ==
  ASSUME TypeOK, Debt, ClearCheckpoints
  PROVE  Debt'
<1>1. /\ wiki' = wiki /\ alive' = alive /\ raw' = raw /\ cursor' = cursor /\ cycle' = cycle /\ missed' = missed
      /\ \A r \in Root : ckpt'[r] = 0 \/ ckpt'[r] = ckpt[r]
  BY DEF ClearCheckpoints, wikiVars, diskVars
<1>2. ASSUME NEW p \in Page, Owed(p)'
      PROVE  /\ wiki'[p] > cursor'[SourceAbove(p)]
             /\ ckpt'[RootOf[p]] = Done => Late(p)'
             /\ ckpt'[RootOf[p]] > 0 =>
                  \/ Late(p)'
                  \/ Rank(NextListing(RootOf[p], cursor'[SourceAbove(p)]), p) >= ckpt'[RootOf[p]]
  <2>1. Owed(p) /\ RootOf[p] \in Root
    BY <1>1, <1>2, SourceAboveIs DEF Owed
  <2>2. /\ wiki[p] > cursor[SourceAbove(p)]
        /\ ckpt[RootOf[p]] = Done => Late(p)
        /\ ckpt[RootOf[p]] > 0 => Late(p) \/ Before(p, cursor[SourceAbove(p)]) >= ckpt[RootOf[p]]
    BY <2>1 DEF Debt, AfterCursor, DoneIsDone, OffsetBehind
  <2>3. Late(p)' <=> Late(p)
    BY <1>1 DEF Late, SourceAbove
  <2>4. Rank(NextListing(RootOf[p], cursor[SourceAbove(p)]), p) = Before(p, cursor[SourceAbove(p)])
    BY <1>1 DEF Before, Listing, NextListing
  <2>5. CASE ckpt'[RootOf[p]] = 0
    BY <1>1, <2>2, <2>5 DEF Done
  <2>6. CASE ckpt'[RootOf[p]] = ckpt[RootOf[p]]
    BY <1>1, <2>2, <2>3, <2>4, <2>6
  <2> QED
    BY <1>1, <2>1, <2>5, <2>6
<1> QED
  BY <1>2, DebtOf

\* A page that is fetched is owed no more; one that fails is given up.
LEMMA DebtPage ==
  ASSUME TypeOK, Debt, NEW p \in Page, WritePage(p) \/ PageFails(p),
         UNCHANGED <<wikiVars, rowVars, cycle>>
  PROVE  Debt'
<1>1. /\ wiki' = wiki /\ alive' = alive /\ cursor' = cursor /\ ckpt' = ckpt /\ cycle' = cycle
  BY DEF wikiVars, rowVars
<1>2. \A q \in Page : Owed(q)' => Owed(q)
  BY <1>1 DEF Owed, WritePage, PageFails, TypeOK
<1> QED
  BY <1>1, <1>2, DebtKept

\* No step leaves a debt that nothing stands for.
LEMMA DebtStep ==
  TypeOK /\ ClockAhead /\ Position /\ StagedDone /\ InHand /\ InBatch /\ Debt /\ [Next]_vars => Debt'
<1> SUFFICES ASSUME TypeOK, ClockAhead, Position, StagedDone, InHand, InBatch, Debt, [Next]_vars
             PROVE  Debt'
  OBVIOUS
<1>1. ASSUME UNCHANGED <<wikiVars, raw, rowVars, cycle, missed>> PROVE Debt'
  BY <1>1, DebtKept DEF Owed, wikiVars, rowVars
<1>2. CASE Crawl
  <2>1. ASSUME NEW p \in Page, FetchPage(p) \/ FetchSeed(p) PROVE Debt'
    BY <2>1, DebtPage DEF FetchPage, FetchSeed
  <2>2. ASSUME NEW s \in Source, SkipSource(s) PROVE Debt'
    BY <1>1, <2>2 DEF SkipSource, diskVars
  <2>3. ASSUME NEW r \in Root, BeginRoot(r) PROVE Debt'
    BY <1>1, <2>3 DEF BeginRoot, diskVars
  <2>4. CASE SearchFails \/ StopAtLimit
    BY <1>1, <2>4 DEF SearchFails, StopAtLimit, diskVars
  <2> QED
    BY <1>2, <2>1, <2>2, <2>3, <2>4, DebtBegin, DebtSearch, DebtEndBatch DEF Crawl
<1>3. CASE Settle
  <2>1. CASE Judge \/ SourcesDone \/ Archive \/ Ingest \/ IngestRaises \/ Embed \/ Return
    BY <1>1, <2>1 DEF Judge, SourcesDone, Archive, Ingest, IngestRaises, Embed, Return, diskVars
  <2> QED
    BY <1>3, <2>1, DebtCommit, DebtClear DEF Settle
<1>4. CASE (\E o \in SyncOption : StartSync(o)) \/ (\E s \in Source, o \in InvOption : StartInventory(s, o))
  BY <1>1, <1>4 DEF StartSync, StartInventory, diskVars
<1>5. CASE Crash \/ UNCHANGED vars
  BY <1>1, <1>5 DEF Crash, diskVars, vars
<1> QED
  BY <1>2, <1>3, <1>4, <1>5, DebtEdit, DebtDelete DEF Next

-----------------------------------------------------------------------------
(* The crawl accounts for every root of its source.                         *)

\* A step that keeps the call, the checkpoints and the root in hand, if any,
\* and owes nothing new of it.
LEMMA AccountsKept ==
  ASSUME CrawlAccounts, SameSource, ckpt' = ckpt, run'.rootfailed = run.rootfailed,
         run'.roots = run.roots, run'.pc = run.pc,
         run'.root = run.root, run'.start = run.start,
         run.pc = "fetch" /\ UseCheckpoint => InBatch'
  PROVE  CrawlAccounts'
<1>1. UseCheckpoint' <=> UseCheckpoint
  BY DEF UseCheckpoint, Truncated, SameSource, SameQueue, Carried, SameCall
<1>2. StagedDone'
  BY DEF CrawlAccounts, StagedDone, SameSource, SameQueue, RootsOf
<1>3. RootsAccounted'
  BY <1>1 DEF CrawlAccounts, RootsAccounted, InCrawl, InRoot, SameSource, RootsOf
<1>4. InHand'
  BY <1>1 DEF CrawlAccounts, InHand, InRoot
<1>5. InBatch'
  BY <1>1 DEF InBatch
<1> QED
  BY <1>2, <1>3, <1>4, <1>5 DEF CrawlAccounts

\* Away from the crawl only what is staged counts.
LEMMA AccountsAway ==
  ASSUME run'.pc \notin {"root", "search", "fetch"}, StagedDone'
  PROVE  CrawlAccounts'
BY DEF CrawlAccounts, RootsAccounted, InHand, InBatch, InCrawl, InRoot

\* Confluence changes under the run: the window in hand, and what is beyond it.
LEMMA AccountsWiki ==
  ASSUME TypeOK, ClockAhead, Position, CrawlAccounts, NEW x \in Page, Edit(x) \/ Delete(x)
  PROVE  CrawlAccounts'
<1>1. run' = run /\ ckpt' = ckpt /\ cycle' = cycle /\ raw' = raw
  BY DEF Edit, Delete, rowVars, diskVars
<1>2. SameSource
  BY <1>1 DEF SameSource, SameQueue, Carried, SameCall
<1>3. ASSUME run.pc = "fetch", UseCheckpoint PROVE InBatch'
  <2>1. /\ run.src \in Source /\ run.root \in RootsOf(run.src) /\ run.root \in Root
        /\ run.since = cursor[run.src] /\ run.since \in Int /\ run.since <= now
        /\ run.start \in Nat /\ PageSize \in Nat
    BY <1>3, MapAssumption DEF TypeOK, RunType, Position, InCrawl, InRoot, Since, UseCheckpoint, ClockAhead
  <2>2. SUFFICES ASSUME NEW p \in Page, Owed(p)', RootOf[p] = run.root
                 PROVE  \/ Late(p)' \/ p \in run.batch
                        \/ run.full /\ Before(p, run.since)' >= run.start + PageSize
    BY <1>1 DEF InBatch
  <2>3. Before(p, run.since)' = Rank(NextListing(RootOf[p], run.since), p)
    BY <1>1 DEF Before, Listing, NextListing
  <2>4. Owed(p) => Late(p) \/ p \in run.batch \/ (run.full /\ Before(p, run.since) >= run.start + PageSize)
    BY <1>3, <2>2 DEF CrawlAccounts, InBatch
  <2>5. CASE Edit(x)
    <3>1. /\ wiki' = [wiki EXCEPT ![x] = now + 1] /\ alive' = alive /\ missed' = missed
          /\ now \in Nat /\ wiki \in [Page -> Nat]
      BY <2>5 DEF Edit, TypeOK
    <3>2. CASE p = x
      <4>1. SourceAbove(p) \in Source
        BY <2>2, SourceAboveIs DEF Owed
      <4>2. cycle[SourceAbove(p)] \in Nat /\ cycle[SourceAbove(p)] <= now
        BY <4>1 DEF TypeOK, ClockAhead
      <4> QED
        BY <1>1, <3>1, <3>2, <4>2 DEF Late, SourceAbove
    <3>3. CASE p # x
      <4>1. Owed(p) /\ (Late(p)' <=> Late(p))
        BY <1>1, <2>2, <3>1, <3>3 DEF Owed, Late, SourceAbove
      <4>2. /\ Before(p, run.since) <= Rank(NextListing(RootOf[p], run.since), p)
            /\ Before(p, run.since) \in Nat /\ Rank(NextListing(RootOf[p], run.since), p) \in Nat
        BY <2>1, <2>5, EditListing DEF Before
      <4> QED
        BY <2>1, <2>3, <2>4, <4>1, <4>2
    <3> QED
      BY <3>2, <3>3
  <2>6. CASE Delete(x)
    <3>1. Owed(p) /\ RootOf[p] # None /\ p \in alive' /\ p \notin missed' /\ (Late(p)' <=> Late(p))
      BY <1>1, <2>2, <2>6 DEF Delete, Owed, Late, SourceAbove
    <3>2. Rank(NextListing(RootOf[p], run.since), p) = Before(p, run.since)
      BY <2>2, <2>6, <3>1, DeleteListing DEF Before
    <3> QED
      BY <2>3, <2>4, <3>1, <3>2
  <2> QED
    BY <2>5, <2>6
<1> QED
  BY <1>1, <1>2, <1>3, AccountsKept

\* The next source, the next root.
LEMMA AccountsBegin ==
  ASSUME TypeOK, CrawlAccounts,
         (\E s \in Source : BeginSource(s)) \/ (\E r \in Root : BeginRoot(r))
  PROVE  CrawlAccounts'
<1>1. ASSUME NEW s \in Source, BeginSource(s) PROVE CrawlAccounts'
  <2>1. /\ run'.inv = run.inv /\ run'.limit = run.limit /\ run'.only = run.only
        /\ run'.staged = run.staged /\ run'.pc = "root" /\ run'.src = s
        /\ run'.roots = (IF run.only = None THEN RootsOf(s) ELSE {run.only})
    BY <1>1, BeginSourceDoes DEF Carried, SameCall
  <2>2. ckpt' = ckpt
    BY <1>1 DEF BeginSource, rowVars
  <2>3. UseCheckpoint' => run'.roots = RootsOf(s)
    BY <2>1 DEF UseCheckpoint, Truncated
  <2> QED
    BY <2>1, <2>2, <2>3 DEF CrawlAccounts, StagedDone, RootsAccounted, InHand, InBatch, InCrawl, InRoot, RootsOf
<1>2. ASSUME NEW r \in Root, BeginRoot(r) PROVE CrawlAccounts'
  <2>1. /\ SameSource /\ SameErrors /\ run'.roots = run.roots \ {r}
        /\ \/ run'.pc = "root" /\ UseCheckpoint /\ ckpt[r] = Done
           \/ /\ run'.pc = "search" /\ run'.root = r /\ ~(UseCheckpoint /\ ckpt[r] = Done)
              /\ run'.start = IF UseCheckpoint THEN ckpt[r] ELSE 0
    BY <1>2, BeginRootDoes
  <2>2. ckpt' = ckpt /\ run.pc = "root"
    BY <1>2 DEF BeginRoot, rowVars
  <2>3. UseCheckpoint' <=> UseCheckpoint
    BY <2>1 DEF UseCheckpoint, Truncated, SameSource, SameQueue, Carried, SameCall
  <2>4. StagedDone'
    BY <2>1, <2>2 DEF CrawlAccounts, StagedDone, SameSource, SameQueue, RootsOf
  <2>5. RootsAccounted'
    BY <2>1, <2>2, <2>3 DEF CrawlAccounts, RootsAccounted, InCrawl, InRoot, SameSource, SameErrors, RootsOf
  <2>6. InHand' /\ InBatch'
    BY <2>1, <2>2, <2>3 DEF InHand, InBatch, InRoot
  <2> QED
    BY <2>4, <2>5, <2>6 DEF CrawlAccounts
<1> QED
  BY <1>1, <1>2

\* A root that is left is done, or failed; its source is not staged.
LEMMA AccountsLeave ==
  ASSUME TypeOK, Position, CrawlAccounts, InRoot,
         \/ LeaveRoot(run) /\ SaveCheckpoint(Done)
         \/ LeaveRoot(RootError) /\ ckpt' = ckpt
         \/ LeaveRoot(run) /\ ckpt' = ckpt /\ ~UseCheckpoint
  PROVE  CrawlAccounts'
<1>1. /\ SameSource /\ run'.pc = "root" /\ run'.roots = run.roots
      /\ (SaveCheckpoint(Done) /\ SameErrors) \/ ~UseCheckpoint \/ (run'.rootfailed /\ ckpt' = ckpt)
  BY LeaveDoes, ErrorDoes
<1>2. UseCheckpoint' <=> UseCheckpoint
  BY <1>1 DEF UseCheckpoint, Truncated, SameSource, SameQueue, Carried, SameCall
<1>3. /\ run.root \in Root /\ ckpt \in [Root -> Nat \cup {Done}]
      /\ ckpt' = ckpt \/ (UseCheckpoint /\ ckpt' = [ckpt EXCEPT ![run.root] = Done])
  BY DEF SaveCheckpoint, InRoot, TypeOK
<1>4. StagedDone'
  BY <1>1, <1>3 DEF CrawlAccounts, StagedDone, SameSource, SameQueue, RootsOf
<1>5. RootsAccounted'
  <2> SUFFICES ASSUME UseCheckpoint, ~run'.rootfailed, NEW r \in RootsOf(run.src)
               PROVE  r \in run.roots \/ ckpt'[r] = Done
    BY <1>1, <1>2 DEF RootsAccounted, SameSource, RootsOf
  <2>1. SaveCheckpoint(Done) /\ SameErrors
    BY <1>1
  <2>2. r \in run.roots \/ r = run.root \/ ckpt[r] = Done
    BY <2>1 DEF CrawlAccounts, RootsAccounted, InCrawl, InRoot, SameErrors
  <2>3. ckpt' = [ckpt EXCEPT ![run.root] = Done] /\ r \in Root
    BY <2>1 DEF SaveCheckpoint, RootsOf
  <2> QED
    BY <1>3, <2>2, <2>3
<1>6. InHand' /\ InBatch'
  BY <1>1 DEF InHand, InBatch, InRoot
<1> QED
  BY <1>4, <1>5, <1>6 DEF CrawlAccounts

\* A search that goes on to fetch has in hand, or beyond, what is due.
LEMMA AccountsSearch ==
  ASSUME TypeOK, Position, Debt, CrawlAccounts, Search
  PROVE  CrawlAccounts'
<1>1. run.pc = "search" /\ InRoot /\ UNCHANGED <<wiki, alive, raw, cycle, missed>>
  BY DEF Search, InRoot, wikiVars, diskVars
<1>2. CASE (LeaveRoot(run) /\ SaveCheckpoint(Done)) \/ (LeaveRoot(RootError) /\ ckpt' = ckpt)
  BY <1>1, <1>2, AccountsLeave
<1>3. CASE /\ SameSource /\ SameErrors /\ run'.pc = "fetch" /\ run'.roots = run.roots
           /\ run'.root = run.root /\ run'.start = run.start
           /\ run'.batch = Results /\ run'.full = (Cardinality(Results) = PageSize)
           /\ ckpt' = ckpt
  <2>1. UseCheckpoint' <=> UseCheckpoint
    BY <1>3 DEF UseCheckpoint, Truncated, SameSource, SameQueue, Carried, SameCall
  <2>2. StagedDone'
    BY <1>3 DEF CrawlAccounts, StagedDone, SameSource, SameQueue, RootsOf
  <2>3. RootsAccounted' /\ InHand'
    BY <1>1, <1>3, <2>1 DEF CrawlAccounts, RootsAccounted, InHand, InCrawl, InRoot, SameSource, SameErrors, RootsOf
  <2>4. InBatch'
    <3> SUFFICES ASSUME UseCheckpoint, NEW p \in Page, Owed(p)', RootOf[p] = run.root
                 PROVE  \/ Late(p)' \/ p \in Results
                        \/ Cardinality(Results) = PageSize /\ Before(p, run.since)' >= run.start + PageSize
      BY <1>3, <2>1 DEF InBatch, SameSource, Before, Listing
    <3>1. Owed(p) /\ (Late(p)' <=> Late(p))
      BY <1>1 DEF Owed, Late, SourceAbove
    <3>2. Before(p, run.since)' = Before(p, run.since)
      BY <1>1, <1>3 DEF Before, Listing, SameSource
    <3>3. InHand
      BY DEF CrawlAccounts
    <3> QED
      BY <1>1, <3>1, <3>2, <3>3, DueInWindow
  <2> QED
    BY <2>2, <2>3, <2>4 DEF CrawlAccounts
<1> QED
  BY <1>2, <1>3, SearchDoes

\* A page that leaves the window is on disk or given up.
LEMMA AccountsPage ==
  ASSUME TypeOK, CrawlAccounts, NEW p \in Page, WritePage(p) \/ PageFails(p),
         UNCHANGED <<wikiVars, rowVars, cycle>>
  PROVE  CrawlAccounts'
<1>1. /\ SameSource /\ run'.pc = run.pc /\ run'.roots = run.roots
      /\ run'.root = run.root /\ run'.start = run.start /\ run'.full = run.full
      /\ run'.batch = run.batch \ {p} /\ run'.rootfailed = run.rootfailed
  BY PageDoes DEF SameErrors
<1>2. UNCHANGED <<wiki, alive, ckpt, cycle>>
  BY DEF wikiVars, rowVars
<1>3. ASSUME run.pc = "fetch", UseCheckpoint PROVE InBatch'
  <2>1. \A q \in Page : Owed(q)' => Owed(q) /\ q # p
    BY <1>2, <1>3 DEF Owed, WritePage, PageFails, TypeOK
  <2>2. \A q \in Page : (Late(q)' <=> Late(q)) /\ Before(q, run.since)' = Before(q, run.since)
    BY <1>1, <1>2 DEF Late, SourceAbove, Before, Listing, SameSource
  <2>3. \A q \in Page : Owed(q) /\ RootOf[q] = run.root =>
          Late(q) \/ q \in run.batch \/ (run.full /\ Before(q, run.since) >= run.start + PageSize)
    BY <1>3 DEF CrawlAccounts, InBatch
  <2> QED
    BY <1>1, <2>1, <2>2, <2>3 DEF InBatch
<1> QED
  BY <1>1, <1>2, <1>3, AccountsKept

\* The next window of the root starts where its checkpoint says.
LEMMA AccountsEndBatch ==
  ASSUME TypeOK, Position, CrawlAccounts, EndBatch
  PROVE  CrawlAccounts'
<1>1. InRoot /\ run.pc = "fetch" /\ run.root \in RootsOf(run.src) /\ run.root \in Root /\ run.src \notin run.staged
  BY DEF EndBatch, InRoot, InCrawl, Position, TypeOK
<1>2. CASE LeaveRoot(run) /\ SaveCheckpoint(Done)
  BY <1>1, <1>2, AccountsLeave
<1>3. CASE /\ SameSource /\ SameErrors /\ run'.pc = "search" /\ run'.roots = run.roots
           /\ run'.root = run.root /\ run'.start = NextOffset /\ SaveCheckpoint(NextOffset)
  <2>1. UseCheckpoint' <=> UseCheckpoint
    BY <1>3 DEF UseCheckpoint, Truncated, SameSource, SameQueue, Carried, SameCall
  <2>2. /\ \A r \in Root : r # run.root => ckpt'[r] = ckpt[r]
        /\ UseCheckpoint => ckpt'[run.root] = NextOffset
    BY <1>1, <1>3 DEF SaveCheckpoint, TypeOK
  <2>3. StagedDone'
    <3>1. \A s \in run.staged : \A r \in RootsOf(s) : r # run.root /\ r \in Root
      BY <1>1 DEF RootsOf
    <3> QED
      BY <1>3, <2>2, <3>1 DEF CrawlAccounts, StagedDone, SameSource, SameQueue, RootsOf
  <2>4. RootsAccounted'
    BY <1>1, <1>3, <2>1, <2>2 DEF CrawlAccounts, RootsAccounted, InCrawl, InRoot, SameSource, SameErrors, RootsOf
  <2>5. InHand' /\ InBatch'
    BY <1>3, <2>1, <2>2 DEF InHand, InBatch, InRoot
  <2> QED
    BY <2>3, <2>4, <2>5 DEF CrawlAccounts
<1> QED
  BY <1>2, <1>3, EndBatchDoes

\* A source is staged when each of its roots is done.
LEMMA AccountsJudge ==
  ASSUME TypeOK, Position, CrawlAccounts, Judge
  PROVE  CrawlAccounts'
<1>1. run.pc = "root" /\ run.roots = {} /\ ckpt' = ckpt
  BY DEF Judge, Crawled, rowVars
<1>2. UseCheckpoint /\ ~run.rootfailed => \A r \in RootsOf(run.src) : ckpt[r] = Done
  BY <1>1 DEF CrawlAccounts, RootsAccounted, InCrawl, InRoot
<1>3. /\ run'.pc = "source"
      /\ \/ run'.staged = run.staged
         \/ run'.staged = run.staged \cup {run.src} /\ UseCheckpoint /\ ~run.rootfailed
  BY JudgeDoes
<1>4. StagedDone'
  BY <1>1, <1>2, <1>3 DEF CrawlAccounts, StagedDone, RootsOf
<1> QED
  BY <1>3, <1>4, AccountsAway

LEMMA AccountsStep ==
  TypeOK /\ ClockAhead /\ Position /\ Debt /\ CrawlAccounts /\ [Next]_vars => CrawlAccounts'
<1> SUFFICES ASSUME TypeOK, ClockAhead, Position, Debt, CrawlAccounts, [Next]_vars
             PROVE  CrawlAccounts'
  OBVIOUS
<1>1. ASSUME run'.staged = {}, run'.pc \notin {"root", "search", "fetch"} PROVE CrawlAccounts'
  BY <1>1, AccountsAway DEF StagedDone
<1>2. ASSUME run' = NoRun PROVE CrawlAccounts'
  BY <1>1, <1>2 DEF NoRun
<1>3. ASSUME run'.staged \subseteq run.staged, ckpt' = ckpt, run'.pc \notin {"root", "search", "fetch"}
      PROVE  CrawlAccounts'
  BY <1>3, AccountsAway DEF CrawlAccounts, StagedDone, RootsOf
<1>4. CASE Crawl
  <2>1. ASSUME NEW p \in Page, FetchPage(p) \/ FetchSeed(p) PROVE CrawlAccounts'
    BY <2>1, AccountsPage DEF FetchPage, FetchSeed
  <2>2. ASSUME NEW s \in Source, SkipSource(s) PROVE CrawlAccounts'
    BY <1>3, <2>2, SkipSourceDoes DEF SkipSource, rowVars
  <2>3. CASE SearchFails
    BY <2>3, AccountsLeave DEF SearchFails, RootError, InRoot, rowVars
  <2>4. CASE StopAtLimit
    <3>1. ~UseCheckpoint /\ LeaveRoot(run) /\ ckpt' = ckpt /\ InRoot
      BY <2>4 DEF StopAtLimit, LimitHit, UseCheckpoint, Truncated, InRoot, rowVars
    <3> QED
      BY <3>1, AccountsLeave
  <2> QED
    BY <1>4, <2>1, <2>2, <2>3, <2>4, AccountsBegin, AccountsSearch, AccountsEndBatch DEF Crawl
<1>5. CASE Settle
  <2>1. CASE SourcesDone \/ Archive \/ Ingest \/ Embed
    <3>1. ckpt' = ckpt
      BY <2>1 DEF SourcesDone, Archive, Ingest, Embed, rowVars
    <3> QED
      BY <1>2, <1>3, <2>1, <3>1, SettleDoes DEF SameQueue
  <2>2. CASE IngestRaises \/ Return
    BY <1>2, <2>2 DEF IngestRaises, Return
  <2>3. ASSUME NEW s \in Source, AdvanceCursor(s) PROVE CrawlAccounts'
    BY <1>3, <2>3, CommitDoes DEF AdvanceCursor
  <2>4. CASE ClearCheckpoints
    <3>1. run.src \notin run.staged /\ \A r \in Root : SourceOf[r] # run.src => ckpt'[r] = ckpt[r]
      BY <2>4 DEF ClearCheckpoints, Position
    <3>2. run'.staged = run.staged /\ run'.pc = "commit"
      BY <2>4, ClearDoes DEF SameQueue
    <3>3. StagedDone'
      BY <3>1, <3>2 DEF CrawlAccounts, StagedDone, RootsOf
    <3> QED
      BY <3>2, <3>3, AccountsAway
  <2> QED
    BY <1>5, <2>1, <2>2, <2>3, <2>4, AccountsJudge DEF Settle
<1>6. CASE (\E o \in SyncOption : StartSync(o)) \/ (\E s \in Source, o \in InvOption : StartInventory(s, o))
  BY <1>1, <1>6, StartDoes
<1>7. CASE Crash
  BY <1>2, <1>7 DEF Crash
<1>8. CASE UNCHANGED vars
  <2>1. UNCHANGED <<run, ckpt, wiki, alive, raw, cycle, missed>>
    BY <1>8 DEF vars, rowVars, wikiVars, diskVars
  <2>2. SameSource
    BY <2>1 DEF SameSource, SameQueue, Carried, SameCall
  <2>3. CrawlAccounts => InBatch
    BY DEF CrawlAccounts
  <2>4. InBatch'
    BY <2>1, <2>3 DEF InBatch, UseCheckpoint, Truncated, Owed, Late, SourceAbove, Before, Listing
  <2> QED
    BY <2>1, <2>2, <2>4, AccountsKept
<1> QED
  BY <1>4, <1>5, <1>6, <1>7, <1>8, AccountsWiki DEF Next

-----------------------------------------------------------------------------
(* No edit is lost but for the reasons recorded.                            *)

LossInv == ClockAhead /\ Position /\ Debt /\ CrawlAccounts

LEMMA LossInvariant == Spec => []LossInv
<1>1. Init => LossInv
  BY MapAssumption DEF Init, NoRun, LossInv, ClockAhead, Position, Debt, AfterCursor, DoneIsDone, OffsetBehind,
     CrawlAccounts, StagedDone, RootsAccounted, InHand, InBatch, InCrawl, InRoot, SourceAbove, Owed, Done, Never
<1>2. TypeOK /\ LossInv /\ [Next]_vars => LossInv'
  BY ClockStep, PositionStep, DebtStep, AccountsStep DEF LossInv, CrawlAccounts
<1> QED
  BY <1>1, <1>2, TypeCorrect, PTL DEF Spec

\* An edit the cursor has passed and that is not on disk is recorded in
\* `missed': its fetch failed, a deletion shifted the listing, or the cycle that
\* resumed from checkpoints let it go.  Whatever crashes, requests that fail and
\* edits in between.
THEOREM NoOtherLoss == Spec => []LossesAccounted
<1>1. LossInv /\ TypeOK => LossesAccounted
  <2> SUFFICES ASSUME LossInv, TypeOK, NEW p \in Page, Skipped(p), p \notin missed PROVE FALSE
    BY DEF LossesAccounted
  <2>1. Owed(p) /\ wiki[p] <= cursor[SourceAbove(p)]
    BY DEF Skipped, Owed, SourceAbove
  <2>2. wiki[p] > cursor[SourceAbove(p)] /\ SourceAbove(p) \in Source
    BY <2>1, SourceAboveIs DEF LossInv, Debt, AfterCursor, Owed
  <2>3. wiki[p] \in Nat /\ cursor[SourceAbove(p)] \in Int
    BY <2>2 DEF TypeOK
  <2> QED
    BY <2>1, <2>2, <2>3
<1> QED
  BY <1>1, LossInvariant, TypeCorrect, PTL

-----------------------------------------------------------------------------
(* What a run has seen by the time it acts on it: a commit has the explicit  *)
(* pages, and an inventory that archives has every page that is still there. *)

(* The explicit pages of a source that is committed.                        *)

\* Gone, on disk, edited since the run began, or given up.
Covered(p) == p \notin alive \/ raw[p] = wiki[p] \/ wiki[p] > run.started \/ p \in missed

\* The explicit pages of the source in hand are covered or still to be fetched,
\* those of the staged sources are covered.
SeedsAccounted ==
  /\ InCrawl /\ UseCheckpoint => \A p \in Seeds[run.src] : p \in run.seeds \/ Covered(p)
  /\ \A s \in run.staged : \A p \in Seeds[s] : Covered(p)

\* A step that keeps the run's position, and uncovers nothing.
LEMMA SeedsKept ==
  ASSUME SeedsAccounted, SameSource, InCrawl, run'.seeds \subseteq run.seeds,
         \A p \in Page : Covered(p) => Covered(p)',
         UseCheckpoint => \A p \in Page : p \in run.seeds /\ p \notin run'.seeds => Covered(p)',
         run.src \in Source /\ run.staged \subseteq Source
  PROVE  SeedsAccounted'
<1>1. UseCheckpoint' <=> UseCheckpoint
  BY DEF UseCheckpoint, Truncated, SameSource, SameQueue, Carried, SameCall
<1>2. run'.src = run.src /\ run'.staged = run.staged /\ \A s \in Source : Seeds[s] \in SUBSET Page
  BY MapAssumption DEF SameSource, SameQueue
<1> QED
  BY <1>1, <1>2 DEF SeedsAccounted

\* Away from the crawl only what is staged counts.
LEMMA SeedsAway ==
  ASSUME SeedsAccounted, run'.staged \subseteq run.staged, run.staged \subseteq Source,
         run'.pc \notin {"root", "search", "fetch"},
         \A p \in Page : Covered(p) => Covered(p)'
  PROVE  SeedsAccounted'
<1>1. \A s \in Source : Seeds[s] \in SUBSET Page
  BY MapAssumption
<1> QED
  BY <1>1 DEF SeedsAccounted, InCrawl

\* What is covered stays so while the run lasts.
LEMMA CoveredKept ==
  ASSUME UNCHANGED <<wikiVars, raw>>, run'.started = run.started, missed \subseteq missed', NEW p, Covered(p)
  PROVE  Covered(p)'
BY DEF Covered, wikiVars

LEMMA SeedsCrawl ==
  ASSUME TypeOK, SeedsAccounted, Crawl
  PROVE  SeedsAccounted'
<1>0. run.staged \subseteq Source /\ (InCrawl => run.src \in Source)
  BY DEF TypeOK, RunType, InCrawl
<1>1. ASSUME UNCHANGED <<wikiVars, raw, missed>>, SameSource, InCrawl, run'.seeds = run.seeds
      PROVE  SeedsAccounted'
  <2>1. \A p \in Page : Covered(p) => Covered(p)'
    BY <1>1, CoveredKept DEF SameSource, SameQueue, Carried
  <2> QED
    BY <1>0, <1>1, <2>1, SeedsKept
<1>2. ASSUME NEW s \in Source, BeginSource(s) PROVE SeedsAccounted'
  <2>1. /\ run'.inv = run.inv /\ run'.limit = run.limit /\ run'.only = run.only /\ run'.started = run.started
        /\ run'.staged = run.staged /\ run'.src = s /\ run'.seeds = SeedsDue(s)
    BY <1>2, BeginSourceDoes DEF Carried, SameCall
  <2>2. UseCheckpoint' => run'.seeds = Seeds[s]
    BY <2>1 DEF UseCheckpoint, Truncated, SeedsDue
  <2>3. \A p \in Page : Covered(p) => Covered(p)'
    BY <1>2, <2>1, CoveredKept DEF BeginSource, diskVars
  <2>4. \A t \in Source : Seeds[t] \in SUBSET Page
    BY MapAssumption
  <2> QED
    BY <1>0, <2>1, <2>2, <2>3, <2>4 DEF SeedsAccounted
<1>3. ASSUME NEW s \in Source, SkipSource(s) PROVE SeedsAccounted'
  <2>1. run'.started = run.started /\ run'.staged = run.staged /\ run'.pc = "source"
    BY <1>3, SkipSourceDoes DEF Carried
  <2>2. \A p \in Page : Covered(p) => Covered(p)'
    BY <1>3, <2>1, CoveredKept DEF SkipSource, diskVars
  <2> QED
    BY <1>0, <2>1, <2>2, SeedsAway
<1>4. ASSUME NEW r \in Root, BeginRoot(r) PROVE SeedsAccounted'
  <2>1. UNCHANGED <<wikiVars, raw, missed>> /\ InCrawl
    BY <1>4 DEF BeginRoot, diskVars, InCrawl
  <2> QED
    BY <1>1, <1>4, <2>1, BeginRootDoes
<1>5. CASE SearchFails \/ StopAtLimit
  <2>1. UNCHANGED <<wikiVars, raw, missed>> /\ InCrawl /\ (LeaveRoot(run) \/ LeaveRoot(RootError))
    BY <1>5 DEF SearchFails, StopAtLimit, RootError, diskVars, InCrawl
  <2> QED
    BY <1>1, <2>1, LeaveDoes, ErrorDoes
<1>6. CASE Search
  <2>1. UNCHANGED <<wikiVars, raw, missed>> /\ InCrawl
    BY <1>6 DEF Search, diskVars, InCrawl
  <2> QED
    BY <1>1, <1>6, <2>1, SearchDoes, LeaveDoes, ErrorDoes
<1>7. CASE EndBatch
  <2>1. UNCHANGED <<wikiVars, raw, missed>> /\ InCrawl
    BY <1>7 DEF EndBatch, diskVars, InCrawl
  <2> QED
    BY <1>1, <1>7, <2>1, EndBatchDoes, LeaveDoes
<1>8. ASSUME NEW p \in Page, FetchPage(p) \/ FetchSeed(p) PROVE SeedsAccounted'
  <2>1. (WritePage(p) \/ PageFails(p)) /\ UNCHANGED <<wiki, alive>> /\ InCrawl
    BY <1>8 DEF FetchPage, FetchSeed, wikiVars, InCrawl
  <2>2. SameSource /\ run'.seeds = run.seeds \ {p} /\ run'.started = run.started
    BY <2>1, PageDoes DEF SameSource, SameQueue, Carried
  <2>3. WritePage(p) \/ UseCheckpoint => Covered(p)'
    BY <2>1 DEF WritePage, PageFails, Covered, TypeOK
  <2>4. \A q \in Page : Covered(q) => Covered(q)'
    BY <2>1, <2>2 DEF WritePage, PageFails, Covered, TypeOK
  <2> QED
    BY <1>0, <2>1, <2>2, <2>3, <2>4, SeedsKept
<1> QED
  BY <1>2, <1>3, <1>4, <1>5, <1>6, <1>7, <1>8 DEF Crawl

LEMMA SeedsStep == TypeOK /\ ClockAhead /\ SeedsAccounted /\ [Next]_vars => SeedsAccounted'
<1> SUFFICES ASSUME TypeOK, ClockAhead, SeedsAccounted, [Next]_vars PROVE SeedsAccounted'
  OBVIOUS
<1>0. run.staged \subseteq Source /\ (InCrawl => run.src \in Source)
  BY DEF TypeOK, RunType, InCrawl
<1>1. ASSUME run'.staged = {}, run'.pc \notin {"root", "search", "fetch"} PROVE SeedsAccounted'
  BY <1>1 DEF SeedsAccounted, InCrawl
<1>2. ASSUME run' = NoRun PROVE SeedsAccounted'
  BY <1>1, <1>2 DEF NoRun
<1>3. ASSUME run' = run, \A p \in Page : Covered(p) => Covered(p)' PROVE SeedsAccounted'
  <2>1. SameSource /\ run'.seeds = run.seeds
    BY <1>3 DEF SameSource, SameQueue, Carried, SameCall
  <2>2. CASE InCrawl
    BY <1>0, <1>3, <2>1, <2>2, SeedsKept
  <2>3. CASE ~InCrawl
    BY <1>0, <1>3, <2>3, SeedsAway DEF InCrawl
  <2> QED
    BY <2>2, <2>3
<1>4. ASSUME NEW x \in Page, Edit(x) PROVE SeedsAccounted'
  <2>1. /\ alive' = alive /\ raw' = raw /\ missed' = missed /\ run' = run
        /\ wiki' = [wiki EXCEPT ![x] = now + 1] /\ wiki \in [Page -> Nat]
        /\ now \in Nat /\ run.started \in Nat /\ run.started <= now
    BY <1>4 DEF Edit, diskVars, TypeOK, RunType, ClockAhead
  <2>2. \A p \in Page : Covered(p) /\ p # x => Covered(p)'
    BY <2>1 DEF Covered
  <2>3. Covered(x)'
    BY <2>1 DEF Covered
  <2> QED
    BY <1>3, <2>1, <2>2, <2>3
<1>5. ASSUME NEW x \in Page, Delete(x) PROVE SeedsAccounted'
  <2>1. \A p \in Page : Covered(p) => Covered(p)'
    BY <1>5 DEF Delete, Covered, diskVars
  <2> QED
    BY <1>3, <1>5, <2>1 DEF Delete
<1>6. CASE UNCHANGED vars
  BY <1>3, <1>6 DEF vars, wikiVars, diskVars, Covered
<1>7. CASE (\E o \in SyncOption : StartSync(o)) \/ (\E s \in Source, o \in InvOption : StartInventory(s, o))
  BY <1>1, <1>7, StartDoes
<1>8. CASE Crash \/ IngestRaises \/ Return
  BY <1>2, <1>8 DEF Crash, IngestRaises, Return
<1>9. CASE SourcesDone \/ Archive \/ Ingest \/ Embed \/ ClearCheckpoints
  <2>1. UNCHANGED <<wikiVars, raw, missed>>
    BY <1>9 DEF SourcesDone, Archive, Ingest, Embed, ClearCheckpoints, diskVars
  <2>2. run' = NoRun \/ (SameQueue /\ run'.pc \in {"ingest", "embed", "commit", "report"})
    BY <1>9, SettleDoes, ClearDoes
  <2>3. ASSUME SameQueue PROVE \A p \in Page : Covered(p) => Covered(p)'
    BY <2>1, <2>3, CoveredKept DEF SameQueue, Carried
  <2> QED
    BY <1>0, <1>2, <2>2, <2>3, SeedsAway DEF SameQueue
<1>10. CASE Judge
  <2>1. /\ run'.started = run.started /\ run'.pc = "source"
        /\ run'.staged = run.staged \/ (run'.staged = run.staged \cup {run.src} /\ UseCheckpoint)
    BY <1>10, JudgeDoes DEF Carried
  <2>2. \A p \in Page : Covered(p) => Covered(p)'
    BY <1>10, <2>1, CoveredKept DEF Judge, diskVars
  <2>3. run.seeds = {} /\ InCrawl /\ \A s \in Source : Seeds[s] \in SUBSET Page
    BY <1>10, MapAssumption DEF Judge, Crawled, InCrawl
  <2> QED
    BY <1>0, <2>1, <2>2, <2>3 DEF SeedsAccounted, InCrawl
<1>11. ASSUME NEW s \in Source, AdvanceCursor(s) PROVE SeedsAccounted'
  <2>1. run'.started = run.started /\ run'.pc = "clear" /\ run'.staged \subseteq run.staged
    BY <1>11, CommitDoes DEF Carried
  <2>2. \A p \in Page : Covered(p) => Covered(p)'
    BY <1>11, <2>1, CoveredKept DEF AdvanceCursor, diskVars
  <2> QED
    BY <1>0, <2>1, <2>2, SeedsAway
<1> QED
  BY <1>4, <1>5, <1>6, <1>7, <1>8, <1>9, <1>10, <1>11, SeedsCrawl DEF Next, Settle

\* When a source's cursor moves, each of its explicit pages is on disk as it
\* was when the run began, or has been edited since, or could not be fetched:
\* the checkpoints that let a run skip roots never let it skip these.
THEOREM CommitsSeeAllSeeds == Spec => CommitCoversSeeds
<1>1. Init => SeedsAccounted
  BY DEF Init, NoRun, SeedsAccounted, InCrawl
<1>2. LossInv => ClockAhead
  BY DEF LossInv
<1>3. TypeOK /\ SeedsAccounted /\ [Next]_vars =>
        [\A s \in Source : cursor'[s] # cursor[s] =>
           \A p \in Seeds[s] \cap alive : raw[p] = wiki[p] \/ wiki[p] > run.started \/ p \in missed]_vars
  <2> SUFFICES ASSUME TypeOK, SeedsAccounted, Next, NEW s \in Source, cursor'[s] # cursor[s],
                      NEW p \in Seeds[s] \cap alive
               PROVE  raw[p] = wiki[p] \/ wiki[p] > run.started \/ p \in missed
    OBVIOUS
  <2>0. SUFFICES s \in run.staged
    BY DEF SeedsAccounted, Covered
  <2>1. ASSUME NEW t \in Source, AdvanceCursor(t) PROVE s \in run.staged
    BY <2>1, SMTT(30) DEF AdvanceCursor, TypeOK
  <2>2. CASE Crawl
    BY <2>2 DEF Crawl, BeginSource, SkipSource, BeginRoot, SearchFails, Search, StopAtLimit,
                FetchPage, FetchSeed, EndBatch, rowVars
  <2>3. CASE Settle
    <3>1. Judge \/ SourcesDone \/ Archive \/ Ingest \/ IngestRaises \/ Embed \/ ClearCheckpoints \/ Return
          => cursor' = cursor
      BY DEF Judge, SourcesDone, Archive, Ingest, IngestRaises, Embed, ClearCheckpoints, Return, rowVars
    <3> QED
      BY <2>1, <2>3, <3>1 DEF Settle
  <2>4. /\ \A x \in Page : ~Edit(x)
        /\ \A x \in Page : ~Delete(x)
        /\ ~Crash
    BY DEF Edit, Delete, Crash, rowVars
  <2>5. /\ \A o \in SyncOption : ~StartSync(o)
        /\ \A t \in Source, o \in InvOption : ~StartInventory(t, o)
    BY DEF StartSync, StartInventory, rowVars
  <2> QED
    BY <2>2, <2>3, <2>4, <2>5 DEF Next
<1> QED
  BY <1>1, <1>2, <1>3, SeedsStep, LossInvariant, TypeCorrect, PTL DEF Spec, CommitCoversSeeds

-----------------------------------------------------------------------------
(* What an inventory has seen.                                              *)

\* A page that is there, was not fetched and was not shifted out of a window.
Unseen(p) == p \in alive /\ p \notin missed /\ p \notin run.wrote

\* While an inventory has met no error, what it has not seen of its source is
\* still ahead of it.
Ahead(p) ==
  /\ p \in Seeds[run.src] => p \in run.seeds
  /\ RootOf[p] \in RootsOf(run.src) =>
       \/ RootOf[p] \in run.roots
       \/ run.pc = "search" /\ RootOf[p] = run.root /\ Before(p, run.since) >= run.start
       \/ /\ run.pc = "fetch" /\ RootOf[p] = run.root
          /\ p \in run.batch \/ (run.full /\ Before(p, run.since) >= run.start + PageSize)

InventorySees == run.inv /\ InCrawl /\ run.failed = 0 => \A p \in Page : Unseen(p) => Ahead(p)

\* An inventory lists everything, without a limit.
LEMMA InventoryListsAll ==
  ASSUME TypeOK, Position, InCrawl, run.inv
  PROVE  /\ run.since = Never /\ ~LimitHit /\ run.only = None /\ ~UseCheckpoint
         /\ \A r : Listing(r, run.since) = {p \in alive : RootOf[p] = r}
<1>1. run.since = Never /\ run.limit = 0 /\ run.only = None
  BY DEF Position, Since
<1>2. \A p \in alive : wiki[p] > Never
  BY DEF TypeOK, Never
<1> QED
  BY <1>1, <1>2 DEF LimitHit, UseCheckpoint, Listing

\* Confluence changes under the inventory.
LEMMA SeesWiki ==
  ASSUME TypeOK, ClockAhead, Position, InventorySees, NEW x \in Page, Edit(x) \/ Delete(x)
  PROVE  InventorySees'
<1>1. run' = run
  BY DEF Edit, Delete
<1>2. SUFFICES ASSUME run.inv, InCrawl, run.failed = 0, NEW p \in Page, Unseen(p)'
               PROVE  Ahead(p)'
  BY <1>1 DEF InventorySees, InCrawl
<1>3. Unseen(p) /\ p \in alive' /\ p \notin missed'
  BY <1>1, <1>2 DEF Edit, Delete, Unseen
<1>4. Ahead(p)
  BY <1>2, <1>3 DEF InventorySees
<1>5. Before(p, run.since)' = Rank(NextListing(RootOf[p], run.since), p)
  BY <1>1 DEF Before, Listing, NextListing
<1>6. run.since = -1 /\ run.start \in Nat /\ PageSize \in Nat /\ now \in Nat /\ run.src \in Source
  BY <1>2, InventoryListsAll, MapAssumption DEF Never, TypeOK, RunType, InCrawl
<1>7. RootOf[p] \in RootsOf(run.src) /\ RootOf[p] = run.root =>
        /\ Before(p, run.since)' \in Nat /\ Before(p, run.since) \in Nat
        /\ Before(p, run.since)' >= Before(p, run.since)
  <2> SUFFICES ASSUME RootOf[p] \in RootsOf(run.src), RootOf[p] = run.root
               PROVE  /\ Before(p, run.since)' \in Nat /\ Before(p, run.since) \in Nat
                      /\ Before(p, run.since)' >= Before(p, run.since)
    OBVIOUS
  <2>1. CASE Edit(x)
    <3>1. run.since \in Int /\ run.since <= now
      BY <1>6
    <3> QED
      BY <1>5, <2>1, <3>1, EditListing DEF Before
  <2>2. CASE Delete(x)
    <3>1. RootOf[p] # None
      BY MapAssumption DEF RootsOf
    <3>2. Rank(NextListing(RootOf[p], run.since), p) = Before(p, run.since)
      BY <1>3, <2>2, <3>1, DeleteListing DEF Before
    <3> QED
      BY <1>5, <3>2, BeforeNat
  <2> QED
    BY <2>1, <2>2
<1> QED
  BY <1>1, <1>4, <1>6, <1>7 DEF Ahead

\* A step of the crawl that leaves Confluence and the errors alone: what was
\* ahead is ahead, if the run goes on to it.
LEMMA SeesFrame ==
  ASSUME InventorySees, SameSource, InCrawl, UNCHANGED <<wiki, alive>>,
         run'.failed = 0 => run.failed = 0,
         \A p \in Page : Unseen(p)' => Unseen(p),
         ASSUME NEW p \in Page, run.inv, Unseen(p), Unseen(p)', Ahead(p), run'.failed = 0 PROVE Ahead(p)'
  PROVE  InventorySees'
<1>1. run'.inv = run.inv
  BY DEF SameSource, SameQueue, Carried, SameCall
<1> QED
  BY <1>1 DEF InventorySees

LEMMA SeesCrawl ==
  ASSUME TypeOK, Position, InventorySees, Crawl
  PROVE  InventorySees'
<1>1. ASSUME NEW s \in Source, BeginSource(s) PROVE InventorySees'
  <2>1. /\ run'.inv = run.inv /\ run'.only = run.only /\ run'.src = s
        /\ run'.seeds = SeedsDue(s) /\ run'.roots = (IF run.only = None THEN RootsOf(s) ELSE {run.only})
    BY <1>1, BeginSourceDoes DEF Carried, SameCall
  <2>2. run'.inv => run'.seeds = Seeds[s] /\ run'.roots = RootsOf(s)
    BY <2>1 DEF Position, SeedsDue
  <2> QED
    BY <2>1, <2>2 DEF InventorySees, Ahead, RootsOf
<1>2. ASSUME NEW s \in Source, SkipSource(s) PROVE InventorySees'
  BY <1>2, SkipSourceDoes DEF InventorySees, InCrawl
<1>3. ASSUME NEW r \in Root, BeginRoot(r) PROVE InventorySees'
  <2>1. /\ SameSource /\ SameErrors /\ run'.wrote = run.wrote /\ run'.seeds = run.seeds
        /\ run'.roots = run.roots \ {r}
        /\ \/ run'.pc = "root" /\ UseCheckpoint
           \/ run'.pc = "search" /\ run'.root = r /\ run'.start = IF UseCheckpoint THEN ckpt[r] ELSE 0
    BY <1>3, BeginRootDoes
  <2>2. InCrawl /\ run.pc = "root" /\ UNCHANGED <<wiki, alive, missed>>
    BY <1>3 DEF BeginRoot, InCrawl, wikiVars
  <2>3. run.inv => ~UseCheckpoint
    BY DEF UseCheckpoint
  <2>4. ASSUME NEW p \in Page, run.inv, Ahead(p) PROVE Ahead(p)'
    <3>1. Before(p, run'.since) \in Nat
      BY BeforeNat
    <3>2. Before(p, run.since)' = Before(p, run'.since)
      BY <2>2 DEF Before, Listing
    <3> QED
      BY <2>1, <2>2, <2>3, <2>4, <3>1, <3>2 DEF Ahead, SameSource, RootsOf
  <2>5. \A p \in Page : Unseen(p)' => Unseen(p)
    BY <2>1, <2>2 DEF Unseen
  <2> QED
    BY <2>1, <2>2, <2>4, <2>5, SeesFrame DEF SameErrors
<1>4. CASE LeaveRoot(RootError)
  <2>1. run'.failed = run.failed + 1 /\ run.failed \in Nat
    BY <1>4, ErrorDoes DEF TypeOK, RunType
  <2>2. run'.failed # 0
    BY <2>1
  <2> QED
    BY <2>2 DEF InventorySees
<1>5. CASE StopAtLimit
  <2>1. InCrawl /\ LimitHit /\ LeaveRoot(run)
    BY <1>5 DEF StopAtLimit, InCrawl
  <2>2. ~run.inv /\ run'.inv = run.inv
    BY <2>1, InventoryListsAll, LeaveDoes DEF SameSource, SameQueue, Carried, SameCall
  <2> QED
    BY <2>2 DEF InventorySees
<1>6. CASE Search
  <2>1. InCrawl /\ run.pc = "search" /\ UNCHANGED <<wiki, alive, missed>>
    BY <1>6 DEF Search, InCrawl, wikiVars
  <2>2. ASSUME NEW p \in Page, run.inv, Unseen(p), RootOf[p] = run.root, Before(p, run.since) >= run.start
        PROVE  /\ Results # {}
               /\ p \in Results \/ (Cardinality(Results) = PageSize /\ Before(p, run.since) >= run.start + PageSize)
    <3>1. p \in Listing(run.root, run.since)
      BY <2>1, <2>2, InventoryListsAll DEF Unseen
    <3>2. Listing(run.root, run.since) \in SUBSET Nat /\ IsFiniteSet(Listing(run.root, run.since))
      BY ListingFinite
    <3>3. run.start \in Nat
      BY DEF TypeOK, RunType
    <3> QED
      BY <2>2, <3>1, <3>2, <3>3, WindowTakes DEF Results, Before
  <2>4. CASE LeaveRoot(run) /\ Results = {}
    <3>1. /\ SameSource /\ SameErrors /\ run'.wrote = run.wrote /\ run'.seeds = run.seeds
          /\ run'.pc = "root" /\ run'.roots = run.roots
      BY <2>4, LeaveDoes
    <3>2. ASSUME NEW p \in Page, run.inv, Unseen(p), Ahead(p) PROVE Ahead(p)'
      BY <2>1, <2>2, <2>4, <3>1, <3>2 DEF Ahead, SameSource, RootsOf
    <3>3. \A p \in Page : Unseen(p)' => Unseen(p)
      BY <2>1, <3>1 DEF Unseen
    <3> QED
      BY <2>1, <3>1, <3>2, <3>3, SeesFrame DEF SameErrors
  <2>5. CASE /\ SameSource /\ SameErrors /\ run'.wrote = run.wrote /\ run'.seeds = run.seeds
             /\ run'.pc = "fetch" /\ run'.roots = run.roots
             /\ run'.root = run.root /\ run'.start = run.start
             /\ run'.batch = Results /\ run'.full = (Cardinality(Results) = PageSize)
    <3>1. ASSUME NEW p \in Page, run.inv, Unseen(p), Ahead(p) PROVE Ahead(p)'
      <4>1. run'.since = run.since /\ run'.src = run.src
        BY <2>5 DEF SameSource
      <4>2. p \in Seeds[run.src] => p \in run.seeds
        BY <3>1 DEF Ahead
      <4>3. CASE RootOf[p] \in RootsOf(run.src) /\ RootOf[p] \notin run.roots
        <5>1. RootOf[p] = run.root /\ Before(p, run.since) >= run.start
          BY <2>1, <3>1, <4>3 DEF Ahead
        <5>2. p \in Results \/ (Cardinality(Results) = PageSize /\ Before(p, run.since) >= run.start + PageSize)
          BY <2>2, <3>1, <5>1
        <5>3. Before(p, run.since)' = Before(p, run.since)
          BY <2>1, <4>1 DEF Before, Listing
        <5> QED
          BY <2>5, <4>1, <4>2, <5>1, <5>2, <5>3 DEF Ahead
      <4>4. CASE ~(RootOf[p] \in RootsOf(run.src) /\ RootOf[p] \notin run.roots)
        BY <2>5, <4>1, <4>2, <4>4 DEF Ahead, RootsOf
      <4> QED
        BY <4>3, <4>4
    <3>2. \A p \in Page : Unseen(p)' => Unseen(p)
      BY <2>1, <2>5 DEF Unseen
    <3> QED
      BY <2>1, <2>5, <3>1, <3>2, SeesFrame DEF SameErrors
  <2> QED
    BY <1>4, <1>6, <2>4, <2>5, SearchDoes
<1>7. ASSUME NEW q \in Page, FetchPage(q) \/ FetchSeed(q) PROVE InventorySees'
  <2>1. /\ WritePage(q) \/ PageFails(q)
        /\ InCrawl /\ UNCHANGED <<wiki, alive>>
    BY <1>7 DEF FetchPage, FetchSeed, InCrawl, wikiVars
  <2>2. /\ SameSource /\ run'.pc = run.pc /\ run'.roots = run.roots
        /\ run'.root = run.root /\ run'.start = run.start /\ run'.full = run.full
        /\ run'.batch = run.batch \ {q} /\ run'.seeds = run.seeds \ {q}
    BY <2>1, PageDoes
  <2>3. CASE PageFails(q)
    <3>1. run.failed \in Nat /\ run'.failed # 0
      BY <2>3 DEF PageFails, TypeOK, RunType
    <3> QED
      BY <3>1 DEF InventorySees
  <2>4. CASE WritePage(q) /\ SameErrors /\ run'.wrote = run.wrote \cup {q}
    <3>1. missed' = missed \ {q}
      BY <2>4 DEF WritePage
    <3>2. \A p \in Page : Unseen(p)' => Unseen(p) /\ p # q
      BY <2>1, <2>4, <3>1 DEF Unseen
    <3>3. \A p : Before(p, run.since)' = Before(p, run.since)
      BY <2>1, <2>2 DEF Before, Listing, SameSource
    <3>4. ASSUME NEW p \in Page, Unseen(p)', Ahead(p) PROVE Ahead(p)'
      <4>1. run'.src = run.src /\ p # q
        BY <2>2, <3>2, <3>4 DEF SameSource
      <4> QED
        BY <2>2, <3>3, <3>4, <4>1 DEF Ahead, RootsOf
    <3> QED
      BY <2>1, <2>2, <2>4, <3>2, <3>4, SeesFrame DEF SameErrors
  <2> QED
    BY <2>1, <2>3, <2>4, PageDoes
<1>8. CASE EndBatch
  <2>1. /\ InCrawl /\ run.pc = "fetch" /\ UNCHANGED <<wiki, alive, missed>>
        /\ run.batch = {} \/ LimitHit
    BY <1>8 DEF EndBatch, InCrawl, wikiVars
  <2>2. run.inv => run.batch = {}
    BY <2>1, InventoryListsAll
  <2>3. CASE LeaveRoot(run) /\ ~run.full
    <3>1. /\ SameSource /\ SameErrors /\ run'.wrote = run.wrote /\ run'.seeds = run.seeds
          /\ run'.pc = "root" /\ run'.roots = run.roots
      BY <2>3, LeaveDoes
    <3>2. ASSUME NEW p \in Page, run.inv, Ahead(p) PROVE Ahead(p)'
      BY <2>1, <2>2, <2>3, <3>1, <3>2 DEF Ahead, SameSource, RootsOf
    <3>3. \A p \in Page : Unseen(p)' => Unseen(p)
      BY <2>1, <3>1 DEF Unseen
    <3> QED
      BY <2>1, <3>1, <3>2, <3>3, SeesFrame DEF SameErrors
  <2>4. CASE /\ SameSource /\ SameErrors /\ run'.wrote = run.wrote /\ run'.seeds = run.seeds
             /\ run'.pc = "search" /\ run'.roots = run.roots
             /\ run'.root = run.root /\ run'.start = NextOffset /\ run.full
    <3>1. \A p : Before(p, run.since)' = Before(p, run.since)
      BY <2>1, <2>4 DEF Before, Listing, SameSource
    <3>2. ASSUME NEW p \in Page, run.inv, Ahead(p) PROVE Ahead(p)'
      BY <2>1, <2>2, <2>4, <3>1, <3>2 DEF Ahead, SameSource, RootsOf, NextOffset
    <3>3. \A p \in Page : Unseen(p)' => Unseen(p)
      BY <2>1, <2>4 DEF Unseen
    <3> QED
      BY <2>1, <2>4, <3>2, <3>3, SeesFrame DEF SameErrors
  <2> QED
    BY <1>8, <2>3, <2>4, EndBatchDoes
<1> QED
  BY <1>1, <1>2, <1>3, <1>4, <1>5, <1>6, <1>7, <1>8 DEF Crawl, SearchFails, RootError

LEMMA SeesStep == TypeOK /\ ClockAhead /\ Position /\ InventorySees /\ [Next]_vars => InventorySees'
<1> SUFFICES ASSUME TypeOK, ClockAhead, Position, InventorySees, [Next]_vars PROVE InventorySees'
  OBVIOUS
<1>1. ASSUME run'.pc \notin {"root", "search", "fetch"} PROVE InventorySees'
  BY <1>1 DEF InventorySees, InCrawl
<1>2. CASE (\E o \in SyncOption : StartSync(o)) \/ (\E s \in Source, o \in InvOption : StartInventory(s, o))
  BY <1>1, <1>2, StartDoes
<1>3. ASSUME run' = NoRun PROVE InventorySees'
  BY <1>1, <1>3 DEF NoRun
<1>4. CASE Crash \/ IngestRaises \/ Return
  BY <1>3, <1>4 DEF Crash, IngestRaises, Return
<1>5. CASE SourcesDone \/ Archive \/ Ingest \/ Embed
  BY <1>1, <1>3, <1>5, SettleDoes
<1>6. CASE Judge
  BY <1>1, <1>6, JudgeDoes
<1>7. ASSUME NEW s \in Source, AdvanceCursor(s) PROVE InventorySees'
  BY <1>1, <1>7, CommitDoes
<1>8. CASE ClearCheckpoints
  BY <1>1, <1>8, ClearDoes
<1>9. CASE UNCHANGED vars
  BY <1>9 DEF vars, wikiVars, InventorySees, InCrawl, Unseen, Ahead, Before, Listing
<1> QED
  BY <1>2, <1>4, <1>5, <1>6, <1>7, <1>8, <1>9, SeesWiki, SeesCrawl DEF Next, Settle

\* A page that goes from active to archived is gone from Confluence, or a
\* deletion shifted it out of the window while the inventory paged: however
\* the crawl was interrupted or went wrong, a page that is still listed keeps
\* its place in the index.
THEOREM ArchivesGone == Spec => ArchivesOnlyGone
<1>1. Init => InventorySees
  BY DEF Init, NoRun, InventorySees, InCrawl
<1>2. LossInv => ClockAhead /\ Position
  BY DEF LossInv
<1>3. TypeOK /\ Position /\ InventorySees /\ [Next]_vars =>
        [\A p \in Page : status[p] = "active" /\ status'[p] = "archived" => p \notin alive \/ p \in missed]_vars
  <2> SUFFICES ASSUME TypeOK, Position, InventorySees, Next, NEW p \in Page,
                      status[p] = "active", status'[p] = "archived"
               PROVE  p \notin alive \/ p \in missed
    OBVIOUS
  <2>1. CASE Archive
    <3>1. /\ run.inv /\ InCrawl /\ run.pc = "root" /\ run.roots = {} /\ run.seeds = {}
          /\ p \in Gone
      BY <2>1 DEF Archive, Crawled, InCrawl
    <3>2. run.failed = 0 /\ p \in run.prev /\ p \notin run.wrote
      <4>1. run.failed \in Nat
        BY DEF TypeOK, RunType
      <4> QED
        BY <3>1, <4>1 DEF Gone
    <3>3. p \in PagesOf(run.src)
      BY <3>1, <3>2 DEF Position
    <3>4. ~Ahead(p)
      BY <3>1, <3>3 DEF Ahead, PagesOf
    <3> QED
      BY <3>1, <3>2, <3>4 DEF InventorySees, Unseen
  <2>2. ASSUME NEW S, Upsert(S) PROVE FALSE
    BY <2>2 DEF Upsert
  <2>3. CASE Ingest \/ IngestRaises
    BY <2>2, <2>3 DEF Ingest, IngestRaises
  <2>4. CASE Judge \/ SourcesDone \/ Embed \/ ClearCheckpoints \/ Return
    BY <2>4 DEF Judge, SourcesDone, Embed, ClearCheckpoints, Return, diskVars
  <2>5. ASSUME NEW s \in Source, AdvanceCursor(s) PROVE FALSE
    BY <2>5 DEF AdvanceCursor, diskVars
  <2>6. CASE Crawl
    BY <2>6 DEF Crawl, BeginSource, SkipSource, BeginRoot, SearchFails, Search, StopAtLimit,
                FetchPage, FetchSeed, EndBatch, diskVars
  <2>7. /\ \A x \in Page : ~Edit(x)
        /\ \A x \in Page : ~Delete(x)
        /\ ~Crash
    BY DEF Edit, Delete, Crash, diskVars
  <2>8. /\ \A o \in SyncOption : ~StartSync(o)
        /\ \A s \in Source, o \in InvOption : ~StartInventory(s, o)
    BY DEF StartSync, StartInventory, diskVars
  <2> QED
    BY <2>1, <2>3, <2>4, <2>5, <2>6, <2>7, <2>8 DEF Next, Settle
<1> QED
  BY <1>1, <1>2, <1>3, SeesStep, LossInvariant, TypeCorrect, PTL DEF Spec, ArchivesOnlyGone

-----------------------------------------------------------------------------
(* Commits and the ingest before them. *)

\* Every file is in the index as it is, and active.
IndexHas == \A p \in Page : raw[p] # Never => doc[p] = raw[p] /\ status[p] = "active"

\* Past its ingest a run finds the index complete: it holds the lock, and crawls no
\* more.  An inventory never comes to where commits begin, since its one source waits
\* until it is crawled.
IngestFirst ==
  /\ budget["doc"] <= Budget["doc"]
  /\ run.inv => run.only = None /\ (run.pc = "source" => run.todo # {})
  /\ run.pc \in {"embed", "commit", "clear"} /\ run.ingest /\ NoneFailed => IndexHas

LEMMA OtherFaults ==
  ASSUME TypeOK, NEW f, f # "doc", Spend(f) \/ UNCHANGED budget
  PROVE  budget'["doc"] = budget["doc"]
<1>1. budget \in [Fault -> Nat]
  BY DEF TypeOK
<1> QED
  BY <1>1 DEF Spend, Fault

LEMMA CrawlKeepsCall ==
  ASSUME TypeOK, Crawl
  PROVE  /\ run'.pc \in {"source", "root", "search", "fetch"} /\ run'.inv = run.inv /\ run'.only = run.only
         /\ run'.pc = "source" => run.only # None
         /\ budget'["doc"] = budget["doc"]
<1> DEFINE Kept == /\ run'.pc \in {"source", "root", "search", "fetch"} /\ run'.inv = run.inv /\ run'.only = run.only
                   /\ run'.pc = "source" => run.only # None
                   /\ budget'["doc"] = budget["doc"]
<1>1. ASSUME NEW s \in Source, BeginSource(s) PROVE Kept
  BY <1>1, BeginSourceDoes, OtherFaults DEF BeginSource, Carried, SameCall
<1>2. ASSUME NEW s \in Source, SkipSource(s) PROVE Kept
  BY <1>2, SkipSourceDoes, OtherFaults DEF SkipSource, Carried, SameCall
<1>3. ASSUME NEW r \in Root, BeginRoot(r) PROVE Kept
  BY <1>3, BeginRootDoes, OtherFaults DEF BeginRoot, SameSource, SameQueue, Carried, SameCall
<1>4. CASE SearchFails \/ StopAtLimit
  <2>1. (LeaveRoot(run) \/ LeaveRoot(RootError)) /\ (Spend("search") \/ UNCHANGED budget)
    BY <1>4 DEF SearchFails, StopAtLimit, RootError
  <2> QED
    BY <2>1, LeaveDoes, ErrorDoes, OtherFaults DEF SameSource, SameQueue, Carried, SameCall
<1>5. CASE Search
  BY <1>5, SearchDoes, LeaveDoes, ErrorDoes, OtherFaults DEF Search, SameSource, SameQueue, Carried, SameCall
<1>6. CASE EndBatch
  BY <1>6, EndBatchDoes, LeaveDoes, OtherFaults DEF EndBatch, SameSource, SameQueue, Carried, SameCall
<1>7. ASSUME NEW p \in Page, FetchPage(p) \/ FetchSeed(p) PROVE Kept
  <2>1. (WritePage(p) \/ PageFails(p)) /\ run.pc \in {"root", "fetch"}
    BY <1>7 DEF FetchPage, FetchSeed
  <2>2. Spend("page") \/ UNCHANGED budget
    BY <2>1 DEF WritePage, PageFails
  <2> QED
    BY <2>1, <2>2, PageDoes, OtherFaults DEF SameSource, SameQueue, Carried, SameCall
<1> QED
  BY <1>1, <1>2, <1>3, <1>4, <1>5, <1>6, <1>7 DEF Crawl

LEMMA IngestStep == TypeOK /\ IngestFirst /\ [Next]_vars => IngestFirst'
<1> SUFFICES ASSUME TypeOK, IngestFirst, [Next]_vars PROVE IngestFirst'
  OBVIOUS
<1>0. budget["doc"] \in Nat /\ Budget["doc"] \in Nat /\ run \in RunType
  BY MapAssumption DEF TypeOK, Fault
<1>1. ASSUME run' = NoRun, budget'["doc"] = budget["doc"] PROVE IngestFirst'
  BY <1>1 DEF IngestFirst, NoRun
<1>2. ASSUME UNCHANGED <<raw, doc, status>>, run' = run, budget'["doc"] = budget["doc"] PROVE IngestFirst'
  BY <1>2 DEF IngestFirst, IndexHas, NoneFailed
<1>3. ASSUME NEW x \in Page, Edit(x) \/ Delete(x) PROVE IngestFirst'
  <2>1. UNCHANGED <<raw, doc, status>> /\ run' = run /\ (Spend("delete") \/ UNCHANGED budget)
    BY <1>3 DEF Edit, Delete, diskVars
  <2> QED
    BY <1>2, <2>1, OtherFaults
<1>4. CASE UNCHANGED vars
  BY <1>2, <1>4 DEF vars, diskVars
<1>5. CASE (\E o \in SyncOption : StartSync(o)) \/ (\E s \in Source, o \in InvOption : StartInventory(s, o))
  <2>1. run'.pc = "source" /\ budget' = budget
    BY <1>5, StartDoes DEF StartSync, StartInventory
  <2>2. ASSUME NEW o \in SyncOption, StartSync(o) PROVE ~run'.inv
    BY <2>2 DEF StartSync, NoRun
  <2>3. ASSUME NEW s \in Source, NEW o \in InvOption, StartInventory(s, o) PROVE run'.only = None /\ run'.todo = {s}
    BY <2>3 DEF StartInventory, NoRun
  <2> QED
    BY <1>5, <2>1, <2>2, <2>3 DEF IngestFirst
<1>6. CASE Crawl
  BY <1>6, CrawlKeepsCall DEF IngestFirst
<1>7. CASE Judge
  <2>1. run'.inv = run.inv /\ ~run.inv /\ run'.pc = "source" /\ budget' = budget
    BY <1>7, JudgeDoes DEF Judge, Carried, SameCall
  <2> QED
    BY <2>1 DEF IngestFirst
<1>8. CASE SourcesDone
  <2>1. ~run.inv /\ budget' = budget
    BY <1>8 DEF SourcesDone, IngestFirst
  <2>2. CASE run' = NoRun
    BY <1>1, <2>1, <2>2
  <2>3. CASE run' # NoRun
    <3>1. run' = [run EXCEPT !.pc = AfterCrawl]
      BY <1>8, <2>3 DEF SourcesDone
    <3>2. run'.pc = AfterCrawl /\ run'.inv = run.inv /\ run'.ingest = run.ingest
      BY <1>0, <3>1 DEF RunType
    <3> QED
      BY <2>1, <3>2 DEF IngestFirst, AfterCrawl
  <2> QED
    BY <2>2, <2>3
<1>9. CASE Archive
  <2>1. PICK l \in {"ingest", "report"} : run' = [run EXCEPT !.pc = l, !.archived = Gone] /\ budget' = budget
    BY <1>9 DEF Archive
  <2>2. run'.pc = l /\ run'.inv = run.inv /\ run'.only = run.only
    BY <1>0, <2>1 DEF RunType
  <2> QED
    BY <2>1, <2>2 DEF IngestFirst
<1>10. CASE Ingest
  <2>1. PICK l \in {"report", "embed"} : run' = [run EXCEPT !.pc = l] /\ raw' = raw
    BY <1>10 DEF Ingest, Goto
  <2>2. run'.pc = l /\ run'.inv = run.inv /\ run'.only = run.only
    BY <1>0, <2>1 DEF RunType
  <2>3. CASE Upsert(OnDisk) /\ UNCHANGED budget
    <3>1. IndexHas'
      BY <2>1, <2>3 DEF Upsert, OnDisk, IndexHas
    <3> QED
      BY <2>2, <2>3, <3>1 DEF IngestFirst
  <2>4. CASE Spend("doc")
    <3>1. budget'["doc"] = budget["doc"] - 1
      BY <2>4 DEF Spend, TypeOK, Fault
    <3> QED
      BY <1>0, <2>2, <3>1 DEF IngestFirst, NoneFailed
  <2> QED
    BY <1>10, <2>3, <2>4 DEF Ingest
<1>11. CASE IngestRaises \/ Return \/ Crash
  <2>1. run' = NoRun /\ (Spend("ingest") \/ Spend("crash") \/ UNCHANGED budget)
    BY <1>11 DEF IngestRaises, Return, Crash
  <2> QED
    BY <1>1, <2>1, OtherFaults
<1>12. ASSUME run.pc \in {"embed", "commit", "clear"}, run'.pc \in {"commit", "clear"}, run'.inv = run.inv, run'.only = run.only,
              run'.ingest = run.ingest, UNCHANGED <<raw, doc, status>>, budget'["doc"] = budget["doc"]
       PROVE  IngestFirst'
  BY <1>12 DEF IngestFirst, IndexHas, NoneFailed
<1>13. CASE Embed
  <2>1. /\ run.pc = "embed" /\ run' = [run EXCEPT !.pc = "commit"] /\ UNCHANGED <<raw, doc, status>>
        /\ Spend("embed") \/ UNCHANGED budget
    BY <1>13 DEF Embed, Goto
  <2>2. run'.pc = "commit" /\ run'.inv = run.inv /\ run'.only = run.only /\ run'.ingest = run.ingest
    BY <1>0, <2>1 DEF RunType
  <2> QED
    BY <1>12, <2>1, <2>2, OtherFaults
<1>14. ASSUME NEW s \in Source, AdvanceCursor(s) PROVE IngestFirst'
  <2>1. run.pc = "commit" /\ UNCHANGED <<raw, doc, status, budget>>
    BY <1>14 DEF AdvanceCursor, diskVars
  <2> QED
    BY <1>12, <1>14, <2>1, CommitDoes DEF Carried, SameCall
<1>15. CASE ClearCheckpoints
  <2>1. run.pc = "clear" /\ UNCHANGED <<raw, doc, status, budget>>
    BY <1>15 DEF ClearCheckpoints, diskVars
  <2> QED
    BY <1>12, <1>15, <2>1, ClearDoes DEF SameQueue, Carried, SameCall
<1> QED
  BY <1>3, <1>4, <1>5, <1>6, <1>7, <1>8, <1>9, <1>10, <1>11, <1>13, <1>14, <1>15 DEF Next, Settle

\* _sync_map_body: as long as no file has failed in an ingest, a run that ingests moves a
\* cursor only when every file on disk is in `documents' as it is, and active.  A run that
\* dies, or whose ingest raises, commits nothing.
THEOREM CommitsComeAfter == Spec => CommitAfterIngest
<1>1. Init => IngestFirst
  <2>1. Budget["doc"] \in Nat
    BY MapAssumption DEF Fault
  <2> QED
    BY <2>1 DEF Init, NoRun, IngestFirst
<1>2. IngestFirst /\ [Next]_vars => [run.ingest /\ NoneFailed => CommitsIngested]_vars
  <2> SUFFICES ASSUME IngestFirst, Next, run.ingest, NoneFailed, NEW t \in Source, cursor'[t] # cursor[t]
               PROVE  \A p \in Page : raw[p] # Never => doc[p] = raw[p] /\ status[p] = "active"
    BY DEF CommitsIngested
  <2>1. ASSUME NEW s \in Source, AdvanceCursor(s) PROVE IndexHas
    BY <2>1 DEF AdvanceCursor, IngestFirst
  <2>2. ~Crawl
    BY DEF Crawl, BeginSource, SkipSource, BeginRoot, SearchFails, Search, StopAtLimit,
           FetchPage, FetchSeed, EndBatch, rowVars
  <2>3. ~Judge /\ ~SourcesDone /\ ~Archive /\ ~Ingest /\ ~IngestRaises /\ ~Embed /\ ~ClearCheckpoints /\ ~Return
    BY DEF Judge, SourcesDone, Archive, Ingest, IngestRaises, Embed, ClearCheckpoints, Return, rowVars
  <2>4. ~Crash /\ (\A x \in Page : ~Edit(x) /\ ~Delete(x)) /\ (\A o \in SyncOption : ~StartSync(o))
        /\ (\A s \in Source, o \in InvOption : ~StartInventory(s, o))
    BY DEF Crash, Edit, Delete, StartSync, StartInventory, rowVars
  <2> QED
    BY <2>1, <2>2, <2>3, <2>4 DEF Next, Settle, IndexHas
<1> QED
  BY <1>1, <1>2, IngestStep, TypeCorrect, PTL DEF Spec, CommitAfterIngest
=============================================================================
