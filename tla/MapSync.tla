------------------------------- MODULE MapSync -------------------------------
(***************************************************************************)
(* The confluence_map pipeline: apps/api/app/confluence/map_sync.py with   *)
(* the parts of the ingest and embed jobs it calls.                        *)
(*                                                                         *)
(* A run (sync_map, or the weekly run_map_inventory) holds the session     *)
(* advisory lock from start to end, so at most one is in progress and its  *)
(* local variables are one record, `run'.  A call that finds the lock held *)
(* returns {"skipped": True} and changes nothing: it is a stuttering step. *)
(* Confluence changes under the run between any two of its requests.  The  *)
(* process may die between any two steps; PostgreSQL then drops the lock,  *)
(* and what is left is what was committed: cursors, checkpoints,           *)
(* documents, chunks, and the raw files on disk.                           *)
(*                                                                         *)
(* Time is the logical clock `now', advanced by every edit, and a page's   *)
(* content is the time of its last edit.  "Never" stands for a cursor that *)
(* is None, a raw file or a document that does not exist.                  *)
(***************************************************************************)
EXTENDS Integers, FiniteSets

CONSTANTS
  Source,         \* rows of `sources` with type confluence_map
  Root,           \* root pages listed in Source.config["roots"]
  Page,           \* page ids: naturals, since a listing is ordered by id
  SourceOf,       \* Root -> Source
  RootOf,         \* Page -> the root above it, or None for a lone seed page
  Seeds,          \* Source -> SUBSET Page: Source.config["explicit_pages"]
  PageSize,       \* _PAGE_SIZE
  Margin,         \* _LAST_SYNC_MARGIN, in clock units
  MaxErrorPct,    \* CONFLUENCE_MAX_ERROR_RATE, in percent
  MaxErrorCount,  \* CONFLUENCE_MAX_ERROR_COUNT
  None,           \* root_id=None; no source or root is being crawled
  SyncOption,     \* the calls of sync_map() considered: see Options
  InvOption,      \* the calls of run_map_inventory() considered
  MaxClock,       \* bound on the number of edits
  Budget          \* bound on the faults of each kind

Never == -1
Done  == -1       \* the checkpoint {"done": True}; 0 is an absent checkpoint
Fault == {"crash", "search", "page", "ingest", "doc", "embed", "delete"}

\* Arguments of sync_map(); limit = 0 stands for max_pages_per_root=None.
\* sources = Source stands for source_ids=None.
Options == [dry : BOOLEAN, ingest : BOOLEAN, only : Root \cup {None}, limit : Nat,
            sources : SUBSET Source]

ASSUME MapAssumption ==
  /\ IsFiniteSet(Page) /\ Page \subseteq Nat
  /\ SourceOf \in [Root -> Source]
  /\ RootOf \in [Page -> Root \cup {None}]
  /\ Seeds \in [Source -> SUBSET Page]
  /\ PageSize \in Nat \ {0}
  /\ Margin \in Nat /\ MaxErrorPct \in Nat /\ MaxErrorCount \in Nat
  /\ None \notin Root \cup Source
  /\ SyncOption \subseteq Options
  /\ InvOption \subseteq [dry : BOOLEAN, ingest : BOOLEAN]
  /\ MaxClock \in Nat
  /\ Budget \in [Fault -> Nat]

VARIABLES
  now,      \* logical clock
  wiki,     \* Page -> time of the page's last edit in Confluence
  alive,    \* the pages Confluence lists (not deleted, not moved away)
  raw,      \* Page -> edit held by the file under data/raw/confluence_map
  doc,      \* Page -> edit held by its row of `documents`
  status,   \* Page -> Document.status
  vec,      \* pages whose active chunks all have an embedding
  cursor,   \* Source -> Source.last_sync_at
  ckpt,     \* Root -> Source.config["checkpoint"][root]
  run,      \* locals of the run that holds the lock
  budget,   \* faults that may still happen
  cycle,    \* history: Source -> start of the oldest run the checkpoints stem from
  missed    \* history: edits the pipeline has let go, see LossesAccounted

wikiVars == <<now, wiki, alive>>
diskVars == <<raw, doc, status, vec>>
rowVars  == <<cursor, ckpt>>
vars     == <<wikiVars, diskVars, rowVars, run, budget, cycle, missed>>

-----------------------------------------------------------------------------
(* Runs. *)

Phase == {"idle", "source", "root", "search", "fetch",
          "ingest", "embed", "commit", "clear", "report"}

NoRun ==
  [pc |-> "idle", inv |-> FALSE, dry |-> FALSE, ingest |-> FALSE, only |-> None,
   limit |-> 0, started |-> 0, todo |-> {}, staged |-> {},        \* the call
   src |-> None, since |-> Never, roots |-> {}, seeds |-> {}, prev |-> {},
   wrote |-> {}, tried |-> 0, failed |-> 0, rootfailed |-> FALSE, \* its source
   root |-> None, start |-> 0, seen |-> {}, batch |-> {}, full |-> FALSE,
   inroot |-> 0,                                                  \* its root
   archived |-> {}]

RootsOf(s)  == {r \in Root : SourceOf[r] = s}
PagesOf(s)  == {p \in Page : RootOf[p] \in RootsOf(s)} \cup Seeds[s]

\* truncated = max_pages_per_root is not None or root_id is not None
Truncated     == run.limit > 0 \/ run.only # None
MutSmokeTest  == ~run.inv                  \* mutant: --root-id checkpoints too
UseCheckpoint == ~run.inv /\ ~Truncated
LimitHit      == run.limit > 0 /\ run.inroot >= run.limit

\* Where a source's listing starts: an inventory lists everything.
Since(s)    == IF run.inv THEN Never ELSE cursor[s]

\* The cursor a completed run commits.
NewCursor    == run.started - Margin

\* What follows the crawl of the last source.
MutAfterCrawl == "commit"                  \* mutant: commit, then ingest
AfterCrawl    == IF run.ingest THEN "ingest" ELSE "commit"

\* The explicit pages a run fetches: all of them, whatever the checkpoints say.
MutSeedsDue(s) == IF UseCheckpoint /\ \A r \in RootsOf(s) : ckpt[r] # 0 THEN {} ELSE Seeds[s]
SeedsDue(s)    == IF run.only = None THEN Seeds[s] ELSE {}

\* errors_allow_cursor_advance(): a root-level error is never tolerated,
\* page-level errors up to a rate or up to a count.
ErrorsAllowAdvance ==
  ~run.rootfailed /\ (\/ run.failed = 0
                      \/ 100 * run.failed <= MaxErrorPct * run.tried
                      \/ run.failed <= MaxErrorCount)

\* The answer of the CQL search "ancestor = r [and lastmodified > since] order
\* by id asc" and its window [start, start + PageSize).
Listing(r, since)    == {p \in alive : RootOf[p] = r /\ wiki[p] > since}
Window(S, start)     == {p \in S : Cardinality({q \in S : q < p}) \in start .. start + PageSize - 1}

Spend(f) == budget[f] > 0 /\ budget' = [budget EXCEPT ![f] = @ - 1]
Goto(l)  == run' = [run EXCEPT !.pc = l]

Init ==
  /\ now = 0
  /\ wiki = [p \in Page |-> 0] /\ alive = Page
  /\ raw = [p \in Page |-> Never] /\ doc = [p \in Page |-> Never]
  /\ status = [p \in Page |-> "active"] /\ vec = {}
  /\ cursor = [s \in Source |-> Never] /\ ckpt = [r \in Root |-> 0]
  /\ run = NoRun
  /\ budget = Budget
  /\ cycle = [s \in Source |-> 0] /\ missed = {}

-----------------------------------------------------------------------------
(* Confluence. *)

\* Somebody edits a page.
Edit(p) ==
  /\ now < MaxClock /\ p \in alive
  /\ now' = now + 1
  /\ wiki' = [wiki EXCEPT ![p] = now + 1]
  /\ UNCHANGED <<alive, diskVars, rowVars, run, budget, cycle, missed>>

\* A page is deleted, or moved out of every root.  The listing loses an entry,
\* and the later entries of a root whose crawl is under way shift to lower
\* offsets.
Delete(p) ==
  /\ p \in alive /\ Spend("delete")
  /\ alive' = alive \ {p}
  /\ LET r == RootOf[p]
     IN missed' = IF r # None /\ (run.root = r \/ ckpt[r] > 0)
                  THEN missed \cup {q \in Page : RootOf[q] = r /\ q > p}
                  ELSE missed
  /\ UNCHANGED <<now, wiki, diskVars, rowVars, run, cycle>>

-----------------------------------------------------------------------------
(* The crawl: _crawl_map_source() and _crawl_explicit_pages(). *)

\* sync_map() acquires the lock; run_started = _now().
StartSync(o) ==
  /\ run.pc = "idle"
  /\ run' = [NoRun EXCEPT !.pc = "source", !.dry = o.dry, !.ingest = o.ingest,
                          !.only = o.only, !.limit = o.limit,
                          !.started = now, !.todo = o.sources]
  /\ UNCHANGED <<wikiVars, diskVars, rowVars, budget, cycle, missed>>

\* run_map_inventory() of one source acquires the same lock.
StartInventory(s, o) ==
  /\ run.pc = "idle"
  /\ run' = [NoRun EXCEPT !.pc = "source", !.inv = TRUE, !.dry = o.dry,
                          !.ingest = o.ingest, !.started = now, !.todo = {s}]
  /\ UNCHANGED <<wikiVars, diskVars, rowVars, budget, cycle, missed>>

\* The next source: its cursor is read; an inventory reads the documents
\* indexed so far and lists everything.
BeginSource(s) ==
  /\ run.pc = "source" /\ s \in run.todo
  /\ run.only # None => run.only \in RootsOf(s)
  /\ run' = [run EXCEPT
       !.pc = "root", !.src = s, !.todo = @ \ {s},
       !.since = Since(s),
       !.roots = IF run.only = None THEN RootsOf(s) ELSE {run.only},
       !.seeds = SeedsDue(s),
       !.prev  = {p \in PagesOf(s) : doc[p] # Never /\ status[p] = "active"}]
  /\ cycle' = IF UseCheckpoint /\ \A r \in RootsOf(s) : ckpt[r] = 0
              THEN [cycle EXCEPT ![s] = run.started] ELSE cycle
  /\ UNCHANGED <<wikiVars, diskVars, rowVars, budget, missed>>

\* --root-id names a root of another source.
SkipSource(s) ==
  /\ run.pc = "source" /\ s \in run.todo
  /\ run.only # None /\ run.only \notin RootsOf(s)
  /\ run' = [run EXCEPT !.todo = @ \ {s}]
  /\ UNCHANGED <<wikiVars, diskVars, rowVars, budget, cycle, missed>>

\* The next root: skipped when its checkpoint says done, resumed at the saved
\* offset otherwise.
BeginRoot(r) ==
  /\ run.pc = "root" /\ r \in run.roots
  /\ run' = IF UseCheckpoint /\ ckpt[r] = Done
            THEN [run EXCEPT !.roots = @ \ {r}]
            ELSE [run EXCEPT !.pc = "search", !.roots = @ \ {r}, !.root = r,
                             !.start = IF UseCheckpoint THEN ckpt[r] ELSE 0,
                             !.seen = {}, !.inroot = 0]
  /\ UNCHANGED <<wikiVars, diskVars, rowVars, budget, cycle, missed>>

\* _save_root_checkpoint(), a transaction of its own.
SaveCheckpoint(v) ==
  ckpt' = IF UseCheckpoint THEN [ckpt EXCEPT ![run.root] = v] ELSE ckpt

\* The root is over, with `more' updates of the run's record.
LeaveRoot(r0) == run' = [r0 EXCEPT !.pc = "root", !.root = None, !.batch = {}, !.seen = {}]

\* The search request fails: a root-level error, the checkpoint stays.
SearchFails ==
  /\ run.pc = "search" /\ ~LimitHit /\ Spend("search")
  /\ LeaveRoot([run EXCEPT !.rootfailed = TRUE, !.failed = @ + 1, !.tried = @ + 1])
  /\ UNCHANGED <<wikiVars, diskVars, rowVars, cycle, missed>>

\* The search request answers with the window at the current offset.
Search ==
  /\ run.pc = "search" /\ ~LimitHit
  /\ LET results == Window(Listing(run.root, run.since), run.start)
     IN \/ /\ results = {}
           /\ LeaveRoot(run) /\ SaveCheckpoint(Done)
        \/ /\ results # {} /\ results \subseteq run.seen
           /\ LeaveRoot([run EXCEPT !.rootfailed = TRUE, !.failed = @ + 1, !.tried = @ + 1])
           /\ UNCHANGED ckpt
        \/ /\ ~(results \subseteq run.seen)
           /\ run' = [run EXCEPT !.pc = "fetch", !.batch = results, !.seen = @ \cup results,
                                 !.full = Cardinality(results) = PageSize]
           /\ UNCHANGED ckpt
  /\ UNCHANGED <<wikiVars, diskVars, cursor, budget, cycle, missed>>

\* --max-pages reached at the top of the loop.
StopAtLimit ==
  /\ run.pc = "search" /\ LimitHit
  /\ LeaveRoot(run)
  /\ UNCHANGED <<wikiVars, diskVars, rowVars, budget, cycle, missed>>

\* get_page_full() and _write_map_page(): the file holds the page as it is now.
WritePage(p) ==
  /\ p \in alive
  /\ raw' = [raw EXCEPT ![p] = wiki[p]]
  /\ run' = [run EXCEPT !.batch = @ \ {p}, !.seeds = @ \ {p}, !.wrote = @ \cup {p},
                        !.tried = @ + 1, !.inroot = @ + 1]
  /\ missed' = missed \ {p}
  /\ UNCHANGED budget

\* The request fails, or the page is gone since it was listed: a page error.
PageFails(p) ==
  /\ IF p \in alive THEN Spend("page") ELSE UNCHANGED budget
  /\ run' = [run EXCEPT !.batch = @ \ {p}, !.seeds = @ \ {p},
                        !.tried = @ + 1, !.failed = @ + 1]
  /\ missed' = IF UseCheckpoint THEN missed \cup {p} ELSE missed
  /\ UNCHANGED raw

FetchPage(p) ==
  /\ run.pc = "fetch" /\ ~LimitHit
  /\ p \in run.batch /\ \A q \in run.batch : p <= q
  /\ WritePage(p) \/ PageFails(p)
  /\ UNCHANGED <<wikiVars, doc, status, vec, rowVars, cycle>>

\* After the window: a short one was the last of the root.
MutNextOffset == run.start + PageSize + 1  \* mutant: one page too far
NextOffset    == run.start + PageSize

EndBatch ==
  /\ run.pc = "fetch" /\ (run.batch = {} \/ LimitHit)
  /\ IF run.full
     THEN /\ run' = [run EXCEPT !.pc = "search", !.batch = {}, !.start = NextOffset]
          /\ SaveCheckpoint(NextOffset)
     ELSE LeaveRoot(run) /\ SaveCheckpoint(Done)
  /\ UNCHANGED <<wikiVars, diskVars, cursor, budget, cycle, missed>>

\* The explicit pages follow the roots.
FetchSeed(p) ==
  /\ run.pc = "root" /\ run.roots = {} /\ p \in run.seeds
  /\ WritePage(p) \/ PageFails(p)
  /\ UNCHANGED <<wikiVars, doc, status, vec, rowVars, cycle>>

-----------------------------------------------------------------------------
(* After the crawl: _sync_map_body() and _run_map_inventory_locked(). *)

\* The source's crawl is over.
Crawled == run.pc = "root" /\ run.roots = {} /\ run.seeds = {}

\* can_advance decides whether the source's commit is staged.
Judge ==
  /\ Crawled /\ ~run.inv
  /\ run' = [run EXCEPT !.pc = "source", !.src = None, !.prev = {}, !.wrote = {},
                        !.tried = 0, !.failed = 0, !.rootfailed = FALSE,
                        !.staged = IF ~run.dry /\ ~Truncated /\ ErrorsAllowAdvance
                                   THEN @ \cup {run.src} ELSE @]
  /\ UNCHANGED <<wikiVars, diskVars, rowVars, budget, cycle, missed>>

\* Every source crawled.
SourcesDone ==
  /\ run.pc = "source" /\ run.todo = {}
  /\ run' = IF run.dry THEN NoRun
            ELSE [run EXCEPT !.pc = AfterCrawl]
  /\ UNCHANGED <<wikiVars, diskVars, rowVars, budget, cycle, missed>>

\* gone_ids = previous - written; any error makes the absences untrustworthy.
MutGone == IF run.dry THEN {} ELSE run.prev \ run.wrote   \* mutant: errors ignored
Gone    == IF run.failed > 0 \/ run.dry THEN {} ELSE run.prev \ run.wrote

Archive ==
  /\ Crawled /\ run.inv
  /\ status' = [p \in Page |-> IF p \in Gone THEN "archived" ELSE status[p]]
  /\ run' = [run EXCEPT !.pc = IF ~run.dry /\ run.ingest THEN "ingest" ELSE "report",
                        !.archived = Gone]
  /\ UNCHANGED <<wikiVars, raw, doc, vec, rowVars, budget, cycle, missed>>

\* _upsert_document() of the files S: unchanged content keeps its chunks and
\* embeddings, changed content is chunked anew; either way the row is active.
Upsert(S) ==
  /\ doc' = [p \in Page |-> IF p \in S THEN raw[p] ELSE doc[p]]
  /\ status' = [p \in Page |-> IF p \in S THEN "active" ELSE status[p]]
  /\ vec' = vec \ {p \in S : doc[p] # raw[p]}

\* run_ingest() reads every file of the directory; a file that fails is rolled
\* back to its savepoint and counted.
OnDisk == {p \in Page : raw[p] # Never}

Ingest ==
  /\ run.pc = "ingest"
  /\ \/ Upsert(OnDisk) /\ UNCHANGED budget
     \/ Spend("doc") /\ \E p \in OnDisk : Upsert(OnDisk \ {p})
  /\ Goto(IF run.inv THEN "report" ELSE "embed")
  /\ UNCHANGED <<wikiVars, raw, rowVars, cycle, missed>>

\* run_ingest() raises after some of its commits; the run ends there.
IngestRaises ==
  /\ run.pc = "ingest" /\ Spend("ingest")
  /\ \E S \in SUBSET OnDisk : Upsert(S)
  /\ run' = NoRun
  /\ UNCHANGED <<wikiVars, raw, rowVars, cycle, missed>>

\* embed_pending_chunks(); an exception is caught, some chunks stay pending.
Embed ==
  /\ run.pc = "embed"
  /\ LET have == {p \in Page : doc[p] # Never}
     IN \/ vec' = have /\ UNCHANGED budget
        \/ Spend("embed") /\ \E S \in SUBSET have : vec' = vec \cup S
  /\ Goto("commit")
  /\ UNCHANGED <<wikiVars, raw, doc, status, rowVars, cycle, missed>>

\* Edits newer than the oldest crawl the checkpoints stem from, older than the
\* start of the run that commits, and not on disk.
Overtaken(s) ==
  {p \in Page : /\ RootOf[p] \in RootsOf(s) /\ raw[p] # wiki[p]
                /\ wiki[p] > cycle[s] /\ wiki[p] <= run.started - Margin}

\* Mutant: the source is forgotten before its checkpoints are cleared.
MutAdvanceCursor(s) ==
  /\ run.pc = "commit" /\ s \in run.staged
  /\ cursor' = [cursor EXCEPT ![s] = NewCursor]
  /\ run' = [run EXCEPT !.pc = "clear", !.src = None, !.staged = @ \ {s}]
  /\ UNCHANGED <<wikiVars, diskVars, ckpt, budget, cycle, missed>>

\* _advance_cursor(), a transaction of its own.
AdvanceCursor(s) ==
  /\ run.pc = "commit" /\ s \in run.staged
  /\ cursor' = [cursor EXCEPT ![s] = NewCursor]
  /\ run' = [run EXCEPT !.pc = "clear", !.src = s, !.staged = @ \ {s}]
  /\ missed' = missed \cup Overtaken(s)
  /\ UNCHANGED <<wikiVars, diskVars, ckpt, budget, cycle>>

\* Mutant: the checkpoints outlive the cycle.
MutClearCheckpoints ==
  /\ run.pc = "clear"
  /\ run' = [run EXCEPT !.pc = "commit", !.src = None]
  /\ UNCHANGED <<wikiVars, diskVars, rowVars, budget, cycle, missed>>

\* _clear_checkpoints(), another.
ClearCheckpoints ==
  /\ run.pc = "clear"
  /\ ckpt' = [r \in Root |-> IF SourceOf[r] = run.src THEN 0 ELSE ckpt[r]]
  /\ run' = [run EXCEPT !.pc = "commit", !.src = None]
  /\ UNCHANGED <<wikiVars, diskVars, cursor, budget, cycle, missed>>

\* The call returns and the lock is released.
Return ==
  /\ run.pc = "report" \/ (run.pc = "commit" /\ run.staged = {})
  /\ run' = NoRun
  /\ UNCHANGED <<wikiVars, diskVars, rowVars, budget, cycle, missed>>

\* The process dies; PostgreSQL releases the session's lock.
Crash ==
  /\ run.pc # "idle" /\ Spend("crash")
  /\ run' = NoRun
  /\ UNCHANGED <<wikiVars, diskVars, rowVars, cycle, missed>>

-----------------------------------------------------------------------------
Crawl ==
  \/ \E s \in Source : BeginSource(s) \/ SkipSource(s)
  \/ \E r \in Root : BeginRoot(r)
  \/ SearchFails \/ Search \/ StopAtLimit
  \/ \E p \in Page : FetchPage(p) \/ FetchSeed(p)
  \/ EndBatch

Settle ==
  \/ Judge \/ SourcesDone \/ Archive \/ Ingest \/ IngestRaises \/ Embed
  \/ \E s \in Source : AdvanceCursor(s)
  \/ ClearCheckpoints \/ Return

Next ==
  \/ \E p \in Page : Edit(p) \/ Delete(p)
  \/ \E o \in SyncOption : StartSync(o)
  \/ \E s \in Source, o \in InvOption : StartInventory(s, o)
  \/ Crawl \/ Settle \/ Crash

Spec == Init /\ [][Next]_vars

\* Fairness: the cron starts a full sync every day, and a run that is not
\* killed goes on.
FullSync == [dry |-> FALSE, ingest |-> TRUE, only |-> None, limit |-> 0, sources |-> Source]
FairSpec == Spec /\ WF_vars(StartSync(FullSync)) /\ WF_vars(Crawl) /\ WF_vars(Settle)

-----------------------------------------------------------------------------
(* Properties. *)

RunType ==
  [pc : Phase, inv : BOOLEAN, dry : BOOLEAN, ingest : BOOLEAN, only : Root \cup {None},
   limit : Nat, started : Nat, todo : SUBSET Source, staged : SUBSET Source,
   src : Source \cup {None}, since : Int, roots : SUBSET Root, seeds : SUBSET Page,
   prev : SUBSET Page, wrote : SUBSET Page, tried : Nat, failed : Nat,
   rootfailed : BOOLEAN, root : Root \cup {None}, start : Nat, seen : SUBSET Page,
   batch : SUBSET Page, full : BOOLEAN, inroot : Nat, archived : SUBSET Page]

\* The state has its types, and the run's position agrees with what it names:
\* a source is in hand from its start to its judgement, a root while its
\* listing is paged through.
TypeOK ==
  /\ now \in Nat /\ wiki \in [Page -> Nat] /\ alive \subseteq Page
  /\ raw \in [Page -> Nat \cup {Never}] /\ doc \in [Page -> Nat \cup {Never}]
  /\ status \in [Page -> {"active", "archived"}] /\ vec \subseteq Page
  /\ cursor \in [Source -> Int] /\ ckpt \in [Root -> Nat \cup {Done}]
  /\ run \in RunType
  /\ budget \in [Fault -> Nat]
  /\ cycle \in [Source -> Nat] /\ missed \subseteq Page
  /\ run.pc \in {"root", "search", "fetch", "clear"} => run.src \in Source
  /\ run.pc \in {"search", "fetch"} => run.root \in Root

\* An edit of p that no later incremental search returns, since it is not after
\* the cursor, and that is not on disk: it stays out of the index until
\* somebody edits the page again.
Skipped(p) ==
  /\ p \in alive /\ RootOf[p] # None
  /\ wiki[p] <= cursor[SourceOf[RootOf[p]]]
  /\ raw[p] # wiki[p]

\* The cursor never passes an edit that was not fetched.  This is what the
\* staged commits, the error policy and the checkpoints are for
\* (_sync_map_body, errors_allow_cursor_advance, _save_root_checkpoint).
NoEditSkipped == \A p \in Page : ~Skipped(p)

\* Whatever fails, an edit is skipped only for one of three reasons: its fetch
\* failed, a deletion shifted the listing while it was paged through, or it
\* was made after the first run of a cycle that a later run resumed from
\* checkpoints and committed with its own start time.
LossesAccounted == \A p \in Page : Skipped(p) => p \in missed

\* A commit covers the explicit pages too, whatever the checkpoints let the run
\* skip: each is on disk as it was when the run began, or could not be fetched.
CommitCoversSeeds ==
  [][\A s \in Source : cursor'[s] # cursor[s] =>
       \A p \in Seeds[s] \cap alive :
          raw[p] = wiki[p] \/ wiki[p] > run.started \/ p \in missed]_vars

\* A cursor is committed only when every file on disk is in `documents': the
\* order "ingest, then commit" of _sync_map_body.
CommitsIngested == \A s \in Source : cursor'[s] # cursor[s] =>
  \A p \in Page : raw[p] # Never => doc[p] = raw[p] /\ status[p] = "active"
\* As long as no file has failed in an ingest, a run that ingests keeps to it, whatever
\* dies or raises.
NoneFailed == budget["doc"] = Budget["doc"]
CommitAfterIngest == [][run.ingest /\ NoneFailed => CommitsIngested]_vars

\* _run_map_inventory_locked archives only pages Confluence no longer lists,
\* or that a deletion shifted out of the window while it paged.
ArchivesOnlyGone ==
  [][\A p \in Page : status[p] = "active" /\ status'[p] = "archived"
       => p \notin alive \/ p \in missed]_vars

\* A partial run (--root-id, --max-pages) and an inventory leave the window of
\* the next incremental run alone: neither cursors nor checkpoints move.
PartialRunsKeepWindow ==
  [][Truncated \/ run.inv => UNCHANGED rowVars]_vars

\* When an inventory returns, the pages it reports as archived are archived.
ArchivedStaysOut ==
  run.pc = "report" => \A p \in run.archived : status[p] = "archived"

\* Once Confluence is quiet, every page it lists is indexed as it is, and
\* embedded.
Converged == \A p \in alive : RootOf[p] # None => doc[p] = wiki[p] /\ p \in vec
Converges == <>[]Converged

=============================================================================
