---------------------------- MODULE MapRegistry ----------------------------
(***************************************************************************)
(* The registry of confluence_map sources: the rows of `sources' an          *)
(* administrator edits (routers/confluence_map.py, map_space_setup.py, the   *)
(* migration script) while a sync or an inventory works from what it read.   *)
(* roots and checkpoint share one JSON column, which every writer reads,     *)
(* changes and writes back whole; of a root's label it is kept whether it is *)
(* the one the set-up gives.  Explicit pages, batches inside a root and the  *)
(* failures of pages and of the ingest are MapSync's.                        *)
(***************************************************************************)
EXTENDS Integers, FiniteSets, TLC

CONSTANTS
  Page, Root, Under,   \* Under[r]: the pages below root r
  SpaceOf,             \* [Page -> source]: metadata space_key
  Homes,               \* [source -> top page]: SPACE_HOMES
  Retired, Moved,      \* REMOVE_SOURCES; the sources the migration script fills
  Registered,          \* the registries to begin with: sets of [source -> roots]
  Asked,               \* <<source, page>>: what administrators add
  MaxEdits, MaxCalls, MaxRuns, MaxFaults

Source == DOMAIN Homes \union Retired \union Moved
Never == 0   \* no cursor; no file
Snapshot == 2 \* SEED_SOURCE_TIMESTAMPS; the pages are from before it

VARIABLES
  src,      \* the rows
  clock, edited, \* Confluence: the time, and when each page last changed
  raw, row, \* the version on disk; the documents row
  run, adm, \* the sync or inventory that holds the lock; the administrator's call
  open,     \* history: roots no full listing has covered since they came
  late,     \* history: pages changed after their root was listed in a cycle not committed
  used      \* calls, runs and faults so far
vars == <<src, clock, edited, raw, row, run, adm, open, late, used>>

Idle == [at |-> "idle"]
NoSource == [there |-> FALSE, on |-> FALSE, roots |-> {}, whole |-> FALSE, ckpt |-> {}, cursor |-> Never]
Spend(k, max) == used[k] < max /\ used' = [used EXCEPT ![k] = @ + 1]

Init ==
  /\ \E seed \in Registered : \E crawled \in {{}, DOMAIN seed \ Moved} :
       /\ src = [s \in Source |-> IF s \notin DOMAIN seed THEN NoSource
                   ELSE [NoSource EXCEPT !.there = TRUE, !.on = TRUE, !.roots = seed[s], !.cursor = IF s \in crawled THEN Snapshot ELSE Never]]
       /\ raw = [p \in Page |-> IF \E s \in crawled : \E r \in seed[s] : p \in Under[r] THEN 1 ELSE Never]
  /\ row = [p \in Page |-> [rev |-> raw[p], on |-> raw[p] # Never]]
  /\ clock = Snapshot + 1 /\ edited = [p \in Page |-> IF SpaceOf[p] \in Moved THEN Snapshot ELSE 1]
  /\ run = Idle /\ adm = Idle /\ open = [s \in Source |-> {}] /\ late = {} /\ used = [calls |-> 0, runs |-> 0, faults |-> 0]

\* A write of the JSON column: roots that were not there a moment ago are open.
Config(s) == [roots |-> src[s].roots, whole |-> src[s].whole, ckpt |-> src[s].ckpt]
Put(s, cfg) ==
  /\ src' = [src EXCEPT ![s].roots = cfg.roots, ![s].whole = cfg.whole, ![s].ckpt = cfg.ckpt]
  /\ open' = [open EXCEPT ![s] = (@ \intersect cfg.roots) \union (cfg.roots \ src[s].roots)]

\* Somebody changes a page in Confluence.
Listed(p) == (\E s \in Source : \E r \in src[s].ckpt : p \in Under[r]) \/ (run # Idle /\ p \in run.seen)
Edit(p) ==
  /\ clock <= Snapshot + MaxEdits /\ clock' = clock + 1 /\ edited' = [edited EXCEPT ![p] = clock + 1]
  /\ late' = IF Listed(p) THEN late \union {p} ELSE late
  /\ UNCHANGED <<src, raw, row, run, adm, open, used>>

-----------------------------------------------------------------------------
(* The administrator.                                                        *)
Create(s, r) ==  \* 409 when the source exists
  /\ adm = Idle /\ ~src[s].there /\ Spend("calls", MaxCalls)
  /\ src' = [src EXCEPT ![s] = [NoSource EXCEPT !.there = TRUE, !.on = TRUE, !.roots = {r}]]
  /\ open' = [open EXCEPT ![s] = {r}]
  /\ UNCHANGED <<clock, edited, raw, row, run, adm, late>>
SetStatus(s, on) ==
  /\ adm = Idle /\ src[s].there /\ Spend("calls", MaxCalls)
  /\ src' = [src EXCEPT ![s].on = on]
  /\ UNCHANGED <<clock, edited, raw, row, run, adm, open, late>>
\* add_source_root reads the row, then writes its config with one root more, or
\* one with a new label.
AddRoot(s, r) ==
  /\ adm = Idle /\ src[s].there /\ Spend("calls", MaxCalls)
  /\ adm' = [at |-> "root", s |-> s, cfg |-> [Config(s) EXCEPT !.roots = @ \union {r}, !.whole = @ /\ r \notin src[s].roots]]
  /\ UNCHANGED <<src, clock, edited, raw, row, run, open, late>>
AddRootWrites ==
  /\ adm.at = "root" /\ adm' = Idle
  /\ IF src[adm.s].there THEN Put(adm.s, adm.cfg) ELSE UNCHANGED <<src, open>>
  /\ UNCHANGED <<clock, edited, raw, row, run, late, used>>

\* build_plan, from the rows and from what Confluence says of the pages; one page
\* that cannot be read, or is of another space, ends the call before it plans.
Op(s) ==
  IF s \in Retired THEN "remove" ELSE IF ~src[s].there THEN "create"
  ELSE IF src[s].roots = {Homes[s]} /\ src[s].whole THEN "unchanged" ELSE "set_roots"
Plan ==
  /\ adm = Idle /\ Spend("calls", MaxCalls)
  /\ adm' = [at |-> "plan", op |-> [s \in DOMAIN Homes \union {s \in Retired : src[s].there} |-> Op(s)]]
  /\ UNCHANGED <<src, clock, edited, raw, row, run, open, late>>
\* is_sync_running is asked once, after the plan; the lock itself is not taken.
AskLock ==
  /\ adm.at = "plan" /\ adm' = IF run = Idle THEN [at |-> "apply", op |-> adm.op] ELSE Idle
  /\ UNCHANGED <<src, clock, edited, raw, row, run, open, late, used>>
Planned(op) == {s \in DOMAIN adm.op : adm.op[s] = op}
\* A source that came or went since the plan rolls the whole transaction back.
Outdated == (\E s \in Planned("create") : src[s].there) \/ (\E s \in Planned("set_roots") \union Planned("remove") : ~src[s].there)
Apply ==
  /\ adm.at = "apply" /\ adm' = Idle
  /\ IF Outdated THEN UNCHANGED <<src, row, open>>
     ELSE /\ src' = [s \in Source |->
               IF s \in Planned("create") THEN [there |-> TRUE, on |-> TRUE, roots |-> {Homes[s]}, whole |-> TRUE, ckpt |-> {}, cursor |-> clock]
               ELSE IF s \in Planned("set_roots") THEN [src[s] EXCEPT !.roots = {Homes[s]}, !.whole = TRUE, !.ckpt = {}]
               ELSE IF s \in Planned("remove") THEN NoSource ELSE src[s]]
          /\ open' = [s \in Source |->
               IF s \in Planned("create") \union Planned("set_roots") THEN (open[s] \union ({Homes[s]} \ src[s].roots)) \intersect {Homes[s]}
               ELSE IF s \in Planned("remove") THEN {} ELSE open[s]]
          /\ row' = [p \in Page |-> IF SpaceOf[p] \in Planned("remove") THEN [row[p] EXCEPT !.on = FALSE] ELSE row[p]]
  /\ UNCHANGED <<clock, edited, raw, run, late, used>>

\* migrate_confluence_map_from_skill_index.py: the files of the skill's crawl, then
\* their ingest, then the cursors, as its docstring lists them.  A bootstrap: no sync
\* runs meanwhile.
WriteFiles ==
  /\ adm = Idle /\ run = Idle /\ Spend("calls", MaxCalls)
  /\ raw' = [p \in Page |-> IF SpaceOf[p] \in Moved THEN 1 ELSE raw[p]] /\ adm' = [at |-> "files"]
  /\ UNCHANGED <<src, clock, edited, row, run, open, late>>
Ingested(files) == [p \in Page |-> IF files[p] = Never THEN row[p] ELSE [rev |-> files[p], on |-> TRUE]]
IngestFiles ==
  /\ adm.at = "files" /\ row' = Ingested(raw) /\ adm' = [at |-> "seed", left |-> Moved]
  /\ UNCHANGED <<src, clock, edited, raw, run, open, late, used>>
\* seed_cursor: the checkpoint goes, a missing row is made without roots.
Seeded(s) == [src[s] EXCEPT !.cursor = Snapshot, !.ckpt = {}, !.there = TRUE, !.on = IF src[s].there THEN @ ELSE TRUE]
SeedCursor(s) ==
  /\ adm.at = "seed" /\ s \in adm.left /\ src' = [src EXCEPT ![s] = Seeded(s)]
  /\ open' = [open EXCEPT ![s] = {}] /\ late' = late \ {p \in Page : SpaceOf[p] = s}
  /\ adm' = IF adm.left = {s} THEN Idle ELSE [adm EXCEPT !.left = @ \ {s}]
  /\ UNCHANGED <<clock, edited, raw, row, run, used>>

-----------------------------------------------------------------------------
(* A sync.                                                                   *)
Free == run = Idle /\ adm.at \notin {"files", "seed"}
BeginSync ==
  /\ Free /\ Spend("runs", MaxRuns)
  /\ LET S == {s \in Source : src[s].there /\ src[s].on} IN
     run' = [at |-> "source", defs |-> [s \in S |-> src[s].roots], todo |-> S, started |-> clock, pending |-> {}, seen |-> {}]
  /\ UNCHANGED <<src, clock, edited, raw, row, adm, open, late>>
BeginSource(s) ==  \* the cursor and the checkpoints are of this moment, the roots of the start
  /\ run.at = "source" /\ s \in run.todo
  /\ run' = [run EXCEPT !.at = "root", !.todo = @ \ {s}] @@
            [cur |-> s, since |-> src[s].cursor, skip |-> src[s].ckpt, left |-> run.defs[s], bad |-> FALSE]
  /\ UNCHANGED <<src, clock, edited, raw, row, adm, open, late, used>>
Fetched(P) == raw' = [p \in Page |-> IF p \in P THEN edited[p] ELSE raw[p]] /\ late' = late \ P
CrawlRoot(r) ==
  /\ run.at = "root" /\ r \in run.left
  /\ IF r \in run.skip
     THEN run' = [run EXCEPT !.left = @ \ {r}] /\ UNCHANGED <<raw, late>>
     ELSE /\ Fetched({p \in Under[r] : edited[p] >= run.since})
          /\ run' = [run EXCEPT !.at = "read", !.left = @ \ {r}, !.seen = @ \union Under[r]] @@ [root |-> r]
  /\ UNCHANGED <<src, clock, edited, row, adm, open, used>>
RootFails(r) ==
  /\ run.at = "root" /\ r \in run.left \ run.skip /\ Spend("faults", MaxFaults)
  /\ run' = [run EXCEPT !.left = @ \ {r}, !.bad = TRUE]
  /\ UNCHANGED <<src, clock, edited, raw, row, adm, open, late>>
\* _save_root_checkpoint: nothing when the row is gone.
ReadConfig ==
  /\ run.at = "read"
  /\ run' = IF src[run.cur].there THEN [run EXCEPT !.at = "write"] @@ [cfg |-> [Config(run.cur) EXCEPT !.ckpt = @ \union {run.root}]]
            ELSE [run EXCEPT !.at = "root"]
  /\ UNCHANGED <<src, clock, edited, raw, row, adm, open, late, used>>
\* An UPDATE that finds no row ends the run.
WriteConfig ==
  /\ run.at = "write"
  /\ IF src[run.cur].there
     THEN Put(run.cur, run.cfg) /\ run' = [at |-> "root"] @@ [f \in DOMAIN run \ {"cfg", "root"} |-> run[f]]
     ELSE run' = Idle /\ UNCHANGED <<src, open>>
  /\ UNCHANGED <<clock, edited, raw, row, adm, late, used>>
MutStaged == run.pending \union {<<run.cur, run.since>>}
Staged == IF run.bad THEN run.pending ELSE run.pending \union {<<run.cur, run.since>>}
EndSource ==
  /\ run.at = "root" /\ run.left = {}
  /\ run' = [at |-> "source", defs |-> run.defs, todo |-> run.todo, started |-> run.started, seen |-> run.seen, pending |-> Staged]
  /\ UNCHANGED <<src, clock, edited, raw, row, adm, open, late, used>>
\* run_ingest reads every file of raw/confluence_map, whoever's it is.
Ingest ==
  /\ run.at = "source" /\ run.todo = {} /\ row' = Ingested(raw) /\ run' = [run EXCEPT !.at = "commit"]
  /\ UNCHANGED <<src, clock, edited, raw, adm, open, late, used>>
\* _advance_cursor, then _clear_checkpoints, which reads and writes like the others.
Advance(c) ==
  /\ run.at = "commit" /\ c \in run.pending
  /\ src' = [src EXCEPT ![c[1]].cursor = IF src[c[1]].there THEN run.started ELSE @]
  /\ open' = IF c[2] = Never THEN [open EXCEPT ![c[1]] = @ \ run.defs[c[1]]] ELSE open
  /\ run' = [run EXCEPT !.pending = @ \ {c}, !.at = IF src[c[1]].ckpt = {} THEN "commit" ELSE "clear"] @@ [cur |-> c[1], cfg |-> [Config(c[1]) EXCEPT !.ckpt = {}]]
  /\ UNCHANGED <<clock, edited, raw, row, adm, late, used>>
Clear ==
  /\ run.at = "clear"
  /\ IF src[run.cur].there THEN Put(run.cur, run.cfg) /\ run' = [run EXCEPT !.at = "commit"]
     ELSE run' = Idle /\ UNCHANGED <<src, open>>
  /\ UNCHANGED <<clock, edited, raw, row, adm, late, used>>
EndSync == run.at = "commit" /\ run.pending = {} /\ run' = Idle /\ UNCHANGED <<src, clock, edited, raw, row, adm, open, late, used>>
Crash == run # Idle /\ Spend("faults", MaxFaults) /\ run' = Idle /\ UNCHANGED <<src, clock, edited, raw, row, adm, open, late>>

-----------------------------------------------------------------------------
(* An inventory of one source: everything, and what is gone is archived.     *)
BeginInventory(s) ==
  /\ Free /\ src[s].there /\ Spend("runs", MaxRuns)
  /\ run' = [at |-> "inventory", cur |-> s, roots |-> src[s].roots, seen |-> {}, previous |-> {p \in Page : SpaceOf[p] = s /\ row[p].on}]
  /\ UNCHANGED <<src, clock, edited, raw, row, adm, open, late>>
TakeInventory ==
  /\ run.at = "inventory"
  /\ LET P == UNION {Under[r] : r \in run.roots} IN
     /\ Fetched(P)
     /\ row' = [p \in Page |-> IF p \in run.previous \ P THEN [row[p] EXCEPT !.on = FALSE] ELSE row[p]]
     /\ run' = [at |-> "files", seen |-> P]
  /\ open' = [open EXCEPT ![run.cur] = @ \ run.roots]
  /\ UNCHANGED <<src, clock, edited, adm, used>>
IngestInventory ==
  /\ run.at = "files" /\ row' = Ingested(raw) /\ run' = Idle
  /\ UNCHANGED <<src, clock, edited, raw, adm, open, late, used>>

Next ==
  \/ \E p \in Page : Edit(p)
  \/ \E s \in Source : SetStatus(s, TRUE) \/ SetStatus(s, FALSE) \/ SeedCursor(s) \/ BeginSource(s) \/ BeginInventory(s)
  \/ \E c \in Asked : Create(c[1], c[2]) \/ AddRoot(c[1], c[2])
  \/ \E r \in Root : CrawlRoot(r) \/ RootFails(r)
  \/ AddRootWrites \/ Plan \/ AskLock \/ Apply \/ WriteFiles \/ IngestFiles
  \/ BeginSync \/ ReadConfig \/ WriteConfig \/ EndSource \/ Ingest \/ Clear \/ EndSync \/ Crash \/ TakeInventory \/ IngestInventory
  \/ run.at = "commit" /\ \E c \in run.pending : Advance(c)
Spec == Init /\ [][Next]_vars
-----------------------------------------------------------------------------
TypeOK == \A s \in Source : src[s].roots \subseteq Root /\ src[s].cursor \in {Never} \union Snapshot..(Snapshot + 1 + MaxEdits) /\ open[s] \subseteq src[s].roots

\* Whatever is registered, replaced, seeded or lost meanwhile, a page under a root
\* that one full listing covered is on disk, in its last version if it changed
\* before the cursor; a page that changed behind a checkpoint of an interrupted
\* cycle is excepted, and a source whose cursor the migration has still to seed.
CoveredIsCurrent == \A s \in Source : src[s].there /\ src[s].cursor # Never /\ (adm.at = "files" => s \notin Moved) /\ (adm.at = "seed" => s \notin adm.left) =>
  \A r \in src[s].roots \ open[s] : \A p \in Under[r] \ late : raw[p] # Never /\ (edited[p] < src[s].cursor => raw[p] = edited[p])
\* confluence_map.py:262-263, of add_source_root: "Merges, never replaces: other
\* roots and runtime keys (checkpoint, ...) are kept."  Only the set-up takes
\* roots away.
RootsAreKept == [][adm.at # "apply" => \A s \in Source : src[s].there /\ src'[s].there => src[s].roots \subseteq src'[s].roots]_vars
\* map_space_setup.py:30-31: "Nothing is applied while a sync/backfill holds the
\* run lock."
AppliedAlone == [][adm.at = "apply" /\ adm' = Idle /\ src' # src => run = Idle]_vars
\* map_space_setup.py:22-23: the documents of a removed space are out of search.
RemovedStaysOut == \A p \in Page : SpaceOf[p] \in Retired /\ ~src[SpaceOf[p]].there => ~row[p].on
=============================================================================
