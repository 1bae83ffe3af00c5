------------------------------- MODULE DocsSync -------------------------------
(***************************************************************************)
(* The spaces with a full synchronisation of their own (confluence_docs,    *)
(* tech_repo): the daily confluence/sync.py, which asks for what was edited *)
(* after a cursor, and the weekly confluence/docs_inventory.py, which lists *)
(* everything to notice moves and departures, which are not edits.          *)
(*                                                                          *)
(* The daily run takes no lock; the inventory takes one against other       *)
(* inventories only.  So runs overlap: they share the raw files, the rows   *)
(* and the cursor, and Confluence changes under all of them.  One source    *)
(* and one root are modelled; an ingest is one step (IndexStore has its     *)
(* inside), and embedding is left out.                                      *)
(***************************************************************************)
EXTENDS Integers, FiniteSets

CONSTANTS
  Pages,          \* page ids: naturals, since a listing is ordered by id
  Places,         \* positions under the root: what ancestor_ids and title tell
  Daily, Weekly,  \* the runs of sync() and of run_docs_inventory()
  PageLimit,      \* _PAGE_SIZE
  MaxErrorCount,  \* CONFLUENCE_MAX_ERROR_COUNT; the rate works the same way
  MaxArchivePct,  \* --max-archive-ratio, in percent
  MaxChanges,     \* bound on edits and moves
  MaxFaults,      \* bound on failing requests, partial runs and crashes
  Mix             \* which runs take part, and how many of the faults are spent already

Out == "out"      \* under no root, or deleted
Nowhere == -1

VARIABLES
  clock,          \* advanced by every change in Confluence
  edited, place,  \* Pages -> time of the last edit, where the page is
  disk,           \* Pages -> the raw file: [edit, place]; edit Nowhere: no file
  index,          \* Pages -> the row: [edit, place, status]; edit Nowhere: no row
  last,           \* Source.last_sync_at; Nowhere before the first commit
  lock,           \* the inventory that holds the advisory lock, or Nobody
  act,            \* the runs
  lost,           \* history: pages with an edit or a move the daily run will not see
  stray,          \* history: pages fetched since they were archived, or archived without their file
  faults
docsVars == <<clock, edited, place, disk, index, last, lock, act, lost, stray, faults>>

Nobody == "nobody"
NoFile == [edit |-> Nowhere, place |-> Out]
NoDoc == [edit |-> Nowhere, place |-> Out, status |-> "none"]
IdleRun == [pc |-> "idle", kind |-> "full", began |-> 0, since |-> Nowhere, start |-> 0, batch |-> {},
            full |-> FALSE, copy |-> NoFile, page |-> Nowhere, errors |-> 0, broken |-> FALSE,
            listed |-> [p \in Pages |-> Out], plan |-> {}, gone |-> {}, unsure |-> {}]
wikiOnly == <<clock, edited, place>>
storeVars == <<disk, index, last, lock, lost, stray>>

Init ==
  /\ clock = 0 /\ edited = [p \in Pages |-> 0]
  /\ place \in [Pages -> {CHOOSE x \in Places : TRUE}]
  /\ disk = [p \in Pages |-> NoFile] /\ index = [p \in Pages |-> NoDoc] /\ last = Nowhere
  /\ lock = Nobody /\ lost = {} /\ stray = {}
  /\ \E m \in Mix : act = [r \in m.runs |-> IdleRun] /\ faults = m.spent

Fault == faults < MaxFaults /\ faults' = faults + 1
Go(r, k) == act' = [act EXCEPT ![r] = k]

\* A page is edited in place, or moved, which does not touch lastmodified.  A
\* page that comes in, or one behind a page that leaves while a listing is
\* paged through, is not seen by the daily search.
EditPage(p) ==
  /\ clock < MaxChanges /\ clock' = clock + 1 /\ edited' = [edited EXCEPT ![p] = clock + 1]
  /\ UNCHANGED <<place, storeVars, act, faults>>
Paging == \E r \in DOMAIN act : act[r].pc \in {"search", "fetch", "write"}
MovePage(p, x) ==
  /\ clock < MaxChanges /\ clock' = clock + 1 /\ x # place[p] /\ place' = [place EXCEPT ![p] = x]
  /\ LET in == IF place[p] = Out THEN {p} ELSE {}
         behind == IF x = Out THEN {q \in Pages : q > p} ELSE {}
     IN /\ lost' = lost \union in \union (IF Paging THEN behind ELSE {})
        /\ act' = [r \in DOMAIN act |->      \* history: what an inventory in progress cannot know
              [act[r] EXCEPT !.unsure = @ \union (IF r \in Weekly /\ act[r].pc \notin {"idle", "ingest"} THEN in \union behind ELSE {})]]
  /\ UNCHANGED <<edited, disk, index, last, lock, stray, faults>>

-----------------------------------------------------------------------------
(* Both kinds of run page through a search and fetch pages one by one. *)

Hits(since) == {p \in Pages : place[p] # Out /\ edited[p] > since}
PageAt(S, start) == {p \in S : Cardinality({q \in S : q < p}) \in start..(start + PageLimit - 1)}
First(S) == CHOOSE p \in S : \A q \in S : p <= q

\* get_page_full(): a page that was moved away is still there, a deleted one not.
Get(r) ==
  /\ act[r].pc = "fetch" /\ act[r].batch # {}
  /\ LET p == First(act[r].batch)  k == [act[r] EXCEPT !.batch = @ \ {p}] IN
     \/ Go(r, [k EXCEPT !.pc = "write", !.page = p, !.copy = [edit |-> edited[p], place |-> place[p]]])
        /\ UNCHANGED <<lost, faults>>
     \/ /\ IF place[p] = Out THEN UNCHANGED faults ELSE Fault
        /\ Go(r, [k EXCEPT !.errors = @ + 1]) /\ lost' = lost \union {p}
  /\ UNCHANGED <<wikiOnly, disk, index, last, lock, stray>>
\* _write_page(): the file is written over, whoever wrote it.
Write(r) ==
  /\ act[r].pc = "write"
  /\ LET p == act[r].page  c == act[r].copy IN
     /\ disk' = [disk EXCEPT ![p] = c]
     /\ lost' = IF c.edit = edited[p] THEN lost \ {p} ELSE IF c.edit < disk[p].edit THEN lost \union {p} ELSE lost
     /\ stray' = stray \union {p}
  /\ Go(r, [act[r] EXCEPT !.pc = "fetch", !.page = Nowhere, !.copy = NoFile])
  /\ UNCHANGED <<wikiOnly, index, last, lock, faults>>

-----------------------------------------------------------------------------
(* sync() *)

\* kind: a full run; one truncated by --max-pages; --dry-run, which crawls and
\* writes the files; a crawl without the ingest.
StartDaily(r, kind) ==
  /\ act[r].pc = "idle" /\ IF kind = "full" THEN UNCHANGED faults ELSE Fault
  /\ Go(r, [IdleRun EXCEPT !.pc = "search", !.kind = kind, !.began = clock, !.since = last])
  /\ UNCHANGED <<wikiOnly, storeVars>>

Search(r) ==
  /\ r \in Daily /\ act[r].pc = "search"
  /\ LET hits == PageAt(Hits(act[r].since), act[r].start) IN
     \/ Go(r, IF hits = {} THEN [act[r] EXCEPT !.pc = "judge"]
              ELSE [act[r] EXCEPT !.pc = "fetch", !.batch = hits, !.full = Cardinality(hits) = PageLimit])
        /\ UNCHANGED faults
     \/ Fault /\ Go(r, [act[r] EXCEPT !.pc = "judge", !.broken = TRUE, !.errors = @ + 1])
  /\ UNCHANGED <<wikiOnly, storeVars>>
EndPage(r) ==
  /\ r \in Daily /\ act[r].pc = "fetch"
  /\ \/ act[r].batch = {} /\ Go(r, IF act[r].full THEN [act[r] EXCEPT !.pc = "search", !.start = @ + PageLimit]
                                   ELSE [act[r] EXCEPT !.pc = "judge"])
     \/ act[r].kind = "truncated" /\ act[r].batch # {} /\ Go(r, [act[r] EXCEPT !.pc = "judge", !.batch = {}])
  /\ UNCHANGED <<wikiOnly, storeVars, faults>>

\* can_advance; what follows the crawl.
MayAdvance(k) == k.kind \in {"full", "crawl"} /\ ~k.broken /\ k.errors <= MaxErrorCount
Judge(r) ==
  /\ act[r].pc = "judge"
  /\ LET k == [IdleRun EXCEPT !.began = IF MayAdvance(act[r]) THEN act[r].began ELSE Nowhere] IN
     Go(r, CASE act[r].kind = "dry" -> IdleRun
             [] act[r].kind = "crawl" -> [k EXCEPT !.pc = "commit"]
             [] OTHER -> [k EXCEPT !.pc = "ingest"])
  /\ UNCHANGED <<wikiOnly, storeVars, faults>>

\* run_ingest() of every file in the directory, and the embedding behind it;
\* a file that fails is counted, an exception ends the run.
Indexed(S) == index' = [p \in Pages |->
  IF p \in S THEN [edit |-> disk[p].edit, place |-> disk[p].place, status |-> "active"] ELSE index[p]]
Files == {p \in Pages : disk[p].edit # Nowhere}
Release(r) == lock' = IF lock = r THEN Nobody ELSE lock
IngestFiles(r) ==
  /\ act[r].pc = "ingest"
  /\ LET then == IF r \in Daily THEN [act[r] EXCEPT !.pc = "commit"] ELSE IdleRun IN
     \/ Indexed(Files) /\ Go(r, then) /\ UNCHANGED faults
     \/ Fault /\ \E S \in SUBSET Files : Indexed(S) /\ (Go(r, then) \/ Go(r, IdleRun))
  /\ IF r \in Weekly THEN Release(r) ELSE UNCHANGED lock
  /\ UNCHANGED <<wikiOnly, disk, last, lost, stray>>

\* _advance_cursor(): the start of the run, whatever another run has stored.
MutCursorOf(k) == clock
CursorOf(k) == k.began
Advance(r) ==
  /\ act[r].pc = "commit"
  /\ last' = IF act[r].began # Nowhere THEN CursorOf(act[r]) ELSE last
  /\ Go(r, IdleRun)
  /\ UNCHANGED <<wikiOnly, disk, index, lock, lost, stray, faults>>

-----------------------------------------------------------------------------
(* run_docs_inventory() *)

StartWeekly(r) ==
  /\ act[r].pc = "idle" /\ lock = Nobody /\ lock' = r
  /\ Go(r, [IdleRun EXCEPT !.pc = "list"])
  /\ UNCHANGED <<wikiOnly, disk, index, last, lost, stray, faults>>

\* _list_roots(): the first sight of a page counts.  A failing search makes the
\* listing incomplete; one without ancestors ("blind") does not tell moves.
ListPage(r) ==
  /\ act[r].pc = "list"
  /\ LET hits == PageAt(Hits(Nowhere), act[r].start)
         seen == [p \in Pages |-> IF p \in hits /\ act[r].listed[p] = Out THEN place[p] ELSE act[r].listed[p]]
     IN \/ Go(r, [act[r] EXCEPT !.listed = seen, !.start = @ + PageLimit,
                                !.pc = IF Cardinality(hits) = PageLimit THEN "list" ELSE "plan"]) /\ UNCHANGED faults
        \/ Fault /\ Go(r, [act[r] EXCEPT !.pc = "plan", !.broken = TRUE])
        \/ Fault /\ Go(r, [act[r] EXCEPT !.kind = "blind"])
  /\ UNCHANGED <<wikiOnly, storeVars>>

\* plan_reconcile(): new, moved and renamed pages are fetched; active rows that
\* were not listed are gone.
Rows == {p \in Pages : index[p].status = "active"}
Listed(r) == {p \in Pages : act[r].listed[p] # Out}
ToFetch(r) == {p \in Listed(r) : p \notin Rows \/ (act[r].kind # "blind" /\ index[p].place # act[r].listed[p])}
Plan(r) ==
  /\ act[r].pc = "plan"
  /\ Go(r, [act[r] EXCEPT !.pc = "fetch", !.batch = ToFetch(r), !.plan = Rows, !.gone = Rows \ Listed(r),
                            !.listed = IdleRun.listed, !.start = 0, !.kind = "full"])
  /\ UNCHANGED <<wikiOnly, storeVars, faults>>

\* Absence proves nothing after an error; too many absences prove nothing.
MayArchive(k) == ~k.broken /\ 100 * Cardinality(k.gone) <= MaxArchivePct * Cardinality(k.plan)
\* _archive_documents(): rows still active, in one transaction.
Archive(r) ==
  /\ r \in Weekly /\ act[r].pc = "fetch" /\ act[r].batch = {}
  /\ LET gone == IF MayArchive(act[r]) THEN act[r].gone \intersect Rows ELSE {} IN
     /\ index' = [p \in Pages |-> IF p \in gone THEN [index[p] EXCEPT !.status = "archived"] ELSE index[p]]
     /\ Go(r, [IdleRun EXCEPT !.pc = "move", !.gone = gone, !.unsure = gone \intersect act[r].unsure]) /\ stray' = stray \ gone
  /\ UNCHANGED <<wikiOnly, disk, last, lock, lost, faults>>
\* _move_raw_aside(): an archive only sticks if the file leaves the directory.
MutAside(r) == {}
Aside(r) == act[r].gone
MoveAside(r) ==
  /\ act[r].pc = "move"
  /\ disk' = [p \in Pages |-> IF p \in Aside(r) THEN NoFile ELSE disk[p]]
  /\ stray' = stray \ Aside(r) /\ lost' = lost \union (Aside(r) \intersect act[r].unsure)
  /\ Go(r, [IdleRun EXCEPT !.pc = "ingest"])
  /\ UNCHANGED <<wikiOnly, index, last, lock, faults>>

\* The process dies; PostgreSQL drops its lock.  Between the archiving and the
\* move the files stay.
Crash(r) ==
  /\ act[r].pc # "idle" /\ Fault /\ Go(r, IdleRun) /\ Release(r)
  /\ stray' = IF act[r].pc = "move" THEN stray \union act[r].gone ELSE stray
  /\ UNCHANGED <<wikiOnly, disk, index, last, lost>>

DailyStep(r) == Search(r) \/ Get(r) \/ Write(r) \/ EndPage(r) \/ Judge(r) \/ IngestFiles(r) \/ Advance(r)
WeeklyStep(r) == ListPage(r) \/ Plan(r) \/ Get(r) \/ Write(r) \/ Archive(r) \/ MoveAside(r) \/ IngestFiles(r)
Next ==
  \/ \E p \in Pages : EditPage(p) \/ \E x \in Places \union {Out} : MovePage(p, x)
  \/ \E r \in Daily \intersect DOMAIN act : DailyStep(r) \/ \E kind \in {"full", "truncated", "dry", "crawl"} : StartDaily(r, kind)
  \/ \E r \in Weekly \intersect DOMAIN act : StartWeekly(r) \/ WeeklyStep(r)
  \/ \E r \in DOMAIN act : Crash(r)
Spec == Init /\ [][Next]_docsVars

\* cron starts both kinds; a run that is not killed goes on.
Fair ==
  /\ \A r \in Daily : WF_docsVars(r \in DOMAIN act /\ (DailyStep(r) \/ StartDaily(r, "full")))
  /\ \A r \in Weekly : WF_docsVars(r \in DOMAIN act /\ (WeeklyStep(r) \/ StartWeekly(r)))

-----------------------------------------------------------------------------
(* Properties. *)

\* An edit at or before the cursor is on disk, unless its fetch failed, the page
\* came in from elsewhere, a departure shifted a listing, or a slower run wrote
\* an older copy over it: no overlap of runs loses one otherwise.
CursorIsSafe ==
  \A p \in Pages : place[p] # Out /\ edited[p] <= last /\ p \notin lost => disk[p].edit = edited[p]

\* The inventory archives only pages that are gone, whatever else runs; a page
\* whose departure or return it could not see is accounted for.
ArchivesGone == \A p \in Pages :
  index[p].status = "active" /\ index'[p].status = "archived"
    => place[p] = Out \/ \E r \in Weekly \intersect DOMAIN act : p \in act[r].unsure
OnlyGoneArchived == [][ArchivesGone]_docsVars

\* An archived page comes back only if a run fetched it since, or its file
\* outlived the archiving: a crash before the move, an ingest before the move.
Resurrects == \A p \in Pages :
  index[p].status = "archived" /\ index'[p].status = "active"
    => p \in stray \/ \E r \in Weekly \intersect DOMAIN act : act[r].pc = "move" /\ p \in act[r].gone
ArchiveSticks == [][Resurrects]_docsVars

\* Daily and weekly runs together bring the index to what Confluence shows:
\* every page under the root is active, where it is and as it is, and the others
\* are archived, except where the share of absences stops the inventory.
Left == {p \in Rows : place[p] = Out}
Reconciled ==
  /\ \A p \in Pages : place[p] # Out =>
       index[p].status = "active" /\ index[p].place = place[p] /\ (p \notin lost => index[p].edit = edited[p])
  /\ Left = {} \/ 100 * Cardinality(Left) > MaxArchivePct * Cardinality(Rows)
BothRun == DOMAIN act \intersect Daily # {} /\ DOMAIN act \intersect Weekly # {}
Reconciles == <>[](BothRun => Reconciled)
=============================================================================
