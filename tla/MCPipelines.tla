---------------------------- MODULE MCPipelines ----------------------------
(***************************************************************************)
(* The writers of documents, chunks and vectors, each on a small instance,   *)
(* together with the job queue that starts them, the uploads that bring      *)
(* files, and the client through which the wiki is read.  A behaviour is     *)
(* about one part, named by `part'; the slots hold that part's variables,    *)
(* the ones it has no use for stay 0; the queue, the index and the backfill, *)
(* whose variables are their own, rest unless they are the part.             *)
(***************************************************************************)
EXTENDS JobQueue, IndexStore, MapBackfill, TLC

VARIABLES part, s1, s2, s3, s4, s5, s6, s7, s8, s9, s10, s11, s12, s13
slots == <<s1, s2, s3, s4, s5, s6, s7, s8, s9, s10, s11, s12, s13>>
all   == <<part, slots, vars, indexVars, backfillVars>>

\* x1 and x2, and y1 and y2, may change places: in every part their users do the same.
CONSTANTS x1, x2, y1, y2
Symmetric == Permutations({x1, x2}) \union Permutations({y1, y2})
OneDeath == [d \in Death |-> 1]

MapFull  == [dry |-> FALSE, ingest |-> TRUE, only |-> "none", limit |-> 0, sources |-> {"s"}]
MapCalls == {MapFull, [MapFull EXCEPT !.only = "r1"], [MapFull EXCEPT !.limit = 1]}
Map == INSTANCE MapSync WITH Source <- {"s"}, Root <- {"r1", "r2"}, Page <- {1, 2, 3}, SourceOf <- [r \in {"r1", "r2"} |-> "s"],
  RootOf <- <<"r1", "r1", "r2">>, Seeds <- [s \in {"s"} |-> {}], PageSize <- 2, Margin <- 0, MaxErrorPct <- 0,
  MaxErrorCount <- 0, None <- "none", SyncOption <- MapCalls, InvOption <- {[dry |-> FALSE, ingest |-> TRUE]}, MaxClock <- 2,
  Budget <- [f \in {"crash", "search", "page", "ingest", "doc", "embed", "delete"} |-> 0],
  now <- s1, wiki <- s2, alive <- s3, raw <- s4, doc <- s5, status <- s6, vec <- s7, cursor <- s8, ckpt <- s9, run <- s10, budget <- s11, cycle <- s12, missed <- s13
Crawl == INSTANCE DocsSync WITH Pages <- {1, 2}, Places <- {"x"}, Daily <- {"a", "b"}, Weekly <- {"w"}, PageLimit <- 1, MaxErrorCount <- 1,
  MaxArchivePct <- 50, MaxChanges <- 1, MaxFaults <- 1,
  Mix <- {[runs |-> {"a", "w"}, spent |-> 0], [runs |-> {"a", "b"}, spent |-> 1]},
  clock <- s1, edited <- s2, place <- s3, disk <- s4, index <- s5, last <- s6, lock <- s7, act <- s8, lost <- s9, stray <- s10, faults <- s11
\* Two ingests and an embedding job, or one and two; the other parts have them at rest.
JobTeams == {{"i1", "i2", "e1"}, {"i1", "e1", "e2"}}
IndexRests == IndexInit /\ "i2" \in DOMAIN ing
BackfillCall(S, resume) == [ids |-> S, resume |-> resume]
BackfillCalls == {BackfillCall({"s", "t"}, TRUE), BackfillCall({"s"}, TRUE), BackfillCall({"s", "t"}, FALSE)}
BackfillSources == <<"s", "s", "t">>
\* A crawl beside a call about diagrams; and two calls at once on pages without the diagram,
\* with a preview and a source in other letters, and with sources of both conventions.
Title(base, ext) == [base |-> base, ext |-> ext]
Attachment(id, title, text) == [id |-> id, title |-> title, text |-> text]
Asked(op, base) == [op |-> op, name |-> Title(base, "none")]
Meeting == [calls |-> {"c", "d"}, asks |-> {}, pages |-> 0, edits |-> 1, time |-> 0, tokens |-> 6, configured |-> TRUE, page |-> <<>>]
WikiPages == {<<>>, <<Attachment(1, Title("n", "png"), "binary"), Attachment(2, Title("N", "xml"), "old")>>,
              <<Attachment(1, Title("n", "none"), "old"), Attachment(3, Title("m", "drawio"), "older")>>}
Client == INSTANCE WikiClient WITH Calls <- {"c", "d"}, Limit <- 3, Interval <- 1, MaxRetries <- 2, Second <- 2, MinDelay <- 1, LongestBackoff <- 30,
  Refill <- 3, Burst <- 1, Afters <- {-1, 0, 4}, MaxFaults <- 1, Inline <- <<Title("n", "none"), Title("n ", "none")>>,
  Edited <- {Title("n", "drawio"), Title("n", "none")}, Lower <- [n |-> "n", N |-> "n", m |-> "m"], Plain <- ("n " :> "n") @@ [n |-> "n", m |-> "m"],
  Mixes <- {[Meeting EXCEPT !.calls = {"c"}, !.asks = {Asked("get", "n")}, !.pages = 2, !.time = 8, !.tokens = 1, !.edits = 0],
            [Meeting EXCEPT !.configured = FALSE, !.asks = {Asked("put", "n")}]} \union
           {[Meeting EXCEPT !.page = p, !.asks = a] : p \in WikiPages,
              a \in {{Asked("put", "n"), Asked("get", "n")}, {Asked("list", "n"), Asked("get", "m"), Asked("get", "n ")}}},
  mix <- s1, now <- s2, tokens <- s3, due <- s4, rival <- s5, crawl <- s6, last <- s7, trace <- s8, page <- s9, log <- s10, call <- s11, edits <- s12, faults <- s13
\* Two files with one stem, and a text that names another document.
StemText == [names |-> "stem", rest |-> 1]
OtherText == [names |-> "f", rest |-> 2]
Files == INSTANCE Uploads WITH File <- {"g.md", "g.txt"}, Doc <- {"f", "g"}, Stem <- ("g.md" :> "g" @@ "g.txt" :> "g"), Text <- {StemText, OtherText},
  Sent <- {[file |-> "g.md", text |-> StemText], [file |-> "g.md", text |-> OtherText], [file |-> "g.txt", text |-> StemText]}, MaxUploads <- 2, MaxFaults <- 1,
  up <- s1, disk <- s2, job <- s3, source <- s4, doc <- s5, vec <- s6, faults <- s7

PipesInit ==
  /\ Init /\ BackfillInit
  /\ \/ /\ part \in {"Queue", "Index", "Backfill"}
        /\ s1 = 0 /\ s2 = 0 /\ s3 = 0 /\ s4 = 0 /\ s5 = 0 /\ s6 = 0 /\ s7 = 0 /\ s8 = 0 /\ s9 = 0 /\ s10 = 0 /\ s11 = 0 /\ s12 = 0 /\ s13 = 0
     \/ part = "Map" /\ Map!Init
     \/ part = "Client" /\ Client!Init
     \/ part = "Docs" /\ Crawl!Init /\ s12 = 0 /\ s13 = 0
     \/ part = "Files" /\ Files!Init /\ s8 = 0 /\ s9 = 0 /\ s10 = 0 /\ s11 = 0 /\ s12 = 0 /\ s13 = 0
  /\ IF part = "Index" THEN IndexInit ELSE IndexRests
PipesNext ==
  /\ UNCHANGED part
  /\ \/ part = "Queue" /\ Next /\ UNCHANGED <<slots, indexVars, backfillVars>>
     \/ part = "Index" /\ IndexNext /\ UNCHANGED <<slots, vars, backfillVars>>
     \/ part = "Backfill" /\ BackfillNext /\ UNCHANGED <<slots, vars, indexVars>>
     \/ /\ UNCHANGED <<vars, indexVars, backfillVars>>
        /\ \/ part = "Map" /\ Map!Next
           \/ part = "Client" /\ Client!Next
           \/ part = "Docs" /\ Crawl!Next /\ UNCHANGED <<s12, s13>>
           \/ part = "Files" /\ Files!Next /\ UNCHANGED <<s8, s9, s10, s11, s12, s13>>
PipesSpec == PipesInit /\ [][PipesNext]_all

-----------------------------------------------------------------------------
(* The properties of the parts: conjunctions of what their modules state.    *)

\* map_sync.py: the cursor never passes an edit that is not on disk, whatever is
\* edited while runs crawl, and no cursor is committed before the ingest.
CursorsFollow == [][part = "Map" => Map!CommitsIngested /\ Map!NoEditSkipped']_all
\* sync.py and docs_inventory.py, side by side: an edit behind the cursor is on
\* disk or lost for a reason the history names; only pages that are gone are
\* archived; no archived page returns unless it was fetched anew.  client.py and
\* service.py beneath them: requests keep their distance, a refusal that tells its rates
\* is not followed by another of one's own making, and a diagram that was put is the
\* one that is read.  external_compat.py: an upload that succeeded was itself read, the
\* gaps between files and index are told, and a job is stuck by a fault only.
DocsInStep == [][
  /\ part = "Docs" => Crawl!CursorIsSafe' /\ Crawl!ArchivesGone /\ Crawl!Resurrects
  /\ part = "Client" => Client!ClientFits'
  /\ part = "Files" => (Files!TypeOK /\ Files!ReadsItsOwn /\ Files!GapsAreTold /\ Files!StuckByFault)']_all
=============================================================================
