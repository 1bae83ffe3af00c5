------------------------------ MODULE MCLive -------------------------------
(***************************************************************************)
(* Small instances of the parts that promise something in the end.  A        *)
(* behaviour is about one part, named by `part'; the slots hold that part's *)
(* variables, and slots it has no use for stay 0.                            *)
(***************************************************************************)
EXTENDS Integers, FiniteSets, Sequences, TLC

VARIABLES part, s1, s2, s3, s4, s5, s6, s7, s8, s9, s10, s11, s12, s13, s14, s15
all == <<part, s1, s2, s3, s4, s5, s6, s7, s8, s9, s10, s11, s12, s13, s14, s15>>

MapFull   == [dry |-> FALSE, ingest |-> TRUE, only |-> "none", limit |-> 0, sources |-> {"s"}]
MapBudget == [f \in {"crash", "search", "page", "ingest", "doc", "embed", "delete"} |-> IF f \in {"doc", "embed"} THEN 1 ELSE 0]

Map == INSTANCE MapSync WITH Source <- {"s"}, Root <- {"r1", "r2"}, Page <- {1, 2, 3}, SourceOf <- [r \in {"r1", "r2"} |-> "s"],
  RootOf <- <<"r1", "r1", "r2">>, Seeds <- [s \in {"s"} |-> {}], PageSize <- 3, Margin <- 0, MaxErrorPct <- 0,
  MaxErrorCount <- 0, None <- "none", SyncOption <- {MapFull}, InvOption <- {}, MaxClock <- 1, Budget <- MapBudget,
  now <- s1, wiki <- s2, alive <- s3, raw <- s4, doc <- s5, status <- s6, vec <- s7, cursor <- s8, ckpt <- s9, run <- s10, budget <- s11, cycle <- s12, missed <- s13
Queue == INSTANCE JobQueue WITH Job <- {"j1", "j2"}, Worker <- {"w1"}, NoJob <- "none", Budget <- [d \in {"caller", "worker", "exception"} |-> IF d = "worker" THEN 1 ELSE 0],
  hash <- s1, ttl <- s2, queue <- s3, caller <- s4, worker <- s5, handler <- s6, beat <- s7, deaths <- s8
Graph == INSTANCE GraphSync WITH Runs <- {"r1"}, NoRun <- "none", Docs <- {"d1"}, Buckets <- {"b1"}, Contents <- {"c1", "c2"}, Absent <- "absent",
  GivenGens <- 1, MaxEdits <- 1, MaxFaults <- 1,
  doc <- s1, mark <- s2, rows <- s3, latest <- s4, lock <- s5, node <- s6, marker <- s7, made <- s8, run <- s9, edits <- s10, faults <- s11, torn <- s12, stray <- s13, lost <- s14, since <- s15
Index == INSTANCE IndexStore WITH Docs <- {1}, Empty <- {}, Ids <- 1..3, Ingesters <- {"i1"}, Embedders <- {"e1", "e2"}, CommitEvery <- 1,
  BatchSize <- 2, MaxBody <- 2, MaxFaults <- 1, Teams <- {{"i1", "e1", "e2"}},
  file <- s1, row <- s2, item <- s3, chunk <- s4, vec <- s5, ing <- s6, emb <- s7, raced <- s8, late <- s9, faults <- s10
Docs == INSTANCE DocsSync WITH Pages <- {1, 2}, Places <- {"x"}, Daily <- {"a"}, Weekly <- {"w"}, PageLimit <- 1, MaxErrorCount <- 1,
  MaxArchivePct <- 50, MaxChanges <- 1, MaxFaults <- 0,
  Mix <- {[runs |-> {"a", "w"}, spent |-> 0]},
  clock <- s1, edited <- s2, place <- s3, disk <- s4, index <- s5, last <- s6, lock <- s7, act <- s8, lost <- s9, stray <- s10, faults <- s11

QueueRest == UNCHANGED <<part, s9, s10, s11, s12, s13, s14, s15>>
IndexRest == UNCHANGED <<part, s11, s12, s13, s14, s15>>
DocsRest  == UNCHANGED <<part, s12, s13, s14, s15>>

Init ==
  \/ part = "Map" /\ Map!Init /\ s14 = 0 /\ s15 = 0
  \/ part = "Queue" /\ Queue!Init /\ s9 = 0 /\ s10 = 0 /\ s11 = 0 /\ s12 = 0 /\ s13 = 0 /\ s14 = 0 /\ s15 = 0
  \/ part = "Graph" /\ Graph!Init
  \/ part = "Index" /\ Index!IndexInit /\ s11 = 0 /\ s12 = 0 /\ s13 = 0 /\ s14 = 0 /\ s15 = 0
  \/ part = "Docs" /\ Docs!Init /\ s12 = 0 /\ s13 = 0 /\ s14 = 0 /\ s15 = 0
Next ==
  /\ UNCHANGED part
  /\ \/ part = "Map" /\ Map!Next /\ UNCHANGED <<s14, s15>>
     \/ part = "Queue" /\ Queue!Next /\ UNCHANGED <<s9, s10, s11, s12, s13, s14, s15>>
     \/ part = "Graph" /\ Graph!Next
     \/ part = "Index" /\ Index!IndexNext /\ UNCHANGED <<s11, s12, s13, s14, s15>>
     \/ part = "Docs" /\ Docs!Next /\ UNCHANGED <<s12, s13, s14, s15>>
Spec == Init /\ [][Next]_all

-----------------------------------------------------------------------------
(* The fairness of the modules, each within its part. *)
Fair ==
  /\ WF_all(part = "Map" /\ Map!StartSync(MapFull) /\ UNCHANGED <<part, s14, s15>>)
  /\ WF_all(part = "Map" /\ Map!Crawl /\ UNCHANGED <<part, s14, s15>>)
  /\ WF_all(part = "Map" /\ Map!Settle /\ UNCHANGED <<part, s14, s15>>)
  /\ \A j \in {"j1", "j2"} : WF_all(part = "Queue" /\ Queue!Enqueue(j) /\ QueueRest)
  /\ WF_all(part = "Queue" /\ Queue!StartWorker("w1") /\ QueueRest)
  /\ SF_all(part = "Queue" /\ Queue!Process("w1") /\ QueueRest)
  /\ WF_all(part = "Queue" /\ Queue!Beat("w1") /\ QueueRest)
  /\ WF_all(part = "Graph" /\ Graph!Step("r1") /\ ~Graph!At("r1", "idle") /\ UNCHANGED part)
  /\ SF_all(part = "Graph" /\ Graph!ListAll("r1") /\ UNCHANGED part)
  /\ SF_all(part = "Graph" /\ Graph!GetsGoing("r1") /\ UNCHANGED part)
  /\ \A i \in {"i1"} : WF_all(part = "Index" /\ i \in DOMAIN s6 /\ Index!IngestStep(i) /\ IndexRest)
  /\ \A e \in {"e1", "e2"} : WF_all(part = "Index" /\ e \in DOMAIN s7 /\ Index!EmbedStep(e) /\ IndexRest)
  /\ WF_all(part = "Docs" /\ "a" \in DOMAIN s8 /\ (Docs!DailyStep("a") \/ Docs!StartDaily("a", "full")) /\ DocsRest)
  /\ WF_all(part = "Docs" /\ "w" \in DOMAIN s8 /\ (Docs!WeeklyStep("w") \/ Docs!StartWeekly("w")) /\ DocsRest)
FairSpec == Spec /\ Fair

-----------------------------------------------------------------------------
(* What the parts promise, said of the behaviours about them. *)

\* map_sync.py: under a daily run whose failing ingests and embeddings heal,
\* what Confluence lists ends up indexed and embedded.
Converges       == <>[](part = "Map" => Map!Converged)
\* The worker: every accepted job gets a verdict, or its seven days pass, if
\* calls end; and while it stays up it is shown as up again and again, even in a
\* call that never returns.
QueueLives ==
  /\ []<>(part = "Queue" => Queue!Returned("w1")) => <>[](part = "Queue" => Queue!AllSettled)
  /\ <>[](part = "Queue" => Queue!Up("w1")) => []<>(part = "Queue" => Queue!Shining)
\* sync_cli.py, run from cron: once edits and faults end, the graph holds what
\* PostgreSQL holds, although errors, dead runs and lost locks came before.
GraphCatchesUp  == <>[](part = "Graph" => Graph!CaughtUp)
\* Ingests and embedders that go on leave every active chunk of every file
\* with a vector, and no vector of a chunk that is gone.
IndexSettles    == <>[](part = "Index" => Index!Settled)
\* The daily run and the weekly inventory together: the index ends up with
\* what Confluence shows.
Reconciles      == <>[](part = "Docs" /\ Docs!BothRun => Docs!Reconciled)

=============================================================================
