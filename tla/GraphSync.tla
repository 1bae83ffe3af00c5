----------------------------- MODULE GraphSync -----------------------------
(***************************************************************************)
(* The batch that derives the knowledge graph (Neo4j) from the documents    *)
(* (PostgreSQL): apps/api/app/graph/sync_cli.py and pipeline.py.  The two   *)
(* stores share no transaction.  A document is merged into the graph and    *)
(* then marked as synchronised; the next run skips what is marked with the  *)
(* same content and the same generation of the graph store.                 *)
(*                                                                          *)
(* A content stands for the hash of everything the extractors read of one   *)
(* document (text, ancestors, components, entities) and the version of the  *)
(* extractor.                                                               *)
(***************************************************************************)
EXTENDS Integers, FiniteSets

CONSTANTS
  Runs,        \* invocations of sync_cli that may overlap
  NoRun,
  Docs,        \* documents
  Buckets,     \* active failure buckets
  Contents,    \* what a document or a bucket may hold
  Absent,      \* no such document yet, or no such node in the graph
  GivenGens,   \* number of generations an operator may pass with --generation
  MaxEdits, MaxFaults     \* bounds of the environment
\* Documents and buckets are nodes of different labels in Neo4j; `Absent' and `NoRun'
\* stand for what is not there.
ASSUME GraphAssumption == Docs \intersect Buckets = {} /\ Absent \notin Contents /\ NoRun \notin Runs /\ GivenGens \in Nat

Items == Docs \union Buckets

VARIABLES
  doc,        \* PostgreSQL: content of each document and bucket
  mark,       \* PostgreSQL: graph_sync_state, one row per document
  rows,       \* PostgreSQL: graph_runs, the last row of each invocation
  latest,     \* the invocation whose row has the highest seq
  lock,       \* holder of the session-level advisory lock
  node,       \* Neo4j: content the owned edges of each node were made from
  marker,     \* Neo4j: GraphMeta generation, 0 if there is none
  made,       \* number of generations made so far
  run,        \* memory of each invocation
  edits, faults,
  torn,       \* history: documents merged whose mark did not follow
  stray,      \* history: items merged or marked after the run had lost its lock
  lost,       \* history: generations in use when a store was replaced
  since       \* history: what each listed item held since the run listed it

pgVars    == <<doc, mark, rows, latest, lock>>
graphVars == <<node, marker>>
hist      == <<torn, stray, lost, since>>
vars == <<doc, mark, rows, latest, lock, node, marker, made, run, edits, faults,
          torn, stray, lost, since>>

NoMark == [hash |-> Absent, gen |-> 0, error |-> FALSE]
Row0  == [status |-> "none", scope |-> "full", open |-> FALSE]

Idle0 == [pc |-> "idle", scope |-> "full", todo |-> {}, btodo |-> {}, cur |-> Absent,
          hash |-> Absent, gen |-> 0, ok |-> TRUE]

(* Where an invocation is: before and after the lock, in the loop over the  *)
(* documents (docs, check, merge, mark), over the buckets (buckets,         *)
(* bmerge), or at the end.                                                  *)
Pcs == {"idle", "listed", "locked", "cleared", "starting", "docs", "check", "merge", "mark",
        "buckets", "bmerge", "finish", "release"}

Init ==
  /\ doc \in [Items -> Contents \union {Absent}]
  /\ \A b \in Buckets : doc[b] # Absent
  /\ mark = [d \in Docs |-> NoMark]
  /\ rows = [r \in Runs |-> Row0] /\ latest = NoRun /\ lock = NoRun
  /\ node = [i \in Items |-> Absent] /\ marker = 0 /\ made = 0
  /\ run = [r \in Runs |-> Idle0]
  /\ edits = 0 /\ faults = 0
  /\ torn = {} /\ stray = {} /\ lost = {}
  /\ since = [r \in Runs |-> [i \in Items |-> {}]]

Holds(r) == lock = r
At(r, pc) == run[r].pc = pc
Become(r, pc) == run' = [run EXCEPT ![r].pc = pc]
Exit(r) == run' = [run EXCEPT ![r] = Idle0] /\ since' = [since EXCEPT ![r] = [i \in Items |-> {}]]
SetStatus(r, s) == rows' = [rows EXCEPT ![r].status = s, ![r].open = FALSE]

(***************************************************************************)
(* From the command line to the first document.                            *)
(***************************************************************************)

\* What to do is listed before the lock is tried.
List(r) ==
  /\ At(r, "idle")
  /\ \E scope \in {"full", "partial"}, given \in 0..GivenGens, chosen \in SUBSET Docs :
       LET todo == IF scope = "full" THEN {d \in Docs : doc[d] # Absent} ELSE chosen IN
       /\ scope = "full" => chosen = {}
       /\ scope = "partial" => chosen # {}
       /\ run' = [run EXCEPT ![r] = [Idle0 EXCEPT !.pc = "listed", !.scope = scope,
                    !.todo = todo, !.btodo = Buckets, !.gen = given]]
       /\ since' = [since EXCEPT ![r] =
            [i \in Items |-> IF i \in todo \union Buckets THEN {doc[i]} \ {Absent} ELSE {}]]
  /\ UNCHANGED <<pgVars, graphVars, made, edits, faults, torn, stray, lost>>

TryLock(r) ==
  /\ At(r, "listed")
  /\ IF lock = NoRun
     THEN lock' = r /\ Become(r, "locked") /\ since' = since
     ELSE lock' = lock /\ Exit(r)
  /\ UNCHANGED <<doc, mark, rows, latest, graphVars, made, edits, faults, torn, stray, lost>>

\* Whoever gets the lock declares the rows still `running' abandoned, over
\* the connection that holds the lock.
Abandon(r) ==
  /\ At(r, "locked") /\ Holds(r)
  /\ rows' = [q \in Runs |-> IF rows[q].status = "running"
                             THEN [rows[q] EXCEPT !.status = "abandoned"] ELSE rows[q]]
  /\ Become(r, "cleared")
  /\ UNCHANGED <<doc, mark, latest, lock, graphVars, made, edits, faults, hist>>

\* Without --generation the graph store says which generation it is, and a
\* store without a marker gets a new, unique one; the marker is written back.
ChooseGeneration(r) ==
  /\ At(r, "cleared")
  /\ LET fresh == run[r].gen = 0 /\ marker = 0 IN
     /\ marker' = IF run[r].gen # 0 THEN run[r].gen
                  ELSE IF fresh THEN GivenGens + made + 1 ELSE marker
     /\ made' = IF fresh THEN made + 1 ELSE made
  /\ run' = [run EXCEPT ![r].pc = "starting", ![r].gen = marker']
  /\ UNCHANGED <<pgVars, node, edits, faults, hist>>

StartRun(r) ==
  /\ At(r, "starting")
  /\ rows' = [rows EXCEPT ![r] = [status |-> "running", scope |-> run[r].scope, open |-> Holds(r)]]
  /\ latest' = r
  /\ Become(r, "docs")
  /\ UNCHANGED <<doc, mark, lock, graphVars, made, edits, faults, hist>>

(***************************************************************************)
(* sync_document: one document, isolated from the others.                   *)
(***************************************************************************)

NextDoc(r, ok) == run' = [run EXCEPT ![r].pc = "docs", ![r].todo = @ \ {run[r].cur},
                            ![r].cur = Absent, ![r].hash = Absent, ![r].ok = @ /\ ok]

\* One session reads the document and all inputs of its hash.  An id given
\* with --source-ids may name no document.
ReadDoc(r) ==
  /\ At(r, "docs")
  /\ \E d \in run[r].todo :
       run' = [run EXCEPT ![r] =
                 IF doc[d] = Absent THEN [run[r] EXCEPT !.todo = @ \ {d}, !.ok = FALSE]
                 ELSE [run[r] EXCEPT !.pc = "check", !.cur = d, !.hash = doc[d]]]
  /\ UNCHANGED <<pgVars, graphVars, made, edits, faults, hist>>

MutUnchangedGen(r) == mark[run[r].cur].hash = run[r].hash /\ ~mark[run[r].cur].error

Unchanged(r) == LET m == mark[run[r].cur] IN
                m.hash = run[r].hash /\ m.gen = run[r].gen /\ ~m.error

\* A second session reads the mark.
CheckMark(r) ==
  /\ At(r, "check")
  /\ IF Unchanged(r) THEN NextDoc(r, TRUE) ELSE Become(r, "merge")
  /\ UNCHANGED <<pgVars, graphVars, made, edits, faults, hist>>

WriteNode(r) ==
  /\ node' = [node EXCEPT ![run[r].cur] = run[r].hash]
  /\ stray' = IF Holds(r) THEN stray ELSE stray \union {run[r].cur}

\* merge_document: one Neo4j transaction that deletes the edges the document
\* owns and writes the new ones.
MergeDocument(r) ==
  /\ At(r, "merge")
  /\ WriteNode(r)
  /\ Become(r, "mark")
  /\ UNCHANGED <<pgVars, marker, made, edits, faults, torn, lost, since>>

MutMarkSynced(r) ==      \* the mark takes what the document holds by then
  /\ At(r, "mark")
  /\ mark' = [mark EXCEPT ![run[r].cur] = [hash |-> doc[run[r].cur], gen |-> run[r].gen, error |-> FALSE]]
  /\ IF Holds(r) THEN torn' = torn \ {run[r].cur} /\ stray' = stray
                 ELSE torn' = torn /\ stray' = stray \union {run[r].cur}
  /\ NextDoc(r, TRUE)
  /\ UNCHANGED <<doc, rows, latest, lock, graphVars, made, edits, faults, lost, since>>

MarkSynced(r) ==
  /\ At(r, "mark")
  /\ mark' = [mark EXCEPT ![run[r].cur] = [hash |-> run[r].hash, gen |-> run[r].gen, error |-> FALSE]]
  /\ IF Holds(r) THEN torn' = torn \ {run[r].cur} /\ stray' = stray
                 ELSE torn' = torn /\ stray' = stray \union {run[r].cur}
  /\ NextDoc(r, TRUE)
  /\ UNCHANGED <<doc, rows, latest, lock, graphVars, made, edits, faults, lost, since>>

\* The mark cannot be written: the document still counts as synchronised, the
\* run is no longer `completed'.
MarkFails(r) ==
  /\ At(r, "mark") /\ faults < MaxFaults
  /\ faults' = faults + 1
  /\ torn' = torn \union {run[r].cur}
  /\ NextDoc(r, FALSE)
  /\ UNCHANGED <<pgVars, graphVars, made, edits, stray, lost, since>>

\* An exception before the mark: an extractor raises, or the merge does, before
\* Neo4j committed or after.  Recording the error may fail as well.
DocFails(r) ==
  /\ run[r].pc \in {"check", "merge"} /\ faults < MaxFaults
  /\ faults' = faults + 1
  /\ \E applied, recorded \in BOOLEAN :
       /\ applied => At(r, "merge")
       /\ IF applied THEN WriteNode(r) ELSE UNCHANGED <<node, stray>>
       /\ mark' = IF recorded THEN [mark EXCEPT ![run[r].cur].error = TRUE] ELSE mark
       /\ torn' = IF applied /\ ~recorded THEN torn \union {run[r].cur} ELSE torn
  /\ NextDoc(r, FALSE)
  /\ UNCHANGED <<doc, rows, latest, lock, marker, made, edits, lost, since>>

(***************************************************************************)
(* Heartbeats, buckets and the end of a run.                                *)
(***************************************************************************)

\* The heartbeat uses the connection that holds the lock: it goes through only
\* while the lock is held.  It comes every minute or so between two documents,
\* and after each of the two loops.
LockFoundLost(r) ==
  /\ ~Holds(r)
  /\ \/ (At(r, "docs") \/ (At(r, "buckets") /\ run[r].btodo = {})) /\ SetStatus(r, "failed")
     \/ At(r, "locked") /\ rows' = rows          \* nothing to abandon rows with, no row yet
  /\ Exit(r)
  /\ UNCHANGED <<doc, mark, latest, lock, graphVars, made, edits, faults, torn, stray, lost>>

EndDocs(r) ==
  /\ At(r, "docs") /\ run[r].todo = {} /\ Holds(r)
  /\ Become(r, "buckets")
  /\ UNCHANGED <<pgVars, graphVars, made, edits, faults, hist>>

\* sync_failure_bucket: read, then merge, always.
ReadBucket(r) ==
  /\ At(r, "buckets")
  /\ \E b \in run[r].btodo :
       run' = [run EXCEPT ![r].pc = "bmerge", ![r].cur = b, ![r].hash = doc[b]]
  /\ UNCHANGED <<pgVars, graphVars, made, edits, faults, hist>>

MergeBucket(r) ==
  /\ At(r, "bmerge")
  /\ \E ok \in BOOLEAN :
       /\ IF ok THEN WriteNode(r) /\ faults' = faults
                ELSE faults < MaxFaults /\ faults' = faults + 1 /\ UNCHANGED <<node, stray>>
       /\ run' = [run EXCEPT ![r].pc = "buckets", ![r].btodo = @ \ {run[r].cur},
                    ![r].cur = Absent, ![r].hash = Absent, ![r].ok = @ /\ ok]
  /\ UNCHANGED <<pgVars, marker, made, edits, torn, lost, since>>

\* The heartbeat after the buckets; the hub flags of the components are counted
\* again, unless told not to, and that may fail.
EndBuckets(r) ==
  /\ At(r, "buckets") /\ run[r].btodo = {} /\ Holds(r)
  /\ \E ok \in BOOLEAN :
       /\ IF ok THEN faults' = faults ELSE faults < MaxFaults /\ faults' = faults + 1
       /\ run' = [run EXCEPT ![r].pc = "finish", ![r].ok = @ /\ ok]
  /\ UNCHANGED <<pgVars, graphVars, made, edits, hist>>

FinishRun(r) ==
  /\ At(r, "finish")
  /\ SetStatus(r, IF run[r].ok THEN "completed" ELSE "completed_warn")
  /\ Become(r, "release")
  /\ UNCHANGED <<doc, mark, latest, lock, graphVars, made, edits, faults, hist>>

ReleaseLock(r) ==
  /\ At(r, "release")
  /\ lock' = IF Holds(r) THEN NoRun ELSE lock
  /\ Exit(r)
  /\ UNCHANGED <<doc, mark, rows, latest, graphVars, made, edits, faults, torn, stray, lost>>

\* Anything that raises outside the isolated parts, an index or the list of
\* buckets for instance: the row says failed and the lock is released.
RunFails(r) ==
  /\ run[r].pc \in {"docs", "buckets"} /\ faults < MaxFaults
  /\ faults' = faults + 1
  /\ SetStatus(r, "failed")
  /\ lock' = IF Holds(r) THEN NoRun ELSE lock
  /\ Exit(r)
  /\ UNCHANGED <<doc, mark, latest, graphVars, made, edits, torn, stray, lost>>

(***************************************************************************)
(* The environment.                                                         *)
(***************************************************************************)

\* A document is created or changes, back to an earlier content too.
Edit ==
  /\ edits < MaxEdits /\ edits' = edits + 1
  /\ \E i \in Items, c \in Contents :
       /\ c # doc[i]
       /\ doc' = [doc EXCEPT ![i] = c]
       /\ since' = [r \in Runs |-> [since[r] EXCEPT ![i] = IF @ = {} THEN {} ELSE @ \union {c}]]
  /\ UNCHANGED <<mark, rows, latest, lock, graphVars, made, run, faults, torn, stray, lost>>

\* The process is killed, or raises before its row exists; PostgreSQL releases
\* the lock with the connection.
Crash(r) ==
  /\ ~At(r, "idle") /\ faults < MaxFaults
  /\ faults' = faults + 1
  /\ lock' = IF Holds(r) THEN NoRun ELSE lock
  /\ rows' = [rows EXCEPT ![r].open = FALSE]
  /\ torn' = IF At(r, "mark") THEN torn \union {run[r].cur} ELSE torn
  /\ Exit(r)
  /\ UNCHANGED <<doc, mark, latest, graphVars, made, edits, stray, lost>>

\* The connection that holds the lock breaks; the process does not notice.
LoseLock ==
  /\ lock # NoRun /\ faults < MaxFaults
  /\ faults' = faults + 1
  /\ lock' = NoRun
  /\ rows' = [rows EXCEPT ![lock].open = FALSE]
  /\ stray' = IF At(lock, "mark") THEN stray \union {run[lock].cur} ELSE stray
  /\ UNCHANGED <<doc, mark, latest, graphVars, made, run, edits, torn, lost, since>>

\* The graph store is replaced by an empty one.
InUse == ({mark[d].gen : d \in Docs} \union {run[r].gen : r \in Runs}) \ {0}
SwapStore ==
  /\ marker # 0 /\ faults < MaxFaults
  /\ faults' = faults + 1
  /\ node' = [i \in Items |-> Absent] /\ marker' = 0
  /\ lost' = lost \union InUse
  /\ UNCHANGED <<pgVars, made, run, edits, torn, stray, since>>

Step(r) ==
  \/ List(r) \/ TryLock(r) \/ Abandon(r) \/ ChooseGeneration(r) \/ StartRun(r)
  \/ ReadDoc(r) \/ CheckMark(r) \/ MergeDocument(r) \/ MarkSynced(r)
  \/ LockFoundLost(r) \/ EndDocs(r) \/ ReadBucket(r) \/ MergeBucket(r) \/ EndBuckets(r)
  \/ FinishRun(r) \/ ReleaseLock(r)

Fault == \/ \E r \in Runs : MarkFails(r) \/ DocFails(r) \/ RunFails(r) \/ Crash(r)
         \/ LoseLock \/ SwapStore

Next == (\E r \in Runs : Step(r)) \/ Edit \/ Fault

\* The batch is started again and again by cron, full runs among the others; a
\* started one takes its steps, and a full run finds the lock free now and then.
GetsGoing(r) == /\ TryLock(r) /\ Holds(r)' /\ run[r].scope = "full"
Spec == Init /\ [][Next]_vars
ListAll(r) == List(r) /\ run'[r].scope = "full"
FairSpec == Spec /\ \A r \in Runs : /\ WF_vars(Step(r) /\ ~At(r, "idle"))
                                     /\ SF_vars(ListAll(r))
                                     /\ SF_vars(GetsGoing(r))

(***************************************************************************)
(* What GET /v1/graph/status derives from the latest row: a full run is in  *)
(* progress when its row says running and the connection named in the row   *)
(* holds the lock now.                                                      *)
(***************************************************************************)
RunLiveness(r) == IF rows[r].status # "running" THEN "none"
                  ELSE IF rows[r].open /\ Holds(r) THEN "running" ELSE "likely_dead"
InProgress == latest # NoRun /\ rows[latest].scope = "full" /\ RunLiveness(latest) = "running"

-----------------------------------------------------------------------------
RowStatus == {"none", "running", "abandoned", "failed", "completed", "completed_warn"}
Scope == {"full", "partial"}
RunState == [pc : Pcs, scope : Scope, todo : SUBSET Docs, btodo : SUBSET Buckets, cur : Items \union {Absent},
             hash : Contents \union {Absent}, gen : Nat, ok : BOOLEAN]
TypeOK ==
  /\ doc \in [Items -> Contents \union {Absent}] /\ \A b \in Buckets : doc[b] # Absent
  /\ mark \in [Docs -> [hash : Contents \union {Absent}, gen : Nat, error : BOOLEAN]]
  /\ rows \in [Runs -> [status : RowStatus, scope : Scope, open : BOOLEAN]]
  /\ latest \in Runs \union {NoRun} /\ lock \in Runs \union {NoRun}
  /\ node \in [Items -> Contents \union {Absent}] /\ marker \in Nat /\ made \in Nat
  /\ run \in [Runs -> RunState]
  /\ torn \subseteq Docs /\ stray \subseteq Items /\ lost \subseteq Nat
  /\ since \in [Runs -> [Items -> SUBSET Contents]]

Excused(i) == i \in torn \/ i \in stray \/ marker \in lost

(* pipeline.py:213: a document is skipped because its mark has the present   *)
(* content, the generation of the present store and no error.  Then the      *)
(* graph does hold that content.  The exceptions are the known ones: a merge *)
(* whose mark never followed (and a content that came back), a writer that   *)
(* had lost its lock, a marker carried to another store.                     *)
SkipIsSound ==
  \A d \in Docs :
    /\ mark[d].hash = doc[d] /\ mark[d].gen = marker /\ ~mark[d].error /\ marker # 0
    /\ ~Excused(d)
    /\ \A r \in Runs : ~(At(r, "mark") /\ run[r].cur = d)
    => node[d] = doc[d]

(* sync_cli.py:262: a run that reports `completed' has left, for every item  *)
(* it listed, a content the item held after it was listed: nothing older,    *)
(* although most documents were skipped and nobody compared them.            *)
CompletedIsFresh ==
  \A r \in Runs :
    At(r, "release") /\ rows[r].status = "completed" /\ Holds(r) /\ marker = run[r].gen =>
      \A i \in Items : since[r][i] # {} /\ ~Excused(i) => node[i] \in since[r][i]

(* sync_cli.py:167: a row is called abandoned only when its run is dead or   *)
(* has lost the lock: never one that still holds it.                         *)
AbandonedHoldNoLock ==
  \A r \in Runs : rows[r].status = "abandoned" /\ Holds(r) =>
                    run[r].pc \in {"locked", "cleared", "starting"}

(* graph.py:654: while a full run that holds the lock is between its row and  *)
(* its verdict, the status call shows a run in progress.  The one exception:  *)
(* a run that lost the lock before it wrote its row, and wrote it last.       *)
ProgressShown ==
  \A r \in Runs :
    Holds(r) /\ run[r].scope = "full" /\ run[r].pc \in Pcs \ {"locked", "cleared", "starting", "release"}
      => InProgress \/ (latest # r /\ ~rows[latest].open)

(* What the batch and its status page promise, whatever dies, loses its lock *)
(* or is replaced.                                                           *)
GraphIsTrue == TypeOK /\ SkipIsSound /\ CompletedIsFresh /\ AbandonedHoldNoLock /\ ProgressShown

(* Under repeated full runs and finitely many faults every document and      *)
(* bucket is finally in the graph as it is in PostgreSQL, but for those the  *)
(* history excuses.                                                          *)
CaughtUp == \A i \in Items : doc[i] = Absent \/ node[i] = doc[i] \/ Excused(i)
GraphCatchesUp == <>[]CaughtUp
=============================================================================
