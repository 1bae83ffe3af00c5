------------------------------ MODULE IndexStore ------------------------------
(***************************************************************************)
(* Documents, chunks and vectors: ingest/pipeline.py, ingest/chunking.py    *)
(* and embed/job.py, as the concurrent jobs they are.  Neither job takes a  *)
(* lock of its own: the daily crawls, POST /v1/ingest/run, uploads and the  *)
(* command lines all start them.                                            *)
(*                                                                          *)
(* PostgreSQL runs READ COMMITTED and the sessions do not flush on their    *)
(* own (db/session.py), so an ingest takes the row lock of a document only  *)
(* when it flushes: after it has read the row and the list of its chunks.   *)
(* A body is the number of its edit and is one chunk, or none where it is   *)
(* empty.                                                                   *)
(***************************************************************************)
EXTENDS Integers, FiniteSets

CONSTANTS
  Docs,          \* files of the corpus, one document each: naturals in file order
  Empty,         \* edits that leave no text
  Ids,           \* chunk ids, ordered; which one a chunk gets is chance (uuid4)
  Ingesters,     \* runs of run_ingest
  Embedders,     \* runs of embed_pending_chunks
  CommitEvery,   \* documents between two commits (100 in run_ingest)
  BatchSize,     \* chunks read at once
  MaxBody,       \* bound on the edits of a file
  MaxFaults,     \* bound on crashes, failing purges and encodes
  Teams          \* which jobs take part
\* Ids are uuids and files are not numbered in the code: any naturals will do, and 0
\* stands for no chunk.
ASSUME IndexAssumption == Docs \subseteq Nat /\ Ids \subseteq Nat \ {0}

Never == -1      \* no row yet
VARIABLES
  file,          \* Docs -> the body on disk
  row,           \* Docs -> the body of the committed row, or Never
  item,          \* Docs -> the body its checkitem was written from, or Never
  chunk,         \* Ids -> [doc, body, active], or Free: committed chunks
  vec,           \* chunks with a vector
  ing, emb,      \* the jobs
  raced,         \* history: documents two ingests rewrote from the same chunk list
  late,          \* history: vectors written for chunks retired meanwhile
  faults
indexVars == <<file, row, item, chunk, vec, ing, emb, raced, late, faults>>

Free == [doc |-> Never, body |-> Never, active |-> FALSE]
IdleIngest == [pc |-> "idle", todo |-> {}, doc |-> Never, body |-> Never, new |-> FALSE, old |-> {},
               drop |-> {}, stale |-> FALSE, dirty |-> {}, count |-> 0]
IdleEmbed == [pc |-> "idle", after |-> 0, batch |-> {}, fresh |-> {}]

Active(d) == {c \in Ids : chunk[c].doc = d /\ chunk[c].active}
Drafts == UNION {ing[i].dirty : i \in DOMAIN ing}
Given == {x.id : x \in Drafts}    \* to inserts that are not committed yet
ChunksOf(d) == {c \in Ids : chunk[c].doc = d} \ Given
OnTheWay == UNION {emb[e].batch : e \in DOMAIN emb}
Retiring == (UNION {ing[i].old : i \in DOMAIN ing}) \union UNION {x.old : x \in Drafts}
InHand == OnTheWay \union Given \union Retiring
\* A retired chunk without a vector that no job refers to is forgotten.
Spare == {c \in Ids : ~chunk[c].active /\ c \notin vec \union InHand}

IndexInit ==
  /\ file = [d \in Docs |-> 1] /\ row = [d \in Docs |-> Never] /\ item = [d \in Docs |-> Never]
  /\ chunk = [c \in Ids |-> Free] /\ vec = {}
  /\ \E t \in Teams : /\ ing = [i \in Ingesters \intersect t |-> IdleIngest]
                       /\ emb = [e \in Embedders \intersect t |-> IdleEmbed]
  /\ raced = {} /\ late = {} /\ faults = 0

Edit(d) ==
  /\ file[d] < MaxBody /\ file' = [file EXCEPT ![d] = @ + 1]
  /\ UNCHANGED <<row, item, chunk, vec, ing, emb, raced, late, faults>>

-----------------------------------------------------------------------------
(* run_ingest *)

Have(i, k) == ing' = [ing EXCEPT ![i] = k]
StartIngest(i) ==
  /\ ing[i].pc = "idle" /\ Have(i, [IdleIngest EXCEPT !.pc = "next", !.todo = Docs])
  /\ UNCHANGED <<file, row, item, chunk, vec, emb, raced, late, faults>>

\* A document is over; every CommitEvery-th that did not fail ends with a commit.
AfterDoc(k) == [k EXCEPT !.pc = IF (k.count + 1) % CommitEvery = 0 THEN "commit" ELSE "next",
                         !.count = @ + 1, !.doc = Never, !.old = {}, !.drop = {}, !.stale = FALSE]

\* The draft is read from the file, the row by its source and id.  An unchanged
\* document that has active chunks is left alone.
Same(d) == row[d] = file[d] /\ Active(d) # {}
NextDraft(i) ==
  /\ ing[i].pc = "next" /\ ing[i].todo # {}
  /\ \E d \in ing[i].todo :
       /\ \A e \in ing[i].todo : d <= e
       /\ LET k == [ing[i] EXCEPT !.todo = @ \ {d}, !.doc = d, !.body = file[d], !.new = row[d] = Never]
          IN Have(i, IF Same(d) THEN AfterDoc(k) ELSE [k EXCEPT !.pc = "load"])
  /\ UNCHANGED <<file, row, item, chunk, vec, emb, raced, late, faults>>

\* doc.chunks is loaded when it is first asked for, before the flush.
LoadChunks(i) ==
  /\ ing[i].pc = "load"
  /\ Have(i, [ing[i] EXCEPT !.pc = "delete", !.old = IF ing[i].new THEN {} ELSE ChunksOf(ing[i].doc)])
  /\ UNCHANGED <<file, row, item, chunk, vec, emb, raced, late, faults>>

\* Their vectors are deleted, in the transaction that commits later; a row
\* another ingest has deleted is waited for.
Held(i) == ing[i].drop \union UNION {x.drop : x \in ing[i].dirty}
DeleteVectors(i) ==
  /\ ing[i].pc = "delete"
  /\ \A j \in DOMAIN ing \ {i} : Held(j) \intersect ing[i].old \intersect vec = {}
  /\ Have(i, [ing[i] EXCEPT !.pc = "flush", !.drop = ing[i].old \intersect vec])
  /\ UNCHANGED <<file, row, item, chunk, vec, emb, raced, late, faults>>

\* The flush waits for the row lock, or for the unique key of an insert.  The
\* old chunks are retired, the sections removed, the new chunk inserted.
Locked(i, d) == \E j \in DOMAIN ing \ {i} : \E x \in ing[j].dirty : x.doc = d
Flush(i) ==
  /\ ing[i].pc = "flush" /\ ~Locked(i, ing[i].doc) /\ ~(ing[i].new /\ row[ing[i].doc] # Never)
  /\ \E c \in IF ing[i].body \in Empty THEN {0} ELSE Spare :
       Have(i, AfterDoc([ing[i] EXCEPT !.dirty = @ \union {[doc |-> ing[i].doc, body |-> ing[i].body,
                           old |-> ing[i].old, drop |-> ing[i].drop, stale |-> ing[i].stale, id |-> c]}]))
  /\ UNCHANGED <<file, row, item, chunk, vec, emb, raced, late, faults>>

\* Two inserts of one document: the second breaks the unique key and its
\* savepoint is rolled back; a failed document is no occasion for a commit.
InsertClash(i) ==
  /\ ing[i].pc = "flush" /\ ~Locked(i, ing[i].doc) /\ ing[i].new /\ row[ing[i].doc] # Never
  /\ Have(i, [ing[i] EXCEPT !.pc = "next", !.count = @ + 1, !.doc = Never, !.stale = FALSE])
  /\ UNCHANGED <<file, row, item, chunk, vec, emb, raced, late, faults>>

\* session.commit() after a batch of documents and at the end.
MutRetired(x) == {}                       \* mutant: the old chunks stay active
Retired(x) == x.old
Dropped(x) == x.drop
Commit(i) ==
  /\ ing[i].pc = "commit" \/ (ing[i].pc = "next" /\ ing[i].todo = {})
  /\ LET dirty == ing[i].dirty
         written == {x.doc : x \in dirty}
         of(d) == CHOOSE x \in dirty : x.doc = d
         retired == UNION {Retired(x) : x \in dirty}
         rewritten(d, old) == IF d \in written THEN of(d).body ELSE old
     IN /\ row' = [d \in Docs |-> rewritten(d, row[d])]
        /\ item' = [d \in Docs |-> rewritten(d, item[d])]
        /\ chunk' = [c \in Ids |->
             IF \E x \in dirty : x.id = c
             THEN LET x == CHOOSE y \in dirty : y.id = c IN [doc |-> x.doc, body |-> x.body, active |-> TRUE]
             ELSE [chunk[c] EXCEPT !.active = @ /\ c \notin retired]]
        /\ vec' = vec \ UNION {Dropped(x) : x \in dirty}
        /\ raced' = {d \in Docs : IF d \in written THEN of(d).stale ELSE d \in raced}
        /\ late' = (late \ {x.id : x \in dirty}) \union (retired \intersect OnTheWay)
        /\ ing' = [j \in DOMAIN ing |->
             IF j # i THEN [ing[j] EXCEPT !.stale = @ \/ (ing[j].pc \in {"delete", "flush"} /\ ing[j].doc \in written)]
             ELSE IF ing[i].pc = "commit" THEN [ing[i] EXCEPT !.pc = "next", !.dirty = {}] ELSE IdleIngest]
  /\ UNCHANGED <<file, emb, faults>>

-----------------------------------------------------------------------------
(* embed_pending_chunks *)

\* purge_inactive_embeddings() comes first.
MutPurged == {}                           \* mutant: no purge
Purged == {c \in Ids : ~chunk[c].active}
StartEmbed(e) ==
  /\ emb[e].pc = "idle"
  /\ \/ vec' = vec \ Purged /\ late' = late \ (Purged \ OnTheWay) /\ UNCHANGED faults
     \/ faults < MaxFaults /\ faults' = faults + 1 /\ UNCHANGED <<vec, late>>      \* logged
  /\ emb' = [emb EXCEPT ![e].pc = "fetch"]
  /\ UNCHANGED <<file, row, item, chunk, ing, raced>>

\* A page of active chunks without a vector, behind the last id of the page before.
Unembedded(after) == {c \in Ids : chunk[c].active /\ c \notin vec /\ c > after}
FirstOf(S) == {c \in S : Cardinality({x \in S : x < c}) < BatchSize}
Fetch(e) ==
  /\ emb[e].pc = "fetch"
  /\ LET batch == FirstOf(Unembedded(emb[e].after)) IN
     \/ batch = {} /\ emb' = [emb EXCEPT ![e] = IdleEmbed]
     \/ \E last \in batch :
          /\ \A c \in batch : c <= last
          /\ emb' = [emb EXCEPT ![e] = [@ EXCEPT !.pc = "encode", !.batch = batch, !.after = last]]
  /\ UNCHANGED <<file, row, item, chunk, vec, ing, raced, late, faults>>

EncodeFails(e) ==
  /\ emb[e].pc = "encode" /\ faults < MaxFaults /\ faults' = faults + 1
  /\ emb' = [emb EXCEPT ![e].pc = "fetch", ![e].batch = {}]
  /\ UNCHANGED <<file, row, item, chunk, vec, ing, raced, late>>

\* Which of the batch have a vector by now, chunk by chunk; then one commit.
LookUp(e) ==
  /\ emb[e].pc = "encode"
  /\ emb' = [emb EXCEPT ![e].pc = "insert", ![e].fresh = emb[e].batch \ vec]
  /\ UNCHANGED <<file, row, item, chunk, vec, ing, raced, late, faults>>
Clash(e) == emb[e].fresh \intersect vec # {}
Insert(e) ==
  /\ emb[e].pc = "insert" /\ ~Clash(e)
  /\ vec' = vec \union emb[e].fresh
  /\ late' = late \union (emb[e].fresh \intersect Retiring)
  /\ emb' = [emb EXCEPT ![e].pc = "fetch", ![e].batch = {}, ![e].fresh = {}]
  /\ UNCHANGED <<file, row, item, chunk, ing, raced, faults>>
\* The unique key of (chunk, model): the whole batch is rolled back, and the
\* exception ends the job.
InsertFails(e) ==
  /\ emb[e].pc = "insert" /\ Clash(e) /\ \A i \in DOMAIN ing : Held(i) \intersect emb[e].fresh = {}
  /\ emb' = [emb EXCEPT ![e] = IdleEmbed]
  /\ UNCHANGED <<file, row, item, chunk, vec, ing, raced, late, faults>>

\* A process dies; what it did not commit is gone.
CrashJob ==
  /\ faults < MaxFaults /\ faults' = faults + 1
  /\ \/ \E i \in DOMAIN ing : ing[i].pc # "idle" /\ ing' = [ing EXCEPT ![i] = IdleIngest] /\ UNCHANGED emb
     \/ \E e \in DOMAIN emb : emb[e].pc # "idle" /\ emb' = [emb EXCEPT ![e] = IdleEmbed] /\ UNCHANGED ing
  /\ UNCHANGED <<file, row, item, chunk, vec, raced, late>>

IngestStep(i) ==
  \/ StartIngest(i) \/ NextDraft(i) \/ LoadChunks(i) \/ DeleteVectors(i) \/ Flush(i)
  \/ InsertClash(i) \/ Commit(i)
EmbedStep(e) == StartEmbed(e) \/ Fetch(e) \/ EncodeFails(e) \/ LookUp(e) \/ Insert(e) \/ InsertFails(e)
IndexNext ==
  \/ \E d \in Docs : Edit(d)
  \/ \E i \in DOMAIN ing : IngestStep(i)
  \/ \E e \in DOMAIN emb : EmbedStep(e)
  \/ CrashJob
IndexSpec == IndexInit /\ [][IndexNext]_indexVars

\* Both jobs are started again and again (cron), and a job that is not killed goes on.
Fair ==
  /\ \A i \in Ingesters : WF_indexVars(i \in DOMAIN ing /\ IngestStep(i))
  /\ \A e \in Embedders : WF_indexVars(e \in DOMAIN emb /\ EmbedStep(e))

-----------------------------------------------------------------------------
(* Properties. *)

Draft == [doc : Docs, body : Nat, old : SUBSET Ids, drop : SUBSET Ids, stale : BOOLEAN, id : Ids \union {0}]
IngestState == [pc : {"idle", "next", "load", "delete", "flush", "commit"}, todo : SUBSET Docs, doc : Docs \union {Never},
  body : Nat \union {Never}, new : BOOLEAN, old : SUBSET Ids, drop : SUBSET Ids, stale : BOOLEAN, dirty : SUBSET Draft, count : Nat]
EmbedState == [pc : {"idle", "fetch", "encode", "insert"}, after : Nat, batch : SUBSET Ids, fresh : SUBSET Ids]
Holding == {"load", "delete", "flush"}    \* an ingest has a document in hand
IndexTypeOK ==
  /\ file \in [Docs -> Nat] /\ row \in [Docs -> Nat \union {Never}] /\ item \in [Docs -> Nat \union {Never}]
  /\ chunk \in [Ids -> [doc : Docs \union {Never}, body : Nat \union {Never}, active : BOOLEAN]]
  /\ vec \subseteq Ids /\ late \subseteq Ids /\ raced \subseteq Docs /\ faults \in Nat
  /\ ing \in [DOMAIN ing -> IngestState]
  /\ \A i \in DOMAIN ing : ing[i].pc \in Holding => ing[i].doc \in Docs /\ ing[i].body \in Nat
  /\ emb \in [DOMAIN emb -> EmbedState]

\* Unless two ingests rewrote a document from one list of its chunks, the active
\* chunks are one generation, cut from the body the row has, and the check item
\* was written from it as well (_upsert_document, one transaction).
OneGeneration ==
  \A d \in Docs : d \notin raced /\ row[d] # Never =>
    /\ \A c \in Active(d) : chunk[c].body = row[d]
    /\ Cardinality(Active(d)) = (IF row[d] \in Empty THEN 0 ELSE 1)
    /\ item[d] = row[d]
\* A vector belongs to an active chunk; only a chunk that was retired while an
\* embedding job had it in hand keeps one until the next purge.
VectorsFollow == \A c \in vec : chunk[c].active \/ c \in late
\* What a search may count on, whatever ingests, embedding jobs and deaths do.
ChunksAgree == IndexTypeOK /\ OneGeneration /\ VectorsFollow

\* In the end the index is what is on disk: rows, chunks and vectors.
Settled ==
  (DOMAIN ing # {} /\ DOMAIN emb # {}) =>
    /\ \A d \in Docs : row[d] = file[d] /\ (row[d] \notin Empty => Active(d) # {})
    /\ vec = {c \in Ids : chunk[c].active}
IndexSettles == <>[]Settled

=============================================================================
