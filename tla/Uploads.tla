------------------------------ MODULE Uploads ------------------------------
(***************************************************************************)
(* Uploads of single files (routers/external_compat.py): the file is put     *)
(* under its own name among the raw files of its source type, a job row is   *)
(* committed, and a thread of the API process ingests the file later and     *)
(* embeds what it brought; GET ingest-status only reads the job row.  `File' *)
(* is the type and the name together; types, extensions and the size are one *)
(* test.  The files of one upload-multiple are uploads like others: that     *)
(* their threads run one after another only takes interleavings away.        *)
(*                                                                         *)
(* Which document a file brings is written in the file (Issue Key, fail_seq, *)
(* Page ID, issue_id); without that it is the name's stem.  Half is a file   *)
(* somebody is writing, or the mixture two left.  Sessions do not flush on   *)
(* their own; a rewritten document gets one chunk, called by the upload that *)
(* rewrote it.                                                               *)
(***************************************************************************)
EXTENDS Integers, FiniteSets

CONSTANTS
  File,         \* where uploads are put
  Doc,          \* documents
  Stem,         \* File -> Doc: the one a file brings whose text names none
  Text,         \* what files hold: the document it names, or "stem", and the rest
  Sent,         \* what is uploaded where
  MaxUploads, MaxFaults

Upload == 1..MaxUploads
Gone == [names |-> "gone", rest |-> 0]
Half == [names |-> "half", rest |-> 0]

VARIABLES
  up,      \* each upload: its file and text, where its request or thread is, what that has in hand
  disk,    \* raw/<source_type>/<name>
  job,     \* the IngestJob rows
  source,  \* whether the sources row `api_upload' is there
  doc,     \* documents: the body of the row and the file it is from, and the active chunks
  vec,     \* chunks with a vector
  faults
vars == <<up, disk, job, source, doc, vec, faults>>

NoDoc == [body |-> Gone, from |-> "none", live |-> {}]
Nothing == [doc |-> NoDoc, source |-> FALSE]
Free == [at |-> "free", file |-> "none", text |-> Gone, past |-> {}, lost |-> FALSE, mixed |-> FALSE,
  read |-> Gone, key |-> "none", seen |-> Nothing, old |-> {}, paged |-> {}, batch |-> {}, embed |-> "none"]
NoRow == [status |-> "none", embed |-> "none"]
TypeOK ==
  /\ \A u \in Upload :
       /\ up[u].at \in {"free", "write", "commit", "undo", "run", "parse", "look", "load", "keep", "rewrite", "purge", "fetch", "encode", "insert", "note", "over"}
       /\ up[u].batch \subseteq up[u].paged /\ up[u].paged \subseteq Upload
       /\ job[u].status \in {"none", "pending", "running", "success", "failed"}
  /\ disk \in [File -> Text \union {Gone, Half}] /\ vec \subseteq Upload
  /\ \A d \in Doc : doc[d].body \in Text \union {Gone, Half} /\ doc[d].live \subseteq Upload
Init ==
  /\ up = [u \in Upload |-> Free] /\ disk = [f \in File |-> Gone] /\ job = [u \in Upload |-> NoRow] /\ source \in BOOLEAN
  /\ doc = [d \in Doc |-> NoDoc] /\ vec = {} /\ faults = 0

Begun == {u \in Upload : up[u].at # "free"}
Name(u) == up[u].file
Go(u, at) == up' = [up EXCEPT ![u].at = at]
\* What the thread had in hand is gone; what it was about is kept for the properties.
Past(u) == [up[u] EXCEPT !.at = "over", !.seen = Nothing, !.old = {}, !.paged = {}, !.batch = {}, !.lost = FALSE, !.mixed = FALSE, !.embed = "none"]
End(u) == up' = [up EXCEPT ![u] = Past(u)]
Fault == faults < MaxFaults /\ faults' = faults + 1
Rivals(u) == {w \in Begun \ {u} : Name(w) = Name(u)}
Writing(u) == {w \in Rivals(u) : up[w].at = "write" /\ ~up[w].lost}

\* The next request comes in.  A file that is not taken (400, 413, 501) leaves nothing.
Begin(u, k) == u = Cardinality(Begun) + 1 /\ up' = [up EXCEPT ![u] = k]
Refuse(u) == Begin(u, [Free EXCEPT !.at = "over"]) /\ UNCHANGED <<disk, job, source, doc, vec, faults>>
\* write_bytes() empties the file first.  Another that writes it too may leave the
\* end of its own bytes; one whose file was unlinked meanwhile writes for nobody.
Open(u, f, t) ==
  /\ Begin(u, [Free EXCEPT !.at = "write", !.file = f, !.text = t, !.past = {w \in Begun : Name(w) = f /\ up[w].at # "write"}])
  /\ disk' = [disk EXCEPT ![f] = Half] /\ UNCHANGED <<job, source, doc, vec, faults>>
Written(u) == IF up[u].lost THEN {disk[Name(u)]} ELSE IF up[u].mixed THEN {up[u].text, Half} ELSE {up[u].text}
Write(u) ==
  /\ up[u].at = "write" /\ \E c \in Written(u) : disk' = [disk EXCEPT ![Name(u)] = c]
  /\ up' = [w \in Upload |-> IF w = u THEN [up[u] EXCEPT !.at = "commit"]
                             ELSE IF ~up[u].lost /\ w \in Writing(u) THEN [up[w] EXCEPT !.mixed = TRUE] ELSE up[w]]
  /\ UNCHANGED <<job, source, doc, vec, faults>>
\* A full disk: the request fails and what was written stays.
WriteFails(u) == up[u].at = "write" /\ Fault /\ End(u) /\ UNCHANGED <<disk, job, source, doc, vec>>
\* The job row.  When the commit fails, or seems to, the file is removed and nothing is started.
Queued(u) == [job EXCEPT ![u] = [NoRow EXCEPT !.status = "pending"]]
Commit(u) ==
  /\ up[u].at = "commit"
  /\ \/ job' = Queued(u) /\ Go(u, "run") /\ UNCHANGED faults
     \/ Fault /\ Go(u, "undo") /\ job' \in {job, Queued(u)}
  /\ UNCHANGED <<disk, source, doc, vec>>
Undo(u) ==
  /\ up[u].at = "undo" /\ disk' = [disk EXCEPT ![Name(u)] = Gone]
  /\ up' = [w \in Upload |-> IF w = u THEN Past(u)
                             ELSE IF w \in Writing(u) THEN [up[w] EXCEPT !.lost = TRUE] ELSE up[w]]
  /\ UNCHANGED <<job, source, doc, vec, faults>>

\* _run_upload_ingest_job, in a thread of its own.  Before its try block begins, a
\* database that does not answer leaves the job pending.
Start(u) ==
  /\ up[u].at = "run"
  /\ \/ job' = [job EXCEPT ![u].status = "running"] /\ Go(u, "parse") /\ UNCHANGED faults
     \/ Fault /\ End(u) /\ UNCHANGED job
  /\ UNCHANGED <<disk, source, doc, vec>>
Failed(u) == [job EXCEPT ![u].status = "failed"]
Fail(u) == job' = Failed(u) /\ End(u)
\* Anything else that goes wrong; that the job failed may be impossible to write down.
Break(u) ==
  /\ up[u].at \in {"parse", "look", "load", "keep", "rewrite", "note"} /\ Fault /\ End(u) /\ job' \in {job, Failed(u)}
  /\ UNCHANGED <<disk, source, doc, vec>>
\* The document the text names, or the stem of the file; half a text may name any.
Keys(f, c) == IF c = Half THEN Doc ELSE IF c.names = "stem" THEN {Stem[f]} ELSE {c.names}
Parse(u) ==
  /\ up[u].at = "parse"
  /\ IF disk[Name(u)] = Gone THEN Fail(u)
     ELSE UNCHANGED job /\ \E d \in Keys(Name(u), disk[Name(u)]) :
            up' = [up EXCEPT ![u].at = "look", ![u].read = disk[Name(u)], ![u].key = d]
  /\ UNCHANGED <<disk, source, doc, vec, faults>>

\* upsert_document_from_draft, one transaction: the row of the source, the row of the
\* document and the number of its active chunks are read.
Look(u) ==
  /\ up[u].at = "look" /\ up' = [up EXCEPT ![u].at = "load", ![u].seen = [doc |-> doc[up[u].key], source |-> source]]
  /\ UNCHANGED <<disk, job, source, doc, vec, faults>>
\* The same content with active chunks is left alone; the file's name is part of the
\* content (metadata).  Two halves may differ.
Kept(u) == up[u].seen.doc.body = up[u].read /\ up[u].seen.doc.from = Name(u) /\ up[u].seen.doc.live # {}
MayDiffer(u) == ~Kept(u) \/ up[u].read = Half
\* The chunks of an existing document are read when they are first asked for.
Load(u) ==
  /\ up[u].at = "load"
  /\ \/ Kept(u) /\ Go(u, "keep")
     \/ MayDiffer(u) /\ up' = [up EXCEPT ![u].at = "rewrite", ![u].old = IF up[u].seen.doc = NoDoc THEN {} ELSE doc[up[u].key].live]
  /\ UNCHANGED <<disk, job, source, doc, vec, faults>>
\* Flush and commit.  A second insert of the source or of the document breaks a unique
\* key.  What was seen to be there is overwritten; the chunks seen are retired.
Clash(u) ==
  \/ ~up[u].seen.source /\ source
  \/ up[u].at = "rewrite" /\ up[u].seen.doc = NoDoc /\ doc[up[u].key] # NoDoc
Upsert(u) ==
  /\ up[u].at \in {"keep", "rewrite"}
  /\ IF Clash(u) THEN Fail(u) /\ UNCHANGED <<source, doc, vec>>
     ELSE /\ source' = TRUE /\ up' = [up EXCEPT ![u].at = "purge", ![u].embed = "done"] /\ UNCHANGED job
          /\ IF up[u].at = "keep" THEN UNCHANGED <<doc, vec>>
             ELSE /\ doc' = [doc EXCEPT ![up[u].key] = [body |-> up[u].read, from |-> Name(u), live |-> (@.live \ up[u].old) \union {u}]]
                  /\ vec' = vec \ up[u].old
  /\ UNCHANGED <<disk, faults>>

\* embed_pending_chunks(document_id): vectors of retired chunks go, or that fails and is logged.
Live == UNION {doc[d].live : d \in Doc}
Purge(u) ==
  /\ up[u].at = "purge" /\ Go(u, "fetch")
  /\ \/ vec' = vec \intersect Live /\ UNCHANGED faults
     \/ Fault /\ UNCHANGED vec
  /\ UNCHANGED <<disk, job, source, doc>>
\* Pages of the document's active chunks without a vector, in the order of their ids,
\* which are chance: whether one that is new lies behind the last page too.
Pending(u) == doc[up[u].key].live \ (vec \union up[u].paged)
Fetch(u) ==
  /\ up[u].at = "fetch"
  /\ \E b \in IF up[u].paged = {} THEN {Pending(u)} ELSE SUBSET Pending(u) :
       up' = [up EXCEPT ![u].at = IF b = {} THEN "note" ELSE "encode", ![u].batch = b, ![u].paged = @ \union b]
  /\ UNCHANGED <<disk, job, source, doc, vec, faults>>
\* A page that is not encoded is counted, and the next one fetched.  Of the others those
\* without a vector by now are inserted.
MutCounted == "done"
Counted == "partial"
Encode(u) ==
  /\ up[u].at = "encode"
  /\ \/ up' = [up EXCEPT ![u].at = "insert", ![u].batch = @ \ vec] /\ UNCHANGED faults
     \/ Fault /\ up' = [up EXCEPT ![u].at = "fetch", ![u].batch = {}, ![u].embed = Counted]
  /\ UNCHANGED <<disk, job, source, doc, vec>>
MutNoted == "done"
Noted == "error"
\* A vector somebody inserted in between breaks the unique key and ends the embedding.
Insert(u) ==
  /\ up[u].at = "insert"
  /\ IF up[u].batch \intersect vec = {} THEN vec' = vec \union up[u].batch /\ Go(u, "fetch")
     ELSE up' = [up EXCEPT ![u].at = "note", ![u].embed = Noted] /\ UNCHANGED vec
  /\ UNCHANGED <<disk, job, source, doc, faults>>
\* So does a model that does not load, or a database that does not answer.
EmbedFails(u) ==
  /\ up[u].at \in {"fetch", "insert"} /\ Fault /\ up' = [up EXCEPT ![u].at = "note", ![u].embed = Noted]
  /\ UNCHANGED <<disk, job, source, doc, vec>>
\* Whatever came of the embedding, the job succeeds.
Note(u) ==
  /\ up[u].at = "note" /\ job' = [job EXCEPT ![u] = [status |-> "success", embed |-> up[u].embed]] /\ End(u)
  /\ UNCHANGED <<disk, source, doc, vec, faults>>
\* The API restarts: requests and threads are gone, their rows stay as they are.
Restart ==
  /\ Fault /\ up' = [u \in Upload |-> IF up[u].at = "free" THEN up[u] ELSE Past(u)]
  /\ UNCHANGED <<disk, job, source, doc, vec>>
Next ==
  \/ Restart
  \/ \E u \in Upload :
       \/ Refuse(u) \/ (\E x \in Sent : Open(u, x.file, x.text)) \/ Write(u) \/ WriteFails(u) \/ Commit(u) \/ Undo(u)
       \/ Start(u) \/ Break(u) \/ Parse(u) \/ Look(u) \/ Load(u) \/ Upsert(u)
       \/ Purge(u) \/ Fetch(u) \/ Encode(u) \/ Insert(u) \/ EmbedFails(u) \/ Note(u)
Spec == Init /\ [][Next]_vars

-----------------------------------------------------------------------------
\* A job that succeeded has ingested its own upload, or one that was written beside it
\* or later under the same name, and never what was there before.
ReadsItsOwn == \A u \in Upload : job[u].status = "success" =>
  \/ up[u].read = up[u].text
  \/ \E w \in Rivals(u) \ up[u].past : up[u].read \in {up[w].text, Half}
\* An active chunk without a vector is one whose upload is still worked on, was cut off,
\* failed, or says that its embedding did.
GapsAreTold == \A w \in Live \ vec : ~(job[w].status = "success" /\ job[w].embed = "done")
\* A job that stays pending or running is the trace of a fault: nothing else ends a
\* thread before its last write.
StuckByFault == \A u \in Upload : up[u].at = "over" /\ job[u].status \in {"pending", "running"} => faults > 0
=============================================================================
