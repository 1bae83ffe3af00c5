------------------------------ MODULE Frames ------------------------------
(***************************************************************************)
(* Issue frames (apps/api/app/frames): a batch reads its documents in one    *)
(* transaction, extracts the slots of each by rules and writes one row of    *)
(* issue_frames in a transaction per document.  A second batch tags the same *)
(* rows with a severity tier.  A body is the sequence of candidate texts the *)
(* patterns find in it, in the order they are tried; its number stands for   *)
(* its hash and for the grade in the document's metadata.                    *)
(***************************************************************************)
EXTENDS Integers, Sequences
LOCAL INSTANCE SequencesExt
LOCAL INSTANCE FiniteSetsExt

CONSTANTS
  Docs,        \* number of documents, in the order of their external_id
  Bodies,      \* the bodies a document may have
  Run,         \* processes that may run a batch
  Options,     \* pairs of --limit (0: none) and --min-quality in thousandths
  MaxRuns, MaxEdits, MaxFaults

Doc == 1..Docs
Null == 0

VARIABLES
  body,    \* documents: number of the body, Null when not active
  version, \* EXTRACTOR_VERSION of the code on disk
  frame,   \* issue_frames by document
  run,     \* the batches
  twice,   \* two extractions were under way at once
  runs, edits, faults
vars == <<body, version, frame, run, twice, runs, edits, faults>>

NoText == [len |-> 0, mark |-> {}]
NoRow == [here |-> FALSE, root_cause |-> NoText, resolution |-> NoText, quality |-> 0, body_hash |-> Null, extractor_version |-> Null, severity_tier |-> Null]
Idle == [at |-> "free"]
TypeOK ==
  /\ body \in [Doc -> Null..Len(Bodies)] /\ version \in 1..2 /\ twice \in BOOLEAN
  /\ \A d \in Doc : frame[d].body_hash \in Null..Len(Bodies) /\ frame[d].severity_tier \in Null..Len(Bodies) /\ frame[d].quality \in 0..1000
  /\ \A p \in Run : run[p].at \in {"free", "next", "write", "over"}
Init ==
  /\ body = [d \in Doc |-> 1] /\ version = 1 /\ frame = [d \in Doc |-> NoRow] /\ run = [p \in Run |-> Idle]
  /\ twice = FALSE /\ runs = 0 /\ edits = 0 /\ faults = 0

-----------------------------------------------------------------------------
(* The extractor (frames/extract.py). *)
Says(text, mark) == mark \in text.mark
\* A text that is no placeholder is better than none, a completion than what is under
\* way, and never the other way round; otherwise clearly longer is better.
Better(new, old) ==
  /\ new.len > 0 /\ ~Says(new, "hold")
  /\ \/ old.len = 0
     \/ Says(new, "done") /\ Says(old, "wip") /\ ~Says(old, "done")
     \/ /\ ~(Says(new, "wip") /\ Says(old, "done") /\ ~Says(new, "done"))
        /\ new.len >= old.len + 20 \/ (new.len > old.len /\ old.len < 40)
Assign(slots, cand) == IF Better(cand.text, slots[cand.key]) THEN [slots EXCEPT ![cand.key] = cand.text] ELSE slots
Slots(b) == FoldLeft(Assign, [root_cause |-> NoText, resolution |-> NoText], Bodies[b])
\* quality_score in thousandths; the symptom falls back to the title.
Worth(text, full, some) == IF text.len >= 20 THEN full ELSE IF text.len > 0 THEN some ELSE 0
quality_score(s) ==
  LET both == s.root_cause.len >= 20 /\ s.resolution.len >= 20
  IN  Min({1000, 250 + Worth(s.root_cause, 350, 150) + Worth(s.resolution, 400, 150) + (IF both THEN 100 ELSE 0)})
extract(b, ver) == Slots(b) @@ [quality |-> quality_score(Slots(b)), body_hash |-> b, extractor_version |-> ver]

-----------------------------------------------------------------------------
(* The batches (frames/job.py). *)
MutFresh(row, b, ver) == row.here /\ row.body_hash = b
Fresh(row, b, ver) == row.here /\ row.body_hash = b /\ row.extractor_version = ver
Wanted(kind, force, d) ==
  /\ body[d] # Null
  /\ force \/ (IF kind = "frames" THEN ~Fresh(frame[d], body[d], version) ELSE frame[d].severity_tier = Null)
Rows(kind, force, limit) ==
  LET all == SelectSeq([d \in Doc |-> d], LAMBDA d : Wanted(kind, force, d))
      cut == IF limit = 0 THEN all ELSE SubSeq(all, 1, Min({limit, Len(all)}))
  IN  [i \in DOMAIN cut |-> [doc |-> cut[i], body |-> body[cut[i]]]]
Active(p) == run[p].at \in {"next", "write"}
Extracting == {p \in Run : Active(p) /\ run[p].kind = "frames"}
\* What a batch had read of the documents is no longer all there is.
Stir == [p \in Run |-> IF Active(p) THEN [run[p] EXCEPT !.calm = FALSE] ELSE Idle]
Begin(p, kind, force, limit, floor) ==
  /\ ~Active(p) /\ runs < MaxRuns /\ runs' = runs + 1
  /\ kind = "domains" => floor = 0
  /\ run' = [Stir EXCEPT ![p] = [at |-> "next", kind |-> kind, force |-> force, whole |-> limit = 0 /\ floor = 0, floor |-> floor,
       ver |-> version, rows |-> Rows(kind, force, limit), seen |-> NoRow, errors |-> 0, calm |-> kind = "frames" /\ \A q \in Run \ {p} : ~Active(q)]]
  /\ twice' = (twice \/ (kind = "frames" /\ Extracting \ {p} # {}))
  /\ UNCHANGED <<body, version, frame, edits, faults>>
Row(p) == Head(run[p].rows)
Want(p) == IF run[p].kind = "frames" THEN extract(Row(p).body, run[p].ver) ELSE [severity_tier |-> Row(p).body]
Low(p) == run[p].kind = "frames" /\ Want(p).quality < run[p].floor
Pass(p, failed) == run' = [run EXCEPT ![p].at = "next", ![p].rows = Tail(@), ![p].errors = @ + failed]
Stop(p) == run' = [run EXCEPT ![p].at = "over"]
\* The row is read; a text below the floor and a row tagged meanwhile are passed over.
Look(p) ==
  /\ run[p].at = "next" /\ run[p].rows # <<>>
  /\ IF Low(p) \/ (run[p].kind = "domains" /\ ~run[p].force /\ frame[Row(p).doc].severity_tier # Null) THEN Pass(p, 0)
     ELSE run' = [run EXCEPT ![p].at = "write", ![p].seen = frame[Row(p).doc]]
  /\ UNCHANGED <<body, version, frame, twice, runs, edits, faults>>
\* An update names the columns that differ from the row that was read; of two inserts the
\* second breaks the unique key of document_id and counts as an error.
Update(now, seen, want) == [c \in DOMAIN now |-> IF c \in DOMAIN want /\ want[c] # seen[c] THEN want[c] ELSE now[c]]
Stored(p) == Want(p)
Write(p) ==
  LET d == Row(p).doc IN
  /\ run[p].at = "write"
  /\ \/ /\ frame[d].here => run[p].seen.here
        /\ frame' = [frame EXCEPT ![d] = [Update(frame[d], run[p].seen, Stored(p)) EXCEPT !.here = TRUE]] /\ Pass(p, 0) /\ UNCHANGED faults
     \/ frame[d].here /\ ~run[p].seen.here /\ Pass(p, 1) /\ UNCHANGED <<frame, faults>>
     \/ faults < MaxFaults /\ faults' = faults + 1 /\ Pass(p, 1) /\ UNCHANGED frame
  /\ UNCHANGED <<body, version, twice, runs, edits>>
Finish(p) ==
  /\ run[p].at = "next" /\ run[p].rows = <<>> /\ Stop(p)
  /\ UNCHANGED <<body, version, frame, twice, runs, edits, faults>>
Kill(p) ==
  /\ Active(p) /\ faults < MaxFaults /\ faults' = faults + 1 /\ run' = [run EXCEPT ![p] = Idle]
  /\ UNCHANGED <<body, version, frame, twice, runs, edits>>
\* An ingest replaces a body or retires the document; a release changes the rules.
Edit(d) ==
  /\ edits < MaxEdits /\ edits' = edits + 1 /\ body' \in {[body EXCEPT ![d] = b] : b \in (Null..Len(Bodies)) \ {body[d]}}
  /\ run' = Stir /\ UNCHANGED <<version, frame, twice, runs, faults>>
Release ==
  /\ edits < MaxEdits /\ version = 1 /\ edits' = edits + 1 /\ version' = 2
  /\ run' = Stir /\ UNCHANGED <<body, frame, twice, runs, faults>>
Batch(p) == \E kind \in {"frames", "domains"}, force \in BOOLEAN, o \in Options : Begin(p, kind, force, o[1], o[2])
Next == Release \/ (\E d \in Doc : Edit(d)) \/ \E p \in Run : Batch(p) \/ Look(p) \/ Write(p) \/ Finish(p) \/ Kill(p)
Spec == Init /\ [][Next]_vars

-----------------------------------------------------------------------------
\* While extractions take turns, a row pinned to the body its document has holds what the
\* rules find in that body, whatever was edited and tagged in between (job.py's reason to
\* keep body_hash).
Agrees(d) == frame[d].root_cause = Slots(body[d]).root_cause /\ frame[d].resolution = Slots(body[d]).resolution
FreshIsTrue == twice \/ \A d \in Doc : body[d] # Null /\ frame[d].body_hash = body[d] => Agrees(d)
\* Refuted: the same with two extractions at once.  An update skips the columns that were
\* equal to what it read, and a faster batch may have changed them.
FreshAlways == \A d \in Doc : body[d] # Null /\ frame[d].body_hash = body[d] => Agrees(d)
\* A whole extraction that ended without errors while nothing else moved leaves no active
\* document with a row of an older body or an older extractor.
Converges == \A p \in Run : run[p].at = "over" /\ run[p].calm /\ run[p].whole /\ run[p].errors = 0 /\ run[p].ver = version =>
  \A d \in Doc : run[p].at = "over" /\ body[d] # Null => frame[d].here /\ frame[d].body_hash = body[d] /\ frame[d].extractor_version = version
\* A slot whose candidates all say how far the work is tells of a completion as soon as
\* one of them does, however long the others are (extract.py's completion markers).
Told(b, key) == {Bodies[b][i].text : i \in {j \in DOMAIN Bodies[b] : Bodies[b][j].key = key /\ Bodies[b][j].text.len > 0 /\ ~Says(Bodies[b][j].text, "hold")}}
CompletionWins == \A d \in Doc : frame[d].body_hash # Null => \A key \in {"root_cause", "resolution"} :
  (twice = FALSE /\ (\A t \in Told(frame[d].body_hash, key) : t.mark # {}) /\ \E t \in Told(frame[d].body_hash, key) : Says(t, "done")) => Says(frame[d][key], "done")
=============================================================================
