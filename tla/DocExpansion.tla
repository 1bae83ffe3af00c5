---------------------------- MODULE DocExpansion ----------------------------
(***************************************************************************)
(* docexp/: a language model writes a summary and keywords for documents     *)
(* with poor titles; the row carries the hash of the text it was made from,  *)
(* so that a later run makes it again when the document has changed.  Rows   *)
(* travel between sites as a file: export on one, import on another.         *)
(*                                                                          *)
(* A run lists the documents with their hashes, fetches the bodies later and *)
(* stores one row at a time as answers come back; documents are edited       *)
(* meanwhile.  A text and its hash are both written Contents; `text' of a    *)
(* row, what the model really read, is history.                              *)
(***************************************************************************)
EXTENDS Integers, FiniteSets

CONSTANTS
  Sites, Docs, Contents,
  First,               \* the content all documents begin with
  AbortAfter,          \* FATAL_ABORT_AFTER
  MaxEvents, MaxFaults \* bounds

VARIABLES
  doc,      \* Sites -> Docs -> content
  row,      \* Sites -> Docs -> the expansion
  run,      \* Sites -> the run of `docexp run --commit'
  file,     \* the export: Docs -> row, with the hash written beside it
  events, faults
expVars == <<doc, row, run, file, events, faults>>

None == [hash |-> "none", text |-> "none", torn |-> FALSE]
Idle == [pc |-> "idle", listed |-> [d \in Docs |-> "none"], body |-> [d \in Docs |-> "none"], todo |-> {},
         fatal |-> 0, code |-> 0, dropped |-> {}, made |-> {}]
Init ==
  /\ doc = [s \in Sites |-> [d \in Docs |-> First]] /\ row = [s \in Sites |-> [d \in Docs |-> None]]
  /\ run = [s \in Sites |-> Idle] /\ file = [d \in Docs |-> None] /\ events = 0 /\ faults = 0
Event == events < MaxEvents /\ events' = events + 1 /\ UNCHANGED faults
Fault == faults < MaxFaults /\ faults' = faults + 1 /\ UNCHANGED events
Go(s, k) == run' = [run EXCEPT ![s] = k]

Edit(s, d) ==
  /\ Event /\ \E c \in Contents \ {doc[s][d]} : doc' = [doc EXCEPT ![s][d] = c]
  /\ UNCHANGED <<row, run, file>>

-----------------------------------------------------------------------------
(* _run_common() and _generate() *)

List(s) ==
  /\ Event /\ run[s].pc \in {"idle", "done"} /\ Go(s, [Idle EXCEPT !.pc = "fetch", !.listed = doc[s]])
  /\ UNCHANGED <<doc, row, file>>
\* existing_ids(): a row made from another text counts as missing.
UpToDate(r, hash) == r.hash = hash
Fetch(s) ==
  /\ run[s].pc = "fetch"
  /\ Go(s, [run[s] EXCEPT !.pc = "ask", !.body = doc[s], !.todo = {d \in Docs : ~UpToDate(row[s][d], run[s].listed[d])}])
  /\ UNCHANGED <<doc, row, file, events, faults>>

MutStored(s, d) == [hash |-> doc[s][d], text |-> run[s].body[d], torn |-> run[s].listed[d] # run[s].body[d]]
Stored(s, d) == [hash |-> run[s].listed[d], text |-> run[s].body[d], torn |-> run[s].listed[d] # run[s].body[d]]
\* expand_one() has retried what may pass; an answer comes back.
Answer(s, d) ==
  /\ run[s].pc = "ask" /\ d \in run[s].todo
  /\ LET k == [run[s] EXCEPT !.todo = @ \ {d}, !.fatal = 0] IN
     \/ row' = [row EXCEPT ![s][d] = Stored(s, d)] /\ Go(s, [k EXCEPT !.made = @ \union {d}]) /\ UNCHANGED <<events, faults>>
     \* too few keywords: discarded, which is no failure and leaves no trace
     \/ Event /\ Go(s, [k EXCEPT !.dropped = @ \union {d}]) /\ UNCHANGED row
     \* the model fails, the answer is no JSON, or the row cannot be stored
     \/ Fault /\ Go(s, [k EXCEPT !.code = 3]) /\ UNCHANGED row
  /\ UNCHANGED <<doc, file>>
\* 401, 402 or 403: after AbortAfter in a row the rest is not asked.
Aborts(n) == n >= AbortAfter
FatalAnswer(s, d) ==
  /\ run[s].pc = "ask" /\ d \in run[s].todo /\ Fault
  /\ LET n == run[s].fatal + 1 IN
     Go(s, [run[s] EXCEPT !.fatal = n, !.code = IF Aborts(n) THEN 4 ELSE 3, !.todo = IF Aborts(n) THEN {} ELSE @ \ {d}])
  /\ UNCHANGED <<doc, row, file>>
Finish(s) ==
  /\ run[s].pc = "ask" /\ run[s].todo = {} /\ Go(s, [run[s] EXCEPT !.pc = "done"])
  /\ UNCHANGED <<doc, row, file, events, faults>>
Die(s) ==
  /\ Fault /\ run[s].pc \in {"fetch", "ask"} /\ Go(s, Idle) /\ UNCHANGED <<doc, row, file>>

-----------------------------------------------------------------------------
(* cmd_export() and cmd_import() *)

\* The hash beside a row is the document's, not the row's own.
Export(s) ==
  /\ Event
  /\ file' = [d \in Docs |-> IF row[s][d] = None THEN None ELSE [row[s][d] EXCEPT !.hash = doc[s][d], !.torn = @ \/ row[s][d].hash # doc[s][d]]]
  /\ UNCHANGED <<doc, row, run>>
Accepts(d, c, ignore) == file[d] # None /\ (ignore \/ file[d].hash = c)
\* One upsert per document; what is stored is the hash of the document here.
Import(s, ignore, skip) ==
  /\ Event
  /\ \E d \in Docs :
       /\ Accepts(d, doc[s][d], ignore) /\ ~(skip /\ row[s][d] # None)
       /\ row' = [row EXCEPT ![s][d] = [file[d] EXCEPT !.hash = doc[s][d], !.torn = @ \/ (ignore /\ file[d].hash # doc[s][d])]]
  /\ UNCHANGED <<doc, run, file>>

Next ==
  \/ \E s \in Sites : List(s) \/ Fetch(s) \/ Finish(s) \/ Die(s) \/ Export(s)
       \/ \E d \in Docs : Edit(s, d) \/ Answer(s, d) \/ FatalAnswer(s, d)
       \/ \E i, k \in BOOLEAN : Import(s, i, k)
Spec == Init /\ [][Next]_expVars

-----------------------------------------------------------------------------
(* Properties. *)

\* A row that counts as up to date was made from the text its document has, but
\* for the three ways the code lets another one in (torn): an edit between the
\* listing and the fetch that is taken back later, an export of an outdated row,
\* and --ignore-hash.
UpToDateIsTrue ==
  \A s \in Sites, d \in Docs : row[s][d].hash = doc[s][d] /\ ~row[s][d].torn => row[s][d].text = doc[s][d]
\* What the import check is for: without --ignore-hash, an imported row counts as
\* up to date only if it was made from that text.
ImportsAreTrue ==
  [][\A s \in Sites, d \in Docs, k \in BOOLEAN :
       row'[s][d] # row[s][d] /\ Import(s, FALSE, k) => row'[s][d].text = doc[s][d]]_expVars
\* Exit code 0 leaves no document behind: each listed one has a row of the listed
\* text or a later write over it, or its answer was discarded.
EndsComplete == \A s \in Sites : Finish(s) /\ run[s].code = 0 =>
  \A d \in Docs : run[s].listed[d] = doc[s][d] /\ d \notin run[s].dropped => row[s][d].hash = doc[s][d]
ZeroIsComplete == [][EndsComplete]_expVars
=============================================================================
