--------------------------- MODULE FailureBuckets ---------------------------
(***************************************************************************)
(* failure_buckets/service.py: patterns of failure, each a row and a        *)
(* document that makes it searchable, its mirror.  Row and mirror are       *)
(* written in different transactions, each of which reads its rows, then    *)
(* commits the columns it changed; two requests interleave at those points, *)
(* and the process may die between them.                                    *)
(*                                                                          *)
(* One registration, repeated by its client, is modelled: every create()    *)
(* has the same name, evidence and registrant.  A body is its set of        *)
(* signals.  The transaction of the upsert is one step (IndexStore opens it *)
(* up), and embedding, which changes nothing here, is left out.             *)
(***************************************************************************)
EXTENDS Integers, FiniteSets, Sequences

CONSTANTS
  Rows,        \* ids, in the order they are given out
  Calls,       \* requests that may be under way together
  Signals,
  FirstBody,   \* the signals a registration comes with
  MaxCalls, MaxDeaths   \* bounds

VARIABLES
  class,       \* the status create() gives: "test" if created_by ends in -test
  row, mirror,
  call,
  votes,       \* row -> confirmations given (history)
  raced,       \* rows a transaction committed after another had since it read (history)
  cut,         \* rows a death left between the upsert of their mirror and its status (history)
  twice,       \* creates that overlapped, and rows brought back (history)
  calls, deaths
bucketVars == <<class, row, mirror, call, votes, raced, cut, twice, calls, deaths>>

NoRow    == [status |-> "none", sigs |-> {}, sup |-> 0, ctr |-> 0, conf |-> <<0, 0>>, doc |-> FALSE]
NoMirror == [status |-> "none", sigs |-> {}]
IdleCall == [pc |-> "idle", op |-> "none", b |-> 0, sigs |-> {}, rest |-> <<>>, seen |-> NoRow, found |-> NoMirror,
             draft |-> {}, alone |-> TRUE]

Init ==
  /\ class \in {"active", "test"}
  /\ row = [b \in Rows |-> NoRow] /\ mirror = [b \in Rows |-> NoMirror] /\ call = [c \in Calls |-> IdleCall]
  /\ votes = [b \in Rows |-> 0] /\ raced = {} /\ cut = {} /\ twice = 0 /\ calls = 0 /\ deaths = 0

Known == {b \in Rows : row[b].status # "none"}
Idle(c) == call[c].pc = "idle"
Put(c, k) == call' = [call EXCEPT ![c] = k]
\* A request comes in; whoever is under way is no longer alone.
Arrive(c, k) ==
  /\ Idle(c) /\ calls < MaxCalls /\ calls' = calls + 1
  /\ call' = [d \in Calls |-> IF d = c THEN [k EXCEPT !.alone = \A e \in Calls \ {c} : Idle(e)]
                              ELSE [call[d] EXCEPT !.alone = @ /\ Idle(d)]]
\* What the session writes of a record: the fields changed since it was read.
Flush(now, seen, new) == [f \in DOMAIN now |-> IF new[f] = seen[f] THEN now[f] ELSE new[f]]
\* Commit of a row and its mirror by call c.
Commit(c, b, newRow, newMirror) ==
  /\ row' = [row EXCEPT ![b] = Flush(@, call[c].seen, newRow)]
  /\ mirror' = [mirror EXCEPT ![b] = Flush(@, call[c].found, newMirror)]
  /\ raced' = IF <<row[b], mirror[b]>> # <<call[c].seen, call[c].found>> THEN raced \union {b} ELSE raced
Reading(k, b, pc) == [k EXCEPT !.pc = pc, !.b = b, !.seen = row[b], !.found = mirror[b]]

-----------------------------------------------------------------------------
(* create_bucket() *)

Existing == {b \in Known : row[b].status = class}
Create(c) ==
  /\ Existing = {} /\ Known # Rows /\ Arrive(c, [IdleCall EXCEPT !.pc = "insert", !.op = "create"])
  /\ UNCHANGED <<class, row, mirror, votes, raced, cut, twice, deaths>>
Insert(c) ==
  /\ call[c].pc = "insert" /\ Known # Rows
  /\ LET b == CHOOSE x \in Rows \ Known : \A y \in Rows \ Known : x <= y IN
     /\ row' = [row EXCEPT ![b] = [NoRow EXCEPT !.status = class, !.sigs = FirstBody]]
     /\ Put(c, [call[c] EXCEPT !.pc = "draft", !.b = b])
  /\ twice' = IF call[c].alone THEN twice ELSE twice + 1
  /\ UNCHANGED <<class, mirror, votes, raced, cut, calls, deaths>>

-----------------------------------------------------------------------------
(* refine_bucket(), update_bucket(), retire_bucket(), restore_bucket(): the
   first transaction. *)

Refuses(op, b) == op \in {"confirm", "doubt", "update"} /\ row[b].status = "retired"
Begin(c, op, b, S) ==
  /\ b \in Known /\ ~Refuses(op, b)
  /\ Arrive(c, Reading([IdleCall EXCEPT !.op = op, !.sigs = S], b, "store"))
  /\ UNCHANGED <<class, row, mirror, votes, raced, cut, twice, deaths>>

Refined(k) ==
  LET r == k.seen
      s == IF k.op = "confirm" THEN r.sup + 1 ELSE r.sup
      t == IF k.op = "confirm" THEN r.ctr ELSE r.ctr + 1
  IN [r EXCEPT !.sigs = @ \union k.sigs, !.sup = s, !.ctr = t, !.conf = <<s, t>>]
\* _set_mirror_status(): through the row's document_id.
MutMirrored(k, s) == k.found
Mirrored(k, s) == IF k.seen.doc THEN [k.found EXCEPT !.status = s] ELSE k.found
StoreRefine(c) ==
  /\ call[c].op \in {"confirm", "doubt"} /\ Commit(c, call[c].b, Refined(call[c]), call[c].found)
  /\ votes' = IF call[c].op = "confirm" THEN [votes EXCEPT ![call[c].b] = @ + 1] ELSE votes
  /\ Put(c, IF call[c].sigs \subseteq call[c].seen.sigs THEN IdleCall ELSE [call[c] EXCEPT !.pc = "draft"])
  /\ UNCHANGED twice
StoreUpdate(c) ==
  /\ call[c].op = "update" /\ Commit(c, call[c].b, [call[c].seen EXCEPT !.sigs = call[c].sigs], call[c].found)
  /\ Put(c, IF call[c].sigs = call[c].seen.sigs THEN IdleCall ELSE [call[c] EXCEPT !.pc = "draft"])
  /\ UNCHANGED <<votes, twice>>
\* A batch goes on to its next row.
StoreRetire(c) ==
  /\ call[c].op = "retire"
  /\ IF call[c].seen.status = "retired" THEN UNCHANGED <<row, mirror, raced>>
     ELSE Commit(c, call[c].b, [call[c].seen EXCEPT !.status = "retired"], Mirrored(call[c], "archived"))
  /\ Put(c, IF call[c].rest = <<>> THEN IdleCall ELSE [call[c] EXCEPT !.pc = "next"])
  /\ UNCHANGED <<votes, twice>>
StoreRestore(c) ==
  /\ call[c].op = "restore"
  /\ Commit(c, call[c].b, [call[c].seen EXCEPT !.status = "active"], Mirrored(call[c], "active"))
  /\ twice' = IF call[c].seen.status = "active" THEN twice ELSE twice + 1
  /\ Put(c, IF call[c].seen.status = "active" THEN IdleCall ELSE [call[c] EXCEPT !.pc = "draft"])
  /\ UNCHANGED votes
Store(c) ==
  /\ call[c].pc = "store" /\ (StoreRefine(c) \/ StoreUpdate(c) \/ StoreRetire(c) \/ StoreRestore(c))
  /\ UNCHANGED <<class, cut, calls, deaths>>

(* retire_batch(): the ids are listed first; each is retired in a transaction
   of its own. *)
Batch(c) ==
  /\ LET S == {b \in Known : row[b].status # "retired"} IN
     \E q \in [1..Cardinality(S) -> S] :
       /\ S # {} /\ \A i, j \in DOMAIN q : i < j => q[i] < q[j]
       /\ Arrive(c, [IdleCall EXCEPT !.pc = "next", !.op = "retire", !.rest = q])
  /\ UNCHANGED <<class, row, mirror, votes, raced, cut, twice, deaths>>
NextOfBatch(c) ==
  /\ call[c].pc = "next"
  /\ Put(c, Reading([call[c] EXCEPT !.rest = Tail(@)], Head(call[c].rest), "store"))
  /\ UNCHANGED <<class, row, mirror, votes, raced, cut, twice, calls, deaths>>

-----------------------------------------------------------------------------
(* _index_bucket() *)

Draft(c) ==
  /\ call[c].pc = "draft" /\ Put(c, [call[c] EXCEPT !.pc = "upsert", !.draft = row[call[c].b].sigs])
  /\ UNCHANGED <<class, row, mirror, votes, raced, cut, twice, calls, deaths>>
\* The upsert rewrites the body if its hash changed, and revives an archived document.
Upsert(c) ==
  /\ call[c].pc = "upsert" /\ mirror' = [mirror EXCEPT ![call[c].b] = [status |-> "active", sigs |-> call[c].draft]]
  /\ Put(c, [call[c] EXCEPT !.pc = "link"])
  /\ UNCHANGED <<class, row, votes, raced, cut, twice, calls, deaths>>
ReadLink(c) ==
  /\ call[c].pc = "link" /\ Put(c, Reading(call[c], call[c].b, "mark"))
  /\ UNCHANGED <<class, row, mirror, votes, raced, cut, twice, calls, deaths>>
Hidden(k) == IF k.seen.status = "active" THEN k.found ELSE [k.found EXCEPT !.status = "archived"]
Link(c) ==
  /\ call[c].pc = "mark" /\ Commit(c, call[c].b, [call[c].seen EXCEPT !.doc = TRUE], Hidden(call[c]))
  /\ cut' = cut \ {call[c].b} /\ Put(c, IdleCall)
  /\ UNCHANGED <<class, votes, twice, calls, deaths>>

\* The process dies, or the upsert raises: what was committed stays.
Die(c) ==
  /\ ~Idle(c) /\ deaths < MaxDeaths /\ deaths' = deaths + 1 /\ Put(c, IdleCall)
  /\ cut' = IF call[c].pc \in {"link", "mark"} THEN cut \union {call[c].b} ELSE cut
  /\ UNCHANGED <<class, row, mirror, votes, raced, twice, calls>>

Next == \E c \in Calls :
  \/ Create(c) \/ Insert(c)
  \/ \E op \in {"confirm", "doubt"}, b \in Rows, s \in Signals : Begin(c, op, b, {s})
  \/ \E b \in Rows, S \in (SUBSET Signals) \ {{}} : Begin(c, "update", b, S)
  \/ \E op \in {"retire", "restore"}, b \in Rows : Begin(c, op, b, {})
  \/ Store(c) \/ Batch(c) \/ NextOfBatch(c) \/ Draft(c) \/ Upsert(c) \/ ReadLink(c) \/ Link(c) \/ Die(c)
Spec == Init /\ [][Next]_bucketVars

-----------------------------------------------------------------------------
(* Properties. *)

Shown(b) == mirror[b].status = "active"

\* A bucket that is not active is out of the search once nothing is under way:
\* unless two transactions crossed, or a process died after the upsert revived
\* the mirror and before it was archived again; nothing repairs that until the
\* next call that indexes the bucket.
RetiredHidden ==
  (\A c \in Calls : Idle(c)) => \A b \in Known \ (raced \union cut) : row[b].status # "active" => ~Shown(b)
\* Counts and confidence are lost only to transactions that crossed.
CountsKept ==
  \A b \in Known \ raced : row[b].sup = votes[b] /\ row[b].conf = <<row[b].sup, row[b].ctr>>
\* A registration repeated after a time-out makes no second row; only overlapping
\* retries, and rows brought back, do.
RegisteredOnce == Cardinality({b \in Known : row[b].status # "retired"}) <= 1 + twice
\* A call that indexes a bucket with no other call under way leaves row and
\* mirror in agreement, whatever crashes and crossings came before.
IndexedAlone == \A c \in Calls : call[c].pc = "mark" /\ Link(c) /\ call[c].alone =>
  LET b == call[c].b IN
  /\ row'[b].doc /\ mirror'[b].sigs = row'[b].sigs
  /\ (mirror'[b].status = "active") = (row'[b].status = "active")
IndexHeals == [][IndexedAlone]_bucketVars
=============================================================================
