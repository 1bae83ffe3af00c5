---------------------------- MODULE DecisionStore ----------------------------
(***************************************************************************)
(* Confirmed decisions: apps/api/app/decisions/service.py, the constraints *)
(* of its tables (apps/api/app/db/models.py) and the search mirror of      *)
(* apps/api/app/decisions/mirror.py.                                       *)
(*                                                                         *)
(* API calls run concurrently.  A call is a few transactions at READ       *)
(* COMMITTED: what it reads without FOR UPDATE may change before it        *)
(* commits, a row it read FOR UPDATE may not.  A transaction that reads    *)
(* and writes only the row it locks is one step; the others are two, the   *)
(* reads (Begin...) and the commit (Commit...), with the values read kept  *)
(* in `call'.  The mirror is synchronised after the commit, by three       *)
(* further transactions.                                                   *)
(***************************************************************************)
EXTENDS Naturals, Sequences, FiniteSets

CONSTANTS
  Decision,   \* ids of decisions
  Doc,        \* indexed documents quoted as evidence
  Web,        \* external pages quoted as evidence
  Hash,       \* contents a document may have
  NoHash,     \* pin of external evidence
  Nonce,      \* ids of nonces
  Call,       \* API requests in progress at the same time
  None,
  Budget      \* bound on the events of each kind

Event  == {"edit", "overdue", "crash", "scan"}
Closed == {"superseded", "retired"}
Open   == {"proposed", "confirmed", "needs_recheck"}
Status == {"absent"} \cup Open \cup Closed

ASSUME DecisionAssumption ==
  /\ IsFiniteSet(Decision) /\ None \notin Decision \cup Status
  /\ Web \cap Doc = {} /\ NoHash \notin Hash
  /\ Budget \in [Event -> Nat]

VARIABLES
  status,   \* Decision -> Decision.status, "absent" when there is no row
  before,   \* Decision -> Decision.status_before_retire
  by,       \* Decision -> Decision.superseded_by
  current,  \* Decision -> Decision.current_verdict_id: index in history, or 0
  history,  \* Decision -> its rows of decision_verdicts, oldest first
  rows,     \* Decision -> pins <<document, hash>> of all its evidence rows
  live,     \* Decision -> those not retracted
  overdue,  \* confirmed decisions whose review interval has elapsed
  hash,     \* Doc -> Document.content_hash
  nonce,    \* Nonce -> [of, state]
  mirror,   \* Decision -> [status, verdict] of its search mirror, or None
  call,     \* Call -> locals of the request
  reopened, \* auxiliary: decisions a scan took out of "superseded", while their
            \* superseded_by still names what had replaced them
  budget

rowVars == <<status, before, by, current, history, reopened>>
evVars  == <<rows, live>>
envVars == <<overdue, hash>>
vars    == <<rowVars, evVars, envVars, nonce, mirror, call, budget>>

Idle == [pc |-> "idle", d |-> None, new |-> None, pin |-> <<>>, fresh |-> FALSE,
         opt |-> None, nonce |-> None, evs |-> {}, old |-> {}, add |-> {}, prev |-> 0,
         marks |-> {}, todo |-> {}, draft |-> None]

\* The decision row a call holds FOR UPDATE.
Holds(c, d)    == call[c].pc \in {"verdict", "supersede"} /\ call[c].d = d
MutUnlocked(d) == TRUE                     \* mutant: no FOR UPDATE
Unlocked(d)    == \A c \in Call : ~Holds(c, d)

Tick(e) == budget[e] > 0 /\ budget' = [budget EXCEPT ![e] = @ - 1]
Do(c, r)   == call' = [call EXCEPT ![c] = r]
Finish(c)  == Do(c, Idle)
\* safe_sync() of the decisions q follows the commit.
Mirroring(c, q) == Do(c, [Idle EXCEPT !.pc = "mirror", !.todo = q])

Init ==
  /\ status = [d \in Decision |-> "absent"] /\ before = [d \in Decision |-> None]
  /\ by = [d \in Decision |-> None]
  /\ current = [d \in Decision |-> 0] /\ history = [d \in Decision |-> <<>>]
  /\ rows = [d \in Decision |-> {}] /\ live = [d \in Decision |-> {}]
  /\ overdue = {}
  /\ hash \in [Doc -> Hash]
  /\ nonce = [n \in Nonce |-> [of |-> None, state |-> "unissued"]]
  /\ mirror = [d \in Decision |-> None]
  /\ call = [c \in Call |-> Idle] /\ reopened = {}
  /\ budget = Budget

-----------------------------------------------------------------------------
(* Proposals and evidence. *)

MutPin(x) == <<x, NoHash>>                 \* mutant: pinned_content_hash is not set
Pin(x)    == IF x \in Doc THEN <<x, hash[x]>> ELSE <<x, NoHash>>

\* create_decision(): the row is committed, then its evidence is added.
Propose(c, d, x) ==
  /\ call[c] = Idle /\ status[d] = "absent"
  /\ status' = [status EXCEPT ![d] = "proposed"]
  /\ Do(c, [Idle EXCEPT !.pc = "evidence", !.d = d, !.pin = Pin(x), !.fresh = TRUE])
  /\ UNCHANGED <<before, by, current, history, reopened, evVars, envVars, nonce, mirror, budget>>

\* add_evidence(): status and duplicates are read without a lock.
BeginEvidence(c, d, x) ==
  /\ call[c] = Idle /\ status[d] \in Open
  /\ \A e \in live[d] : e[1] # x
  /\ Do(c, [Idle EXCEPT !.pc = "evidence", !.d = d, !.pin = Pin(x)])
  /\ UNCHANGED <<rowVars, evVars, envVars, nonce, mirror, budget>>

\* uq_decision_evidence_dedup: a document is pinned at a hash once per
\* decision, retracted rows included; external rows have no document.  (The
\* evidence is for one option, with one quote per document: a row without an
\* option or a document has a NULL in its key and escapes the constraint.)
Taken(d, pins) == \E e \in pins : e[1] \in Doc /\ e \in rows[d]

CommitEvidence(c) ==
  /\ call[c].pc = "evidence" /\ status[call[c].d] # "absent"
  /\ ~Taken(call[c].d, {call[c].pin})
  /\ rows' = [rows EXCEPT ![call[c].d] = @ \cup {call[c].pin}]
  /\ live' = [live EXCEPT ![call[c].d] = @ \cup {call[c].pin}]
  /\ Finish(c)
  /\ UNCHANGED <<rowVars, envVars, nonce, mirror, budget>>

\* What the rollback may delete: a decision with verdicts is kept by ON DELETE RESTRICT.
MutDeletable(d) == TRUE                    \* mutant: ON DELETE CASCADE
Deletable(d)    == history[d] = <<>>

\* The quote is not in the body, or the row exists: the call fails, and
\* create_decision() deletes its proposal.  ON DELETE SET NULL clears the links
\* to it, which waits for the locks on the rows that hold them, CASCADE its nonces.
RejectEvidence(c) ==
  /\ call[c].pc = "evidence"
  /\ LET d == call[c].d
     IN IF call[c].fresh /\ Deletable(d)
        THEN /\ \A b \in Decision : b = d \/ by[b] = d => Unlocked(b)
             /\ status' = [status EXCEPT ![d] = "absent"]
             /\ before' = [before EXCEPT ![d] = None]
             /\ by' = [b \in Decision |-> IF b = d \/ by[b] = d THEN None ELSE by[b]]
             /\ rows' = [rows EXCEPT ![d] = {}] /\ live' = [live EXCEPT ![d] = {}]
             /\ nonce' = [n \in Nonce |-> IF nonce[n].of = d THEN [nonce[n] EXCEPT !.state = "expired"]
                                           ELSE nonce[n]]
        ELSE UNCHANGED <<status, before, by, evVars, nonce>>
  /\ Finish(c)
  /\ UNCHANGED <<current, history, reopened, envVars, mirror, budget>>

\* retract_evidence(): neither the status nor a lock is asked for.
Retract(c, d, e) ==
  /\ call[c] = Idle /\ e \in live[d]
  /\ live' = [live EXCEPT ![d] = @ \ {e}]
  /\ UNCHANGED <<rowVars, rows, envVars, nonce, mirror, call, budget>>

-----------------------------------------------------------------------------
(* Verdicts. *)

IssueNonce(n, d) ==
  /\ nonce[n].state = "unissued" /\ status[d] # "absent"
  /\ nonce' = [nonce EXCEPT ![n] = [of |-> d, state |-> "open"]]
  /\ UNCHANGED <<rowVars, evVars, envVars, mirror, call, budget>>

\* Sixty seconds pass.
ExpireNonce(n) ==
  /\ nonce[n].state = "open" /\ \A c \in Call : call[c].nonce # n
  /\ nonce' = [nonce EXCEPT ![n].state = "expired"]
  /\ UNCHANGED <<rowVars, evVars, envVars, mirror, call, budget>>

\* _consume_nonce(): the row is read FOR UPDATE.
Usable(n, d) == nonce[n] = [of |-> d, state |-> "open"] /\ \A c \in Call : call[c].nonce # n

\* Evidence _repin() replaces: pinned to a content the document no longer has.
Drifted(d) == {e \in live[d] : e[1] \in Doc /\ e[2] # hash[e[1]]}

\* add_verdict() up to its writes.  "keep" repeats the current verdict and
\* pins the drifted evidence anew.
BeginVerdict(c, d, opt, keep, n) ==
  /\ call[c] = Idle /\ status[d] \in Open /\ Unlocked(d) /\ Usable(n, d)
  /\ keep => current[d] # 0 /\ opt = "pick"
  /\ LET old == IF keep THEN Drifted(d) ELSE {}
         add == {Pin(e[1]) : e \in old}
         evs == (live[d] \ old) \cup add
     IN /\ opt = "pick" => evs # {}
        /\ Do(c, [Idle EXCEPT !.pc = "verdict", !.d = d, !.opt = opt, !.nonce = n, !.evs = evs,
                              !.old = old, !.add = add, !.prev = current[d]])
  /\ UNCHANGED <<rowVars, evVars, envVars, nonce, mirror, budget>>

\* _repin() inserts a row twice, or one that exists: everything is rolled back.
PinClash(c) ==
  Taken(call[c].d, call[c].add) \/ Cardinality(call[c].add) < Cardinality(call[c].old)

VerdictFails(c) ==
  /\ call[c].pc = "verdict" /\ PinClash(c)
  /\ Finish(c)
  /\ UNCHANGED <<rowVars, evVars, envVars, nonce, mirror, budget>>

MutSpent(n) == nonce                       \* mutant: used_at is not set
Spent(n)    == [nonce EXCEPT ![n].state = "used"]

\* The commit of add_verdict().  NEI is recorded and changes nothing else.
CommitVerdict(c) ==
  /\ call[c].pc = "verdict" /\ ~PinClash(c)
  /\ LET k == call[c]
         v == [opt |-> k.opt, nonce |-> k.nonce, prev |-> k.prev, evs |-> k.evs]
     IN /\ history' = [history EXCEPT ![k.d] = Append(@, v)]
        /\ nonce' = Spent(k.nonce)
        /\ rows' = [rows EXCEPT ![k.d] = @ \cup k.add]
        /\ live' = [live EXCEPT ![k.d] = (@ \ k.old) \cup k.add]
        /\ IF k.opt = "pick"
           THEN /\ status' = [status EXCEPT ![k.d] = "confirmed"]
                /\ current' = [current EXCEPT ![k.d] = Len(history[k.d]) + 1]
                /\ overdue' = overdue \ {k.d}
                /\ Mirroring(c, {k.d})
           ELSE UNCHANGED <<status, current, overdue>> /\ Finish(c)
  /\ UNCHANGED <<before, by, reopened, hash, mirror, budget>>

-----------------------------------------------------------------------------
(* Lifecycle. *)

\* supersede(): the old row is read FOR UPDATE, the new one without a lock.
BeginSupersede(c, old, new) ==
  /\ call[c] = Idle /\ old # new
  /\ status[old] \in {"confirmed", "needs_recheck"} /\ Unlocked(old)
  /\ status[new] \in Open
  /\ Do(c, [Idle EXCEPT !.pc = "supersede", !.d = old, !.new = new])
  /\ UNCHANGED <<rowVars, evVars, envVars, nonce, mirror, budget>>

\* A superseded_by that is set to what it was is left out of the UPDATE.
Relinks(c) == by[call[c].d] # call[c].new

\* A new value of superseded_by is checked against its foreign key: the check
\* takes a key share lock on the new row, which waits for a FOR UPDATE lock of
\* another transaction.
MutKeyShare(c) == TRUE                     \* mutant: no foreign key
KeyShare(c)    == Relinks(c) => status[call[c].new] # "absent" /\ Unlocked(call[c].new)
Waits(c)       == call[c].pc = "supersede" /\ Relinks(c) /\ ~Unlocked(call[c].new)

\* The mirrors of both decisions are synchronised.
MutSupersedeSync(c) == {call[c].new}       \* mutant: the new one only
SupersedeSync(c)    == {call[c].d, call[c].new}

CommitSupersede(c) ==
  /\ call[c].pc = "supersede" /\ KeyShare(c)
  /\ status' = [status EXCEPT ![call[c].d] = "superseded"]
  /\ by' = [by EXCEPT ![call[c].d] = call[c].new]
  /\ reopened' = IF Relinks(c) THEN reopened \ {call[c].d} ELSE reopened
  /\ Mirroring(c, SupersedeSync(c))
  /\ UNCHANGED <<before, current, history, evVars, envVars, nonce, mirror, budget>>

\* The new row was deleted, or PostgreSQL picks this call as the victim of a
\* deadlock: it waits for a call that waits too.
SupersedeFails(c) ==
  /\ call[c].pc = "supersede"
  /\ \/ Relinks(c) /\ status[call[c].new] = "absent"
     \/ Waits(c) /\ \E k \in Call : call[k].d = call[c].new /\ Waits(k)
  /\ Finish(c)
  /\ UNCHANGED <<rowVars, evVars, envVars, nonce, mirror, budget>>

Retire(c, d) ==
  /\ call[c] = Idle /\ status[d] \notin {"absent", "retired"} /\ Unlocked(d)
  /\ before' = [before EXCEPT ![d] = status[d]]
  /\ status' = [status EXCEPT ![d] = "retired"]
  /\ Mirroring(c, {d})
  /\ UNCHANGED <<by, current, history, reopened, evVars, envVars, nonce, mirror, budget>>

MutRestored(d) == IF current[d] = 0 THEN "proposed" ELSE "confirmed"  \* mutant: guessed anew
Restored(d)    == before[d]

Restore(c, d) ==
  /\ call[c] = Idle /\ status[d] = "retired" /\ Unlocked(d)
  /\ status' = [status EXCEPT ![d] = Restored(d)]
  /\ before' = [before EXCEPT ![d] = None]
  /\ Mirroring(c, {d})
  /\ UNCHANGED <<by, current, history, reopened, evVars, envVars, nonce, mirror, budget>>

\* scan_staleness() reads the confirmed decisions without locks, ...
BeginScan(c) ==
  /\ call[c] = Idle /\ Tick("scan")
  /\ LET stale == {d \in Decision : status[d] = "confirmed" /\ (Drifted(d) # {} \/ d \in overdue)}
     IN stale # {} /\ Do(c, [Idle EXCEPT !.pc = "scan", !.marks = stale])
  /\ UNCHANGED <<rowVars, evVars, envVars, nonce, mirror>>

Replaced(d) == status[d] = "superseded" \/ (status[d] = "retired" /\ before[d] = "superseded")

\* ... and updates their status by id, whatever it has become in between.
CommitScan(c) ==
  /\ call[c].pc = "scan" /\ \A d \in call[c].marks : Unlocked(d)
  /\ status' = [d \in Decision |-> IF d \in call[c].marks THEN "needs_recheck" ELSE status[d]]
  /\ reopened' = reopened \cup {d \in Decision : d \in call[c].marks /\ Replaced(d)}
  /\ Mirroring(c, call[c].marks)
  /\ UNCHANGED <<before, by, current, history, evVars, envVars, nonce, mirror, budget>>

-----------------------------------------------------------------------------
(* The search mirror: mirror.sync(), three transactions. *)

DocStatus(st) == CASE st = "superseded" -> "superseded"
                   [] st = "retired"    -> "archived"
                   [] OTHER             -> "active"

\* The mirrored decisions have a verdict; the others are left out.
MirrorRead(c) ==
  /\ call[c].pc = "mirror"
  /\ IF call[c].todo = {} THEN Finish(c)
     ELSE \E d \in call[c].todo :
            IF current[d] = 0 THEN Do(c, [call[c] EXCEPT !.todo = @ \ {d}])
            ELSE Do(c, [call[c] EXCEPT !.pc = "upsert", !.todo = @ \ {d}, !.d = d,
                          !.draft = [status |-> status[d], verdict |-> current[d]]])
  /\ UNCHANGED <<rowVars, evVars, envVars, nonce, mirror, budget>>

\* upsert_document_from_draft() leaves an unchanged document's status alone,
\* unless it is archived.
MirrorUpsert(c) ==
  /\ call[c].pc = "upsert"
  /\ LET d == call[c].d
         v == call[c].draft.verdict
         same == mirror[d] # None /\ mirror[d].verdict = v /\ mirror[d].status # "archived"
     IN mirror' = IF same THEN mirror
                  ELSE [mirror EXCEPT ![d] = [status |-> "active", verdict |-> v]]
  /\ Do(c, [call[c] EXCEPT !.pc = "flag"])
  /\ UNCHANGED <<rowVars, evVars, envVars, nonce, budget>>

MirrorFlag(c) ==
  /\ call[c].pc = "flag"
  /\ mirror' = [mirror EXCEPT ![call[c].d].status = DocStatus(call[c].draft.status)]
  /\ Mirroring(c, call[c].todo)
  /\ UNCHANGED <<rowVars, evVars, envVars, nonce, budget>>

-----------------------------------------------------------------------------
(* The surroundings. *)

\* A quoted document is edited; the quote stays in it.
EditDoc(x, h) ==
  /\ hash[x] # h /\ Tick("edit")
  /\ hash' = [hash EXCEPT ![x] = h]
  /\ UNCHANGED <<rowVars, evVars, overdue, nonce, mirror, call>>

\* review_interval_days pass.
Elapse(d) ==
  /\ current[d] # 0 /\ d \notin overdue /\ Tick("overdue")
  /\ overdue' = overdue \cup {d}
  /\ UNCHANGED <<rowVars, evVars, hash, nonce, mirror, call>>

\* The API process dies, or a mirror transaction fails and safe_sync() returns.
Crash(c) ==
  /\ call[c] # Idle /\ Tick("crash")
  /\ Finish(c)
  /\ UNCHANGED <<rowVars, evVars, envVars, nonce, mirror>>

EvidenceStep(c) ==
  \/ \E d \in Decision, x \in Doc \cup Web : Propose(c, d, x) \/ BeginEvidence(c, d, x)
  \/ CommitEvidence(c) \/ RejectEvidence(c)
  \/ \E d \in Decision : \E e \in live[d] : Retract(c, d, e)

VerdictStep(c) ==
  \/ \E d \in Decision, opt \in {"pick", "NEI"}, keep \in BOOLEAN, n \in Nonce :
        BeginVerdict(c, d, opt, keep, n)
  \/ CommitVerdict(c) \/ VerdictFails(c)

LifecycleStep(c) ==
  \/ \E old, new \in Decision : BeginSupersede(c, old, new)
  \/ CommitSupersede(c) \/ SupersedeFails(c)
  \/ \E d \in Decision : Retire(c, d) \/ Restore(c, d)
  \/ BeginScan(c) \/ CommitScan(c)

MirrorStep(c) == MirrorRead(c) \/ MirrorUpsert(c) \/ MirrorFlag(c)

Next ==
  \/ \E c \in Call : \/ EvidenceStep(c) \/ VerdictStep(c) \/ LifecycleStep(c)
                     \/ MirrorStep(c) \/ Crash(c)
  \/ \E n \in Nonce : ExpireNonce(n) \/ \E d \in Decision : IssueNonce(n, d)
  \/ \E x \in Doc, h \in Hash : EditDoc(x, h)
  \/ \E d \in Decision : Elapse(d)

Spec == Init /\ [][Next]_vars

-----------------------------------------------------------------------------
(* Properties. *)

PinSet == SUBSET ((Doc \X Hash) \cup (Web \X {NoHash}))

\* The variables have their types.
TypeOK ==
  /\ status \in [Decision -> Status] /\ before \in [Decision -> Open \cup {"superseded", None}]
  /\ by \in [Decision -> Decision \cup {None}]
  /\ current \in [Decision -> Nat]
  /\ \A d \in Decision : current[d] <= Len(history[d])
  /\ rows \in [Decision -> PinSet] /\ live \in [Decision -> PinSet]
  /\ \A d \in Decision : live[d] \subseteq rows[d]
  /\ overdue \subseteq Decision /\ reopened \subseteq Decision /\ hash \in [Doc -> Hash]
  /\ \A d \in Decision : status[d] = "retired" => before[d] # None

\* A nonce backs one verdict: add_verdict consumes it in the transaction of the
\* verdict, whatever requests race with it.
NonceOnce ==
  \A d, e \in Decision : \A i \in 1 .. Len(history[d]), j \in 1 .. Len(history[e]) :
    history[d][i].nonce = history[e][j].nonce => d = e /\ i = j

\* The confirmations of a decision form one line: each replaces the one before
\* it, the last is the current verdict, and "not enough information" is in the
\* history only (supersedes_verdict_id, current_verdict_id of add_verdict).
Picks(d, n) == {i \in 1 .. n : history[d][i].opt = "pick"}
LastOf(S)   == IF S = {} THEN 0 ELSE CHOOSE i \in S : \A j \in S : j <= i
VerdictsInLine ==
  \A d \in Decision :
    /\ current[d] = LastOf(Picks(d, Len(history[d])))
    /\ \A i \in 1 .. Len(history[d]) : history[d][i].prev = LastOf(Picks(d, i - 1))

\* The evidence a verdict was based on stays on record, retracted or not, and a
\* confirmation was based on some (evidence_snapshot; rows are not deleted).
SnapshotsKept ==
  \A d \in Decision : \A i \in 1 .. Len(history[d]) :
    /\ history[d][i].evs \subseteq rows[d]
    /\ history[d][i].opt = "pick" => history[d][i].evs # {}

\* Two decisions are both out of use, each replaced by the other, only after a
\* scan has reopened one of them and left its link: otherwise the row lock of the
\* one and the foreign key of the other make one of the requests wait.  (A link
\* that is there already is not written and not checked.  And nothing of the kind
\* holds for three: service.py:496 reads the status of the replacement without a
\* lock.)
NeverEachOther ==
  \A d, e \in Decision : Replaced(d) /\ Replaced(e) /\ by[d] = e /\ by[e] = d =>
    d \in reopened \/ e \in reopened

\* A superseded decision leaves that state by being retired only, and what is
\* restored comes back as it was: the link to its successor says which.
SupersededLinked ==
  \A d \in Decision :
    /\ before[d] # None <=> status[d] = "retired"
    /\ by[d] # None <=> status[d] = "superseded" \/ before[d] = "superseded"

\* With no request in progress the search mirror shows the current verdict of
\* every decision, under the status that goes with the decision's.
MirrorAgrees ==
  (\A c \in Call : call[c] = Idle) =>
    \A d \in Decision : current[d] # 0 =>
      mirror[d] = [status |-> DocStatus(status[d]), verdict |-> current[d]]

\* "confirmed | needs_recheck -> superseded" and "any -> retired" are the only
\* ways: no transition leads from superseded back to needs_recheck.
SupersededIsFinal ==
  [][\A d \in Decision : status[d] = "superseded" => status'[d] \in {"superseded", "retired"}]_vars

=============================================================================
