---------------------------- MODULE DecisionProofs ----------------------------
(***************************************************************************)
(* Theorems about DecisionStore: types, nonces, the line of verdicts and the *)
(* evidence they rest on, and which of two decisions replaces the other, for *)
(* any number of requests at once; the links and the search mirror for       *)
(* requests one after the other.                                             *)
(***************************************************************************)
EXTENDS DecisionStore, TLAPS

Pins     == (Doc \X Hash) \cup (Web \X {NoHash})
Verdicts == [opt : {"pick", "NEI"}, nonce : Nonce, prev : Nat, evs : SUBSET Pins]

\* What a request in progress has in hand has its type.
CallOK ==
  /\ DOMAIN call = Call
  /\ \A c \in Call :
       /\ "pc" \in DOMAIN call[c]
       /\ call[c].pc = "evidence" => call[c].d \in Decision /\ call[c].pin \in Pins
       /\ call[c].pc = "supersede" => call[c].d \in Decision /\ call[c].new \in Decision
       /\ call[c].pc = "verdict" =>
            /\ call[c].d \in Decision /\ call[c].opt \in {"pick", "NEI"}
            /\ call[c].nonce \in Nonce /\ call[c].prev \in Nat
            /\ call[c].evs \subseteq Pins /\ call[c].add \subseteq Pins

TablesOK ==
  /\ history \in [Decision -> Seq(Verdicts)]
  /\ nonce \in [Nonce -> [of : Decision \cup {None},
                          state : {"unissued", "open", "used", "expired"}]]

TypeInv == TypeOK /\ CallOK /\ TablesOK

-----------------------------------------------------------------------------
(* Types. *)

\* A call that goes on without a row in hand keeps the types of the calls.
LEMMA CallGoesOn ==
  ASSUME CallOK, NEW c \in Call, NEW r, Do(c, r),
         "pc" \in DOMAIN r, r.pc \notin {"evidence", "supersede", "verdict"}
  PROVE  CallOK'
BY DEF CallOK, Do

\* The idle call has nothing in hand, nor has one that synchronises mirrors.
LEMMA IdlePc ==
  /\ Idle.pc = "idle" /\ "pc" \in DOMAIN Idle
  /\ \A q : /\ "pc" \in DOMAIN [Idle EXCEPT !.pc = "mirror", !.todo = q]
           /\ [Idle EXCEPT !.pc = "mirror", !.todo = q].pc = "mirror"
BY DEF Idle

\* Ending a call keeps the types of the calls.
LEMMA FinishTypes ==
  ASSUME CallOK, NEW c \in Call, Finish(c) PROVE CallOK'
BY CallGoesOn, IdlePc DEF Finish

\* Going on to the mirrors keeps them.
LEMMA MirroringTypes ==
  ASSUME CallOK, NEW c \in Call, NEW q, Mirroring(c, q) PROVE CallOK'
BY CallGoesOn, IdlePc DEF Mirroring

\* A pin of a document or of an external page is a pin.
LEMMA PinType ==
  ASSUME hash \in [Doc -> Hash], NEW x \in Doc \cup Web PROVE Pin(x) \in Pins
BY DEF Pin, Pins

\* Evidence: proposals, rows added, rejected and retracted.
LEMMA EvidenceTypes ==
  ASSUME TypeInv, NEW c \in Call, EvidenceStep(c) PROVE TypeInv'
<1> USE DEF TypeInv, TablesOK, rowVars, envVars, evVars
<1>1. ASSUME NEW d \in Decision, NEW x \in Doc \cup Web, Propose(c, d, x) PROVE TypeInv'
  <2>1. Pin(x) \in Pins
    BY PinType DEF TypeOK
  <2>2. CallOK'
    BY <1>1, <2>1 DEF Propose, Do, CallOK, Idle
  <2>3. TypeOK'
    BY <1>1, DecisionAssumption DEF Propose, TypeOK, Status, Open
  <2> QED
    BY <1>1, <2>2, <2>3 DEF Propose
<1>2. ASSUME NEW d \in Decision, NEW x \in Doc \cup Web, BeginEvidence(c, d, x) PROVE TypeInv'
  <2>1. Pin(x) \in Pins
    BY PinType DEF TypeOK
  <2>2. CallOK'
    BY <1>2, <2>1 DEF BeginEvidence, Do, CallOK, Idle
  <2> QED
    BY <1>2, <2>2 DEF BeginEvidence, TypeOK
<1>3. CASE CommitEvidence(c)
  <2>1. call[c].d \in Decision /\ call[c].pin \in Pins
    BY <1>3 DEF CommitEvidence, CallOK
  <2>2. CallOK'
    BY <1>3, FinishTypes DEF CommitEvidence
  <2>3. TypeOK'
    BY <1>3, <2>1 DEF CommitEvidence, TypeOK, PinSet, Pins
  <2> QED
    BY <1>3, <2>2, <2>3 DEF CommitEvidence
<1>4. CASE RejectEvidence(c)
  <2>1. call[c].d \in Decision
    BY <1>4 DEF RejectEvidence, CallOK
  <2>2. CallOK'
    BY <1>4, FinishTypes DEF RejectEvidence
  <2>3. TypeOK'
    <3>1. CASE call[c].fresh /\ Deletable(call[c].d)
      <4> DEFINE d == call[c].d
      <4>1. /\ status' = [status EXCEPT ![d] = "absent"] /\ before' = [before EXCEPT ![d] = None]
            /\ by' = [b \in Decision |-> IF b = d \/ by[b] = d THEN None ELSE by[b]]
            /\ rows' = [rows EXCEPT ![d] = {}] /\ live' = [live EXCEPT ![d] = {}]
            /\ UNCHANGED <<current, history, reopened, overdue, hash>>
        BY <1>4, <3>1 DEF RejectEvidence
      <4>2. /\ status' \in [Decision -> Status] /\ before' \in [Decision -> Open \cup {"superseded", None}]
            /\ \A b \in Decision : status'[b] = "retired" => before'[b] # None
        BY <2>1, <4>1 DEF TypeOK, Status
      <4>3. by' \in [Decision -> Decision \cup {None}]
        BY <4>1 DEF TypeOK
      <4>4. /\ rows' \in [Decision -> PinSet] /\ live' \in [Decision -> PinSet]
            /\ \A b \in Decision : live'[b] \subseteq rows'[b]
        BY <2>1, <4>1 DEF TypeOK, PinSet
      <4> QED
        BY <4>1, <4>2, <4>3, <4>4 DEF TypeOK
    <3>2. CASE ~(call[c].fresh /\ Deletable(call[c].d))
      BY <1>4, <3>2 DEF RejectEvidence, TypeOK
    <3> QED
      BY <3>1, <3>2
  <2>4. TablesOK'
    BY <1>4 DEF RejectEvidence
  <2> QED
    BY <2>2, <2>3, <2>4
<1>5. ASSUME NEW d \in Decision, NEW e \in live[d], Retract(c, d, e) PROVE TypeInv'
  <2>1. TypeOK'
    BY <1>5 DEF Retract, TypeOK, PinSet
  <2> QED
    BY <1>5, <2>1 DEF Retract, CallOK
<1> QED
  BY <1>1, <1>2, <1>3, <1>4, <1>5 DEF EvidenceStep

\* Verdicts.
LEMMA VerdictTypes ==
  ASSUME TypeInv, NEW c \in Call, VerdictStep(c) PROVE TypeInv'
<1> USE DEF TypeInv, TablesOK, rowVars, envVars, evVars
<1>1. ASSUME NEW d \in Decision, NEW opt \in {"pick", "NEI"}, NEW keep \in BOOLEAN, NEW n \in Nonce,
             BeginVerdict(c, d, opt, keep, n)
      PROVE  TypeInv'
  <2> DEFINE old == IF keep THEN Drifted(d) ELSE {}
             add == {Pin(e[1]) : e \in old}
             evs == (live[d] \ old) \cup add
  <2>1. add \subseteq Pins
    BY PinType DEF TypeOK, Drifted
  <2>2. evs \subseteq Pins
    BY <2>1 DEF TypeOK, PinSet, Pins
  <2>3. Do(c, [Idle EXCEPT !.pc = "verdict", !.d = d, !.opt = opt, !.nonce = n, !.evs = evs,
                           !.old = old, !.add = add, !.prev = current[d]])
    BY <1>1 DEF BeginVerdict
  <2> HIDE DEF old, add, evs
  <2>4. CallOK'
    BY <2>1, <2>2, <2>3 DEF Do, CallOK, Idle, TypeOK
  <2> QED
    BY <1>1, <2>4 DEF BeginVerdict, TypeOK
<1>2. CASE VerdictFails(c)
  <2>1. CallOK'
    BY <1>2, FinishTypes DEF VerdictFails
  <2> QED
    BY <1>2, <2>1 DEF VerdictFails, TypeOK
<1>3. CASE CommitVerdict(c)
  <2> DEFINE k == call[c]
             v == [opt |-> k.opt, nonce |-> k.nonce, prev |-> k.prev, evs |-> k.evs]
  <2>1. /\ k.d \in Decision /\ k.opt \in {"pick", "NEI"} /\ k.nonce \in Nonce
        /\ k.prev \in Nat /\ k.evs \subseteq Pins /\ k.add \subseteq Pins
    BY <1>3 DEF CommitVerdict, CallOK
  <2>2. v \in Verdicts
    BY <2>1 DEF Verdicts
  <2>3. history' = [history EXCEPT ![k.d] = Append(@, v)]
    BY <1>3 DEF CommitVerdict
  <2>4. history' \in [Decision -> Seq(Verdicts)] /\ Len(history'[k.d]) = Len(history[k.d]) + 1
    BY <2>1, <2>2, <2>3
  <2>5. CallOK'
    BY <1>3, FinishTypes, MirroringTypes DEF CommitVerdict
  <2>6. nonce' \in [Nonce -> [of : Decision \cup {None},
                              state : {"unissued", "open", "used", "expired"}]]
    BY <1>3, <2>1 DEF CommitVerdict, Spent
  <2>7. rows' \in [Decision -> PinSet] /\ live' \in [Decision -> PinSet]
        /\ \A d \in Decision : live'[d] \subseteq rows'[d]
    BY <1>3, <2>1 DEF CommitVerdict, TypeOK, PinSet, Pins
  <2>8. current' \in [Decision -> Nat] /\ \A d \in Decision : current'[d] <= Len(history'[d])
    <3>1. \A d \in Decision : d # k.d => history'[d] = history[d]
      BY <2>1, <2>3
    <3>2. Len(history[k.d]) \in Nat
      BY <2>1
    <3>3. CASE k.opt = "pick"
      <4>1. current' = [current EXCEPT ![k.d] = Len(history[k.d]) + 1]
        BY <1>3, <3>3 DEF CommitVerdict
      <4>2. \A d \in Decision : d # k.d => current'[d] = current[d]
        BY <2>1, <4>1 DEF TypeOK
      <4>3. current' \in [Decision -> Nat] /\ current'[k.d] = Len(history'[k.d])
        BY <2>1, <2>4, <3>2, <4>1 DEF TypeOK
      <4>4. ASSUME NEW d \in Decision PROVE current'[d] <= Len(history'[d])
        <5>1. CASE d = k.d
          BY <2>4, <3>2, <4>3, <5>1
        <5>2. CASE d # k.d
          BY <3>1, <4>2, <5>2 DEF TypeOK
        <5> QED
          BY <5>1, <5>2
      <4> QED
        BY <4>3, <4>4
    <3>4. CASE k.opt # "pick"
      <4>1. current' = current
        BY <1>3, <3>4 DEF CommitVerdict
      <4>2. ASSUME NEW d \in Decision PROVE current'[d] <= Len(history'[d])
        <5>1. current[d] \in Nat /\ current[d] <= Len(history[d])
          BY DEF TypeOK
        <5>2. CASE d = k.d
          BY <2>4, <3>2, <4>1, <5>1, <5>2
        <5>3. CASE d # k.d
          BY <3>1, <4>1, <5>1, <5>3
        <5> QED
          BY <5>2, <5>3
      <4> QED
        BY <4>1, <4>2 DEF TypeOK
    <3> QED
      BY <3>3, <3>4
  <2>9. TypeOK'
    <3>1. /\ status' \in [Decision -> Status] /\ overdue' \subseteq Decision
          /\ \A d \in Decision : status'[d] = "retired" => status[d] = "retired"
      BY <1>3, <2>1, ZenonT(40) DEF CommitVerdict, TypeOK, Status, Open
    <3> QED
      BY <1>3, <2>7, <2>8, <3>1 DEF CommitVerdict, TypeOK
  <2> QED
    BY <2>4, <2>5, <2>6, <2>9
<1> QED
  BY <1>1, <1>2, <1>3 DEF VerdictStep

\* Supersede, retire, restore, scan.
LEMMA LifecycleTypes ==
  ASSUME TypeInv, NEW c \in Call, LifecycleStep(c) PROVE TypeInv'
<1> USE DEF TypeInv, TablesOK, rowVars, envVars, evVars
<1>1. ASSUME NEW old \in Decision, NEW new \in Decision, BeginSupersede(c, old, new) PROVE TypeInv'
  <2>1. CallOK'
    BY <1>1 DEF BeginSupersede, Do, CallOK, Idle
  <2> QED
    BY <1>1, <2>1 DEF BeginSupersede, TypeOK
<1>2. CASE CommitSupersede(c)
  <2>1. call[c].d \in Decision /\ call[c].new \in Decision
    BY <1>2 DEF CommitSupersede, CallOK
  <2>2. CallOK'
    BY <1>2, MirroringTypes DEF CommitSupersede
  <2>3. TypeOK'
    BY <1>2, <2>1 DEF CommitSupersede, TypeOK, Status, Closed
  <2> QED
    BY <1>2, <2>2, <2>3 DEF CommitSupersede
<1>3. CASE SupersedeFails(c)
  <2>1. CallOK'
    BY <1>3, FinishTypes DEF SupersedeFails
  <2> QED
    BY <1>3, <2>1 DEF SupersedeFails, TypeOK
<1>4. ASSUME NEW d \in Decision, Retire(c, d) PROVE TypeInv'
  <2>1. CallOK'
    BY <1>4, MirroringTypes DEF Retire
  <2>2. TypeOK'
    BY <1>4, DecisionAssumption DEF Retire, TypeOK, Status, Open, Closed
  <2> QED
    BY <1>4, <2>1, <2>2 DEF Retire
<1>5. ASSUME NEW d \in Decision, Restore(c, d) PROVE TypeInv'
  <2>1. CallOK'
    BY <1>5, MirroringTypes DEF Restore
  <2>2. TypeOK'
    BY <1>5, DecisionAssumption DEF Restore, Restored, TypeOK, Status, Open, Closed
  <2> QED
    BY <1>5, <2>1, <2>2 DEF Restore
<1>6. CASE BeginScan(c)
  <2>1. CallOK'
    BY <1>6, CallGoesOn DEF BeginScan, Idle
  <2> QED
    BY <1>6, <2>1 DEF BeginScan, TypeOK
<1>7. CASE CommitScan(c)
  <2>1. CallOK'
    BY <1>7, MirroringTypes DEF CommitScan
  <2>2. TypeOK'
    BY <1>7 DEF CommitScan, TypeOK, Status, Open
  <2> QED
    BY <1>7, <2>1, <2>2 DEF CommitScan
<1> QED
  BY <1>1, <1>2, <1>3, <1>4, <1>5, <1>6, <1>7 DEF LifecycleStep

\* The mirror, and a request that dies.
LEMMA MirrorTypes ==
  ASSUME TypeInv, NEW c \in Call, MirrorStep(c) \/ Crash(c) PROVE TypeInv'
<1> USE DEF TypeInv, TablesOK, rowVars, envVars, evVars
<1>1. "pc" \in DOMAIN call[c]
  BY DEF CallOK
<1>2. CASE MirrorRead(c)
  <2>1. CallOK'
    <3>1. CASE call[c].todo = {}
      BY <1>2, <3>1, FinishTypes DEF MirrorRead
    <3>2. ASSUME NEW d \in call[c].todo, Do(c, [call[c] EXCEPT !.todo = @ \ {d}]) PROVE CallOK'
      BY <1>1, <1>2, <3>2, CallGoesOn DEF MirrorRead
    <3>3. ASSUME NEW d \in call[c].todo,
                 Do(c, [call[c] EXCEPT !.pc = "upsert", !.todo = @ \ {d}, !.d = d,
                          !.draft = [status |-> status[d], verdict |-> current[d]]])
          PROVE  CallOK'
      BY <1>1, <3>3, CallGoesOn
    <3> QED
      BY <1>2, <3>1, <3>2, <3>3 DEF MirrorRead
  <2> QED
    BY <1>2, <2>1 DEF MirrorRead, TypeOK
<1>3. CASE MirrorUpsert(c)
  <2>1. CallOK'
    BY <1>1, <1>3, CallGoesOn DEF MirrorUpsert
  <2> QED
    BY <1>3, <2>1 DEF MirrorUpsert, TypeOK
<1>4. CASE MirrorFlag(c)
  <2>1. CallOK'
    BY <1>4, MirroringTypes DEF MirrorFlag
  <2> QED
    BY <1>4, <2>1 DEF MirrorFlag, TypeOK
<1>5. CASE Crash(c)
  <2>1. CallOK'
    BY <1>5, FinishTypes DEF Crash
  <2> QED
    BY <1>5, <2>1 DEF Crash, TypeOK
<1> QED
  BY <1>2, <1>3, <1>4, <1>5 DEF MirrorStep

\* A nonce issued or expired, a document edited, a review interval elapsed.
Surroundings ==
  \/ \E n \in Nonce : ExpireNonce(n) \/ \E d \in Decision : IssueNonce(n, d)
  \/ \E x \in Doc, h \in Hash : EditDoc(x, h)
  \/ \E d \in Decision : Elapse(d)

\* What happens around the requests keeps the types.
LEMMA SurroundingsTypes ==
  ASSUME TypeInv, Surroundings PROVE TypeInv'
<1> USE DEF TypeInv, TablesOK, CallOK, rowVars, envVars, evVars
<1>1. ASSUME NEW n \in Nonce, ExpireNonce(n) PROVE TypeInv'
  BY <1>1, ZenonT(40) DEF ExpireNonce, TypeOK
<1>2. ASSUME NEW n \in Nonce, NEW d \in Decision, IssueNonce(n, d) PROVE TypeInv'
  BY <1>2 DEF IssueNonce, TypeOK
<1>3. ASSUME NEW x \in Doc, NEW h \in Hash, EditDoc(x, h) PROVE TypeInv'
  BY <1>3 DEF EditDoc, TypeOK
<1>4. ASSUME NEW d \in Decision, Elapse(d) PROVE TypeInv'
  BY <1>4 DEF Elapse, TypeOK
<1> QED
  BY <1>1, <1>2, <1>3, <1>4 DEF Surroundings

\* The tables start empty.
LEMMA InitTypes == Init => TypeInv
BY DecisionAssumption DEF Init, TypeInv, TypeOK, CallOK, TablesOK, Idle, Status, PinSet

\* A stutter changes no table.
LEMMA StutterTypes == TypeInv /\ UNCHANGED vars => TypeInv'
BY DEF TypeInv, TypeOK, CallOK, TablesOK, vars, rowVars, evVars, envVars

\* Every step keeps the types.
LEMMA StepTypes == TypeInv /\ [Next]_vars => TypeInv'
BY EvidenceTypes, VerdictTypes, LifecycleTypes, MirrorTypes, SurroundingsTypes, StutterTypes
   DEF Next, Surroundings

\* The tables of decisions, verdicts, evidence and nonces keep their types, and
\* so does what each request holds between its reads and its commit.
THEOREM TypeCorrect == Spec => [](TypeOK /\ CallOK /\ TablesOK)
BY InitTypes, StepTypes, PTL DEF Spec, TypeInv

-----------------------------------------------------------------------------
(* Nonces, the line of verdicts, evidence. *)

Locking == {"verdict", "supersede"}

\* FOR UPDATE is exclusive: a decision row is in one hand at most.
Locks ==
  \A c, k \in Call :
    c # k /\ call[c].pc \in Locking /\ call[k].pc \in Locking => call[c].d # call[k].d

\* What add_verdict() has read holds until it commits: the nonce is open, the
\* verdict it replaces is the current one, its evidence is on record.
InHand ==
  \A c \in Call : call[c].pc = "verdict" =>
    /\ nonce[call[c].nonce] = [of |-> call[c].d, state |-> "open"]
    /\ call[c].prev = current[call[c].d]
    /\ call[c].evs \subseteq rows[call[c].d] \cup call[c].add
    /\ call[c].opt = "pick" => call[c].evs # {}

\* The nonce of a recorded verdict is used, for that decision.
NoncesSpent ==
  \A d \in Decision : \A i \in 1 .. Len(history[d]) :
    nonce[history[d][i].nonce] = [of |-> d, state |-> "used"]

SafeInv == Locks /\ InHand /\ NoncesSpent /\ NonceOnce /\ VerdictsInLine /\ SnapshotsKept

\* A step that takes no row in hand, records no verdict, touches no nonce and
\* removes no evidence.
Quiet ==
  /\ UNCHANGED <<current, history, nonce>>
  /\ \A d \in Decision : rows[d] \subseteq rows'[d]
  /\ \A c \in Call : call'[c].pc \in Locking => call'[c] = call[c]

\* The verdicts on record have their type.
LEMMA Recorded ==
  ASSUME TablesOK, NEW d \in Decision, NEW i \in 1 .. Len(history[d])
  PROVE  history[d][i] \in Verdicts /\ history[d][i].nonce \in Nonce
<1>1. history[d] \in Seq(Verdicts)
  BY DEF TablesOK
<1>2. history[d][i] \in Verdicts
  BY <1>1
<1> QED
  BY <1>2 DEF Verdicts

\* Such a step keeps the invariant.
LEMMA QuietStep ==
  ASSUME TypeInv, SafeInv, Quiet PROVE SafeInv'
<1> USE DEF SafeInv, Quiet
<1>1. Locks'
  BY DEF Locks
<1>2. InHand'
  BY DEF InHand, Locking, TypeInv, CallOK
<1>3. NoncesSpent'
  BY DEF NoncesSpent
<1>4. NonceOnce'
  BY DEF NonceOnce
<1>5. VerdictsInLine'
  BY DEF VerdictsInLine, Picks
<1>6. SnapshotsKept'
  BY DEF SnapshotsKept
<1> QED
  BY <1>1, <1>2, <1>3, <1>4, <1>5, <1>6

\* A call that goes on without a row in hand takes none.
LEMMA CallQuiet ==
  ASSUME CallOK, NEW c \in Call, NEW r, Do(c, r), r.pc \notin Locking
  PROVE  \A k \in Call : call'[k].pc \in Locking => call'[k] = call[k]
BY DEF CallOK, Do

\* Nor does ending.
LEMMA FinishQuiet ==
  ASSUME CallOK, NEW c \in Call, Finish(c)
  PROVE  \A k \in Call : call'[k].pc \in Locking => call'[k] = call[k]
BY CallQuiet, IdlePc DEF Finish, Locking

\* Synchronising mirrors takes no row.
LEMMA MirroringQuiet ==
  ASSUME CallOK, NEW c \in Call, NEW q, Mirroring(c, q)
  PROVE  \A k \in Call : call'[k].pc \in Locking => call'[k] = call[k]
BY CallQuiet, IdlePc DEF Mirroring, Locking
\* Evidence: only the rollback of a proposal is more than a quiet step, and it
\* deletes a decision no one holds and no verdict is about.
LEMMA EvidenceSafe ==
  ASSUME TypeInv, SafeInv, NEW c \in Call, EvidenceStep(c) PROVE SafeInv'
<1> USE DEF TypeInv, rowVars, envVars, evVars
<1>1. ASSUME NEW d \in Decision, NEW x \in Doc \cup Web, Propose(c, d, x) PROVE SafeInv'
  <2>1. \A k \in Call : call'[k].pc \in Locking => call'[k] = call[k]
    BY <1>1, CallQuiet DEF Propose, Idle, Locking
  <2> QED
    BY <1>1, <2>1, QuietStep DEF Propose, Quiet
<1>2. ASSUME NEW d \in Decision, NEW x \in Doc \cup Web, BeginEvidence(c, d, x) PROVE SafeInv'
  <2>1. \A k \in Call : call'[k].pc \in Locking => call'[k] = call[k]
    BY <1>2, CallQuiet DEF BeginEvidence, Idle, Locking
  <2> QED
    BY <1>2, <2>1, QuietStep DEF BeginEvidence, Quiet
<1>3. CASE CommitEvidence(c)
  <2>1. \A d \in Decision : rows[d] \subseteq rows'[d]
    BY <1>3 DEF CommitEvidence, TypeOK
  <2> QED
    BY <1>3, <2>1, FinishQuiet, QuietStep DEF CommitEvidence, Quiet
<1>4. CASE RejectEvidence(c)
  <2>1. \A k \in Call : call'[k].pc \in Locking => call'[k] = call[k]
    BY <1>4, FinishQuiet DEF RejectEvidence
  <2>2. CASE ~(call[c].fresh /\ Deletable(call[c].d))
    BY <1>4, <2>1, <2>2, QuietStep DEF RejectEvidence, Quiet
  <2>3. CASE call[c].fresh /\ Deletable(call[c].d)
    <3> DEFINE d == call[c].d
    <3>1. /\ d \in Decision /\ history[d] = <<>> /\ Unlocked(d)
          /\ rows' = [rows EXCEPT ![d] = {}]
          /\ nonce' = [n \in Nonce |-> IF nonce[n].of = d THEN [nonce[n] EXCEPT !.state = "expired"]
                                        ELSE nonce[n]]
          /\ UNCHANGED <<current, history>>
      BY <1>4, <2>3 DEF RejectEvidence, Deletable, CallOK
    <3> HIDE DEF d
    <3>2. \A k \in Call : call'[k].pc \in Locking => call[k].d # d
      BY <2>1, <3>1 DEF Unlocked, Holds, Locking
    <3>3. \A n \in Nonce : nonce[n].of # d => nonce'[n] = nonce[n]
      BY <3>1
    <3>4. \A e \in Decision : e # d => rows'[e] = rows[e]
      BY <3>1 DEF TypeOK
    <3>5. Locks'
      BY <2>1 DEF SafeInv, Locks
    <3>6. InHand'
      BY <2>1, <3>1, <3>2, <3>3, <3>4 DEF SafeInv, InHand, Locking, CallOK
    <3>7. NoncesSpent'
      <4> SUFFICES ASSUME NEW e \in Decision, NEW i \in 1 .. Len(history[e])
                   PROVE  nonce'[history[e][i].nonce] = [of |-> e, state |-> "used"]
        BY <3>1 DEF NoncesSpent
      <4>1. e # d
        BY <3>1
      <4>2. history[e][i].nonce \in Nonce
        BY Recorded
      <4>3. nonce[history[e][i].nonce] = [of |-> e, state |-> "used"]
        BY DEF SafeInv, NoncesSpent
      <4> QED
        BY <3>3, <4>1, <4>2, <4>3
    <3>8. NonceOnce' /\ VerdictsInLine'
      BY <3>1 DEF SafeInv, NonceOnce, VerdictsInLine, Picks
    <3>9. SnapshotsKept'
      <4> SUFFICES ASSUME NEW e \in Decision, NEW i \in 1 .. Len(history[e])
                   PROVE  /\ history[e][i].evs \subseteq rows'[e]
                          /\ history[e][i].opt = "pick" => history[e][i].evs # {}
        BY <3>1 DEF SnapshotsKept
      <4>1. e # d
        BY <3>1
      <4> QED
        BY <3>4, <4>1 DEF SafeInv, SnapshotsKept
    <3> QED
      BY <3>5, <3>6, <3>7, <3>8, <3>9 DEF SafeInv
  <2> QED
    BY <2>2, <2>3
<1>5. ASSUME NEW d \in Decision, NEW e \in live[d], Retract(c, d, e) PROVE SafeInv'
  BY <1>5, QuietStep DEF Retract, Quiet
<1> QED
  BY <1>1, <1>2, <1>3, <1>4, <1>5 DEF EvidenceStep

\* A call that takes the row of a decision no one holds.
LEMMA LockTaken ==
  ASSUME TypeInv, SafeInv, NEW c \in Call, NEW d \in Decision, Unlocked(d), NEW r, Do(c, r), r.d = d
  PROVE  Locks'
<1>1. \A k \in Call : k # c => call'[k] = call[k]
  BY DEF Do, TypeInv, CallOK
<1>2. call'[c] = r
  BY DEF Do, TypeInv, CallOK
<1> QED
  BY <1>1, <1>2 DEF Locks, SafeInv, Unlocked, Holds, Locking

\* Lifecycle.
LEMMA LifecycleSafe ==
  ASSUME TypeInv, SafeInv, NEW c \in Call, LifecycleStep(c) PROVE SafeInv'
<1> USE DEF TypeInv, rowVars, envVars, evVars
<1>1. ASSUME NEW old \in Decision, NEW new \in Decision, BeginSupersede(c, old, new) PROVE SafeInv'
  <2>1. Locks'
    BY <1>1, LockTaken DEF BeginSupersede, Idle
  <2>2. \A k \in Call : call'[k].pc = "verdict" => call'[k] = call[k]
    BY <1>1 DEF BeginSupersede, Do, Idle, CallOK
  <2>3. UNCHANGED <<current, history, nonce, rows>>
    BY <1>1 DEF BeginSupersede
  <2>4. InHand'
    BY <2>2, <2>3 DEF SafeInv, InHand
  <2> QED
    BY <2>1, <2>3, <2>4
       DEF SafeInv, NoncesSpent, NonceOnce, VerdictsInLine, Picks, SnapshotsKept
<1>2. CASE CommitSupersede(c)
  BY <1>2, MirroringQuiet, QuietStep DEF CommitSupersede, Quiet
<1>3. CASE SupersedeFails(c)
  BY <1>3, FinishQuiet, QuietStep DEF SupersedeFails, Quiet
<1>4. ASSUME NEW d \in Decision, Retire(c, d) PROVE SafeInv'
  BY <1>4, MirroringQuiet, QuietStep DEF Retire, Quiet
<1>5. ASSUME NEW d \in Decision, Restore(c, d) PROVE SafeInv'
  BY <1>5, MirroringQuiet, QuietStep DEF Restore, Quiet
<1>6. CASE BeginScan(c)
  <2>1. \A k \in Call : call'[k].pc \in Locking => call'[k] = call[k]
    BY <1>6, CallQuiet DEF BeginScan, Idle, Locking
  <2> QED
    BY <1>6, <2>1, QuietStep DEF BeginScan, Quiet
<1>7. CASE CommitScan(c)
  BY <1>7, MirroringQuiet, QuietStep DEF CommitScan, Quiet
<1> QED
  BY <1>1, <1>2, <1>3, <1>4, <1>5, <1>6, <1>7 DEF LifecycleStep

\* The mirror, and a request that dies.
LEMMA MirrorSafe ==
  ASSUME TypeInv, SafeInv, NEW c \in Call, MirrorStep(c) \/ Crash(c) PROVE SafeInv'
<1> USE DEF TypeInv, rowVars, envVars, evVars
<1>1. "pc" \in DOMAIN call[c]
  BY DEF CallOK
<1>2. CASE MirrorRead(c)
  <2>1. \A k \in Call : call'[k].pc \in Locking => call'[k] = call[k]
    <3> DEFINE Goal == \A k \in Call : call'[k].pc \in Locking => call'[k] = call[k]
    <3>1. CASE call[c].todo = {}
      BY <1>2, <3>1, FinishQuiet DEF MirrorRead
    <3>2. ASSUME NEW d \in call[c].todo, Do(c, [call[c] EXCEPT !.todo = @ \ {d}]) PROVE Goal
      BY <1>1, <1>2, <3>2, CallQuiet DEF MirrorRead, Locking
    <3>3. ASSUME NEW d \in call[c].todo,
                 Do(c, [call[c] EXCEPT !.pc = "upsert", !.todo = @ \ {d}, !.d = d,
                          !.draft = [status |-> status[d], verdict |-> current[d]]])
          PROVE  Goal
      BY <1>1, <3>3, CallQuiet DEF Locking
    <3> QED
      BY <1>2, <3>1, <3>2, <3>3 DEF MirrorRead
  <2> QED
    BY <1>2, <2>1, QuietStep DEF MirrorRead, Quiet
<1>3. CASE MirrorUpsert(c)
  <2>1. \A k \in Call : call'[k].pc \in Locking => call'[k] = call[k]
    BY <1>1, <1>3, CallQuiet DEF MirrorUpsert, Locking
  <2> QED
    BY <1>3, <2>1, QuietStep DEF MirrorUpsert, Quiet
<1>4. CASE MirrorFlag(c)
  BY <1>4, MirroringQuiet, QuietStep DEF MirrorFlag, Quiet
<1>5. CASE Crash(c)
  BY <1>5, FinishQuiet, QuietStep DEF Crash, Quiet
<1> QED
  BY <1>2, <1>3, <1>4, <1>5 DEF MirrorStep
\* The surroundings: a nonce is issued once, and none is expired that a call has
\* in hand or a verdict has used.
LEMMA SurroundingsSafe ==
  ASSUME TypeInv, SafeInv, Surroundings PROVE SafeInv'
<1> USE DEF TypeInv, rowVars, envVars, evVars
<1>1. ASSUME NEW n \in Nonce, nonce[n].state # "used",
             \A c \in Call : call[c].pc = "verdict" => call[c].nonce # n,
             \A m \in Nonce : m # n => nonce'[m] = nonce[m],
             UNCHANGED <<current, history, rows, call>>
      PROVE  SafeInv'
  <2>1. Locks' /\ NonceOnce' /\ VerdictsInLine' /\ SnapshotsKept'
    BY <1>1 DEF SafeInv, Locks, NonceOnce, VerdictsInLine, Picks, SnapshotsKept
  <2>2. InHand'
    BY <1>1 DEF SafeInv, InHand, CallOK
  <2>3. NoncesSpent'
    <3> SUFFICES ASSUME NEW d \in Decision, NEW i \in 1 .. Len(history[d])
                 PROVE  nonce'[history[d][i].nonce] = [of |-> d, state |-> "used"]
      BY <1>1 DEF NoncesSpent
    <3>1. history[d][i].nonce \in Nonce
      BY Recorded
    <3>2. nonce[history[d][i].nonce] = [of |-> d, state |-> "used"]
      BY DEF SafeInv, NoncesSpent
    <3> QED
      BY <1>1, <3>1, <3>2
  <2> QED
    BY <2>1, <2>2, <2>3 DEF SafeInv
<1>2. ASSUME NEW n \in Nonce, ExpireNonce(n) PROVE SafeInv'
  BY <1>1, <1>2 DEF ExpireNonce, TablesOK
<1>3. ASSUME NEW n \in Nonce, NEW d \in Decision, IssueNonce(n, d) PROVE SafeInv'
  <2>1. ASSUME NEW c \in Call, call[c].pc = "verdict" PROVE call[c].nonce # n
    <3>1. nonce[call[c].nonce] = [of |-> call[c].d, state |-> "open"]
      BY <2>1 DEF SafeInv, InHand
    <3>2. nonce[call[c].nonce].state = "open"
      BY <3>1
    <3> QED
      BY <1>3, <3>2 DEF IssueNonce
  <2> QED
    BY <1>1, <1>3, <2>1 DEF IssueNonce, TablesOK
<1>4. ASSUME NEW x \in Doc, NEW h \in Hash, EditDoc(x, h) PROVE SafeInv'
  BY <1>4, QuietStep DEF EditDoc, Quiet
<1>5. ASSUME NEW d \in Decision, Elapse(d) PROVE SafeInv'
  BY <1>5, QuietStep DEF Elapse, Quiet
<1> QED
  BY <1>2, <1>3, <1>4, <1>5 DEF Surroundings

\* The last of a set of numbers with a greatest member is that member.
LEMMA LastOfGreatest ==
  ASSUME NEW S \in SUBSET Nat, NEW m \in S, \A j \in S : j <= m PROVE LastOf(S) = m
<1> DEFINE P(i) == i \in S /\ \A j \in S : j <= i
<1>1. P(m)
  OBVIOUS
<1>2. \A i : P(i) => i = m
  OBVIOUS
<1>3. LastOf(S) = CHOOSE i : P(i)
  BY DEF LastOf
<1> QED
  BY <1>1, <1>2, <1>3

\* The reads and the commit of a verdict.
LEMMA VerdictSafe ==
  ASSUME TypeInv, SafeInv, NEW c \in Call, VerdictStep(c) PROVE SafeInv'
<1> USE DEF TypeInv, rowVars, envVars, evVars
<1>1. ASSUME NEW d \in Decision, NEW opt \in {"pick", "NEI"}, NEW keep \in BOOLEAN, NEW n \in Nonce,
             BeginVerdict(c, d, opt, keep, n)
      PROVE  SafeInv'
  <2> DEFINE old == IF keep THEN Drifted(d) ELSE {}
             add == {Pin(e[1]) : e \in old}
             evs == (live[d] \ old) \cup add
             r == [Idle EXCEPT !.pc = "verdict", !.d = d, !.opt = opt, !.nonce = n, !.evs = evs,
                               !.old = old, !.add = add, !.prev = current[d]]
  <2>1. evs \subseteq rows[d] \cup add
    BY DEF TypeOK
  <2>2. /\ Do(c, r) /\ Unlocked(d) /\ nonce[n] = [of |-> d, state |-> "open"]
        /\ opt = "pick" => evs # {}
        /\ UNCHANGED <<current, history, nonce, rows>>
    BY <1>1 DEF BeginVerdict, Usable
  <2> HIDE DEF old, add, evs
  <2>3. /\ r.pc = "verdict" /\ r.d = d /\ r.opt = opt /\ r.nonce = n /\ r.evs = evs /\ r.add = add
        /\ r.prev = current[d]
    BY DEF Idle
  <2> HIDE DEF r
  <2>4. Locks'
    BY <2>2, <2>3, LockTaken
  <2>5. call'[c] = r /\ \A k \in Call : k # c => call'[k] = call[k]
    BY <2>2 DEF Do, CallOK
  <2>6. InHand'
    BY <2>1, <2>2, <2>3, <2>5 DEF SafeInv, InHand
  <2>7. NoncesSpent' /\ NonceOnce'
    BY <2>2 DEF SafeInv, NoncesSpent, NonceOnce
  <2>8. VerdictsInLine' /\ SnapshotsKept'
    BY <2>2 DEF SafeInv, VerdictsInLine, Picks, SnapshotsKept
  <2> QED
    BY <2>4, <2>6, <2>7, <2>8 DEF SafeInv
<1>2. CASE VerdictFails(c)
  BY <1>2, FinishQuiet, QuietStep DEF VerdictFails, Quiet
<1>3. CASE CommitVerdict(c)
  <2> DEFINE k == call[c]
             L == Len(history[k.d])
             v == [opt |-> k.opt, nonce |-> k.nonce, prev |-> k.prev, evs |-> k.evs]
  <2>1. /\ k.pc = "verdict" /\ k.d \in Decision /\ k.opt \in {"pick", "NEI"} /\ k.nonce \in Nonce
        /\ nonce[k.nonce] = [of |-> k.d, state |-> "open"] /\ k.prev = current[k.d]
        /\ k.evs \subseteq rows[k.d] \cup k.add /\ (k.opt = "pick" => k.evs # {})
    BY <1>3 DEF CommitVerdict, CallOK, SafeInv, InHand
  <2>2. /\ history' = [history EXCEPT ![k.d] = Append(@, v)]
        /\ rows' = [rows EXCEPT ![k.d] = @ \cup k.add]
        /\ nonce' = [nonce EXCEPT ![k.nonce].state = "used"]
    BY <1>3 DEF CommitVerdict, Spent
  <2>3. /\ \A d \in Decision : d # k.d => history'[d] = history[d] /\ rows'[d] = rows[d]
        /\ \A n \in Nonce : n # k.nonce => nonce'[n] = nonce[n]
        /\ nonce'[k.nonce] = [of |-> k.d, state |-> "used"]
        /\ rows'[k.d] = rows[k.d] \cup k.add
    BY <2>1, <2>2 DEF TypeOK, TablesOK
  <2>4. /\ L \in Nat /\ Len(history'[k.d]) = L + 1 /\ history'[k.d][L + 1] = v
        /\ \A i \in 1 .. L : history'[k.d][i] = history[k.d][i]
    <3>1. history[k.d] \in Seq(Verdicts) /\ history'[k.d] = Append(history[k.d], v)
      BY <2>1, <2>2 DEF TablesOK
    <3> QED
      BY <3>1
  <2>5. \A m \in Call : call'[m].pc \in Locking => call'[m] = call[m] /\ m # c
    <3>1. call'[c].pc \notin Locking
      BY <1>3, IdlePc DEF CommitVerdict, Mirroring, Finish, Do, CallOK, Locking
    <3> QED
      BY <1>3, <3>1, FinishQuiet, MirroringQuiet DEF CommitVerdict
  <2>6. \A d \in Decision : d # k.d => current'[d] = current[d]
    BY <1>3, <2>1 DEF CommitVerdict, TypeOK
  <2> HIDE DEF k, L
  <2>7. Locks'
    BY <2>5 DEF SafeInv, Locks
  <2>8. InHand'
    <3> SUFFICES ASSUME NEW m \in Call, call'[m].pc = "verdict"
                 PROVE  /\ nonce'[call'[m].nonce] = [of |-> call'[m].d, state |-> "open"]
                        /\ call'[m].prev = current'[call'[m].d]
                        /\ call'[m].evs \subseteq rows'[call'[m].d] \cup call'[m].add
                        /\ call'[m].opt = "pick" => call'[m].evs # {}
      BY DEF InHand
    <3>1. call'[m] = call[m] /\ m # c
      BY <2>5 DEF Locking
    <3>2. call[m].d \in Decision /\ call[m].nonce \in Nonce /\ call[m].d # k.d
      BY <2>1, <3>1 DEF CallOK, SafeInv, Locks, Locking, k
    <3>3. nonce[call[m].nonce] = [of |-> call[m].d, state |-> "open"]
      BY <3>1 DEF SafeInv, InHand
    <3>4. call[m].nonce # k.nonce
      BY <2>1, <3>2, <3>3
    <3> QED
      BY <2>3, <2>6, <3>1, <3>2, <3>4 DEF SafeInv, InHand
  <2>9. NoncesSpent'
    <3> SUFFICES ASSUME NEW d \in Decision, NEW i \in 1 .. Len(history'[d])
                 PROVE  nonce'[history'[d][i].nonce] = [of |-> d, state |-> "used"]
      BY DEF NoncesSpent
    <3>1. CASE d = k.d /\ i = L + 1
      BY <2>3, <2>4, <3>1
    <3>2. CASE ~(d = k.d /\ i = L + 1)
      <4>1. i \in 1 .. Len(history[d]) /\ history'[d][i] = history[d][i]
        BY <2>3, <2>4, <3>2 DEF L
      <4>2. nonce[history[d][i].nonce] = [of |-> d, state |-> "used"]
        BY <4>1 DEF SafeInv, NoncesSpent
      <4>3. history[d][i].nonce \in Nonce
        BY <4>1, Recorded
      <4>4. history[d][i].nonce # k.nonce
        BY <2>1, <4>2
      <4> QED
        BY <2>3, <4>1, <4>2, <4>3, <4>4
    <3> QED
      BY <3>1, <3>2
  <2>10. \A d \in Decision : \A i \in 1 .. Len(history[d]) : history[d][i].nonce # k.nonce
    <3> SUFFICES ASSUME NEW d \in Decision, NEW i \in 1 .. Len(history[d])
                 PROVE  history[d][i].nonce # k.nonce
      OBVIOUS
    <3>1. nonce[history[d][i].nonce] = [of |-> d, state |-> "used"]
      BY DEF SafeInv, NoncesSpent
    <3> QED
      BY <2>1, <3>1
  <2>11. \A d \in Decision : \A i \in 1 .. Len(history'[d]) :
           \/ i \in 1 .. Len(history[d]) /\ history'[d][i] = history[d][i]
           \/ d = k.d /\ i = L + 1
    BY <2>3, <2>4 DEF L
  <2>12. NonceOnce'
    <3> SUFFICES ASSUME NEW d \in Decision, NEW e \in Decision,
                        NEW i \in 1 .. Len(history'[d]), NEW j \in 1 .. Len(history'[e]),
                        history'[d][i].nonce = history'[e][j].nonce
                 PROVE  d = e /\ i = j
      BY DEF NonceOnce
    <3>1. CASE /\ i \in 1 .. Len(history[d]) /\ history'[d][i] = history[d][i]
               /\ j \in 1 .. Len(history[e]) /\ history'[e][j] = history[e][j]
      BY <3>1 DEF SafeInv, NonceOnce
    <3>2. CASE d = k.d /\ i = L + 1
      <4>1. history'[d][i].nonce = k.nonce
        BY <2>4, <3>2
      <4> QED
        BY <2>10, <2>11, <3>2, <4>1
    <3>3. CASE e = k.d /\ j = L + 1
      <4>1. history'[e][j].nonce = k.nonce
        BY <2>4, <3>3
      <4> QED
        BY <2>10, <2>11, <3>3, <4>1
    <3> QED
      BY <2>11, <3>1, <3>2, <3>3
  <2>13. SnapshotsKept'
    <3> SUFFICES ASSUME NEW d \in Decision, NEW i \in 1 .. Len(history'[d])
                 PROVE  /\ history'[d][i].evs \subseteq rows'[d]
                        /\ history'[d][i].opt = "pick" => history'[d][i].evs # {}
      BY DEF SnapshotsKept
    <3>1. CASE d = k.d /\ i = L + 1
      BY <2>1, <2>3, <2>4, <3>1
    <3>2. CASE i \in 1 .. Len(history[d]) /\ history'[d][i] = history[d][i]
      BY <2>3, <3>2, SMTT(30) DEF SafeInv, SnapshotsKept
    <3> QED
      BY <2>11, <3>1, <3>2
  <2>14. VerdictsInLine'
    <3> DEFINE After(d, n) == {i \in 1 .. n : history'[d][i].opt = "pick"}
    <3> SUFFICES ASSUME NEW d \in Decision
                 PROVE  /\ current'[d] = LastOf(After(d, Len(history'[d])))
                        /\ \A i \in 1 .. Len(history'[d]) :
                             history'[d][i].prev = LastOf(After(d, i - 1))
      BY DEF VerdictsInLine, Picks
    <3>1. CASE d # k.d
      <4>1. \A n : After(d, n) = Picks(d, n)
        BY <2>3, <3>1 DEF Picks
      <4> HIDE DEF After
      <4> QED
        BY <2>3, <2>6, <3>1, <4>1 DEF SafeInv, VerdictsInLine
    <3>2. CASE d = k.d
      <4>1. /\ Len(history[d]) = L /\ Len(history'[d]) = L + 1 /\ history'[d][L + 1] = v
            /\ \A i \in 1 .. L : history'[d][i] = history[d][i]
        BY <2>4, <3>2 DEF L
      <4>2. \A n \in 0 .. L : After(d, n) = Picks(d, n)
        <5> SUFFICES ASSUME NEW n \in 0 .. L PROVE After(d, n) = Picks(d, n)
          OBVIOUS
        <5>1. \A i \in 1 .. n : history'[d][i] = history[d][i]
          BY <2>4, <4>1
        <5> QED
          BY <5>1 DEF Picks
      <4>3. current[d] = LastOf(Picks(d, L))
        BY <4>1 DEF SafeInv, VerdictsInLine
      <4>4. current'[d] = LastOf(After(d, L + 1))
        <5>1. CASE k.opt = "pick"
          <6>1. current'[d] = L + 1
            BY <1>3, <2>1, <3>2, <5>1 DEF CommitVerdict, TypeOK, k, L
          <6>2. /\ After(d, L + 1) \in SUBSET Nat /\ L + 1 \in After(d, L + 1)
                /\ \A j \in After(d, L + 1) : j <= L + 1
            BY <2>4, <4>1, <5>1 DEF Picks
          <6> QED
            BY <2>4, <6>1, <6>2, LastOfGreatest
        <5>2. CASE k.opt # "pick"
          <6>1. current' = current
            BY <1>3, <5>2 DEF CommitVerdict, k
          <6>2. history'[d][L + 1].opt # "pick"
            BY <4>1, <5>2
          <6>3. After(d, L + 1) = After(d, L)
            BY <2>4, <6>2
          <6>4. After(d, L) = Picks(d, L)
            BY <2>4, <4>2
          <6> QED
            BY <4>3, <6>1, <6>3, <6>4
        <5> QED
          BY <5>1, <5>2
      <4>5. ASSUME NEW i \in 1 .. L + 1 PROVE history'[d][i].prev = LastOf(After(d, i - 1))
        <5>1. After(d, i - 1) = Picks(d, i - 1)
          BY <2>4, <4>2
        <5> HIDE DEF After
        <5>2. CASE i = L + 1
          <6>1. i - 1 = L
            BY <2>4, <5>2
          <6> QED
            BY <2>1, <3>2, <4>1, <4>3, <5>1, <5>2, <6>1
        <5>3. CASE i \in 1 .. L
          BY <4>1, <5>1, <5>3 DEF SafeInv, VerdictsInLine
        <5> QED
          BY <2>4, <5>2, <5>3
      <4> QED
        BY <4>1, <4>4, <4>5
    <3> QED
      BY <3>1, <3>2
  <2> QED
    BY <2>7, <2>8, <2>9, <2>12, <2>13, <2>14 DEF SafeInv
<1> QED
  BY <1>1, <1>2, <1>3 DEF VerdictStep

\* The tables start empty.
LEMMA InitSafe == Init => SafeInv
BY DecisionAssumption DEF Init, SafeInv, Locks, InHand, NoncesSpent, NonceOnce, VerdictsInLine,
   Picks, LastOf, SnapshotsKept, Idle, Locking

\* Every step keeps the invariant.
LEMMA StepSafe == TypeInv /\ SafeInv /\ [Next]_vars => SafeInv'
<1>1. ASSUME TypeInv, SafeInv, UNCHANGED vars PROVE SafeInv'
  BY <1>1, QuietStep DEF vars, rowVars, evVars, Quiet
<1> QED
  BY <1>1, EvidenceSafe, VerdictSafe, LifecycleSafe, MirrorSafe, SurroundingsSafe
     DEF Next, Surroundings

\* The invariant holds throughout.
LEMMA Safe == Spec => []SafeInv
BY InitTypes, StepTypes, InitSafe, StepSafe, PTL DEF Spec

\* A nonce backs one verdict, whatever requests race with the one that spends it.
THEOREM NoncesBackOne == Spec => []NonceOnce
<1>1. SafeInv => NonceOnce
  BY DEF SafeInv
<1> QED
  BY <1>1, Safe, PTL

\* The confirmations of a decision form one line that ends in the current verdict.
THEOREM OneLine == Spec => []VerdictsInLine
<1>1. SafeInv => VerdictsInLine
  BY DEF SafeInv
<1> QED
  BY <1>1, Safe, PTL

\* The evidence a verdict was based on stays on record.
THEOREM EvidenceStays == Spec => []SnapshotsKept
<1>1. SafeInv => SnapshotsKept
  BY DEF SafeInv
<1> QED
  BY <1>1, Safe, PTL

-----------------------------------------------------------------------------
(* Supersede. *)

\* The decision a verdict under way is about is in use: its row is locked.
InUse == \A c \in Call : call[c].pc = "verdict" => status[call[c].d] \in Open

\* A step that begins no verdict keeps that if it leaves such decisions in use.
LEMMA StillInUse ==
  ASSUME InUse, \A k \in Call : call'[k].pc = "verdict" => call'[k] = call[k],
         \A k \in Call : call[k].pc = "verdict" =>
           status'[call[k].d] = status[call[k].d] \/ status'[call[k].d] \in Open
  PROVE  InUse'
BY DEF InUse

\* Evidence: a proposal that is rolled back is in no hand.
LEMMA EvidenceInUse ==
  ASSUME TypeInv, InUse, NEW c \in Call, EvidenceStep(c) PROVE InUse'
<1> USE DEF TypeInv, rowVars, envVars, evVars
<1>1. ASSUME NEW d \in Decision, NEW x \in Doc \cup Web, Propose(c, d, x) PROVE InUse'
  <2>1. \A k \in Call : call'[k].pc \in Locking => call'[k] = call[k]
    BY <1>1, CallQuiet DEF Propose, Idle, Locking
  <2>2. \A k \in Call : call[k].pc = "verdict" =>
          status'[call[k].d] = status[call[k].d] \/ status'[call[k].d] \in Open
    BY <1>1 DEF Propose, TypeOK, CallOK, Open
  <2> QED
    BY <2>1, <2>2, StillInUse DEF Locking
<1>2. ASSUME NEW d \in Decision, NEW x \in Doc \cup Web, BeginEvidence(c, d, x) PROVE InUse'
  <2>1. \A k \in Call : call'[k].pc \in Locking => call'[k] = call[k]
    BY <1>2, CallQuiet DEF BeginEvidence, Idle, Locking
  <2> QED
    BY <1>2, <2>1, StillInUse DEF BeginEvidence, Locking
<1>3. CASE CommitEvidence(c)
  BY <1>3, FinishQuiet, StillInUse DEF CommitEvidence, Locking
<1>4. CASE RejectEvidence(c)
  <2>1. \A k \in Call : call'[k].pc \in Locking => call'[k] = call[k]
    BY <1>4, FinishQuiet DEF RejectEvidence
  <2>2. \A k \in Call : call[k].pc = "verdict" => status'[call[k].d] = status[call[k].d]
    BY <1>4 DEF RejectEvidence, Unlocked, Holds, CallOK, TypeOK
  <2> QED
    BY <2>1, <2>2, StillInUse DEF Locking
<1>5. ASSUME NEW d \in Decision, NEW e \in live[d], Retract(c, d, e) PROVE InUse'
  BY <1>5, StillInUse DEF Retract
<1> QED
  BY <1>1, <1>2, <1>3, <1>4, <1>5 DEF EvidenceStep

\* Verdicts begin on decisions in use, and confirm them.
LEMMA VerdictInUse ==
  ASSUME TypeInv, InUse, NEW c \in Call, VerdictStep(c) PROVE InUse'
<1> USE DEF TypeInv, rowVars, envVars, evVars
<1>1. ASSUME NEW d \in Decision, NEW opt \in {"pick", "NEI"}, NEW keep \in BOOLEAN, NEW n \in Nonce,
             BeginVerdict(c, d, opt, keep, n)
      PROVE  InUse'
  <2>1. \E r : Do(c, r) /\ r.d = d
    <3> DEFINE old == IF keep THEN Drifted(d) ELSE {}
               add == {Pin(e[1]) : e \in old}
               evs == (live[d] \ old) \cup add
               r == [Idle EXCEPT !.pc = "verdict", !.d = d, !.opt = opt, !.nonce = n, !.evs = evs,
                                 !.old = old, !.add = add, !.prev = current[d]]
    <3>1. Do(c, r)
      BY <1>1 DEF BeginVerdict
    <3> HIDE DEF old, add, evs
    <3>2. r.d = d
      BY DEF Idle
    <3> QED
      BY <3>1, <3>2
  <2>2. status[d] \in Open /\ UNCHANGED status
    BY <1>1 DEF BeginVerdict
  <2> QED
    BY <2>1, <2>2 DEF InUse, Do, CallOK
<1>2. CASE VerdictFails(c)
  BY <1>2, FinishQuiet, StillInUse DEF VerdictFails, Locking
<1>3. CASE CommitVerdict(c)
  <2>1. \A k \in Call : call'[k].pc \in Locking => call'[k] = call[k]
    BY <1>3, FinishQuiet, MirroringQuiet DEF CommitVerdict
  <2>2. \A k \in Call : call[k].pc = "verdict" =>
          status'[call[k].d] = status[call[k].d] \/ status'[call[k].d] \in Open
    BY <1>3 DEF CommitVerdict, CallOK, TypeOK, Open
  <2> QED
    BY <2>1, <2>2, StillInUse DEF Locking
<1> QED
  BY <1>1, <1>2, <1>3 DEF VerdictStep

\* Supersede changes the status of a row it holds itself; retire, restore and
\* scan that of a row nobody holds.
LEMMA LifecycleInUse ==
  ASSUME TypeInv, SafeInv, InUse, NEW c \in Call, LifecycleStep(c) PROVE InUse'
<1> USE DEF TypeInv, rowVars, envVars, evVars
<1>1. ASSUME NEW old \in Decision, NEW new \in Decision, BeginSupersede(c, old, new) PROVE InUse'
  <2>1. \A k \in Call : call'[k].pc = "verdict" => call'[k] = call[k]
    BY <1>1 DEF BeginSupersede, Do, Idle, CallOK
  <2> QED
    BY <1>1, <2>1, StillInUse DEF BeginSupersede
<1>2. CASE CommitSupersede(c)
  <2>1. \A k \in Call : call'[k].pc \in Locking => call'[k] = call[k]
    BY <1>2, MirroringQuiet DEF CommitSupersede
  <2>2. \A k \in Call : call[k].pc = "verdict" => call[k].d # call[c].d
    BY <1>2 DEF CommitSupersede, SafeInv, Locks, Locking
  <2>3. \A k \in Call : call[k].pc = "verdict" => status'[call[k].d] = status[call[k].d]
    BY <1>2, <2>2 DEF CommitSupersede, CallOK, TypeOK
  <2> QED
    BY <2>1, <2>3, StillInUse DEF Locking
<1>3. CASE SupersedeFails(c)
  BY <1>3, FinishQuiet, StillInUse DEF SupersedeFails, Locking
<1>4. ASSUME NEW d \in Decision, Retire(c, d) \/ Restore(c, d) PROVE InUse'
  <2>1. \A k \in Call : call'[k].pc \in Locking => call'[k] = call[k]
    BY <1>4, MirroringQuiet DEF Retire, Restore
  <2>2. \A k \in Call : call[k].pc = "verdict" => status'[call[k].d] = status[call[k].d]
    BY <1>4 DEF Retire, Restore, Unlocked, Holds, CallOK, TypeOK
  <2> QED
    BY <2>1, <2>2, StillInUse DEF Locking
<1>5. CASE BeginScan(c)
  <2>1. \A k \in Call : call'[k].pc \in Locking => call'[k] = call[k]
    BY <1>5, CallQuiet DEF BeginScan, Idle, Locking
  <2> QED
    BY <1>5, <2>1, StillInUse DEF BeginScan, Locking
<1>6. CASE CommitScan(c)
  <2>1. \A k \in Call : call'[k].pc \in Locking => call'[k] = call[k]
    BY <1>6, MirroringQuiet DEF CommitScan
  <2>2. \A k \in Call : call[k].pc = "verdict" => status'[call[k].d] = status[call[k].d]
    BY <1>6 DEF CommitScan, Unlocked, Holds, CallOK, TypeOK
  <2> QED
    BY <2>1, <2>2, StillInUse DEF Locking
<1> QED
  BY <1>1, <1>2, <1>3, <1>4, <1>5, <1>6 DEF LifecycleStep

\* The mirror, a request that dies, and the surroundings touch no status.
LEMMA OtherInUse ==
  ASSUME TypeInv, InUse, (\E c \in Call : MirrorStep(c) \/ Crash(c)) \/ Surroundings \/ UNCHANGED vars
  PROVE  InUse'
<1> USE DEF TypeInv, vars, rowVars, envVars, evVars
<1>1. ASSUME NEW c \in Call, MirrorRead(c) PROVE InUse'
  <2>1. \A k \in Call : call'[k].pc \in Locking => call'[k] = call[k]
    <3>1. CASE call[c].todo = {}
      BY <1>1, <3>1, FinishQuiet DEF MirrorRead
    <3>2. ASSUME NEW d \in call[c].todo, Do(c, [call[c] EXCEPT !.todo = @ \ {d}])
          PROVE  \A k \in Call : call'[k].pc \in Locking => call'[k] = call[k]
      BY <1>1, <3>2, CallQuiet DEF MirrorRead, CallOK, Locking
    <3>3. ASSUME NEW d \in call[c].todo,
                 Do(c, [call[c] EXCEPT !.pc = "upsert", !.todo = @ \ {d}, !.d = d,
                          !.draft = [status |-> status[d], verdict |-> current[d]]])
          PROVE  \A k \in Call : call'[k].pc \in Locking => call'[k] = call[k]
      BY <3>3, CallQuiet DEF CallOK, Locking
    <3> QED
      BY <1>1, <3>1, <3>2, <3>3 DEF MirrorRead
  <2> QED
    BY <1>1, <2>1, StillInUse DEF MirrorRead, Locking
<1>2. ASSUME NEW c \in Call, MirrorUpsert(c) PROVE InUse'
  <2>1. \A k \in Call : call'[k].pc \in Locking => call'[k] = call[k]
    BY <1>2, CallQuiet DEF MirrorUpsert, CallOK, Locking
  <2> QED
    BY <1>2, <2>1, StillInUse DEF MirrorUpsert, Locking
<1>3. ASSUME NEW c \in Call, MirrorFlag(c) PROVE InUse'
  BY <1>3, MirroringQuiet, StillInUse DEF MirrorFlag, Locking
<1>4. ASSUME NEW c \in Call, Crash(c) PROVE InUse'
  BY <1>4, FinishQuiet, StillInUse DEF Crash, Locking
<1>5. CASE Surroundings
  BY <1>5, StillInUse DEF Surroundings, ExpireNonce, IssueNonce, EditDoc, Elapse
<1>6. CASE UNCHANGED vars
  BY <1>6, StillInUse
<1> QED
  BY <1>1, <1>2, <1>3, <1>4, <1>5, <1>6 DEF MirrorStep

\* Every step keeps such decisions in use.
LEMMA StepInUse == TypeInv /\ SafeInv /\ InUse /\ [Next]_vars => InUse'
BY EvidenceInUse, VerdictInUse, LifecycleInUse, OtherInUse DEF Next, Surroundings

\* The replacement a call of supersede() has in hand is another decision, and
\* has been replaced by the one to be superseded only if a scan reopened it.
Successors ==
  \A c \in Call : call[c].pc = "supersede" =>
    /\ call[c].d # call[c].new
    /\ Replaced(call[c].new) /\ by[call[c].new] = call[c].d => call[c].new \in reopened

\* A decision in use with a link to a successor was reopened by a scan.
Traced == \A d \in Decision : by[d] # None => Replaced(d) \/ d \in reopened

LinkInv == Successors /\ Traced /\ NeverEachOther

\* A step that begins no supersede, adds no link, puts no decision out of use and
\* none with a link back in use, but by a scan.
Calm ==
  /\ \A c \in Call : call'[c].pc = "supersede" => call'[c] = call[c]
  /\ \A d \in Decision : by'[d] = by[d] \/ by'[d] = None
  /\ \A d \in Decision : Replaced(d)' => Replaced(d)
  /\ \A d \in Decision : Replaced(d) /\ by'[d] # None => Replaced(d)' \/ d \in reopened'
  /\ reopened \subseteq reopened'

\* Such a step keeps the invariant.
LEMMA CalmStep ==
  ASSUME TypeInv, LinkInv, Calm PROVE LinkInv'
<1>1. None \notin Decision
  BY DecisionAssumption
<1>2. \A d, e \in Decision : by'[d] = e => by[d] = e
  BY <1>1 DEF Calm
<1>3. Successors'
  <2> SUFFICES ASSUME NEW c \in Call, call'[c].pc = "supersede"
               PROVE  /\ call'[c].d # call'[c].new
                      /\ Replaced(call[c].new)' /\ by'[call'[c].new] = call'[c].d => call'[c].new \in reopened'
    BY DEF Successors, Replaced
  <2>1. call'[c] = call[c] /\ call[c].d \in Decision /\ call[c].new \in Decision
    BY DEF Calm, TypeInv, CallOK
  <2>2. \A e \in Decision : Replaced(e)' => Replaced(e)
    BY DEF Calm
  <2> QED
    BY <1>2, <2>1, <2>2 DEF Calm, LinkInv, Successors, Replaced
<1>4. Traced'
  BY DEF Calm, LinkInv, Traced
<1>5. NeverEachOther'
  <2> SUFFICES ASSUME NEW d \in Decision, NEW e \in Decision,
                      Replaced(d)', Replaced(e)', by'[d] = e, by'[e] = d
               PROVE  d \in reopened' \/ e \in reopened'
    BY DEF NeverEachOther
  <2> QED
    BY <1>2 DEF Calm, LinkInv, NeverEachOther
<1> QED
  BY <1>3, <1>4, <1>5 DEF LinkInv

\* What leaves the status, its past and the links alone is calm if it begins no
\* supersede.
LEMMA SameLinks ==
  ASSUME \A c \in Call : call'[c].pc = "supersede" => call'[c] = call[c], UNCHANGED <<status, before, by, reopened>>
  PROVE  Calm
BY DEF Calm, Replaced

\* Evidence: a rejected proposal takes the links to it along.
LEMMA EvidenceLinks ==
  ASSUME TypeInv, LinkInv, NEW c \in Call, EvidenceStep(c) PROVE LinkInv'
<1> USE DEF TypeInv, rowVars, envVars, evVars
<1>1. ASSUME NEW d \in Decision, NEW x \in Doc \cup Web, Propose(c, d, x) PROVE LinkInv'
  <2>1. \A k \in Call : call'[k].pc = "supersede" => call'[k] = call[k]
    BY <1>1, CallQuiet DEF Propose, Idle, Locking
  <2>2. \A e \in Decision : Replaced(e)' <=> Replaced(e)
    BY <1>1 DEF Propose, Replaced, TypeOK
  <2> QED
    BY <1>1, <2>1, <2>2, CalmStep DEF Propose, Calm
<1>2. ASSUME NEW d \in Decision, NEW x \in Doc \cup Web, BeginEvidence(c, d, x) PROVE LinkInv'
  <2>1. \A k \in Call : call'[k].pc \in Locking => call'[k] = call[k]
    BY <1>2, CallQuiet DEF BeginEvidence, Idle, Locking
  <2> QED
    BY <1>2, <2>1, SameLinks, CalmStep DEF BeginEvidence, Locking
<1>3. CASE CommitEvidence(c)
  BY <1>3, FinishQuiet, SameLinks, CalmStep DEF CommitEvidence, Locking
<1>4. CASE RejectEvidence(c)
  <2>1. \A k \in Call : call'[k].pc = "supersede" => call'[k] = call[k]
    BY <1>4, FinishQuiet DEF RejectEvidence, Locking
  <2>2. CASE ~(call[c].fresh /\ Deletable(call[c].d))
    BY <1>4, <2>1, <2>2, SameLinks, CalmStep DEF RejectEvidence
  <2>3. CASE call[c].fresh /\ Deletable(call[c].d)
    <3> DEFINE d == call[c].d
    <3>1. /\ status' = [status EXCEPT ![d] = "absent"] /\ before' = [before EXCEPT ![d] = None]
          /\ by' = [b \in Decision |-> IF b = d \/ by[b] = d THEN None ELSE by[b]]
          /\ UNCHANGED reopened
      BY <1>4, <2>3 DEF RejectEvidence
    <3>2. \A e \in Decision : /\ Replaced(e)' => Replaced(e)
                              /\ Replaced(e) /\ by'[e] # None => Replaced(e)'
      BY <3>1 DEF Replaced, TypeOK
    <3>3. \A e \in Decision : by'[e] = by[e] \/ by'[e] = None
      BY <3>1
    <3> QED
      BY <2>1, <3>1, <3>2, <3>3, CalmStep DEF Calm
  <2> QED
    BY <2>2, <2>3
<1>5. ASSUME NEW d \in Decision, NEW e \in live[d], Retract(c, d, e) PROVE LinkInv'
  BY <1>5, SameLinks, CalmStep DEF Retract
<1> QED
  BY <1>1, <1>2, <1>3, <1>4, <1>5 DEF EvidenceStep

\* Verdicts confirm, and what is confirmed is in use.
LEMMA VerdictLinks ==
  ASSUME TypeInv, InUse, LinkInv, NEW c \in Call, VerdictStep(c) PROVE LinkInv'
<1> USE DEF TypeInv, rowVars, envVars, evVars
<1>1. ASSUME NEW d \in Decision, NEW opt \in {"pick", "NEI"}, NEW keep \in BOOLEAN, NEW n \in Nonce,
             BeginVerdict(c, d, opt, keep, n)
      PROVE  LinkInv'
  <2> DEFINE old == IF keep THEN Drifted(d) ELSE {}
             add == {Pin(e[1]) : e \in old}
             evs == (live[d] \ old) \cup add
             r == [Idle EXCEPT !.pc = "verdict", !.d = d, !.opt = opt, !.nonce = n, !.evs = evs,
                               !.old = old, !.add = add, !.prev = current[d]]
  <2>1. Do(c, r)
    BY <1>1 DEF BeginVerdict
  <2> HIDE DEF old, add, evs
  <2>2. r.pc = "verdict"
    BY DEF Idle
  <2> HIDE DEF r
  <2>3. \A k \in Call : call'[k].pc = "supersede" => call'[k] = call[k]
    BY <2>1, <2>2 DEF Do, CallOK
  <2> QED
    BY <1>1, <2>3, SameLinks, CalmStep DEF BeginVerdict
<1>2. CASE VerdictFails(c)
  BY <1>2, FinishQuiet, SameLinks, CalmStep DEF VerdictFails, Locking
<1>3. CASE CommitVerdict(c)
  <2>1. \A k \in Call : call'[k].pc = "supersede" => call'[k] = call[k]
    BY <1>3, FinishQuiet, MirroringQuiet DEF CommitVerdict, Locking
  <2>2. \A e \in Decision : Replaced(e)' <=> Replaced(e)
    <3>1. call[c].d \in Decision /\ ~Replaced(call[c].d)
      BY <1>3 DEF CommitVerdict, CallOK, InUse, Replaced, Open
    <3> QED
      BY <1>3, <3>1 DEF CommitVerdict, Replaced, TypeOK
  <2> QED
    BY <1>3, <2>1, <2>2, CalmStep DEF CommitVerdict, Calm
<1> QED
  BY <1>1, <1>2, <1>3 DEF VerdictStep

\* The commit of supersede() holds the old row.  When it links it to another
\* decision it waits until nobody holds that one: no call has it in hand to
\* supersede it by the old one.  When the link was there, a scan reopened the old.
LEMMA SupersedeLinks ==
  ASSUME TypeInv, LinkInv, NEW c \in Call, CommitSupersede(c) PROVE LinkInv'
<1> USE DEF TypeInv
<1> DEFINE d == call[c].d  e == call[c].new
<1>1. /\ call[c].pc = "supersede" /\ d \in Decision /\ e \in Decision
      /\ by[d] = e \/ Unlocked(e)
      /\ status' = [status EXCEPT ![d] = "superseded"] /\ by' = [by EXCEPT ![d] = e]
      /\ reopened' = IF by[d] = e THEN reopened ELSE reopened \ {d}
      /\ UNCHANGED before
  BY DEF CommitSupersede, KeyShare, Relinks, CallOK
<1>2. d # e /\ (Replaced(e) /\ by[e] = d => e \in reopened)
  BY <1>1 DEF LinkInv, Successors
<1>3. \A k \in Call : call'[k].pc = "supersede" => call'[k] = call[k]
  BY MirroringQuiet DEF CommitSupersede, Locking
<1> HIDE DEF d, e
<1>4. \A b \in Decision : b # d =>
        by'[b] = by[b] /\ (Replaced(b)' <=> Replaced(b)) /\ (b \in reopened' <=> b \in reopened)
  BY <1>1 DEF Replaced, TypeOK
<1>5. by'[d] = e /\ \A b \in Decision : b = d => Replaced(b)'
  BY <1>1 DEF TypeOK, Replaced
<1>6. Successors'
  <2> SUFFICES ASSUME NEW k \in Call, call'[k].pc = "supersede"
               PROVE  /\ call'[k].d # call'[k].new
                      /\ Replaced(call[k].new)' /\ by'[call'[k].new] = call'[k].d => call'[k].new \in reopened'
    BY DEF Successors, Replaced
  <2>1. /\ call'[k] = call[k] /\ call[k].d \in Decision /\ call[k].new \in Decision
        /\ call[k].pc = "supersede" /\ call[k].d # call[k].new
        /\ Replaced(call[k].new) /\ by[call[k].new] = call[k].d => call[k].new \in reopened
    BY <1>3 DEF CallOK, LinkInv, Successors
  <2>2. CASE call[k].new = d /\ call[k].d = e
    <3>1. by[d] = e
      BY <1>1, <2>1, <2>2 DEF Unlocked, Holds
    <3>2. d \in reopened
      BY <1>1, <2>1, <2>2, <3>1, DecisionAssumption DEF LinkInv, Traced
    <3> QED
      BY <1>1, <2>1, <2>2, <3>1, <3>2
  <2>3. CASE call[k].new = d /\ call[k].d # e
    BY <1>5, <2>1, <2>3
  <2>4. CASE call[k].new # d
    BY <1>4, <2>1, <2>4 DEF Replaced
  <2> QED
    BY <2>2, <2>3, <2>4
<1>7. Traced'
  BY <1>4, <1>5 DEF LinkInv, Traced
<1>8. NeverEachOther'
  <2> SUFFICES ASSUME NEW a \in Decision, NEW b \in Decision,
                      Replaced(a)', Replaced(b)', by'[a] = b, by'[b] = a
               PROVE  a \in reopened' \/ b \in reopened'
    BY DEF NeverEachOther
  <2>1. CASE a = d
    BY <1>2, <1>4, <1>5, <2>1
  <2>2. CASE b = d
    BY <1>2, <1>4, <1>5, <2>2
  <2>3. CASE a # d /\ b # d
    BY <1>4, <2>3 DEF LinkInv, NeverEachOther
  <2> QED
    BY <2>1, <2>2, <2>3
<1> QED
  BY <1>6, <1>7, <1>8 DEF LinkInv

\* Supersede, retire, restore, scan.
LEMMA LifecycleLinks ==
  ASSUME TypeInv, LinkInv, NEW c \in Call, LifecycleStep(c) PROVE LinkInv'
<1> USE DEF TypeInv, rowVars, envVars, evVars
<1>1. ASSUME NEW old \in Decision, NEW new \in Decision, BeginSupersede(c, old, new) PROVE LinkInv'
  <2>1. /\ old # new /\ ~Replaced(new) /\ UNCHANGED <<status, before, by, reopened>>
        /\ \A k \in Call : call'[k].pc = "supersede" =>
             call'[k] = call[k] \/ (call'[k].d = old /\ call'[k].new = new)
    <3>1. /\ old # new /\ status[new] \in Open /\ UNCHANGED <<status, before, by, reopened>>
          /\ Do(c, [Idle EXCEPT !.pc = "supersede", !.d = old, !.new = new])
      BY <1>1 DEF BeginSupersede
    <3>2. ~Replaced(new)
      BY <3>1 DEF Replaced, Open
    <3>3. \A k \in Call : call'[k].pc = "supersede" =>
             call'[k] = call[k] \/ (call'[k].d = old /\ call'[k].new = new)
      BY <3>1 DEF Do, CallOK, Idle
    <3> QED
      BY <3>1, <3>2, <3>3
  <2>2. Successors'
    BY <2>1 DEF LinkInv, Successors, Replaced
  <2>3. Traced' /\ NeverEachOther'
    BY <2>1 DEF LinkInv, Traced, NeverEachOther, Replaced
  <2> QED
    BY <2>2, <2>3 DEF LinkInv
<1>2. CASE CommitSupersede(c)
  BY <1>2, SupersedeLinks
<1>3. CASE SupersedeFails(c)
  BY <1>3, FinishQuiet, SameLinks, CalmStep DEF SupersedeFails, Locking
<1>4. ASSUME NEW d \in Decision, Retire(c, d) PROVE LinkInv'
  <2>1. \A k \in Call : call'[k].pc = "supersede" => call'[k] = call[k]
    BY <1>4, MirroringQuiet DEF Retire, Locking
  <2>2. \A e \in Decision : Replaced(e)' <=> Replaced(e)
    BY <1>4 DEF Retire, Replaced, TypeOK
  <2> QED
    BY <1>4, <2>1, <2>2, CalmStep DEF Retire, Calm
<1>5. ASSUME NEW d \in Decision, Restore(c, d) PROVE LinkInv'
  <2>1. \A k \in Call : call'[k].pc = "supersede" => call'[k] = call[k]
    BY <1>5, MirroringQuiet DEF Restore, Locking
  <2>2. \A e \in Decision : Replaced(e)' <=> Replaced(e)
    BY <1>5, DecisionAssumption DEF Restore, Restored, Replaced, TypeOK, Open, Closed, Status
  <2> QED
    BY <1>5, <2>1, <2>2, CalmStep DEF Restore, Calm
<1>6. CASE BeginScan(c)
  <2>1. \A k \in Call : call'[k].pc = "supersede" => call'[k] = call[k]
    BY <1>6, CallQuiet DEF BeginScan, Idle, Locking
  <2> QED
    BY <1>6, <2>1, SameLinks, CalmStep DEF BeginScan
<1>7. CASE CommitScan(c)
  <2>1. \A k \in Call : call'[k].pc = "supersede" => call'[k] = call[k]
    BY <1>7, MirroringQuiet DEF CommitScan, Locking
  <2>2. \A e \in Decision : /\ Replaced(e)' => Replaced(e)
                            /\ Replaced(e) => Replaced(e)' \/ e \in reopened'
    BY <1>7 DEF CommitScan, Replaced, TypeOK
  <2> QED
    BY <1>7, <2>1, <2>2, CalmStep DEF CommitScan, Calm
<1> QED
  BY <1>1, <1>2, <1>3, <1>4, <1>5, <1>6, <1>7 DEF LifecycleStep

\* The mirror, a request that dies, and the surroundings touch no link.
LEMMA OtherLinks ==
  ASSUME TypeInv, LinkInv, (\E c \in Call : MirrorStep(c) \/ Crash(c)) \/ Surroundings \/ UNCHANGED vars
  PROVE  LinkInv'
<1> USE DEF TypeInv, vars, rowVars, envVars, evVars
<1>1. ASSUME NEW c \in Call, MirrorRead(c) PROVE LinkInv'
  <2>1. \A k \in Call : call'[k].pc = "supersede" => call'[k] = call[k]
    <3>1. CASE call[c].todo = {}
      BY <1>1, <3>1, FinishQuiet DEF MirrorRead, Locking
    <3>2. ASSUME NEW d \in call[c].todo, Do(c, [call[c] EXCEPT !.todo = @ \ {d}])
          PROVE  \A k \in Call : call'[k].pc = "supersede" => call'[k] = call[k]
      BY <1>1, <3>2, CallQuiet DEF MirrorRead, CallOK, Locking
    <3>3. ASSUME NEW d \in call[c].todo,
                 Do(c, [call[c] EXCEPT !.pc = "upsert", !.todo = @ \ {d}, !.d = d,
                          !.draft = [status |-> status[d], verdict |-> current[d]]])
          PROVE  \A k \in Call : call'[k].pc = "supersede" => call'[k] = call[k]
      BY <3>3, CallQuiet DEF CallOK, Locking
    <3> QED
      BY <1>1, <3>1, <3>2, <3>3 DEF MirrorRead
  <2> QED
    BY <1>1, <2>1, SameLinks, CalmStep DEF MirrorRead
<1>2. ASSUME NEW c \in Call, MirrorUpsert(c) PROVE LinkInv'
  <2>1. \A k \in Call : call'[k].pc = "supersede" => call'[k] = call[k]
    BY <1>2, CallQuiet DEF MirrorUpsert, CallOK, Locking
  <2> QED
    BY <1>2, <2>1, SameLinks, CalmStep DEF MirrorUpsert
<1>3. ASSUME NEW c \in Call, MirrorFlag(c) PROVE LinkInv'
  BY <1>3, MirroringQuiet, SameLinks, CalmStep DEF MirrorFlag, Locking
<1>4. ASSUME NEW c \in Call, Crash(c) PROVE LinkInv'
  BY <1>4, FinishQuiet, SameLinks, CalmStep DEF Crash, Locking
<1>5. CASE Surroundings
  BY <1>5, SameLinks, CalmStep DEF Surroundings, ExpireNonce, IssueNonce, EditDoc, Elapse
<1>6. CASE UNCHANGED vars
  BY <1>6, SameLinks, CalmStep
<1> QED
  BY <1>1, <1>2, <1>3, <1>4, <1>5, <1>6 DEF MirrorStep

\* Every step keeps the invariant.
LEMMA StepLinks == TypeInv /\ InUse /\ LinkInv /\ [Next]_vars => LinkInv'
BY EvidenceLinks, VerdictLinks, LifecycleLinks, OtherLinks DEF Next, Surroundings

\* Two decisions are both out of use, each replaced by the other, only after a
\* scan has reopened one of them and left its link, however many requests
\* supersede, retire, restore, judge and scan at once.
THEOREM OneReplacesTheOther == Spec => []NeverEachOther
<1>1. Init => InUse /\ LinkInv
  BY DecisionAssumption DEF Init, InUse, LinkInv, Successors, Traced, NeverEachOther, Idle
<1>2. LinkInv => NeverEachOther
  BY DEF LinkInv
<1> QED
  BY <1>1, <1>2, InitTypes, StepTypes, InitSafe, StepSafe, StepInUse, StepLinks, PTL DEF Spec

-----------------------------------------------------------------------------
(* One request at a time. *)

\* The steps of a request that synchronises mirrors.
Synchronising == {"mirror", "upsert", "flag"}

\* What the request in progress found when it began still holds.
Found(c) ==
  /\ call[c].pc = "evidence" /\ call[c].fresh =>
       status[call[c].d] = "proposed" /\ \A b \in Decision : by[b] # call[c].d
  /\ call[c].pc = "verdict" => status[call[c].d] \in Open
  /\ call[c].pc = "supersede" =>
       /\ call[c].d # call[c].new
       /\ status[call[c].d] \in {"confirmed", "needs_recheck"} /\ status[call[c].new] \in Open
  /\ call[c].pc = "scan" => \A d \in call[c].marks : d \in Decision /\ status[d] = "confirmed"

\* A decision without a row has no verdicts and replaces none.
Rooted ==
  \A d \in Decision : status[d] = "absent" =>
    history[d] = <<>> /\ \A b \in Decision : by[b] # d

SerialInv == (\A c \in Call : Found(c)) /\ Rooted /\ SupersededLinked

\* A request that has nothing in hand but mirrors has found nothing.
LEMMA NothingFound ==
  ASSUME CallOK, NEW c \in Call, NEW r, Do(c, r), r.pc \in {"idle"} \cup Synchronising
  PROVE  Found(c)'
BY DEF CallOK, Do, Found, Synchronising

\* A request that ends, or goes on to the mirrors, is such a request.
LEMMA EndFound ==
  ASSUME CallOK, NEW c \in Call PROVE /\ Finish(c) => Found(c)'
                                      /\ \A q : Mirroring(c, q) => Found(c)'
BY NothingFound, IdlePc DEF Finish, Mirroring, Synchronising

\* A step that leaves the rows of the decisions alone keeps the invariant if the
\* only request in progress finds them as it should.
LEMMA SameRows ==
  ASSUME SerialInv, NEW c \in Call, \A k \in Call : k = c, Found(c)',
         UNCHANGED <<status, before, by, history>>
  PROVE  SerialInv'
<1>1. (\A k \in Call : Found(k))'
  OBVIOUS
<1>2. Rooted'
  BY DEF SerialInv, Rooted
<1>3. SupersededLinked'
  BY DEF SerialInv, SupersededLinked
<1> QED
  BY <1>1, <1>2, <1>3 DEF SerialInv

\* A request that goes on as it was finds what it found.
LEMMA StillFound ==
  ASSUME SerialInv, NEW c \in Call, call'[c] = call[c], UNCHANGED <<status, by>>
  PROVE  Found(c)'
BY DEF SerialInv, Found

\* Evidence.
LEMMA EvidenceSerial ==
  ASSUME TypeInv, SerialInv, NEW c \in Call, \A k \in Call : k = c, EvidenceStep(c)
  PROVE  SerialInv'
<1> USE DEF TypeInv, rowVars, envVars, evVars
<1>1. ASSUME NEW d \in Decision, NEW x \in Doc \cup Web, Propose(c, d, x) PROVE SerialInv'
  <2>1. /\ status[d] = "absent" /\ status' = [status EXCEPT ![d] = "proposed"]
        /\ UNCHANGED <<before, by, history>>
        /\ Do(c, [Idle EXCEPT !.pc = "evidence", !.d = d, !.pin = Pin(x), !.fresh = TRUE])
    BY <1>1 DEF Propose
  <2>2. call'[c].pc = "evidence" /\ call'[c].d = d
    BY <2>1 DEF Do, CallOK, Idle
  <2>3. Found(c)'
    BY <2>1, <2>2 DEF Found, SerialInv, Rooted, TypeOK
  <2>4. Rooted'
    BY <2>1 DEF SerialInv, Rooted, TypeOK
  <2>5. SupersededLinked'
    BY <2>1 DEF SerialInv, SupersededLinked, TypeOK
  <2> QED
    BY <2>3, <2>4, <2>5 DEF SerialInv
<1>2. ASSUME NEW d \in Decision, NEW x \in Doc \cup Web, BeginEvidence(c, d, x) PROVE SerialInv'
  <2>1. Do(c, [Idle EXCEPT !.pc = "evidence", !.d = d, !.pin = Pin(x)])
    BY <1>2 DEF BeginEvidence
  <2>2. call'[c].pc = "evidence" /\ call'[c].fresh = FALSE
    BY <2>1 DEF Do, CallOK, Idle
  <2>3. Found(c)'
    BY <2>2 DEF Found
  <2> QED
    BY <1>2, <2>3, SameRows DEF BeginEvidence
<1>3. CASE CommitEvidence(c)
  BY <1>3, EndFound, SameRows DEF CommitEvidence
<1>4. CASE RejectEvidence(c)
  <2>1. Found(c)'
    BY <1>4, EndFound DEF RejectEvidence
  <2>2. CASE ~(call[c].fresh /\ Deletable(call[c].d))
    BY <1>4, <2>1, <2>2, SameRows DEF RejectEvidence
  <2>3. CASE call[c].fresh /\ Deletable(call[c].d)
    <3> DEFINE d == call[c].d
    <3>1. /\ d \in Decision /\ history[d] = <<>> /\ UNCHANGED history
          /\ status[d] = "proposed" /\ \A b \in Decision : by[b] # d
          /\ status' = [status EXCEPT ![d] = "absent"] /\ before' = [before EXCEPT ![d] = None]
          /\ by' = [b \in Decision |-> IF b = d \/ by[b] = d THEN None ELSE by[b]]
      BY <1>4, <2>3 DEF RejectEvidence, Deletable, CallOK, SerialInv, Found
    <3> HIDE DEF d
    <3>2. by' = [by EXCEPT ![d] = None]
      BY <3>1 DEF TypeOK
    <3>3. Rooted'
      BY <3>1, <3>2, DecisionAssumption DEF SerialInv, Rooted, TypeOK
    <3>4. SupersededLinked'
      BY <3>1, <3>2, DecisionAssumption DEF SerialInv, SupersededLinked, TypeOK, Status, Closed
    <3> QED
      BY <2>1, <3>3, <3>4 DEF SerialInv
  <2> QED
    BY <2>2, <2>3
<1>5. ASSUME NEW d \in Decision, NEW e \in live[d], Retract(c, d, e) PROVE SerialInv'
  BY <1>5, StillFound, SameRows DEF Retract
<1> QED
  BY <1>1, <1>2, <1>3, <1>4, <1>5 DEF EvidenceStep

\* Verdicts.
LEMMA VerdictSerial ==
  ASSUME TypeInv, SerialInv, NEW c \in Call, \A k \in Call : k = c, VerdictStep(c)
  PROVE  SerialInv'
<1> USE DEF TypeInv, rowVars, envVars, evVars
<1>1. ASSUME NEW d \in Decision, NEW opt \in {"pick", "NEI"}, NEW keep \in BOOLEAN, NEW n \in Nonce,
             BeginVerdict(c, d, opt, keep, n)
      PROVE  SerialInv'
  <2> DEFINE old == IF keep THEN Drifted(d) ELSE {}
             add == {Pin(e[1]) : e \in old}
             evs == (live[d] \ old) \cup add
             r == [Idle EXCEPT !.pc = "verdict", !.d = d, !.opt = opt, !.nonce = n, !.evs = evs,
                               !.old = old, !.add = add, !.prev = current[d]]
  <2>1. Do(c, r) /\ status[d] \in Open /\ UNCHANGED <<status, before, by, history>>
    BY <1>1 DEF BeginVerdict
  <2> HIDE DEF old, add, evs
  <2>2. r.pc = "verdict" /\ r.d = d
    BY DEF Idle
  <2> HIDE DEF r
  <2>3. call'[c].pc = "verdict" /\ call'[c].d = d
    BY <2>1, <2>2 DEF Do, CallOK
  <2>4. Found(c)'
    BY <2>1, <2>3 DEF Found
  <2> QED
    BY <2>1, <2>4, SameRows
<1>2. CASE VerdictFails(c)
  BY <1>2, EndFound, SameRows DEF VerdictFails
<1>3. CASE CommitVerdict(c)
  <2>1. Found(c)'
    BY <1>3, EndFound DEF CommitVerdict
  <2> DEFINE d == call[c].d
             v == [opt |-> call[c].opt, nonce |-> call[c].nonce, prev |-> call[c].prev, evs |-> call[c].evs]
  <2>2. /\ d \in Decision /\ status[d] \in Open /\ UNCHANGED <<before, by>>
        /\ history' = [history EXCEPT ![d] = Append(@, v)]
        /\ status' = status \/ status' = [status EXCEPT ![d] = "confirmed"]
    BY <1>3 DEF CommitVerdict, CallOK, SerialInv, Found
  <2> HIDE DEF d, v
  <2>3. \A b \in Decision : /\ b # d => status'[b] = status[b] /\ history'[b] = history[b]
                            /\ status'[d] \in Open
    BY <2>2 DEF TypeOK, Open
  <2>4. Rooted'
    BY <2>2, <2>3 DEF SerialInv, Rooted, Open
  <2>5. SupersededLinked'
    BY <2>2, <2>3 DEF SerialInv, SupersededLinked, Open
  <2> QED
    BY <2>1, <2>4, <2>5 DEF SerialInv
<1> QED
  BY <1>1, <1>2, <1>3 DEF VerdictStep

\* The lifecycle.
LEMMA LifecycleSerial ==
  ASSUME TypeInv, SerialInv, NEW c \in Call, \A k \in Call : k = c, LifecycleStep(c)
  PROVE  SerialInv'
<1> USE DEF TypeInv, rowVars, envVars, evVars
<1>1. ASSUME NEW old \in Decision, NEW new \in Decision, BeginSupersede(c, old, new) PROVE SerialInv'
  <2>1. /\ Do(c, [Idle EXCEPT !.pc = "supersede", !.d = old, !.new = new])
        /\ old # new /\ status[old] \in {"confirmed", "needs_recheck"} /\ status[new] \in Open
        /\ UNCHANGED <<status, before, by, history>>
    BY <1>1 DEF BeginSupersede
  <2>2. call'[c].pc = "supersede" /\ call'[c].d = old /\ call'[c].new = new
    BY <2>1 DEF Do, CallOK, Idle
  <2>3. Found(c)'
    BY <2>1, <2>2 DEF Found
  <2> QED
    BY <2>1, <2>3, SameRows
<1>2. CASE CommitSupersede(c)
  <2>1. Found(c)'
    BY <1>2, EndFound DEF CommitSupersede
  <2> DEFINE d == call[c].d  e == call[c].new
  <2>2. /\ d \in Decision /\ e \in Decision /\ d # e /\ UNCHANGED <<before, history>>
        /\ status[d] \in {"confirmed", "needs_recheck"} /\ status[e] \in Open
        /\ status' = [status EXCEPT ![d] = "superseded"] /\ by' = [by EXCEPT ![d] = e]
    BY <1>2 DEF CommitSupersede, CallOK, SerialInv, Found
  <2> HIDE DEF d, e
  <2>3. Rooted'
    BY <2>2 DEF SerialInv, Rooted, TypeOK, Open
  <2>4. SupersededLinked'
    BY <2>2, DecisionAssumption DEF SerialInv, SupersededLinked, TypeOK
  <2> QED
    BY <2>1, <2>3, <2>4 DEF SerialInv
<1>3. CASE SupersedeFails(c)
  BY <1>3, EndFound, SameRows DEF SupersedeFails
<1>4. ASSUME NEW d \in Decision, Retire(c, d) PROVE SerialInv'
  <2>1. Found(c)'
    BY <1>4, EndFound DEF Retire
  <2>2. /\ status[d] \in Open \cup {"superseded"} /\ UNCHANGED <<by, history>>
        /\ before' = [before EXCEPT ![d] = status[d]] /\ status' = [status EXCEPT ![d] = "retired"]
    BY <1>4 DEF Retire, TypeOK, Status, Closed
  <2>3. Rooted'
    BY <2>2 DEF SerialInv, Rooted, TypeOK
  <2>4. SupersededLinked'
    BY <2>2, DecisionAssumption DEF SerialInv, SupersededLinked, TypeOK, Status, Open, Closed
  <2> QED
    BY <2>1, <2>3, <2>4 DEF SerialInv
<1>5. ASSUME NEW d \in Decision, Restore(c, d) PROVE SerialInv'
  <2>1. Found(c)'
    BY <1>5, EndFound DEF Restore
  <2>2. /\ status[d] = "retired" /\ before[d] \in Open \cup {"superseded"} /\ UNCHANGED <<by, history>>
        /\ before' = [before EXCEPT ![d] = None] /\ status' = [status EXCEPT ![d] = before[d]]
    BY <1>5 DEF Restore, Restored, TypeOK
  <2>3. Rooted'
    BY <2>2 DEF SerialInv, Rooted, TypeOK, Open
  <2>4. SupersededLinked'
    BY <2>2, DecisionAssumption DEF SerialInv, SupersededLinked, TypeOK, Status, Open, Closed
  <2> QED
    BY <2>1, <2>3, <2>4 DEF SerialInv
<1>6. CASE BeginScan(c)
  <2> DEFINE stale == {d \in Decision : status[d] = "confirmed" /\ (Drifted(d) # {} \/ d \in overdue)}
             r == [Idle EXCEPT !.pc = "scan", !.marks = stale]
  <2>1. Do(c, r) /\ UNCHANGED <<status, before, by, history>>
    BY <1>6 DEF BeginScan
  <2>2. \A d \in stale : d \in Decision /\ status[d] = "confirmed"
    OBVIOUS
  <2> HIDE DEF stale
  <2>3. r.pc = "scan" /\ r.marks = stale
    BY DEF Idle
  <2> HIDE DEF r
  <2>4. call'[c].pc = "scan" /\ call'[c].marks = stale
    BY <2>1, <2>3 DEF Do, CallOK
  <2>5. Found(c)'
    BY <2>1, <2>2, <2>4 DEF Found
  <2> QED
    BY <2>1, <2>5, SameRows
<1>7. CASE CommitScan(c)
  <2>1. Found(c)'
    BY <1>7, EndFound DEF CommitScan
  <2>2. /\ UNCHANGED <<before, by, history>>
        /\ \A d \in Decision : status'[d] = status[d] \/ (status[d] = "confirmed" /\ status'[d] = "needs_recheck")
    BY <1>7 DEF CommitScan, SerialInv, Found
  <2>3. Rooted'
    BY <2>2 DEF SerialInv, Rooted
  <2>4. SupersededLinked'
    BY <2>2 DEF SerialInv, SupersededLinked
  <2> QED
    BY <2>1, <2>3, <2>4 DEF SerialInv
<1> QED
  BY <1>1, <1>2, <1>3, <1>4, <1>5, <1>6, <1>7 DEF LifecycleStep

\* The mirror and a request that dies.
LEMMA MirrorSerial ==
  ASSUME TypeInv, SerialInv, NEW c \in Call, \A k \in Call : k = c, MirrorStep(c) \/ Crash(c)
  PROVE  SerialInv'
<1> USE DEF TypeInv, rowVars, envVars, evVars
<1>1. CASE MirrorRead(c)
  <2>1. CASE Finish(c)
    BY <1>1, <2>1, EndFound, SameRows DEF MirrorRead
  <2>2. ASSUME NEW d \in call[c].todo, Do(c, [call[c] EXCEPT !.todo = @ \ {d}]) PROVE SerialInv'
    <3>1. [call[c] EXCEPT !.todo = @ \ {d}].pc = "mirror"
      BY <1>1 DEF MirrorRead, CallOK
    <3>2. Found(c)'
      BY <2>2, <3>1, NothingFound DEF Synchronising
    <3> QED
      BY <1>1, <3>2, SameRows DEF MirrorRead
  <2>3. ASSUME NEW d \in call[c].todo,
               Do(c, [call[c] EXCEPT !.pc = "upsert", !.todo = @ \ {d}, !.d = d,
                        !.draft = [status |-> status[d], verdict |-> current[d]]])
        PROVE  SerialInv'
    <3>1. [call[c] EXCEPT !.pc = "upsert", !.todo = @ \ {d}, !.d = d,
                        !.draft = [status |-> status[d], verdict |-> current[d]]].pc = "upsert"
      BY DEF CallOK
    <3>2. Found(c)'
      BY <2>3, <3>1, NothingFound DEF Synchronising
    <3> QED
      BY <1>1, <3>2, SameRows DEF MirrorRead
  <2> QED
    BY <1>1, <2>1, <2>2, <2>3 DEF MirrorRead
<1>2. CASE MirrorUpsert(c)
  <2>1. [call[c] EXCEPT !.pc = "flag"].pc = "flag"
    BY DEF CallOK
  <2>2. Found(c)'
    BY <1>2, <2>1, NothingFound DEF MirrorUpsert, Synchronising
  <2> QED
    BY <1>2, <2>2, SameRows DEF MirrorUpsert
<1>3. CASE MirrorFlag(c)
  BY <1>3, EndFound, SameRows DEF MirrorFlag
<1>4. CASE Crash(c)
  BY <1>4, EndFound, SameRows DEF Crash
<1> QED
  BY <1>1, <1>2, <1>3, <1>4 DEF MirrorStep

\* Every step keeps the invariant while one request is in progress at a time.
LEMMA StepSerial ==
  ASSUME TypeInv, SerialInv, \A c, k \in Call : k = c, [Next]_vars PROVE SerialInv'
<1>1. ASSUME NEW c \in Call, EvidenceStep(c) \/ VerdictStep(c) \/ LifecycleStep(c) \/ MirrorStep(c) \/ Crash(c)
      PROVE  SerialInv'
  BY <1>1, EvidenceSerial, VerdictSerial, LifecycleSerial, MirrorSerial
<1>2. ASSUME UNCHANGED <<status, before, by, history, call>> PROVE SerialInv'
  <2>1. \A c \in Call : Found(c)'
    BY <1>2, StillFound DEF TypeInv, CallOK
  <2> QED
    BY <1>2, <2>1 DEF SerialInv, Rooted, SupersededLinked
<1>3. CASE Surroundings \/ UNCHANGED vars
  BY <1>2, <1>3 DEF Surroundings, ExpireNonce, IssueNonce, EditDoc, Elapse, vars, rowVars, evVars, envVars
<1> QED
  BY <1>1, <1>3 DEF Next, Surroundings

\* The invariant holds initially.
LEMMA InitSerial == Init => SerialInv
<1> SUFFICES ASSUME Init PROVE SerialInv
  OBVIOUS
<1>1. \A c \in Call : call[c].pc = "idle"
  BY IdlePc DEF Init
<1>2. Rooted
  BY DecisionAssumption DEF Init, Rooted
<1>3. SupersededLinked
  BY DecisionAssumption DEF Init, SupersededLinked, Status, Closed
<1> QED
  BY <1>1, <1>2, <1>3 DEF SerialInv, Found

\* With one request at a time, a decision is linked to a successor exactly while
\* it is superseded, or retired from there.  (With two, a scan that read the
\* status before undoes it, and so does the roll-back of the successor's proposal.)
THEOREM LinkedOneAtATime ==
  ASSUME \A c, k \in Call : k = c
  PROVE  Spec => []SupersededLinked
<1>2. TypeInv /\ SerialInv /\ [Next]_vars => SerialInv'
  BY StepSerial
<1>3. SerialInv => SupersededLinked
  BY DEF SerialInv
<1> QED
  BY <1>2, <1>3, InitSerial, InitTypes, StepTypes, PTL DEF Spec

-----------------------------------------------------------------------------
(* The mirror, one request at a time. *)

\* The search mirror shows a decision as it is.
Shown(d) == current[d] # 0 => mirror[d] = [status |-> DocStatus(status[d]), verdict |-> current[d]]
MirrorRow == [status : {"active", "superseded", "archived"}, verdict : Nat]

\* What a request has still to synchronise is all that may be shown wrongly.
Behind(c) ==
  /\ {"pc", "d", "todo", "draft"} \subseteq DOMAIN call[c]
  /\ call[c].pc \in Synchronising => call[c].todo \subseteq Decision
  /\ call[c].pc = "mirror" => \A e \in Decision \ call[c].todo : Shown(e)
  /\ call[c].pc \in {"upsert", "flag"} =>
       /\ call[c].d \in Decision
       /\ call[c].draft = [status |-> status[call[c].d], verdict |-> current[call[c].d]]
       /\ \A e \in Decision \ (call[c].todo \cup {call[c].d}) : Shown(e)
  /\ call[c].pc = "flag" =>
       mirror[call[c].d] \in MirrorRow /\ mirror[call[c].d].verdict = call[c].draft.verdict
MirrorInv ==
  /\ mirror \in [Decision -> MirrorRow \cup {None}]
  /\ budget \in [Event -> Nat] /\ budget["crash"] = 0
  /\ \A c \in Call : Behind(c)
  /\ (\A c \in Call : call[c].pc \notin Synchronising) => \A d \in Decision : Shown(d)

\* A step that leaves the rows of the mirror, the verdicts and the budget of deaths
\* alone keeps the invariant if the only request in progress is behind with what
\* the step made different.
LEMMA MirrorKept ==
  ASSUME MirrorInv, NEW c \in Call, \A k \in Call : k = c, UNCHANGED <<mirror, budget>>,
         Behind(c)', call'[c].pc \notin Synchronising => \A d \in Decision : Shown(d)'
  PROVE  MirrorInv'
BY DEF MirrorInv

\* A request that begins to synchronise is behind with its own decisions only.
LEMMA MirrorBegins ==
  ASSUME CallOK, NEW c \in Call, \A k \in Call : k = c, MirrorInv, UNCHANGED <<mirror, budget>>,
         call[c].pc \notin Synchronising,
         NEW q \in SUBSET Decision, Mirroring(c, q),
         \A d \in Decision \ q : status'[d] = status[d] /\ current'[d] = current[d]
  PROVE  MirrorInv'
<1>1. /\ call'[c].pc = "mirror" /\ call'[c].todo = q /\ {"pc", "d", "todo", "draft"} \subseteq DOMAIN call'[c]
  BY DEF Mirroring, Do, CallOK, Idle
<1>2. \A d \in Decision : Shown(d)
  BY DEF MirrorInv
<1>3. \A d \in Decision \ q : Shown(d)'
  BY <1>2 DEF Shown
<1>4. Behind(c)' /\ call'[c].pc \in Synchronising
  BY <1>1, <1>3 DEF Behind, Synchronising
<1> QED
  BY <1>4, MirrorKept

\* A request that is not synchronising, before and after a step that changes no
\* verdict that is shown, is not behind.
LEMMA MirrorRests ==
  ASSUME CallOK, NEW c \in Call, \A k \in Call : k = c, MirrorInv, UNCHANGED <<mirror, budget>>,
         call[c].pc \notin Synchronising, NEW r, Do(c, r), r.pc \notin Synchronising,
         {"pc", "d", "todo", "draft"} \subseteq DOMAIN r,
         \A d \in Decision : current'[d] = current[d] /\ (current[d] # 0 => status'[d] = status[d])
  PROVE  MirrorInv'
<1>1. call'[c] = r
  BY DEF Do, CallOK
<1>2. \A d \in Decision : Shown(d)
  BY DEF MirrorInv
<1>3. \A d \in Decision : Shown(d)'
  BY <1>2 DEF Shown
<1>4. Behind(c)'
  BY <1>1 DEF Behind, Synchronising
<1> QED
  BY <1>3, <1>4, MirrorKept

\* The fields of a request that begins or ends.
LEMMA IdleFields ==
  /\ Idle.pc \notin Synchronising /\ {"pc", "d", "todo", "draft"} \subseteq DOMAIN Idle
BY DEF Idle, Synchronising

\* Ending without a change is such a step.
LEMMA MirrorEnds ==
  ASSUME CallOK, NEW c \in Call, \A k \in Call : k = c, MirrorInv, UNCHANGED <<mirror, budget, current>>,
         call[c].pc \notin Synchronising, Finish(c),
         \A d \in Decision : current[d] # 0 => status'[d] = status[d]
  PROVE  MirrorInv'
BY MirrorRests, IdleFields DEF Finish

\* A decision without a row has no current verdict.
LEMMA NoRowNoVerdict ==
  ASSUME TypeInv, NEW d \in Decision, history[d] = <<>> PROVE current[d] = 0
<1>1. current[d] \in Nat /\ current[d] <= Len(history[d])
  BY DEF TypeInv, TypeOK
<1>2. Len(history[d]) = 0
  OBVIOUS
<1> QED
  BY <1>1, <1>2

\* Evidence.
LEMMA EvidenceMirror ==
  ASSUME TypeInv, SerialInv, MirrorInv, NEW c \in Call, \A k \in Call : k = c, EvidenceStep(c)
  PROVE  MirrorInv'
<1> USE DEF TypeInv, rowVars, envVars, evVars
<1>1. ASSUME NEW d \in Decision, NEW x \in Doc \cup Web, Propose(c, d, x) PROVE MirrorInv'
  <2> DEFINE r == [Idle EXCEPT !.pc = "evidence", !.d = d, !.pin = Pin(x), !.fresh = TRUE]
  <2>1. /\ call[c] = Idle /\ status[d] = "absent" /\ status' = [status EXCEPT ![d] = "proposed"]
        /\ Do(c, r) /\ UNCHANGED <<current, mirror, budget>>
    BY <1>1 DEF Propose
  <2>2. r.pc \notin Synchronising /\ {"pc", "d", "todo", "draft"} \subseteq DOMAIN r
    BY DEF Idle, Synchronising
  <2>3. current[d] = 0
    BY <2>1, NoRowNoVerdict DEF SerialInv, Rooted
  <2> HIDE DEF r
  <2> QED
    BY <2>1, <2>2, <2>3, IdleFields, MirrorRests DEF TypeOK
<1>2. ASSUME NEW d \in Decision, NEW x \in Doc \cup Web, BeginEvidence(c, d, x) PROVE MirrorInv'
  <2> DEFINE r == [Idle EXCEPT !.pc = "evidence", !.d = d, !.pin = Pin(x)]
  <2>1. call[c] = Idle /\ Do(c, r) /\ UNCHANGED <<status, current, mirror, budget>>
    BY <1>2 DEF BeginEvidence
  <2>2. r.pc \notin Synchronising /\ {"pc", "d", "todo", "draft"} \subseteq DOMAIN r
    BY DEF Idle, Synchronising
  <2> HIDE DEF r
  <2> QED
    BY <2>1, <2>2, IdleFields, MirrorRests
<1>3. CASE CommitEvidence(c)
  BY <1>3, MirrorEnds DEF CommitEvidence, Synchronising
<1>4. CASE RejectEvidence(c)
  <2>1. /\ call[c].pc \notin Synchronising /\ Finish(c) /\ UNCHANGED <<current, mirror, budget>>
        /\ status' = status \/ (status' = [status EXCEPT ![call[c].d] = "absent"] /\ history[call[c].d] = <<>>)
    BY <1>4 DEF RejectEvidence, Deletable, Synchronising
  <2>2. \A d \in Decision : current[d] # 0 => status'[d] = status[d]
    BY <2>1, NoRowNoVerdict DEF TypeOK
  <2> QED
    BY <2>1, <2>2, MirrorEnds
<1>5. ASSUME NEW d \in Decision, NEW e \in live[d], Retract(c, d, e) PROVE MirrorInv'
  BY <1>5 DEF Retract, MirrorInv, Behind, Shown
<1> QED
  BY <1>1, <1>2, <1>3, <1>4, <1>5 DEF EvidenceStep

\* Verdicts.
LEMMA VerdictMirror ==
  ASSUME TypeInv, SerialInv, MirrorInv, NEW c \in Call, \A k \in Call : k = c, VerdictStep(c)
  PROVE  MirrorInv'
<1> USE DEF TypeInv, rowVars, envVars, evVars
<1>1. ASSUME NEW d \in Decision, NEW opt \in {"pick", "NEI"}, NEW keep \in BOOLEAN, NEW n \in Nonce,
             BeginVerdict(c, d, opt, keep, n)
      PROVE  MirrorInv'
  <2> DEFINE old == IF keep THEN Drifted(d) ELSE {}
             add == {Pin(e[1]) : e \in old}
             evs == (live[d] \ old) \cup add
             r == [Idle EXCEPT !.pc = "verdict", !.d = d, !.opt = opt, !.nonce = n, !.evs = evs,
                               !.old = old, !.add = add, !.prev = current[d]]
  <2>1. call[c] = Idle /\ Do(c, r) /\ UNCHANGED <<status, current, mirror, budget>>
    BY <1>1 DEF BeginVerdict
  <2> HIDE DEF old, add, evs
  <2>2. r.pc \notin Synchronising /\ {"pc", "d", "todo", "draft"} \subseteq DOMAIN r
    BY DEF Idle, Synchronising
  <2> HIDE DEF r
  <2> QED
    BY <2>1, <2>2, IdleFields, MirrorRests
<1>2. CASE VerdictFails(c)
  BY <1>2, MirrorEnds DEF VerdictFails, Synchronising
<1>3. CASE CommitVerdict(c)
  <2>1. call[c].pc \notin Synchronising /\ call[c].d \in Decision /\ UNCHANGED <<mirror, budget>>
    BY <1>3 DEF CommitVerdict, CallOK, Synchronising
  <2>2. CASE call[c].opt = "pick"
    <3>1. /\ Mirroring(c, {call[c].d}) /\ status' = [status EXCEPT ![call[c].d] = "confirmed"]
          /\ current' = [current EXCEPT ![call[c].d] = Len(history[call[c].d]) + 1]
      BY <1>3, <2>2 DEF CommitVerdict
    <3> QED
      BY <2>1, <3>1, MirrorBegins DEF TypeOK
  <2>3. CASE call[c].opt # "pick"
    BY <1>3, <2>1, <2>3, MirrorEnds DEF CommitVerdict
  <2> QED
    BY <2>2, <2>3
<1> QED
  BY <1>1, <1>2, <1>3 DEF VerdictStep

\* The lifecycle: what a step changes is what it synchronises.
LEMMA LifecycleMirror ==
  ASSUME TypeInv, SerialInv, MirrorInv, NEW c \in Call, \A k \in Call : k = c, LifecycleStep(c)
  PROVE  MirrorInv'
<1> USE DEF TypeInv, rowVars, envVars, evVars
<1>1. ASSUME NEW old \in Decision, NEW new \in Decision, BeginSupersede(c, old, new) PROVE MirrorInv'
  <2> DEFINE r == [Idle EXCEPT !.pc = "supersede", !.d = old, !.new = new]
  <2>1. call[c] = Idle /\ Do(c, r) /\ UNCHANGED <<status, current, mirror, budget>>
    BY <1>1 DEF BeginSupersede
  <2>2. r.pc \notin Synchronising /\ {"pc", "d", "todo", "draft"} \subseteq DOMAIN r
    BY DEF Idle, Synchronising
  <2> HIDE DEF r
  <2> QED
    BY <2>1, <2>2, IdleFields, MirrorRests
<1>2. CASE CommitSupersede(c)
  <2>1. /\ call[c].pc \notin Synchronising /\ call[c].d \in Decision /\ call[c].new \in Decision
        /\ Mirroring(c, {call[c].d, call[c].new}) /\ UNCHANGED <<current, mirror, budget>>
        /\ status' = [status EXCEPT ![call[c].d] = "superseded"]
    BY <1>2 DEF CommitSupersede, SupersedeSync, CallOK, Synchronising
  <2> QED
    BY <2>1, MirrorBegins DEF TypeOK
<1>3. CASE SupersedeFails(c)
  BY <1>3, MirrorEnds DEF SupersedeFails, Synchronising
<1>4. ASSUME NEW d \in Decision, Retire(c, d) \/ Restore(c, d) PROVE MirrorInv'
  <2>1. /\ call[c] = Idle /\ Mirroring(c, {d}) /\ UNCHANGED <<current, mirror, budget>>
        /\ \A e \in Decision \ {d} : status'[e] = status[e]
    BY <1>4 DEF Retire, Restore, TypeOK
  <2> QED
    BY <2>1, IdleFields, MirrorBegins
<1>5. CASE BeginScan(c)
  <2> DEFINE stale == {d \in Decision : status[d] = "confirmed" /\ (Drifted(d) # {} \/ d \in overdue)}
             r == [Idle EXCEPT !.pc = "scan", !.marks = stale]
  <2>1. call[c] = Idle /\ Do(c, r) /\ Tick("scan") /\ UNCHANGED <<status, current, mirror>>
    BY <1>5 DEF BeginScan
  <2> HIDE DEF stale
  <2>2. /\ {"pc", "d", "todo", "draft"} \subseteq DOMAIN r /\ r.pc \notin Synchronising
    BY DEF Idle, Synchronising
  <2> HIDE DEF r
  <2>3. call'[c] = r
    BY <2>1 DEF Do, CallOK
  <2>4. \A d \in Decision : Shown(d)'
    BY <2>1, IdleFields DEF MirrorInv, Shown
  <2>5. Behind(c)'
    BY <2>2, <2>3 DEF Behind, Synchronising
  <2>6. budget' \in [Event -> Nat] /\ budget'["crash"] = 0
    BY <2>1 DEF Tick, MirrorInv, Event
  <2> QED
    BY <2>1, <2>4, <2>5, <2>6 DEF MirrorInv
<1>6. CASE CommitScan(c)
  <2>1. /\ call[c].pc \notin Synchronising /\ call[c].marks \in SUBSET Decision
        /\ Mirroring(c, call[c].marks) /\ UNCHANGED <<current, mirror, budget>>
        /\ \A d \in Decision \ call[c].marks : status'[d] = status[d]
    BY <1>6 DEF CommitScan, Synchronising, SerialInv, Found
  <2> QED
    BY <2>1, MirrorBegins
<1> QED
  BY <1>1, <1>2, <1>3, <1>4, <1>5, <1>6 DEF LifecycleStep

\* The transactions of the mirror, and the deaths that do not happen.
LEMMA MirrorMirror ==
  ASSUME TypeInv, SerialInv, MirrorInv, NEW c \in Call, \A k \in Call : k = c, MirrorStep(c) \/ Crash(c)
  PROVE  MirrorInv'
<1> USE DEF TypeInv, rowVars, envVars, evVars
<1>0. Behind(c) /\ mirror \in [Decision -> MirrorRow \cup {None}]
  BY DEF MirrorInv
<1>1. CASE MirrorRead(c)
  <2>0. /\ call[c].pc = "mirror" /\ UNCHANGED <<status, current, mirror, budget>>
        /\ call[c].todo \subseteq Decision /\ \A e \in Decision \ call[c].todo : Shown(e)
        /\ {"pc", "d", "todo", "draft"} \subseteq DOMAIN call[c]
    BY <1>0, <1>1 DEF MirrorRead, Behind, Synchronising
  <2>1. CASE call[c].todo = {}
    <3>1. Finish(c)
      BY <1>1, <2>1 DEF MirrorRead
    <3>2. call'[c] = Idle
      BY <3>1 DEF Finish, Do, CallOK
    <3>3. \A d \in Decision : Shown(d)'
      BY <2>0, <2>1 DEF Shown
    <3>4. Behind(c)'
      BY <3>2, IdleFields DEF Behind, Synchronising
    <3> QED
      BY <2>0, <3>3, <3>4, MirrorKept
  <2>2. ASSUME NEW d \in call[c].todo, current[d] = 0, Do(c, [call[c] EXCEPT !.todo = @ \ {d}])
        PROVE  MirrorInv'
    <3> DEFINE r == [call[c] EXCEPT !.todo = @ \ {d}]
    <3>1. /\ r.pc = "mirror" /\ r.todo = call[c].todo \ {d}
          /\ {"pc", "d", "todo", "draft"} \subseteq DOMAIN r
      BY <2>0
    <3>2. call'[c] = r
      BY <2>2 DEF Do, CallOK
    <3> HIDE DEF r
    <3>3. \A e \in Decision \ r.todo : Shown(e)'
      BY <2>0, <2>2, <3>1 DEF Shown
    <3>4. Behind(c)' /\ call'[c].pc \in Synchronising
      BY <2>0, <3>1, <3>2, <3>3 DEF Behind, Synchronising
    <3> QED
      BY <2>0, <3>4, MirrorKept
  <2>3. ASSUME NEW d \in call[c].todo,
               Do(c, [call[c] EXCEPT !.pc = "upsert", !.todo = @ \ {d}, !.d = d,
                        !.draft = [status |-> status[d], verdict |-> current[d]]])
        PROVE  MirrorInv'
    <3> DEFINE r == [call[c] EXCEPT !.pc = "upsert", !.todo = @ \ {d}, !.d = d,
                        !.draft = [status |-> status[d], verdict |-> current[d]]]
    <3>1. /\ r.pc = "upsert" /\ r.todo = call[c].todo \ {d} /\ r.d = d
          /\ r.draft = [status |-> status[d], verdict |-> current[d]]
          /\ {"pc", "d", "todo", "draft"} \subseteq DOMAIN r
      BY <2>0
    <3>2. call'[c] = r
      BY <2>3 DEF Do, CallOK
    <3> HIDE DEF r
    <3>3. \A e \in Decision \ (r.todo \cup {d}) : Shown(e)'
      BY <2>0, <2>3, <3>1 DEF Shown
    <3>4. Behind(c)' /\ call'[c].pc \in Synchronising
      BY <2>0, <2>3, <3>1, <3>2, <3>3 DEF Behind, Synchronising
    <3> QED
      BY <2>0, <3>4, MirrorKept
  <2> QED
    BY <1>1, <2>1, <2>2, <2>3 DEF MirrorRead
<1> DEFINE d == call[c].d
<1>2. CASE MirrorUpsert(c)
  <2>1. /\ call[c].pc = "upsert" /\ d \in Decision /\ call[c].todo \subseteq Decision
        /\ call[c].draft = [status |-> status[d], verdict |-> current[d]]
        /\ \A e \in Decision \ (call[c].todo \cup {d}) : Shown(e)
        /\ {"pc", "d", "todo", "draft"} \subseteq DOMAIN call[c]
        /\ UNCHANGED <<status, current, budget>>
    BY <1>0, <1>2 DEF MirrorUpsert, Behind, Synchronising
  <2>2. /\ call[c].draft.verdict = current[d] /\ current[d] \in Nat
    BY <2>1, SMTT(30) DEF TypeOK
  <2>3. /\ mirror' \in [Decision -> MirrorRow \cup {None}]
        /\ mirror'[d] \in MirrorRow /\ mirror'[d].verdict = current[d]
        /\ \A e \in Decision \ {d} : mirror'[e] = mirror[e]
    <3>1. CASE mirror' = mirror /\ mirror[d] # None /\ mirror[d].verdict = current[d]
      BY <1>0, <2>1, <3>1
    <3>2. CASE mirror' = [mirror EXCEPT ![d] = [status |-> "active", verdict |-> current[d]]]
      BY <1>0, <2>1, <2>2, <3>2 DEF MirrorRow
    <3> QED
      BY <1>2, <2>2, <3>1, <3>2 DEF MirrorUpsert
  <2> DEFINE r == [call[c] EXCEPT !.pc = "flag"]
  <2>4. /\ r.pc = "flag" /\ r.todo = call[c].todo /\ r.d = d /\ r.draft = call[c].draft
        /\ {"pc", "d", "todo", "draft"} \subseteq DOMAIN r
    BY <2>1
  <2>5. call'[c] = r
    BY <1>2 DEF MirrorUpsert, Do, CallOK
  <2> HIDE DEF r, d
  <2>6. \A e \in Decision \ (r.todo \cup {d}) : Shown(e)'
    BY <2>1, <2>3, <2>4 DEF Shown
  <2>7. Behind(c)' /\ call'[c].pc \in Synchronising
    BY <2>1, <2>2, <2>3, <2>4, <2>5, <2>6 DEF Behind, Synchronising
  <2> QED
    BY <2>1, <2>3, <2>7 DEF MirrorInv
<1>3. CASE MirrorFlag(c)
  <2>1. /\ call[c].pc = "flag" /\ d \in Decision /\ call[c].todo \subseteq Decision
        /\ call[c].draft = [status |-> status[d], verdict |-> current[d]]
        /\ mirror[d] \in MirrorRow /\ mirror[d].verdict = call[c].draft.verdict
        /\ \A e \in Decision \ (call[c].todo \cup {d}) : Shown(e)
        /\ Mirroring(c, call[c].todo) /\ UNCHANGED <<status, current, budget>>
    BY <1>0, <1>3 DEF MirrorFlag, Behind, Synchronising
  <2>2. mirror' = [mirror EXCEPT ![d].status = DocStatus(status[d])]
    BY <1>3, <2>1 DEF MirrorFlag
  <2>3. DocStatus(status[d]) \in {"active", "superseded", "archived"}
    BY DEF DocStatus
  <2> HIDE DEF d
  <2>4. mirror'[d] = [mirror[d] EXCEPT !.status = DocStatus(status[d])]
    BY <1>0, <2>1, <2>2
  <2>5. mirror'[d] = [status |-> DocStatus(status[d]), verdict |-> current[d]]
    BY <2>1, <2>4 DEF MirrorRow
  <2>6. \A e \in Decision \ {d} : mirror'[e] = mirror[e]
    BY <1>0, <2>2
  <2>7. mirror'[d] \in MirrorRow
    BY <2>1, <2>3, <2>5 DEF MirrorRow, TypeOK
  <2>8. mirror' \in [Decision -> MirrorRow \cup {None}]
    BY <1>0, <2>1, <2>2, <2>7
  <2>9. /\ call'[c].pc = "mirror" /\ call'[c].todo = call[c].todo
        /\ {"pc", "d", "todo", "draft"} \subseteq DOMAIN call'[c]
    BY <2>1 DEF Mirroring, Do, CallOK, Idle
  <2>10. \A e \in Decision \ call[c].todo : Shown(e)'
    BY <2>1, <2>5, <2>6 DEF Shown
  <2>11. Behind(c)' /\ call'[c].pc \in Synchronising
    BY <2>1, <2>9, <2>10 DEF Behind, Synchronising
  <2> QED
    BY <2>1, <2>8, <2>11 DEF MirrorInv
<1>4. ~Crash(c)
  BY DEF Crash, Tick, MirrorInv
<1> QED
  BY <1>1, <1>2, <1>3, <1>4 DEF MirrorStep

\* Every step keeps the invariant.
LEMMA StepMirror ==
  ASSUME TypeInv, SerialInv, MirrorInv, \A c, k \in Call : k = c, [Next]_vars PROVE MirrorInv'
<1>1. ASSUME NEW c \in Call, EvidenceStep(c) \/ VerdictStep(c) \/ LifecycleStep(c) \/ MirrorStep(c) \/ Crash(c)
      PROVE  MirrorInv'
  BY <1>1, EvidenceMirror, VerdictMirror, LifecycleMirror, MirrorMirror
<1>2. ASSUME UNCHANGED <<status, current, mirror, call>>,
             budget' \in [Event -> Nat] /\ budget'["crash"] = 0
      PROVE  MirrorInv'
  BY <1>2 DEF MirrorInv, Behind, Shown
<1>3. CASE Surroundings \/ UNCHANGED vars
  <2>1. budget' = budget \/ Tick("edit") \/ Tick("overdue")
    BY <1>3 DEF Surroundings, ExpireNonce, IssueNonce, EditDoc, Elapse, vars
  <2>2. budget' \in [Event -> Nat] /\ budget'["crash"] = 0
    BY <2>1 DEF Tick, MirrorInv, Event
  <2> QED
    BY <1>2, <1>3, <2>2 DEF Surroundings, ExpireNonce, IssueNonce, EditDoc, Elapse, vars, rowVars, evVars, envVars
<1> QED
  BY <1>1, <1>3 DEF Next, Surroundings

\* With one request at a time, none of which dies, the search mirror shows every
\* decision as it is whenever none is in progress: each step synchronises what it
\* changes.
THEOREM MirrorOneAtATime ==
  ASSUME \A c, k \in Call : k = c, Budget["crash"] = 0
  PROVE  Spec => []MirrorAgrees
<1>1. Init => MirrorInv
  <2> SUFFICES ASSUME Init PROVE MirrorInv
    OBVIOUS
  <2>1. \A c \in Call : call[c] = Idle
    BY DEF Init
  <2>2. \A c \in Call : Behind(c)
    BY <2>1, IdleFields DEF Behind, Synchronising
  <2> QED
    BY <2>2, DecisionAssumption DEF Init, MirrorInv, Shown
<1>2. TypeInv /\ SerialInv /\ MirrorInv /\ [Next]_vars => MirrorInv'
  BY StepMirror
<1>3. TypeInv /\ SerialInv /\ [Next]_vars => SerialInv'
  BY StepSerial
<1>4. MirrorInv => MirrorAgrees
  BY IdleFields DEF MirrorInv, MirrorAgrees, Shown
<1> QED
  BY <1>1, <1>2, <1>3, <1>4, InitSerial, InitTypes, StepTypes, PTL DEF Spec
=============================================================================
