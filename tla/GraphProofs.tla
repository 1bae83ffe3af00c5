---------------------------- MODULE GraphProofs ----------------------------
(***************************************************************************)
(* What the graph batch promises, for any number of runs, documents,         *)
(* buckets, edits and faults: what is skipped is in the graph, what is       *)
(* `completed' leaves nothing older behind, and the rows of the runs say     *)
(* who works.  The two stores share no transaction, so the invariant says    *)
(* what a run between its merge and its mark has done already, and for a     *)
(* run that still holds the lock what it has left to do.                     *)
(***************************************************************************)
EXTENDS GraphSync, TLAPS

-----------------------------------------------------------------------------
(* The invariant. *)

Early == {"idle", "listed", "locked", "cleared", "starting"}
Working == {"docs", "check", "merge", "mark", "buckets", "bmerge", "finish"}
InDoc == {"check", "merge", "mark"}

\* What an invocation has in hand is on its lists, and the lists are worked off in order.
RunOK(k) ==
  /\ k.pc \in InDoc => k.cur \in k.todo /\ k.hash # Absent
  /\ k.pc = "bmerge" => k.cur \in k.btodo /\ k.hash # Absent
  /\ k.pc \in {"buckets", "bmerge", "finish", "release"} => k.todo = {}
  /\ k.pc \in {"finish", "release"} => k.btodo = {}
  /\ k.pc \notin {"idle", "listed", "locked", "cleared"} => k.gen # 0
RunsOK == \A r \in Runs : RunOK(run[r])
\* An invocation that merged without the lock is known.
LockOK == \A r \in Runs :
  /\ Holds(r) => run[r].pc \notin {"idle", "listed"}
  /\ At(r, "mark") /\ ~Holds(r) => run[r].cur \in stray
\* The row of an invocation that holds the lock says so from its row to its verdict.
RowsOK == \A r \in Runs :
  /\ rows[r].open => Holds(r)
  /\ At(r, "release") => ~rows[r].open /\ rows[r].status \in {"completed", "completed_warn"} /\ (rows[r].status = "completed" => run[r].ok)
  /\ run[r].pc \in Working => latest \in Runs
  /\ Holds(r) /\ run[r].pc \in Working => rows[r].status = "running" /\ rows[r].scope = run[r].scope /\ rows[r].open
\* A mark of a generation that is still there is true, whether or not the document has
\* changed, unless its writer is between merge and mark.
Untouched(i) == i \notin torn /\ i \notin stray
Synced == \A d \in Docs :
  mark[d].gen # 0 /\ ~mark[d].error /\ mark[d].gen \notin lost /\ Untouched(d) =>
    (node[d] = mark[d].hash \/ \E r \in Runs : At(r, "mark") /\ run[r].cur = d)
Merged == \A r \in Runs :
  At(r, "mark") /\ Holds(r) /\ run[r].cur \notin stray /\ run[r].gen \notin lost => node[run[r].cur] = run[r].hash
\* What a listed item holds, and what was read of it, it held since the listing.
SinceOK(r) == \A i \in Items : since[r][i] # {} =>
  /\ doc[i] \in since[r][i]
  /\ run[r].pc \in Early => i \in run[r].todo \union run[r].btodo
  /\ run[r].pc \in InDoc \union {"bmerge"} /\ run[r].cur = i => run[r].hash \in since[r][i]
\* What an invocation without errors has dealt with is fresh while it holds the lock.
DealtOK(r) == Holds(r) /\ run[r].pc \notin Early /\ run[r].ok /\ run[r].gen \notin lost =>
  \A i \in Items : since[r][i] # {} /\ i \notin run[r].todo \union run[r].btodo /\ Untouched(i) => node[i] \in since[r][i]
DealtWith == \A r \in Runs : SinceOK(r) /\ DealtOK(r)
GraphInv == TypeOK /\ RunsOK /\ LockOK /\ RowsOK /\ Synced /\ Merged /\ DealtWith

-----------------------------------------------------------------------------
(* Types, and what an invocation has in hand. *)

\* A step of one invocation leaves the others where they are.
LEMMA Moved ==
  ASSUME run \in [Runs -> RunState], RunsOK, NEW r \in Runs, NEW k \in RunState, RunOK(k), run' = [run EXCEPT ![r] = k]
  PROVE  run' \in [Runs -> RunState] /\ RunsOK' /\ run'[r] = k /\ \A q \in Runs \ {r} : run'[q] = run[q]
BY DEF RunsOK

LEMMA RunTyped ==
  ASSUME TypeOK, RunsOK, NEW r \in Runs
  PROVE  /\ run[r] \in RunState /\ RunOK(run[r]) /\ run \in [Runs -> RunState]
         /\ run[r].pc \in Pcs /\ run[r].scope \in Scope /\ run[r].todo \in SUBSET Docs /\ run[r].btodo \in SUBSET Buckets
         /\ run[r].cur \in Items \union {Absent} /\ run[r].hash \in Contents \union {Absent}
         /\ run[r].gen \in Nat /\ run[r].ok \in BOOLEAN
BY DEF TypeOK, RunsOK, RunState

LEMMA NextDocTyped ==
  ASSUME TypeOK, RunsOK, NEW r \in Runs, run[r].pc \in InDoc, NEW ok \in BOOLEAN, NextDoc(r, ok)
  PROVE  /\ run' \in [Runs -> RunState] /\ RunsOK' /\ \A q \in Runs \ {r} : run'[q] = run[q]
         /\ run'[r].pc = "docs" /\ run'[r].todo = run[r].todo \ {run[r].cur} /\ run'[r].btodo = run[r].btodo
         /\ run'[r].scope = run[r].scope /\ run'[r].gen = run[r].gen /\ (run'[r].ok => run[r].ok /\ ok)
<1>0. run[r] \in RunState /\ RunOK(run[r])
  BY RunTyped
<1>1. PICK k : k = [run[r] EXCEPT !.pc = "docs", !.todo = run[r].todo \ {run[r].cur}, !.cur = Absent, !.hash = Absent, !.ok = run[r].ok /\ ok]
  OBVIOUS
<1>2. k \in RunState
  BY <1>0, <1>1 DEF RunState, Pcs
<1>3. /\ k.pc = "docs" /\ k.todo = run[r].todo \ {run[r].cur} /\ k.btodo = run[r].btodo
      /\ k.scope = run[r].scope /\ k.gen = run[r].gen /\ (k.ok => run[r].ok /\ ok)
  BY <1>0, <1>1 DEF RunState
<1>4. RunOK(k)
  BY <1>0, <1>3 DEF RunOK, InDoc
<1>5. run' = [run EXCEPT ![r] = k]
  BY <1>1 DEF NextDoc, TypeOK
<1>6. run' \in [Runs -> RunState] /\ RunsOK' /\ run'[r] = k /\ \A q \in Runs \ {r} : run'[q] = run[q]
  BY <1>2, <1>4, <1>5, Moved DEF TypeOK
<1> QED
  BY <1>3, <1>6

\* A step along the program that changes nothing else of what is in memory.
SameFields(r) ==
  /\ run'[r].scope = run[r].scope /\ run'[r].todo = run[r].todo /\ run'[r].btodo = run[r].btodo /\ run'[r].cur = run[r].cur
  /\ run'[r].hash = run[r].hash /\ run'[r].gen = run[r].gen /\ run'[r].ok = run[r].ok

LEMMA BecomeTyped ==
  ASSUME TypeOK, RunsOK, NEW r \in Runs, NEW pc \in Pcs, Become(r, pc), pc # "bmerge",
         pc \in InDoc => run[r].pc \in InDoc,
         pc \in {"buckets", "finish", "release"} => run[r].todo = {},
         pc \in {"finish", "release"} => run[r].btodo = {},
         pc \notin {"idle", "listed", "locked", "cleared"} => run[r].gen # 0
  PROVE  /\ run' \in [Runs -> RunState] /\ RunsOK' /\ \A q \in Runs \ {r} : run'[q] = run[q]
         /\ run'[r].pc = pc /\ SameFields(r)
<1>0. run[r] \in RunState /\ RunOK(run[r])
  BY RunTyped
<1>1. PICK k : k = [run[r] EXCEPT !.pc = pc]
  OBVIOUS
<1>2. k \in RunState
  BY <1>0, <1>1 DEF RunState
<1>3. /\ k.pc = pc /\ k.scope = run[r].scope /\ k.todo = run[r].todo /\ k.btodo = run[r].btodo /\ k.cur = run[r].cur
      /\ k.hash = run[r].hash /\ k.gen = run[r].gen /\ k.ok = run[r].ok
  BY <1>0, <1>1 DEF RunState
<1>4. RunOK(k)
  BY <1>0, <1>3 DEF RunOK
<1>5. run' = [run EXCEPT ![r] = k]
  BY <1>1 DEF Become, TypeOK
<1>6. run' \in [Runs -> RunState] /\ RunsOK' /\ run'[r] = k /\ \A q \in Runs \ {r} : run'[q] = run[q]
  BY <1>2, <1>4, <1>5, Moved DEF TypeOK
<1> QED
  BY <1>3, <1>6 DEF SameFields

LEMMA ExitTyped ==
  ASSUME TypeOK, RunsOK, NEW r \in Runs, Exit(r)
  PROVE  /\ run' \in [Runs -> RunState] /\ RunsOK' /\ \A q \in Runs \ {r} : run'[q] = run[q]
         /\ since' \in [Runs -> [Items -> SUBSET Contents]]
<1>1. Idle0 \in RunState /\ RunOK(Idle0)
  BY DEF Idle0, RunState, RunOK, Pcs, Scope, InDoc
<1>2. run' = [run EXCEPT ![r] = Idle0]
  BY DEF Exit
<1>3. since' \in [Runs -> [Items -> SUBSET Contents]]
  BY DEF Exit, TypeOK
<1> QED
  BY <1>1, <1>2, <1>3, Moved DEF TypeOK

LEMMA ListTyped ==
  ASSUME GraphAssumption, TypeOK, RunsOK, NEW r \in Runs, List(r)
  PROVE  /\ run' \in [Runs -> RunState] /\ RunsOK' /\ \A q \in Runs \ {r} : run'[q] = run[q]
         /\ run'[r].pc = "listed"
         /\ since' \in [Runs -> [Items -> SUBSET Contents]] /\ \A q \in Runs \ {r} : since'[q] = since[q]
         /\ \A i \in Items : since'[r][i] # {} => doc[i] \in since'[r][i] /\ i \in run'[r].todo \union run'[r].btodo
<1>1. PICK scope \in {"full", "partial"}, given \in 0..GivenGens, chosen \in SUBSET Docs :
       LET todo == IF scope = "full" THEN {d \in Docs : doc[d] # Absent} ELSE chosen IN
       /\ scope = "full" => chosen = {}
       /\ scope = "partial" => chosen # {}
       /\ run' = [run EXCEPT ![r] = [Idle0 EXCEPT !.pc = "listed", !.scope = scope,
                    !.todo = todo, !.btodo = Buckets, !.gen = given]]
       /\ since' = [since EXCEPT ![r] =
            [i \in Items |-> IF i \in todo \union Buckets THEN {doc[i]} \ {Absent} ELSE {}]]
  BY DEF List
<1>2. PICK todo : todo = IF scope = "full" THEN {d \in Docs : doc[d] # Absent} ELSE chosen
  OBVIOUS
<1>3. todo \in SUBSET Docs
  BY <1>2
<1>4. PICK k : k = [Idle0 EXCEPT !.pc = "listed", !.scope = scope, !.todo = todo, !.btodo = Buckets, !.gen = given]
  OBVIOUS
<1>5. k = [pc |-> "listed", scope |-> scope, todo |-> todo, btodo |-> Buckets, cur |-> Absent, hash |-> Absent, gen |-> given, ok |-> TRUE]
  BY <1>4 DEF Idle0
<1>6. given \in Nat
  BY GraphAssumption
<1>7. k \in RunState /\ RunOK(k) /\ k.pc = "listed" /\ k.todo = todo /\ k.btodo = Buckets
  BY <1>3, <1>5, <1>6 DEF RunState, RunOK, InDoc, Scope, Pcs
<1>8. run' = [run EXCEPT ![r] = k]
  BY <1>1, <1>2, <1>4
<1>9. run' \in [Runs -> RunState] /\ RunsOK' /\ run'[r] = k /\ \A q \in Runs \ {r} : run'[q] = run[q]
  BY <1>7, <1>8, Moved DEF TypeOK
<1>10. since' = [since EXCEPT ![r] = [i \in Items |-> IF i \in todo \union Buckets THEN {doc[i]} \ {Absent} ELSE {}]]
  BY <1>1, <1>2
<1>11. since' \in [Runs -> [Items -> SUBSET Contents]]
  BY <1>10 DEF TypeOK
<1>12. \A i \in Items : since'[r][i] # {} => doc[i] \in since'[r][i] /\ i \in run'[r].todo \union run'[r].btodo
  BY <1>7, <1>9, <1>10 DEF TypeOK
<1>13. \A q \in Runs \ {r} : since'[q] = since[q]
  BY <1>10 DEF TypeOK
<1> QED
  BY <1>7, <1>9, <1>11, <1>12, <1>13, SMTT(30)

LEMMA ChooseTyped ==
  ASSUME GraphAssumption, TypeOK, RunsOK, NEW r \in Runs, ChooseGeneration(r)
  PROVE  /\ run' \in [Runs -> RunState] /\ RunsOK' /\ \A q \in Runs \ {r} : run'[q] = run[q]
         /\ run'[r].pc = "starting" /\ run'[r].todo = run[r].todo /\ run'[r].btodo = run[r].btodo
         /\ marker' \in Nat /\ made' \in Nat
<1>0. run[r] \in RunState /\ RunOK(run[r]) /\ run[r].pc = "cleared" /\ run[r].gen \in Nat
  BY RunTyped DEF ChooseGeneration, At
<1>1. marker' \in Nat /\ marker' # 0 /\ made' \in Nat
  BY <1>0, GraphAssumption DEF ChooseGeneration, TypeOK
<1>2. PICK k : k = [run[r] EXCEPT !.pc = "starting", !.gen = marker']
  OBVIOUS
<1>3. k \in RunState
  BY <1>0, <1>1, <1>2 DEF RunState, Pcs
<1>4. k.pc = "starting" /\ k.todo = run[r].todo /\ k.btodo = run[r].btodo /\ k.gen = marker'
  BY <1>0, <1>2 DEF RunState
<1>5. RunOK(k)
  BY <1>1, <1>4 DEF RunOK, InDoc
<1>6. run' = [run EXCEPT ![r] = k]
  BY <1>2 DEF ChooseGeneration, TypeOK
<1>7. run' \in [Runs -> RunState] /\ RunsOK' /\ run'[r] = k /\ \A q \in Runs \ {r} : run'[q] = run[q]
  BY <1>3, <1>5, <1>6, Moved DEF TypeOK
<1> QED
  BY <1>1, <1>4, <1>7

\* A document that is not there makes the run one with warnings.
LEMMA ReadDocTyped ==
  ASSUME TypeOK, RunsOK, NEW r \in Runs, ReadDoc(r)
  PROVE  /\ run' \in [Runs -> RunState] /\ RunsOK' /\ \A q \in Runs \ {r} : run'[q] = run[q]
         /\ run'[r].scope = run[r].scope /\ run'[r].btodo = run[r].btodo /\ run'[r].gen = run[r].gen
         /\ \/ run'[r].pc = "docs" /\ ~run'[r].ok
            \/ /\ run'[r].pc = "check" /\ run'[r].todo = run[r].todo /\ run'[r].ok = run[r].ok
               /\ run'[r].hash = doc[run'[r].cur]
<1>0. run[r] \in RunState /\ RunOK(run[r]) /\ run[r].pc = "docs" /\ run[r].todo \in SUBSET Docs /\ run[r].gen \in Nat
  BY RunTyped DEF ReadDoc, At
<1>1. PICK d \in run[r].todo :
       run' = [run EXCEPT ![r] = IF doc[d] = Absent THEN [run[r] EXCEPT !.todo = run[r].todo \ {d}, !.ok = FALSE]
                                 ELSE [run[r] EXCEPT !.pc = "check", !.cur = d, !.hash = doc[d]]]
  BY DEF ReadDoc
<1>2. d \in Docs /\ d \in Items /\ doc[d] \in Contents \union {Absent}
  BY <1>0 DEF TypeOK, Items
<1>3. CASE doc[d] = Absent
  <2>1. PICK k : k = [run[r] EXCEPT !.todo = run[r].todo \ {d}, !.ok = FALSE]
    OBVIOUS
  <2>2. k \in RunState
    BY <1>0, <2>1 DEF RunState
  <2>3. k.pc = "docs" /\ ~k.ok /\ k.scope = run[r].scope /\ k.btodo = run[r].btodo /\ k.gen = run[r].gen
    BY <1>0, <2>1 DEF RunState
  <2>4. RunOK(k)
    BY <1>0, <2>3 DEF RunOK, InDoc
  <2>5. run' = [run EXCEPT ![r] = k]
    BY <1>1, <1>3, <2>1
  <2> QED
    BY <2>2, <2>3, <2>4, <2>5, Moved DEF TypeOK
<1>4. CASE doc[d] # Absent
  <2>1. PICK k : k = [run[r] EXCEPT !.pc = "check", !.cur = d, !.hash = doc[d]]
    OBVIOUS
  <2>2. k \in RunState
    BY <1>0, <1>2, <2>1 DEF RunState, Pcs
  <2>3. /\ k.pc = "check" /\ k.todo = run[r].todo /\ k.ok = run[r].ok /\ k.scope = run[r].scope /\ k.btodo = run[r].btodo
        /\ k.gen = run[r].gen /\ k.cur = d /\ k.hash = doc[d]
    BY <1>0, <2>1 DEF RunState
  <2>4. RunOK(k)
    BY <1>0, <1>4, <2>3 DEF RunOK, InDoc
  <2>5. run' = [run EXCEPT ![r] = k]
    BY <1>1, <1>4, <2>1
  <2>6. run' \in [Runs -> RunState] /\ RunsOK' /\ run'[r] = k /\ \A q \in Runs \ {r} : run'[q] = run[q]
    BY <2>2, <2>4, <2>5, Moved DEF TypeOK
  <2> QED
    BY <2>3, <2>6
<1> QED
  BY <1>3, <1>4

LEMMA ReadBucketTyped ==
  ASSUME TypeOK, RunsOK, NEW r \in Runs, ReadBucket(r)
  PROVE  /\ run' \in [Runs -> RunState] /\ RunsOK' /\ \A q \in Runs \ {r} : run'[q] = run[q]
         /\ run'[r].pc = "bmerge" /\ run'[r].scope = run[r].scope /\ run'[r].todo = run[r].todo /\ run'[r].btodo = run[r].btodo
         /\ run'[r].gen = run[r].gen /\ run'[r].ok = run[r].ok /\ run'[r].hash = doc[run'[r].cur]
<1>0. run[r] \in RunState /\ RunOK(run[r]) /\ run[r].pc = "buckets" /\ run[r].btodo \in SUBSET Buckets /\ run[r].gen \in Nat
  BY RunTyped DEF ReadBucket, At
<1>1. PICK b \in run[r].btodo : run' = [run EXCEPT ![r].pc = "bmerge", ![r].cur = b, ![r].hash = doc[b]]
  BY DEF ReadBucket
<1>2. b \in Items /\ doc[b] \in Contents /\ doc[b] # Absent
  BY <1>0 DEF TypeOK, Items
<1>3. PICK k : k = [run[r] EXCEPT !.pc = "bmerge", !.cur = b, !.hash = doc[b]]
  OBVIOUS
<1>4. k \in RunState
  BY <1>0, <1>2, <1>3 DEF RunState, Pcs
<1>5. /\ k.pc = "bmerge" /\ k.todo = run[r].todo /\ k.ok = run[r].ok /\ k.scope = run[r].scope /\ k.btodo = run[r].btodo
      /\ k.gen = run[r].gen /\ k.cur = b /\ k.hash = doc[b]
  BY <1>0, <1>3 DEF RunState
<1>6. RunOK(k)
  BY <1>0, <1>2, <1>5 DEF RunOK, InDoc
<1>7. run' = [run EXCEPT ![r] = k]
  BY <1>1, <1>3 DEF TypeOK
<1>8. run' \in [Runs -> RunState] /\ RunsOK' /\ run'[r] = k /\ \A q \in Runs \ {r} : run'[q] = run[q]
  BY <1>4, <1>6, <1>7, Moved DEF TypeOK
<1> QED
  BY <1>5, <1>8

LEMMA MergeBucketTyped ==
  ASSUME TypeOK, RunsOK, NEW r \in Runs, MergeBucket(r)
  PROVE  /\ run' \in [Runs -> RunState] /\ RunsOK' /\ \A q \in Runs \ {r} : run'[q] = run[q]
         /\ run'[r].pc = "buckets" /\ run'[r].scope = run[r].scope /\ run'[r].todo = run[r].todo
         /\ run'[r].btodo = run[r].btodo \ {run[r].cur} /\ run'[r].gen = run[r].gen /\ (run'[r].ok => run[r].ok)
         /\ WriteNode(r) \/ (UNCHANGED <<node, stray>> /\ ~run'[r].ok)
         /\ node' \in [Items -> Contents \union {Absent}] /\ stray' \subseteq Items
<1>0. run[r] \in RunState /\ RunOK(run[r]) /\ run[r].pc = "bmerge" /\ run[r].cur \in Items /\ run[r].hash \in Contents /\ run[r].gen \in Nat
  BY RunTyped DEF MergeBucket, At, RunOK, Items
<1>1. PICK ok \in BOOLEAN :
       /\ IF ok THEN WriteNode(r) /\ faults' = faults
                ELSE faults < MaxFaults /\ faults' = faults + 1 /\ UNCHANGED <<node, stray>>
       /\ run' = [run EXCEPT ![r].pc = "buckets", ![r].btodo = @ \ {run[r].cur},
                    ![r].cur = Absent, ![r].hash = Absent, ![r].ok = @ /\ ok]
  BY DEF MergeBucket
<1>2. PICK k : k = [run[r] EXCEPT !.pc = "buckets", !.btodo = run[r].btodo \ {run[r].cur}, !.cur = Absent, !.hash = Absent, !.ok = run[r].ok /\ ok]
  OBVIOUS
<1>3. k \in RunState
  BY <1>0, <1>2 DEF RunState, Pcs
<1>4. /\ k.pc = "buckets" /\ k.todo = run[r].todo /\ (k.ok => run[r].ok /\ ok) /\ k.scope = run[r].scope
      /\ k.btodo = run[r].btodo \ {run[r].cur} /\ k.gen = run[r].gen
  BY <1>0, <1>2 DEF RunState
<1>5. RunOK(k)
  BY <1>0, <1>4 DEF RunOK, InDoc
<1>6. run' = [run EXCEPT ![r] = k]
  BY <1>1, <1>2 DEF TypeOK
<1>7. run' \in [Runs -> RunState] /\ RunsOK' /\ run'[r] = k /\ \A q \in Runs \ {r} : run'[q] = run[q]
  BY <1>3, <1>5, <1>6, Moved DEF TypeOK
<1>8. WriteNode(r) \/ (UNCHANGED <<node, stray>> /\ ~run'[r].ok)
  BY <1>1, <1>4, <1>7
<1>9. node' \in [Items -> Contents \union {Absent}] /\ stray' \subseteq Items
  BY <1>0, <1>8 DEF WriteNode, TypeOK
<1> QED
  BY <1>4, <1>7, <1>8, <1>9

LEMMA EndBucketsTyped ==
  ASSUME TypeOK, RunsOK, NEW r \in Runs, EndBuckets(r)
  PROVE  /\ run' \in [Runs -> RunState] /\ RunsOK' /\ \A q \in Runs \ {r} : run'[q] = run[q]
         /\ run'[r].pc = "finish" /\ run'[r].scope = run[r].scope /\ run'[r].todo = run[r].todo
         /\ run'[r].btodo = run[r].btodo /\ run'[r].gen = run[r].gen /\ (run'[r].ok => run[r].ok)
<1>0. run[r] \in RunState /\ RunOK(run[r]) /\ run[r].pc = "buckets" /\ run[r].btodo = {} /\ run[r].gen \in Nat
  BY RunTyped DEF EndBuckets, At
<1>1. PICK ok \in BOOLEAN : run' = [run EXCEPT ![r].pc = "finish", ![r].ok = @ /\ ok]
  BY DEF EndBuckets
<1>2. PICK k : k = [run[r] EXCEPT !.pc = "finish", !.ok = run[r].ok /\ ok]
  OBVIOUS
<1>3. k \in RunState
  BY <1>0, <1>2 DEF RunState, Pcs
<1>4. /\ k.pc = "finish" /\ k.todo = run[r].todo /\ (k.ok => run[r].ok /\ ok) /\ k.scope = run[r].scope
      /\ k.btodo = run[r].btodo /\ k.gen = run[r].gen
  BY <1>0, <1>2 DEF RunState
<1>5. RunOK(k)
  BY <1>0, <1>4 DEF RunOK, InDoc
<1>6. run' = [run EXCEPT ![r] = k]
  BY <1>1, <1>2 DEF TypeOK
<1>7. run' \in [Runs -> RunState] /\ RunsOK' /\ run'[r] = k /\ \A q \in Runs \ {r} : run'[q] = run[q]
  BY <1>3, <1>5, <1>6, Moved DEF TypeOK
<1> QED
  BY <1>4, <1>7

\* The rows of the runs keep their type.
RowType == [status : RowStatus, scope : Scope, open : BOOLEAN]
LEMMA SetStatusTyped ==
  ASSUME TypeOK, NEW r \in Runs, NEW s \in RowStatus, SetStatus(r, s)
  PROVE  /\ rows' \in [Runs -> RowType] /\ \A q \in Runs \ {r} : rows'[q] = rows[q]
         /\ rows'[r].status = s /\ rows'[r].open = FALSE
<1>1. PICK w : w = [rows[r] EXCEPT !.status = s, !.open = FALSE]
  OBVIOUS
<1>2. rows[r] \in RowType
  BY DEF TypeOK, RowType
<1>3. w \in RowType /\ w.status = s /\ w.open = FALSE
  BY <1>1, <1>2 DEF RowType
<1>4. rows' = [rows EXCEPT ![r] = w]
  BY <1>1 DEF SetStatus, TypeOK
<1> QED
  BY <1>3, <1>4 DEF TypeOK, RowType

LEMMA StepTypes ==
  ASSUME GraphAssumption, TypeOK, RunsOK, NEW r \in Runs, Step(r)
  PROVE  TypeOK' /\ RunsOK'
<1> USE DEF pgVars, graphVars, hist, At, Pcs
<1>1. CASE List(r)
  BY <1>1, ListTyped DEF List, TypeOK
<1>2. CASE TryLock(r)
  <2>1. CASE lock = NoRun
    <3>1. run' \in [Runs -> RunState] /\ RunsOK'
      <4>1. Become(r, "locked") /\ run[r].pc = "listed"
        BY <1>2, <2>1 DEF TryLock
      <4>2. RunOK(run[r])
        BY RunTyped
      <4> QED
        BY <4>1, <4>2, BecomeTyped DEF RunOK, InDoc
    <3> QED
      BY <1>2, <2>1, <3>1 DEF TryLock, TypeOK
  <2>2. CASE lock # NoRun
    <3>1. Exit(r)
      BY <1>2, <2>2 DEF TryLock
    <3> QED
      BY <1>2, <2>2, <3>1, ExitTyped DEF TryLock, TypeOK
  <2> QED
    BY <2>1, <2>2
<1>3. CASE Abandon(r)
  <2>1. Become(r, "cleared") /\ run[r].pc = "locked"
    BY <1>3 DEF Abandon
  <2>2. RunOK(run[r])
    BY RunTyped
  <2>3. rows' \in [Runs -> [status : RowStatus, scope : Scope, open : BOOLEAN]]
    BY <1>3, ZenonT(40) DEF Abandon, TypeOK, RowStatus
  <2> QED
    BY <1>3, <2>1, <2>2, <2>3, BecomeTyped DEF RunOK, InDoc, Abandon, TypeOK
<1>4. CASE ChooseGeneration(r)
  BY <1>4, ChooseTyped DEF ChooseGeneration, TypeOK
<1>5. CASE StartRun(r)
  <2>1. Become(r, "docs") /\ run[r].pc = "starting"
    BY <1>5 DEF StartRun
  <2>2. RunOK(run[r])
    BY RunTyped
  <2>3. rows' \in [Runs -> [status : RowStatus, scope : Scope, open : BOOLEAN]]
    BY <1>5 DEF StartRun, TypeOK, RowStatus, Scope, RunState, Holds
  <2> QED
    BY <1>5, <2>1, <2>2, <2>3, BecomeTyped DEF RunOK, InDoc, StartRun, TypeOK
<1>6. CASE ReadDoc(r)
  BY <1>6, ReadDocTyped DEF ReadDoc, TypeOK
<1>7. CASE CheckMark(r)
  <2>1. CASE Unchanged(r)
    BY <1>7, <2>1, NextDocTyped DEF CheckMark, TypeOK, InDoc
  <2>2. CASE ~Unchanged(r)
    <3>1. Become(r, "merge") /\ run[r].pc = "check"
      BY <1>7, <2>2 DEF CheckMark
    <3>2. RunOK(run[r])
      BY RunTyped
    <3> QED
      BY <1>7, <3>1, <3>2, BecomeTyped DEF RunOK, InDoc, CheckMark, TypeOK
  <2> QED
    BY <2>1, <2>2
<1>8. CASE MergeDocument(r)
  <2>1. Become(r, "mark") /\ run[r].pc = "merge"
    BY <1>8 DEF MergeDocument
  <2>2. RunOK(run[r])
    BY RunTyped
  <2>3. run[r].cur \in Docs /\ run[r].hash \in Contents
    BY <2>1 DEF RunOK, InDoc, TypeOK, RunState, RunsOK
  <2>4. node' \in [Items -> Contents \union {Absent}] /\ stray' \subseteq Items
    BY <1>8, <2>3 DEF MergeDocument, WriteNode, TypeOK, Items
  <2> QED
    BY <1>8, <2>1, <2>2, <2>4, BecomeTyped DEF RunOK, InDoc, MergeDocument, TypeOK
<1>9. CASE MarkSynced(r)
  <2>1. run[r].cur \in Docs /\ run[r].hash \in Contents /\ run[r].pc = "mark" /\ run[r].gen \in Nat
    BY <1>9 DEF MarkSynced, RunOK, InDoc, TypeOK, RunState, RunsOK
  <2>2. mark' \in [Docs -> [hash : Contents \union {Absent}, gen : Nat, error : BOOLEAN]]
    BY <1>9, <2>1 DEF MarkSynced, TypeOK
  <2>3. torn' \subseteq Docs /\ stray' \subseteq Items
    BY <1>9, <2>1 DEF MarkSynced, TypeOK, Items
  <2>4. run' \in [Runs -> RunState] /\ RunsOK'
    BY <1>9, <2>1, NextDocTyped DEF MarkSynced, InDoc
  <2> QED
    BY <1>9, <2>2, <2>3, <2>4 DEF MarkSynced, TypeOK
<1>10. CASE LockFoundLost(r)
  <2>1. rows' \in [Runs -> [status : RowStatus, scope : Scope, open : BOOLEAN]]
    BY <1>10, SetStatusTyped DEF LockFoundLost, TypeOK, RowStatus, RowType
  <2> QED
    BY <1>10, <2>1, ExitTyped DEF LockFoundLost, TypeOK
<1>11. CASE EndDocs(r)
  <2>1. Become(r, "buckets") /\ run[r].pc = "docs" /\ run[r].todo = {}
    BY <1>11 DEF EndDocs
  <2>2. RunOK(run[r])
    BY RunTyped
  <2> QED
    BY <1>11, <2>1, <2>2, BecomeTyped DEF RunOK, InDoc, EndDocs, TypeOK
<1>12. CASE ReadBucket(r)
  BY <1>12, ReadBucketTyped DEF ReadBucket, TypeOK
<1>13. CASE MergeBucket(r)
  BY <1>13, MergeBucketTyped DEF MergeBucket, TypeOK
<1>14. CASE EndBuckets(r)
  BY <1>14, EndBucketsTyped DEF EndBuckets, TypeOK
<1>15. CASE FinishRun(r)
  <2>1. Become(r, "release") /\ run[r].pc = "finish"
    BY <1>15 DEF FinishRun
  <2>2. RunOK(run[r])
    BY RunTyped
  <2>3. rows' \in [Runs -> [status : RowStatus, scope : Scope, open : BOOLEAN]]
    BY <1>15, SetStatusTyped DEF FinishRun, RowStatus, RowType
  <2> QED
    BY <1>15, <2>1, <2>2, <2>3, BecomeTyped DEF RunOK, InDoc, FinishRun, TypeOK
<1>16. CASE ReleaseLock(r)
  BY <1>16, ExitTyped DEF ReleaseLock, TypeOK
<1> QED
  BY <1>1, <1>2, <1>3, <1>4, <1>5, <1>6, <1>7, <1>8, <1>9, <1>10, <1>11, <1>12, <1>13, <1>14, <1>15, <1>16 DEF Step

LEMMA DocFailsTyped ==
  ASSUME TypeOK, RunsOK, NEW r \in Runs, DocFails(r)
  PROVE  /\ run' \in [Runs -> RunState] /\ RunsOK' /\ \A q \in Runs \ {r} : run'[q] = run[q]
         /\ run'[r].pc = "docs" /\ run'[r].scope = run[r].scope /\ ~run'[r].ok /\ run[r].pc \in {"check", "merge"}
         /\ run[r].cur \in Docs /\ torn \subseteq torn' /\ torn' \subseteq Docs /\ stray \subseteq stray' /\ stray' \subseteq Items
         /\ \A i \in Items : node'[i] # node[i] => i = run[r].cur /\ (Holds(r) \/ i \in stray')
         /\ mark' \in [Docs -> [hash : Contents \union {Absent}, gen : Nat, error : BOOLEAN]]
         /\ node' \in [Items -> Contents \union {Absent}]
         /\ \A d \in Docs : mark'[d] # mark[d] => mark'[d].error
         /\ node'[run[r].cur] = node[run[r].cur] \/ run[r].cur \in torn' \/ mark'[run[r].cur].error
<1>0. run[r] \in RunState /\ RunOK(run[r]) /\ run[r].pc \in {"check", "merge"} /\ run[r].cur \in Docs /\ run[r].cur \in Items /\ run[r].hash \in Contents
  BY RunTyped DEF DocFails, RunOK, InDoc, Items
<1>1. NextDoc(r, FALSE)
  BY DEF DocFails
<1>2. PICK applied \in BOOLEAN, recorded \in BOOLEAN :
       /\ applied => At(r, "merge")
       /\ IF applied THEN WriteNode(r) ELSE UNCHANGED <<node, stray>>
       /\ mark' = IF recorded THEN [mark EXCEPT ![run[r].cur].error = TRUE] ELSE mark
       /\ torn' = IF applied /\ ~recorded THEN torn \union {run[r].cur} ELSE torn
  BY DEF DocFails
<1>3. /\ run' \in [Runs -> RunState] /\ RunsOK' /\ \A q \in Runs \ {r} : run'[q] = run[q]
      /\ run'[r].pc = "docs" /\ run'[r].scope = run[r].scope /\ ~run'[r].ok
  BY <1>0, <1>1, NextDocTyped DEF InDoc
<1>4. /\ mark' \in [Docs -> [hash : Contents \union {Absent}, gen : Nat, error : BOOLEAN]]
      /\ \A d \in Docs : mark'[d] # mark[d] => mark'[d].error
      /\ recorded => mark'[run[r].cur].error
  BY <1>0, <1>2, ZenonT(40) DEF TypeOK
<1>5. /\ node' \in [Items -> Contents \union {Absent}] /\ stray \subseteq stray' /\ stray' \subseteq Items
      /\ \A i \in Items : node'[i] # node[i] => i = run[r].cur /\ (Holds(r) \/ i \in stray')
      /\ ~applied => node' = node
  BY <1>0, <1>2 DEF TypeOK, WriteNode
<1>6. torn \subseteq torn' /\ torn' \subseteq Docs /\ (applied /\ ~recorded => run[r].cur \in torn')
  BY <1>0, <1>2 DEF TypeOK
<1> QED
  BY <1>0, <1>3, <1>4, <1>5, <1>6

LEMMA OtherTypes ==
  ASSUME GraphAssumption, TypeOK, RunsOK, Edit \/ Fault
  PROVE  TypeOK' /\ RunsOK'
<1> USE DEF pgVars, graphVars, hist, At
<1>1. CASE Edit
  <2>1. PICK i \in Items, c \in Contents :
          /\ doc' = [doc EXCEPT ![i] = c]
          /\ since' = [r \in Runs |-> [since[r] EXCEPT ![i] = IF @ = {} THEN {} ELSE @ \union {c}]]
    BY <1>1 DEF Edit
  <2>2. doc' \in [Items -> Contents \union {Absent}] /\ \A b \in Buckets : doc'[b] # Absent
    BY <2>1, GraphAssumption DEF TypeOK, Items
  <2>3. since' \in [Runs -> [Items -> SUBSET Contents]]
    <3>1. \A r \in Runs : [since[r] EXCEPT ![i] = IF @ = {} THEN {} ELSE @ \union {c}] \in [Items -> SUBSET Contents]
      BY <2>1 DEF TypeOK
    <3> QED
      BY <2>1, <3>1
  <2>4. UNCHANGED <<mark, rows, latest, lock, graphVars, made, run, torn, stray, lost>>
    BY <1>1 DEF Edit
  <2> QED
    BY <2>2, <2>3, <2>4 DEF TypeOK, RunsOK
<1>2. ASSUME NEW r \in Runs, MarkFails(r) PROVE TypeOK' /\ RunsOK'
  <2>1. run[r].cur \in Docs /\ run[r].pc \in InDoc
    BY <1>2, RunTyped DEF MarkFails, RunOK, InDoc
  <2> QED
    BY <1>2, <2>1, NextDocTyped DEF MarkFails, TypeOK
<1>3. ASSUME NEW r \in Runs, DocFails(r) PROVE TypeOK' /\ RunsOK'
  BY <1>3, DocFailsTyped DEF DocFails, TypeOK
<1>4. ASSUME NEW r \in Runs, RunFails(r) PROVE TypeOK' /\ RunsOK'
  BY <1>4, SetStatusTyped, ExitTyped DEF RunFails, TypeOK, RowStatus, RowType
<1>5. ASSUME NEW r \in Runs, Crash(r) PROVE TypeOK' /\ RunsOK'
  <2>1. rows' \in [Runs -> RowType]
    BY <1>5 DEF Crash, TypeOK, RowType
  <2>2. torn' \subseteq Docs
    BY <1>5, RunTyped DEF Crash, TypeOK, RunOK, InDoc
  <2> QED
    BY <1>5, <2>1, <2>2, ExitTyped DEF Crash, TypeOK, RowType
<1>6. CASE LoseLock
  <2>1. PICK q \in Runs : q = lock
    BY <1>6 DEF LoseLock, TypeOK
  <2>2. rows' \in [Runs -> RowType]
    BY <1>6, <2>1 DEF LoseLock, TypeOK, RowType
  <2>3. stray' \subseteq Items
    <3>1. run[q].pc = "mark" => run[q].cur \in Items
      BY RunTyped DEF RunOK, InDoc, Items
    <3>2. stray \subseteq Items
      BY DEF TypeOK
    <3> QED
      BY <1>6, <2>1, <3>1, <3>2 DEF LoseLock
  <2> QED
    BY <1>6, <2>2, <2>3 DEF LoseLock, TypeOK, RunsOK, RowType
<1>7. CASE SwapStore
  <2>1. InUse \subseteq Nat
    BY RunTyped DEF InUse, TypeOK
  <2>2. lost' \subseteq Nat
    BY <1>7, <2>1 DEF SwapStore, TypeOK
  <2>3. node' \in [Items -> Contents \union {Absent}] /\ marker' \in Nat
    BY <1>7 DEF SwapStore
  <2> QED
    BY <1>7, <2>2, <2>3 DEF SwapStore, TypeOK, RunsOK
<1> QED
  BY <1>1, <1>2, <1>3, <1>4, <1>5, <1>6, <1>7 DEF Fault

-----------------------------------------------------------------------------
(* The lock, and the rows of the runs. *)

\* A step of an invocation between its row and its verdict.
LEMMA LocksQuiet ==
  ASSUME TypeOK, LockOK, RowsOK, NEW r \in Runs, UNCHANGED <<rows, latest, lock>>, stray \subseteq stray',
         \A q \in Runs \ {r} : run'[q] = run[q], run[r].pc \in Working, run'[r].pc \in Working,
         run'[r].scope = run[r].scope, run'[r].pc = "mark" /\ ~Holds(r) => run'[r].cur \in stray'
  PROVE  LockOK' /\ RowsOK'
<1>1. LockOK'
  BY DEF LockOK, Holds, At, Working
<1>2. RowsOK'
  BY DEF RowsOK, Holds, At, Working
<1> QED
  BY <1>1, <1>2

\* An invocation that ends lets go of the lock, and its row says that it is over.
LEMMA LocksExit ==
  ASSUME GraphAssumption, TypeOK, LockOK, RowsOK, NEW r \in Runs, stray \subseteq stray', latest' = latest, Exit(r),
         lock' = (IF Holds(r) THEN NoRun ELSE lock), \A q \in Runs \ {r} : rows'[q] = rows[q], ~rows'[r].open
  PROVE  LockOK' /\ RowsOK'
<1>1. run'[r].pc = "idle" /\ \A q \in Runs \ {r} : run'[q] = run[q]
  BY DEF Exit, Idle0, TypeOK
<1>2. lock' # r /\ \A q \in Runs \ {r} : lock' = q <=> lock = q
  BY GraphAssumption DEF Holds
<1>3. LockOK'
  BY <1>1, <1>2 DEF LockOK, Holds, At
<1>4. RowsOK'
  BY <1>1, <1>2 DEF RowsOK, Holds, At, Working
<1> QED
  BY <1>3, <1>4

\* A step before the row is written, or after the verdict.
LEMMA LocksAside ==
  ASSUME TypeOK, LockOK, RowsOK, NEW r \in Runs, UNCHANGED <<rows, latest, stray, lock>>,
         \A q \in Runs \ {r} : run'[q] = run[q], run'[r].pc \in Early \ {"idle"}, Holds(r) => run'[r].pc # "listed"
  PROVE  LockOK' /\ RowsOK'
<1>1. LockOK'
  BY DEF LockOK, Holds, At, Early
<1>2. RowsOK'
  BY DEF RowsOK, Holds, At, Working, Early
<1> QED
  BY <1>1, <1>2

LEMMA StepLocks ==
  ASSUME GraphAssumption, TypeOK, RunsOK, LockOK, RowsOK, NEW r \in Runs, Step(r)
  PROVE  LockOK' /\ RowsOK'
<1> USE DEF pgVars, graphVars, hist, At
<1>1. CASE List(r)
  BY <1>1, ListTyped, LocksAside DEF List, LockOK, Early
<1>2. CASE TryLock(r)
  <2>1. CASE lock = NoRun
    <3>1. run'[r].pc = "locked" /\ \A q \in Runs \ {r} : run'[q] = run[q]
      BY <1>2, <2>1, BecomeTyped DEF TryLock, Pcs, InDoc
    <3>2. lock' = r /\ UNCHANGED <<rows, latest, stray>> /\ \A q \in Runs : ~Holds(q)
      BY <1>2, <2>1, GraphAssumption DEF TryLock, Holds
    <3>3. LockOK'
      BY <3>1, <3>2, GraphAssumption DEF LockOK, Holds
    <3>4. RowsOK'
      BY <3>1, <3>2 DEF RowsOK, Holds, Working
    <3> QED
      BY <3>3, <3>4
  <2>2. CASE lock # NoRun
    <3>1. Exit(r) /\ UNCHANGED <<lock, latest, rows, stray>> /\ ~Holds(r)
      BY <1>2, <2>2 DEF TryLock, LockOK
    <3>2. ~rows[r].open
      BY <3>1 DEF RowsOK
    <3> QED
      BY <3>1, <3>2, LocksExit DEF Holds
  <2> QED
    BY <2>1, <2>2
<1>3. CASE Abandon(r)
  <2>1. run'[r].pc = "cleared" /\ run[r].pc = "locked" /\ \A q \in Runs \ {r} : run'[q] = run[q]
    BY <1>3, BecomeTyped DEF Abandon, Pcs, InDoc
  <2>2. Holds(r) /\ UNCHANGED <<latest, lock, stray>> /\ \A q \in Runs \ {r} : ~Holds(q)
    BY <1>3 DEF Abandon, Holds
  <2>3. \A q \in Runs : rows'[q].open = rows[q].open /\ (rows[q].status # "running" => rows'[q].status = rows[q].status)
    BY <1>3 DEF Abandon, TypeOK
  <2>4. LockOK'
    BY <2>1, <2>2 DEF LockOK, Holds
  <2>5. RowsOK'
    BY <2>1, <2>2, <2>3 DEF RowsOK, Holds, Working
  <2> QED
    BY <2>4, <2>5
<1>4. CASE ChooseGeneration(r)
  BY <1>4, ChooseTyped, LocksAside DEF ChooseGeneration, Early
<1>5. CASE StartRun(r)
  <2>1. run[r].pc = "starting" /\ run'[r].pc = "docs" /\ run'[r].scope = run[r].scope /\ \A q \in Runs \ {r} : run'[q] = run[q]
    BY <1>5, BecomeTyped, RunTyped DEF StartRun, Pcs, InDoc, RunOK, SameFields
  <2>2. UNCHANGED <<lock, stray>> /\ latest' = r
    BY <1>5 DEF StartRun
  <2>3. rows'[r].status = "running" /\ rows'[r].scope = run[r].scope /\ (rows'[r].open <=> Holds(r)) /\ \A q \in Runs \ {r} : rows'[q] = rows[q]
    BY <1>5 DEF StartRun, TypeOK
  <2>4. LockOK'
    BY <2>1, <2>2 DEF LockOK, Holds
  <2>5. RowsOK'
    BY <2>1, <2>2, <2>3 DEF RowsOK, Holds, Working
  <2> QED
    BY <2>4, <2>5
<1>6. CASE ReadDoc(r)
  <2>1. run[r].pc = "docs" /\ UNCHANGED <<rows, latest, lock, stray>>
    BY <1>6 DEF ReadDoc
  <2>2. run'[r].pc \in {"docs", "check"} /\ run'[r].scope = run[r].scope /\ \A q \in Runs \ {r} : run'[q] = run[q]
    BY <1>6, ReadDocTyped
  <2> QED
    BY <2>1, <2>2, LocksQuiet DEF Working
<1>7. CASE CheckMark(r)
  <2>1. run[r].pc = "check" /\ UNCHANGED <<rows, latest, lock, stray>>
    BY <1>7 DEF CheckMark
  <2>2. run'[r].pc \in {"docs", "merge"} /\ run'[r].scope = run[r].scope /\ \A q \in Runs \ {r} : run'[q] = run[q]
    BY <1>7, <2>1, RunTyped, NextDocTyped, BecomeTyped DEF CheckMark, Pcs, InDoc, RunOK, SameFields
  <2> QED
    BY <2>1, <2>2, LocksQuiet DEF Working
<1>8. CASE MergeDocument(r)
  <2>1. run[r].pc = "merge" /\ UNCHANGED <<rows, latest, lock>>
    BY <1>8 DEF MergeDocument
  <2>2. run'[r].pc = "mark" /\ run'[r].cur = run[r].cur /\ run'[r].scope = run[r].scope /\ \A q \in Runs \ {r} : run'[q] = run[q]
    BY <1>8, <2>1, RunTyped, BecomeTyped DEF MergeDocument, Pcs, InDoc, RunOK, SameFields
  <2>3. stray \subseteq stray' /\ (~Holds(r) => run[r].cur \in stray')
    BY <1>8 DEF MergeDocument, WriteNode
  <2> QED
    BY <2>1, <2>2, <2>3, LocksQuiet DEF Working
<1>9. CASE MarkSynced(r)
  <2>1. run[r].pc = "mark" /\ UNCHANGED <<rows, latest, lock>> /\ stray \subseteq stray'
    BY <1>9 DEF MarkSynced
  <2>2. run'[r].pc = "docs" /\ run'[r].scope = run[r].scope /\ \A q \in Runs \ {r} : run'[q] = run[q]
    BY <1>9, <2>1, NextDocTyped DEF MarkSynced, InDoc
  <2> QED
    BY <2>1, <2>2, LocksQuiet DEF Working
<1>10. CASE LockFoundLost(r)
  <2>1. Exit(r) /\ ~Holds(r) /\ UNCHANGED <<latest, lock, stray>>
    BY <1>10 DEF LockFoundLost
  <2>2. \/ SetStatus(r, "failed")
        \/ rows' = rows
    BY <1>10 DEF LockFoundLost
  <2>3. ~rows'[r].open /\ \A q \in Runs \ {r} : rows'[q] = rows[q]
    BY <2>1, <2>2, SetStatusTyped DEF RowsOK, RowStatus
  <2> QED
    BY <2>1, <2>3, LocksExit
<1>11. CASE EndDocs(r)
  <2>1. run[r].pc = "docs" /\ UNCHANGED <<rows, latest, lock, stray>>
    BY <1>11 DEF EndDocs
  <2>2. run'[r].pc = "buckets" /\ run'[r].scope = run[r].scope /\ \A q \in Runs \ {r} : run'[q] = run[q]
    BY <1>11, <2>1, RunTyped, BecomeTyped DEF EndDocs, Pcs, InDoc, RunOK, SameFields
  <2> QED
    BY <2>1, <2>2, LocksQuiet DEF Working
<1>12. CASE ReadBucket(r)
  BY <1>12, ReadBucketTyped, LocksQuiet, ZenonT(40) DEF ReadBucket, Working
<1>13. CASE MergeBucket(r)
  <2>1. stray \subseteq stray'
    BY <1>13, MergeBucketTyped DEF WriteNode
  <2> QED
    BY <1>13, <2>1, MergeBucketTyped, LocksQuiet DEF MergeBucket, Working
<1>14. CASE EndBuckets(r)
  BY <1>14, EndBucketsTyped, LocksQuiet DEF EndBuckets, Working
<1>15. CASE FinishRun(r)
  <2>1. run[r].pc = "finish" /\ UNCHANGED <<latest, lock, stray>> /\ SetStatus(r, IF run[r].ok THEN "completed" ELSE "completed_warn")
    BY <1>15 DEF FinishRun
  <2>2. run'[r].pc = "release" /\ run'[r].ok = run[r].ok /\ \A q \in Runs \ {r} : run'[q] = run[q]
    BY <1>15, <2>1, RunTyped, BecomeTyped DEF FinishRun, Pcs, InDoc, RunOK, SameFields
  <2>3. ~rows'[r].open /\ rows'[r].status \in {"completed", "completed_warn"} /\ (rows'[r].status = "completed" => run[r].ok) /\ \A q \in Runs \ {r} : rows'[q] = rows[q]
    BY <2>1, SetStatusTyped DEF RowStatus
  <2>4. LockOK'
    BY <2>1, <2>2 DEF LockOK, Holds
  <2>5. RowsOK'
    BY <2>1, <2>2, <2>3 DEF RowsOK, Holds, Working
  <2> QED
    BY <2>4, <2>5
<1>16. CASE ReleaseLock(r)
  <2>1. ~rows[r].open /\ Exit(r) /\ UNCHANGED <<rows, latest, stray>> /\ lock' = IF Holds(r) THEN NoRun ELSE lock
    BY <1>16 DEF ReleaseLock, RowsOK
  <2> QED
    BY <2>1, LocksExit
<1> QED
  BY <1>1, <1>2, <1>3, <1>4, <1>5, <1>6, <1>7, <1>8, <1>9, <1>10, <1>11, <1>12, <1>13, <1>14, <1>15, <1>16, SMTT(30) DEF Step

LEMMA OtherLocks ==
  ASSUME GraphAssumption, TypeOK, RunsOK, LockOK, RowsOK, Edit \/ Fault
  PROVE  LockOK' /\ RowsOK'
<1> USE DEF pgVars, graphVars, hist, At
<1>1. CASE Edit \/ SwapStore
  <2>1. UNCHANGED <<rows, latest, lock, run, stray>>
    BY <1>1 DEF Edit, SwapStore
  <2> QED
    BY <2>1 DEF LockOK, RowsOK, Holds
<1>2. ASSUME NEW r \in Runs, MarkFails(r) PROVE LockOK' /\ RowsOK'
  <2>1. run[r].pc = "mark" /\ UNCHANGED <<rows, latest, lock, stray>>
    BY <1>2 DEF MarkFails
  <2>2. run'[r].pc = "docs" /\ run'[r].scope = run[r].scope /\ \A q \in Runs \ {r} : run'[q] = run[q]
    BY <1>2, <2>1, NextDocTyped DEF MarkFails, InDoc
  <2> QED
    BY <2>1, <2>2, LocksQuiet DEF Working
<1>3. ASSUME NEW r \in Runs, DocFails(r) PROVE LockOK' /\ RowsOK'
  <2>1. UNCHANGED <<rows, latest, lock>>
    BY <1>3 DEF DocFails
  <2> QED
    BY <1>3, <2>1, DocFailsTyped, LocksQuiet DEF Working
<1>4. ASSUME NEW r \in Runs, RunFails(r) PROVE LockOK' /\ RowsOK'
  <2>1. Exit(r) /\ UNCHANGED <<latest, stray>> /\ lock' = (IF Holds(r) THEN NoRun ELSE lock) /\ SetStatus(r, "failed")
    BY <1>4 DEF RunFails
  <2>2. ~rows'[r].open /\ \A q \in Runs \ {r} : rows'[q] = rows[q]
    BY <2>1, SetStatusTyped DEF RowStatus
  <2> QED
    BY <2>1, <2>2, LocksExit
<1>5. ASSUME NEW r \in Runs, Crash(r) PROVE LockOK' /\ RowsOK'
  <2>1. Exit(r) /\ UNCHANGED <<latest, stray>> /\ lock' = (IF Holds(r) THEN NoRun ELSE lock)
    BY <1>5 DEF Crash
  <2>2. ~rows'[r].open /\ \A q \in Runs \ {r} : rows'[q] = rows[q]
    BY <1>5 DEF Crash, TypeOK
  <2> QED
    BY <2>1, <2>2, LocksExit
<1>6. CASE LoseLock
  <2>1. PICK q \in Runs : q = lock
    BY <1>6 DEF LoseLock, TypeOK
  <2>2. lock' = NoRun /\ run' = run /\ latest' = latest
    BY <1>6 DEF LoseLock
  <2>3. ~rows'[q].open /\ rows'[q].status = rows[q].status /\ \A p \in Runs \ {q} : rows'[p] = rows[p]
    BY <1>6, <2>1 DEF LoseLock, TypeOK
  <2>4. stray \subseteq stray' /\ (run[q].pc = "mark" => run[q].cur \in stray')
    BY <1>6, <2>1 DEF LoseLock
  <2>5. \A p \in Runs : lock' # p /\ (lock = p => p = q)
    BY <2>1, <2>2, GraphAssumption
  <2>6. LockOK'
    BY <2>2, <2>4, <2>5 DEF LockOK, Holds
  <2>7. RowsOK'
    BY <2>2, <2>3, <2>5 DEF RowsOK, Holds
  <2> QED
    BY <2>6, <2>7
<1> QED
  BY <1>1, <1>2, <1>3, <1>4, <1>5, <1>6 DEF Fault

-----------------------------------------------------------------------------
(* Marks and the graph. *)

\* A step that writes neither keeps what is known of both, if an invocation leaves
\* the place between merge and mark only with a document that is recorded as torn.
LEMMA SyncQuiet ==
  ASSUME Synced, Merged, NEW r \in Runs, UNCHANGED <<mark, node>>, torn \subseteq torn', stray \subseteq stray', lost \subseteq lost',
         \A q \in Runs \ {r} : run'[q] = run[q],
         At(r, "mark") => run'[r] = run[r] \/ run[r].cur \in torn',
         run'[r].pc = "mark" => run'[r] = run[r],
         \A q \in Runs : lock' = q /\ run'[q].pc = "mark" => lock = q
  PROVE  Synced' /\ Merged'
<1>1. Synced'
  <2> SUFFICES ASSUME NEW d \in Docs, mark'[d].gen # 0, ~mark'[d].error, mark'[d].gen \notin lost', d \notin torn', d \notin stray'
               PROVE  node'[d] = mark'[d].hash \/ \E q \in Runs : run'[q].pc = "mark" /\ run'[q].cur = d
    BY DEF Synced, Untouched, At
  <2>1. node[d] = mark[d].hash \/ \E q \in Runs : run[q].pc = "mark" /\ run[q].cur = d
    BY DEF Synced, Untouched, At
  <2>2. ASSUME NEW q \in Runs, run[q].pc = "mark", run[q].cur = d PROVE run'[q] = run[q]
    BY <2>2 DEF At
  <2> QED
    BY <2>1, <2>2
<1>2. Merged'
  <2> SUFFICES ASSUME NEW q \in Runs, run'[q].pc = "mark", lock' = q, run'[q].cur \notin stray', run'[q].gen \notin lost'
               PROVE  node'[run'[q].cur] = run'[q].hash
    BY DEF Merged, At, Holds
  <2>1. run'[q] = run[q] /\ lock = q
    OBVIOUS
  <2> QED
    BY <2>1 DEF Merged, At, Holds
<1> QED
  BY <1>1, <1>2

\* Whoever writes a node without the lock is recorded.
LEMMA WriteNodeFrame ==
  ASSUME TypeOK, NEW r \in Runs, WriteNode(r), run[r].cur \in Items
  PROVE  /\ node'[run[r].cur] = run[r].hash /\ \A i \in Items \ {run[r].cur} : node'[i] = node[i]
         /\ stray \subseteq stray' /\ (~Holds(r) => run[r].cur \in stray') /\ stray' \subseteq stray \union {run[r].cur}
BY DEF WriteNode, TypeOK

LEMMA StepSync ==
  ASSUME GraphAssumption, TypeOK, RunsOK, LockOK, Synced, Merged, NEW r \in Runs, Step(r)
  PROVE  Synced' /\ Merged'
<1> USE DEF pgVars, graphVars, hist, At
<1>1. CASE List(r)
  BY <1>1, ListTyped, SyncQuiet DEF List
<1>2. CASE TryLock(r)
  <2>1. CASE lock = NoRun
    <3>1. run'[r].pc = "locked" /\ \A q \in Runs \ {r} : run'[q] = run[q]
      BY <1>2, <2>1, BecomeTyped DEF TryLock, Pcs, InDoc
    <3>2. run[r].pc = "listed" /\ lock' = r /\ UNCHANGED <<mark, node, torn, stray, lost>>
      BY <1>2, <2>1 DEF TryLock
    <3> QED
      BY <3>1, <3>2, SyncQuiet
  <2>2. CASE lock # NoRun
    <3>1. run[r].pc = "listed" /\ Exit(r) /\ UNCHANGED <<lock, mark, node, torn, stray, lost>>
      BY <1>2, <2>2 DEF TryLock
    <3>2. run'[r].pc = "idle" /\ \A q \in Runs \ {r} : run'[q] = run[q]
      BY <3>1 DEF Exit, Idle0, TypeOK
    <3> QED
      BY <3>1, <3>2, SyncQuiet
  <2> QED
    BY <2>1, <2>2
<1>3. CASE Abandon(r)
  BY <1>3, BecomeTyped, SyncQuiet DEF Abandon, Pcs, InDoc
<1>4. CASE ChooseGeneration(r)
  BY <1>4, ChooseTyped, SyncQuiet DEF ChooseGeneration
<1>5. CASE StartRun(r)
  BY <1>5, BecomeTyped, RunTyped, SyncQuiet DEF StartRun, Pcs, InDoc, RunOK
<1>6. CASE ReadDoc(r)
  BY <1>6, ReadDocTyped, SyncQuiet DEF ReadDoc
<1>7. CASE CheckMark(r)
  <2>1. run'[r].pc \in {"docs", "merge"} /\ \A q \in Runs \ {r} : run'[q] = run[q]
    BY <1>7, RunTyped, NextDocTyped, BecomeTyped DEF CheckMark, Pcs, InDoc, RunOK
  <2> QED
    BY <1>7, <2>1, SyncQuiet DEF CheckMark
<1>8. CASE MergeDocument(r)
  <2>1. run[r].pc = "merge" /\ UNCHANGED <<mark, torn, lost, lock>> /\ WriteNode(r)
    BY <1>8 DEF MergeDocument
  <2>2. run'[r].pc = "mark" /\ SameFields(r) /\ \A q \in Runs \ {r} : run'[q] = run[q]
    BY <1>8, <2>1, RunTyped, BecomeTyped DEF MergeDocument, Pcs, InDoc, RunOK
  <2>3. run[r].cur \in Items
    BY <2>1, RunTyped DEF RunOK, InDoc, Items
  <2>4. /\ node'[run[r].cur] = run[r].hash /\ \A i \in Items \ {run[r].cur} : node'[i] = node[i]
        /\ stray \subseteq stray' /\ (~Holds(r) => run[r].cur \in stray')
    BY <2>1, <2>3, WriteNodeFrame
  <2>5. Synced'
    <3> SUFFICES ASSUME NEW d \in Docs, mark'[d].gen # 0, ~mark'[d].error, mark'[d].gen \notin lost', d \notin torn', d \notin stray'
                 PROVE  node'[d] = mark'[d].hash \/ \E q \in Runs : run'[q].pc = "mark" /\ run'[q].cur = d
      BY DEF Synced, Untouched
    <3>1. CASE d = run[r].cur
      BY <2>2, <3>1 DEF SameFields
    <3>2. CASE d # run[r].cur
      <4>1. node'[d] = node[d]
        BY <2>4, <3>2 DEF Items
      <4>2. node[d] = mark[d].hash \/ \E q \in Runs : run[q].pc = "mark" /\ run[q].cur = d
        BY <2>1, <2>4 DEF Synced, Untouched
      <4> QED
        BY <2>1, <2>2, <4>1, <4>2
    <3> QED
      BY <3>1, <3>2
  <2>6. Merged'
    <3> SUFFICES ASSUME NEW q \in Runs, run'[q].pc = "mark", lock' = q, run'[q].cur \notin stray', run'[q].gen \notin lost'
                 PROVE  node'[run'[q].cur] = run'[q].hash
      BY DEF Merged, Holds
    <3>1. CASE q = r
      BY <2>2, <2>4, <3>1 DEF SameFields
    <3>2. CASE q # r
      <4>1. run'[q] = run[q] /\ lock = q /\ run[r].cur \in stray'
        BY <2>1, <2>2, <2>4, <3>2 DEF Holds
      <4>2. run[q].cur \in Items /\ run[q].cur # run[r].cur
        BY <4>1, RunTyped DEF RunOK, InDoc, Items
      <4> QED
        BY <2>1, <2>4, <4>1, <4>2 DEF Merged, Holds
    <3> QED
      BY <3>1, <3>2
  <2> QED
    BY <2>5, <2>6
<1>9. CASE MarkSynced(r)
  <2>1. run[r].pc = "mark" /\ UNCHANGED <<node, lost, lock>> /\ run[r].cur \in Docs
    BY <1>9, RunTyped DEF MarkSynced, RunOK, InDoc
  <2>2. run'[r].pc = "docs" /\ \A q \in Runs \ {r} : run'[q] = run[q]
    BY <1>9, <2>1, NextDocTyped DEF MarkSynced, InDoc
  <2>3. /\ mark'[run[r].cur].hash = run[r].hash /\ mark'[run[r].cur].gen = run[r].gen
        /\ \A d \in Docs \ {run[r].cur} : mark'[d] = mark[d]
    BY <1>9, <2>1 DEF MarkSynced, TypeOK
  <2>4. /\ \A d \in Docs \ {run[r].cur} : d \in torn => d \in torn'
        /\ stray \subseteq stray' /\ (~Holds(r) => run[r].cur \in stray')
    BY <1>9 DEF MarkSynced
  <2>5. Synced'
    <3> SUFFICES ASSUME NEW d \in Docs, mark'[d].gen # 0, ~mark'[d].error, mark'[d].gen \notin lost', d \notin torn', d \notin stray'
                 PROVE  node'[d] = mark'[d].hash \/ \E q \in Runs : run'[q].pc = "mark" /\ run'[q].cur = d
      BY DEF Synced, Untouched
    <3>1. CASE d = run[r].cur
      BY <2>1, <2>3, <2>4, <3>1 DEF Merged
    <3>2. CASE d # run[r].cur
      <4>1. node[d] = mark[d].hash \/ \E q \in Runs : run[q].pc = "mark" /\ run[q].cur = d
        BY <2>1, <2>3, <2>4, <3>2 DEF Synced, Untouched
      <4> QED
        BY <2>1, <2>2, <2>3, <3>2, <4>1
    <3> QED
      BY <3>1, <3>2
  <2>6. Merged'
    <3> SUFFICES ASSUME NEW q \in Runs, run'[q].pc = "mark", lock' = q, run'[q].cur \notin stray', run'[q].gen \notin lost'
                 PROVE  node'[run'[q].cur] = run'[q].hash
      BY DEF Merged, Holds
    <3>1. q # r /\ run'[q] = run[q] /\ lock = q
      BY <2>1, <2>2
    <3> QED
      BY <2>1, <2>4, <3>1 DEF Merged, Holds
  <2> QED
    BY <2>5, <2>6
<1>10. CASE LockFoundLost(r)
  <2>1. Exit(r) /\ UNCHANGED <<lock, mark, node, torn, stray, lost>> /\ run[r].pc # "mark"
    BY <1>10 DEF LockFoundLost
  <2>2. run'[r].pc = "idle" /\ \A q \in Runs \ {r} : run'[q] = run[q]
    BY <2>1 DEF Exit, Idle0, TypeOK
  <2> QED
    BY <2>1, <2>2, SyncQuiet
<1>11. CASE EndDocs(r)
  BY <1>11, BecomeTyped, RunTyped, SyncQuiet DEF EndDocs, Pcs, InDoc, RunOK
<1>12. CASE ReadBucket(r)
  BY <1>12, ReadBucketTyped, SyncQuiet DEF ReadBucket
<1>13. CASE MergeBucket(r)
  <2>1. run[r].pc = "bmerge" /\ UNCHANGED <<mark, torn, lost, lock>> /\ run[r].cur \in Items /\ run[r].cur \notin Docs
    BY <1>13, RunTyped, GraphAssumption DEF MergeBucket, RunOK, Items
  <2>2. run'[r].pc = "buckets" /\ \A q \in Runs \ {r} : run'[q] = run[q]
    BY <1>13, MergeBucketTyped
  <2>3. WriteNode(r) \/ UNCHANGED <<node, stray>>
    BY <1>13, MergeBucketTyped
  <2>4. stray \subseteq stray' /\ \A d \in Docs : node'[d] = node[d]
    BY <2>1, <2>3, WriteNodeFrame DEF Items
  <2>5. Synced'
    BY <2>1, <2>2, <2>4 DEF Synced, Untouched
  <2>6. Merged'
    <3> SUFFICES ASSUME NEW q \in Runs, run'[q].pc = "mark", lock' = q, run'[q].cur \notin stray', run'[q].gen \notin lost'
                 PROVE  node'[run'[q].cur] = run'[q].hash
      BY DEF Merged, Holds
    <3>1. q # r /\ run'[q] = run[q] /\ lock = q
      BY <2>1, <2>2
    <3>2. run[q].cur \in Docs
      BY <3>1, RunTyped DEF RunOK, InDoc
    <3> QED
      BY <2>1, <2>4, <3>1, <3>2 DEF Merged, Holds
  <2> QED
    BY <2>5, <2>6
<1>14. CASE EndBuckets(r)
  BY <1>14, EndBucketsTyped, SyncQuiet DEF EndBuckets
<1>15. CASE FinishRun(r)
  BY <1>15, BecomeTyped, RunTyped, SyncQuiet DEF FinishRun, Pcs, InDoc, RunOK
<1>16. CASE ReleaseLock(r)
  <2>1. Exit(r) /\ lock' = (IF Holds(r) THEN NoRun ELSE lock) /\ UNCHANGED <<mark, node, torn, stray, lost>> /\ run[r].pc = "release"
    BY <1>16 DEF ReleaseLock
  <2>2. run'[r].pc = "idle" /\ \A q \in Runs \ {r} : run'[q] = run[q]
    BY <2>1 DEF Exit, Idle0, TypeOK
  <2>3. \A q \in Runs : lock' = q => lock = q
    BY <2>1, GraphAssumption
  <2> QED
    BY <2>1, <2>2, <2>3, SyncQuiet
<1> QED
  BY <1>1, <1>2, <1>3, <1>4, <1>5, <1>6, <1>7, <1>8, <1>9, <1>10, <1>11, <1>12, <1>13, <1>14, <1>15, <1>16, SMTT(30) DEF Step

LEMMA OtherSync ==
  ASSUME GraphAssumption, TypeOK, RunsOK, LockOK, Synced, Merged, Edit \/ Fault
  PROVE  Synced' /\ Merged'
<1> USE DEF pgVars, graphVars, hist, At
<1>1. CASE Edit
  <2>1. UNCHANGED <<mark, node, torn, stray, lost, run, lock>>
    BY <1>1 DEF Edit
  <2> QED
    BY <2>1 DEF Synced, Merged, Untouched, Holds
<1>2. ASSUME NEW r \in Runs, MarkFails(r) PROVE Synced' /\ Merged'
  <2>1. run[r].pc = "mark" /\ UNCHANGED <<mark, node, stray, lost, lock>> /\ torn \subseteq torn' /\ run[r].cur \in torn'
    BY <1>2 DEF MarkFails
  <2>2. run'[r].pc = "docs" /\ \A q \in Runs \ {r} : run'[q] = run[q]
    BY <1>2, <2>1, NextDocTyped DEF MarkFails, InDoc
  <2> QED
    BY <2>1, <2>2, SyncQuiet
<1>3. ASSUME NEW r \in Runs, DocFails(r) PROVE Synced' /\ Merged'
  <2>1. UNCHANGED <<lost, lock>>
    BY <1>3 DEF DocFails
  <2>2. /\ \A q \in Runs \ {r} : run'[q] = run[q]
        /\ run'[r].pc = "docs" /\ run[r].pc \in {"check", "merge"}
        /\ run[r].cur \in Docs /\ torn \subseteq torn' /\ stray \subseteq stray'
        /\ \A i \in Items : node'[i] # node[i] => i = run[r].cur /\ (Holds(r) \/ i \in stray')
        /\ \A d \in Docs : mark'[d] # mark[d] => mark'[d].error
        /\ node'[run[r].cur] = node[run[r].cur] \/ run[r].cur \in torn' \/ mark'[run[r].cur].error
    BY <1>3, DocFailsTyped
  <2>3. Synced'
    <3> SUFFICES ASSUME NEW d \in Docs, mark'[d].gen # 0, ~mark'[d].error, mark'[d].gen \notin lost', d \notin torn', d \notin stray'
                 PROVE  node'[d] = mark'[d].hash \/ \E q \in Runs : run'[q].pc = "mark" /\ run'[q].cur = d
      BY DEF Synced, Untouched
    <3>1. mark'[d] = mark[d] /\ node'[d] = node[d]
      BY <2>2 DEF Items
    <3>2. node[d] = mark[d].hash \/ \E q \in Runs : run[q].pc = "mark" /\ run[q].cur = d
      BY <2>1, <2>2, <3>1 DEF Synced, Untouched
    <3> QED
      BY <2>2, <3>1, <3>2
  <2>4. Merged'
    <3> SUFFICES ASSUME NEW q \in Runs, run'[q].pc = "mark", lock' = q, run'[q].cur \notin stray', run'[q].gen \notin lost'
                 PROVE  node'[run'[q].cur] = run'[q].hash
      BY DEF Merged, Holds
    <3>1. q # r /\ run'[q] = run[q] /\ lock = q /\ ~Holds(r)
      BY <2>1, <2>2 DEF Holds
    <3>2. run[q].cur \in Items
      BY <3>1, RunTyped DEF RunOK, InDoc, Items
    <3>3. node'[run[q].cur] = node[run[q].cur]
      BY <2>2, <3>1, <3>2
    <3> QED
      BY <2>1, <2>2, <3>1, <3>3 DEF Merged, Holds
  <2> QED
    BY <2>3, <2>4
<1>4. ASSUME NEW r \in Runs, RunFails(r) \/ Crash(r) PROVE Synced' /\ Merged'
  <2>1. Exit(r) /\ lock' = (IF Holds(r) THEN NoRun ELSE lock) /\ UNCHANGED <<mark, node, stray, lost>> /\ torn \subseteq torn'
    BY <1>4 DEF RunFails, Crash
  <2>2. run[r].pc = "mark" => run[r].cur \in torn'
    BY <1>4 DEF RunFails, Crash
  <2>3. run'[r].pc = "idle" /\ \A q \in Runs \ {r} : run'[q] = run[q]
    BY <2>1 DEF Exit, Idle0, TypeOK
  <2>4. \A q \in Runs : lock' = q => lock = q
    BY <2>1, GraphAssumption
  <2> QED
    BY <2>1, <2>2, <2>3, <2>4, SyncQuiet
<1>5. CASE LoseLock
  <2>1. UNCHANGED <<mark, node, torn, lost, run>> /\ stray \subseteq stray' /\ lock' = NoRun
    BY <1>5 DEF LoseLock
  <2>2. \A q \in Runs : lock' # q
    BY <2>1, GraphAssumption
  <2> QED
    BY <2>1, <2>2 DEF Synced, Merged, Untouched, Holds
<1>6. CASE SwapStore
  <2>1. UNCHANGED <<mark, torn, stray, run, lock>> /\ lost' = lost \union InUse
    BY <1>6 DEF SwapStore
  <2>2. \A d \in Docs : mark[d].gen # 0 => mark[d].gen \in lost'
    BY <2>1 DEF InUse
  <2>3. \A q \in Runs : run[q].pc = "mark" => run[q].gen \in lost'
    BY <2>1, RunTyped DEF InUse, RunOK
  <2> QED
    BY <2>1, <2>2, <2>3 DEF Synced, Merged
<1> QED
  BY <1>1, <1>2, <1>3, <1>4, <1>5, <1>6 DEF Fault

-----------------------------------------------------------------------------
(* What an invocation has dealt with. *)

\* The other invocations are not disturbed: whoever holds the lock sees only writes
\* that are recorded as stray.
LEMMA OthersDealt ==
  ASSUME DealtWith, NEW r \in Runs, doc' = doc, stray \subseteq stray', lost \subseteq lost',
         \A q \in Runs \ {r} : run'[q] = run[q] /\ since'[q] = since[q],
         \A q \in Runs \ {r} : lock' = q => lock = q,
         \A i \in Items : node'[i] # node[i] \/ (i \in torn /\ i \notin torn') => Holds(r) \/ i \in stray'
  PROVE  \A q \in Runs \ {r} : SinceOK(q)' /\ DealtOK(q)'
<1> SUFFICES ASSUME NEW q \in Runs \ {r} PROVE SinceOK(q)' /\ DealtOK(q)'
  OBVIOUS
<1>1. SinceOK(q)'
  BY DEF DealtWith, SinceOK
<1>2. DealtOK(q)'
  <2> SUFFICES ASSUME lock' = q, run'[q].pc \notin Early, run'[q].ok, run'[q].gen \notin lost', NEW i \in Items, since'[q][i] # {},
                      i \notin run'[q].todo \union run'[q].btodo, i \notin torn', i \notin stray'
               PROVE  node'[i] \in since'[q][i]
    BY DEF DealtOK, Holds, Untouched
  <2>1. lock = q /\ ~Holds(r) /\ i \notin torn /\ i \notin stray /\ node'[i] = node[i]
    BY DEF Holds
  <2> QED
    BY <2>1 DEF DealtWith, DealtOK, Holds, Untouched
<1> QED
  BY <1>1, <1>2

\* A step that leaves the graph alone and drops nothing from the lists.
LEMMA DealtQuiet ==
  ASSUME DealtWith, NEW r \in Runs, UNCHANGED <<doc, node, since>>, torn \subseteq torn', stray \subseteq stray', lost \subseteq lost',
         \A q \in Runs \ {r} : run'[q] = run[q],
         \A q \in Runs : lock' = q /\ run'[q].pc \notin Early => lock = q,
         \A q \in Runs \ {r} : lock' = q => lock = q,
         run'[r].pc \in Early => run[r].pc \in Early,
         \/ ~run'[r].ok /\ run'[r].pc \notin Early
         \/ /\ run'[r].todo = run[r].todo /\ run'[r].btodo = run[r].btodo /\ (run'[r].ok => run[r].ok)
            /\ run'[r].pc \in Early \/ run'[r].gen = run[r].gen,
         run'[r].pc \in InDoc \union {"bmerge"} =>
           run'[r].hash = doc[run'[r].cur] \/ (run[r].pc \in InDoc \union {"bmerge"} /\ run'[r].cur = run[r].cur /\ run'[r].hash = run[r].hash)
  PROVE  DealtWith'
<1>1. \A q \in Runs \ {r} : SinceOK(q)' /\ DealtOK(q)'
  BY OthersDealt
<1>2. SinceOK(r)'
  <2> SUFFICES ASSUME NEW i \in Items, since[r][i] # {}
               PROVE  /\ doc[i] \in since[r][i]
                      /\ run'[r].pc \in Early => i \in run'[r].todo \union run'[r].btodo
                      /\ run'[r].pc \in InDoc \union {"bmerge"} /\ run'[r].cur = i => run'[r].hash \in since[r][i]
    BY DEF SinceOK
  <2> QED
    BY DEF DealtWith, SinceOK
<1>3. DealtOK(r)'
  <2> SUFFICES ASSUME lock' = r, run'[r].pc \notin Early, run'[r].ok, run'[r].gen \notin lost', NEW i \in Items, since[r][i] # {},
                      i \notin run'[r].todo \union run'[r].btodo, i \notin torn', i \notin stray'
               PROVE  node[i] \in since[r][i]
    BY DEF DealtOK, Holds, Untouched
  <2>1. lock = r /\ run[r].ok /\ run[r].gen \notin lost /\ i \notin run[r].todo \union run[r].btodo
    OBVIOUS
  <2>2. run[r].pc \notin Early
    BY <2>1 DEF DealtWith, SinceOK
  <2> QED
    BY <2>1, <2>2 DEF DealtWith, DealtOK, Holds, Untouched
<1> QED
  BY <1>1, <1>2, <1>3 DEF DealtWith

\* An invocation that ends has nothing listed.
LEMMA DealtExit ==
  ASSUME TypeOK, GraphAssumption, DealtWith, NEW r \in Runs, Exit(r), UNCHANGED <<doc, node>>, torn \subseteq torn', stray \subseteq stray', lost \subseteq lost',
         lock' = lock \/ lock' = NoRun
  PROVE  DealtWith'
<1>1. /\ run'[r].pc = "idle" /\ \A q \in Runs \ {r} : run'[q] = run[q] /\ since'[q] = since[q]
      /\ \A i \in Items : since'[r][i] = {}
  BY DEF Exit, Idle0, TypeOK
<1>2. \A q \in Runs \ {r} : lock' = q => lock = q
  BY GraphAssumption
<1>3. \A q \in Runs \ {r} : SinceOK(q)' /\ DealtOK(q)'
  BY <1>1, <1>2, OthersDealt
<1>4. SinceOK(r)' /\ DealtOK(r)'
  BY <1>1 DEF SinceOK, DealtOK
<1> QED
  BY <1>3, <1>4 DEF DealtWith

LEMMA StepDealt ==
  ASSUME GraphAssumption, TypeOK, RunsOK, LockOK, Synced, Merged, DealtWith, NEW r \in Runs, Step(r)
  PROVE  DealtWith'
<1> USE DEF pgVars, graphVars, hist, At
<1>1. CASE List(r)
  <2>1. UNCHANGED <<doc, node, torn, stray, lost, lock>>
    BY <1>1 DEF List
  <2>2. /\ \A q \in Runs \ {r} : run'[q] = run[q] /\ since'[q] = since[q]
        /\ run'[r].pc = "listed"
        /\ \A i \in Items : since'[r][i] # {} => doc[i] \in since'[r][i] /\ i \in run'[r].todo \union run'[r].btodo
    BY <1>1, ListTyped
  <2>3. \A q \in Runs \ {r} : SinceOK(q)' /\ DealtOK(q)'
    BY <2>1, <2>2, OthersDealt
  <2>4. SinceOK(r)'
    BY <2>1, <2>2 DEF SinceOK, InDoc
  <2>5. DealtOK(r)'
    BY <2>2 DEF DealtOK, Early
  <2> QED
    BY <2>3, <2>4, <2>5 DEF DealtWith
<1>2. CASE TryLock(r)
  <2>1. CASE lock = NoRun
    <3>1. run[r].pc = "listed" /\ lock' = r /\ UNCHANGED <<doc, node, torn, stray, lost, since>> /\ Become(r, "locked")
      BY <1>2, <2>1 DEF TryLock
    <3>2. run'[r].pc = "locked" /\ SameFields(r) /\ \A q \in Runs \ {r} : run'[q] = run[q]
      BY <3>1, BecomeTyped DEF Pcs, InDoc
    <3> QED
      BY <3>1, <3>2, DealtQuiet DEF Early, InDoc, SameFields
  <2>2. CASE lock # NoRun
    BY <1>2, <2>2, DealtExit DEF TryLock
  <2> QED
    BY <2>1, <2>2
<1>3. CASE Abandon(r)
  <2>1. run[r].pc = "locked" /\ UNCHANGED <<doc, node, torn, stray, lost, since, lock>> /\ Become(r, "cleared")
    BY <1>3 DEF Abandon
  <2>2. run'[r].pc = "cleared" /\ SameFields(r) /\ \A q \in Runs \ {r} : run'[q] = run[q]
    BY <2>1, BecomeTyped DEF Pcs, InDoc
  <2> QED
    BY <2>1, <2>2, DealtQuiet DEF Early, InDoc, SameFields
<1>4. CASE ChooseGeneration(r)
  <2>1. run[r].pc = "cleared" /\ UNCHANGED <<doc, node, torn, stray, lost, since, lock>>
    BY <1>4 DEF ChooseGeneration
  <2>2. run'[r].pc = "starting" /\ run'[r].todo = run[r].todo /\ run'[r].btodo = run[r].btodo /\ \A q \in Runs \ {r} : run'[q] = run[q]
    BY <1>4, ChooseTyped
  <2>3. run'[r].ok = run[r].ok
    BY <1>4, RunTyped DEF ChooseGeneration, TypeOK, RunState
  <2> QED
    BY <2>1, <2>2, <2>3, DealtQuiet DEF Early, InDoc
<1>5. CASE StartRun(r)
  <2>1. run[r].pc = "starting" /\ UNCHANGED <<doc, node, torn, stray, lost, since, lock>> /\ Become(r, "docs")
    BY <1>5 DEF StartRun
  <2>2. run'[r].pc = "docs" /\ SameFields(r) /\ \A q \in Runs \ {r} : run'[q] = run[q]
    BY <2>1, BecomeTyped, RunTyped DEF Pcs, InDoc, RunOK
  <2> QED
    BY <2>1, <2>2, DealtQuiet DEF Early, InDoc, SameFields
<1>6. CASE ReadDoc(r)
  <2>1. run[r].pc = "docs" /\ UNCHANGED <<doc, node, torn, stray, lost, since, lock>>
    BY <1>6 DEF ReadDoc
  <2>2. /\ \A q \in Runs \ {r} : run'[q] = run[q]
        /\ run'[r].btodo = run[r].btodo /\ run'[r].gen = run[r].gen
        /\ \/ run'[r].pc = "docs" /\ ~run'[r].ok
           \/ /\ run'[r].pc = "check" /\ run'[r].todo = run[r].todo /\ run'[r].ok = run[r].ok
              /\ run'[r].hash = doc[run'[r].cur]
    BY <1>6, ReadDocTyped
  <2> QED
    BY <2>1, <2>2, DealtQuiet DEF Early, InDoc
<1>7. CASE CheckMark(r)
  <2>1. run[r].pc = "check" /\ UNCHANGED <<doc, node, torn, stray, lost, since, lock>>
    BY <1>7 DEF CheckMark
  <2>2. CASE Unchanged(r)
    <3>1. /\ \A q \in Runs \ {r} : run'[q] = run[q]
          /\ run'[r].pc = "docs" /\ run'[r].todo = run[r].todo \ {run[r].cur} /\ run'[r].btodo = run[r].btodo
          /\ run'[r].gen = run[r].gen /\ (run'[r].ok => run[r].ok)
      BY <1>7, <2>1, <2>2, NextDocTyped DEF CheckMark, InDoc
    <3>2. \A q \in Runs \ {r} : SinceOK(q)' /\ DealtOK(q)'
      BY <2>1, <3>1, OthersDealt
    <3>3. SinceOK(r)'
      BY <2>1, <3>1 DEF DealtWith, SinceOK, InDoc, Early
    <3>4. DealtOK(r)'
      <4> SUFFICES ASSUME lock = r, run[r].ok, run[r].gen \notin lost, NEW i \in Items, since[r][i] # {},
                          i \notin run'[r].todo \union run'[r].btodo, i \notin torn, i \notin stray
                   PROVE  node[i] \in since[r][i]
        BY <2>1, <3>1 DEF DealtOK, Holds, Untouched
      <4>1. CASE i # run[r].cur
        BY <2>1, <3>1, <4>1 DEF DealtWith, DealtOK, Holds, Untouched, Early
      <4>2. CASE i = run[r].cur
        <5>1. i \in Docs /\ run[r].gen # 0
          BY <2>1, <4>2, RunTyped DEF RunOK, InDoc
        <5>2. mark[i].hash = run[r].hash /\ mark[i].gen = run[r].gen /\ ~mark[i].error
          BY <2>2, <4>2 DEF Unchanged
        <5>3. \A q \in Runs : ~(run[q].pc = "mark" /\ run[q].cur = i)
          BY <2>1 DEF LockOK, Holds
        <5>4. node[i] = run[r].hash
          BY <5>1, <5>2, <5>3 DEF Synced, Untouched
        <5> QED
          BY <2>1, <4>2, <5>4 DEF DealtWith, SinceOK, InDoc
      <4> QED
        BY <4>1, <4>2
    <3> QED
      BY <3>2, <3>3, <3>4 DEF DealtWith
  <2>3. CASE ~Unchanged(r)
    <3>1. Become(r, "merge")
      BY <1>7, <2>3 DEF CheckMark
    <3>2. run'[r].pc = "merge" /\ SameFields(r) /\ \A q \in Runs \ {r} : run'[q] = run[q]
      BY <2>1, <3>1, BecomeTyped, RunTyped DEF Pcs, InDoc, RunOK
    <3> QED
      BY <2>1, <3>2, DealtQuiet DEF Early, InDoc, SameFields
  <2> QED
    BY <2>2, <2>3
<1>8. CASE MergeDocument(r)
  <2>1. run[r].pc = "merge" /\ UNCHANGED <<doc, torn, lost, lock, since>> /\ WriteNode(r)
    BY <1>8 DEF MergeDocument
  <2>2. run'[r].pc = "mark" /\ SameFields(r) /\ \A q \in Runs \ {r} : run'[q] = run[q]
    BY <1>8, <2>1, RunTyped, BecomeTyped DEF MergeDocument, Pcs, InDoc, RunOK
  <2>3. run[r].cur \in Items /\ run[r].cur \in run[r].todo
    BY <2>1, RunTyped DEF RunOK, InDoc, Items
  <2>4. /\ \A i \in Items \ {run[r].cur} : node'[i] = node[i]
        /\ stray \subseteq stray' /\ (~Holds(r) => run[r].cur \in stray')
    BY <2>1, <2>3, WriteNodeFrame
  <2>5. \A q \in Runs \ {r} : SinceOK(q)' /\ DealtOK(q)'
    BY <2>1, <2>2, <2>4, OthersDealt
  <2>6. SinceOK(r)'
    BY <2>1, <2>2 DEF DealtWith, SinceOK, InDoc, Early, SameFields
  <2>7. DealtOK(r)'
    BY <2>1, <2>2, <2>3, <2>4 DEF DealtWith, DealtOK, Holds, Untouched, Early, SameFields
  <2> QED
    BY <2>5, <2>6, <2>7 DEF DealtWith
<1>9. CASE MarkSynced(r)
  <2>1. run[r].pc = "mark" /\ UNCHANGED <<doc, node, lost, lock, since>> /\ run[r].cur \in Docs
    BY <1>9, RunTyped DEF MarkSynced, RunOK, InDoc
  <2>2. /\ \A q \in Runs \ {r} : run'[q] = run[q]
        /\ run'[r].pc = "docs" /\ run'[r].todo = run[r].todo \ {run[r].cur} /\ run'[r].btodo = run[r].btodo
        /\ run'[r].gen = run[r].gen /\ (run'[r].ok => run[r].ok)
    BY <1>9, <2>1, NextDocTyped DEF MarkSynced, InDoc
  <2>3. stray \subseteq stray' /\ \A i \in Items : i \in torn /\ i \notin torn' => i = run[r].cur /\ Holds(r)
    BY <1>9 DEF MarkSynced
  <2>4. \A q \in Runs \ {r} : SinceOK(q)' /\ DealtOK(q)'
    BY <2>1, <2>2, <2>3, OthersDealt
  <2>5. SinceOK(r)'
    BY <2>1, <2>2 DEF DealtWith, SinceOK, InDoc, Early
  <2>6. DealtOK(r)'
    <3> SUFFICES ASSUME lock = r, run[r].ok, run[r].gen \notin lost, NEW i \in Items, since[r][i] # {},
                        i \notin run'[r].todo \union run'[r].btodo, i \notin torn', i \notin stray'
                 PROVE  node[i] \in since[r][i]
      BY <2>1, <2>2 DEF DealtOK, Holds, Untouched
    <3>1. CASE i # run[r].cur
      BY <2>1, <2>2, <2>3, <3>1 DEF DealtWith, DealtOK, Holds, Untouched, Early
    <3>2. CASE i = run[r].cur
      <4>1. node[i] = run[r].hash
        BY <2>1, <2>3, <3>2 DEF Merged, Holds
      <4> QED
        BY <2>1, <3>2, <4>1 DEF DealtWith, SinceOK, InDoc
    <3> QED
      BY <3>1, <3>2
  <2> QED
    BY <2>4, <2>5, <2>6 DEF DealtWith
<1>10. CASE LockFoundLost(r)
  BY <1>10, DealtExit DEF LockFoundLost
<1>11. CASE EndDocs(r)
  <2>1. run[r].pc = "docs" /\ UNCHANGED <<doc, node, torn, stray, lost, since, lock>> /\ Become(r, "buckets") /\ run[r].todo = {}
    BY <1>11 DEF EndDocs
  <2>2. run'[r].pc = "buckets" /\ SameFields(r) /\ \A q \in Runs \ {r} : run'[q] = run[q]
    BY <2>1, BecomeTyped, RunTyped DEF Pcs, InDoc, RunOK
  <2> QED
    BY <2>1, <2>2, DealtQuiet DEF Early, InDoc, SameFields
<1>12. CASE ReadBucket(r)
  <2>1. run[r].pc = "buckets" /\ UNCHANGED <<doc, node, torn, stray, lost, since, lock>>
    BY <1>12 DEF ReadBucket
  <2>2. /\ \A q \in Runs \ {r} : run'[q] = run[q]
        /\ run'[r].pc = "bmerge" /\ run'[r].todo = run[r].todo /\ run'[r].btodo = run[r].btodo
        /\ run'[r].gen = run[r].gen /\ run'[r].ok = run[r].ok /\ run'[r].hash = doc[run'[r].cur]
    BY <1>12, ReadBucketTyped
  <2> QED
    BY <2>1, <2>2, DealtQuiet DEF Early, InDoc
<1>13. CASE MergeBucket(r)
  <2>1. run[r].pc = "bmerge" /\ UNCHANGED <<doc, torn, lost, lock, since>> /\ run[r].cur \in Items
    BY <1>13, RunTyped DEF MergeBucket, RunOK, Items
  <2>2. /\ \A q \in Runs \ {r} : run'[q] = run[q]
        /\ run'[r].pc = "buckets" /\ run'[r].todo = run[r].todo /\ run'[r].btodo = run[r].btodo \ {run[r].cur}
        /\ run'[r].gen = run[r].gen /\ (run'[r].ok => run[r].ok)
        /\ WriteNode(r) \/ (UNCHANGED <<node, stray>> /\ ~run'[r].ok)
    BY <1>13, MergeBucketTyped
  <2>3. /\ \A i \in Items \ {run[r].cur} : node'[i] = node[i]
        /\ stray \subseteq stray' /\ (node' # node /\ ~Holds(r) => run[r].cur \in stray')
        /\ run'[r].ok => node'[run[r].cur] = run[r].hash
    BY <2>1, <2>2, WriteNodeFrame
  <2>4. \A q \in Runs \ {r} : SinceOK(q)' /\ DealtOK(q)'
    BY <2>1, <2>2, <2>3, OthersDealt
  <2>5. SinceOK(r)'
    BY <2>1, <2>2 DEF DealtWith, SinceOK, InDoc, Early
  <2>6. DealtOK(r)'
    <3> SUFFICES ASSUME lock = r, run[r].ok, run'[r].ok, run[r].gen \notin lost, NEW i \in Items, since[r][i] # {},
                        i \notin run'[r].todo \union run'[r].btodo, i \notin torn, i \notin stray'
                 PROVE  node'[i] \in since[r][i]
      BY <2>1, <2>2 DEF DealtOK, Holds, Untouched
    <3>1. CASE i # run[r].cur
      BY <2>1, <2>2, <2>3, <3>1 DEF DealtWith, DealtOK, Holds, Untouched, Early
    <3>2. CASE i = run[r].cur
      BY <2>1, <2>3, <3>2 DEF DealtWith, SinceOK
    <3> QED
      BY <3>1, <3>2
  <2> QED
    BY <2>4, <2>5, <2>6 DEF DealtWith
<1>14. CASE EndBuckets(r)
  <2>1. run[r].pc = "buckets" /\ UNCHANGED <<doc, node, torn, stray, lost, since, lock>>
    BY <1>14 DEF EndBuckets
  <2>2. /\ \A q \in Runs \ {r} : run'[q] = run[q]
        /\ run'[r].pc = "finish" /\ run'[r].todo = run[r].todo /\ run'[r].btodo = run[r].btodo
        /\ run'[r].gen = run[r].gen /\ (run'[r].ok => run[r].ok)
    BY <1>14, EndBucketsTyped
  <2> QED
    BY <2>1, <2>2, DealtQuiet DEF Early, InDoc
<1>15. CASE FinishRun(r)
  <2>1. run[r].pc = "finish" /\ UNCHANGED <<doc, node, torn, stray, lost, since, lock>> /\ Become(r, "release")
    BY <1>15 DEF FinishRun
  <2>2. run'[r].pc = "release" /\ SameFields(r) /\ \A q \in Runs \ {r} : run'[q] = run[q]
    BY <2>1, BecomeTyped, RunTyped DEF Pcs, InDoc, RunOK
  <2> QED
    BY <2>1, <2>2, DealtQuiet DEF Early, InDoc, SameFields
<1>16. CASE ReleaseLock(r)
  BY <1>16, DealtExit DEF ReleaseLock
<1> QED
  BY <1>1, <1>2, <1>3, <1>4, <1>5, <1>6, <1>7, <1>8, <1>9, <1>10, <1>11, <1>12, <1>13, <1>14, <1>15, <1>16 DEF Step

LEMMA OtherDealt ==
  ASSUME GraphAssumption, TypeOK, RunsOK, LockOK, DealtWith, Edit \/ Fault
  PROVE  DealtWith'
<1> USE DEF pgVars, graphVars, hist, At
<1>1. CASE Edit
  <2>1. UNCHANGED <<node, torn, stray, lost, run, lock>>
    BY <1>1 DEF Edit
  <2>2. PICK i \in Items, c \in Contents :
          /\ doc' = [doc EXCEPT ![i] = c]
          /\ since' = [r \in Runs |-> [since[r] EXCEPT ![i] = IF @ = {} THEN {} ELSE @ \union {c}]]
    BY <1>1 DEF Edit
  <2>3. ASSUME NEW r \in Runs, NEW j \in Items
        PROVE  /\ since[r][j] \subseteq since'[r][j] /\ (since'[r][j] # {} => since[r][j] # {})
               /\ doc'[j] = doc[j] \/ (since'[r][j] # {} => doc'[j] \in since'[r][j])
    BY <2>2 DEF TypeOK
  <2>4. ASSUME NEW r \in Runs PROVE SinceOK(r)'
    BY <2>1, <2>3 DEF DealtWith, SinceOK
  <2>5. ASSUME NEW r \in Runs PROVE DealtOK(r)'
    BY <2>1, <2>3 DEF DealtWith, DealtOK, Holds, Untouched
  <2> QED
    BY <2>4, <2>5 DEF DealtWith
<1>2. ASSUME NEW r \in Runs, MarkFails(r) PROVE DealtWith'
  <2>1. run[r].pc = "mark" /\ UNCHANGED <<doc, node, since, stray, lost, lock>> /\ torn \subseteq torn'
    BY <1>2 DEF MarkFails
  <2>2. run'[r].pc = "docs" /\ ~run'[r].ok /\ \A q \in Runs \ {r} : run'[q] = run[q]
    BY <1>2, <2>1, NextDocTyped DEF MarkFails, InDoc
  <2> QED
    BY <2>1, <2>2, DealtQuiet DEF Early, InDoc
<1>3. ASSUME NEW r \in Runs, DocFails(r) PROVE DealtWith'
  <2>1. UNCHANGED <<doc, since, lost, lock>>
    BY <1>3 DEF DocFails
  <2>2. /\ \A q \in Runs \ {r} : run'[q] = run[q]
        /\ run'[r].pc = "docs" /\ ~run'[r].ok /\ torn \subseteq torn' /\ stray \subseteq stray'
        /\ \A i \in Items : node'[i] # node[i] => i = run[r].cur /\ (Holds(r) \/ i \in stray')
    BY <1>3, DocFailsTyped
  <2>3. \A q \in Runs \ {r} : SinceOK(q)' /\ DealtOK(q)'
    BY <2>1, <2>2, OthersDealt
  <2>4. SinceOK(r)'
    BY <2>1, <2>2 DEF DealtWith, SinceOK, InDoc, Early
  <2>5. DealtOK(r)'
    BY <2>2 DEF DealtOK
  <2> QED
    BY <2>3, <2>4, <2>5 DEF DealtWith
<1>4. ASSUME NEW r \in Runs, RunFails(r) \/ Crash(r) PROVE DealtWith'
  BY <1>4, DealtExit DEF RunFails, Crash
<1>5. CASE LoseLock
  <2>1. UNCHANGED <<doc, node, since, torn, lost, run>> /\ stray \subseteq stray' /\ lock' = NoRun
    BY <1>5 DEF LoseLock
  <2>2. \A q \in Runs : lock' # q
    BY <2>1, GraphAssumption
  <2> QED
    BY <2>1, <2>2 DEF DealtWith, SinceOK, DealtOK, Holds
<1>6. CASE SwapStore
  <2>1. UNCHANGED <<doc, since, torn, stray, run, lock>> /\ lost' = lost \union InUse
    BY <1>6 DEF SwapStore
  <2>2. \A q \in Runs : run[q].pc \notin Early => run[q].gen \in lost'
    BY <2>1, RunTyped DEF InUse, RunOK, Early
  <2> QED
    BY <2>1, <2>2 DEF DealtWith, SinceOK, DealtOK
<1> QED
  BY <1>1, <1>2, <1>3, <1>4, <1>5, <1>6 DEF Fault

-----------------------------------------------------------------------------
(* The theorem. *)

LEMMA InitHolds == GraphAssumption /\ Init => GraphInv
PROOF
<1> SUFFICES ASSUME GraphAssumption, Init PROVE GraphInv
  OBVIOUS
<1>1. Idle0 \in RunState /\ RunOK(Idle0) /\ Idle0.pc = "idle" /\ Idle0.todo = {} /\ Idle0.btodo = {}
  BY DEF Idle0, RunState, RunOK, Pcs, Scope, InDoc
<1>2. NoMark \in [hash : Contents \union {Absent}, gen : Nat, error : BOOLEAN] /\ NoMark.gen = 0
  BY DEF NoMark
<1>3. Row0 \in RowType /\ ~Row0.open /\ Row0.status = "none"
  BY DEF Row0, RowType, RowStatus, Scope
<1>4. TypeOK
  BY <1>1, <1>2, <1>3 DEF Init, TypeOK, RowType
<1>5. RunsOK
  BY <1>1 DEF Init, RunsOK
<1>6. LockOK /\ RowsOK
  BY <1>1, <1>3, GraphAssumption DEF Init, LockOK, RowsOK, Holds, At, Working
<1>7. Synced /\ Merged
  BY <1>1, <1>2 DEF Init, Synced, Merged, At
<1>8. DealtWith
  BY <1>1 DEF Init, DealtWith, SinceOK, DealtOK
<1> QED
  BY <1>4, <1>5, <1>6, <1>7, <1>8 DEF GraphInv

LEMMA StepHolds == GraphAssumption /\ GraphInv /\ [Next]_vars => GraphInv'
PROOF
<1> SUFFICES ASSUME GraphAssumption, GraphInv, [Next]_vars PROVE GraphInv'
  OBVIOUS
<1> USE DEF GraphInv
<1>1. ASSUME NEW r \in Runs, Step(r) PROVE GraphInv'
  BY <1>1, StepTypes, StepLocks, StepSync, StepDealt
<1>2. ASSUME Edit \/ Fault PROVE GraphInv'
  BY <1>2, OtherTypes, OtherLocks, OtherSync, OtherDealt
<1>3. CASE UNCHANGED vars
  <2>1. TypeOK' /\ RunsOK' /\ LockOK' /\ RowsOK'
    BY <1>3 DEF vars, TypeOK, RunsOK, LockOK, RowsOK, Holds, At
  <2>2. Synced' /\ Merged' /\ DealtWith'
    BY <1>3 DEF vars, Synced, Merged, DealtWith, SinceOK, DealtOK, Untouched, Holds, At
  <2> QED
    BY <2>1, <2>2
<1> QED
  BY <1>1, <1>2, <1>3 DEF Next

\* The invariant says what is promised.
LEMMA WhatIsPromised == GraphInv => GraphIsTrue
PROOF
<1> SUFFICES ASSUME GraphInv PROVE GraphIsTrue
  OBVIOUS
<1> USE DEF GraphInv
<1>1. SkipIsSound
  BY DEF SkipIsSound, Excused, Synced, Untouched, At
<1>2. CompletedIsFresh
  <2> SUFFICES ASSUME NEW r \in Runs, At(r, "release"), rows[r].status = "completed", Holds(r), marker = run[r].gen,
                      NEW i \in Items, since[r][i] # {}, ~Excused(i)
               PROVE  node[i] \in since[r][i]
    BY DEF CompletedIsFresh
  <2>1. run[r].ok /\ run[r].gen \notin lost /\ Untouched(i)
    BY DEF RowsOK, Excused, Untouched
  <2>2. run[r].todo = {} /\ run[r].btodo = {}
    BY DEF RunsOK, RunOK, At
  <2> QED
    BY <2>1, <2>2 DEF DealtWith, DealtOK, At, Early
<1>3. AbandonedHoldNoLock
  <2> SUFFICES ASSUME NEW r \in Runs, rows[r].status = "abandoned", Holds(r) PROVE run[r].pc \in {"locked", "cleared", "starting"}
    BY DEF AbandonedHoldNoLock
  <2>1. run[r].pc \in Pcs /\ run[r].pc \notin {"idle", "listed"} /\ run[r].pc \notin Working
    BY RunTyped DEF LockOK, RowsOK
  <2>2. run[r].pc # "release"
    BY DEF RowsOK, At
  <2> QED
    BY <2>1, <2>2 DEF Pcs, Working
<1>4. ProgressShown
  <2> SUFFICES ASSUME NEW r \in Runs, Holds(r), run[r].scope = "full", run[r].pc \in Pcs \ {"locked", "cleared", "starting", "release"}
               PROVE  InProgress \/ (latest # r /\ ~rows[latest].open)
    BY DEF ProgressShown
  <2>1. run[r].pc \in Working
    BY DEF LockOK, Pcs, Working
  <2>2. CASE latest = r
    BY <2>1, <2>2, GraphAssumption DEF RowsOK, InProgress, RunLiveness
  <2>3. CASE latest # r
    BY <2>1, <2>3 DEF RowsOK, Holds
  <2> QED
    BY <2>2, <2>3
<1> QED
  BY <1>1, <1>2, <1>3, <1>4 DEF GraphIsTrue

\* What a run skips is in the graph, what it calls completed is as fresh as its
\* listing, only runs that are over or have lost the lock are called abandoned, and the
\* status page shows the run that works: sync_cli.py, pipeline.py, routers/graph.py.
THEOREM GraphAgrees == Spec => []GraphIsTrue
PROOF
<1>1. Init => GraphInv
  BY GraphAssumption, InitHolds
<1>2. GraphInv /\ [Next]_vars => GraphInv'
  BY GraphAssumption, StepHolds
<1>3. GraphInv => GraphIsTrue
  BY WhatIsPromised
<1> QED
  BY <1>1, <1>2, <1>3, PTL DEF Spec
=============================================================================
