---------------------------- MODULE IndexProofs ----------------------------
(***************************************************************************)
(* The documents' active chunks are one generation and vectors belong to     *)
(* them, for any number of documents, ingests and embedding jobs, whatever   *)
(* dies.  What a job writes it has read some steps earlier, so the invariant *)
(* says of everything a job has in hand how it stands to the tables now.     *)
(***************************************************************************)
EXTENDS IndexStore, FiniteSetTheorems, TLAPS

-----------------------------------------------------------------------------
(* The invariant. *)

\* What an ingest holds between reading a document and its flush: the chunks it will
\* retire are its document's, all that are active unless another ingest wrote it in the
\* meantime, and the vectors it will drop all they have but for late ones.
JobOK(k) ==
  /\ k.pc = "idle" => k.dirty = {}
  /\ k.pc \in Holding => k.doc \notin k.todo /\ \A x \in k.dirty : x.doc # k.doc
  /\ \A x \in k.dirty : x.doc \notin k.todo
  /\ k.pc \notin {"delete", "flush"} => k.old = {}
  /\ k.drop \subseteq k.old
  /\ \A c \in k.old : chunk[c].doc = k.doc
  /\ k.pc \in {"delete", "flush"} => IF k.new THEN k.old = {} ELSE ~k.stale => Active(k.doc) \subseteq k.old
  /\ k.pc = "flush" => \A c \in k.old \intersect vec : c \in k.drop \union late
\* The same of what is flushed and not committed, and the id of its new chunk.
DraftOK(x) ==
  /\ \A c \in x.old : chunk[c].doc = x.doc
  /\ ~x.stale => Active(x.doc) \subseteq x.old
  /\ \A c \in x.old \intersect vec : c \in x.drop \union late
  /\ x.id = 0 <=> x.body \in Empty
  /\ x.id # 0 => ~chunk[x.id].active
JobsOK == (\A i \in DOMAIN ing : JobOK(ing[i])) /\ \A x \in Drafts : DraftOK(x)
\* A document is written by one transaction at a time, and once in it; an id given to
\* an insert is nobody else's, and no job refers to it.
WritersApart == \A i, j \in DOMAIN ing : \A x \in ing[i].dirty, y \in ing[j].dirty : x.doc = y.doc => i = j /\ x = y
IdsApart ==
  /\ \A x, y \in Drafts : x.id = y.id /\ x.id # 0 => x = y
  /\ \A c \in Given : c \notin vec /\ c \notin OnTheWay /\ c \notin Retiring
NoRowNoChunks == \A d \in Docs : row[d] = Never => Active(d) = {}
\* A chunk on its way to a vector is active, or was retired since.
OnTheWayActive == \A c \in OnTheWay : chunk[c].active \/ c \in late
FreshInBatch == \A e \in DOMAIN emb : emb[e].fresh \subseteq emb[e].batch /\ (emb[e].pc # "insert" => emb[e].fresh = {})
InHandInv == JobsOK /\ WritersApart /\ IdsApart /\ NoRowNoChunks /\ OnTheWayActive /\ FreshInBatch
IndexInv == ChunksAgree /\ InHandInv

-----------------------------------------------------------------------------
(* Types. *)

LEMMA InitTypes == IndexAssumption /\ IndexInit => IndexTypeOK
PROOF
<1> SUFFICES ASSUME IndexAssumption, IndexInit PROVE IndexTypeOK
  OBVIOUS
<1> USE DEF IndexAssumption, IndexInit, Never, Free
<1>1. PICK t \in Teams : ing = [i \in Ingesters \intersect t |-> IdleIngest] /\ emb = [e \in Embedders \intersect t |-> IdleEmbed]
  OBVIOUS
<1>2. IdleIngest \in IngestState /\ IdleIngest.pc \notin Holding
  BY DEF IdleIngest, IngestState, Holding
<1>3. IdleEmbed \in EmbedState
  BY DEF IdleEmbed, EmbedState
<1> QED
  BY <1>1, <1>2, <1>3 DEF IndexTypeOK

\* A step of one ingest before its commit changes what it has in memory, into something
\* of its type.
IngestTyped(k) == k \in IngestState /\ (k.pc \in Holding => k.doc \in Docs /\ k.body \in Nat)

LEMMA HaveTyped ==
  ASSUME IndexTypeOK, NEW i \in DOMAIN ing, NEW k, IngestTyped(k), Have(i, k),
         UNCHANGED <<file, row, item, chunk, vec, emb, raced, late, faults>>
  PROVE  IndexTypeOK' /\ DOMAIN ing' = DOMAIN ing
PROOF
<1>1. ing' = [ing EXCEPT ![i] = k] /\ DOMAIN ing' = DOMAIN ing
  BY DEF Have
<1>2. \A j \in DOMAIN ing : ing'[j] = IF j = i THEN k ELSE ing[j]
  BY <1>1 DEF IndexTypeOK
<1>3. ing' \in [DOMAIN ing' -> IngestState]
  BY <1>1 DEF IndexTypeOK, IngestTyped
<1>4. \A j \in DOMAIN ing' : ing'[j].pc \in Holding => ing'[j].doc \in Docs /\ ing'[j].body \in Nat
  BY <1>1, <1>2 DEF IndexTypeOK, IngestTyped
<1> QED
  BY <1>1, <1>3, <1>4 DEF IndexTypeOK

LEMMA AfterDocTyped == \A k \in IngestState : AfterDoc(k) \in IngestState /\ AfterDoc(k).pc \in {"next", "commit"}
PROOF
<1> SUFFICES ASSUME NEW k \in IngestState PROVE AfterDoc(k) \in IngestState /\ AfterDoc(k).pc \in {"next", "commit"}
  OBVIOUS
<1>1. PICK pc \in {"next", "commit"} :
        AfterDoc(k) = [k EXCEPT !.pc = pc, !.count = @ + 1, !.doc = Never, !.old = {}, !.drop = {}, !.stale = FALSE]
  BY DEF AfterDoc
<1>2. PICK n \in Nat : n = k.count + 1
  BY DEF IngestState
<1>3. AfterDoc(k) = [k EXCEPT !.pc = pc, !.count = n, !.doc = Never, !.old = {}, !.drop = {}, !.stale = FALSE]
  BY <1>1, <1>2
<1> QED
  BY <1>3 DEF IngestState

LEMMA StepTypes == IndexAssumption /\ IndexTypeOK /\ [IndexNext]_indexVars => IndexTypeOK'
PROOF
<1> SUFFICES ASSUME IndexAssumption, IndexTypeOK, [IndexNext]_indexVars PROVE IndexTypeOK'
  OBVIOUS
<1>0. CASE UNCHANGED indexVars
  BY <1>0 DEF indexVars, IndexTypeOK
<1>1. ASSUME NEW d \in Docs, Edit(d) PROVE IndexTypeOK'
  BY <1>1 DEF Edit, IndexTypeOK
<1>2. ASSUME NEW i \in DOMAIN ing, IngestStep(i) PROVE IndexTypeOK'
  <2>0. ing[i] \in IngestState
    BY DEF IndexTypeOK
  <2>1. CASE StartIngest(i)
    <3>1. IngestTyped([IdleIngest EXCEPT !.pc = "next", !.todo = Docs])
      BY DEF IngestTyped, IdleIngest, IngestState, Holding, Never
    <3> QED
      BY <2>1, <3>1, HaveTyped DEF StartIngest
  <2>2. CASE NextDraft(i)
    <3>1. PICK d \in ing[i].todo : LET k == [ing[i] EXCEPT !.todo = @ \ {d}, !.doc = d, !.body = file[d], !.new = row[d] = Never]
                                   IN Have(i, IF Same(d) THEN AfterDoc(k) ELSE [k EXCEPT !.pc = "load"])
      BY <2>2 DEF NextDraft
    <3> DEFINE k == [ing[i] EXCEPT !.todo = @ \ {d}, !.doc = d, !.body = file[d], !.new = row[d] = Never]
    <3>2. d \in Docs /\ file[d] \in Nat /\ (row[d] = Never) \in BOOLEAN
      BY <2>0 DEF IngestState, IndexTypeOK
    <3>3. k \in IngestState /\ k.doc = d /\ k.body = file[d]
      BY <2>0, <3>2 DEF IngestState
    <3>4. IngestTyped(AfterDoc(k))
      BY <3>3, AfterDocTyped DEF IngestTyped, Holding
    <3>5. IngestTyped([k EXCEPT !.pc = "load"])
      <4> HIDE DEF k
      <4> QED
        BY <3>2, <3>3 DEF IngestTyped, IngestState
    <3> QED
      BY <2>2, <3>1, <3>4, <3>5, HaveTyped DEF NextDraft
  <2>3. CASE LoadChunks(i)
    <3> DEFINE S == IF ing[i].new THEN {} ELSE ChunksOf(ing[i].doc)
    <3>1. S \in SUBSET Ids /\ ing[i].doc \in Docs /\ ing[i].body \in Nat
      BY <2>3 DEF ChunksOf, LoadChunks, IndexTypeOK, Holding
    <3> HIDE DEF S
    <3>2. IngestTyped([ing[i] EXCEPT !.pc = "delete", !.old = S])
      BY <2>0, <3>1 DEF IngestTyped, IngestState
    <3> QED
      BY <2>3, <3>2, HaveTyped DEF LoadChunks, S
  <2>4. CASE DeleteVectors(i)
    <3>1. IngestTyped([ing[i] EXCEPT !.pc = "flush", !.drop = ing[i].old \intersect vec])
      BY <2>0, <2>4 DEF IngestTyped, IngestState, DeleteVectors, IndexTypeOK, Holding
    <3> QED
      BY <2>4, <3>1, HaveTyped DEF DeleteVectors
  <2>5. CASE Flush(i)
    <3>1. PICK c \in IF ing[i].body \in Empty THEN {0} ELSE Spare :
            Have(i, AfterDoc([ing[i] EXCEPT !.dirty = @ \union {[doc |-> ing[i].doc, body |-> ing[i].body,
                      old |-> ing[i].old, drop |-> ing[i].drop, stale |-> ing[i].stale, id |-> c]}]))
      BY <2>5 DEF Flush
    <3> DEFINE x == [doc |-> ing[i].doc, body |-> ing[i].body, old |-> ing[i].old, drop |-> ing[i].drop, stale |-> ing[i].stale, id |-> c]
    <3>2. x \in Draft
      BY <2>0, <2>5, <3>1 DEF Draft, IngestState, Flush, IndexTypeOK, Holding, Spare
    <3> HIDE DEF x
    <3>3. [ing[i] EXCEPT !.dirty = @ \union {x}] \in IngestState
      BY <2>0, <3>2 DEF IngestState
    <3>4. IngestTyped(AfterDoc([ing[i] EXCEPT !.dirty = @ \union {x}]))
      BY <3>3, AfterDocTyped DEF IngestTyped, Holding
    <3> QED
      BY <2>5, <3>1, <3>4, HaveTyped DEF Flush, x
  <2>6. CASE InsertClash(i)
    <3>0. PICK n \in Nat : n = ing[i].count + 1
      BY <2>0 DEF IngestState
    <3>1. IngestTyped([ing[i] EXCEPT !.pc = "next", !.count = n, !.doc = Never, !.stale = FALSE])
      BY <2>0 DEF IngestTyped, IngestState, Holding
    <3> QED
      BY <2>6, <3>0, <3>1, HaveTyped DEF InsertClash
  <2>7. CASE Commit(i)
    <3> USE <2>7
    <3>1. ing[i].dirty \subseteq Draft
      BY <2>0 DEF IngestState
    <3>2. row' \in [Docs -> Nat \union {Never}] /\ item' \in [Docs -> Nat \union {Never}]
      <4>1. \A d \in Docs : d \in {x.doc : x \in ing[i].dirty} => (CHOOSE x \in ing[i].dirty : x.doc = d).body \in Nat
        BY <3>1 DEF Draft
      <4> QED
        BY <4>1 DEF Commit, IndexTypeOK
    <3>3. chunk' \in [Ids -> [doc : Docs \union {Never}, body : Nat \union {Never}, active : BOOLEAN]]
      <4> DEFINE n(c) == IF \E x \in ing[i].dirty : x.id = c
             THEN LET x == CHOOSE y \in ing[i].dirty : y.id = c IN [doc |-> x.doc, body |-> x.body, active |-> TRUE]
             ELSE [chunk[c] EXCEPT !.active = @ /\ c \notin UNION {Retired(x) : x \in ing[i].dirty}]
      <4>1. chunk' = [c \in Ids |-> n(c)]
        BY DEF Commit
      <4>2. ASSUME NEW c \in Ids PROVE n(c) \in [doc : Docs \union {Never}, body : Nat \union {Never}, active : BOOLEAN]
        <5>1. CASE \E x \in ing[i].dirty : x.id = c
          <6> DEFINE x == CHOOSE y \in ing[i].dirty : y.id = c
          <6>1. x \in Draft
            BY <3>1, <5>1
          <6> HIDE DEF x
          <6>2. [doc |-> x.doc, body |-> x.body, active |-> TRUE] \in [doc : Docs \union {Never}, body : Nat \union {Never}, active : BOOLEAN]
            BY <6>1 DEF Draft
          <6> QED
            BY <5>1, <6>2 DEF x
        <5>2. CASE ~ \E x \in ing[i].dirty : x.id = c
          <6>1. chunk[c] \in [doc : Docs \union {Never}, body : Nat \union {Never}, active : BOOLEAN]
            BY DEF IndexTypeOK
          <6>2. \A b \in BOOLEAN : [chunk[c] EXCEPT !.active = b] \in [doc : Docs \union {Never}, body : Nat \union {Never}, active : BOOLEAN]
            BY <6>1
          <6> QED
            BY <5>2, <6>2
        <5> QED
          BY <5>1, <5>2
      <4> HIDE DEF n
      <4> QED
        BY <4>1, <4>2
    <3>4. vec' \subseteq Ids /\ raced' \subseteq Docs /\ late' \subseteq Ids
      <4>1. OnTheWay \subseteq Ids
        BY DEF OnTheWay, IndexTypeOK, EmbedState
      <4> QED
        BY <4>1 DEF Commit, IndexTypeOK
    <3>5. /\ DOMAIN ing' = DOMAIN ing /\ ing' \in [DOMAIN ing' -> IngestState]
          /\ \A j \in DOMAIN ing' : ing'[j].pc \in Holding => ing'[j].doc \in Docs /\ ing'[j].body \in Nat
      <4> DEFINE n(j) == IF j # i THEN [ing[j] EXCEPT !.stale = @ \/ (ing[j].pc \in {"delete", "flush"} /\ ing[j].doc \in {x.doc : x \in ing[i].dirty})]
                         ELSE IF ing[i].pc = "commit" THEN [ing[i] EXCEPT !.pc = "next", !.dirty = {}] ELSE IdleIngest
      <4>1. ing' = [j \in DOMAIN ing |-> n(j)]
        BY DEF Commit
      <4>2. ASSUME NEW j \in DOMAIN ing PROVE IngestTyped(n(j))
        <5>0. ing[j] \in IngestState /\ IngestTyped(ing[j])
          BY DEF IndexTypeOK, IngestTyped
        <5>1. CASE j # i
          <6>1. \A b \in BOOLEAN : IngestTyped([ing[j] EXCEPT !.stale = b])
            BY <5>0 DEF IngestTyped, IngestState
          <6> QED
            BY <5>0, <5>1, <6>1 DEF IngestState
        <5>2. IngestTyped(IdleIngest)
          BY DEF IngestTyped, IdleIngest, IngestState, Holding, Never
        <5>3. IngestTyped([ing[i] EXCEPT !.pc = "next", !.dirty = {}])
          BY <2>0 DEF IngestTyped, IngestState, Holding
        <5> QED
          BY <5>1, <5>2, <5>3
      <4> HIDE DEF n
      <4> QED
        BY <4>1, <4>2 DEF IngestTyped
    <3> QED
      BY <3>2, <3>3, <3>4, <3>5 DEF Commit, IndexTypeOK
  <2> QED
    BY <1>2, <2>1, <2>2, <2>3, <2>4, <2>5, <2>6, <2>7 DEF IngestStep
<1>3. ASSUME NEW e \in DOMAIN emb, EmbedStep(e) PROVE IndexTypeOK'
  <2>0. emb[e] \in EmbedState
    BY DEF IndexTypeOK
  <2>1. CASE StartEmbed(e)
    <3>1. [emb[e] EXCEPT !.pc = "fetch"] \in EmbedState
      BY <2>0 DEF EmbedState
    <3> QED
      BY <2>1, <3>1 DEF StartEmbed, IndexTypeOK
  <2>2. CASE Fetch(e)
    <3> DEFINE batch == FirstOf(Unembedded(emb[e].after))
    <3>1. batch \in SUBSET Ids
      BY DEF FirstOf, Unembedded
    <3> HIDE DEF batch
    <3>2. IdleEmbed \in EmbedState
      BY DEF IdleEmbed, EmbedState
    <3>3. \A last \in batch : [emb[e] EXCEPT !.pc = "encode", !.batch = batch, !.after = last] \in EmbedState
      BY <2>0, <3>1 DEF EmbedState, IndexAssumption
    <3>4. emb' = [emb EXCEPT ![e] = IdleEmbed] \/ \E last \in batch : emb' = [emb EXCEPT ![e] = [@ EXCEPT !.pc = "encode", !.batch = batch, !.after = last]]
      BY <2>2 DEF Fetch, batch
    <3> QED
      BY <2>2, <3>2, <3>3, <3>4, ZenonT(40) DEF Fetch, IndexTypeOK
  <2>3. CASE EncodeFails(e)
    <3>1. [emb[e] EXCEPT !.pc = "fetch", !.batch = {}] \in EmbedState
      BY <2>0 DEF EmbedState
    <3> QED
      BY <2>3, <3>1 DEF EncodeFails, IndexTypeOK
  <2>4. CASE LookUp(e)
    <3>1. [emb[e] EXCEPT !.pc = "insert", !.fresh = emb[e].batch \ vec] \in EmbedState
      BY <2>0 DEF EmbedState
    <3> QED
      BY <2>4, <3>1 DEF LookUp, IndexTypeOK
  <2>5. CASE Insert(e)
    <3>1. [emb[e] EXCEPT !.pc = "fetch", !.batch = {}, !.fresh = {}] \in EmbedState
      BY <2>0 DEF EmbedState
    <3>2. emb[e].fresh \subseteq Ids
      BY <2>0 DEF EmbedState
    <3> QED
      BY <2>5, <3>1, <3>2 DEF Insert, IndexTypeOK
  <2>6. CASE InsertFails(e)
    <3>1. IdleEmbed \in EmbedState
      BY DEF IdleEmbed, EmbedState
    <3> QED
      BY <2>6, <3>1 DEF InsertFails, IndexTypeOK
  <2> QED
    BY <1>3, <2>1, <2>2, <2>3, <2>4, <2>5, <2>6 DEF EmbedStep
<1>4. CASE CrashJob
  <2>1. IngestTyped(IdleIngest) /\ IdleEmbed \in EmbedState
    BY DEF IngestTyped, IdleIngest, IngestState, Holding, Never, IdleEmbed, EmbedState
  <2>2. faults' \in Nat
    BY <1>4 DEF CrashJob, IndexTypeOK
  <2>3. ASSUME NEW i \in DOMAIN ing, ing' = [ing EXCEPT ![i] = IdleIngest]
        PROVE  /\ ing' \in [DOMAIN ing' -> IngestState]
               /\ \A j \in DOMAIN ing' : ing'[j].pc \in Holding => ing'[j].doc \in Docs /\ ing'[j].body \in Nat
    BY <2>1, <2>3 DEF IngestTyped, IndexTypeOK
  <2>4. ASSUME NEW e \in DOMAIN emb, emb' = [emb EXCEPT ![e] = IdleEmbed]
        PROVE  emb' \in [DOMAIN emb' -> EmbedState]
    BY <2>1, <2>4 DEF IndexTypeOK
  <2> QED
    BY <1>4, <2>2, <2>3, <2>4 DEF CrashJob, IndexTypeOK
<1> QED
  BY <1>0, <1>1, <1>2, <1>3, <1>4 DEF IndexNext

\* The tables, and what every job has in hand, keep their types.
THEOREM IndexTypes == IndexSpec => []IndexTypeOK
PROOF
<1>1. IndexInit => IndexTypeOK
  BY InitTypes, IndexAssumption
<1>2. IndexTypeOK /\ [IndexNext]_indexVars => IndexTypeOK'
  BY StepTypes, IndexAssumption
<1> QED
  BY <1>1, <1>2, PTL DEF IndexSpec

-----------------------------------------------------------------------------
(* What the jobs have in hand. *)

LEMMA InitInv == IndexAssumption /\ IndexInit => IndexInv
PROOF
<1> SUFFICES ASSUME IndexAssumption, IndexInit PROVE IndexInv
  OBVIOUS
<1>1. IndexTypeOK
  BY InitTypes
<1>2. PICK t \in Teams : ing = [i \in Ingesters \intersect t |-> IdleIngest] /\ emb = [e \in Embedders \intersect t |-> IdleEmbed]
  BY DEF IndexInit
<1>3. \A i \in DOMAIN ing : ing[i] = IdleIngest
  BY <1>2
<1>4. \A e \in DOMAIN emb : emb[e] = IdleEmbed
  BY <1>2
<1>5. Drafts = {} /\ Given = {}
  BY <1>3 DEF Drafts, Given, IdleIngest
<1>6. OnTheWay = {} /\ FreshInBatch
  BY <1>4 DEF OnTheWay, FreshInBatch, IdleEmbed
<1>7. JobsOK
  BY <1>3, <1>5 DEF JobsOK, JobOK, IdleIngest, Holding
<1>8. WritersApart /\ IdsApart
  BY <1>3, <1>5 DEF WritersApart, IdsApart, IdleIngest
<1>9. NoRowNoChunks /\ OneGeneration /\ VectorsFollow
  BY DEF IndexInit, NoRowNoChunks, OneGeneration, VectorsFollow, Active, Free
<1> QED
  BY <1>1, <1>5, <1>6, <1>7, <1>8, <1>9 DEF IndexInv, InHandInv, ChunksAgree, OnTheWayActive

\* While tables and late vectors stay as they are, so does what is said of a job.
LEMMA SameTables ==
  ASSUME UNCHANGED <<chunk, vec, late>>
  PROVE  \A k : (JobOK(k) => JobOK(k)') /\ (DraftOK(k) => DraftOK(k)') /\ Active(k)' = Active(k)
  BY DEF JobOK, DraftOK, Active

LEMMA RetiringMeans ==
  \A c : /\ c \in Retiring <=> (\E i \in DOMAIN ing : c \in ing[i].old) \/ \E x \in Drafts : c \in x.old
         /\ c \in Retiring' <=> (\E i \in DOMAIN ing' : c \in ing'[i].old) \/ \E x \in Drafts' : c \in x.old
  BY DEF Retiring

\* A step that changes only what one ingest has in hand.
LEMMA IngestKeeps ==
  ASSUME IndexInv, IndexTypeOK', NEW i \in DOMAIN ing, NEW k, Have(i, k),
         UNCHANGED <<row, item, chunk, vec, emb, raced, late>>,
         k.dirty \subseteq ing[i].dirty, k.old \intersect Given = {}, JobOK(k)
  PROVE  IndexInv'
PROOF
<1> USE DEF IndexInv, InHandInv
<1>1. DOMAIN ing' = DOMAIN ing /\ \A j \in DOMAIN ing : ing'[j] = IF j = i THEN k ELSE ing[j]
  BY DEF Have, ChunksAgree, IndexTypeOK
<1>2. \A j \in DOMAIN ing : ing'[j].dirty \subseteq ing[j].dirty
  BY <1>1
<1>3. Drafts' \subseteq Drafts
  BY <1>1, <1>2 DEF Drafts
<1>4. Given' \subseteq Given
  BY <1>3 DEF Given
<1>5. OnTheWay' = OnTheWay
  BY DEF OnTheWay
<1>6. \A c \in Given : c \notin Retiring'
  <2>1. \A j \in DOMAIN ing : \A c \in ing[j].old : c \notin Given
    BY RetiringMeans DEF IdsApart
  <2>2. \A j \in DOMAIN ing : \A c \in ing'[j].old : c \notin Given
    BY <1>1, <2>1
  <2>3. \A x \in Drafts' : \A c \in x.old : c \notin Given
    BY <1>3, RetiringMeans DEF IdsApart
  <2> QED
    BY <1>1, <2>2, <2>3, RetiringMeans
<1>7. JobsOK'
  <2>0. UNCHANGED <<chunk, vec, late>>
    OBVIOUS
  <2>1. \A j \in DOMAIN ing' : JobOK(ing[j])'
    <3>1. ASSUME NEW j \in DOMAIN ing PROVE JobOK(ing[j])'
      <4>1. PICK z : z = ing'[j]
        OBVIOUS
      <4>2. JobOK(z)
        BY <1>1, <4>1 DEF JobsOK
      <4> QED
        BY <2>0, <4>1, <4>2 DEF JobOK, Active
    <3> QED
      BY <1>1, <3>1
  <2>2. \A x \in Drafts' : DraftOK(x)'
    <3>1. \A x : DraftOK(x) => DraftOK(x)'
      BY <2>0, SameTables
    <3>2. \A x \in Drafts' : DraftOK(x)
      BY <1>3 DEF JobsOK
    <3> QED
      BY <3>1, <3>2
  <2> QED
    BY <2>1, <2>2 DEF JobsOK
<1>8. WritersApart'
  BY <1>1, <1>2 DEF WritersApart
<1>9. IdsApart'
  <2>1. \A x, y \in Drafts' : x.id = y.id /\ x.id # 0 => x = y
    BY <1>3 DEF IdsApart
  <2>2. \A c \in Given' : c \notin vec' /\ c \notin OnTheWay' /\ c \notin Retiring'
    BY <1>4, <1>5, <1>6 DEF IdsApart
  <2> QED
    BY <2>1, <2>2 DEF IdsApart
<1>10. (NoRowNoChunks /\ OneGeneration /\ VectorsFollow /\ FreshInBatch /\ OnTheWayActive)'
  BY <1>5 DEF NoRowNoChunks, OneGeneration, VectorsFollow, Active, ChunksAgree, FreshInBatch, OnTheWayActive
<1> QED
  BY <1>7, <1>8, <1>9, <1>10 DEF ChunksAgree

\* A step that changes only what one embedding job has in hand.
LEMMA EmbedKeeps ==
  ASSUME IndexInv, IndexTypeOK', NEW e \in DOMAIN emb, NEW k, emb' = [emb EXCEPT ![e] = k],
         UNCHANGED <<row, item, chunk, vec, ing, raced, late>>,
         k.fresh \subseteq k.batch, k.pc # "insert" => k.fresh = {},
         \A c \in k.batch : c \in OnTheWay \/ (c \in Ids /\ chunk[c].active)
  PROVE  IndexInv'
PROOF
<1> USE DEF IndexInv, InHandInv
<1>1. DOMAIN emb' = DOMAIN emb /\ \A j \in DOMAIN emb : emb'[j] = IF j = e THEN k ELSE emb[j]
  BY DEF ChunksAgree, IndexTypeOK
<1>2. \A c \in OnTheWay' : c \in OnTheWay \/ (c \in Ids /\ chunk[c].active)
  BY <1>1 DEF OnTheWay
<1>3. Drafts' = Drafts /\ Given' = Given /\ Retiring' = Retiring
  BY DEF Drafts, Given, Retiring
<1>4. JobsOK'
  BY <1>3, SameTables DEF JobsOK, JobOK, Active
<1>5. WritersApart'
  BY DEF WritersApart
<1>6. IdsApart'
  <2>1. ASSUME NEW c \in Given, c \in Ids PROVE ~chunk[c].active
    BY <2>1, IndexAssumption DEF Given, JobsOK, DraftOK, IndexAssumption
  <2>2. \A c \in Given' : c \notin OnTheWay'
    BY <1>2, <1>3, <2>1 DEF IdsApart
  <2> QED
    BY <1>3, <2>2 DEF IdsApart
<1>7. (NoRowNoChunks /\ OneGeneration /\ VectorsFollow)'
  <2>1. \A d : Active(d)' = Active(d)
    BY SameTables
  <2>2. NoRowNoChunks' /\ OneGeneration'
    BY <2>1 DEF NoRowNoChunks, OneGeneration, ChunksAgree
  <2>3. VectorsFollow'
    BY DEF VectorsFollow, ChunksAgree
  <2> QED
    BY <2>2, <2>3
<1>8. FreshInBatch' /\ OnTheWayActive'
  <2>1. \A j \in DOMAIN emb : emb'[j].fresh \subseteq emb'[j].batch /\ (emb'[j].pc # "insert" => emb'[j].fresh = {})
    BY <1>1 DEF FreshInBatch
  <2>2. \A c \in OnTheWay' : chunk[c].active \/ c \in late
    BY <1>2 DEF OnTheWayActive
  <2> QED
    BY <1>1, <2>1, <2>2 DEF FreshInBatch, OnTheWayActive
<1> QED
  BY <1>4, <1>5, <1>6, <1>7, <1>8 DEF ChunksAgree

\* A flush hands what the ingest has of a document over to its transaction.
LEMMA FlushKeeps ==
  ASSUME IndexAssumption, IndexInv, IndexTypeOK', NEW i \in DOMAIN ing, Flush(i)
  PROVE  IndexInv'
PROOF
<1> USE DEF IndexInv, InHandInv
<1> DEFINE k == ing[i]
<1>0. k \in IngestState /\ k.doc \in Docs /\ k.body \in Nat /\ JobOK(k)
  BY DEF Flush, ChunksAgree, IndexTypeOK, JobsOK, Holding
<1>1. PICK c \in IF k.body \in Empty THEN {0} ELSE Spare :
        Have(i, AfterDoc([k EXCEPT !.dirty = @ \union {[doc |-> k.doc, body |-> k.body,
                  old |-> k.old, drop |-> k.drop, stale |-> k.stale, id |-> c]}]))
  BY DEF Flush
<1> DEFINE x == [doc |-> k.doc, body |-> k.body, old |-> k.old, drop |-> k.drop, stale |-> k.stale, id |-> c]
<1>2. c = 0 <=> k.body \in Empty
  BY <1>1 DEF IndexAssumption, Spare
<1>3. c # 0 => c \in Ids /\ ~chunk[c].active /\ c \notin vec /\ c \notin OnTheWay /\ c \notin Given /\ c \notin Retiring
  BY <1>1 DEF Spare, InHand
<1>4. /\ x.doc = k.doc /\ x.body = k.body /\ x.old = k.old /\ x.drop = k.drop /\ x.stale = k.stale /\ x.id = c
  OBVIOUS
<1>5. PICK n : /\ Have(i, n) /\ n.dirty = k.dirty \union {x} /\ n.todo = k.todo /\ n.old = {} /\ n.drop = {} /\ n.pc \in {"next", "commit"}
  <2> HIDE DEF x
  <2>1. \A z \in IngestState : /\ AfterDoc(z).dirty = z.dirty /\ AfterDoc(z).todo = z.todo /\ AfterDoc(z).old = {}
                               /\ AfterDoc(z).drop = {} /\ AfterDoc(z).pc \in {"next", "commit"}
    BY DEF AfterDoc, IngestState
  <2>2. x \in Draft
    BY <1>0, <1>2, <1>3, <1>4 DEF x, Draft, IngestState
  <2>3. [k EXCEPT !.dirty = @ \union {x}] \in IngestState /\ [k EXCEPT !.dirty = @ \union {x}].dirty = k.dirty \union {x}
        /\ [k EXCEPT !.dirty = @ \union {x}].todo = k.todo
    BY <1>0, <2>2 DEF IngestState
  <2> QED
    BY <1>1, <2>1, <2>3 DEF x
<1> HIDE DEF x
<1>6. DOMAIN ing' = DOMAIN ing /\ \A j \in DOMAIN ing : ing'[j] = IF j = i THEN n ELSE ing[j]
  BY <1>5 DEF Have, ChunksAgree, IndexTypeOK
<1>7. UNCHANGED <<row, item, chunk, vec, emb, raced, late>> /\ OnTheWay' = OnTheWay
  BY DEF Flush, OnTheWay
<1>8. k.dirty \subseteq Drafts
  BY DEF Drafts
<1>9. \A y \in Drafts' : y \in Drafts \/ y = x
  BY <1>5, <1>6, <1>8 DEF Drafts
<1>10. \A d \in Given' : d \in Given \/ d = c
  BY <1>4, <1>9 DEF Given
<1>11. \A d \in Retiring' : d \in Retiring
  <2>1. \A j \in DOMAIN ing' : \A d \in ing'[j].old : d \in Retiring
    BY <1>5, <1>6, RetiringMeans
  <2>2. \A d \in x.old : d \in Retiring
    BY <1>4, RetiringMeans
  <2>3. \A y \in Drafts' : \A d \in y.old : d \in Retiring
    BY <1>9, <2>2, RetiringMeans
  <2> QED
    BY <2>1, <2>3, RetiringMeans
<1>12. DraftOK(x)
  <2>1. ~x.stale => Active(x.doc) \subseteq x.old
    <3>1. k.new => row[k.doc] = Never
      BY DEF Flush
    <3> QED
      BY <1>0, <1>4, <3>1 DEF JobOK, Flush, NoRowNoChunks
  <2> QED
    BY <1>0, <1>2, <1>3, <1>4, <2>1 DEF DraftOK, JobOK, Flush
<1>13. JobsOK'
  <2>1. ASSUME NEW j \in DOMAIN ing' PROVE JobOK(ing[j])'
    <3>1. PICK z : z = ing'[j]
      OBVIOUS
    <3>2. JobOK(z)
      <4>1. JobOK(n)
        BY <1>0, <1>4, <1>5 DEF JobOK, Holding, Flush
      <4> QED
        BY <1>6, <3>1, <4>1 DEF JobsOK
    <3> QED
      BY <1>7, <3>1, <3>2 DEF JobOK, Active
  <2>2. \A y \in Drafts' : DraftOK(y)'
    <3>1. \A y : DraftOK(y) => DraftOK(y)'
      BY <1>7, SameTables
    <3>2. \A y \in Drafts' : DraftOK(y)
      BY <1>9, <1>12 DEF JobsOK
    <3> QED
      BY <3>1, <3>2
  <2> QED
    BY <2>1, <2>2 DEF JobsOK
<1>14. WritersApart'
  <2>1. \A j \in DOMAIN ing : \A y \in ing[j].dirty : y.doc # x.doc
    <3>1. \A y \in k.dirty : y.doc # k.doc
      BY <1>0 DEF JobOK, Holding, Flush
    <3>2. \A j \in DOMAIN ing \ {i} : \A y \in ing[j].dirty : y.doc # k.doc
      BY DEF Flush, Locked
    <3> QED
      BY <1>4, <3>1, <3>2
  <2>2. ASSUME NEW j1 \in DOMAIN ing, NEW j2 \in DOMAIN ing, NEW y1 \in ing'[j1].dirty, NEW y2 \in ing'[j2].dirty, y1.doc = y2.doc
        PROVE  j1 = j2 /\ y1 = y2
    <3>1. (y1 \in ing[j1].dirty \/ (y1 = x /\ j1 = i)) /\ (y2 \in ing[j2].dirty \/ (y2 = x /\ j2 = i))
      BY <1>5, <1>6
    <3> QED
      BY <2>1, <2>2, <3>1 DEF WritersApart
  <2> QED
    BY <1>6, <2>2 DEF WritersApart
<1>15. IdsApart'
  <2>1. ASSUME NEW y \in Drafts', NEW z \in Drafts', y.id = z.id, y.id # 0 PROVE y = z
    <3>1. \A u \in Drafts : u.id # 0 => u.id # c
      BY <1>3 DEF Given
    <3> QED
      BY <1>4, <1>9, <2>1, <3>1 DEF IdsApart
  <2>2. ASSUME NEW d \in Given' PROVE d \notin vec' /\ d \notin OnTheWay' /\ d \notin Retiring'
    <3>1. CASE d \in Given
      BY <1>7, <1>11, <3>1 DEF IdsApart
    <3>2. CASE d = c /\ c # 0
      BY <1>3, <1>7, <1>11, <3>2
    <3>3. CASE d = 0
      <4>1. 0 \notin Ids /\ vec \subseteq Ids
        BY DEF IndexAssumption, ChunksAgree, IndexTypeOK
      <4>2. OnTheWay \subseteq Ids
        BY DEF OnTheWay, ChunksAgree, IndexTypeOK, EmbedState
      <4>3. \A j \in DOMAIN ing : ing[j].old \subseteq Ids
        BY DEF ChunksAgree, IndexTypeOK, IngestState
      <4>4. \A y \in Drafts : y.old \subseteq Ids
        BY DEF ChunksAgree, IndexTypeOK, IngestState, Drafts, Draft
      <4> QED
        BY <1>7, <1>11, <3>3, <4>1, <4>2, <4>3, <4>4, RetiringMeans
    <3> QED
      BY <1>10, <3>1, <3>2, <3>3
  <2> QED
    BY <2>1, <2>2 DEF IdsApart
<1>16. (NoRowNoChunks /\ OneGeneration /\ VectorsFollow /\ FreshInBatch /\ OnTheWayActive)'
  BY <1>7 DEF NoRowNoChunks, OneGeneration, VectorsFollow, Active, ChunksAgree, FreshInBatch, OnTheWayActive
<1> QED
  BY <1>13, <1>14, <1>15, <1>16 DEF ChunksAgree

\* Steps of an embedding job that touch the vectors.
LEMMA VectorsKeep ==
  ASSUME IndexAssumption, IndexInv, IndexTypeOK', NEW e \in DOMAIN emb,
         StartEmbed(e) \/ Insert(e)
  PROVE  IndexInv'
PROOF
<1> USE DEF IndexInv, InHandInv
<1>0. PICK k : /\ emb' = [emb EXCEPT ![e] = k] /\ DOMAIN emb' = DOMAIN emb
               /\ \A j \in DOMAIN emb : emb'[j] = IF j = e THEN k ELSE emb[j]
               /\ k.batch \subseteq emb[e].batch /\ k.fresh \subseteq emb[e].fresh
               /\ k.fresh = {}
  <2>0. emb[e] \in EmbedState
    BY DEF ChunksAgree, IndexTypeOK
  <2>1. CASE StartEmbed(e)
    <3> DEFINE n == [emb[e] EXCEPT !.pc = "fetch"]
    <3>1. n.batch = emb[e].batch /\ n.fresh = {}
      BY <2>0, <2>1 DEF EmbedState, FreshInBatch, StartEmbed
    <3>2. emb' = [emb EXCEPT ![e] = n]
      BY <2>1 DEF StartEmbed
    <3> HIDE DEF n
    <3> QED
      BY <3>1, <3>2 DEF ChunksAgree, IndexTypeOK
  <2>2. CASE Insert(e)
    <3> DEFINE n == [emb[e] EXCEPT !.pc = "fetch", !.batch = {}, !.fresh = {}]
    <3>1. n.batch = {} /\ n.fresh = {}
      BY <2>0 DEF EmbedState
    <3>2. emb' = [emb EXCEPT ![e] = n]
      BY <2>2 DEF Insert
    <3> HIDE DEF n
    <3> QED
      BY <3>1, <3>2 DEF ChunksAgree, IndexTypeOK
  <2> QED
    BY <2>1, <2>2
<1>1. UNCHANGED <<row, item, chunk, ing, raced>>
  BY DEF StartEmbed, Insert
<1>2. Drafts' = Drafts /\ Given' = Given /\ Retiring' = Retiring
  BY <1>1 DEF Drafts, Given, Retiring
<1>3. \A c \in OnTheWay' : c \in OnTheWay
  <2>1. DOMAIN emb' = DOMAIN emb /\ \A j \in DOMAIN emb : emb'[j].batch \subseteq emb[j].batch
    BY <1>0
  <2> QED
    BY <2>1 DEF OnTheWay
<1>4. emb[e].fresh \subseteq OnTheWay /\ OnTheWay \subseteq Ids
  BY DEF FreshInBatch, OnTheWay, ChunksAgree, IndexTypeOK, EmbedState
\* What is late stays so, but for what is purged; no new vector is left unexplained.
<1>5. \A c \in vec' : chunk[c].active \/ c \in late'
  <2>1. CASE StartEmbed(e)
    BY <2>1 DEF StartEmbed, Purged, ChunksAgree, VectorsFollow, IndexTypeOK
  <2>2. CASE Insert(e)
    BY <1>4, <2>2 DEF Insert, ChunksAgree, VectorsFollow, OnTheWayActive
  <2> QED
    BY <2>1, <2>2
<1>6. \A c \in OnTheWay' : chunk[c].active \/ c \in late'
  BY <1>3, <1>4 DEF StartEmbed, Insert, OnTheWayActive
<1>7. \A c \in vec' \intersect Retiring : c \in vec \/ c \in late'
  BY DEF StartEmbed, Insert
<1>8. \A c \in vec' : c \in late => c \in late'
  <2>1. CASE StartEmbed(e)
    <3>1. \A c \in vec : c \in Ids
      BY DEF ChunksAgree, IndexTypeOK
    <3> QED
      BY <2>1, <3>1 DEF StartEmbed, Purged
  <2>2. CASE Insert(e)
    BY <2>2 DEF Insert
  <2> QED
    BY <2>1, <2>2
<1>9. \A z : z.old \subseteq Retiring /\ (\A c \in z.old \intersect vec : c \in z.drop \union late)
         => \A c \in z.old \intersect vec' : c \in z.drop \union late'
  BY <1>7, <1>8
<1>10. JobsOK'
  <2>1. ASSUME NEW j \in DOMAIN ing PROVE JobOK(ing[j])'
    <3>1. PICK z : z = ing[j]
      OBVIOUS
    <3>2. JobOK(z) /\ z.old \subseteq Retiring
      BY <3>1, RetiringMeans DEF JobsOK
    <3>3. z.pc = "flush" => \A c \in z.old \intersect vec' : c \in z.drop \union late'
      BY <1>9, <3>2 DEF JobOK
    <3>4. z = ing'[j]
      BY <1>1, <3>1
    <3> QED
      BY <1>1, <3>2, <3>3, <3>4 DEF JobOK, Active
  <2>2. ASSUME NEW y \in Drafts PROVE DraftOK(y)'
    <3>1. DraftOK(y) /\ y.old \subseteq Retiring
      BY RetiringMeans DEF JobsOK
    <3>2. \A c \in y.old \intersect vec' : c \in y.drop \union late'
      BY <1>9, <3>1 DEF DraftOK
    <3> QED
      BY <1>1, <3>1, <3>2 DEF DraftOK, Active
  <2> QED
    BY <1>1, <1>2, <2>1, <2>2 DEF JobsOK
<1>11. WritersApart'
  BY <1>1 DEF WritersApart
<1>12. IdsApart'
  <2>1. \A c \in Given : c \notin vec'
    BY <1>4 DEF IdsApart, StartEmbed, Insert
  <2> QED
    BY <1>2, <1>3, <2>1 DEF IdsApart
<1>13. (NoRowNoChunks /\ OneGeneration)'
  BY <1>1 DEF NoRowNoChunks, OneGeneration, Active, ChunksAgree
<1>14. FreshInBatch'
  BY <1>0 DEF FreshInBatch
<1>15. VectorsFollow' /\ OnTheWayActive'
  BY <1>1, <1>5, <1>6 DEF VectorsFollow, OnTheWayActive
<1> QED
  BY <1>10, <1>11, <1>12, <1>13, <1>14, <1>15 DEF ChunksAgree

\* A commit writes the documents of one transaction.
LEMMA CommitKeeps ==
  ASSUME IndexAssumption, IndexInv, IndexTypeOK', NEW i \in DOMAIN ing, Commit(i)
  PROVE  IndexInv'
PROOF
<1> USE DEF IndexInv, InHandInv
<1> DEFINE D == ing[i].dirty
<1>0. /\ D \subseteq Draft /\ D \subseteq Drafts
      /\ ing \in [DOMAIN ing -> IngestState]
      /\ chunk \in [Ids -> [doc : Docs \union {Never}, body : Nat \union {Never}, active : BOOLEAN]]
  BY DEF ChunksAgree, IndexTypeOK, IngestState, Drafts
\* The rows that are written, and those that are not.
<1>1. \A x, y \in D : x.doc = y.doc => x = y
  BY DEF WritersApart
<1>2. \A x \in D : x.doc \in Docs /\ row'[x.doc] = x.body /\ item'[x.doc] = x.body /\ (x.doc \in raced' <=> x.stale)
  <2> SUFFICES ASSUME NEW x \in D PROVE x.doc \in Docs /\ row'[x.doc] = x.body /\ item'[x.doc] = x.body /\ (x.doc \in raced' <=> x.stale)
    OBVIOUS
  <2>1. x.doc \in Docs
    BY <1>0 DEF Draft
  <2>2. (CHOOSE y \in D : y.doc = x.doc) = x
    BY <1>1
  <2> QED
    BY <2>1, <2>2 DEF Commit
<1>3. \A d \in Docs : (\A x \in D : x.doc # d) => row'[d] = row[d] /\ item'[d] = item[d] /\ (d \in raced' <=> d \in raced)
  BY DEF Commit
\* The ids that are given out, and the others.
<1>4. \A x \in D : x.id \in Ids => chunk'[x.id] = [doc |-> x.doc, body |-> x.body, active |-> TRUE]
  <2> SUFFICES ASSUME NEW x \in D, x.id \in Ids PROVE chunk'[x.id] = [doc |-> x.doc, body |-> x.body, active |-> TRUE]
    OBVIOUS
  <2>1. x.id # 0
    BY DEF IndexAssumption
  <2>2. (CHOOSE y \in D : y.id = x.id) = x
    BY <1>0, <2>1 DEF IdsApart
  <2> QED
    BY <2>2 DEF Commit
<1> DEFINE given == {x.id : x \in D}
<1> DEFINE retired == UNION {x.old : x \in D}
<1>5. \A c \in Ids : c \notin given => /\ chunk'[c].doc = chunk[c].doc /\ chunk'[c].body = chunk[c].body
                                       /\ (chunk'[c].active <=> chunk[c].active /\ c \notin retired)
  <2> SUFFICES ASSUME NEW c \in Ids, c \notin given
      PROVE /\ chunk'[c].doc = chunk[c].doc /\ chunk'[c].body = chunk[c].body
            /\ (chunk'[c].active <=> chunk[c].active /\ c \notin retired)
    OBVIOUS
  <2>1. chunk'[c] = [chunk[c] EXCEPT !.active = @ /\ c \notin retired]
    BY DEF Commit, Retired
  <2> HIDE DEF retired
  <2> QED
    BY <1>0, <2>1
<1>6. \A c : c \in retired <=> \E x \in D : c \in x.old
  OBVIOUS
<1>7. vec' = vec \ UNION {x.drop : x \in D} /\ late' = (late \ given) \union (retired \intersect OnTheWay)
  BY DEF Commit, Retired, Dropped
<1>8. \A c \in vec' : c \in vec /\ \A x \in D : c \notin x.drop
  BY <1>7
<1>9. \A c \in given : c \in Given /\ c \notin vec /\ c \notin OnTheWay /\ c \notin Retiring /\ (c \in Ids => ~chunk[c].active)
  <2> SUFFICES ASSUME NEW x \in D
      PROVE x.id \in Given /\ x.id \notin vec /\ x.id \notin OnTheWay /\ x.id \notin Retiring /\ (x.id \in Ids => ~chunk[x.id].active)
    OBVIOUS
  <2>1. x \in Drafts /\ x.id \in Given
    BY <1>0 DEF Given
  <2>2. x.id \in Ids => ~chunk[x.id].active
    BY <2>1 DEF JobsOK, DraftOK, IndexAssumption
  <2> QED
    BY <2>1, <2>2 DEF IdsApart
<1>10. OnTheWay' = OnTheWay /\ UNCHANGED emb
  BY DEF Commit, OnTheWay
<1> HIDE DEF given, retired
\* The other jobs, and this one without its transaction.
<1>11. /\ DOMAIN ing' = DOMAIN ing
       /\ \A j \in DOMAIN ing : j # i =>
            ing'[j] = [ing[j] EXCEPT !.stale = @ \/ (ing[j].pc \in {"delete", "flush"} /\ \E x \in D : ing[j].doc = x.doc)]
       /\ ing'[i] = IF ing[i].pc = "commit" THEN [ing[i] EXCEPT !.pc = "next", !.dirty = {}] ELSE IdleIngest
  BY DEF Commit
<1>12. \A j \in DOMAIN ing : j # i =>
         /\ ing'[j].pc = ing[j].pc /\ ing'[j].dirty = ing[j].dirty /\ ing'[j].todo = ing[j].todo /\ ing'[j].doc = ing[j].doc
         /\ ing'[j].old = ing[j].old /\ ing'[j].drop = ing[j].drop /\ ing'[j].new = ing[j].new
         /\ (ing[j].stale => ing'[j].stale)
         /\ (ing[j].pc \in {"delete", "flush"} /\ (\E x \in D : ing[j].doc = x.doc) => ing'[j].stale)
  <2> SUFFICES ASSUME NEW j \in DOMAIN ing, j # i
      PROVE /\ ing'[j].pc = ing[j].pc /\ ing'[j].dirty = ing[j].dirty /\ ing'[j].todo = ing[j].todo /\ ing'[j].doc = ing[j].doc
            /\ ing'[j].old = ing[j].old /\ ing'[j].drop = ing[j].drop /\ ing'[j].new = ing[j].new
            /\ (ing[j].stale => ing'[j].stale)
            /\ (ing[j].pc \in {"delete", "flush"} /\ (\E x \in D : ing[j].doc = x.doc) => ing'[j].stale)
    OBVIOUS
  <2> DEFINE b == ing[j].stale \/ (ing[j].pc \in {"delete", "flush"} /\ \E x \in D : ing[j].doc = x.doc)
  <2>1. ing[j] \in IngestState /\ ing'[j] = [ing[j] EXCEPT !.stale = b]
    BY <1>0, <1>11
  <2>2. (ing[j].stale => b) /\ (ing[j].pc \in {"delete", "flush"} /\ (\E x \in D : ing[j].doc = x.doc) => b)
    OBVIOUS
  <2> HIDE DEF b
  <2>3. /\ ing'[j].pc = ing[j].pc /\ ing'[j].dirty = ing[j].dirty /\ ing'[j].todo = ing[j].todo /\ ing'[j].doc = ing[j].doc
        /\ ing'[j].old = ing[j].old /\ ing'[j].drop = ing[j].drop /\ ing'[j].new = ing[j].new
    BY <2>1 DEF IngestState
  <2>4. ing'[j].stale = b
    BY <2>1 DEF IngestState
  <2> QED
    BY <2>2, <2>3, <2>4
<1>13. ing'[i].dirty = {} /\ ing'[i].old = {} /\ ing'[i].drop = {} /\ ing'[i].pc \in {"next", "idle"}
  <2>1. ing[i].old = {} /\ ing[i].drop = {}
    BY DEF Commit, JobsOK, JobOK
  <2>2. CASE ing[i].pc = "commit"
    <3>1. ing[i] \in IngestState
      BY <1>0
    <3> QED
      BY <1>11, <2>1, <2>2, <3>1 DEF IngestState
  <2>3. CASE ing[i].pc # "commit"
    BY <1>11, <2>3 DEF IdleIngest
  <2> QED
    BY <2>2, <2>3
<1>14. \A y \in Drafts' : y \in Drafts /\ (\A x \in D : y.doc # x.doc) /\ (y.id # 0 => y.id \notin given)
  <2> SUFFICES ASSUME NEW j \in DOMAIN ing, NEW y \in ing'[j].dirty
      PROVE y \in Drafts /\ (\A x \in D : y.doc # x.doc) /\ (y.id # 0 => y.id \notin given)
    BY <1>11 DEF Drafts
  <2>1. j # i /\ y \in ing[j].dirty
    BY <1>12, <1>13
  <2>2. y \in Drafts /\ \A x \in D : y.doc # x.doc
    BY <2>1 DEF WritersApart, Drafts
  <2>3. y.id # 0 => y.id \notin given
    BY <1>0, <2>2 DEF IdsApart, given
  <2> QED
    BY <2>2, <2>3
<1>15. Given' \subseteq Given
  BY <1>14 DEF Given
<1>16. \A c \in Retiring' : c \in Retiring
  BY <1>11, <1>12, <1>13, <1>14, RetiringMeans
<1>17. \A c \in late : c \in Retiring \/ c \in OnTheWay \/ c \in vec => c \in late'
  BY <1>7, <1>9
\* The active chunks of a document that is written, and of one that is not.
<1>18. \A x \in D : ~x.stale => \A c \in Ids : chunk'[c].doc = x.doc /\ chunk'[c].active => c = x.id
  <2> SUFFICES ASSUME NEW x \in D, ~x.stale, NEW c \in Ids, chunk'[c].doc = x.doc, chunk'[c].active PROVE c = x.id
    OBVIOUS
  <2>1. CASE c \in given
    <3>1. PICK y \in D : y.id = c
      BY <2>1 DEF given
    <3>2. chunk'[y.id] = [doc |-> y.doc, body |-> y.body, active |-> TRUE]
      BY <1>4, <3>1
    <3> QED
      BY <1>1, <3>1, <3>2
  <2>2. CASE c \notin given
    <3>1. chunk[c].doc = x.doc /\ chunk[c].active /\ c \notin retired
      BY <1>5, <2>2
    <3>2. c \in x.old
      BY <1>0, <3>1 DEF JobsOK, DraftOK, Active
    <3> QED
      BY <1>6, <3>1, <3>2
  <2> QED
    BY <2>1, <2>2
<1>19. \A d \in Docs : (\A x \in D : x.doc # d) => Active(d)' = Active(d) /\ \A c \in Active(d) : chunk'[c].body = chunk[c].body
  <2> SUFFICES ASSUME NEW d \in Docs, \A x \in D : x.doc # d
      PROVE Active(d)' = Active(d) /\ \A c \in Active(d) : chunk'[c].body = chunk[c].body
    OBVIOUS
  <2>1. ASSUME NEW c \in Ids, chunk[c].doc = d, chunk[c].active
        PROVE chunk'[c].doc = d /\ chunk'[c].active /\ chunk'[c].body = chunk[c].body
    <3>1. c \notin given
      BY <1>9, <2>1
    <3>2. c \notin retired
      <4>1. \A x \in D : c \in x.old => chunk[c].doc = x.doc
        BY <1>0 DEF JobsOK, DraftOK
      <4> QED
        BY <1>6, <2>1, <4>1
    <3> QED
      BY <1>5, <2>1, <3>1, <3>2
  <2>2. ASSUME NEW c \in Ids, chunk'[c].doc = d, chunk'[c].active
        PROVE chunk[c].doc = d /\ chunk[c].active
    <3>1. c \notin given
      <4>1. ASSUME NEW y \in D, y.id = c PROVE FALSE
        <5>1. chunk'[y.id] = [doc |-> y.doc, body |-> y.body, active |-> TRUE]
          BY <1>4, <4>1
        <5> QED
          BY <2>2, <4>1, <5>1
      <4> QED
        BY <4>1 DEF given
    <3> QED
      BY <1>5, <2>2, <3>1
  <2> QED
    BY <2>1, <2>2 DEF Active
<1>20. JobsOK'
  <2>1. ASSUME NEW j \in DOMAIN ing, j # i PROVE JobOK(ing[j])'
    <3> PICK k : k = ing[j]
      OBVIOUS
    <3>0. JobOK(k) /\ k \in IngestState /\ (k.pc \in Holding => k.doc \in Docs)
      BY <1>0 DEF JobsOK, ChunksAgree, IndexTypeOK
    <3>1. PICK z : z = ing'[j]
      OBVIOUS
    <3>2. /\ z.pc = k.pc /\ z.dirty = k.dirty /\ z.todo = k.todo /\ z.doc = k.doc /\ z.old = k.old /\ z.drop = k.drop /\ z.new = k.new
          /\ (k.stale => z.stale) /\ (k.pc \in {"delete", "flush"} /\ (\E x \in D : k.doc = x.doc) => z.stale)
      BY <1>12, <2>1, <3>1
    <3>3. \A c \in k.old : c \in Ids /\ c \in Retiring /\ c \notin given
      BY <1>9, <3>0, RetiringMeans DEF IngestState
    <3>4. \A c \in k.old : chunk'[c].doc = k.doc
      BY <1>5, <3>0, <3>3 DEF JobOK
    <3>5. k.pc \in {"delete", "flush"} => IF z.new THEN z.old = {} ELSE ~z.stale => Active(z.doc)' \subseteq z.old
      <4>1. k.pc \in {"delete", "flush"} /\ ~z.stale => k.doc \in Docs /\ \A x \in D : x.doc # k.doc
        BY <3>0, <3>2 DEF Holding
      <4>2. k.pc \in {"delete", "flush"} /\ ~z.stale => Active(k.doc)' = Active(k.doc)
        BY <1>19, <4>1
      <4> QED
        BY <3>0, <3>2, <4>2 DEF JobOK
    <3>6. k.pc = "flush" => \A c \in k.old \intersect vec' : c \in k.drop \union late'
      BY <1>8, <1>17, <3>0, <3>3 DEF JobOK
    <3>7. /\ (k.pc = "idle" => k.dirty = {}) /\ (k.pc \in Holding => k.doc \notin k.todo /\ \A x \in k.dirty : x.doc # k.doc)
          /\ (\A x \in k.dirty : x.doc \notin k.todo) /\ (k.pc \notin {"delete", "flush"} => k.old = {}) /\ k.drop \subseteq k.old
      BY <3>0 DEF JobOK
    <3>8. /\ (z.pc = "idle" => z.dirty = {}) /\ (z.pc \in Holding => z.doc \notin z.todo /\ \A x \in z.dirty : x.doc # z.doc)
          /\ (\A x \in z.dirty : x.doc \notin z.todo) /\ (z.pc \notin {"delete", "flush"} => z.old = {}) /\ z.drop \subseteq z.old
          /\ (\A c \in z.old : chunk'[c].doc = z.doc)
          /\ (z.pc \in {"delete", "flush"} => IF z.new THEN z.old = {} ELSE ~z.stale => Active(z.doc)' \subseteq z.old)
          /\ (z.pc = "flush" => \A c \in z.old \intersect vec' : c \in z.drop \union late')
      BY <3>2, <3>4, <3>5, <3>6, <3>7
    <3> QED
      BY <3>1, <3>8 DEF JobOK, Active
  <2>2. JobOK(ing[i])'
    BY <1>13 DEF JobOK, Holding
  <2>3. ASSUME NEW y \in Drafts' PROVE DraftOK(y)'
    <3>1. DraftOK(y) /\ y \in Draft /\ (\A x \in D : y.doc # x.doc) /\ (y.id # 0 => y.id \notin given)
      BY <1>0, <1>14 DEF JobsOK, Drafts, IngestState
    <3>2. \A c \in y.old : c \in Ids /\ c \in Retiring /\ c \notin given
      BY <1>9, <1>14, <3>1, RetiringMeans DEF Draft
    <3>3. \A c \in y.old : chunk'[c].doc = y.doc
      BY <1>5, <3>1, <3>2 DEF DraftOK
    <3>4. y.doc \in Docs /\ Active(y.doc)' = Active(y.doc)
      BY <1>19, <3>1 DEF Draft
    <3>5. \A c \in y.old \intersect vec' : c \in y.drop \union late'
      BY <1>8, <1>17, <3>1, <3>2 DEF DraftOK
    <3>6. y.id # 0 => ~chunk'[y.id].active
      BY <1>5, <3>1 DEF DraftOK, Draft
    <3>7. ~y.stale => Active(y.doc)' \subseteq y.old
      BY <3>1, <3>4 DEF DraftOK
    <3>8. y.id = 0 <=> y.body \in Empty
      BY <3>1 DEF DraftOK
    <3> QED
      BY <3>3, <3>5, <3>6, <3>7, <3>8 DEF DraftOK, Active
  <2> QED
    BY <1>11, <2>1, <2>2, <2>3 DEF JobsOK
<1>21. WritersApart'
  <2>1. \A j \in DOMAIN ing : ing'[j].dirty \subseteq ing[j].dirty
    BY <1>12, <1>13
  <2> QED
    BY <1>11, <2>1 DEF WritersApart
<1>22. IdsApart'
  <2>1. \A x, y \in Drafts' : x.id = y.id /\ x.id # 0 => x = y
    BY <1>14 DEF IdsApart
  <2>2. \A c \in Given' : c \notin vec' /\ c \notin OnTheWay' /\ c \notin Retiring'
    BY <1>8, <1>10, <1>15, <1>16 DEF IdsApart
  <2> QED
    BY <2>1, <2>2 DEF IdsApart
<1>23. NoRowNoChunks'
  <2> SUFFICES ASSUME NEW d \in Docs, row'[d] = Never PROVE Active(d)' = {}
    BY DEF NoRowNoChunks
  <2>1. \A x \in D : x.doc # d
    <3>1. \A x \in D : x.body # Never
      BY <1>0 DEF Draft, Never
    <3> QED
      BY <1>2, <3>1
  <2> QED
    BY <1>3, <1>19, <2>1 DEF NoRowNoChunks
<1>24. OneGeneration'
  <2> SUFFICES ASSUME NEW d \in Docs, d \notin raced', row'[d] # Never
      PROVE /\ \A c \in Active(d)' : chunk'[c].body = row'[d]
            /\ Cardinality(Active(d)') = IF row'[d] \in Empty THEN 0 ELSE 1
            /\ item'[d] = row'[d]
    BY DEF OneGeneration, Active
  <2>1. CASE \A x \in D : x.doc # d
    <3>1. d \notin raced /\ row'[d] = row[d] /\ item'[d] = item[d] /\ row[d] # Never
      BY <1>3, <2>1
    <3>2. Active(d)' = Active(d) /\ \A c \in Active(d) : chunk'[c].body = chunk[c].body
      BY <1>19, <2>1
    <3>3. (\A c \in Active(d) : chunk[c].body = row[d]) /\ Cardinality(Active(d)) = (IF row[d] \in Empty THEN 0 ELSE 1) /\ item[d] = row[d]
      BY <3>1 DEF ChunksAgree, OneGeneration
    <3> QED
      BY <3>1, <3>2, <3>3
  <2>2. ASSUME NEW x \in D, x.doc = d
        PROVE /\ \A c \in Active(d)' : chunk'[c].body = row'[d]
              /\ Cardinality(Active(d)') = IF row'[d] \in Empty THEN 0 ELSE 1
              /\ item'[d] = row'[d]
    <3>1. ~x.stale /\ row'[d] = x.body /\ item'[d] = x.body
      BY <1>2, <2>2
    <3>2. (x.id = 0 <=> x.body \in Empty) /\ x.id \in Ids \union {0}
      BY <1>0 DEF JobsOK, DraftOK, Draft
    <3>3. \A c \in Active(d)' : c \in Ids /\ c = x.id
      BY <1>18, <2>2, <3>1 DEF Active
    <3>4. CASE x.id = 0
      <4>1. Active(d)' = {}
        BY <3>3, <3>4 DEF IndexAssumption
      <4> QED
        BY <3>1, <3>2, <3>4, <4>1, FS_EmptySet
    <3>5. CASE x.id # 0
      <4>1. x.id \in Ids /\ chunk'[x.id] = [doc |-> x.doc, body |-> x.body, active |-> TRUE]
        BY <1>4, <3>2, <3>5
      <4>2. x.id \in Active(d)'
        BY <2>2, <4>1 DEF Active
      <4>3. Active(d)' = {x.id}
        BY <3>3, <4>2
      <4>4. Cardinality({x.id}) = 1
        BY FS_Singleton
      <4> QED
        BY <3>1, <3>2, <3>5, <4>1, <4>3, <4>4
    <3> QED
      BY <3>4, <3>5
  <2> QED
    BY <2>1, <2>2
<1>25. VectorsFollow'
  <2> SUFFICES ASSUME NEW c \in vec' PROVE chunk'[c].active \/ c \in late'
    BY DEF VectorsFollow
  <2>1. c \in vec /\ c \in Ids /\ c \notin given
    BY <1>8, <1>9 DEF ChunksAgree, IndexTypeOK
  <2>2. CASE c \in late
    BY <1>17, <2>1, <2>2
  <2>3. CASE c \notin late
    <3>1. chunk[c].active
      BY <2>1, <2>3 DEF ChunksAgree, VectorsFollow
    <3>2. c \notin retired
      <4>1. ASSUME NEW x \in D, c \in x.old PROVE FALSE
        BY <1>0, <1>8, <2>1, <2>3, <4>1 DEF JobsOK, DraftOK
      <4> QED
        BY <1>6, <4>1
    <3> QED
      BY <1>5, <2>1, <3>1, <3>2
  <2> QED
    BY <2>2, <2>3
<1>26. OnTheWayActive'
  <2> SUFFICES ASSUME NEW c \in OnTheWay PROVE chunk'[c].active \/ c \in late'
    BY <1>10 DEF OnTheWayActive
  <2>1. c \in Ids /\ c \notin given
    BY <1>9 DEF OnTheWay, ChunksAgree, IndexTypeOK, EmbedState
  <2>2. chunk[c].active \/ c \in late
    BY DEF OnTheWayActive
  <2> QED
    BY <1>5, <1>7, <1>17, <2>1, <2>2
<1>27. FreshInBatch'
  BY <1>10 DEF FreshInBatch
<1> QED
  BY <1>20, <1>21, <1>22, <1>23, <1>24, <1>25, <1>26, <1>27 DEF ChunksAgree

LEMMA StepInv == IndexAssumption /\ IndexInv /\ [IndexNext]_indexVars => IndexInv'
PROOF
<1> SUFFICES ASSUME IndexAssumption, IndexInv, [IndexNext]_indexVars PROVE IndexInv'
  OBVIOUS
<1> USE DEF IndexInv, InHandInv
<1>0. IndexTypeOK /\ IndexTypeOK'
  BY StepTypes DEF ChunksAgree
<1>1. CASE UNCHANGED indexVars \/ \E d \in Docs : Edit(d)
  <2>1. UNCHANGED <<row, item, chunk, vec, ing, emb, raced, late>>
    BY <1>1 DEF Edit, indexVars
  <2>2. Drafts' = Drafts /\ Given' = Given /\ Retiring' = Retiring /\ OnTheWay' = OnTheWay
    BY <2>1 DEF Drafts, Given, Retiring, OnTheWay
  <2>3. JobsOK'
    BY <2>1, <2>2 DEF JobsOK, JobOK, DraftOK, Active
  <2>4. WritersApart' /\ IdsApart' /\ FreshInBatch' /\ OnTheWayActive'
    BY <2>1, <2>2 DEF WritersApart, IdsApart, FreshInBatch, OnTheWayActive
  <2>5. (NoRowNoChunks /\ OneGeneration /\ VectorsFollow)'
    BY <2>1 DEF NoRowNoChunks, OneGeneration, VectorsFollow, Active, ChunksAgree
  <2> QED
    BY <1>0, <2>3, <2>4, <2>5 DEF ChunksAgree
<1>2. ASSUME NEW i \in DOMAIN ing, IngestStep(i) PROVE IndexInv'
  <2> DEFINE k == ing[i]
  <2>0. k \in IngestState /\ JobOK(k) /\ k.old \intersect Given = {}
    BY <1>0, RetiringMeans DEF IndexTypeOK, JobsOK, IdsApart
  <2>1. CASE StartIngest(i)
    <3>1. PICK n : n = [IdleIngest EXCEPT !.pc = "next", !.todo = Docs]
      OBVIOUS
    <3>2. n.pc = "next" /\ n.dirty = {} /\ n.old = {} /\ n.drop = {}
      BY <3>1 DEF IdleIngest
    <3>3. JobOK(n)
      BY <3>2 DEF JobOK, Holding
    <3> QED
      BY <1>0, <2>1, <3>1, <3>2, <3>3, IngestKeeps DEF StartIngest
  <2>2. CASE NextDraft(i)
    <3>1. PICK d \in k.todo : LET m == [k EXCEPT !.todo = @ \ {d}, !.doc = d, !.body = file[d], !.new = row[d] = Never]
                              IN Have(i, IF Same(d) THEN AfterDoc(m) ELSE [m EXCEPT !.pc = "load"])
      BY <2>2 DEF NextDraft
    <3>2. PICK n : /\ Have(i, n) /\ n.dirty = k.dirty /\ n.todo \subseteq k.todo /\ n.pc \in {"next", "commit", "load"} /\ n.old = {} /\ n.drop = {}
                   /\ (n.pc = "load" => n.doc \in k.todo /\ n.doc \notin n.todo)
      <4> DEFINE m == [k EXCEPT !.todo = @ \ {d}, !.doc = d, !.body = file[d], !.new = row[d] = Never]
      <4>1. d \in Docs /\ file[d] \in Nat
        BY <1>0, <2>0 DEF IndexTypeOK, IngestState
      <4>2. m \in IngestState /\ m.dirty = k.dirty /\ m.todo = k.todo \ {d} /\ m.doc = d /\ m.old = k.old /\ m.drop = k.drop
        BY <2>0, <4>1 DEF IngestState
      <4>3. k.old = {} /\ k.drop = {}
        BY <2>0, <2>2 DEF NextDraft, JobOK
      <4> HIDE DEF m, k
      <4>4. CASE Same(d)
        <5>1. Have(i, AfterDoc(m))
          BY <3>1, <4>4 DEF m
        <5>2. AfterDoc(m).dirty = m.dirty /\ AfterDoc(m).todo = m.todo /\ AfterDoc(m).old = {} /\ AfterDoc(m).drop = {} /\ AfterDoc(m).pc \in {"next", "commit"}
          BY <4>2 DEF AfterDoc, IngestState
        <5> QED
          BY <4>2, <5>1, <5>2
      <4>5. CASE ~Same(d)
        <5>1. Have(i, [m EXCEPT !.pc = "load"])
          BY <3>1, <4>5 DEF m
        <5>2. /\ [m EXCEPT !.pc = "load"].dirty = m.dirty /\ [m EXCEPT !.pc = "load"].todo = m.todo /\ [m EXCEPT !.pc = "load"].old = m.old
              /\ [m EXCEPT !.pc = "load"].drop = m.drop /\ [m EXCEPT !.pc = "load"].pc = "load" /\ [m EXCEPT !.pc = "load"].doc = m.doc
          BY <4>2 DEF IngestState
        <5> QED
          BY <4>2, <4>3, <5>1, <5>2
      <4> QED
        BY <4>4, <4>5
    <3>3. JobOK(n)
      BY <2>0, <3>2 DEF JobOK, Holding
    <3> QED
      BY <1>0, <2>2, <3>2, <3>3, IngestKeeps DEF NextDraft
  <2>3. CASE LoadChunks(i)
    <3>1. PICK S : S = IF k.new THEN {} ELSE ChunksOf(k.doc)
      OBVIOUS
    <3>2. PICK n : n = [k EXCEPT !.pc = "delete", !.old = S]
      OBVIOUS
    <3>3. n.pc = "delete" /\ n.old = S /\ n.todo = k.todo /\ n.doc = k.doc /\ n.dirty = k.dirty /\ n.drop = k.drop /\ n.new = k.new
      BY <2>0, <3>2 DEF IngestState
    <3>4. S \intersect Given = {} /\ \A c \in S : chunk[c].doc = k.doc
      BY <3>1 DEF ChunksOf
    <3>5. k.new => S = {}
      BY <3>1
    <3>6. ~k.new => Active(k.doc) \subseteq S
      <4>1. ASSUME NEW x \in Drafts, x.id \in Ids PROVE ~chunk[x.id].active
        BY <4>1, IndexAssumption DEF JobsOK, DraftOK, IndexAssumption
      <4>2. \A c \in Given : c \in Ids => ~chunk[c].active
        BY <4>1 DEF Given
      <4> QED
        BY <3>1, <4>2 DEF ChunksOf, Active
    <3>7. JobOK(n)
      <4>1. k.pc = "load" /\ k.drop = {}
        BY <2>0, <2>3 DEF LoadChunks, JobOK
      <4>2. k.doc \notin k.todo /\ (\A x \in k.dirty : x.doc # k.doc) /\ \A x \in k.dirty : x.doc \notin k.todo
        BY <2>0, <4>1 DEF JobOK, Holding
      <4> HIDE DEF k
      <4> QED
        BY <3>3, <3>4, <3>5, <3>6, <4>1, <4>2 DEF JobOK
    <3> QED
      BY <1>0, <2>3, <3>1, <3>2, <3>3, <3>4, <3>7, IngestKeeps DEF LoadChunks
  <2>4. CASE DeleteVectors(i)
    <3>1. PICK n : n = [k EXCEPT !.pc = "flush", !.drop = k.old \intersect vec]
      OBVIOUS
    <3>2. /\ n.pc = "flush" /\ n.old = k.old /\ n.todo = k.todo /\ n.doc = k.doc /\ n.dirty = k.dirty /\ n.drop = k.old \intersect vec
          /\ n.new = k.new /\ n.stale = k.stale
      BY <2>0, <3>1 DEF IngestState
    <3>3. JobOK(n)
      <4>1. k.pc = "delete"
        BY <2>4 DEF DeleteVectors
      <4> HIDE DEF k
      <4> QED
        BY <2>0, <3>2, <4>1 DEF JobOK, Holding
    <3> QED
      BY <1>0, <2>0, <2>4, <3>1, <3>2, <3>3, IngestKeeps DEF DeleteVectors
  <2>5. CASE Flush(i)
    BY <1>0, <2>5, FlushKeeps, IndexAssumption
  <2>6. CASE InsertClash(i)
    <3>0. PICK m : m = k.count + 1
      OBVIOUS
    <3>1. PICK n : n = [k EXCEPT !.pc = "next", !.count = m, !.doc = Never, !.stale = FALSE]
      OBVIOUS
    <3>2. n.pc = "next" /\ n.old = k.old /\ n.todo = k.todo /\ n.dirty = k.dirty /\ n.drop = k.drop
      BY <2>0, <3>1 DEF IngestState
    <3>3. k.old = {} /\ k.drop = {}
      BY <2>0, <2>6 DEF InsertClash, JobOK
    <3>4. JobOK(n)
      BY <2>0, <3>2, <3>3 DEF JobOK, Holding
    <3> QED
      BY <1>0, <2>0, <2>6, <3>0, <3>1, <3>2, <3>4, IngestKeeps DEF InsertClash
  <2>7. CASE Commit(i)
    BY <1>0, <2>7, CommitKeeps, IndexAssumption
  <2> QED
    BY <1>2, <2>1, <2>2, <2>3, <2>4, <2>5, <2>6, <2>7 DEF IngestStep
<1>3. ASSUME NEW e \in DOMAIN emb, EmbedStep(e) PROVE IndexInv'
  <2>0. emb[e] \in EmbedState /\ emb[e].fresh \subseteq emb[e].batch /\ emb[e].batch \subseteq OnTheWay
    BY <1>0 DEF IndexTypeOK, FreshInBatch, OnTheWay
  <2>1. CASE StartEmbed(e) \/ Insert(e)
    BY <1>0, <2>1, VectorsKeep, IndexAssumption
  <2>2. ASSUME UNCHANGED <<row, item, chunk, vec, ing, raced, late>>, NEW k, emb' = [emb EXCEPT ![e] = k],
               k.fresh \subseteq k.batch, k.pc # "insert" => k.fresh = {}, \A c \in k.batch : c \in OnTheWay \/ (c \in Ids /\ chunk[c].active)
        PROVE  IndexInv'
    BY <1>0, <2>2, EmbedKeeps
  <2>3. IdleEmbed.batch = {} /\ IdleEmbed.fresh = {} /\ IdleEmbed.pc # "insert"
    BY DEF IdleEmbed
  <2>4. CASE Fetch(e)
    <3> DEFINE batch == FirstOf(Unembedded(emb[e].after))
    <3>1. \A c \in batch : c \in Ids /\ chunk[c].active
      BY DEF FirstOf, Unembedded
    <3>2. UNCHANGED <<row, item, chunk, vec, ing, raced, late>>
      BY <2>4 DEF Fetch
    <3> HIDE DEF batch
    <3>3. CASE emb' = [emb EXCEPT ![e] = IdleEmbed]
      BY <2>2, <2>3, <3>2, <3>3
    <3>4. ASSUME batch # {}, NEW last \in batch, emb' = [emb EXCEPT ![e] = [@ EXCEPT !.pc = "encode", !.batch = batch, !.after = last]]
          PROVE  IndexInv'
      <4>1. emb[e].fresh = {}
        BY <2>4 DEF Fetch, FreshInBatch
      <4>2. PICK n : n = [emb[e] EXCEPT !.pc = "encode", !.batch = batch, !.after = last]
        OBVIOUS
      <4>3. n.batch = batch /\ n.fresh = {}
        BY <2>0, <4>1, <4>2 DEF EmbedState
      <4> QED
        BY <2>2, <3>1, <3>2, <3>4, <4>2, <4>3
    <3> QED
      BY <2>4, <3>3, <3>4 DEF Fetch, batch
  <2>5. CASE EncodeFails(e)
    <3>1. PICK n : n = [emb[e] EXCEPT !.pc = "fetch", !.batch = {}]
      OBVIOUS
    <3>2. n.batch = {} /\ n.fresh = {}
      BY <2>0, <2>5, <3>1 DEF EmbedState, EncodeFails, FreshInBatch
    <3> QED
      BY <2>2, <2>5, <3>1, <3>2 DEF EncodeFails
  <2>6. CASE LookUp(e)
    <3>1. PICK n : n = [emb[e] EXCEPT !.pc = "insert", !.fresh = emb[e].batch \ vec]
      OBVIOUS
    <3>2. n.fresh \subseteq n.batch /\ n.batch \subseteq OnTheWay /\ n.pc = "insert"
      BY <2>0, <3>1 DEF EmbedState
    <3> QED
      BY <2>2, <2>6, <3>1, <3>2 DEF LookUp
  <2>7. CASE InsertFails(e)
    BY <2>2, <2>3, <2>7 DEF InsertFails
  <2> QED
    BY <1>3, <2>1, <2>4, <2>5, <2>6, <2>7 DEF EmbedStep
<1>4. CASE CrashJob
  <2>1. ASSUME NEW i \in DOMAIN ing, ing' = [ing EXCEPT ![i] = IdleIngest], UNCHANGED emb PROVE IndexInv'
    <3>1. IdleIngest.dirty = {} /\ IdleIngest.old = {} /\ JobOK(IdleIngest)
      BY DEF IdleIngest, JobOK, Holding
    <3> QED
      BY <1>0, <1>4, <2>1, <3>1, IngestKeeps DEF CrashJob, Have
  <2>2. ASSUME NEW e \in DOMAIN emb, emb' = [emb EXCEPT ![e] = IdleEmbed], UNCHANGED ing PROVE IndexInv'
    <3>1. IdleEmbed.batch = {} /\ IdleEmbed.fresh = {} /\ IdleEmbed.pc # "insert"
      BY DEF IdleEmbed
    <3> QED
      BY <1>0, <1>4, <2>2, <3>1, EmbedKeeps DEF CrashJob
  <2> QED
    BY <1>4, <2>1, <2>2 DEF CrashJob
<1> QED
  BY <1>1, <1>2, <1>3, <1>4 DEF IndexNext

\* pipeline.py and embed/job.py: the active chunks of a document are one generation, cut
\* from the body its row has, unless two ingests crossed, and a retired chunk has a
\* vector only if an embedding job had it in hand; for any number of documents and jobs.
THEOREM IndexAgrees == IndexSpec => []ChunksAgree
PROOF
<1>1. IndexInit => IndexInv
  BY InitInv, IndexAssumption
<1>2. IndexInv /\ [IndexNext]_indexVars => IndexInv'
  BY StepInv, IndexAssumption
<1>3. IndexInv => ChunksAgree
  BY DEF IndexInv
<1> QED
  BY <1>1, <1>2, <1>3, PTL DEF IndexSpec
=============================================================================
