--------------------------- MODULE JobQueueProofs ---------------------------
(***************************************************************************)
(* Theorems about JobQueue: for any number of jobs and workers and any     *)
(* number of deaths, the queue keeps the promise of OnceOnlyJobs.          *)
(***************************************************************************)
EXTENDS JobQueue, SequenceTheorems, FiniteSetTheorems, TLAPS

\* The variables keep their types: the type invariant of the queue.
THEOREM TypeCorrect == Spec => []TypeOK
<1>1. Init => TypeOK
  BY QueueAssumption DEF Init, TypeOK, Death, Report, Pc, Busy
<1>2. TypeOK /\ [Next]_vars => TypeOK'
  <2> SUFFICES ASSUME TypeOK, [Next]_vars PROVE TypeOK'
    OBVIOUS
  <2> USE QueueAssumption DEF TypeOK, Final, Pc, Busy, Holds, Goto
  <2>1. ASSUME NEW j \in Job, PutHash(j) PROVE TypeOK'
    BY <2>1 DEF PutHash
  <2>2. ASSUME NEW j \in Job, Push(j) PROVE TypeOK'
    BY <2>2 DEF Push
  <2>3. ASSUME NEW j \in Job, SetExpiry(j) PROVE TypeOK'
    BY <2>3 DEF SetExpiry
  <2>4. ASSUME NEW j \in Job, CallerDies(j) PROVE TypeOK'
    BY <2>4 DEF CallerDies, Dies, Death
  <2>5. ASSUME NEW j \in Job, Expire(j) PROVE TypeOK'
    BY <2>5 DEF Expire
  <2>6. ASSUME NEW j \in Job, NEW r \in Report, HandlerEnds(j, r) PROVE TypeOK'
    BY <2>6 DEF HandlerEnds
  <2>7. ASSUME NEW w \in Worker, StartWorker(w) PROVE TypeOK'
    BY <2>7 DEF StartWorker
  <2>8. ASSUME NEW w \in Worker, StopWorker(w) PROVE TypeOK'
    BY <2>8 DEF StopWorker
  <2>9. ASSUME NEW w \in Worker, Pop(w) PROVE TypeOK'
    BY <2>9, HeadTailProperties DEF Pop
  <2>10. ASSUME NEW w \in Worker, DropMissing(w) PROVE TypeOK'
    BY <2>10 DEF DropMissing
  <2>11. ASSUME NEW w \in Worker, ReadHash(w) PROVE TypeOK'
    BY <2>11 DEF ReadHash
  <2>12. ASSUME NEW w \in Worker, MarkRunning(w) PROVE TypeOK'
    BY <2>12 DEF MarkRunning
  <2>13. ASSUME NEW w \in Worker, Post(w) PROVE TypeOK'
    BY <2>13 DEF Post
  <2>14. ASSUME NEW w \in Worker, PostFails(w) PROVE TypeOK'
    BY <2>14 DEF PostFails
  <2>15. ASSUME NEW w \in Worker, Answer(w) PROVE TypeOK'
    <3>1. CASE handler[worker[w].job] = "ok"
      BY <2>15, <3>1 DEF Answer
    <3>2. CASE handler[worker[w].job] = "skipped"
      BY <2>15, <3>2 DEF Answer
    <3>3. CASE handler[worker[w].job] = "error"
      BY <2>15, <3>3 DEF Answer
    <3> QED
      BY <2>15, <3>1, <3>2, <3>3 DEF Answer, Report
  <2>16. ASSUME NEW w \in Worker, Timeout(w) PROVE TypeOK'
    BY <2>16 DEF Timeout
  <2>17. ASSUME NEW w \in Worker, WriteVerdict(w) PROVE TypeOK'
    BY <2>17 DEF WriteVerdict
  <2>18. ASSUME NEW w \in Worker, UnlistedException(w) PROVE TypeOK'
    BY <2>18 DEF UnlistedException, Dies, Death
  <2>19. ASSUME NEW w \in Worker, WorkerDies(w) PROVE TypeOK'
    BY <2>19 DEF WorkerDies, Dies, Death
  <2>20. ASSUME NEW w \in Worker, Beat(w) PROVE TypeOK'
    BY <2>20 DEF Beat
  <2>21. CASE Age
    BY <2>21 DEF Age
  <2>22. CASE UNCHANGED vars
    BY <2>22 DEF vars
  <2> QED
    BY <2>1, <2>2, <2>3, <2>4, <2>5, <2>6, <2>7, <2>8, <2>9, <2>10, <2>11, <2>12, <2>13, <2>14, <2>15, <2>16, <2>17, <2>18, <2>19, <2>20, <2>21, <2>22
       DEF Next, Enqueue, Process
<1> QED
  BY <1>1, <1>2, PTL DEF Spec

-----------------------------------------------------------------------------
(* What the list holds after RPUSH and after BLPOP. *)

Distinct == \A i, k \in 1 .. Len(queue) : queue[i] = queue[k] => i = k

\* RPUSH adds the id and keeps the list free of repetitions if it was not there.
LEMMA PushedIsQueued ==
  ASSUME queue \in Seq(Job), NEW j \in Job, queue' = Append(queue, j), ~Queued(j), Distinct
  PROVE  /\ \A k \in Job : Queued(k)' <=> Queued(k) \/ k = j
         /\ Distinct'
<1>1. /\ Len(queue') = Len(queue) + 1 /\ Len(queue) \in Nat
      /\ \A i \in 1 .. Len(queue) : queue'[i] = queue[i]
      /\ queue'[Len(queue) + 1] = j
  BY AppendProperties
<1>2. \A k \in Job : Queued(k)' <=> Queued(k) \/ k = j
  BY <1>1 DEF Queued
<1>3. Distinct'
  BY <1>1 DEF Queued, Distinct
<1> QED
  BY <1>2, <1>3

\* BLPOP takes the only occurrence of the id out of the list.
LEMMA PoppedIsGone ==
  ASSUME queue \in Seq(Job), queue # <<>>, queue' = Tail(queue), Distinct
  PROVE  /\ Head(queue) \in Job /\ Queued(Head(queue))
         /\ \A k \in Job : Queued(k)' <=> Queued(k) /\ k # Head(queue)
         /\ Distinct'
<1>1. /\ Len(queue) \in Nat /\ Len(queue) >= 1 /\ Len(queue') = Len(queue) - 1
      /\ \A i \in 1 .. Len(queue') : queue'[i] = queue[i + 1]
      /\ Head(queue) = queue[1] /\ Head(queue) \in Job
  BY HeadTailProperties, EmptySeq
<1>2. Queued(Head(queue))
  BY <1>1 DEF Queued
<1>3. ASSUME NEW k \in Job PROVE Queued(k)' <=> Queued(k) /\ k # Head(queue)
  <2>1. ASSUME Queued(k)' PROVE Queued(k) /\ k # Head(queue)
    BY <1>1, <2>1 DEF Queued, Distinct
  <2>2. ASSUME Queued(k), k # Head(queue) PROVE Queued(k)'
    <3>1. PICK i \in 1 .. Len(queue) : queue[i] = k
      BY <2>2 DEF Queued
    <3>2. i - 1 \in 1 .. Len(queue') /\ queue'[i - 1] = k
      BY <1>1, <2>2, <3>1
    <3> QED
      BY <3>2 DEF Queued
  <2> QED
    BY <2>1, <2>2
<1>4. Distinct'
  BY <1>1 DEF Distinct
<1> QED
  BY <1>1, <1>2, <1>3, <1>4

-----------------------------------------------------------------------------
(* The inductive invariant. *)

\* Every step keeps every job in one place, and decided last.
LEMMA JobsInOrderStep == TypeOK /\ TypeOK' /\ JobsInOrder /\ [Next]_vars => JobsInOrder'
<1> SUFFICES ASSUME TypeOK, TypeOK', JobsInOrder, [Next]_vars PROVE JobsInOrder'
  OBVIOUS
<1> USE QueueAssumption DEF JobsInOrder, OnePlace, NotYetRun, Undecided, Truthful,
                            Pending, Unsent, Holds, Busy, Goto, TypeOK, Final, Pc
<1>1. queue \in Seq(Job) /\ Distinct
  BY DEF Distinct
<1>2. ASSUME UNCHANGED queue PROVE Distinct' /\ \A k : Queued(k)' <=> Queued(k)
  BY <1>2, <1>1 DEF Distinct, Queued
<1>3. ASSUME NEW j \in Job, Push(j) PROVE JobsInOrder'
  <2>1. Distinct' /\ \A k \in Job : Queued(k)' <=> Queued(k) \/ k = j
    BY <1>3, <1>1, PushedIsQueued DEF Push
  <2> QED
    BY <1>3, <2>1 DEF Push, Distinct
<1>4. ASSUME NEW w \in Worker, Pop(w) PROVE JobsInOrder'
  <2>1. /\ Head(queue) \in Job /\ Queued(Head(queue)) /\ Distinct'
        /\ \A k \in Job : Queued(k)' <=> Queued(k) /\ k # Head(queue)
    BY <1>4, <1>1, PoppedIsGone DEF Pop
  <2> QED
    BY <1>4, <2>1 DEF Pop, Distinct
<1>5. ASSUME NEW j \in Job, PutHash(j) PROVE JobsInOrder'
  BY <1>5, <1>2 DEF PutHash, Distinct
<1>6. ASSUME NEW j \in Job, SetExpiry(j) PROVE JobsInOrder'
  BY <1>6, <1>2 DEF SetExpiry, Distinct
<1>7. ASSUME NEW j \in Job, CallerDies(j) PROVE JobsInOrder'
  BY <1>7, <1>2 DEF CallerDies, Dies, Distinct
<1>8. ASSUME NEW j \in Job, Expire(j) PROVE JobsInOrder'
  BY <1>8, <1>2 DEF Expire, Distinct
<1>9. ASSUME NEW j \in Job, NEW r \in Report, HandlerEnds(j, r) PROVE JobsInOrder'
  BY <1>9, <1>2 DEF HandlerEnds, Distinct
<1>10. ASSUME NEW w \in Worker, StartWorker(w) PROVE JobsInOrder'
  BY <1>10, <1>2 DEF StartWorker, Distinct
<1>11. ASSUME NEW w \in Worker, StopWorker(w) PROVE JobsInOrder'
  BY <1>11, <1>2 DEF StopWorker, Distinct
<1>12. ASSUME NEW w \in Worker, DropMissing(w) PROVE JobsInOrder'
  BY <1>12, <1>2 DEF DropMissing, Distinct
<1>13. ASSUME NEW w \in Worker, ReadHash(w) PROVE JobsInOrder'
  BY <1>13, <1>2 DEF ReadHash, Distinct
<1>14. ASSUME NEW w \in Worker, MarkRunning(w) PROVE JobsInOrder'
  BY <1>14, <1>2 DEF MarkRunning, Distinct
<1>15. ASSUME NEW w \in Worker, Post(w) PROVE JobsInOrder'
  BY <1>15, <1>2 DEF Post, Distinct
<1>16. ASSUME NEW w \in Worker, PostFails(w) PROVE JobsInOrder'
  BY <1>16, <1>2 DEF PostFails, Distinct
<1>17. ASSUME NEW w \in Worker, Answer(w) PROVE JobsInOrder'
  BY <1>17, <1>2 DEF Answer, Report, Distinct
<1>18. ASSUME NEW w \in Worker, Timeout(w) PROVE JobsInOrder'
  BY <1>18, <1>2 DEF Timeout, Distinct
<1>19. ASSUME NEW w \in Worker, WriteVerdict(w) PROVE JobsInOrder'
  BY <1>19, <1>2 DEF WriteVerdict, Distinct
<1>20. ASSUME NEW w \in Worker, UnlistedException(w) PROVE JobsInOrder'
  BY <1>20, <1>2 DEF UnlistedException, Dies, Distinct
<1>21. ASSUME NEW w \in Worker, WorkerDies(w) PROVE JobsInOrder'
  BY <1>21, <1>2 DEF WorkerDies, Dies, Distinct
<1>22. ASSUME NEW w \in Worker, Beat(w) PROVE JobsInOrder'
  BY <1>22, <1>2 DEF Beat, Distinct
<1>23. CASE Age
  BY <1>23, <1>2 DEF Age, Distinct
<1>24. CASE UNCHANGED vars
  BY <1>24, <1>2 DEF vars, Distinct
<1> QED
  BY <1>3, <1>4, <1>5, <1>6, <1>7, <1>8, <1>9, <1>10, <1>11, <1>12, <1>13, <1>14, <1>15, <1>16, <1>17, <1>18, <1>19, <1>20, <1>21, <1>22, <1>23, <1>24
     DEF Next, Enqueue, Process

\* Every job is in one place and decided last: the inductive invariant holds.
THEOREM InOrder == Spec => []JobsInOrder
<1>1. Init => JobsInOrder
  BY QueueAssumption DEF Init, JobsInOrder, OnePlace, NotYetRun, Undecided, Truthful, Pending,
         Unsent, Queued, Holds, Busy, Final
<1>2. TypeOK /\ TypeOK' /\ JobsInOrder /\ [Next]_vars => JobsInOrder'
  BY JobsInOrderStep
<1> QED
  BY <1>1, <1>2, TypeCorrect, PTL DEF Spec

-----------------------------------------------------------------------------
(* The refinement of OnceOnlyJobs.  What the queue shows of a job changes   *)
(* when its verdict is written, and when nobody holds an expired job.       *)

SameVerdicts == \A j \in Job : Shown(j)' = Shown(j)
Forgotten(j) == /\ Shown(j)' = "forgotten"
                /\ \A k \in Job \ {j} : Shown(k)' = Shown(k)

\* A step that shows nothing new and runs no handler is a stutter.
LEMMA Stutters ==
  ASSUME SameVerdicts, handler' = handler
  PROVE  [Promise!Next]_Promise!vars
BY DEF SameVerdicts, Promise!vars

\* A step that only forgets a job is a step of the promise.
LEMMA Forgets ==
  ASSUME NEW j \in Job, Forgotten(j) \/ SameVerdicts, handler' = handler
  PROVE  [Promise!Next]_Promise!vars
<1>1. CASE SameVerdicts
  BY <1>1, Stutters
<1>2. CASE Forgotten(j)
  <2>1. Promise!Forget(j)
    BY <1>2 DEF Forgotten, Promise!Forget
  <2> QED
    BY <2>1 DEF Promise!Next
<1> QED
  BY <1>1, <1>2

\* When hashes stay and every job pending before is pending after, nothing changes.
LEMMA SamePending ==
  ASSUME hash' = hash, \A j \in Job : Pending(j)' <=> Pending(j)
  PROVE  SameVerdicts
BY DEF SameVerdicts, Shown

\* When one job is dropped by its holder, it is forgotten if its hash is gone.
LEMMA OneDropped ==
  ASSUME hash' = hash, NEW j \in Job, Pending(j), \A k \in Job \ {j} : Pending(k)' <=> Pending(k),
         hash[j] \notin Final
  PROVE  Forgotten(j) \/ SameVerdicts
<1>1. \A k \in Job \ {j} : Shown(k)' = Shown(k)
  BY DEF Shown
<1>2. CASE hash[j] = "none" /\ ~Pending(j)'
  BY <1>1, <1>2 DEF Forgotten, Shown, Final
<1>3. CASE ~(hash[j] = "none" /\ ~Pending(j)')
  BY <1>1, <1>3 DEF SameVerdicts, Shown
<1> QED
  BY <1>2, <1>3

\* Every step of the queue is a step of the promise or a stutter.
LEMMA KeepsPromiseStep ==
  TypeOK /\ TypeOK' /\ JobsInOrder /\ [Next]_vars => [Promise!Next]_Promise!vars
<1> SUFFICES ASSUME TypeOK, TypeOK', JobsInOrder, [Next]_vars PROVE [Promise!Next]_Promise!vars
  OBVIOUS
<1> USE QueueAssumption DEF Goto
<1>0. queue \in Seq(Job) /\ Distinct
  BY DEF TypeOK, JobsInOrder, OnePlace, Distinct
<1>1. ASSUME UNCHANGED queue PROVE \A k : Queued(k)' <=> Queued(k)
  BY <1>1 DEF Queued
<1>2. ASSUME UNCHANGED <<queue, caller, worker>> PROVE \A k \in Job : Pending(k)' <=> Pending(k)
  BY <1>2, <1>1 DEF Pending, Unsent, Holds
<1>4. ASSUME NEW j \in Job, PutHash(j) PROVE [Promise!Next]_Promise!vars
  <2>1. \A k \in Job : Pending(k)' <=> Pending(k)
    BY <1>4, <1>1 DEF PutHash, Pending, Unsent, Holds, TypeOK
  <2>2. SameVerdicts
    BY <1>4, <2>1 DEF PutHash, SameVerdicts, Shown, JobsInOrder, Undecided, Pending, Unsent, TypeOK, Final
  <2> QED
    BY <1>4, <2>2, Stutters DEF PutHash
<1>5. ASSUME NEW j \in Job, Push(j) PROVE [Promise!Next]_Promise!vars
  <2>1. \A k \in Job : Queued(k)' <=> Queued(k) \/ k = j
    BY <1>5, <1>0, PushedIsQueued DEF Push, JobsInOrder, OnePlace, Unsent
  <2>2. \A k \in Job : Pending(k)' <=> Pending(k)
    BY <1>5, <2>1 DEF Push, Pending, Unsent, Holds, TypeOK
  <2> QED
    BY <1>5, <2>2, SamePending, Stutters DEF Push
<1>6. ASSUME NEW j \in Job, SetExpiry(j) PROVE [Promise!Next]_Promise!vars
  <2>1. \A k \in Job : Pending(k)' <=> Pending(k)
    BY <1>6, <1>1 DEF SetExpiry, Pending, Unsent, Holds, TypeOK
  <2> QED
    BY <1>6, <2>1, SamePending, Stutters DEF SetExpiry
<1>7. ASSUME NEW j \in Job, CallerDies(j) PROVE [Promise!Next]_Promise!vars
  <2>1. \A k \in Job \ {j} : Pending(k)' <=> Pending(k)
    BY <1>7, <1>1 DEF CallerDies, Pending, Unsent, Holds, TypeOK
  <2>2. CASE Pending(j)
    BY <1>7, <2>1, <2>2, OneDropped, Forgets DEF CallerDies, JobsInOrder, Undecided
  <2>3. CASE ~Pending(j)
    <3>1. \A k \in Job : Pending(k)' <=> Pending(k)
      BY <1>7, <1>1, <2>1, <2>3 DEF CallerDies, Pending, Unsent, Holds, TypeOK
    <3> QED
      BY <1>7, <3>1, SamePending, Stutters DEF CallerDies
  <2> QED
    BY <2>2, <2>3
<1>8. ASSUME NEW j \in Job, Expire(j) PROVE [Promise!Next]_Promise!vars
  <2>1. \A k \in Job : Pending(k)' <=> Pending(k)
    BY <1>8, <1>2 DEF Expire
  <2>2. \A k \in Job \ {j} : Shown(k)' = Shown(k)
    BY <1>8, <2>1 DEF Expire, Shown, TypeOK
  <2>3. CASE Pending(j)
    <3>1. Shown(j)' = Shown(j)
      BY <1>8, <2>1, <2>3 DEF Expire, Shown, TypeOK, JobsInOrder, Undecided, Final
    <3> QED
      BY <1>8, <2>2, <3>1, Stutters DEF Expire, SameVerdicts
  <2>4. CASE ~Pending(j)
    <3>1. Shown(j)' = "forgotten"
      BY <1>8, <2>1, <2>4 DEF Expire, Shown, TypeOK, Final
    <3> QED
      BY <1>8, <2>2, <3>1, Forgets DEF Expire, Forgotten
  <2> QED
    BY <2>3, <2>4
<1>9. ASSUME NEW j \in Job, NEW r \in Report, HandlerEnds(j, r) PROVE [Promise!Next]_Promise!vars
  <2>1. SameVerdicts
    BY <1>9, <1>2, SamePending DEF HandlerEnds
  <2>2. Promise!End(j, r)
    BY <1>9, <2>1 DEF HandlerEnds, SameVerdicts, Promise!End
  <2> QED
    BY <2>2 DEF Promise!Next, Promise!Report, Report
<1>10. ASSUME NEW w \in Worker, Pop(w) PROVE [Promise!Next]_Promise!vars
  <2>1. /\ Head(queue) \in Job /\ Queued(Head(queue))
        /\ \A k \in Job : Queued(k)' <=> Queued(k) /\ k # Head(queue)
    BY <1>10, <1>0, PoppedIsGone DEF Pop
  <2>2. ~Busy(w) /\ worker'[w].job = Head(queue) /\ \A v \in Worker \ {w} : worker'[v] = worker[v]
    BY <1>10 DEF Pop, TypeOK
  <2>3. \A k \in Job : Pending(k)' <=> Pending(k)
    BY <1>10, <2>1, <2>2 DEF Pop, Pending, Unsent, Holds, Busy
  <2> QED
    BY <1>10, <2>3, SamePending, Stutters DEF Pop
\* A worker that keeps its job, or has none before and after, changes no place.
<1>11. ASSUME NEW w \in Worker, UNCHANGED <<queue, caller>>, NEW l, Goto(w, l, worker[w].job)
       PROVE  \A k \in Job : Pending(k)' <=> Pending(k)
  BY <1>11, <1>1 DEF Pending, Unsent, Holds, TypeOK
\* A worker that lets its job go.
<1>12. ASSUME NEW w \in Worker, UNCHANGED <<queue, caller, hash, handler>>, NEW l, Goto(w, l, NoJob)
       PROVE  [Promise!Next]_Promise!vars
  <2>1. CASE worker[w].job = NoJob
    BY <1>11, <1>12, <2>1, SamePending, Stutters
  <2>2. CASE worker[w].job # NoJob
    <3>1. PICK j \in Job : j = worker[w].job /\ Pending(j)
      BY <2>2 DEF TypeOK, Pending, Holds
    <3>2. \A v \in Worker \ {w} : worker'[v] = worker[v]
      BY <1>12 DEF TypeOK
    <3>3. worker'[w].job = NoJob
      BY <1>12 DEF TypeOK
    <3>4. \A k \in Job \ {j} : Pending(k)' <=> Pending(k)
      BY <1>12, <1>1, <3>1, <3>2, <3>3 DEF Pending, Unsent, Holds
    <3>5. hash[j] \notin Final
      BY <3>1 DEF JobsInOrder, Undecided
    <3>6. Forgotten(j) \/ SameVerdicts
      BY <1>12, <3>1, <3>4, <3>5, OneDropped
    <3> QED
      BY <1>12, <3>1, <3>6, Forgets
  <2> QED
    BY <2>1, <2>2
<1>13. ASSUME NEW w \in Worker, StartWorker(w) \/ StopWorker(w) \/ DropMissing(w)
                                \/ UnlistedException(w) \/ WorkerDies(w)
       PROVE  [Promise!Next]_Promise!vars
  BY <1>12, <1>13 DEF StartWorker, StopWorker, DropMissing, UnlistedException, WorkerDies
<1>14. ASSUME NEW w \in Worker, ReadHash(w) \/ PostFails(w) \/ Timeout(w)
       PROVE  [Promise!Next]_Promise!vars
  <2>1. hash' = hash /\ handler' = handler /\ \A k \in Job : Pending(k)' <=> Pending(k)
    BY <1>11, <1>14 DEF ReadHash, PostFails, Timeout
  <2> QED
    BY <2>1, SamePending, Stutters
<1>15. ASSUME NEW w \in Worker, Answer(w) PROVE [Promise!Next]_Promise!vars
  <2>1. hash' = hash /\ handler' = handler /\ \A k \in Job : Pending(k)' <=> Pending(k)
    BY <1>11, <1>15 DEF Answer
  <2> QED
    BY <2>1, SamePending, Stutters
<1>16. ASSUME NEW w \in Worker, MarkRunning(w) PROVE [Promise!Next]_Promise!vars
  <2>1. \A k \in Job : Pending(k)' <=> Pending(k)
    BY <1>11, <1>16 DEF MarkRunning
  <2>2. worker[w].job \in Job /\ Pending(worker[w].job)
    BY <1>16 DEF MarkRunning, TypeOK, Busy, Pending, Holds
  <2>3. SameVerdicts
    BY <1>16, <2>1, <2>2 DEF MarkRunning, SameVerdicts, Shown, JobsInOrder, Undecided, TypeOK, Final
  <2> QED
    BY <1>16, <2>3, Stutters DEF MarkRunning
<1>17. ASSUME NEW w \in Worker, Post(w) PROVE [Promise!Next]_Promise!vars
  <2>1. \A k \in Job : Pending(k)' <=> Pending(k)
    BY <1>11, <1>17 DEF Post
  <2>2. SameVerdicts
    BY <1>17, <2>1, SamePending DEF Post
  <2>3. worker[w].job \in Job /\ handler[worker[w].job] = "idle"
    BY <1>17 DEF Post, TypeOK, Busy, JobsInOrder, NotYetRun
  <2>4. Promise!Run(worker[w].job)
    BY <1>17, <2>2, <2>3 DEF Post, SameVerdicts, Promise!Run
  <2> QED
    BY <2>3, <2>4 DEF Promise!Next
<1>18. ASSUME NEW w \in Worker, WriteVerdict(w) PROVE [Promise!Next]_Promise!vars
  <2>1. PICK j \in Job : j = worker[w].job /\ Pending(j)
    BY <1>18 DEF WriteVerdict, TypeOK, Busy, Pending, Holds
  <2>2. PICK v \in Final : /\ hash' = [hash EXCEPT ![j] = v]
                           /\ v = "done"    => handler[j] = "ok"
                           /\ v = "skipped" => handler[j] = "skipped"
    BY <1>18, <2>1 DEF WriteVerdict, JobsInOrder, Truthful, Final
  <2>3. handler' = handler
    BY <1>18 DEF WriteVerdict
  <2>4. /\ \A u \in Worker \ {w} : worker'[u] = worker[u]
        /\ worker'[w].job = NoJob
    BY <1>18 DEF WriteVerdict, TypeOK
  <2>5. \A k \in Job \ {j} : Pending(k)' <=> Pending(k)
    BY <1>18, <1>1, <2>1, <2>4 DEF WriteVerdict, Pending, Unsent, Holds
  <2>6. Shown(j) = "none" /\ Shown(j)' = v
    BY <2>1, <2>2 DEF Shown, JobsInOrder, Undecided, TypeOK
  <2>7. \A k \in Job \ {j} : Shown(k)' = Shown(k)
    BY <2>2, <2>5 DEF Shown, TypeOK
  <2>8. Promise!Settle(j, v)
    BY <2>2, <2>3, <2>6, <2>7 DEF Promise!Settle
  <2> QED
    BY <2>8 DEF Promise!Next, Final
<1>19. CASE (\E w \in Worker : Beat(w)) \/ Age \/ UNCHANGED vars
  BY <1>19, <1>2, SamePending, Stutters DEF Beat, Age, vars
<1> QED
  BY <1>4, <1>5, <1>6, <1>7, <1>8, <1>9, <1>10, <1>13, <1>14, <1>15, <1>16, <1>17, <1>18, <1>19
     DEF Next, Enqueue, Process

\* The queue implements the promise of OnceOnlyJobs: a handler runs at most
\* once, and a verdict is final and truthful.
THEOREM Implements == Spec => KeepsPromise
<1>1. Init => Promise!Init
  BY QueueAssumption DEF Init, Promise!Init, Shown, Pending, Unsent, Final
<1>2. TypeOK /\ TypeOK' /\ JobsInOrder /\ [Next]_vars => [Promise!Next]_Promise!vars
  BY KeepsPromiseStep
<1> QED
  BY <1>1, <1>2, TypeCorrect, InOrder, PTL DEF Spec, KeepsPromise, Promise!Spec

-----------------------------------------------------------------------------
(* Stranded jobs, counted.  Only a death lets go of a job that is shown as   *)
(* waiting or running, and it lets go of one.                                *)

SumOfDeaths == deaths["caller"] + deaths["worker"] + deaths["exception"]

\* What a step does to the stranded jobs: none is new, or a death and one is.
NoneStranded   == Stranded' \subseteq Stranded /\ deaths' = deaths
StrandedBy(d)  == /\ deaths' = [deaths EXCEPT ![d] = @ + 1]
                  /\ \E x : Stranded' \subseteq Stranded \cup {x}
AtMostOneMore == NoneStranded \/ \E d \in Death : StrandedBy(d)

\* Where every job pending before is pending after and no hash comes anew for
\* the others, nothing is stranded.
LEMMA NobodyLetGo ==
  ASSUME \A k \in Job : Pending(k) => Pending(k)', deaths' = deaths,
         \A k \in Job : hash'[k] = hash[k] \/ hash'[k] = "none" \/ Pending(k)'
  PROVE  AtMostOneMore
BY DEF AtMostOneMore, NoneStranded, Stranded

\* Where one job is let go of and the hashes stay, that job alone is stranded.
LEMMA OneLetGo ==
  ASSUME NEW x, \A k \in Job \ {x} : Pending(k) => Pending(k)', hash' = hash,
         NEW d \in Death, deaths' = [deaths EXCEPT ![d] = @ + 1]
  PROVE  AtMostOneMore
<1>1. Stranded' \subseteq Stranded \cup {x}
  BY DEF Stranded
<1> QED
  BY <1>1 DEF AtMostOneMore, StrandedBy

\* Every step strands no job, or is a death and strands one at most.
LEMMA StrandedStep ==
  TypeOK /\ TypeOK' /\ JobsInOrder /\ [Next]_vars => AtMostOneMore
<1> SUFFICES ASSUME TypeOK, TypeOK', JobsInOrder, [Next]_vars PROVE AtMostOneMore
  OBVIOUS
<1> USE QueueAssumption DEF Goto
<1>0. queue \in Seq(Job) /\ Distinct
  BY DEF TypeOK, JobsInOrder, OnePlace, Distinct
<1>1. ASSUME UNCHANGED queue PROVE \A k : Queued(k)' <=> Queued(k)
  BY <1>1 DEF Queued
<1>2. ASSUME UNCHANGED <<queue, caller, worker>> PROVE \A k \in Job : Pending(k)' <=> Pending(k)
  BY <1>2, <1>1 DEF Pending, Unsent, Holds
\* A worker that keeps its job changes no place.
<1>3. ASSUME NEW w \in Worker, UNCHANGED <<queue, caller>>, NEW l, Goto(w, l, worker[w].job)
      PROVE  \A k \in Job : Pending(k)' <=> Pending(k)
  BY <1>3, <1>1 DEF Pending, Unsent, Holds, TypeOK
\* A worker that lets its job go changes no other job's place.
<1>4. ASSUME NEW w \in Worker, UNCHANGED <<queue, caller>>, NEW l, Goto(w, l, NoJob)
      PROVE  \A k \in Job \ {worker[w].job} : Pending(k)' <=> Pending(k)
  <2>1. \A v \in Worker \ {w} : worker'[v] = worker[v]
    BY <1>4 DEF TypeOK
  <2>2. worker'[w].job = NoJob
    BY <1>4 DEF TypeOK
  <2> QED
    BY <1>4, <1>1, <2>1, <2>2 DEF Pending, Unsent, Holds
<1>5. ASSUME NEW j \in Job, PutHash(j) PROVE AtMostOneMore
  <2>1. \A k \in Job : Pending(k)' <=> Pending(k)
    BY <1>5, <1>1 DEF PutHash, Pending, Unsent, Holds, TypeOK
  <2>2. Pending(j)
    BY <1>5 DEF PutHash, Pending, Unsent
  <2>3. deaths' = deaths /\ \A k \in Job \ {j} : hash'[k] = hash[k]
    BY <1>5 DEF PutHash, TypeOK
  <2> QED
    BY <2>1, <2>2, <2>3, NobodyLetGo
<1>6. ASSUME NEW j \in Job, Push(j) PROVE AtMostOneMore
  <2>1. \A k \in Job : Queued(k)' <=> Queued(k) \/ k = j
    BY <1>6, <1>0, PushedIsQueued DEF Push, JobsInOrder, OnePlace, Unsent
  <2>2. \A k \in Job : Pending(k)' <=> Pending(k)
    BY <1>6, <2>1 DEF Push, Pending, Unsent, Holds, TypeOK
  <2> QED
    BY <1>6, <2>2, NobodyLetGo DEF Push
<1>7. ASSUME NEW j \in Job, SetExpiry(j) PROVE AtMostOneMore
  <2>1. \A k \in Job : Pending(k)' <=> Pending(k)
    BY <1>7, <1>1 DEF SetExpiry, Pending, Unsent, Holds, TypeOK
  <2> QED
    BY <1>7, <2>1, NobodyLetGo DEF SetExpiry
<1>8. ASSUME NEW j \in Job, CallerDies(j) PROVE AtMostOneMore
  <2>1. \A k \in Job \ {j} : Pending(k)' <=> Pending(k)
    BY <1>8, <1>1 DEF CallerDies, Pending, Unsent, Holds, TypeOK
  <2> QED
    BY <1>8, <2>1, OneLetGo DEF CallerDies, Dies, Death
<1>9. ASSUME NEW j \in Job, Expire(j) PROVE AtMostOneMore
  <2>1. \A k \in Job : Pending(k)' <=> Pending(k)
    BY <1>9, <1>2 DEF Expire
  <2>2. deaths' = deaths /\ \A k \in Job : hash'[k] = hash[k] \/ hash'[k] = "none"
    BY <1>9 DEF Expire, TypeOK
  <2> QED
    BY <2>1, <2>2, NobodyLetGo
<1>10. ASSUME NEW w \in Worker, Pop(w) PROVE AtMostOneMore
  <2>1. /\ Head(queue) \in Job /\ Queued(Head(queue))
        /\ \A k \in Job : Queued(k)' <=> Queued(k) /\ k # Head(queue)
    BY <1>10, <1>0, PoppedIsGone DEF Pop
  <2>2. ~Busy(w) /\ worker'[w].job = Head(queue) /\ \A v \in Worker \ {w} : worker'[v] = worker[v]
    BY <1>10 DEF Pop, TypeOK
  <2>3. \A k \in Job : Pending(k)' <=> Pending(k)
    BY <1>10, <2>1, <2>2 DEF Pop, Pending, Unsent, Holds, Busy
  <2> QED
    BY <1>10, <2>3, NobodyLetGo DEF Pop
<1>11. ASSUME NEW w \in Worker, ReadHash(w) \/ PostFails(w) \/ Timeout(w) \/ Post(w)
       PROVE  AtMostOneMore
  <2>1. hash' = hash /\ deaths' = deaths /\ \A k \in Job : Pending(k)' <=> Pending(k)
    BY <1>3, <1>11 DEF ReadHash, PostFails, Timeout, Post
  <2> QED
    BY <2>1, NobodyLetGo
<1>12. ASSUME NEW w \in Worker, Answer(w) PROVE AtMostOneMore
  <2>1. hash' = hash /\ deaths' = deaths /\ \A k \in Job : Pending(k)' <=> Pending(k)
    BY <1>3, <1>12 DEF Answer
  <2> QED
    BY <2>1, NobodyLetGo
<1>13. ASSUME NEW w \in Worker, MarkRunning(w) PROVE AtMostOneMore
  <2>1. \A k \in Job : Pending(k)' <=> Pending(k)
    BY <1>3, <1>13 DEF MarkRunning
  <2>2. worker[w].job \in Job /\ Pending(worker[w].job)
    BY <1>13 DEF MarkRunning, TypeOK, Busy, Pending, Holds
  <2>3. deaths' = deaths /\ \A k \in Job \ {worker[w].job} : hash'[k] = hash[k]
    BY <1>13 DEF MarkRunning, TypeOK
  <2> QED
    BY <2>1, <2>2, <2>3, NobodyLetGo
<1>14. ASSUME NEW w \in Worker, StartWorker(w) \/ StopWorker(w) PROVE AtMostOneMore
  <2>1. worker[w].job = NoJob
    BY <1>14 DEF StartWorker, StopWorker, TypeOK, Busy
  <2>2. hash' = hash /\ deaths' = deaths /\ \A k \in Job : Pending(k)' <=> Pending(k)
    BY <1>4, <1>14, <2>1 DEF StartWorker, StopWorker
  <2> QED
    BY <2>2, NobodyLetGo
\* The job dropped because its hash is gone is not shown any more; the job whose
\* verdict is written is not shown as waiting or running.
<1>15. ASSUME NEW w \in Worker, DropMissing(w) \/ WriteVerdict(w) PROVE AtMostOneMore
  <2>1. \A k \in Job \ {worker[w].job} : Pending(k)' <=> Pending(k)
    BY <1>4, <1>15 DEF DropMissing, WriteVerdict
  <2>2. \A k \in Job \ {worker[w].job} : hash'[k] = hash[k]
    BY <1>15 DEF DropMissing, WriteVerdict, TypeOK
  <2>3. worker[w].job \in Job => hash'[worker[w].job] \in Final \cup {"none"}
    BY <1>15 DEF DropMissing, WriteVerdict, TypeOK, Final
  <2>4. Stranded' \subseteq Stranded
    BY <2>1, <2>2, <2>3 DEF Stranded, Final
  <2>5. deaths' = deaths
    BY <1>15 DEF DropMissing, WriteVerdict
  <2> QED
    BY <2>4, <2>5 DEF AtMostOneMore, NoneStranded
<1>16. ASSUME NEW w \in Worker, UnlistedException(w) \/ WorkerDies(w) PROVE AtMostOneMore
  <2>1. \A k \in Job \ {worker[w].job} : Pending(k)' <=> Pending(k)
    BY <1>4, <1>16 DEF UnlistedException, WorkerDies
  <2>2. hash' = hash /\ \E d \in Death : deaths' = [deaths EXCEPT ![d] = @ + 1]
    BY <1>16 DEF UnlistedException, WorkerDies, Dies, Death
  <2> QED
    BY <2>1, <2>2, OneLetGo
<1>17. ASSUME UNCHANGED <<hash, queue, caller, worker, deaths>> PROVE AtMostOneMore
  BY <1>2, <1>17, NobodyLetGo
<1>18. CASE \/ \E j \in Job, r \in Report : HandlerEnds(j, r)
            \/ \E w \in Worker : Beat(w)
            \/ Age \/ UNCHANGED vars
  BY <1>17, <1>18 DEF HandlerEnds, Beat, Age, vars
<1> QED
  BY <1>5, <1>6, <1>7, <1>8, <1>9, <1>10, <1>11, <1>12, <1>13, <1>14, <1>15, <1>16, <1>18
     DEF Next, Enqueue, Process

\* Every death strands one job at most: no job is stuck without one, whatever
\* the number of jobs and workers of enqueue_job() and _process_one().
THEOREM StrandedByDeaths == Spec => []OneStrandedPerDeath
<1>1. Init => OneStrandedPerDeath
  <2> SUFFICES ASSUME Init PROVE OneStrandedPerDeath
    OBVIOUS
  <2>1. Stranded = {}
    BY DEF Init, Stranded
  <2> QED
    BY <2>1, FS_EmptySet DEF Init, OneStrandedPerDeath, Death
<1>2. TypeOK /\ TypeOK' /\ JobsInOrder /\ OneStrandedPerDeath /\ [Next]_vars => OneStrandedPerDeath'
  <2> SUFFICES ASSUME TypeOK, TypeOK', JobsInOrder, OneStrandedPerDeath, [Next]_vars
               PROVE  OneStrandedPerDeath'
    OBVIOUS
  <2>1. IsFiniteSet(Stranded) /\ Cardinality(Stranded) \in Nat
    BY QueueAssumption, FS_Subset, FS_CardinalityType DEF Stranded
  <2>2. Cardinality(Stranded') \in Nat
    BY QueueAssumption, FS_Subset, FS_CardinalityType DEF Stranded
  <2>3. SumOfDeaths \in Nat /\ Cardinality(Stranded) <= SumOfDeaths
    BY DEF TypeOK, Death, SumOfDeaths, OneStrandedPerDeath
  <2>4. CASE NoneStranded
    <3>1. Cardinality(Stranded') <= Cardinality(Stranded)
      BY <2>1, <2>4, FS_Subset DEF NoneStranded
    <3> QED
      BY <2>1, <2>2, <2>3, <2>4, <3>1 DEF NoneStranded, SumOfDeaths, OneStrandedPerDeath
  <2>5. ASSUME NEW d \in Death, StrandedBy(d) PROVE OneStrandedPerDeath'
    <3>1. PICK x : Stranded' \subseteq Stranded \cup {x}
      BY <2>5 DEF StrandedBy
    <3>2. /\ IsFiniteSet(Stranded \cup {x})
          /\ Cardinality(Stranded \cup {x}) <= Cardinality(Stranded) + 1
      BY <2>1, FS_AddElement, SMTT(30)
    <3>3. Cardinality(Stranded') <= Cardinality(Stranded \cup {x})
      BY <3>1, <3>2, FS_Subset
    <3>4. Cardinality(Stranded \cup {x}) \in Nat
      BY <3>2, FS_CardinalityType
    <3>5. Cardinality(Stranded') <= Cardinality(Stranded) + 1
      BY <2>1, <2>2, <3>2, <3>3, <3>4
    <3>6. SumOfDeaths' = SumOfDeaths + 1
      BY <2>5 DEF StrandedBy, SumOfDeaths, Death, TypeOK
    <3> QED
      BY <2>1, <2>2, <2>3, <3>5, <3>6 DEF SumOfDeaths, OneStrandedPerDeath
  <2> QED
    BY <2>4, <2>5, StrandedStep DEF AtMostOneMore
<1> QED
  BY <1>1, <1>2, TypeCorrect, InOrder, PTL DEF Spec

=============================================================================
