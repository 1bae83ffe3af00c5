------------------------------ MODULE JobQueue ------------------------------
(***************************************************************************)
(* The Redis job queue: enqueue_job() of apps/api/app/jobs/queue.py and    *)
(* the worker process apps/worker/app/main.py, which pops a job id, marks  *)
(* its hash running, calls the API over HTTP and writes the verdict.       *)
(*                                                                         *)
(* Each Redis command is one step.  The caller, the worker and the API     *)
(* handler are three processes: any of the first two may die between two   *)
(* steps, and the worker's HTTP call may time out while the handler runs.  *)
(***************************************************************************)
EXTENDS Naturals, Sequences, FiniteSets

CONSTANTS
  Job,      \* the jobs somebody enqueues
  Worker,   \* worker processes: one in the deployed stack
  NoJob,
  Budget    \* bound on the deaths of each kind

Death  == {"caller", "worker", "exception"}
Report == {"ok", "skipped", "error"}

ASSUME QueueAssumption ==
  /\ IsFiniteSet(Job) /\ NoJob \notin Job
  /\ Budget \in [Death -> Nat]

VARIABLES
  hash,     \* Job -> the status field of its hash, "none" when there is no hash
  ttl,      \* jobs whose hash expires after seven days
  queue,    \* the list citec:jobs:queue
  caller,   \* Job -> how far its enqueue_job() call got
  worker,   \* Worker -> [pc, job]
  handler,  \* Job -> its API handler: "idle", "running", or how it ended
  beat,     \* the heartbeat key: "fresh" (age <= 30 s), "stale", "expired"
  deaths    \* Death -> how often it happened

vars == <<hash, ttl, queue, caller, worker, handler, beat, deaths>>

Final == {"done", "skipped", "failed"}
Busy(w)    == worker[w].job # NoJob
Holds(w, j) == worker[w].job = j
Queued(j)   == \E i \in 1 .. Len(queue) : queue[i] = j

Init ==
  /\ hash = [j \in Job |-> "none"] /\ ttl = {}
  /\ queue = <<>>
  /\ caller = [j \in Job |-> "new"]
  /\ worker = [w \in Worker |-> [pc |-> "down", job |-> NoJob]]
  /\ handler = [j \in Job |-> "idle"]
  /\ beat = "expired"
  /\ deaths = [d \in Death |-> 0]

Dies(d) == deaths[d] < Budget[d] /\ deaths' = [deaths EXCEPT ![d] = @ + 1]

-----------------------------------------------------------------------------
(* enqueue_job(): HSET, RPUSH, EXPIRE. *)

PutHash(j) ==
  /\ caller[j] = "new"
  /\ hash' = [hash EXCEPT ![j] = "queued"]
  /\ caller' = [caller EXCEPT ![j] = "hashed"]
  /\ UNCHANGED <<ttl, queue, worker, handler, beat, deaths>>

Push(j) ==
  /\ caller[j] = "hashed"
  /\ queue' = Append(queue, j)
  /\ caller' = [caller EXCEPT ![j] = "pushed"]
  /\ UNCHANGED <<hash, ttl, worker, handler, beat, deaths>>

SetExpiry(j) ==
  /\ caller[j] = "pushed"
  /\ ttl' = ttl \cup {j}
  /\ caller' = [caller EXCEPT ![j] = "returned"]
  /\ UNCHANGED <<hash, queue, worker, handler, beat, deaths>>

CallerDies(j) ==
  /\ caller[j] \in {"hashed", "pushed"} /\ Dies("caller")
  /\ caller' = [caller EXCEPT ![j] = "dead"]
  /\ UNCHANGED <<hash, ttl, queue, worker, handler, beat>>

\* Seven days pass, whether the job waits, runs or has ended.
Expire(j) ==
  /\ j \in ttl
  /\ hash' = [hash EXCEPT ![j] = "none"]
  /\ ttl' = ttl \ {j}
  /\ UNCHANGED <<queue, caller, worker, handler, beat, deaths>>

-----------------------------------------------------------------------------
(* The worker: main(), _process_one() and _handle(). *)

Goto(w, l, j) == worker' = [worker EXCEPT ![w] = [pc |-> l, job |-> j]]

StartWorker(w) ==
  /\ worker[w].pc = "down"
  /\ Goto(w, "loop", NoJob)
  /\ UNCHANGED <<hash, ttl, queue, caller, handler, beat, deaths>>

\* SIGTERM clears _running; the loop ends when it is next tested.
StopWorker(w) ==
  /\ worker[w].pc = "loop"
  /\ Goto(w, "down", NoJob)
  /\ UNCHANGED <<hash, ttl, queue, caller, handler, beat, deaths>>

\* BLPOP removes the id from the list before anything else is written.
Pop(w) ==
  /\ worker[w].pc = "loop" /\ queue # <<>>
  /\ Goto(w, "popped", Head(queue))
  /\ queue' = Tail(queue)
  /\ UNCHANGED <<hash, ttl, caller, handler, beat, deaths>>

\* Mutant: the worker keeps the id of the job it drops.
MutDropMissing(w) ==
  /\ worker[w].pc = "popped" /\ hash[worker[w].job] = "none"
  /\ Goto(w, "loop", worker[w].job)
  /\ UNCHANGED <<hash, ttl, queue, caller, handler, beat, deaths>>

\* HGETALL finds nothing: the job is dropped.
DropMissing(w) ==
  /\ worker[w].pc = "popped" /\ hash[worker[w].job] = "none"
  /\ Goto(w, "loop", NoJob)
  /\ UNCHANGED <<hash, ttl, queue, caller, handler, beat, deaths>>

ReadHash(w) ==
  /\ worker[w].pc = "popped" /\ hash[worker[w].job] # "none"
  /\ Goto(w, "read", worker[w].job)
  /\ UNCHANGED <<hash, ttl, queue, caller, handler, beat, deaths>>

\* HSET of the status; it makes the hash anew if it has just expired.
MarkRunning(w) ==
  /\ worker[w].pc = "read"
  /\ hash' = [hash EXCEPT ![worker[w].job] = "running"]
  /\ Goto(w, "started", worker[w].job)
  /\ UNCHANGED <<ttl, queue, caller, handler, beat, deaths>>

\* _handle() posts the request; the API runs the handler.  (A ping or a noop is
\* answered by _handle() itself: a handler that ends at once.)
Post(w) ==
  /\ worker[w].pc = "started"
  /\ handler' = [handler EXCEPT ![worker[w].job] = "running"]
  /\ Goto(w, "calling", worker[w].job)
  /\ UNCHANGED <<hash, ttl, queue, caller, beat, deaths>>

\* A bad payload, an unknown type, a refused connection: nothing ran.
PostFails(w) ==
  /\ worker[w].pc = "started"
  /\ Goto(w, "failing", worker[w].job)
  /\ UNCHANGED <<hash, ttl, queue, caller, handler, beat, deaths>>

HandlerEnds(j, r) ==
  /\ handler[j] = "running"
  /\ handler' = [handler EXCEPT ![j] = r]
  /\ UNCHANGED <<hash, ttl, queue, caller, worker, beat, deaths>>

\* The answer arrives; {"skipped": true} is a verdict of its own.
Answer(w) ==
  /\ worker[w].pc = "calling" /\ handler[worker[w].job] \in Report
  /\ Goto(w, CASE handler[worker[w].job] = "ok"      -> "passing"
               [] handler[worker[w].job] = "skipped" -> "skipping"
               [] handler[worker[w].job] = "error"   -> "failing", worker[w].job)
  /\ UNCHANGED <<hash, ttl, queue, caller, handler, beat, deaths>>

\* Mutants: after a timeout the call is repeated; no verdict is written.
MutRetry(w) ==
  /\ worker[w].pc = "calling"
  /\ Goto(w, "started", worker[w].job)
  /\ UNCHANGED <<hash, ttl, queue, caller, handler, beat, deaths>>

MutGiveUp(w) ==
  /\ worker[w].pc = "calling"
  /\ Goto(w, "loop", NoJob)
  /\ UNCHANGED <<hash, ttl, queue, caller, handler, beat, deaths>>

\* urlopen() gives up, or the connection breaks; the handler is not told.
Timeout(w) ==
  /\ worker[w].pc = "calling"
  /\ Goto(w, "failing", worker[w].job)
  /\ UNCHANGED <<hash, ttl, queue, caller, handler, beat, deaths>>

\* The second HSET of _process_one(), one per verdict.
WriteVerdict(w) ==
  /\ worker[w].pc \in {"passing", "skipping", "failing"}
  /\ hash' = [hash EXCEPT ![worker[w].job] =
                CASE worker[w].pc = "passing"  -> "done"
                  [] worker[w].pc = "skipping" -> "skipped"
                  [] worker[w].pc = "failing"  -> "failed"]
  /\ Goto(w, "loop", NoJob)
  /\ UNCHANGED <<ttl, queue, caller, handler, beat, deaths>>

\* An exception _process_one() does not list (a truncated HTTP answer, Redis
\* gone at the last HSET) reaches main(), which logs it and goes on.
UnlistedException(w) ==
  /\ Busy(w) /\ Dies("exception")
  /\ Goto(w, "loop", NoJob)
  /\ UNCHANGED <<hash, ttl, queue, caller, handler, beat>>

WorkerDies(w) ==
  /\ worker[w].pc # "down" /\ Dies("worker")
  /\ Goto(w, "down", NoJob)
  /\ UNCHANGED <<hash, ttl, queue, caller, handler, beat>>

\* Mutant: no beater thread, the loop alone beats.
MutBeat(w) ==
  /\ worker[w].pc = "loop"
  /\ beat' = "fresh"
  /\ UNCHANGED <<hash, ttl, queue, caller, worker, handler, deaths>>

\* SET citec:worker:heartbeat EX 60: by the loop between jobs, by the beater
\* thread of _process_one() during one.
Beat(w) ==
  /\ worker[w].pc \notin {"down", "popped", "read"}
  /\ beat' = "fresh"
  /\ UNCHANGED <<hash, ttl, queue, caller, worker, handler, deaths>>

Age ==
  /\ beat # "expired"
  /\ beat' = IF beat = "fresh" THEN "stale" ELSE "expired"
  /\ UNCHANGED <<hash, ttl, queue, caller, worker, handler, deaths>>

-----------------------------------------------------------------------------
Enqueue(j) == PutHash(j) \/ Push(j) \/ SetExpiry(j)

Process(w) ==
  \/ Pop(w) \/ DropMissing(w) \/ ReadHash(w) \/ MarkRunning(w) \/ Post(w) \/ PostFails(w)
  \/ Answer(w) \/ WriteVerdict(w)

Next ==
  \/ \E j \in Job : Enqueue(j) \/ CallerDies(j) \/ Expire(j)
  \/ \E j \in Job, r \in Report : HandlerEnds(j, r)
  \/ \E w \in Worker : \/ StartWorker(w) \/ StopWorker(w) \/ Process(w) \/ Timeout(w)
                       \/ UnlistedException(w) \/ WorkerDies(w) \/ Beat(w)
  \/ Age

Spec == Init /\ [][Next]_vars

\* Fairness: a call of enqueue_job() that is not killed goes on; the container
\* restarts the worker (restart: unless-stopped), and its loop and its heartbeat
\* go on.  Nothing is assumed of the HTTP call: it may never return.
FairSpec ==
  /\ Spec
  /\ \A j \in Job : WF_vars(Enqueue(j))
  /\ \A w \in Worker : WF_vars(StartWorker(w)) /\ SF_vars(Process(w)) /\ WF_vars(Beat(w))

-----------------------------------------------------------------------------
(* Properties. *)

Pc == {"down", "loop", "popped", "read", "started", "calling", "passing", "skipping", "failing"}

TypeOK ==
  /\ hash \in [Job -> {"none", "queued", "running"} \cup Final]
  /\ ttl \subseteq Job
  /\ queue \in Seq(Job)
  /\ caller \in [Job -> {"new", "hashed", "pushed", "returned", "dead"}]
  /\ worker \in [Worker -> [pc : Pc, job : Job \cup {NoJob}]]
  /\ handler \in [Job -> {"idle", "running"} \cup Report]
  /\ beat \in {"fresh", "stale", "expired"}
  /\ deaths \in [Death -> Nat]
  /\ \A w \in Worker : Busy(w) <=> worker[w].pc \notin {"down", "loop"}

\* A job is in one place at a time: with its caller, once in the list, or with
\* one worker.
Unsent(j) == caller[j] \in {"new", "hashed"}
OnePlace ==
  /\ \A i, k \in 1 .. Len(queue) : queue[i] = queue[k] => i = k
  /\ \A v, w \in Worker : Busy(v) /\ worker[v].job = worker[w].job => v = w
  /\ \A j \in Job : Queued(j) => ~Unsent(j)
  /\ \A j \in Job, w \in Worker : Holds(w, j) => ~Unsent(j) /\ ~Queued(j)

\* Until its worker posts the request the handler of a job has not run.
NotYetRun ==
  /\ \A j \in Job : Unsent(j) \/ Queued(j) => handler[j] = "idle"
  /\ \A w \in Worker : worker[w].pc \in {"popped", "read", "started"} =>
       handler[worker[w].job] = "idle"

\* A job still in a place has no verdict, and a verdict about to be written is
\* the one the handler reported.
Pending(j) == Unsent(j) \/ Queued(j) \/ \E w \in Worker : Holds(w, j)
Undecided  == \A j \in Job : Pending(j) => hash[j] \notin Final
Truthful ==
  \A w \in Worker : /\ worker[w].pc = "passing"  => handler[worker[w].job] = "ok"
                    /\ worker[w].pc = "skipping" => handler[worker[w].job] = "skipped"

\* The four together: what makes the queue keep its promise, step by step.
JobsInOrder == OnePlace /\ NotYetRun /\ Undecided /\ Truthful

\* The queue implements the promise: a handler runs at most once whatever dies
\* and whatever times out, and a verdict is final and truthful.
Shown(j)   == IF hash[j] \in Final THEN hash[j]
              ELSE IF hash[j] = "none" /\ ~Pending(j) THEN "forgotten" ELSE "none"
Promise == INSTANCE OnceOnlyJobs WITH verdict <- [j \in Job |-> Shown(j)]
KeepsPromise == Promise!Spec

\* Jobs shown as waiting or running that nobody will ever touch again.
Stranded ==
  {j \in Job : /\ hash[j] \in {"queued", "running"}
               /\ ~Pending(j)}

\* Every death strands one job at most: no job gets stuck without one.
OneStrandedPerDeath ==
  Cardinality(Stranded) <= deaths["caller"] + deaths["worker"] + deaths["exception"]

\* As long as no HTTP call lasts for ever, every accepted job keeps its verdict
\* in the end (or its seven days pass), unless a death strands it: main(), _process_one().
Returned(w) == worker[w].pc # "calling"
AllSettled  == \A j \in Job : hash[j] \in Final \cup {"none"} \/ j \in Stranded
EveryJobSettles == (\A w \in Worker : []<>Returned(w)) => <>[]AllSettled

\* A worker that stays up is shown as up again and again, in the middle of a
\* call that takes hours too: the beater thread of _process_one.
Up(w)   == worker[w].pc # "down"
Shining == beat = "fresh"
ShownUp == (\E w \in Worker : <>[]Up(w)) => []<>Shining

=============================================================================
