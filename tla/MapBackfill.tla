----------------------------- MODULE MapBackfill -----------------------------
(***************************************************************************)
(* confluence/map_backfill.py: crawl every map source, ingest once, embed    *)
(* until nothing is pending.  What a run knows is in memory and, at every   *)
(* _touch(), in a state file from which the next call resumes; the file is  *)
(* written before the lock is tried, and failures of a crawl are kept in    *)
(* memory until they have been retried.                                     *)
(*                                                                          *)
(* A source has one root; the crawl of one source is one step (MapSync has  *)
(* its inside), and so are one ingest and one embedding pass.               *)
(***************************************************************************)
EXTENDS Integers, FiniteSets

CONSTANTS
  Sources, Pages,  \* pages are naturals: a listing is ordered
  SourceOf,        \* Pages -> Sources
  PageLimit,       \* limit of a listing request
  RetryLimit,      \* _RETRY_LIMIT
  Runs,            \* processes that call run_backfill()
  Calls,           \* their arguments: [ids, resume]
  MaxCalls, MaxFailures

VARIABLES
  state,           \* .backfill_state.json
  lock,            \* who holds the advisory lock of map_sync: nobody or one
  act,             \* the processes
  raw, docs, vecs, \* pages with a file, with a document, with vectors
  calls, failures,
  gap              \* history: pages no retry and no ingest will come back to
backfillVars == <<state, lock, act, raw, docs, vecs, calls, failures, gap>>

NoSource == [status |-> "none", attempts |-> 0]
Fresh == [phase |-> "idle", src |-> [s \in Sources |-> NoSource], left |-> {}, ingest |-> "none", ok |-> "unknown"]
IdleRun == [pc |-> "idle", st |-> Fresh, todo |-> {}, seen |-> {}, again |-> {}, fails |-> {},
            crawled |-> FALSE, try |-> 0, clean |-> FALSE]
stores == <<raw, docs, vecs>>

BackfillInit ==
  /\ state = Fresh /\ lock = {} /\ act = [r \in Runs |-> IdleRun]
  /\ raw = {} /\ docs = {} /\ vecs = {} /\ calls = 0 /\ failures = 0 /\ gap = {}

Go(r, k) == act' = [act EXCEPT ![r] = k]
Fault == failures < MaxFailures /\ failures' = failures + 1
\* _touch(): memory and file alike.
Touch(r, k, phase) == state' = [k.st EXCEPT !.phase = phase] /\ Go(r, [k EXCEPT !.st.phase = phase])

\* A failure is a page or a listing request: <<kind, page, attempts>>, where a
\* listing request is named by the page it starts at.
PagesOf(s) == {p \in Pages : SourceOf[p] = s}
Rank(p) == Cardinality({q \in PagesOf(SourceOf[p]) : q < p})
Starts(p) == Rank(p) % PageLimit = 0
Behind(p) == {q \in PagesOf(SourceOf[p]) : q >= p}
Batch(p) == {q \in Behind(p) : Rank(q) < Rank(p) + PageLimit}
Covers(i) == IF i[1] = "page" THEN {i[2]} ELSE Batch(i[2])
Forgotten(items) == UNION {Covers(i) : i \in items}

\* What a memory loaded before the file's last write does not know.
Stale(st) == Forgotten(state.left \ st.left)
             \union (IF st.ingest = "done" /\ state.ingest # "done" THEN raw \ docs ELSE {})

-----------------------------------------------------------------------------
(* The call: load, overwrite, lock.  An id that is not configured is refused. *)

Call(r, c) ==
  /\ act[r].pc = "idle" /\ c.ids \subseteq Sources /\ calls < MaxCalls /\ calls' = calls + 1
  /\ LET st == IF c.resume THEN state ELSE Fresh IN
     Go(r, [IdleRun EXCEPT !.pc = "loaded", !.st = st, !.todo = c.ids, !.seen = c.ids, !.fails = st.left])
  /\ UNCHANGED <<state, lock, stores, failures, gap>>
\* What another run wrote since the load is written over, its leftovers too.
SayStarting(r) ==
  /\ act[r].pc = "loaded"
  /\ Touch(r, [act[r] EXCEPT !.pc = "locking", !.st.ok = "unknown"], "starting")
  /\ gap' = gap \union Stale(act[r].st)
  /\ UNCHANGED <<lock, stores, calls, failures>>
TryLock(r) ==
  /\ act[r].pc = "locking"
  /\ IF lock = {}
     THEN lock' = {r} /\ Go(r, [act[r] EXCEPT !.pc = "crawl"]) /\ gap' = gap \union Stale(act[r].st)
     ELSE Go(r, IdleRun) /\ UNCHANGED <<lock, gap>>
  /\ UNCHANGED <<state, stores, calls, failures>>

-----------------------------------------------------------------------------
(* The crawls. *)

\* _run_map_inventory_locked() of one source: a page may fail, and a listing
\* request that fails ends the root.
Crawled(k, s, good, bad, gave) ==
  [k EXCEPT !.st.src[s] = [status |-> "crawled", attempts |-> gave],
            !.fails = @ \union bad, !.crawled = TRUE]
CrawlOne(r, s, k, gave) ==
  \/ /\ raw' = raw \union PagesOf(s) /\ UNCHANGED <<failures, gap>>
     /\ Go(r, Crawled(k, s, PagesOf(s), {}, gave))
  \/ /\ Fault
     /\ \/ \E p \in PagesOf(s) : /\ raw' = raw \union (PagesOf(s) \ {p}) /\ UNCHANGED gap
                                 /\ Go(r, Crawled(k, s, PagesOf(s) \ {p}, {<<"page", p, 0>>}, gave))
        \/ \E p \in {q \in PagesOf(s) : Starts(q)} :
             /\ raw' = raw \union (PagesOf(s) \ Behind(p)) /\ gap' = gap \union (Behind(p) \ Batch(p))
             /\ Go(r, Crawled(k, s, PagesOf(s) \ Behind(p), {<<"list", p, 0>>}, gave))
        \/ \E good \in SUBSET PagesOf(s) :      \* an exception
             /\ raw' = raw \union good /\ UNCHANGED gap
             /\ Go(r, [k EXCEPT !.st.src[s] = [status |-> "error", attempts |-> gave], !.crawled = TRUE,
                                !.again = IF k.pc = "record" \/ gave < RetryLimit THEN @ \union {s} ELSE @])

\* _source_done()
SourceDone(st, s) ==
  st.src[s].status = "crawled" \/ (st.src[s].status = "error" /\ st.src[s].attempts >= RetryLimit)
Skip(r) ==
  /\ act[r].pc = "crawl"
  /\ \E s \in act[r].todo : SourceDone(act[r].st, s) /\ Go(r, [act[r] EXCEPT !.todo = @ \ {s}])
  /\ UNCHANGED <<state, lock, stores, calls, failures, gap>>
CrawlSource(r) ==
  /\ act[r].pc = "crawl"
  /\ \E s \in act[r].todo : /\ ~SourceDone(act[r].st, s)
       /\ state' = [act[r].st EXCEPT !.phase = "crawl"]
       /\ CrawlOne(r, s, [act[r] EXCEPT !.pc = "record", !.todo = @ \ {s}, !.st.phase = "crawl"], act[r].st.src[s].attempts)
  /\ UNCHANGED <<lock, docs, vecs, calls>>
Record(r) ==
  /\ act[r].pc = "record" /\ Touch(r, [act[r] EXCEPT !.pc = "crawl"], "crawl")
  /\ UNCHANGED <<lock, stores, calls, failures, gap>>
\* The sources that threw, all of them once per round; then the failed requests.
CrawlsDone(r) ==
  /\ act[r].pc = "crawl" /\ act[r].todo = {}
  /\ Go(r, IF act[r].again # {} /\ act[r].try < RetryLimit
           THEN [act[r] EXCEPT !.pc = "again", !.todo = act[r].again, !.again = {}, !.try = @ + 1]
           ELSE [act[r] EXCEPT !.pc = "retry", !.try = 0])
  /\ UNCHANGED <<state, lock, stores, calls, failures, gap>>
CrawlAgain(r) ==
  /\ act[r].pc = "again"
  /\ IF act[r].todo = {} THEN Touch(r, [act[r] EXCEPT !.pc = "crawl"], "retry-source") /\ UNCHANGED <<raw, failures, gap>>
     ELSE LET s == CHOOSE x \in act[r].todo : TRUE IN
          /\ state' = [act[r].st EXCEPT !.phase = "crawl"]
          /\ CrawlOne(r, s, [act[r] EXCEPT !.todo = @ \ {s}], act[r].st.src[s].attempts + 1)
  /\ UNCHANGED <<lock, docs, vecs, calls>>

-----------------------------------------------------------------------------
(* retry_failures(): every failure once a round; a listing request that       *)
(* works now is not followed by the next one.                                 *)

Spent(i) == i[3] >= RetryLimit
RetryRound(r) ==
  /\ act[r].pc = "retry" /\ act[r].fails # {} /\ act[r].try < RetryLimit
  /\ \E worse \in SUBSET {i \in act[r].fails : ~Spent(i)} :
       /\ IF worse = {} THEN UNCHANGED failures ELSE Fault
       /\ raw' = raw \union Forgotten({i \in act[r].fails \ worse : ~Spent(i)})
       /\ Go(r, [act[r] EXCEPT !.fails = {i \in @ : Spent(i)} \union {<<i[1], i[2], i[3] + 1>> : i \in worse},
                               !.try = @ + 1, !.crawled = TRUE, !.st.phase = "retry"])
       /\ state' = [act[r].st EXCEPT !.phase = "retry"]
  /\ UNCHANGED <<lock, docs, vecs, calls, gap>>
MutKeep(k) == [k EXCEPT !.pc = "ingest", !.try = 0]
Keep(k) == [k EXCEPT !.pc = "ingest", !.try = 0, !.st.left = k.fails]
RetriesDone(r) ==
  /\ act[r].pc = "retry" /\ (act[r].fails = {} \/ act[r].try = RetryLimit)
  /\ Touch(r, Keep(act[r]), "retry")
  /\ UNCHANGED <<lock, stores, calls, failures, gap>>

-----------------------------------------------------------------------------
(* One ingest of all files, then embedding passes. *)

NeedIngest(k) == k.crawled \/ k.st.ingest # "done"
EndIngest(k, how) == [k EXCEPT !.pc = "ingested", !.st.ingest = how, !.clean = how = "done"]
Ingest(r) ==
  /\ act[r].pc = "ingest"
  /\ IF ~NeedIngest(act[r]) THEN Go(r, [act[r] EXCEPT !.pc = "ingested", !.clean = TRUE]) /\ UNCHANGED <<state, docs, failures>>
     ELSE /\ state' = [act[r].st EXCEPT !.phase = "ingest"]
          /\ \/ docs' = raw /\ Go(r, EndIngest(act[r], "done")) /\ UNCHANGED failures
             \/ /\ Fault /\ \E S \in SUBSET (raw \ docs) : docs' = docs \union S
                /\ Go(r, IF act[r].try + 1 = RetryLimit THEN EndIngest(act[r], "error") ELSE [act[r] EXCEPT !.try = @ + 1])
  /\ UNCHANGED <<lock, raw, vecs, calls, gap>>
SayIngested(r) ==
  /\ act[r].pc = "ingested" /\ Touch(r, [act[r] EXCEPT !.pc = "embed", !.try = 0], "ingest")
  /\ UNCHANGED <<lock, stores, calls, failures, gap>>
Embed(r) ==
  /\ act[r].pc = "embed"
  /\ IF docs = vecs \/ act[r].try > RetryLimit THEN Go(r, [act[r] EXCEPT !.pc = "finish"]) /\ UNCHANGED <<state, vecs, failures>>
     ELSE /\ state' = [act[r].st EXCEPT !.phase = "embed"]
          /\ Go(r, [act[r] EXCEPT !.try = @ + 1])
          /\ \/ vecs' = docs /\ UNCHANGED failures
             \/ Fault /\ \E S \in SUBSET (docs \ vecs) : vecs' = vecs \union S
  /\ UNCHANGED <<lock, raw, docs, calls, gap>>

\* ok: nothing pending, no failure left, every source crawled or given up on.
Verdict(k, pending) ==
  /\ pending = {} /\ k.fails = {} /\ k.clean
  /\ \A s \in k.seen : k.st.src[s].status = "crawled" \/ k.st.src[s].attempts >= RetryLimit
Finish(r) ==
  /\ act[r].pc = "finish"
  /\ Touch(r, [act[r] EXCEPT !.pc = "unlock", !.st.ok = IF Verdict(act[r], docs \ vecs) THEN "yes" ELSE "no"], "done")
  /\ UNCHANGED <<lock, stores, calls, failures, gap>>
Unlock(r) ==
  /\ act[r].pc = "unlock" /\ lock' = {} /\ Go(r, IdleRun)
  /\ UNCHANGED <<state, stores, calls, failures, gap>>

\* The process dies.  Its failures are forgotten unless the file has them, and
\* files fetched but not ingested are, where the file still says `done'.
Unwritten(k) == IF k.pc \in {"crawl", "record", "again", "retry"}
                THEN Forgotten(k.fails \ state.left) ELSE {}
Crash(r) ==
  /\ act[r].pc # "idle" /\ Fault /\ Go(r, IdleRun) /\ lock' = lock \ {r}
  /\ gap' = gap \union Unwritten(act[r]) \union (IF state.ingest = "done" THEN raw \ docs ELSE {})
  /\ UNCHANGED <<state, stores, calls>>

Step(r) ==
  \/ SayStarting(r) \/ TryLock(r) \/ Skip(r) \/ CrawlSource(r) \/ Record(r) \/ CrawlsDone(r) \/ CrawlAgain(r)
  \/ RetryRound(r) \/ RetriesDone(r) \/ Ingest(r) \/ SayIngested(r) \/ Embed(r) \/ Finish(r) \/ Unlock(r)
BackfillNext == \E r \in Runs : Step(r) \/ Crash(r) \/ \E c \in Calls : Call(r, c)
BackfillSpec == BackfillInit /\ [][BackfillNext]_backfillVars

-----------------------------------------------------------------------------
(* Properties. *)

\* "ok" of the state file is true: every page of a source it shows as crawled
\* has a file, a document and vectors, but for the pages behind a failed listing
\* request, and those a dead run knew of.
OkIsTrue ==
  state.phase = "done" /\ state.ok = "yes" =>
    \A s \in Sources : state.src[s].status = "crawled" => PagesOf(s) \ gap \subseteq raw \intersect docs \intersect vecs

\* What a source shown as crawled lacks is known: to the run that holds the
\* lock, or to the file as a leftover.
FailuresKept ==
  lock = {} =>
    \A s \in Sources : state.src[s].status = "crawled" => PagesOf(s) \subseteq raw \union gap \union Forgotten(state.left)

\* The state file is true: of what is done, and of what is not.
FileIsTrue == OkIsTrue /\ FailuresKept
=============================================================================
