------------------------------ MODULE Backups ------------------------------
(***************************************************************************)
(* scripts/backup_manager.py on the host and the admin page's requests       *)
(* (routers/ops.py): cron starts process-requests every minute and `run'     *)
(* once a day, whatever is still running; requests are files.  A set is its  *)
(* number, the state of the database its dump began with and whether the     *)
(* dump is whole.  verify and `status' only read or refresh; a set is named  *)
(* by its second, and no two finish in one.                                  *)
(***************************************************************************)
EXTENDS Integers, FiniteSets, TLC

CONSTANTS
  Req, Proc,               \* requests of the page; processes cron starts
  Keep,                    \* --keep / BACKUP_KEEP
  MaxChanges, MaxRuns, MaxFaults

VARIABLES
  ver,     \* the state of the database
  asking,  \* requests of the page that have found nothing pending
  req,     \* backup_requests/*.json: the status in the file
  done,    \* backup_requests/done: how it ended, and with which dump
  sets,    \* complete sets in the backup directory
  lock,    \* .lock: its holder
  tmp,     \* backup_status.json.tmp: who wrote it last
  act,     \* each process: where it is and what it holds
  asked,   \* history: the state of the database when the request was written
  made,    \* history: sets published
  runs, faults
vars == <<ver, asking, req, done, sets, lock, tmp, act, asked, made, runs, faults>>

Nobody == "nobody"
Idle == [at |-> "idle"]
TypeOK ==
  /\ ver \in 0..MaxChanges /\ asking \subseteq Req /\ asked \in [Req -> -1..MaxChanges]
  /\ req \in [Req -> {"none", "pending", "running"}]
  /\ done \in [Req -> [is : {"none", "done", "failed"}, v : 0..MaxChanges]]
  /\ sets \subseteq [n : 1..MaxRuns, v : 0..MaxChanges, whole : BOOLEAN]
  /\ lock \in Proc \union {Nobody} /\ tmp \in Proc \union {Nobody} /\ made \in 0..MaxRuns
  /\ \A p \in Proc : act[p].at \in {"idle", "mark", "lock", "dump", "archive", "publish", "rotate", "stage", "replace", "settle", "settled"}
Init ==
  /\ ver = 0 /\ asking = {} /\ req = [r \in Req |-> "none"] /\ asked = [r \in Req |-> -1]
  /\ done = [r \in Req |-> [is |-> "none", v |-> 0]] /\ sets = {} /\ lock = Nobody /\ tmp = Nobody
  /\ act = [p \in Proc |-> Idle] /\ made = 0 /\ runs = 0 /\ faults = 0

\* The database changes.
Change == ver < MaxChanges /\ ver' = ver + 1 /\ UNCHANGED <<asking, req, done, sets, lock, tmp, act, asked, made, runs, faults>>

Waiting == {r \in Req : req[r] # "none"}
\* The page's request: 409 while a request is in the directory, else a new file.
Check(r) ==
  /\ Waiting = {} /\ asked[r] = -1 /\ r \notin asking /\ asking' = asking \union {r}
  /\ UNCHANGED <<ver, req, done, sets, lock, tmp, act, asked, made, runs, faults>>
Ask(r) ==
  /\ r \in asking /\ asking' = asking \ {r} /\ req' = [req EXCEPT ![r] = "pending"] /\ asked' = [asked EXCEPT ![r] = ver]
  /\ UNCHANGED <<ver, done, sets, lock, tmp, act, made, runs, faults>>

Go(p, at) == act' = [act EXCEPT ![p].at = at]
\* process-requests: the files are listed; with none, only the status is refreshed.
Tick(p) ==
  /\ act[p] = Idle /\ runs < MaxRuns /\ runs' = runs + 1
  /\ \/ Waiting = {} /\ act' = [act EXCEPT ![p] = [at |-> "stage", for |-> "status"]]
     \/ \E r \in Waiting : act' = [act EXCEPT ![p] = [at |-> "mark", for |-> "requests", list |-> Waiting, first |-> r]]
  /\ UNCHANGED <<ver, asking, req, done, sets, lock, tmp, asked, made, faults>>
\* `run', started by cron under an flock of its own.
Start(p) ==
  /\ act[p] = Idle /\ runs < MaxRuns /\ runs' = runs + 1 /\ ~\E q \in Proc : act[q] # Idle /\ act[q].for = "night"
  /\ act' = [act EXCEPT ![p] = [at |-> "lock", for |-> "night", list |-> {}]]
  /\ UNCHANGED <<ver, asking, req, done, sets, lock, tmp, asked, made, faults>>
\* The first request is written back as running, be it still there or not.
Mark(p) ==
  /\ act[p].at = "mark" /\ req' = [req EXCEPT ![act[p].first] = "running"] /\ Go(p, "lock")
  /\ UNCHANGED <<ver, asking, done, sets, lock, tmp, asked, made, runs, faults>>
\* do_backup without the lock: skipped, and the first request is written back as pending.
Held == lock # Nobody
Skip(p) ==
  /\ act[p].at = "lock" /\ Held /\ act' = [act EXCEPT ![p] = Idle]
  /\ req' = IF act[p].for = "night" THEN req ELSE [req EXCEPT ![act[p].first] = "pending"]
  /\ UNCHANGED <<ver, asking, done, sets, lock, tmp, asked, made, runs, faults>>
Lock(p) ==
  /\ act[p].at = "lock" /\ ~Held /\ lock' = p /\ Go(p, "dump")
  /\ UNCHANGED <<ver, asking, req, done, sets, tmp, asked, made, runs, faults>>
\* dump_db: a dump that failed or has no completion mark is an error.
Complete(whole) == whole
Ends(p, ok) == [act[p] EXCEPT !.at = "stage"] @@ [ok |-> ok]
Dump(p) ==
  /\ act[p].at = "dump"
  /\ \E whole \in BOOLEAN :
       /\ faults' = IF whole THEN faults ELSE faults + 1
       /\ act' = [act EXCEPT ![p] = IF Complete(whole) THEN [act[p] EXCEPT !.at = "archive"] @@ [set |-> [v |-> ver, whole |-> whole]]
                                      ELSE Ends(p, FALSE)]
  /\ faults' <= MaxFaults /\ UNCHANGED <<ver, asking, req, done, sets, lock, tmp, asked, made, runs>>
\* archive_data, or an error of tar, of the disk or of anything else: the partial set goes.
Archive(p) ==
  /\ act[p].at = "archive"
  /\ \/ Go(p, "publish") /\ UNCHANGED faults
     \/ faults < MaxFaults /\ faults' = faults + 1 /\ act' = [act EXCEPT ![p] = Ends(p, FALSE)]
  /\ UNCHANGED <<ver, asking, req, done, sets, lock, tmp, asked, made, runs>>
\* The manifest and the rename.
Publish(p) ==
  /\ act[p].at = "publish" /\ made' = made + 1
  /\ sets' = sets \union {[n |-> made + 1] @@ act[p].set} /\ Go(p, "rotate")
  /\ UNCHANGED <<ver, asking, req, done, lock, tmp, asked, runs, faults>>
Oldest(S, keep) == {s \in S : Cardinality({t \in S : t.n > s.n}) >= keep}
Rotate(p) ==
  /\ act[p].at = "rotate" /\ sets' = sets \ Oldest(sets, Keep) /\ act' = [act EXCEPT ![p] = Ends(p, TRUE)]
  /\ UNCHANGED <<ver, asking, req, done, lock, tmp, asked, made, runs, faults>>
\* refresh_status writes under one temporary name for all and renames it; a process
\* whose file another has renamed away dies of it, the lock with it.
Stage(p) ==
  /\ act[p].at = "stage" /\ tmp' = p /\ Go(p, "replace")
  /\ UNCHANGED <<ver, asking, req, done, sets, lock, asked, made, runs, faults>>
Release(p) == lock' = IF lock = p THEN Nobody ELSE lock
MutServed(p) == Waiting
Served(p) == act[p].list
Settling(p) == [at |-> "settle", for |-> "requests", list |-> Served(p), ok |-> act[p].ok, v |-> IF act[p].ok THEN act[p].set.v ELSE 0]
Replace(p) ==
  /\ act[p].at = "replace" /\ tmp' = Nobody /\ Release(p)
  /\ act' = [act EXCEPT ![p] = IF tmp = Nobody \/ act[p].for # "requests" THEN Idle ELSE Settling(p)]
  /\ UNCHANGED <<ver, asking, req, done, sets, asked, made, runs, faults>>
\* Every request listed at the start is answered, then its file is removed.
Answer(p, r) == done' = [done EXCEPT ![r] = [is |-> IF act[p].ok THEN "done" ELSE "failed", v |-> act[p].v]] /\ UNCHANGED req
Unlink(p, r) == req' = [req EXCEPT ![r] = "none"] /\ UNCHANGED done
Settle(p) ==
  /\ act[p].at = "settle"
  /\ \E r \in act[p].list : Answer(p, r) /\ act' = [act EXCEPT ![p] = [act[p] EXCEPT !.at = "settled"] @@ [cur |-> r]]
  /\ UNCHANGED <<ver, asking, sets, lock, tmp, asked, made, runs, faults>>
Settled(p) ==
  /\ act[p].at = "settled" /\ Unlink(p, act[p].cur)
  /\ LET rest == act[p].list \ {act[p].cur} IN
     act' = [act EXCEPT ![p] = IF rest = {} THEN Idle
               ELSE [at |-> "settle", for |-> "requests", list |-> rest, ok |-> act[p].ok, v |-> act[p].v]]
  /\ UNCHANGED <<ver, asking, sets, lock, tmp, asked, made, runs, faults>>
\* A process is killed; its lock goes with it, its partial set is never listed.
Kill(p) ==
  /\ act[p] # Idle /\ faults < MaxFaults /\ faults' = faults + 1 /\ act' = [act EXCEPT ![p] = Idle] /\ Release(p)
  /\ UNCHANGED <<ver, asking, req, done, sets, tmp, asked, made, runs>>

Next ==
  \/ Change \/ \E r \in Req : Check(r) \/ Ask(r)
  \/ \E p \in Proc : Tick(p) \/ Start(p) \/ Mark(p) \/ Skip(p) \/ Lock(p) \/ Dump(p) \/ Archive(p) \/ Publish(p) \/ Rotate(p)
                     \/ Stage(p) \/ Replace(p) \/ Settle(p) \/ Settled(p) \/ Kill(p)
Spec == Init /\ [][Next]_vars

-----------------------------------------------------------------------------
\* No request is lost: whatever dies and whatever overlaps, the file a request
\* was written to is still there until its answer is.
RequestsKept == \A r \in Req : asked[r] >= 0 => req[r] # "none" \/ done[r].is # "none"
\* A request called done was served by a dump begun after it was written, also
\* when it came while a backup was running or is answered a second time.
DoneIsFresh == \A r \in Req : done[r].is = "done" => done[r].v >= asked[r]
\* Nothing but whole sets is listed, the newest Keep of those ever published are
\* still there, and only the holder of the lock publishes or removes.
SetsKept ==
  /\ \A s \in sets : s.whole
  /\ \A n \in 1..made : n > made - Keep => \E s \in sets : s.n = n
  /\ \A p \in Proc : act[p].at \in {"dump", "archive", "publish", "rotate"} => lock = p
\* Refuted: an answered request is served once.  A minute's process that listed it
\* while it was served writes it back when it finds the lock taken, or as running.
ServedOnce == \A r \in Req : done[r].is # "none" /\ req[r] # "none" => \E p \in Proc : act[p].at = "settled" /\ act[p].cur = r
=============================================================================
