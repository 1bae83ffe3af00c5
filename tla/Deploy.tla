------------------------------- MODULE Deploy -------------------------------
(***************************************************************************)
(* How code reaches the running services: scripts/git_pull_deploy.sh (one   *)
(* run at a time, under flock), the nightly scripts/restart_api_if_idle.sh, *)
(* which takes no lock, and Docker, which starts a container that ended     *)
(* again.  The services read their code from the working tree when they     *)
(* start; the api also migrates the database then, and only upwards         *)
(* (scripts/api-entrypoint.sh).                                             *)
(*                                                                          *)
(* Commits are numbered along the one branch.  Health is asked of the api   *)
(* and, through it, of the others; the extra restart of nginx in            *)
(* wait_health, --attach-git and the wording are left out.                  *)
(***************************************************************************)
EXTENDS Integers, FiniteSets

CONSTANTS
  MaxCommit,   \* commits 1..MaxCommit; the services start with 1
  Schema,      \* Schema[c]: the last migration commit c knows
  Images,      \* commits that change a Dockerfile, requirements or compose file
  Broken,      \* commits whose api does not come up
  Services,    \* "api" and others
  Options,     \* command lines
  MaxRuns, MaxEdits, MaxBatches, MaxNights, MaxFaults     \* bounds of the environment

VARIABLES
  remote,      \* head of origin/main
  tree,        \* commit of the working tree
  edits,       \* local changes: "ignore" (.gitignore only) and "other"
  stash,       \* number of stashed .gitignore changes
  sha,         \* apps/api/app/.build_sha, 0 if there is none
  loaded,      \* commit each service has loaded
  healthy,     \* the api answers
  db,          \* migration the database is at
  batch,       \* what runs inside the api container: nothing, or a long batch
  run,         \* the deployment under way
  exit,        \* how the last one ended
  night,       \* the nightly restart: "off" or "clear" (it has checked)
  count,       \* what the environment has done so far
  killed,      \* history: batches killed, and what excuses it
  late, blind, \* history: restarts whose check a batch came after, or that failed
  loose,       \* history: commits pulled that the run had not looked at, or forced
  owed,        \* history: services a run left behind without saying `done' of them
  gone         \* history: local changes thrown away
env  == <<remote, batch, night, count>>
hist == <<killed, late, blind, loose, owed, gone>>
deployVars == <<remote, tree, edits, stash, sha, loaded, healthy, db, batch, run, exit, night, count, killed, late, blind, loose, owed, gone>>

Commits == 1..MaxCommit
NoOption == [only |-> FALSE, norestart |-> FALSE, norollback |-> FALSE, image |-> FALSE, force |-> FALSE, dry |-> FALSE, services |-> Services]
Idle0 == [pc |-> "idle", opt |-> NoOption, cur |-> 0, new |-> 0, stashed |-> FALSE]

Init ==
  /\ remote = 1 /\ tree = 1 /\ edits = {} /\ stash = 0 /\ sha = 0
  /\ loaded = [s \in Services |-> 1] /\ healthy = TRUE /\ db = Schema[1]
  /\ batch = "none" /\ run = Idle0 /\ exit = "none" /\ night = "off"
  /\ count = [w \in {"run", "edit", "batch", "night", "fault"} |-> 0]
  /\ killed = {} /\ late = {} /\ blind = {} /\ loose = {} /\ owed = {} /\ gone = FALSE

Opt == run.opt
At(pc) == run.pc = pc
Goto(pc) == run' = [run EXCEPT !.pc = pc]
Exit(how) == run' = Idle0 /\ exit' = how
Behind(S) == {s \in Services : loaded[s] # tree} \union S
Fault == count.fault < MaxFaults /\ count' = [count EXCEPT !.fault = @ + 1]

-----------------------------------------------------------------------------
(* Restarts, and the question whether one would kill a batch.                 *)

\* api-entrypoint.sh: `alembic upgrade head' fails on a database that is ahead
\* of the code; then uvicorn starts, or the commit is broken.
StartsApi == Schema[tree] >= db
RestartServices(S, who) ==
  /\ loaded' = [s \in Services |-> IF s \in S THEN tree ELSE loaded[s]]
  /\ IF "api" \notin S THEN UNCHANGED <<healthy, db, batch, killed>>
     ELSE /\ db' = IF StartsApi THEN Schema[tree] ELSE db
          /\ healthy' = (StartsApi /\ tree \notin Broken)
          /\ batch' = "none"
          /\ killed' = IF batch = "none" THEN killed
                       ELSE killed \union {[kind |-> batch, excused |-> who \in late \union blind]}
  /\ owed' = owed \ S /\ late' = late \ {who} /\ blind' = blind \ {who}

\* api_busy_check.sh: the batches it lists by name, and the map's lock, while
\* the container runs; otherwise there is nothing to kill.
Seen == {"listed"}
Busy == healthy /\ batch \in Seen
\* The check says busy, or idle, or (exit code 2) that it could not check,
\* which both scripts take for idle.
Check(who, yes, no) ==
  \/ Busy /\ yes /\ UNCHANGED <<count, late, blind>>
  \/ ~Busy /\ no /\ UNCHANGED count /\ late' = late \ {who} /\ blind' = blind \ {who}
  \/ healthy /\ no /\ Fault /\ late' = late \ {who} /\ blind' = blind \union {who}
Skips == Opt.force \/ "api" \notin Opt.services
CheckBatch(yes, no) ==
  \/ Skips /\ no /\ UNCHANGED <<count, late>> /\ blind' = blind \union {"deploy"}
  \/ ~Skips /\ Check("deploy", yes, no)

-----------------------------------------------------------------------------
(* git_pull_deploy.sh *)

Start(o) ==
  /\ At("idle") /\ count.run < MaxRuns /\ count' = [count EXCEPT !.run = @ + 1]
  /\ run' = [Idle0 EXCEPT !.pc = IF o.only THEN "lastcheck" ELSE "clean", !.opt = o]
  /\ late' = late \ {"deploy"} /\ blind' = blind \ {"deploy"}
  /\ UNCHANGED <<remote, tree, edits, stash, sha, loaded, healthy, db, batch, exit, night, killed, loose, owed, gone>>

\* A changed .gitignore, and nothing else, is put aside.
CleanTree ==
  /\ At("clean")
  /\ IF edits = {} THEN run' = [run EXCEPT !.pc = "fetch", !.cur = tree] /\ UNCHANGED <<edits, stash, exit>>
     ELSE IF edits = {"ignore"}
     THEN /\ run' = [run EXCEPT !.pc = "fetch", !.cur = tree, !.stashed = TRUE]
          /\ edits' = {} /\ stash' = stash + 1 /\ UNCHANGED exit
     ELSE Exit("dirty") /\ UNCHANGED <<edits, stash>>
  /\ UNCHANGED <<env, tree, sha, loaded, healthy, db, hist>>

\* git stash pop, where the script gets to it.
Pop == IF run.stashed THEN edits' = edits \union {"ignore"} /\ stash' = stash - 1
       ELSE UNCHANGED <<edits, stash>>
ImageChanges(a, b) == {c \in Images : a < c /\ c <= b}
\* Fetch, then up to date, image-sensitive changes, dry run, or on.
MutPlanned(c) == "on"
Planned(c) ==
  IF c = run.cur THEN "uptodate"
  ELSE IF ImageChanges(run.cur, c) # {} /\ ~Opt.image THEN "images"
  ELSE IF Opt.dry THEN "dry" ELSE "on"
Fetch ==
  /\ At("fetch")
  /\ LET p == Planned(remote) IN
     /\ IF p = "on" THEN run' = [run EXCEPT !.pc = IF Opt.norestart THEN "pull" ELSE "check", !.new = remote] /\ UNCHANGED exit
                    ELSE Exit(p)
     /\ IF p = "dry" THEN Pop ELSE UNCHANGED <<edits, stash>>
  /\ UNCHANGED <<env, tree, sha, loaded, healthy, db, hist>>
CheckBeforePull ==
  /\ At("check") /\ CheckBatch(Exit("busy"), Goto("pull") /\ UNCHANGED exit)
  /\ UNCHANGED <<remote, tree, edits, stash, sha, loaded, healthy, db, batch, night, killed, loose, owed, gone>>
\* The person who is asked says no, before the pull.
Cancel ==
  /\ At("pull") /\ Exit("cancelled")
  /\ UNCHANGED <<env, tree, edits, stash, sha, loaded, healthy, db, hist>>
\* git pull fetches once more; the script compares afterwards.
MutSame(c) == TRUE
Same(c) == c = run.new
Pull ==
  /\ At("pull") /\ tree' = remote
  /\ loose' = loose \union (IF Opt.image THEN ImageChanges(run.cur, remote) ELSE ImageChanges(run.new, remote))
  /\ IF Same(remote) THEN Goto("mark") /\ UNCHANGED <<exit, owed>>
                     ELSE Exit("mismatch") /\ owed' = Services
  /\ UNCHANGED <<env, edits, stash, sha, loaded, healthy, db, killed, late, blind, gone>>
WriteSha ==
  /\ At("mark") /\ sha' = tree
  /\ IF Opt.norestart THEN Exit("pulled") /\ Pop /\ owed' = Services
                      ELSE Goto("lastcheck") /\ UNCHANGED <<edits, stash, exit, owed>>
  /\ UNCHANGED <<env, tree, loaded, healthy, db, killed, late, blind, loose, gone>>
CheckBeforeRestart ==
  /\ At("lastcheck")
  /\ CheckBatch(Exit("busy") /\ owed' = IF Opt.only THEN owed ELSE Services,
                Goto("restart") /\ UNCHANGED <<exit, owed>>)
  /\ UNCHANGED <<remote, tree, edits, stash, sha, loaded, healthy, db, batch, night, killed, loose, gone>>
Restart ==
  /\ At("restart") /\ RestartServices(Opt.services, "deploy") /\ Goto("wait")
  /\ UNCHANGED <<remote, tree, edits, stash, sha, exit, night, count, loose, gone>>

\* wait_health: whoever was restarted must answer; the web proxy asks the api.
Answers(S) == S = {"worker"} \/ healthy
Done(how) == Exit(how) /\ owed' = owed \union (Services \ Opt.services)
Kept(c) == tree' = c
Wait ==
  /\ At("wait")
  /\ \/ /\ Answers(Opt.services) /\ UNCHANGED <<count, tree, gone>>
        /\ IF Opt.only THEN Done("restarted") /\ UNCHANGED <<edits, stash>> ELSE Done("done") /\ Pop
     \/ /\ IF Answers(Opt.services) THEN Fault ELSE UNCHANGED count         \* a timeout too short
        /\ IF Opt.only \/ Opt.norollback THEN Exit("unhealthy") /\ UNCHANGED <<edits, stash, tree, owed, gone>>
           ELSE /\ Kept(run.cur) /\ edits' = {} /\ gone' = (gone \/ edits # {})     \* git reset --hard
                /\ Goto("undo") /\ UNCHANGED <<stash, exit, owed>>
  /\ UNCHANGED <<remote, sha, loaded, healthy, db, batch, night, killed, late, blind, loose>>
RestartOld ==
  /\ At("undo") /\ RestartServices(Opt.services, "undo") /\ Goto("waitold")
  /\ UNCHANGED <<remote, tree, edits, stash, sha, exit, night, count, loose, gone>>
WaitOld ==
  /\ At("waitold")
  /\ \/ Answers(Opt.services) /\ Done("rolledback") /\ UNCHANGED count
     \/ /\ IF Answers(Opt.services) THEN Fault ELSE UNCHANGED count
        /\ Done("stuck")
  /\ UNCHANGED <<remote, tree, edits, stash, sha, loaded, healthy, db, batch, night, killed, late, blind, loose, gone>>

\* The script is killed, or a git or docker command fails under `set -e'.
Killed ==
  /\ ~At("idle") /\ Fault /\ Exit("killed") /\ owed' = Behind(owed)
  /\ UNCHANGED <<remote, tree, edits, stash, sha, loaded, healthy, db, batch, night, killed, late, blind, loose, gone>>
Script ==
  \/ CleanTree \/ Fetch \/ CheckBeforePull \/ Cancel \/ Pull \/ WriteSha \/ CheckBeforeRestart
  \/ Restart \/ Wait \/ RestartOld \/ WaitOld

-----------------------------------------------------------------------------
(* The nightly restart, Docker, developers, operators and batches.            *)

NightCheck ==
  /\ night = "off" /\ count.night < MaxNights /\ healthy
  /\ ~Busy /\ night' = "clear" /\ count' = [count EXCEPT !.night = @ + 1]
  /\ late' = late \ {"night"} /\ blind' = blind \ {"night"}
  /\ UNCHANGED <<remote, tree, edits, stash, sha, loaded, healthy, db, batch, run, exit, killed, loose, owed, gone>>
NightBlind ==
  /\ night = "off" /\ healthy /\ Fault /\ night' = "clear"
  /\ late' = late \ {"night"} /\ blind' = blind \union {"night"}
  /\ UNCHANGED <<remote, tree, edits, stash, sha, loaded, healthy, db, batch, run, exit, killed, loose, owed, gone>>
NightRestart ==
  /\ night = "clear" /\ night' = "off" /\ RestartServices({"api"}, "night")
  /\ UNCHANGED <<remote, tree, edits, stash, sha, run, exit, count, loose, gone>>
\* restart: unless-stopped.  An api that does not come up is started again,
\* from whatever the working tree holds by then.
CrashLoop ==
  /\ ~healthy /\ (StartsApi /\ tree \notin Broken)
  /\ RestartServices({"api"}, "docker")
  /\ UNCHANGED <<remote, tree, edits, stash, sha, run, exit, night, count, loose, gone>>
Push ==
  /\ remote < MaxCommit /\ remote' = remote + 1
  /\ UNCHANGED <<tree, edits, stash, sha, loaded, healthy, db, batch, run, exit, night, count, hist>>
Edit(e) ==
  /\ e \notin edits /\ count.edit < MaxEdits /\ count' = [count EXCEPT !.edit = @ + 1]
  /\ edits' = edits \union {e}
  /\ UNCHANGED <<remote, tree, stash, sha, loaded, healthy, db, batch, run, exit, night, hist>>
StartBatch(k) ==
  /\ healthy /\ batch = "none" /\ count.batch < MaxBatches /\ count' = [count EXCEPT !.batch = @ + 1]
  /\ batch' = k /\ late' = {"deploy", "night", "undo"}
  /\ UNCHANGED <<remote, tree, edits, stash, sha, loaded, healthy, db, run, exit, night, killed, blind, loose, owed, gone>>
EndBatch ==
  /\ batch # "none" /\ batch' = "none"
  /\ UNCHANGED <<remote, tree, edits, stash, sha, loaded, healthy, db, run, exit, night, count, hist>>

Next ==
  \/ \E o \in Options : Start(o)
  \/ Script \/ Killed
  \/ NightCheck \/ NightBlind \/ NightRestart \/ CrashLoop
  \/ Push \/ (\E e \in {"ignore", "other"} : Edit(e)) \/ (\E k \in {"listed", "unlisted"} : StartBatch(k)) \/ EndBatch
Spec == Init /\ [][Next]_deployVars

-----------------------------------------------------------------------------
(* Properties *)

TypeOK ==
  /\ remote \in Commits /\ tree \in Commits /\ sha \in 0..MaxCommit /\ loaded \in [Services -> Commits]
  /\ edits \subseteq {"ignore", "other"} /\ stash \in 0..MaxRuns
  /\ batch \in {"none", "listed", "unlisted"} /\ night \in {"off", "clear"} /\ owed \subseteq Services
  /\ run.cur \in 0..MaxCommit /\ run.new \in 0..MaxCommit

\* A script that ends says how things are.  `Done' means that the services it was
\* asked to restart have loaded the commit it announced and that .build_sha names
\* it; `rolled back', that they have loaded the commit it found; `up to date',
\* that every service runs the tree but those an earlier run left behind; and when
\* the roll-back itself fails, the database knows a later migration than the code,
\* the old commit was broken too, or the wait was too short.
HonestEndStep == ~At("idle") /\ run'.pc = "idle" =>
  /\ exit' = "done" => \A s \in Opt.services : loaded[s] = run.new /\ sha = run.new
  /\ exit' = "rolledback" => \A s \in Opt.services : loaded[s] = run.cur
  /\ exit' = "uptodate" => \A s \in Services \ owed : loaded[s] = tree
  /\ exit' = "stuck" => db > Schema[run.cur] \/ run.cur \in Broken \/ count'.fault > 0
HonestEnd == [][HonestEndStep]_deployVars

\* A commit that needs new images reaches a service only if somebody forced it or
\* it was pushed after the script had looked.
GateHolds == \A s \in Services : \A c \in Images : c <= loaded[s] => c \in loose \/ c = 1

\* A restart kills a batch the busy check knows only if the batch began after the
\* check, the check could not look, or the operator said --force-restart.
SparesBatches == \A k \in killed : k.kind = "listed" => k.excused

\* docs/AI_AGENT_GUIDE.md:493 calls api_build_sha the commit actually deployed; it is
\* read from .build_sha.  After a roll-back it should name what the api runs.
ShaNamesApi == At("idle") /\ exit = "rolledback" => sha = loaded["api"]
=============================================================================
