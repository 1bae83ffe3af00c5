----------------------------------- MODULE MCHosts -----------------------------------
(***************************************************************************)
(* What runs on the hosts beside the services: deployment, offline bundles,  *)
(* the replica, backups, the status of cron, the registry of map sources, the *)
(* extraction of frames and the log of API calls, each on a small instance.  *)
(* A behaviour is about one part, named by `part'; the slots hold that part's *)
(* variables, and the ones it has no use for stay 0.  The log of API calls   *)
(* has its own variables, which stay as they start in the other parts.       *)
(***************************************************************************)
EXTENDS AccessLog, TLC

VARIABLES part, s1, s2, s3, s4, s5, s6, s7, s8, s9, s10, s11, s12, s13, s14, s15, s16, s17, s18, s19
slots == <<s1, s2, s3, s4, s5, s6, s7, s8, s9, s10, s11, s12, s13, s14, s15, s16, s17, s18, s19>>
all == <<part, slots, logVars>>
\* A part leaves the slots after its own unused.
Zero19 == s19 = 0
Zero18 == s18 = 0 /\ Zero19
Zero17 == s17 = 0 /\ Zero18
Zero16 == s16 = 0 /\ Zero17
Zero15 == s15 = 0 /\ Zero16
Zero14 == s14 = 0 /\ Zero15
Zero13 == s13 = 0 /\ Zero14
Zero12 == s12 = 0 /\ Zero13
Zero11 == s11 = 0 /\ Zero12
Zero10 == s10 = 0 /\ Zero11
Zero9 == s9 = 0 /\ Zero10
Zero1 == s1 = 0 /\ s2 = 0 /\ s3 = 0 /\ s4 = 0 /\ s5 = 0 /\ s6 = 0 /\ s7 = 0 /\ s8 = 0 /\ Zero9
rest19 == <<s19>>
rest18 == <<s18, rest19>>
rest17 == <<s17, rest18>>
rest16 == <<s16, rest17>>
rest15 == <<s15, rest16>>
rest14 == <<s14, rest15>>
rest13 == <<s13, rest14>>
rest12 == <<s12, rest13>>
rest11 == <<s11, rest12>>
rest10 == <<s10, rest11>>
rest9 == <<s9, rest10>>

CONSTANTS x1, x2, y1, y2
\* Requests and processes may change places with their like.
Symmetric == Permutations({x1, x2}) \union Permutations({y1, y2})

Plain == [only |-> FALSE, norestart |-> FALSE, norollback |-> FALSE, image |-> FALSE, force |-> FALSE, dry |-> FALSE, services |-> {"api", "worker"}]
\* Commit 2 is broken; commit 3 needs new images and a newer schema.
Releases == INSTANCE Deploy WITH MaxCommit <- 3, Schema <- <<1, 1, 2>>, Images <- {3}, Broken <- {2}, Services <- {"api", "worker"},
  Options <- {Plain, [Plain EXCEPT !.only = TRUE, !.services = {"worker"}]}, MaxRuns <- 2, MaxEdits <- 1, MaxBatches <- 1, MaxNights <- 1, MaxFaults <- 1,
  remote <- s1, tree <- s2, edits <- s3, stash <- s4, sha <- s5, loaded <- s6, healthy <- s7, db <- s8, batch <- s9, run <- s10, exit <- s11,
  night <- s12, count <- s13, killed <- s14, late <- s15, blind <- s16, loose <- s17, owed <- s18, gone <- s19
Cut(do) == [do |-> do, force |-> {}, regen |-> FALSE, dump |-> "none"]
Take(do) == [do |-> do, force |-> FALSE, restore |-> FALSE, restart |-> TRUE]
Offline == INSTANCE Bundles WITH Mixes <- {{"code", "docker"}, {"code", "data"}, {"code", "model"}},
  Picks <- {[Cut({"code", "docker"}) EXCEPT !.force = {"code"}], [Cut({"data"}) EXCEPT !.dump = "only"], [Cut({"code", "data"}) EXCEPT !.dump = "with"],
            [Cut({"model"}) EXCEPT !.regen = TRUE]},
  Calls <- {Take({"code"}), [Take({"code", "data"}) EXCEPT !.restore = TRUE]}, Thin <- {2}, MaxEdits <- 1, MaxNumber <- 2, MaxSends <- 2, MaxFaults <- 1,
  src <- s1, number <- s2, out <- s3, pack <- s4, home <- s5, sent <- s6, backup <- s7, deployed <- s8, inst <- s9, dumps <- s10, pending <- s11,
  db <- s12, up <- s13, act <- s14, last <- s15, torn <- s16, faults <- s17
Pulls == INSTANCE Replica WITH Docs <- {1, 2}, MaxEdits <- 2, MaxPulls <- 2, MaxFaults <- 1,
  prod <- s1, dev <- s2, vec <- s3, saved <- s4, act <- s5, quiet <- s6, edits <- s7, pulls <- s8, faults <- s9
\* Source s has root a below its top page h, and w is the source to be removed.
OfS == [s |-> {"a"}, w |-> {"e"}]
Registry == INSTANCE MapRegistry WITH Page <- {1, 2, 3}, Root <- {"a", "h", "e"}, Under <- [a |-> {1}, h |-> {1, 2}, e |-> {3}], SpaceOf <- <<"s", "s", "w">>,
  Homes <- [s |-> "h"], Retired <- {"w"}, Moved <- {"w"}, Registered <- {OfS, [w |-> {"e"}]}, Asked <- {<<"s", "h">>, <<"s", "a">>},
  MaxEdits <- 1, MaxCalls <- 1, MaxRuns <- 2, MaxFaults <- 1,
  src <- s1, clock <- s2, edited <- s3, raw <- s4, row <- s5, run <- s6, adm <- s7, open <- s8, late <- s9, used <- s10
Archive == INSTANCE Backups WITH Req <- {x1, x2}, Proc <- {y1, y2}, Keep <- 1, MaxChanges <- 1, MaxRuns <- 3, MaxFaults <- 1,
  ver <- s1, asking <- s2, req <- s3, done <- s4, sets <- s5, lock <- s6, tmp <- s7, act <- s8, asked <- s9, made <- s10, runs <- s11, faults <- s12
\* A small calendar: hours of 3 minutes, days of 2 hours, months of 3 and weeks of 2 days.
Star == [form |-> "*", lists |-> {}]
In(S) == [form |-> "list", lists |-> S]
Each(S) == [form |-> "*/n", lists |-> S]
Line(m, h, d, w) == [minute |-> m, hour |-> h, dom |-> d, dow |-> w]
Cron == INSTANCE CronStatus WITH HourLen <- 3, DayLen <- 6, MonthLen <- 3, WeekLen <- 2,
  Schedules <- {Line(In({1}), In({0}), Star, Star), Line(Each({0, 2}), Star, Star, In({1})), Line(In({0}), In({1}), In({1}), In({0})), Line(In({0}), Star, Each({1, 3}), Star)},
  Grace <- 2, Stale <- 3, Horizon <- 36, MaxTime <- 20, MaxStops <- 1,
  job <- s1, t <- s2, cron <- s3, mtime <- s4, mark <- s5, alive <- s6, snap <- s7, due <- s8, missed <- s9, stops <- s10
Text(key, len, mark) == [key |-> key, text |-> [len |-> len, mark |-> mark]]
Frame == INSTANCE Frames WITH Docs <- 2, Run <- {y1, y2}, Options <- {<<0, 0>>, <<1, 700>>}, MaxRuns <- 2, MaxEdits <- 1, MaxFaults <- 1,
  Bodies <- << <<Text("root_cause", 30, {}), Text("resolution", 60, {"wip"})>>,
               <<Text("root_cause", 30, {}), Text("resolution", 60, {"wip"}), Text("resolution", 10, {"done"}), Text("resolution", 90, {"wip"})>>,
               <<Text("root_cause", 10, {"hold"}), Text("resolution", 60, {"wip"})>> >>,
  body <- s1, version <- s2, frame <- s3, run <- s4, twice <- s5, runs <- s6, edits <- s7, faults <- s8


Request(v1, client) == [v1 |-> v1, polling |-> FALSE, options |-> FALSE, admin |-> FALSE, client |-> client]
\* A page, the polling of a page, a tool of the assistant, and a path outside /v1.
Callers == {Request(TRUE, "web"), [Request(TRUE, "web") EXCEPT !.polling = TRUE], Request(TRUE, "mcp-server"), Request(FALSE, "web")}

LogStart == LogInit /\ clock = 0
HostsInit ==
  \/ /\ LogStart
     /\ \/ part = "Releases" /\ Releases!Init
        \/ part = "Offline" /\ Offline!Init /\ Zero18
        \/ part = "Pulls" /\ Pulls!Init /\ Zero10
        \/ part = "Registry" /\ Registry!Init /\ Zero11
        \/ part = "Archive" /\ Archive!Init /\ Zero13
        \/ part = "Cron" /\ Cron!Init /\ Zero11
        \/ part = "Frame" /\ Frame!Init /\ Zero9
  \/ part = "Log" /\ LogInit /\ Zero1
HostsNext ==
  /\ UNCHANGED part
  /\ \/ /\ UNCHANGED logVars
        /\ \/ part = "Releases" /\ Releases!Next
           \/ part = "Offline" /\ Offline!Next /\ UNCHANGED <<rest18>>
           \/ part = "Pulls" /\ Pulls!Next /\ UNCHANGED <<rest10>>
           \/ part = "Registry" /\ Registry!Next /\ UNCHANGED <<rest11>>
           \/ part = "Archive" /\ Archive!Next /\ UNCHANGED <<rest13>>
           \/ part = "Cron" /\ Cron!Next /\ UNCHANGED <<rest11>>
           \/ part = "Frame" /\ Frame!Next /\ UNCHANGED <<rest9>>
     \/ part = "Log" /\ LogNext /\ UNCHANGED slots
HostsSpec == HostsInit /\ [][HostsNext]_all

-----------------------------------------------------------------------------
(* The properties of the parts: conjunctions of what their modules state.    *)

\* git_pull_deploy.sh, out.sh and in.sh: a script that ends says what has happened, a
\* commit that needs images waits for them, a batch that can be seen is spared, what a
\* run passes over needs nothing done, and a loaded service is a whole bundle.
ReleasesHold == [][
  /\ part = "Releases" => Releases!TypeOK' /\ Releases!GateHolds' /\ Releases!SparesBatches' /\ Releases!HonestEndStep
  /\ part = "Offline" => Offline!TypeOK' /\ Offline!SkipIsSound' /\ Offline!ServesWhole']_all
\* sync_*.sh and backup_manager.py: after quiet pulls the replica has what production
\* had, one generation of each document, and search never loses a chunk to a partial
\* pull; a request for a backup is kept until one made after it is there.
CopiesHold == [][
  /\ part = "Pulls" => Pulls!TypeOK' /\ Pulls!Heals' /\ Pulls!OneGenerationEach' /\ Pulls!KeepsSearchStep
  /\ part = "Archive" => Archive!TypeOK' /\ Archive!RequestsKept' /\ Archive!DoneIsFresh' /\ Archive!SetsKept']_all
\* cron_snapshot.py, the tools for map sources, frames/job.py: a job is called missed
\* when it was and not when it was not; a page under a registered root with a cursor is
\* current; and a frame pinned to its document's body is what the rules find there.
RowsFollow == [][
  /\ part = "Cron" => Cron!TypeOK' /\ Cron!NoFalseAlarmStep /\ Cron!AlarmRaisedStep
  /\ part = "Registry" => Registry!TypeOK' /\ Registry!CoveredIsCurrent'
  /\ part = "Frame" => Frame!TypeOK' /\ Frame!FreshIsTrue' /\ Frame!Converges' /\ Frame!CompletionWins']_all
=============================================================================
