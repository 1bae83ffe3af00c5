------------------------------ MODULE Bundles ------------------------------
(***************************************************************************)
(* The bundles that carry a release to the closed production host.          *)
(* scripts/out.sh cuts them on the development host and numbers them;        *)
(* somebody copies them; scripts/in.sh stops the stack, unpacks what differs *)
(* from what it recorded, restores a dump when it is asked to, and starts    *)
(* the stack again.  Both scripts run with `set -e': a failing command, like *)
(* a killed session, ends the run where it stands.                           *)
(***************************************************************************)
EXTENDS Integers, FiniteSets, FiniteSetsExt, SequencesExt

CONSTANTS
  Mixes,      \* the sets of kinds of bundle a behaviour may be about
  Picks,      \* calls of out.sh with options: [do, force : kinds, regen : BOOLEAN, dump : {"none", "with", "only"}]
  Calls,      \* calls of in.sh with options: [do : kinds, force, restore, restart : BOOLEAN]
  Thin,       \* data versions whose dump holds fewer than 100 documents
  MaxEdits,   \* changes of what bundles are cut from
  MaxNumber,  \* numbers given out
  MaxSends,   \* files copied to production
  MaxFaults   \* runs that die, dumps that fail

Order     == <<"code", "docker", "docker-mcp", "docker-keycloak", "data", "model">>
Family(k) == IF k \in {"data", "model"} THEN k ELSE "code"
Broken    == -1

VARIABLES
  src,        \* [Kinds -> Nat] revision of what a bundle of the kind is cut from
  number,     \* ~/bin/.citec_kb_*_version by family; for the model, 1 once its name is written
  out,        \* ~/tmp: the bundle files
  pack,       \* the run of out.sh
  home,       \* ~ of the production host: copies, with the order they came in
  sent,
  backup,     \* ~/backup
  deployed,   \* ~/bin/.citec_kb_*_deployed: version recorded by kind, 0 for none
  inst,       \* what is unpacked by kind: a revision, 0 for nothing, Broken
  dumps,      \* data/backups/*.sql.gz, named by data version
  pending,    \* data/backups/.pending_restore, 0 for none
  db,         \* [rev, state]: the dump the schema was made from; "whole", "half" when dropped or cut short
  up,         \* the api answers
  act,        \* the run of in.sh
  last,       \* how the latest run of in.sh ended
  torn,       \* history: kinds unpacked by a run that died before it recorded them
  faults
outVars == <<src, number, out, pack>>
inVars  == <<home, backup, deployed, inst, dumps, pending, db, up, act, last, torn>>
vars    == <<outVars, inVars, sent, faults>>
Kinds   == DOMAIN src

NoPack == [pick |-> "none", todo |-> <<>>]
NoAct  == [at |-> "idle", todo |-> <<>>, did |-> {}]
Init ==
  /\ src \in {[k \in M |-> 1] : M \in Mixes} /\ number = [f \in {"code", "data", "model"} |-> 0]
  /\ out = {} /\ pack = NoPack /\ home = {} /\ sent = 0 /\ backup = {}
  /\ deployed = [k \in Kinds |-> 0] /\ inst = [k \in Kinds |-> 0]
  /\ dumps = {} /\ pending = 0 /\ db = [rev |-> 0, state |-> "whole"] /\ up = FALSE
  /\ act = NoAct /\ last = [ended |-> "none", restore |-> FALSE, did |-> {}] /\ torn = {} /\ faults = 0

-----------------------------------------------------------------------------
(* out.sh                                                                    *)

\* The two hosts share nothing but the copies, so their runs take turns here,
\* and a change falls between runs.
Rest == pack = NoPack /\ act = NoAct
Edit(k) ==
  /\ Rest /\ MapThenSumSet(LAMBDA x : src[x] - 1, Kinds) < MaxEdits
  /\ src' = [src EXCEPT ![k] = @ + 1] /\ UNCHANGED <<number, out, pack, inVars, sent, faults>>

\* Without options out.sh makes every bundle but keycloak's.
OutDefault == [do |-> Kinds \ {"docker-keycloak"}, force |-> {}, regen |-> FALSE, dump |-> "none"]
\* A bundle of the current number is there: reuse asks for no more than the file.
Exists(k) == k # "docker-keycloak" /\ number[Family(k)] > 0 /\ \E f \in out : f.kind = k /\ f.ver = number[Family(k)]
\* The images and the code share one number, so one of them that is missing or
\* forced takes a new number for all that are selected.
Need(p, k) ==
  /\ k \in p.do
  /\ \/ \E x \in p.do : Family(x) = Family(k) /\ (p.regen \/ ~Exists(x) \/ (k = "data" /\ p.dump # "none"))
     \/ \E x \in p.force : Family(x) = Family(k)
\* The new numbers are on disk before a bundle is begun.
MutResolve(p) == [f \in DOMAIN number |->
  IF f # "model" /\ \E k \in Kinds \intersect p.do : Family(k) = f /\ ~Exists(k) THEN number[f] + 1 ELSE number[f]]
Resolve(p) == [f \in DOMAIN number |->
  IF f # "model" /\ \E k \in Kinds : Family(k) = f /\ Need(p, k) THEN number[f] + 1 ELSE number[f]]
PackStart(p) ==
  /\ Rest /\ p.do \subseteq Kinds /\ \E k \in Kinds : Need(p, k)
  /\ number' = Resolve(p) /\ \A f \in DOMAIN number : number'[f] <= MaxNumber
  /\ pack' = [pick |-> p.dump, todo |-> SelectSeq(Order, LAMBDA k : k \in Kinds /\ Need(p, k))]
  /\ UNCHANGED <<src, out, inVars, sent, faults>>

Version(k) == IF k = "model" THEN 1 ELSE number[Family(k)]
\* A bundle takes the place of a file of its name.
Written(k, whole, body, sql) ==
  {f \in out : f.kind # k \/ f.ver # Version(k)} \union {[kind |-> k, ver |-> Version(k), body |-> body, sql |-> sql, whole |-> whole]}
PackNext == pack' = IF Len(pack.todo) = 1 THEN NoPack ELSE [pack EXCEPT !.todo = Tail(@)]

\* build_source_bundle and the three builders of images.
BuildCode ==
  /\ pack.todo # <<>> /\ Family(Head(pack.todo)) = "code"
  /\ out' = Written(Head(pack.todo), TRUE, src[Head(pack.todo)], FALSE) /\ PackNext
  /\ UNCHANGED <<src, number, inVars, sent, faults>>
\* build_data_bundle; a dump that fails is passed over when the files make a bundle without it.
BuildData ==
  /\ pack.todo # <<>> /\ Head(pack.todo) = "data"
  /\ \E sql \in {TRUE, FALSE} :
       /\ sql => pack.pick # "none"
       /\ ~sql => pack.pick # "only"
       /\ faults' = IF sql \/ pack.pick = "none" THEN faults ELSE faults + 1
       /\ faults' <= MaxFaults
       /\ out' = Written("data", TRUE, IF pack.pick = "only" THEN 0 ELSE src["data"], sql)
  /\ PackNext /\ UNCHANGED <<src, number, inVars, sent>>
\* build_model_bundle: the name is recorded after the archive.
BuildModel ==
  /\ pack.todo # <<>> /\ Head(pack.todo) = "model"
  /\ out' = Written("model", TRUE, src["model"], FALSE) /\ number' = [number EXCEPT !["model"] = 1] /\ PackNext
  /\ UNCHANGED <<src, inVars, sent, faults>>
\* The run dies over a bundle: nothing, or the archive as far as it was written
\* under its final name.  A dump that is all the bundle was to hold ends it too.
PackDies ==
  /\ pack.todo # <<>> /\ faults < MaxFaults
  /\ faults' = faults + 1 /\ pack' = NoPack
  /\ out' \in {out, Written(Head(pack.todo), FALSE, src[Head(pack.todo)], FALSE)}
  /\ UNCHANGED <<src, number, inVars, sent>>

\* scp, a file at a time.
Send(f) ==
  /\ Rest /\ sent < MaxSends /\ sent' = sent + 1
  /\ home' = {[file |-> f, at |-> sent + 1]} \union {h \in home : h.file.kind # f.kind \/ h.file.ver # f.ver}
  /\ UNCHANGED <<outVars, backup, deployed, inst, dumps, pending, db, up, act, last, torn, faults>>

-----------------------------------------------------------------------------
(* in.sh                                                                     *)

\* find_latest: the highest number in the home directory, whatever was deployed.
Latest(k) == LET V == {h.file.ver : h \in {x \in home : x.file.kind = k}} IN IF V = {} THEN 0 ELSE Max(V)
\* should_deploy; the model's name does not come with the copy, so it always differs.
Wanted(c, k) == k \in c.do /\ Latest(k) # 0 /\ (c.force \/ k = "model" \/ Latest(k) # deployed[k])
Ended(how, c, did) == [ended |-> how, restore |-> c.restore, did |-> did]

\* Without options in.sh looks for all of them.
InDefault == [do |-> Kinds, force |-> FALSE, restore |-> FALSE, restart |-> TRUE]
\* Nothing to deploy ends the run, --restore-pg or not; else the stack goes down.
Begin(c) ==
  /\ Rest /\ c.do \subseteq Kinds
  /\ LET W == {k \in Kinds : Wanted(c, k)} IN
     IF W = {}
     THEN last' = Ended("ok", c, {}) /\ UNCHANGED <<act, up>>
     ELSE /\ up' = FALSE /\ UNCHANGED last
          /\ act' = [at |-> "unpack", call |-> c, todo |-> SelectSeq(Order, LAMBDA k : k \in W), ver |-> [k \in W |-> Latest(k)], did |-> W]
  /\ UNCHANGED <<outVars, sent, faults, home, backup, deployed, inst, dumps, pending, db, torn>>

Fails == act' = NoAct /\ last' = Ended("failed", act.call, act.did)
K  == Head(act.todo)
Hs == {h \in home : h.file.kind = K /\ h.file.ver = act.ver[K]}

Unpacked(h) == inst' = [inst EXCEPT ![K] = h.file.body] /\ torn' = torn \union {K} /\ act' = [act EXCEPT !.at = "archive"] /\ UNCHANGED last
Spoilt      == inst' = [inst EXCEPT ![K] = Broken] /\ torn' = torn \union {K} /\ Fails
Refused     == UNCHANGED <<inst, torn>> /\ Fails
UnpackUnchanged == UNCHANGED <<outVars, sent, faults, home, backup, deployed, db, up>>

\* A cut-short archive of the code is unpacked over the old tree as far as it goes.
UnpackCode ==
  /\ act.at = "unpack" /\ K = "code"
  /\ \E h \in Hs : IF h.file.whole THEN Unpacked(h) ELSE Spoilt
  /\ UNCHANGED <<dumps, pending>> /\ UnpackUnchanged
\* docker load takes an archive whole or not at all.
LoadImages ==
  /\ act.at = "unpack" /\ Family(K) = "code" /\ K # "code"
  /\ \E h \in Hs : IF h.file.whole THEN Unpacked(h) ELSE Refused
  /\ UNCHANGED <<dumps, pending>> /\ UnpackUnchanged
\* Data is unpacked beside and merged; an empty raw/ leaves the files alone, and
\* with --restore-pg the newest dump on disk is noted for the restore.
UnpackData ==
  /\ act.at = "unpack" /\ K = "data"
  /\ \E h \in Hs :
       IF h.file.whole /\ inst["code"] # 0
       THEN /\ Unpacked(IF h.file.body = 0 THEN [h EXCEPT !.file.body = inst["data"]] ELSE h)
            /\ dumps' = IF h.file.sql THEN dumps \union {h.file.ver} ELSE dumps
            /\ pending' = IF act.call.restore /\ dumps' # {} THEN Max(dumps') ELSE pending
       ELSE Refused /\ UNCHANGED <<dumps, pending>>
  /\ UnpackUnchanged
\* models/ is removed before the archive is opened.
UnpackModel ==
  /\ act.at = "unpack" /\ K = "model"
  /\ IF inst["code"] = 0 THEN Refused ELSE \E h \in Hs : IF h.file.whole THEN Unpacked(h) ELSE Spoilt
  /\ UNCHANGED <<dumps, pending>> /\ UnpackUnchanged

\* archive_bundle: of the files of a kind the two that came latest stay.
NewestTwo(B) == {b \in B : Cardinality({x \in B : x.at > b.at}) < 2}
Archive ==
  /\ act.at = "archive"
  /\ home' = home \ Hs
  /\ backup' = {b \in backup : b.file.kind # K} \union NewestTwo({b \in backup : b.file.kind = K} \union Hs)
  /\ act' = [act EXCEPT !.at = "record"]
  /\ UNCHANGED <<outVars, sent, faults, deployed, inst, dumps, pending, db, up, last, torn>>
Record ==
  /\ act.at = "record"
  /\ deployed' = [deployed EXCEPT ![K] = act.ver[K]] /\ torn' = torn \ {K}
  /\ act' = [act EXCEPT !.todo = Tail(@), !.at = IF Len(act.todo) = 1 THEN "choose" ELSE "unpack"]
  /\ UNCHANGED <<outVars, sent, faults, home, backup, inst, dumps, pending, db, up, last>>

\* find_pg_dump: what an earlier run noted comes before the newest dump.
Dump == IF pending \in dumps THEN pending ELSE IF dumps = {} THEN 0 ELSE Max(dumps)
Choose ==
  /\ act.at = "choose"
  /\ IF ~act.call.restore THEN act' = [act EXCEPT !.at = "start"] /\ UNCHANGED last
     ELSE IF Dump = 0 THEN Fails
     ELSE act' = [act EXCEPT !.at = "drop"] /\ UNCHANGED last
  /\ UNCHANGED <<outVars, sent, faults, home, backup, deployed, inst, dumps, pending, db, up, torn>>
\* restore_pg_clean: postgres alone, the schema dropped, the dump read, the rows counted.
Drop ==
  /\ act.at = "drop"
  /\ db' = [rev |-> Dump, state |-> "half"] /\ act' = [act EXCEPT !.at = "load"]
  /\ UNCHANGED <<outVars, sent, faults, home, backup, deployed, inst, dumps, pending, up, last, torn>>
\* psql stops at the first error and has committed what came before it.
Load ==
  /\ act.at = "load"
  /\ \/ db' = [db EXCEPT !.state = "whole"] /\ act' = [act EXCEPT !.at = "count"] /\ UNCHANGED <<faults, last>>
     \/ faults < MaxFaults /\ faults' = faults + 1 /\ Fails /\ UNCHANGED db
  /\ UNCHANGED <<outVars, sent, home, backup, deployed, inst, dumps, pending, up, torn>>
Count ==
  /\ act.at = "count"
  /\ IF db.rev \in Thin THEN Fails /\ UNCHANGED pending
     ELSE pending' = 0 /\ act' = [act EXCEPT !.at = "start"] /\ UNCHANGED last
  /\ UNCHANGED <<outVars, sent, faults, home, backup, deployed, inst, dumps, db, up, torn>>
\* start_all_containers: without images or without the project compose fails.
Start ==
  /\ act.at = "start"
  /\ IF act.call.restart /\ (inst["code"] = 0 \/ ("docker" \in Kinds /\ inst["docker"] = 0))
     THEN Fails /\ UNCHANGED up
     ELSE up' = act.call.restart /\ act' = NoAct /\ last' = Ended("ok", act.call, act.did)
  /\ UNCHANGED <<outVars, sent, faults, home, backup, deployed, inst, dumps, pending, db, torn>>
\* The session is cut; code and model may be half unpacked.
Dies ==
  /\ act # NoAct /\ faults < MaxFaults /\ faults' = faults + 1
  /\ \/ UNCHANGED <<inst, torn>>
     \/ act.at = "unpack" /\ K \in {"code", "model"} /\ inst' = [inst EXCEPT ![K] = Broken] /\ torn' = torn \union {K}
  /\ Fails
  /\ UNCHANGED <<outVars, sent, home, backup, deployed, dumps, pending, db, up>>

Next ==
  \/ \E k \in Kinds : Edit(k)
  \/ \E p \in Picks \union {OutDefault} : PackStart(p)
  \/ BuildCode \/ BuildData \/ BuildModel \/ PackDies
  \/ \E f \in out : Send(f)
  \/ \E c \in Calls \union {InDefault} : Begin(c)
  \/ UnpackCode \/ LoadImages \/ UnpackData \/ UnpackModel \/ Archive \/ Record \/ Choose \/ Drop \/ Load \/ Count \/ Start \/ Dies
Spec == Init /\ [][Next]_vars
-----------------------------------------------------------------------------
TypeOK ==
  /\ \A f \in out : f.kind \in Kinds /\ f.ver \in 1..number[Family(f.kind)] \union {1} /\ f.body \in 0..(MaxEdits + 1)
  /\ \A h \in home \union backup : h.at \in 1..sent
  /\ pending \in dumps \union {0} /\ db.state \in {"whole", "half"} /\ torn \subseteq Kinds

\* What in.sh passes over because the number is the one it recorded is what is
\* unpacked, in spite of forced and repeated builds and of runs that died: a
\* number is never given to two contents.
SkipIsSound ==
  \A h \in home : h.file.whole /\ h.file.body # 0 /\ h.file.kind \notin torn \union {"model"} /\ h.file.ver = deployed[h.file.kind]
                  => inst[h.file.kind] = h.file.body
\* The api never answers on the remains of the run that started it: what that run
\* unpacked is whole and recorded, and if it was to restore, the schema is whole.
ServesWhole ==
  up => /\ \A k \in last.did : inst[k] # Broken /\ k \notin torn
        /\ last.restore /\ last.did # {} => db.state = "whole" /\ db.rev \notin Thin
\* docs/DEPLOY.md, on a restore that fails half way: run the same command again.
\* A run with --restore-pg that ends well has left a whole schema.
RestoreAsked == last.ended = "ok" /\ last.restore => db.state = "whole"
=============================================================================
