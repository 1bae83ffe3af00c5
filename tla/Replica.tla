------------------------------ MODULE Replica ------------------------------
(***************************************************************************)
(* Bringing production's rows to the development host, by hand and by file.  *)
(* sync_manifest.sh lists the development rows with a hash each,             *)
(* sync_export.sh (production) packs the rows that differ and sync_apply.sh  *)
(* merges them in one transaction; prod_pull_export.sh and                   *)
(* prod_pull_apply.sh copy everything instead.  Production goes on ingesting *)
(* while its tables are read one after another.                              *)
(***************************************************************************)
EXTENDS Integers, FiniteSets

CONSTANTS
  Docs,
  MaxEdits,   \* changes on production
  MaxPulls,   \* bundles begun
  MaxFaults   \* runs that die, transactions refused, backups that fail

\* A host: row is the documents row (rev, and the generation its body has), a
\* chunk is named by document and generation, link is the row of
\* document_entities with the host that numbered it, raw the file.
NoRow  == [rev |-> 0, gen |-> 0]
NoLink == [gen |-> 0, by |-> "none"]
Chunk  == Docs \X (1..(MaxEdits + 1))
Bare   == [row |-> [d \in Docs |-> NoRow], on |-> {}, known |-> {}, link |-> [d \in Docs |-> NoLink], raw |-> [d \in Docs |-> 0]]

VARIABLES
  prod, dev,  \* the two hosts
  vec,        \* development chunks with a vector
  saved,      \* data/backups/pre-prod-pull-*: a development database is kept
  act,        \* the pull in hand
  quiet,      \* history: whole pulls since production last changed, up to 2
  edits, pulls, faults
vars == <<prod, dev, vec, saved, act, quiet, edits, pulls, faults>>

Idle == [at |-> "idle"]
Full == [row |-> [d \in Docs |-> [rev |-> 1, gen |-> 1]], on |-> Docs \X {1}, known |-> Docs \X {1},
         link |-> [d \in Docs |-> [gen |-> 1, by |-> "prod"]], raw |-> [d \in Docs |-> 1]]
Init ==
  /\ prod \in {Full, [Full EXCEPT !.row = [d \in Docs |-> IF d = 1 THEN @[1] ELSE NoRow], !.on = {<<1, 1>>}, !.known = {<<1, 1>>},
                                  !.link = [d \in Docs |-> IF d = 1 THEN @[1] ELSE NoLink], !.raw = [d \in Docs |-> IF d = 1 THEN 1 ELSE 0]]}
  /\ dev \in {Bare, prod} /\ vec = dev.on
  /\ saved = FALSE /\ act = Idle /\ quiet = 0 /\ edits = 0 /\ pulls = 0 /\ faults = 0

-----------------------------------------------------------------------------
(* Production meanwhile.                                                     *)
Changed == edits < MaxEdits /\ edits' = edits + 1 /\ quiet' = 0 /\ UNCHANGED <<dev, vec, saved, pulls, faults>>
           /\ act' = IF act = Idle THEN act ELSE [act EXCEPT !.clean = FALSE]
\* ingest/pipeline.py: a new body retires the old chunks.
Ingest(d) ==
  /\ LET g == prod.row[d].gen + 1 IN
     prod' = [row |-> [prod.row EXCEPT ![d] = [rev |-> @.rev + 1, gen |-> g]],
              on |-> {c \in prod.on : c[1] # d} \union {<<d, g>>}, known |-> prod.known \union {<<d, g>>},
              link |-> [prod.link EXCEPT ![d] = [gen |-> g, by |-> "prod"]], raw |-> [prod.raw EXCEPT ![d] = g]]
  /\ Changed
\* The status or the metadata of a document changes, its body does not.
Touch(d) == prod.row[d].rev > 0 /\ prod' = [prod EXCEPT !.row[d].rev = @ + 1] /\ Changed

-----------------------------------------------------------------------------
(* The incremental pull: what is there and is not the same, never what is gone. *)
DiffRows(seen)   == {d \in Docs : prod.row[d] # NoRow /\ prod.row[d] # seen.row[d]}
DiffChunks(seen) == {c \in prod.known : c \notin seen.known \/ (c \in prod.on) # (c \in seen.on)}
\* md5 of the whole row: the number each host gives a link counts.
DiffLinks(seen)  == {d \in Docs : prod.link[d] # NoLink /\ prod.link[d] # seen.link[d]}
DiffRaw(seen)    == {d \in Docs : prod.raw[d] # 0 /\ prod.raw[d] # seen.raw[d]}

\* sync_manifest.sh on the development host.
Manifest(profile) ==
  /\ act = Idle /\ pulls < MaxPulls /\ pulls' = pulls + 1
  /\ act' = [at |-> "rows", profile |-> profile, clean |-> TRUE, seen |-> dev]
  /\ UNCHANGED <<prod, dev, vec, saved, quiet, edits, faults>>
\* sync_export.sh: the manifest of production, a table at a time, against it.
ListRows ==
  /\ act.at = "rows" /\ act' = [at |-> "rest", profile |-> act.profile, clean |-> act.clean, seen |-> act.seen, rows |-> DiffRows(act.seen)]
  /\ UNCHANGED <<prod, dev, vec, saved, quiet, edits, pulls, faults>>
ListRest ==
  /\ act.at = "rest"
  /\ act' = [at |-> "pack", profile |-> act.profile, clean |-> act.clean, rows |-> act.rows,
             chunks |-> IF act.profile = "full" THEN DiffChunks(act.seen) ELSE {},
             links |-> DiffLinks(act.seen), raw |-> IF act.profile = "full" THEN DiffRaw(act.seen) ELSE {}]
  /\ UNCHANGED <<prod, dev, vec, saved, quiet, edits, pulls, faults>>
\* The rows of the listed keys as they are now, documents first; nothing listed, no bundle.
Pack ==
  /\ act.at = "pack"
  /\ IF act.rows \union act.links \union act.raw = {} /\ act.chunks = {}
     THEN act' = Idle /\ quiet' = IF act.clean /\ act.profile = "full" THEN 2 ELSE quiet
     ELSE act' = [at |-> "merge", profile |-> act.profile, clean |-> act.clean, row |-> [d \in act.rows |-> prod.row[d]],
                  chunks |-> act.chunks, links |-> act.links, raw |-> act.raw] /\ UNCHANGED quiet
  /\ UNCHANGED <<prod, dev, vec, saved, edits, pulls, faults>>
PackRest ==
  /\ act.at = "merge"
  /\ act' = [at |-> "apply", profile |-> act.profile, clean |-> act.clean, row |-> act.row,
             on |-> act.chunks \intersect prod.on, off |-> act.chunks \ prod.on,
             link |-> [d \in act.links |-> prod.link[d]], raw |-> [d \in act.raw |-> prod.raw[d]]]
  /\ UNCHANGED <<prod, dev, vec, saved, quiet, edits, pulls, faults>>

Staged == DOMAIN act.row
\* The chunks of the staged documents are retired only when the bundle brings chunks.
Retired == IF act.on \union act.off = {} THEN {} ELSE {c \in dev.on : c[1] \in Staged}
\* INSERT .. ON CONFLICT DO UPDATE, a chunk's is_active with it.
MutMerged == (dev.on \ (Retired \union act.off)) \union (act.on \ dev.known)
Merged == (dev.on \ (Retired \union act.off)) \union act.on
Upserted == [d \in Docs |-> IF d \in Staged THEN act.row[d] ELSE dev.row[d]]
\* Links go by their natural key and keep, or get, the number of this host.
Links == [d \in Docs |-> IF d \notin DOMAIN act.link THEN dev.link[d]
                         ELSE [gen |-> act.link[d].gen, by |-> IF dev.link[d] = NoLink THEN "dev" ELSE dev.link[d].by]]
\* Every chunk and link needs its document; psql -1 takes all of the bundle or nothing.
Refused == \E d \in {c[1] : c \in act.on \union act.off} \union DOMAIN act.link : d \notin Staged /\ dev.row[d] = NoRow
Apply ==
  /\ act.at = "apply" /\ ~Refused
  /\ dev' = [dev EXCEPT !.row = Upserted, !.on = Merged, !.known = @ \union act.on \union act.off, !.link = Links]
  /\ act' = [at |-> "files", profile |-> act.profile, clean |-> act.clean, raw |-> act.raw]
  /\ UNCHANGED <<prod, vec, saved, quiet, edits, pulls, faults>>
Refuse == act.at = "apply" /\ Refused /\ act' = Idle /\ UNCHANGED <<prod, dev, vec, saved, quiet, edits, pulls, faults>>
\* raw_files.tar.gz is unpacked over data/raw after the commit.
ApplyRaw ==
  /\ act.at = "files"
  /\ dev' = [dev EXCEPT !.raw = [d \in Docs |-> IF d \in DOMAIN act.raw THEN act.raw[d] ELSE @[d]]]
  /\ quiet' = IF act.clean /\ act.profile = "full" THEN IF quiet = 0 THEN 1 ELSE 2 ELSE quiet
  /\ act' = [at |-> "embed", clean |-> act.clean] /\ UNCHANGED <<prod, vec, saved, edits, pulls, faults>>
\* app.embed.cli: active chunks without a vector.
Reembed == act.at = "embed" /\ vec' = vec \union dev.on /\ act' = Idle /\ UNCHANGED <<prod, dev, saved, quiet, edits, pulls, faults>>

-----------------------------------------------------------------------------
(* The whole copy.                                                           *)
\* pg_dump sees one state of production; data/raw is packed after it.
DumpAll ==
  /\ act = Idle /\ pulls < MaxPulls /\ pulls' = pulls + 1
  /\ act' = [at |-> "rawall", clean |-> TRUE, db |-> prod]
  /\ UNCHANGED <<prod, dev, vec, saved, quiet, edits, faults>>
DumpRaw ==
  /\ act.at = "rawall" /\ act' = [act EXCEPT !.at = "save", !.db.raw = prod.raw]
  /\ UNCHANGED <<prod, dev, vec, saved, quiet, edits, pulls, faults>>
\* A backup of the development database that fails is not missed.
Save ==
  /\ act.at = "save" /\ act' = [act EXCEPT !.at = "drop"]
  /\ \/ saved' = TRUE /\ UNCHANGED faults
     \/ faults < MaxFaults /\ faults' = faults + 1 /\ UNCHANGED saved
  /\ UNCHANGED <<prod, dev, vec, quiet, edits, pulls>>
\* The api and the worker are not stopped for it.
DropAll ==
  /\ act.at = "drop" /\ act' = [act EXCEPT !.at = "load"]
  /\ dev' = [Bare EXCEPT !.raw = dev.raw] /\ vec' = {} /\ quiet' = 0
  /\ UNCHANGED <<prod, saved, edits, pulls, faults>>
LoadAll ==
  /\ act.at = "load" /\ act' = [act EXCEPT !.at = "mirror"]
  /\ dev' = [act.db EXCEPT !.raw = dev.raw] /\ vec' = act.db.on
  /\ UNCHANGED <<prod, saved, quiet, edits, pulls, faults>>
MirrorRaw ==
  /\ act.at = "mirror" /\ act' = Idle
  /\ dev' = [dev EXCEPT !.raw = act.db.raw] /\ quiet' = IF act.clean THEN 2 ELSE 0
  /\ UNCHANGED <<prod, vec, saved, edits, pulls, faults>>
\* A run ends early: stopped by tables that an api restarted
\* meanwhile has made in the empty schema, or with its session.
Dies ==
  /\ act # Idle /\ faults < MaxFaults /\ faults' = faults + 1 /\ act' = Idle
  /\ UNCHANGED <<prod, dev, vec, saved, quiet, edits, pulls>>

Next ==
  \/ \E d \in Docs : Ingest(d) \/ Touch(d)
  \/ \E p \in {"full", "graph"} : Manifest(p)
  \/ ListRows \/ ListRest \/ Pack \/ PackRest \/ Apply \/ Refuse \/ ApplyRaw \/ Reembed
  \/ DumpAll \/ DumpRaw \/ Save \/ DropAll \/ LoadAll \/ MirrorRaw \/ Dies
Spec == Init /\ [][Next]_vars
-----------------------------------------------------------------------------
TypeOK == \A h \in {prod, dev} : h.on \subseteq h.known /\ h.known \subseteq Chunk /\ \A d \in Docs : h.row[d].gen \in 0..(MaxEdits + 1)

\* Two whole incremental pulls, or one whole copy, with production at rest make
\* the hosts agree, though a single pull may retire chunks it does not bring.
Heals == quiet = 2 => \A d \in Docs : prod.row[d] # NoRow =>
  dev.row[d] = prod.row[d] /\ dev.raw[d] = prod.raw[d] /\ {c \in dev.on : c[1] = d} = {c \in prod.on : c[1] = d}
\* No document of the development host is searched in two generations at once.
OneGenerationEach == \A c, e \in dev.on : c[1] = e[1] => c = e
\* sync_apply.sh:68-78: a pull that brings no chunks takes none away.
KeepsSearchStep == act.at = "apply" /\ act'.at = "files" /\ act.profile = "graph" => dev.on \subseteq dev'.on
KeepsSearch == [][KeepsSearchStep]_vars
\* sync_apply.sh:75-76: the chunks that the clean-up retires are replaced by the
\* chunks of the same bundle.
Replaced == [][act.at = "apply" /\ act'.at = "files" /\ act.profile = "full" /\ act.clean
               => \A d \in Docs : (\E c \in dev.on : c[1] = d) => \E c \in dev'.on : c[1] = d]_vars
=============================================================================
