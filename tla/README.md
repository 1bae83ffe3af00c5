# citec-kb in TLA+

This directory holds formal models of the parts of citec-kb whose correctness
depends on what happens *between* steps: crawls that are resumed, jobs whose
worker dies, requests that race for the same row, deployments that fail half-way.
Each model is written from the source under `src/` and names the function behind
every action. TLC checks the models on small instances; TLAPS proves the theorems
of section 5 for every value of the constants. `PROJECT.json` maps every
definition to source lines.

Paths below are relative to `src/apps/api/app/` unless they start with `apps/`,
`scripts/`, `mcp-server/` or `docs/`.

## 1. The system

citec-kb is a knowledge base: it crawls Confluence and other sources into raw
files, ingests them into PostgreSQL (documents, chunks, vectors), derives a graph
in Neo4j, and answers searches and questions over HTTP and MCP. Long work runs
from cron or through a Redis job queue with one worker. Releases, data and backups
travel by scripts, partly through an air gap.

| Component | State it keeps | Operations | Interacts with | Modules |
|---|---|---|---|---|
| Map synchronisation `confluence/map_sync.py` | raw files; per source a cursor and per-root checkpoints in `sources`; a session advisory lock | `sync_map`, `run_map_inventory` | Confluence, ingest, embedding | `MapSync` |
| Map backfill `confluence/map_backfill.py` | a JSON state file; the map lock | first pass, retry passes, ingest, embedding | map synchronisation | `MapBackfill` |
| Map registry `routers/confluence_map.py`, `confluence/map_space_setup.py`, `map_source_seed.py`, the migration script | the roots and cursors in `sources.config` | add, remove, plan, apply, seed | crawls and inventories | `MapRegistry` |
| Document synchronisation and inventory `confluence/sync.py`, `docs_inventory.py` | raw files, a cursor, an inventory lock | `sync`, `run_inventory` | ingest, embedding | `DocsSync` |
| Ingest and embedding `ingest/pipeline.py`, `embed/job.py` | `documents`, `chunks`, `chunk_embeddings`, check items | `run_ingest`, `embed_pending_chunks` | called by every crawl, upload and mirror | `IndexStore`, `MapSync` |
| Job queue and worker `jobs/queue.py`, `apps/worker/app/main.py` | Redis list, a hash per job, a heartbeat key | `enqueue_job`, `_process_one`, heartbeat | administrators; the API over HTTP | `JobQueue`, `OnceOnlyJobs` |
| Confirmed decisions `decisions/service.py`, `mirror.py` | decisions, evidence, verdicts, nonces; a mirrored document each | propose, evidence, verdict, supersede, retire, restore, staleness scan | documents, search | `DecisionStore` |
| Decision topic scan `decisions/scan.py`, `refine.py`, `citec_dashboard/service.py` | proposals by `source_key` | `scan_topics` and its detectors | decisions, failure buckets, a language model | `TopicScan`, `BucketGaps` |
| Graph synchronisation `graph/sync_cli.py`, `pipeline.py` | Neo4j; `graph_sync_state`, `graph_runs`; an advisory lock | full and incremental runs | documents, failure buckets | `GraphSync`, `GraphRules` |
| Graph exploration `routers/graph.py`, `graph/explore.py` | none | anchors, walks, paging | Neo4j, documents | `GraphRules` |
| Failure buckets `failure_buckets/service.py` | rows and their mirror documents | create, refine, update, retire, restore, match | ingest, search | `FailureBuckets`, `Matching` |
| Similar incidents `si/retrieve.py`, `bundles/match.py` | none | find, rank, advise | search, frames | `Matching` |
| Synonyms `synonyms/` | candidates, checkpoints, a process cache | mine, import, decide, serve | search | `Synonyms`, `SynonymCache` |
| Document expansion `docexp/` | one row per document, export files | list, generate, export, import | documents, a language model | `DocExpansion` |
| Frames `frames/` | one row per ticket | `extract_missing`, `extract_citec_domains` | documents | `Frames` |
| Retrieval `retrieval/` | none | search, fuse, merge rewrites | PostgreSQL | `Search` |
| Query planning `query/` | none | dates, intents, filters | search, analytics, tickets | `Planner` |
| Answers `rag/pipeline.py`, `trust/engine.py` | none | fast and streamed answers | search, two model servers | `Answering` |
| Tokens `auth/principal.py`, `auth/admin_tokens.py`, `scripts/issue_system_token.py` | two token files, a cache | judge, issue, rotate, revoke | every request | `Tokens` |
| Sign-in `auth/oidc.py`, `auth/mock_idp.py`, `routers/auth.py`, `auth/deps.py` | states and codes in Redis, a cached discovery document | begin, authorize, callback, judge | an identity provider, every request | `Login` |
| Confluence client `confluence/client.py`, `service.py`, `macro.py` | a limiter per client | list, get, put diagrams; the crawl's requests | Confluence | `WikiClient` |
| Upload interface `routers/external_compat.py` | files, `ingest_jobs` | upload | ingest, embedding | `Uploads` |
| MCP server `mcp-server/server.py` | none | one tool per operation | the API over HTTP | `McpTools` |
| Deployment `scripts/git_pull_deploy.sh`, `restart_api_if_idle.sh` | git checkout, stash, `.build_sha`, schema | deploy, roll back, nightly restart | running batches | `Deploy` |
| Offline bundles `scripts/out.sh`, `scripts/in.sh` | version files, archives, dumps | cut, carry, apply, restore | services, PostgreSQL | `Bundles` |
| Replica `scripts/sync_*.sh`, `prod_pull_*.sh` | manifests, staged tables | export, diff, apply | two databases | `Replica` |
| Backups `scripts/backup_manager.py`, `routers/ops.py` | request files, a lock, sets | request, dump, publish, rotate | the page, cron | `Backups` |
| Cron status `scripts/cron_snapshot.py` | a snapshot | build | crontab, logs | `CronStatus` |
| Log of API calls `audit/api_access.py`, `audit/mcp_access.py` | two tables, a bounded queue | log, flush, prune | every request | `AccessLog` |

### What is hard, and what makes each part correct

* **Crawls** (`MapSync`, `MapBackfill`, `DocsSync`, `MapRegistry`). A run lasts
  hours, Confluence changes under it, the listing is paged by offset so that a
  deletion shifts it, and the run may be killed at any step while checkpoints carry
  part of it over. Correct: the cursor never passes an edit that is not on disk, it
  is committed after the ingest, only pages that are gone are archived, `ok` in a
  state file is true, and everything listed is finally indexed.
* **Indexes** (`IndexStore`, `GraphSync`, `FailureBuckets`, `DocExpansion`). Jobs
  without a common lock, two stores without a common transaction, skipping by
  hash. Correct: one generation of chunks, vectors of chunks that exist, nothing
  skipped that the other store lacks, a mirror that agrees with its row.
* **Job queue.** Three processes and no transaction that spans them; calls time
  out while handlers go on; hashes expire. Correct: a handler runs at most once,
  verdicts are final and truthful, every job gets one unless somebody died.
* **Decisions and proposals.** Concurrent requests at READ COMMITTED, a mirror
  written by three further transactions, caps read before they are used. Correct:
  a nonce backs one verdict, verdicts form one line, their evidence stays on
  record, no two decisions replace each other, the cap holds but for scans that crossed.
* **Answers.** Rankings with bonuses, ties and copies at the edge of a page; words
  that set dates and filters; a stream that breaks. Correct: what is left out is
  left out for a reason, the dates are those meant, the trust shown was earned.
* **Sign-in and the wiki's client.** A callback the browser sends twice, a state read and
  deleted in two calls, a provider that changes its key; one rate limit for crawls and
  people, attachments that change under a put. Correct: a code is spent once, who signed
  in stays so while the token lasts, requests keep their distance and a refusal is not
  answered by a storm, what was put is what is read.
* **Hosts.** Scripts that die between two steps and are run again. Correct: a
  script that ends says what has happened, a loaded service is a whole one, a
  replica heals, a request for a backup is served by a dump made after it.

`PROJECT.json` lists the hazards one by one at their lines, each with the
properties that cover it.

## 2. Modules

A module is one component; its constants are the people, processes, files and
bounds of an instance. `MC*` modules instantiate them for TLC, `*Proofs` modules
hold the theorems. Each comment at the head of a module says what one value of the
model stands for; the table says at what grain it steps.

| Module | Models | Grain |
|---|---|---|
| `MapSync` | map synchronisation with ingest and embedding as it uses them | one action per request, file or transaction |
| `MapBackfill` | the backfill of all map sources, two calls at once | one action per write of the state file, source or pass |
| `MapRegistry` | the registry of map sources under crawls and inventories | one action per read or write of a row |
| `DocsSync` | the daily run and the weekly inventory of the document spaces | one action per request, file, or transaction |
| `IndexStore` | documents, chunks, vectors under concurrent ingests and embedders | one action per statement that takes a lock, per flush, per commit |
| `JobQueue`, `OnceOnlyJobs` | the Redis queue, the caller, the worker, the handler; and what they promise | one action per Redis command |
| `DecisionStore` | decisions, evidence, verdicts, nonces, mirror | one action per transaction, or two when it reads without a lock |
| `TopicScan` | the job that proposes decisions | one action per session, call of the model or transaction |
| `BucketGaps` | which recurring incidents the scan asks about | one action: a pass over the incidents |
| `GraphSync` | runs of the graph synchronisation over two stores | one action per transaction of either store |
| `GraphRules` | which edges are written; what a query of the graph shows | functions, and one action: an answer |
| `FailureBuckets` | failure buckets and their mirrors | one action per transaction |
| `Matching` | which buckets fit what was observed; which incidents are like a symptom | two actions: a ranking each |
| `Synonyms`, `SynonymCache` | mining and deciding synonyms; the cache of the approved ones | one action per file or transaction; per access to the cache |
| `DocExpansion` | summaries of documents and their transfer between sites | one action per transaction or file |
| `Frames` | two extractions over the same tickets | one action per transaction |
| `Search` | a search with its rewrites | one action per search of the request, one for the merged answer |
| `Planner` | dates, intents and filters of a question | plan, execute |
| `Answering` | an answer at once or as a stream | one action per call of the model or piece of its stream |
| `Tokens` | token files, their cache, page and host scripts | one action per read, stat, lock or replacement of a file |
| `Login` | signing in, and whom a request is from | one action per call to Redis or the provider |
| `WikiClient` | the client of the crawls and the diagrams of a page | one action per request, or piece of waiting |
| `Uploads` | uploads of single files | one action per file operation, transaction or encoding |
| `McpTools` | the tools for assistants | one action per message |
| `Deploy` | deployment with roll-back, and the nightly restart | one action per command of the script that changes something |
| `Bundles` | offline bundles, from the cut to the restart | the same |
| `Replica` | pulls of rows from production | one action per table read, file or transaction |
| `Backups` | backups on request and by cron | one action per file operation |
| `CronStatus` | the verdict on a cron job | one action per minute or snapshot |
| `AccessLog` | the log of API calls, with its queue and writer thread | one action per request, row taken or transaction |
| `MCMapSync`, `MCDecisionStore` | instances of `MapSync` and `DecisionStore` | |
| `MCPipelines`, `MCLive`, `MCServices`, `MCRequests`, `MCHosts` | small instances of all other modules side by side (section 3); in `MCServices` also all inputs of the graph's functions, with second definitions to compare | |
| `MapSyncProofs`, `BackfillProofs`, `JobQueueProofs`, `DecisionProofs`, `IndexProofs`, `GraphProofs`, `ServiceProofs` | theorems | |

Where components interact, the module of the one has the steps of the other that
matter to it: `MapSync`, `DocsSync` and `MapBackfill` ingest and embed in their own
actions (as one step; `IndexStore` has the inside), `MapRegistry` has a crawl that
reads and writes the JSON column it shares with the administrators, `DecisionStore`
and `FailureBuckets` write their mirrors, `GraphSync` reads documents that change,
`Deploy` meets running batches and the night's restart, `McpTools` meets an API that
works on after the tool gave up. Some variables are *history*: they are written,
never read by an action, and let a property say why something was lost.

### Crawls

**`MapSync`.** `wiki`/`alive` are Confluence; `raw`, `doc`, `status`, `vec` the files,
the document rows and their vectors; `cursor` and `ckpt` the two columns of
`sources`; `run` the local variables of the one run that holds the lock. The
content of a page is the time of its last edit, so "up to date" is an equality.
`cycle` and `missed` are history. `StartSync` and `StartInventory` take the lock and
the arguments; `BeginSource`, `SkipSource`, `BeginRoot` are the heads of the two
loops; `Search`, `SearchFails`, `StopAtLimit`, `FetchPage` (`WritePage` or
`PageFails`), `EndBatch`, `FetchSeed` are the body of `_crawl_map_source` and
`_crawl_explicit_pages`; `Judge` is the error policy and the staging of the commit;
`Archive` the end of an inventory; `Ingest`, `IngestRaises`, `Embed` the two jobs;
`AdvanceCursor` and `ClearCheckpoints` the two transactions of the commit; `Return`
and `Crash` end the run. Every outcome of `Search` is a disjunct: the empty answer,
the answer without a new id (an error that ends the root), the batch. Sources are
crawled in any order (the code's order is the registry's). What a page says, rate
limits and the progress record in Redis are left out.

**`MapBackfill`.** `state` is the JSON file, `act` what a call of `run_backfill` holds in
memory, `lock` who holds the map lock. `SayStarting` writes the file before `TryLock`; then
`CrawlSource`/`Record` per source, `CrawlAgain` for failed sources, `RetryRound` for
failed requests, `Ingest`, `Embed`, `Finish`. A source is crawled in one step that may
lose a page's request or a listing's; `gap` is history. `Crash` ends any call anywhere.

**`MapRegistry`.** `src` is a row: enabled, roots, whether their labels are those of the
set-up, cursor, checkpoints. An
administrator's request reads (`AddRoot`, `Plan`) and writes back what it read
(`AddRootWrites`, `Apply`) with anything in between; a crawl reads the column
(`ReadConfig`) and writes it whole (`WriteConfig`) at each checkpoint. `open` names the
roots added since the last inventory behind a cursor that was already set, `late`
the edits that came after a listing: the gaps the code has and tells.

**`DocsSync`.** `act` holds a `sync()` or an inventory from its start to its commit;
nothing excludes them. `lost` and `stray` are history: edits behind the cursor and
copies on disk with their reason (a slower run's older copy or start, an error
tolerated).

### Stores

**`IndexStore`.** `row`, `item`, `chunk`, `vec` are the tables. An ingest reads the row and
its chunks without a lock, since sessions do not flush by themselves, and takes the
row lock at `Flush`; `InsertClash` is the unique key. An embedder reads a batch
(`Fetch`), calls the model, looks existing vectors up and inserts (`Insert`,
`InsertFails`). `raced` and `late` are history.

**`GraphSync`.** `doc`, `mark`, `rows`, `latest`, `lock` are PostgreSQL, `node`, `marker`
Neo4j; `run` a run's position. Merge and mark are two actions; faults are a death, an
error, a session lock that is lost and a graph store replaced by an empty one.
Two runs thus work at once although there is a lock. `GraphRules` says which
edges a document yields, how merges combine and what a query shows.

**`FailureBuckets`, `DocExpansion`, `Frames`, `TopicScan`, `Synonyms`.** A table each, and
jobs that read it in one transaction and write it in later ones while people and
other jobs work on it. `DocExpansion` has two sites and the file between them. A scan of
`TopicScan` counts (`Count`), reads what is known (`Know`), detects, and makes each
proposal in two transactions, `Insert` for the row and `Gate` for its evidence; between
the two it is on the page of open questions, and may be retired.

**`BucketGaps`, `Matching`.** Pure parts. In the first a world is a year of incidents, the
active buckets and what people have settled, and `DetectGaps` composes the queries,
the choice of a cause, the policies, the grouping (`Forest` is the union-find of
`cluster_by_cause`) and the marks of overlaps; the properties say what the questions must
be without following that path. In the second a signal is a set of words and scores are
counted in fractions in which they are whole; `Rank` orders buckets (`match_buckets`),
`Retrieve` past incidents (`similar_incidents`): hits of every source type in one order,
frames that are added to them, the sum of boosts, and the advice on each case.

**`DecisionStore`.** One variable per column the properties need; `rows` and `live` are
all evidence and the part not retracted, as pins `<<document, hash>>`; `call` holds
the local variables of each request. A transaction that reads and writes only the
row it locked is one action (`Retire`, `Restore`, `Retract`, `IssueNonce`). The others
are two: `BeginVerdict`/`CommitVerdict`, `BeginEvidence`/`CommitEvidence`,
`BeginSupersede`/`CommitSupersede`, `BeginScan`/`CommitScan`; the row read FOR UPDATE is
`Unlocked` for nobody else in between. `KeyShare` is the lock that the foreign key of
`superseded_by` takes on the new row when the link is new (`Relinks`): SQLAlchemy leaves a
column whose value stays the same out of the UPDATE, so that nothing is checked and
nothing waits. `Waits` and `SupersedeFails` are its deadlock. `reopened` is an auxiliary
variable: the decisions that a scan took out of "superseded" and that are still linked.
`RejectEvidence` is the roll-back of a proposal with ON DELETE SET NULL, CASCADE and
RESTRICT as the tables declare them. `MirrorRead`, `MirrorUpsert`, `MirrorFlag` are the
three transactions of `mirror.sync`. A verdict is `pick` (any option) or `NEI`; a
document's content is its hash and the quote stays in it; evidence is for one option
and one quote per document; `external_only_confirm` is taken as given.
`pick_incidents`, the queue score and the embedding of the mirror are left out.

**`JobQueue` and `OnceOnlyJobs`.** `hash` is the status field of a job's hash and `ttl` says
whether the hash has an expiry; `queue` is the list; `caller`, `worker`, `handler` are the
three processes' positions; `beat` is the age class of the heartbeat key (30 s is the
limit of `worker_status`, 60 s the key's expiry). `PutHash`, `Push`, `SetExpiry` are the
three commands of `enqueue_job`; `Pop`, `ReadHash`/`DropMissing`, `MarkRunning`,
`Post`/`PostFails`, `Answer`/`Timeout`, `WriteVerdict` are the worker.
`UnlistedException` is an exception that `_process_one` does not list and `main` swallows;
`CallerDies`, `WorkerDies` are deaths; `Expire` is the seven days running out.
`OnceOnlyJobs` has two variables: what the handler did and what the queue shows.
`Shown(j)` maps a hash to a verdict; a job whose hash is gone and that nobody will
touch again is "forgotten".

### Requests

`Search`, `Planner` and `Answering` read only: a behaviour is one request, chosen from
enumerated worlds, and the properties compare the answer with an independent
statement of what it should be. In `Search` a question carries the ranks the database
would give, per variant for chunks and for expansions, which chunks its identifiers
hit, and the filter field by field; scores are integers in millionths and the ranked
lists keep insertion order as the code's dictionaries do, so ties and orders are exact.
One `Seek` is one `hybrid_search`; `Answer` is the page, or the merge of several. In
`Planner` days are numbers and the calendar is computed; a question is the set of
phrases its patterns find. In `Answering` the model is the environment: it may say
anything, nothing, or fail at any piece.

`Tokens` and `Uploads` have threads, files and a cache; a file's replacement, its `stat`
and its reading are different actions. In `Uploads` a file names its document or leaves that
to the stem of its name, so that two names may bring one document. In `Login` a token is
what its checks look at (algorithm, key, issuer, audience, end); the state and the code are
each read and deleted in two steps, and two callbacks of one login run side by side. The
settings (`Configs`) are fixed while the api runs. In `WikiClient` a crawl asks page after
page and calls about diagrams list, read and write, all charged to one account whose tokens
come back by the clock; `trace` and `log` are history: the crawl's requests with their
answers, and the changes of the page. `McpTools` has a wire that may lose an answer or
deliver the request late, and an assistant that repeats what it was told is retryable.

### Hosts

A script is a program counter and what it has in its variables; a death may end it
after any command, and the next run starts from what is on disk. `Deploy` numbers
commits, `Bundles` data versions and bundle numbers, `Backups` states of the database.
`CronStatus` runs on a calendar of small numbers (hours of 3 minutes, months of 3 days),
so that every field of a schedule wraps within the horizon. `AccessLog` is a thread of the
API beside the event loop: requests are numbered as they end, and each `get_nowait` of the
writer is a step, as is each transaction, which may fail before or after its commit.

## 3. Runs

| Run | Instance | Shows |
|---|---|---|
| `MapFaults` | page size 1, one failing search, one failing page, one deletion, one edit, real and dry runs, inventories | `LossesAccounted`: an edit is lost only for the three reasons `missed` records; `ArchivesOnlyGone` while the listing shifts |
| `MapSources` | two sources, an explicit page under no root, one tolerated error, one page failure, one crash, one ingest that raises; runs without ingest, of one root, of one source | `CommitCoversSeeds`; `PartialRunsKeepWindow` |
| `DecisionRace` | two decisions, two requests, one crash, one review that falls due, one scan | `NonceOnce`; `NeverEachOther` |
| `DecisionEvidence` | one decision, two requests, internal and external evidence, an edit, a scan | `VerdictsInLine`; `SnapshotsKept` |
| `Pipelines` | seven parts: `JobQueue` (two jobs, two workers, a death of each kind), `MapSync` (three pages, two edits, no faults), `IndexStore` (two ingests and an embedder, or one and two; a death), `DocsSync` (a daily run beside an inventory, or beside another daily run), `MapBackfill` (two calls, two faults), `WikiClient` (a crawl of two pages, two calls, edits, refusals), `Uploads` (two names, two texts, a fault or a restart) | `JobsInOrder`, `OneStrandedPerDeath`, `KeepsPromise` (refinement); `CursorsFollow`; `ChunksAgree`; `DocsInStep`; `FileIsTrue` |
| `Live` | five parts with fairness | `Converges`, `QueueLives`, `GraphCatchesUp`, `IndexSettles`, `Reconciles` |
| `Services` | `GraphSync` (two runs, one document, one edit, one fault), `TopicScan` (two scans, three topics), `FailureBuckets` (two requests, a death), `Synonyms` (command line and page), `SynonymCache`, `DocExpansion` (two sites), and enumerated inputs of the pure parts: the graph's functions over four documents, `BucketGaps` over four incidents, `Matching` over three buckets, and over five records of two source types | `GraphIsTrue`, `ProposalsFit`, `BucketsAgree`, `MiningIsTrue`, `ServedWithinTTL`, `RowsAreTrue`, `ReadsFit` |
| `Requests` | `DecisionStore` (two decisions, one request at a time, two edits, a review, a scan), `Search`, `Planner`, `Answering` over enumerated questions, `McpTools` (two calls sent twice), `Tokens` (pages, host scripts, requests), `Login` (two callbacks, a fault) | `SupersededLinked`, `MirrorAgrees`; `QueriesMeant`; `AnswersAreEarned`; `RepliesAreTrue`; `KeysAgree` |
| `Hosts` | `Deploy` (a broken commit, one with images and a migration), `Bundles`, `Replica`, `Backups`, `CronStatus`, `MapRegistry`, `Frames`, `AccessLog` (three requests, a queue of two, one fault) | `ReleasesHold`; `CopiesHold`; `RowsFollow`; `RowsKept` |
| `MapResume` (violation) | one ingest that raises | `NoEditSkipped` fails |
| `MapArchive` (violation) | one deletion, one inventory | `ArchivedStaysOut` fails |
| `DecisionScan` (violation) | two requests, one scan | `SupersededIsFinal` fails |

**Parts.** Five runs check several modules. Their MC module instantiates each module
over shared *slots* (`s1`, `s2`, ...), and `part`, fixed in the initial state, says which
module a behaviour is about; a slot a part does not use stays 0. `MCPipelines` EXTENDS the
queue, the index and the backfill, `MCServices` the graph batch and the synonym cache,
`MCRequests` the decisions, the tokens and the answers, and `MCHosts` the log of API calls, which keep their
own variables, so that the properties these runs check are the ones the theorems state. Nothing crosses
parts, so the state space is the sum of theirs and not the product. A property of the
union is the conjunction of the properties the modules state, under `part = ...`; its
comment names what each conjunct is about. Where a conjunct is an invariant inside
an action property it is primed (`I'`).

**Bounds.** Instances are small on purpose: the hazards need two pages of one root (an
offset to shift), a second root (a checkpoint to obey), a second source (a commit
beside a commit), two requests or runs (a race), two workers, two copies of a page.
Constants named `Max...` and `Budget` cap the events of the environment (edits, calls,
faults, time): one fault of each kind is enough for a loss to be attributed to it, two
edits for "edited, crawled, edited again", two faults in the backfill for "fails,
fails again in the retry". `Teams` and `Mix` choose which processes meet in one behaviour.
`MaxErrorPct` and `MaxErrorCount` are 0 except in `MapSources`, where one error is
tolerated. `Margin` is 0: a positive margin only moves the cursor back. Enumerated
inputs (`Questions`, `Inquiry`, `Says`, `Jobs`) are chosen at the boundaries: leap days and turns
of the year, equal scores at the edge of a page, a context that just does not fit.

**Deadlock** is checked where the environment has no end (`MapFaults`, `MapSources`, the
decisions, `Live`). In `Pipelines`, `Services`, `Requests` and `Hosts` a part ends when its
bounds are spent or its one question is answered, and the check is off.

**Symmetry** is declared for decisions, nonces, contents and requests in the decision
runs, and for processes that are interchangeable in every part in `Pipelines`, `Services` (with
the two contents of a document there) and `Hosts`: all properties there are safety. `Live` has none.

### Fairness

* Map: `WF(StartSync(FullSync))`, since cron starts a full run every day
  (`scripts/map_sync.sh`) and a run that finds the lock held is followed by another;
  `WF(Crawl)` and `WF(Settle)`, since the run is a sequential program whose requests
  time out. Faults have budgets, hence happen finitely often.
* Queue: `WF(Enqueue(j))`, a call that is not killed goes on; `WF(StartWorker)`, the
  container is `restart: unless-stopped`; `SF(Process(w))`, strong because a worker may be
  stopped between jobs again and again; `WF(Beat)`, the loop and the beater thread set
  the key every five seconds. No fairness is assumed of the HTTP call or of its
  handler; the first half of `QueueLives` has "calls end" as a premise (the code gives
  each call a time-out, the longest of a day), and the second half does without it.
* Graph: `WF` of the next step of a run that has started; `SF(ListAll)` and
  `SF(GetsGoing)`, since cron starts full runs again and again and in between others
  may hold the lock.
* Index: `WF` of each ingest and of each embedder: cron and the crawls start them daily.
* Documents: `WF` of the daily full run and of the weekly inventory.

## 4. Findings

Three runs end in a counterexample, and `PROJECT.json` quotes the line each
contradicts.

1. `MapResume`: after an ingest that raises, the checkpoints that stay say "done"
   for roots crawled at the *first* run's start; the next run skips them and
   commits its *own* start time. Pages of those roots edited in between are behind
   the cursor and not on disk.
2. `MapArchive`: an inventory archives the pages that are gone and then ingests the
   whole directory, their raw files included; `_upsert_document` makes them active
   again.
3. `DecisionScan`: the staleness scan reads confirmed decisions without a lock and
   writes by primary key; a decision superseded in between comes back as
   `needs_recheck` with `superseded_by` set.

### Divergences without a run of their own

Some are written as formulas in the modules (named in brackets); TLC refutes them,
but no run checks them. Others are cases that a property's premise or a history
variable admits.

*Map synchronisation, backfill, registry*

* The cause of `MapResume` has two more triggers. A page that fails leaves its root
  "done" (`confluence/map_sync.py:455`), so the retry that
  `docs/CONFLUENCE_SYNC.md:74` promises skips it: `PageFails` records it in `missed`, and
  `LossesAccounted` allows exactly that. A dry run writes checkpoints (`:1039` does not
  look at `dry_run`), which a later real run obeys; `docs/CONFLUENCE_SYNC.md:134` says a dry
  run may be repeated over the same range.
* The backfill writes its state file before it has the lock (`map_backfill.py:313`), so a
  second call replaces the record of the one that runs. A listing that failed is
  retried for its own page of results only: what comes after it is never listed, and `ok`
  can be true. A resumed run skips the ingest of a run that died in it. `ok` is true with
  sources given up after three attempts.
* A root added to a source that has a cursor is crawled for later changes only, until an
  inventory or a backfill. `sync_map` writes the whole column back and a root added
  meanwhile is lost, although the comment at `routers/confluence_map.py:262` says otherwise
  (`RootsAreKept`). A plan of `map_space_setup.py` is applied to rows that have changed
  since (`AppliedAlone`, against `:30`), and a page removed by it can come back
  (`RemovedStaysOut`, against `:22`). `seed_cursor` takes no lock.

*Documents, index, graph, frames*

* `IndexStore`: two ingests of one document at once leave two active generations of its
  chunks, since neither has seen the other's; the second embedder of one batch fails at
  the unique key and its job ends.
* `GraphSync`: after a full run that died half-way the status page reads "consistent"
  (`routers/graph.py:681`).
* `GraphRules`: the comment at `routers/graph.py:81` says that excluding a subtree does not
  block the nodes between two hops, since Neo4j has no ancestors to look at. It has: the
  projection writes `ancestor_ids`, and the query blocks them like pages and sources
  (`graph/neo4j_client.py:239`, the comment at `routers/graph.py:401`). The module and
  `ReadsFit` have the code's behaviour.
* `Frames`: two extractions of one ticket can mix two texts in a row under one hash
  (`FreshAlways`): the update names only the columns that differ. A sweep with `--limit`
  and `min_quality` never gets past the low-quality tickets at its head. Between the read
  and the write of `extract_citec_domains` a user's correction can be overwritten.
* `Synonyms`: an answer that is no JSON is checkpointed as one that found nothing, so a
  re-run with the same output stays partial for ever, against `synonyms/cli.py:287`
  (`RerunRepairs`). `SynonymCache`: a `reset_cache()` between the two looks at the tuple in
  `synonyms/runtime.py:45` raises in the search, which `:1` says is never broken (`Judge`).
  `DocExpansion`: a row that is outdated where it is exported counts as up
  to date where it is imported (`ImportsAreTrue`).

*Queue and decisions*

* The comment at `apps/worker/app/main.py:100` says the heartbeat is not refreshed during
  a job; the beater thread of `_process_one` refreshes it, and the second half of
  `QueueLives` depends on it.
* Two requests that synchronise one mirror in interleaved transactions can leave the
  older status: with two calls instead of one, `MirrorAgrees` fails.
* With three decisions a cycle of replacements can close, although `supersede` refuses a
  replacement that is superseded itself: its status is read without a lock
  (`decisions/service.py:496`), and requests that run at once can each have read it while
  the replacement was still in use. `NeverEachOther` therefore speaks of two decisions.
* Two decisions close one too after the race of `DecisionScan`. The first, superseded by
  the second and reopened by the scan, keeps its link. When one request supersedes it by
  the second again and another supersedes the second by it, the first of them writes
  the status only (`decisions/service.py:498`), checks no foreign key and commits without
  waiting; the second passes its own check. `NeverEachOther` excepts decisions that a scan
  has reopened, and is refuted in `DecisionRace` without that exception.
* A proposal that is retired between its insert and its evidence is deleted, since the
  evidence is refused and the row has no verdict; the `DecisionConflict` is caught by
  nobody and ends the scan with the rest of its topics. A scan that dies there leaves
  a proposal without evidence, and its key is taken for good (`TopicScan`, `Gate`, `Die`).
* `_repin` cannot pin a document that came back to a content it was pinned at before: the
  retracted row still takes the unique key, and "keep" fails until the document changes
  again (`VerdictFails`).
* `BucketGaps`: a customer with a group of its own who is also named in titles of the
  collective one gets two proposals under one key, the second of which is skipped as
  already there (`KeysApart` excepts it). Keys of clusters number them by size
  (`scan.py:525`), so they name other clusters after the next incident. The status "FRB
  completed" asks for the cause (`scan.py:308`) but is not among those in which an answer
  counts (`:91`), so that `AnswerIsHeard` excepts it.
* `Matching`: the note at `failure_buckets/match.py:35`, that at the confidence of an
  unverified bucket one hit is advised against, is not so for buckets of up to three
  signals; words of search synonyms and of approved groups count as the same too,
  against `failure_buckets/terms.py:3`.
* `Matching`, `Retrieve`: the place of a question is appended to its words
  (`si/retrieve.py:166`), so a title that has all the other words no longer holds them all
  and loses the boost of 1.5. A case from that very place can so fall behind one whose
  place is unknown, against the comment at `:27` (a known match is favoured, an unknown
  place left alone).
* The roll-back of a proposal clears links to it: with two requests a superseded decision
  can be left without a successor, which is why `SupersededLinked` is checked for requests
  one after the other.

*Search, plans, answers, tools*

* The merge of rewritten searches counts a duplicate once per rewrite. A page is empty
  when its first `top_k` hits are all unsupported vector hits, although a full-text hit
  lies just behind them.
* A broken span ("from 29 to 30 February") is not to collapse to a relative word of the same
  sentence (`query/time_range.py:165`). `detect_analytics_intent` reads the question again:
  an aggregate with the word for recent is filtered by the last 90 days
  (`query/analytics_intent.py:198`), one with "this year" by the calendar year, and one
  that writes a year, in the span or beside it, by that year
  (`NoWordOfABrokenSpan`). So is a single date: it stands for its whole year. The answer says
  all the same that no date filter was applied (`planner.py:477`,
  `UnrecognizedUnfiltered`). A span from a day to a whole month is taken for the month
  alone, and not flagged. `RangeIsMeant` allows the year, which the question names, and
  excepts the two words and the last case (`Salvaged`).
* A range that was parsed is dropped without a word by the handlers of capacity, SI,
  prevention, exhaustive lists, checklists and plain search (`RangeReachesHandler`). The
  Korean word for checklist contains the word for list, so a dated question about a
  checklist becomes a list of tickets.
* Transport errors of OpenRouter (`httpx`) are not turned into `LLMChatError`, so no
  fallback answer is made, while Fabrix's are. A text that declines and still cites reads
  as medium or strong. After a broken stream the final citations are all packed sources,
  not the ones cited (`CitesAreTheModels`, `rag/pipeline.py:557` against `:467`).
* `kb_search` with `use_v1` drops the category silently (`NoFilterDropped`); an API that is
  down or answers 404 is told as `invalid_request` by three tools (`InvalidIsRefused`,
  `mcp-server/server.py:524`, `:584`, `:610`).
* The host script `issue_system_token.py` takes no lock: two runs lose one's token, and a
  name can be in both files. A rotation that dies between the write and the reply loses
  the token. An administrator may rotate his own token into fewer roles, though he may
  not revoke it.
* Two uploads of one name are ingested in either order; a restart leaves
  job rows running for ever; a job row that fails to commit removes the file an earlier
  upload of that name still needs (`external_compat.py:276`), and one that writes at the
  moment then writes for nobody; two that write at once can leave a mixture.

* `Login`: the docstring of `_audience_kw` says that `*' skips the check of the audience
  (`auth/oidc.py`), but it then names none, and PyJWT refuses a token with an audience where
  none is expected. `AUTH_MODE=false` or `0` opens the gates (`auth/deps.py`) and is told as
  disabled by the status, while `resolve_principal` does not count it as off and gives no
  administrator. A callback sends the browser on even when no token of it is accepted
  (`SignedIn` speaks of those that are refused).
* `WikiClient`: `Retry-After` is obeyed without a limit, whatever the cap on the back-off. A
  put overwrites a version nobody looked at, so that of two edits one is lost. Titles with
  an extension are matched as written, bare ones against several extensions. Of a page with
  more attachments than one listing returns a put may be refused as a duplicate and a get
  find nothing (`Cut`).

*Hosts*

* `Deploy`: on its early exits the script says the `.gitignore` stash was restored when
  it was not; `restart_api_if_idle.sh` reads exit code 2 of the busy check as idle, against
  its header; a run that ends between pull and restart leaves the tree ahead, and later
  runs say "already up to date"; a roll-back past a migration fails, since alembic does
  not know the newer revision; after a roll-back `.build_sha` names the failed commit
  (`ShaNamesApi`, against `docs/AI_AGENT_GUIDE.md:493`).
* `Bundles`: numbers are written before a bundle is built, and a truncated archive of a
  run that died is reused by the next; `out.sh --code` after an edit packs nothing new,
  against `out.sh:6`; `find_latest` takes the highest number found, whatever was
  deployed; `archive_bundle` may delete the bundle just applied, against `in.sh:14`; a later
  `in.sh` starts the api over a half-restored schema; a stale `.pending_restore` wins over a
  newer dump; a restore asked for is skipped when nothing is left to deploy (`RestoreAsked`,
  `docs/DEPLOY.md:195` against `in.sh:263`).
* `Replica`: the hash includes the number each database gives, so rows of
  `document_entities` and lexicon are sent with every pull, against `sync_manifest.sh:12`;
  `prod_pull_apply.sh` stops no service, against `docs/DEPLOY.md:107`; deletions never
  arrive by incremental pulls; a failed backup is passed over with a warning; an apply
  retires chunks of documents for which its bundle brings none, and search loses them
  until a later pull (`Replaced`, `sync_apply.sh:75` against `:79`).
* `Backups`: two processes of neighbouring minutes serve one request twice or bring it
  back after it was answered (`ServedOnce`, `backup_manager.py:252`); a killed run leaves the
  `last_run` of the run before.
* `CronStatus`: `*/n` in both day fields gives a false "missed"; a job whose period is
  within the grace is never "missed"; a log touched in the minute before counts.
* `AccessLog`: a request whose handler raises leaves no row in either log, since both
  middlewares write after `call_next`, against "one row per /v1 request" at
  `db/models.py:511` (the reports count answers of 500 and above, which a handler can only
  return); rows of a failed insert are given up, and whether they are in the table is not
  known (`InsertFails`); `created_at` is the time of the insert, up to a flush later than the call.

## 5. Proofs

All proofs are checked by TLAPS (SMT, Zenon, LS4) without unproved steps. They
assume what the modules' ASSUME statements say: finite sets of pages and jobs,
functions with the domains they are given, page ids natural numbers, positive page
size, budgets natural numbers, documents and external pages apart, documents and failure
buckets of the graph apart, times and the TTL natural numbers, documents of the index
and chunk ids natural numbers, no chunk id 0; requests, administrators and scripts apart, a
natural number of tokens; texts of the model with finite sets of citations, a natural number
of pieces of a stream. Nothing bounds the number of sources, roots, pages, jobs, workers,
decisions, requests, documents, ingests, embedders, tokens, names, edits or faults.

* `MapSyncProofs!TypeCorrect`: `Spec => []TypeOK`. `TypeOK` is inductive as it
  stands, because it says besides the types that a run between the start and the
  judgement of a source names that source, and one that pages names its root. The
  proof has one lemma for the crawl and one for what follows it.
* `MapSyncProofs!PartialRunsLeaveWindow`: partial runs and inventories never move
  cursors or checkpoints. Checkpoints follow from the guard of `SaveCheckpoint`. For
  cursors the guard is far from the write: `Judge` stages, `AdvanceCursor` writes
  after ingest and embedding. The inductive invariant `StagedByFullSync` carries it
  over: whenever something is staged or being cleared, the run is a full one.
* `MapSyncProofs!NoOtherLoss`: `Spec => []LossesAccounted`, the promise of the crawl: an edit
  the cursor has passed is on disk, or its fetch failed, or a deletion shifted the page
  out of the window, or a resumed cycle took a checkpoint for it. Alone it says
  nothing of a run in the middle. `LossInv` follows what is owed (`Owed(p)`: live, under
  a root, not on disk, not in `missed`) through the run: its edit is after the cursor
  (`AfterCursor`), after the cycle began if its root is done (`DoneIsDone`), and, if its
  root has an offset, at or beyond that rank of the listing (`OffsetBehind`); in the
  root in hand it is at or beyond the offset reached, in the page just read, or after
  the cycle began (`Position`); roots a run left behind without error are done, and so
  are all roots of what is staged (`CrawlAccounts`); clocks do not run ahead
  (`ClockAhead`). Offsets are ranks: the lemmas on `Rank` and `Window` say that a window
  takes every page from its start up to its size, and that a shorter one ends the
  listing. An edit that moves no owed page before an offset, and a deletion that does
  and records it, are the two steps of the wiki that need them.
* `MapSyncProofs!CommitsSeeAllSeeds`: `Spec => CommitCoversSeeds`. `SeedsAccounted`: explicit
  pages of the source in hand are covered or still to be fetched, those of staged
  sources are covered, and what is covered stays so until the commit.
* `MapSyncProofs!ArchivesGone`: `Spec => ArchivesOnlyGone`. `InventorySees`: in an inventory
  without error a page it has not written is gone, recorded as shifted, or still ahead
  of it, in a root to come or at or beyond the offset of the one in hand.
* `MapSyncProofs!CommitsComeAfter`: `Spec => CommitAfterIngest`, the half of `CursorsFollow` about
  the ingest: a run that ingests moves a cursor only when every file on disk is in
  `documents` as it is, unless some file failed in an ingest. `IngestFirst` carries it from
  the ingest to the commit: a run past its ingest holds the lock and crawls no more, and an
  inventory, which may archive, never comes to where commits begin.
* `BackfillProofs!BackfillTypes`, `BackfillHasOneHolder`, `BackfillFileIsTrue`: `BackfillSpec => []Types`,
  `[]OneHolder`, `[]FileIsTrue`. The file says what some call knew when it wrote, and the
  call that writes need not be the one that crawls: a second call writes the leftovers it
  had loaded before it finds the lock taken. `OneHolder` (one call has the lock, and
  exactly those have it that stand where it is held) is proved with the types. `Kept`
  follows what crawled sources lack: it is behind a failed listing, on the list of the
  call that holds the lock, or in the file; what a call that waits for the lock will write
  names nothing else; and what the holder writes last is its list. `Ingested` follows what is
  on disk: it has its document from the ingest of the holder on, and the file says so only
  then, also while another call crawls again. Which lists hold which pages is in the lemmas
  on sets of failures; recording a source and each retry take a page from one of
  them and put it on disk, back, or behind a listing.
* `JobQueueProofs!TypeCorrect`, `InOrder`: `Spec => []JobsInOrder`. The invariant is
  the conjunction of `OnePlace` (a job is with its caller, once in the list, or with
  one worker), `NotYetRun`, `Undecided` and `Truthful`. None is inductive alone:
  that a handler has not run before the post needs that the job is in one place,
  and that a verdict is final needs that no place holds a decided job. The lemmas
  `PushedIsQueued` and `PoppedIsGone` say what RPUSH and BLPOP do to the list.
* `JobQueueProofs!Implements`: `Spec => KeepsPromise`, the refinement of
  `OnceOnlyJobs`, from `InOrder`: every step is a step of the promise or a stutter.
* `DecisionProofs!TypeCorrect`: `Spec => []TypeOK`, together with the types of what
  each request holds between its reads and its commit (`CallOK`), without which
  `TypeOK` is not inductive.
* `DecisionProofs!NoncesBackOne`, `OneLine`, `EvidenceStays`: `Spec => []NonceOnce`,
  `[]VerdictsInLine`, `[]SnapshotsKept`. None is inductive: a commit writes what was
  read some steps earlier. The invariant adds `Locks` (a decision row is in one hand),
  `InHand` (the nonce a request read is still open and for its decision, the verdict
  it replaces still the current one, its evidence still on record) and `NoncesSpent`
  (recorded nonces are used). Most steps are `Quiet` and keep it by one lemma; the
  others are the roll-back of a proposal, which needs that RESTRICT spares decisions
  with verdicts, issuing and expiring a nonce, and taking a row or committing a verdict.

* `DecisionProofs!OneReplacesTheOther`: `Spec => []NeverEachOther`. The invariant `Successors`
  says that the replacement a request has in hand has been replaced by the decision
  it is about to put out of use only if a scan reopened it: the request holds that
  decision's row lock, and the foreign key of the other request's write needs a share of
  the same row, so the second one waits, unless the link is an old one. `Traced` says
  where an old link comes from: a decision in use with a link was reopened by a scan. A
  verdict must not be what puts it back in use, which is `InUse`, kept by the row locks
  (`SafeInv`). Most steps are `Calm`: they neither link nor take a replacement in hand.
* `DecisionProofs!LinkedOneAtATime`: `Spec => []SupersededLinked` if at most one request is
  in progress. That hypothesis is needed: a scan that read the statuses before a
  supersede, or a proposal rolled back after another decision was superseded by it, breaks
  the link (run `DecisionScan`). `SerialInv` says that what the request found when it
  began still holds (`Found`) and that a decision without a row has no verdicts and
  replaces none (`Rooted`).
* `DecisionProofs!MirrorOneAtATime`: `Spec => []MirrorAgrees`, for one request at a time and no
  deaths, since a request that dies between its commit and its mirror leaves the
  mirror behind. `Behind` says what the mirror may show wrongly: the decisions the request
  has still to synchronise and the one in its hands, whose draft is what the row says.
* `JobQueueProofs!StrandedByDeaths`: `Spec => []OneStrandedPerDeath`. Not inductive alone; from
  `JobsInOrder` it follows that a step strands nothing, or is a death and strands one job
  (`StrandedStep`), and then the library's facts on cardinalities do the counting.

* `IndexProofs!IndexTypes`, `IndexAgrees`: `IndexSpec => []IndexTypeOK`, `IndexSpec => []ChunksAgree`.
  What a job writes it read steps earlier, without a lock, so the invariant says of
  everything in a job's hands how it stands to the tables now: the chunks an ingest
  will retire are all the active ones its document has, unless it is `stale` (`JobOK`,
  and `DraftOK` for what is flushed and not committed); a document is in one
  uncommitted transaction at most (`WritersApart`, from the row lock and the unique key);
  an id given to an insert is free, and in nobody's batch (`IdsApart`); what an embedder
  holds is active, or retired and recorded as `late`. The commit is the step that
  needs all of them.

* `GraphProofs!GraphAgrees`: `Spec => []GraphIsTrue`. A mark says that the graph holds a
  document as it is, and it is written in another database, some steps after the merge
  it speaks of. `Synced` says that a mark of a generation the store still has is true,
  or its writer stands between its merge and its mark; `Merged` that what a run with the
  lock has merged and not yet marked is in the store as it read it, unless a stray merged
  it too or the store was replaced; `LockOK` that whoever merged without the lock is recorded as a stray,
  since its merge may undo a newer one; `RowsOK` that the row of a run says how far it
  came; `DealtWith` that what a run with the lock and without errors is past is fresh
  or changed since it began. A replaced store puts every generation in use out of
  use, which is why the marks that name it count for nothing.
* `ServiceProofs!CacheServes`: `CacheSpec => []ServedWithinTTL`. `Timely`: who has read the
  groups has everything approved before it asked the clock, and so has the cache by
  its own time, unless a thread that put the old groups there is still reloading, or
  failed. It needs no lock, and no order among the threads that reload.
* `ServiceProofs!EveryCallKept`: `LogSpec => []RowsKept`. What the writer holds was taken before
  what still waits, and the table has what was taken before both (`Flows`); without it a step of
  the writer could put an earlier call behind a later one. `PlacesNamed` turns the
  six places of `InOnePlace` into a list the provers can split.

* `ServiceProofs!KeysStayTrue`: `TokensSpec => []KeysAgree`, from `KeyInv`. A request is served
  from a table somebody else may have built under an older key, out of two files that were
  read one after the other while either could change, so `AnswersCurrent` says nothing of
  the table itself. The invariant splits the tokens: those of the page (`Paged`: in its
  file, or ended by it) are never in `config/auth.json` (`PagedApart`, since a token is
  made once: `Made`), so each verdict hangs on one file only (`JudgedByOne`). `KnownRight`
  and `HalfRight` say what a cached and a half-built table still say truly of either
  file, and `AskedRight` that for a request which could be served from the table, by its
  half of the key, the table's verdict was true since the request came. Replacing a file
  keeps all of it (`RequestsWatch`), because versions only grow and a token that becomes
  the page's was nobody's before. `HomeBefore` covers, beside `OneHome`, the name whose
  token the page is about to write.

* `ServiceProofs!TrustStays`: `AnswersSpec => []AnswersAreEarned`. The level is computed from the
  answer, and the property speaks of what the model wrote. `Kept` connects them: up to `Close`
  the answer is the model's text, and what `Close` adds brings no citation, but to a stream
  that had none (the exception in `TrustIsEarned`, which is `CitesAreTheModels` failing). `Unsaid`
  says that nothing has been claimed before the end, and `TimesAsked` bounds the calls for the
  types. `LevelTakes` is `assess_trust` read backwards: what each level takes of the evidence and
  of the search. The cited sources are finite, so that their number means something.

Every conjunct of these invariants was checked by TLC on the runs' instances first.

Only model-checked: all liveness, since TLAPS cannot reason about fairness through
ENABLED here; the half of `CursorsFollow` that says nothing is skipped when nothing fails
(`NoOtherLoss` says what may be skipped, and why, in every run); the conjunctions
`ReadsFit`, `QueriesMeant` (with `DecisionFirst`, which rests on sorting) and `RepliesAreTrue`,
whose parts are mostly what enumerated inputs yield by folds, orders and cardinalities;
`DocsInStep`; and everything the other modules state. Out of reach altogether: induction over
recursively defined data, hence what a recursive operator computes for every input.

## 6. Plan

1. **Proofs for the smaller modules**: `RequestsKept` and `DoneIsFresh` of `Backups`, the
   conjuncts of `RepliesAreTrue` about `Login`.
2. **Larger compositions**: an ingest of `IndexStore` inside the run of `MapSync`; uploads and
   crawls over one set of documents.

## 7. Not modelled

* Analytics, capacity, tickets, dashboards and the reports of the logs only read; seeds, lexicon, entities and taxonomy are idempotent loaders of static data;
  evaluation harnesses are offline measurements; the web pages are static. The root
  audit reads only.
* Which route asks for which roles (`Login` has the gate for any set of them), logout and
  the profile page.
* Within components: the texts that patterns and detectors look for, prompts, snippets,
  formatting and clamps of the tools,
  `pick_incidents` and the scores of `rules.py`, `--attach-git`, `--code-ver`, `--data-ver`,
  the question of `git_pull_deploy.sh` when a graph run holds its lock (a no there ends the
  script like any death between pull and restart), a stop of the containers that fails in
  `in.sh`, which goes on,
  the progress record in Redis, the loss of the session lock while a map crawl goes
  on (`GraphSync` has a lock of the same kind and loses it), `verify` and restore of
  backups, `AUTH_TOKENS_JSON`. `PROJECT.json` says it component by component.
* What PostgreSQL's full text and vector distances match, and what models answer, is the
  environment: the modules take any of a small set of rankings and texts.
