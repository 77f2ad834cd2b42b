# PG Atlas backend: formal models

PG Atlas keeps a dependency graph of open-source repositories in PostgreSQL.
It is fed by SBOMs that CI workflows submit over HTTP, by crawlers of package
registries and of GitHub, and by git logs; metrics are computed from the graph.
The long-running work is done by Procrastinate jobs, whose queue is a table of
the same database.

This directory holds TLA+ models of that code, the TLC configurations that
check them on small instances, and TLAPS proofs for all instances.

## 1. Inventory

| Component | State | Operations | Interacts with | What is hard | What makes it correct |
|---|---|---|---|---|---|
| SBOM request handler (`ingestion/persist.py`, `queue.py`) | `sbom_submissions` | validate, deduplicate, store, commit pending, defer, mark failed | artifact store, queue | several transactions per request, the defer is not atomic with the commit, the dedupe query races | a queued submission is processed or failed, a refused one is settled, a skipped one is in the graph |
| SBOM worker task (`procrastinate/tasks.py`, `ingestion/persist.py`) | `depends_on`, `sbom_submissions.status` | load, read artifact, replace edges, mark failed, chain | queue, upserts | four concurrent slots, READ COMMITTED, chaining replaces swallowed defers | edges are those of one document, status agrees with the graph, no lost wake-up |
| Procrastinate queue (`versions/…_procrastinate_schema.py`) | jobs | defer with lock, fetch, finish, stalled to failed | all tasks | the queueing lock covers `todo` only | a job names a committed row |
| SBOM reprocessing seed | none | select failed rows, defer | queue | shares locks with fresh submissions | recovers without disturbing fresh rows |
| GitHub dependents crawler (`crawlers/github_dependents.py`) | runs, observations | start run, collect, apply under advisory lock, reconcile | GitHub, vertices | long HTTP phase between transactions, lost commit acknowledgements, crashes | the live view is that of the runs applied in order, no applied run is called failed |
| Vertex and edge upserts (`procrastinate/upserts.py`, `db_models/vertex_ops.py`) | vertices, edges | upsert, promote, absorb | SBOM worker, crawlers | raw SQL over rows others hold, lock order | no dangling or self edges, verified edges keep their confidence |
| Bootstrap tasks (`sync_opengrants`, `process_project`, `crawl_github_repo`) | projects, repos | fan-out of jobs | queue, GitHub, deps.dev | partial fan-out, retries | each project and repository is visited |
| Package dependency crawl (`crawl_package_deps`) | vertices, edges | upsert requirements, recurse | deps.dev, queue | recursion over cyclic data without visited set | terminates, every reachable requirement of a project is visited |
| Registry crawlers (`crawlers/base.py` and one module per registry) | releases, metadata, reverse edges | fetch with retry, persist | registries | read-modify-write of JSON metadata, retry limits | no update lost, retries bounded |
| Git log pipeline (`gitlog/runtime.py`, `persist.py`) | contributors, contributions, artifacts | clone, parse, persist, audit, mark private | git, artifact store | several commits per repository, batch ends last | one audit per attempt, statistics replaced as a whole |
| Git log seeding (`procrastinate/seed_gitlog.py`) | ordinals of artifacts | choose due repositories, defer batches | queue | ordinal derived from recorded rows | every dormant repository becomes due again |
| Metrics (`metrics/`) | computed columns | active subgraph, criticality, adoption, pony factor | graph | numeric boundaries, cycles | agree with their reference definitions |
| Releases merge (`db_models/release.py`) | JSON lists | merge | crawlers | ordering, duplicates | idempotent, keeps the newest |
| Artifact store (`storage/artifacts.py`) | files | store by hash, read | SBOM, git log | one temporary name per hash | content matches hash |
| SPDX parsing (`ingestion/spdx.py`) | none | unwrap, hash, relations, roots | SBOM handler and worker | equal hash, different order and wrapping | what is applied is what was submitted |
| OIDC, read-only routers, generated deps.dev client, migrations | none of interest | | | | out of scope (see 12) |

The hazards of this code, each at its line, are the `hazards` of `PROJECT.json`.

## 2. Modules and plan

| Component | Modules | Composed of |
|---|---|---|
| SBOM requests, jobs, queue, reprocessing seed | `SbomPipeline`, abstract `SbomLedger`, `MCSbomPipeline`, `SbomPipelineProofs` | refines `SbomLedger` |
| GitHub dependents | `GithubDependents`, abstract `DependentsView`, `DependentsWalk`, `MCGithubDependents`, `GithubDependentsProofs` | refines `DependentsView`; its snapshots are collected by `DependentsWalk` |
| Graph under concurrent writers | `VertexGraph`, `Spdx`, `MCVertexGraph`, `VertexGraphProofs`, `GraphJobProofs` | its SBOM jobs read documents through `Spdx` |
| Bootstrap and package crawl | `PackageCrawl`, `OpenGrants`, `Discovery`, `MCPackageCrawl`, `PackageCrawlProofs` | its jobs find projects through `OpenGrants`, packages through `Discovery` |
| Git log | `GitLog`, `GitLogParser`, `MCGitLog`, `GitLogProofs` | its jobs read logs through `GitLogParser` |
| Registries and metrics | `RegistryCrawl`, `RegistryClients`, `Releases`, `Metrics`, `MCRegistryCrawl`, `RegistryCrawlProofs` | its jobs fetch through `RegistryClients`, merge with `Releases`, end in `Metrics` |

The modules of one row share state; the rows meet in PostgreSQL only. What one
row leaves to another is nondeterministic there: `PackageCrawl` takes the
registries' edges as one step (`CrawlRegistry`), `GitLog` the dates that crawls
wrote as any of `Dates`, `VertexGraph` any of the tasks of a scenario.

The plan is carried out: every safety property the passing runs check is proved
(section 11). Not planned are the metadata and descriptions of projects, version
ranges, the rate limiter and the reads of the API in several steps (section 12).

`ListProofs` holds what several proofs rest on: numbers, finite sets, lists of
their elements, and folds.

No module uses RECURSIVE operators, so that each can be proved about.

## 3. SBOM ingestion: SbomPipeline

### State and actions

A request writes at most one row of `sbom_submissions`, so `status[q]` is the
row of request `q`. `todo[r]` is the job in status `todo` holding the queueing
lock `sbom:<r>`, `job[w]` the job in status `doing` on slot `w`. `edges[r]` are
the committed `depends_on` rows that leave the repository; `applied[r]` is
history. `at` is the rank of `submitted_at`, which is `now()` of the
transaction, thus its start.

| Actions | Code |
|---|---|
| RejectInvalid, CheckExisting, InsertDuplicate, CommitPending, AdmissionRaises, DeferProcessing, DeferRaises, RejectUnqueued | `handle_sbom_submission`, its returns and handlers in order |
| DeferWithLock | `defer_with_lock`; `AlreadyEnqueued` is swallowed |
| Fetch, Release | `procrastinate_fetch_job_v2`, `procrastinate_finish_job_v1` |
| Load, ReadFails, DeleteRootEdges, CommitGraph, ApplyRaises, MarkFailed | `parse_sbom_and_persist_graph`, `_replace_root_depends_on_edges`, `_mark_submission_failed` |
| ChainSelect, ChainDefer | the tail of `process_sbom_submission` |
| SeedSelect, SeedDefer | `seed_reprocess_failed_sboms` |
| RequestLost, JobLost, DeferAckLost | death of the web process or worker, lost acknowledgement of the defer |

A transaction is one action where no other session can tell the difference.
The replacement of the root edges is two: at READ COMMITTED the DELETE removes
what was committed when it started (`snap`), so what another job commits
between it and the INSERTs survives (`Unseen`), and an INSERT that meets such
an edge raises. Nothing serialises two such transactions: a vertex upsert whose
attributes do not change writes no row, hence takes no lock that lasts.

Abstracted: a document is a model value with a set of root dependencies (section 5
opens it up); validity is `Malformed` (an invalid one whose artifact cannot be stored is
answered with an error and leaves no row), a missing artifact `Losable`. The
fallback without a database, logging, response bodies and nested edges are left
out. Dependencies
are fixed per document, which is what the semantic hash identifies.

### Specifications

`ServeSpec` is the deployment as scheduled today (the seed step is commented
out in `.github/workflows/sbom-queue.yml`). `SeedSpec` adds the seed, `Spec`
adds crashes and lost acknowledgements. `FairServeSpec` adds fairness: a
handler that began and a slot that holds a job run to their end (there are no
unbounded waits in them), strongly for `Fetch` of each repository because jobs
are fetched oldest first and a lock admits one `todo` job. Fairness is only
assumed without crashes: a job killed while `doing` is never retried.

### Abstract specification

`SbomLedger` has rows, edges and applied documents and no jobs, locks or
transactions. With one worker slot the pipeline implements it under every
fault (`ImplementsLedger`, the identity on the three variables, every other step
being a stutter). With two slots it does not: `sbom_mixed_edges` shows why.

## 4. GitHub dependents: GithubDependents

### State and actions

An attempt is one execution of `crawl_github_dependents`. `run[a]` is the
committed status of its row in the runs table and `id[a]` its id;
`seenBy`, `retiredBy` and `packages` are the columns `last_seen_run_id`,
`retired_by_run_id` (set together with `retired_at`) and `package_ids` of the
observations of a source. `holder[s]` is the holder of the advisory lock of
the source. `phase[a]` is what the process knows, which may differ from what
the server did: `sent[a]` is a transaction whose COMMIT the server has yet to
decide on. The snapshot of an applied run stays in `snap` as history; no guard
of the crawl reads it after the commit.

| Actions | Code |
|---|---|
| ResolveFails, StartRun | `_process_package` up to the commit of the run row, which may be durable and unacknowledged |
| Collect | `collect_snapshot`, any member of `Snapshots`, each collected by DependentsWalk |
| AcquireLock, FindStale, SendSuperseded, SendApplied | `_apply_snapshot` and `_finish_run` |
| Decide, Abort | PostgreSQL commits or rolls back what it was sent; the effect of the statements (upsert, retirement, status) is stated in `Decide`, because nobody reads or writes those rows between them and the COMMIT while the lock is held |
| Acknowledged, CommitRaises, Raise | the three ways out of the `try` block; a rollback that raises itself leaves the transaction and its lock to the server (`sent` is `left`), which aborts it when it notices |
| Reconcile, ReconcileRaises | `_reconcile_failed_run`; its UPDATE waits for the transaction in doubt, since that one holds the run row |
| Crash | death of the worker, also with a COMMIT under way |

An attempt ends `processed` or `failed` as the task reports it, or `lost`
when it cannot know what became of its run (it could not start or reconcile
it, or was killed); a lost attempt may leave its row `running`, which the
code calls an abandoned run.

The dependents of a source are identified up to letter case (`key`), and the
source is resolved the same way, so one lock serves one source. Left out: the
counts themselves, timestamps, and `resolved_repo_id`, which is only ever
filled in.

### The walk: DependentsWalk

What a walk collects is a function of the site it meets, `CollectSnapshot`:
one listing per package of the menu, the largest first, page after page until
there is no cursor, a cursor comes back, or a cap of pages, entries or packages
is met; 403 answers are waited for within a budget. The builder keeps what was
found, whether the listing may be called complete and whether the counts were
read. The three snapshots of the run are what three sites give (the assumption
`WalksAreCollected`). `CompleteIsWhole` judges some 27,000 sites with up to
three pages, rows and counts that do not parse, cursors that lead back: a
complete snapshot holds everything displayed, because it retires what it lacks.
The sites are what GitHub is taken to serve (`SitesFit`).
Regular expressions, fingerprints and counters are left out.

### The answer of the API

`ActiveObservations` and `ListingRuns` are the queries of
`get_repo_github_dependents`, taken at once; `DisplayIsCurrent` and the abstract
view speak of them. The endpoint issues them one after the other, which is a
hazard without a property.

### Abstract specification

`DependentsView` knows neither locks nor transactions: a source has the
run ids that took effect, the dependents on display and their packages, and its only
step shows a whole snapshot with an id above all earlier ones. `ImplementsView`
maps `shown` to the ids of applied runs and `live` to the rows that are
not retired; every step but the commit of an applied run is a stutter.

### Fairness

`FairSpec` has one weak fairness condition per attempt: a running attempt goes
on (requests have timeouts, pages and entries have caps, waits are bounded),
the server decides on what it was sent or left with, and a client whose COMMIT was rolled
back is told so. The attempt that waits for the lock is not required to win it,
only to take it when it is free: the other holders are finitely many. Nothing
is assumed of `Raise`, `Crash`, `ReconcileRaises` or of lost
acknowledgements, which may happen any time or never.

## 5. The graph under concurrent writers: VertexGraph

### State and actions

`SbomPipeline` treats the change of the graph by a job as one or two steps;
this module opens it up. A job is one SBOM, one crawl of a package's
requirements or one crawl of a GitHub repository (`task`, one of the
`Scenarios`), and several run at once. `vertices` and `edges` are the committed
rows, each a `Repo` or an `ExternalRepo`; `newV[j]` and `newE[j]` are what the
open transaction of job `j` wrote and so also its row locks; `shared[j]` are the
vertices its new edges refer to, which PostgreSQL locks FOR KEY SHARE. A statement fixes the rows it visits when it starts (`rows`) and
then visits them one at a time, waiting where another transaction wrote
(`Holders`). A scan that waited skips a row that was deleted and follows one
that was moved (`Dropped`, `Followed`).

| Actions | Code |
|---|---|
| FindRepo, InsertVertex, InsertVertexRaises | `_upsert_repo`, start of `crawl_package_deps`, insertions of all upserts |
| UpsertRepo, Promote, UpdateRepo | `upsert_repo`, `_promote_external_to_repo` |
| VisitPackage, UpdatePackage | `_upsert_sbom_vertices`, the loop of `crawl_package_deps`, `upsert_external_repo`, `find_repo_by_release_purl` |
| DeleteRootEdges, InsertRootEdges, UpsertNestedEdges, DeleteRow, WriteRow | `_plan_sbom_edges`, `_replace_root_depends_on_edges`, `_upsert_depends_on_edges`, `upsert_depends_on` |
| LookupExternal, NextStatement, MoveRow, DeleteStatement, DeleteExternal | `absorb_external_repo`, statement by statement |
| Commit, EndCrawl | ends of transactions; a repository crawl commits before each absorption and after it |
| ResolveDeadlock, and the failing branches of others | a statement raises: the transaction is rolled back and the job fails, there are no retries |

Assumed of PostgreSQL: READ COMMITTED, unique and foreign keys, and that a
statement visits rows in key order (root edges: in the order of the document,
as the ORM inserts them). The DELETEs of the child and of the base row of an
absorbed vertex are one step. `version` stands for all attributes an upsert
writes when they differ. Version ranges and the other attributes are left out.
Requirements and published packages are package URLs and never name a repository
(`PackageNames`), so the self-recursion check of `crawl_package_deps`, which
compares the two, never holds and is not modelled; nor is the refusal of
`upsert_external_repo` in a crawl. A package that a repository publishes is
taken to be one deps.dev knows, so that it is in `releases` and absorbed alike.

### The documents: Spdx

An SBOM job starts from the artifact its submission stored. `Spdx` translates
`ingestion/spdx.py` and the parts of `ingestion/persist.py` that turn a
document into names: the envelope, the semantic hash, dependency relationships
and roots, package URLs with their fallback, versions, relations. The object
store returns, for equal hashes, what was stored last (`Artifact`), so the
document of a job may be another submission's: ordered differently, wrapped,
stamped at another time. The verdict of spdx-tools is the field `valid`.
`SbomIsApplied` compares the committed graph with the submitted document, not
with the one that was read. The order of the packages does decide which version
of a twice-listed package is kept, and the hash ignores it; no property claims
otherwise. (The docstring of `routers/ingestion.py` calls the hash that of the
raw payload.)

### Properties

`OnlyRootsDeadlock` is what the sorting in `_upsert_sbom_vertices` and
`_upsert_depends_on_edges` buys: packages and nested edges never close a
circle of SBOM jobs. It does not exclude deadlocks, because the rows of the
submitting repository are taken first; the instance has them. `SbomIsApplied`
says that a job that commits leaves every declared relation in the graph,
between vertices of the declared names, although names were resolved in earlier
statements. `AbsorptionContracts`, `VerifiedEdgesStay` and `ReposStay` compare
the graph before and after any commit. `JobsEnd` is liveness.

An external vertex disappears only when the crawl of the Repo that publishes it
commits. `AbsorptionContracts` compares the edges with those of the graph in
which the two are one (`TakenOver`), and takes two things as they are. A loop at
the Repo may be left (`graph_self_loop` violates `NoSelfLoops`), as may one that
the absorption of another of its packages has left before. And an edge to
the package may be dropped as a duplicate of one to the Repo that an SBOM job has
deleted and not yet committed, as happens in the last of the scenarios;
that this is the only loss is part of the property. Of two edges that become one
the Repo's survives, also when the other was verified.

### Fairness

A job whose next step is enabled takes it (statements return), and PostgreSQL
rolls back a member of a circle that persists. A job that waits for a lock is
not enabled, and each lock is held until the holder ends its transaction.

## 6. The bootstrap: PackageCrawl

### State and actions

`todo[q]` is the bag of jobs of a queue, `slots[s]` what a slot of a running
worker does, `worker[q]` and `round[q]` the drain rounds of `process_queue`;
`stage` and `week` are runs of `.github/workflows/bootstrap.yml`. `projects`,
`repos`, `externals` and `edges` are committed rows. `applied`, `abandoned` and
`settled` are history; `abandoned` are the packages that a killed crawl had
yet to absorb and no later crawl has absorbed, `foreign` the vertices that SBOMs
and registries left and no crawl has absorbed since.

| Actions | Code |
|---|---|
| StartWeek, EndWeek | the workflow; `seed_opengrants.py` raises while a sync job is todo |
| SyncOpengrants | `sync_opengrants` with its overrides |
| ResolveProject, UpsertProject, DeferRepos | `process_project`, `upsert_project` |
| BeginCrawl, UpsertRepoRow, AbsorbPackage, Associate, DeferNext, EndCrawl | `crawl_github_repo`; each upsert, absorption and defer is a commit of its own |
| FetchRequirements, VisitRequirement, CommitDeps | `crawl_package_deps`: jobs are enqueued at once, edges with the commit |
| CrawlRegistry | `crawl_package_registry` as seen from here |
| StartWorker, Fetch, FetchNothing, EndRound, KillWorker | `procrastinate/worker.py` and the dependencies of the workflow's jobs |

`OpenGrants` says what `opengrants.py` makes of the listing, the pools and the
overrides (retries, pages, merging, patches); `Discovery` what `github.py` and
`depsdev.py` find for a repository (public repositories, package mapping,
manifests, names, default versions, requirements, the truncation of releases).
Both are operators over constants that stand for the services' data; which
requests fail is chosen by the actions, within the bound `Faults`.

### Properties

`RoundsSuffice`: four rounds are enough for the three levels, although a round
closes with the first fetch that finds nothing. `LinksSurvive`: committed
requirements stay linked whatever is absorbed later. `TwinsAreUnfinished`: an
external vertex beside the Repo that releases its package exists only while a
crawl is about to absorb it, or after a worker was killed before it did. That
it is not enough to say "while a crawl of the repository is unfinished" shows in
three weeks: the crawl that follows the killed one may be given fewer packages,
end, and leave the vertex. A third source of twins is the code's own:
`crawlers/base.py` inserts an external vertex for every requirement without
asking `find_repo_by_release_purl`, and an SBOM inserts one for every name that
no vertex has. The property excepts these by name (`foreign`), and only until a
crawl of their package comes by. In the instance the registry of `c` lists two
packages that other repositories release: one that a crawl absorbs, and one,
scoped, that none does. What the property says is thus that the crawl of deps.dev
publishes no twin of its own. `NothingForgotten`: the
fan-out reaches every package a repository publishes, although locks swallow
defers, rounds close early and insertions collide. `BootstrapEnds` is liveness.

The tasks write the purl of a scoped npm package from its bare name
(`TaskId`), releases and SBOMs percent-encode it (`Purl`): the external vertex
of a scoped package is never absorbed. `LinksSurvive` takes this as it is.

### Fairness

Weak fairness for the steps of a slot that holds a job, for fetches and for the
turns of a worker: requests have timeouts, rounds are bounded, and the workflow
starts what its `needs` allow. Faults need not happen.

## 7. The git log: GitLog

`artifacts` are the rows of `gitlog_artifacts`, `contributors`, `edges` and
`dates` the statistics, `visible` the repositories not marked private, `pony`
the pony factors. The clock counts seeds: a log is what `git log --since` shows
at one of them (`Log`, in `GitLogParser`, with the back-off, the aggregation and
the bot filter).

| Actions | Code |
|---|---|
| SeedGitlogBatches | `seed_gitlog.py`: ordinal, cadence of dormant repositories, batches with their locks |
| Fetch, ParseRepo, StoreArtifact, LoadStatistics, PersistStatistics, RecordAttempt, NextRepo | `process_gitlog_batch` and `run_gitlog_pipeline`, one step per transaction, but for the reads of the statistics, one per contributor, most commits first; what is not caught ends the job and its marks |
| EndWork, MaterializePony | the workflow, which computes pony factors also after a killed worker |

Two things the code does differently from what its documents lead one to expect
are kept: after a rolled-back commit of the statistics the repository object is
expired and the attempt leaves no audit row (`implementation-notes.md:207` says
that every attempt does); and a terminal failure is marked only when the batch
ends. `contributors` has no unique key on the hash, so rows are numbered: two
batches may create two for one e-mail, and `PonyIsFresh` requires the pony
factor to be right nevertheless, as it is computed by e-mail. `DormantReturn`
counts the ordinals above that of the last success: a seed whose batches record
nothing repeats its ordinal, and an ordinal recorded late may be a smaller one.
So it bounds ordinals and not weeks. While some repository has a commit date one
is due at every seed (recent, or dormant with cadence 1); but where none has, all
cadences are K, nothing is scheduled, no row is recorded and the ordinal stands
still: `seed_gitlog.py` promises there that dormant repositories "will be
scheduled eventually", which only holds with at least one date.

Fairness: fetches, the steps of a busy slot and the turns of the workflow
(clone and parse have timeouts, retries are bounded). Names, first and last
dates of edges and the partial clone are left out.

## 8. Registries and metrics: RegistryCrawl

`RegistryClients` translates the five crawlers: the retry loop of
`_request_with_retry` (429, 5xx, timeouts, the last attempt), which failures of
which request are tolerated, what an answer of another shape is decoded to (an
empty payload; npm's fields are read one by one, `PartialAnswers`), which
versions and requirements are selected, and the pages of dependents. `PackageAnswers` and `DependentsAnswers` are all results these can
have for the packages of the instance; an action picks one, and any other than
the best costs a fault.

| Actions | Code |
|---|---|
| Fetch, FetchPackageOf | `crawl_package_registry`, `crawl_and_persist`, `fetch_package` |
| LoadSourceRepo, FlushSourceRepo | resolution of the source repository; merge of downloads and releases and their flush, which takes the row lock |
| VisitPackage, InsertPackage, ResolveDeadlock | `upsert_external_repo` and edges; unique keys, circles |
| FetchDependentsOf | `fetch_dependents`, while the transaction is open |
| Commit | the commit of a package and the job's verdict at its end |
| EndWork, MaterializeCriticality, MaterializeAdoption | `metrics/materialize_*.py` |

`Releases` is `db_models/release.py`, `Metrics` the pure parts of `metrics/`.
`TypeOK` says that releases are merged once and stay sorted, that scores are
within a hundred percent, and that a project has one if and only if a repository of it
has a signal. The metrics are
compared with definitions of another form: `CriticalityCounts` by sets closed
under edges instead of traversals, `PonyIsFresh` by minimal sets instead of
sorting, `AdoptionIsWhole` by the counts that were committed.

`registry_lost_downloads` shows a lost update: the metadata of a repository is
read, merged and written back under READ COMMITTED, and two registries of one
repository overlap. `AdoptionIsWhole` therefore excludes repositories that two
transactions wrote at once (`overlapped`).

Two transactions that visit common vertices in opposite orders may also wait for
each other's rows (`MayWait`). A circle is forced when each has inserted the key
the other inserts next; over rows that were there it depends on whether an upsert
changes the row (display names, version ranges), which is not modelled, so that
`ResolveDeadlock` may or may not happen there. Circles of more than two are
covered by faults of the commit, which have the same outcome. A page of npm that
lacks nothing but the name is taken as no answer; the code would go on and file
its releases under `pkg:npm/`.

## 9. Runs

| Run | Expect | Instance | Question |
|---|---|---|---|
| sbom_full | pass | 3 requests, 1 repository, an invalid document, 2 slots, 1 seed run, all faults | jobs name rows, edges are declared by applied documents, refused rows are settled |
| sbom_live | pass | 3 requests, 2 repositories, a repeated document, 2 slots, fair | no queued row is forgotten, processed means applied, every queued row is settled, the queue drains |
| sbom_ledger | pass | 3 requests, 1 slot, 1 seed run, all faults | refinement of SbomLedger |
| sbom_lost_wakeup | violation | 2 requests, 1 slot, 1 seed run | `QueuedIsCarried` fails once jobs selecting failed rows share the lock |
| sbom_mixed_edges | violation | 2 requests, 2 slots | `RootEdgesOfOneSbom` fails: two DELETEs that do not see each other |
| github_dependents | pass | 3 attempts, 1 source, 2 dependents, 3 snapshots, all faults, fair; 27,000 sites | overlapping attempts are applied in run order, outcomes are durable and final, complete listings are whole, attempts end |
| graph | pass | 6 scenarios of 3 jobs: SBOMs of two repositories, or an SBOM, a repository crawl and a requirements crawl | circles close only around submitting repositories; documents are applied; integrity of references, absorption, verified edges, Repos; every job ends |
| graph_self_loop | violation | an SBOM job of a repository that lists its own package, and its crawl | `NoSelfLoops` fails |
| crawl | pass | 2 weeks, 3 projects, 3 repositories, 6 packages, 5 slots, 1 fault, fair | rounds suffice, links survive, twins are being absorbed or abandoned, nothing is forgotten, the bootstrap ends |
| gitlog | pass | 3 seeds, 3 repositories, 2 projects, batches of 2, 2 slots, 1 fault, fair | audit rows tell the truth, hiding is terminal, dormant repositories return, pony factors are fresh, runs end |
| registry | pass | 7 selections of 6 jobs of 5 registries, 2 slots, 2 faults | processed packages are written whole and failed ones leave nothing, metrics are those of their definitions |
| registry_lost_downloads | violation | the same without faults | `DownloadsAreMerged` fails: a count is lost |

### Bounds

SBOM: three submissions are the least for a job with two rows hidden behind
it (one to run, one that holds the lock, one swallowed), and for a row chained
over another. Two slots are the least for overlapping jobs of a repository; the
lock admits one `todo` job, so a third slot adds only a third overlap. One seed
run suffices to put one job of each kind under a lock (`MaxSeedRuns` bounds it;
`SeedLimit` is the 7 of the script and not reached by three rows, which is why
the order of the defers, newest first, is kept). Symmetry over slots
is used only in runs without liveness.

Dependents: three attempts are the least for a row that is shown, retired and
seen again, and for one run that overtakes two; the three snapshots are a
complete listing, a partial one and a complete listing with incomplete counts,
of different dependents through different packages. Attempts of different sources
share nothing, so one source is enough for TLC; the proofs cover any number.
Pages, entries and packages are capped at two, so that each cap is met, missed
by one and exceeded.

Graph: two SBOM jobs suffice for a circle; the third submits again for the same
repository, so that root edges are contended too. In the mixed scenarios each
kind of job occurs once, and every pair of kinds meets on a shared vertex and a
shared edge. Not covered: two crawls that promote the same repository or absorb
the same package. Names have a fixed order (`Order`), as sorting by canonical id
gives them, so there is no symmetry.

Crawl: two weeks are the least for a job that the week before left behind; they
select different projects that share packages. The requirements of the instance
are acyclic: in a circle the lock of a package admits it again as soon as it
is fetched, and the jobs go on until deps.dev fails. One fault in two weeks is
one killed worker, refused defer or failed service anywhere. `MaxReleases = 1`
truncates the releases of the repository with two packages.

Git log: three seeds and `K = 2` let a repository be dormant, passed over and
due again; batches of two give one full and one partial batch. Dates start at
any of two values. Registries: the selections pair the jobs that share a
repository, a requirement or an order of insertion; two faults allow a
failing request and a lost commit.

Runs stop when everything is answered and the queues are empty, so TLC's
deadlock check is off everywhere; that nothing waits for ever is what
`QueuedIsSettled`, `AttemptsEnd`, `JobsEnd`, `BootstrapEnds` and `RunsEnd` say.

### Findings

The four violation runs disagree with sentences of the repository, quoted in
`PROJECT.json`: the chain's docstring (sbom_lost_wakeup), the docstring of the
edge replacement (sbom_mixed_edges), the promise of absorption about self-loops
(graph_self_loop), and the implementation notes on the download map
(registry_lost_downloads).

Others were met and are described here without a run of their own. The
implementation notes (line 123) say that an absorption re-points all edges;
an edge dropped as a duplicate of one that an SBOM job is deleting leaves its
repository with none (the exception in `AbsorptionContracts`, met by the run
graph). Two
failing rows that jobs selecting failed rows chain to each other keep the queue
from draining. A duplicate of a pending submission is answered as already
processed although it may yet fail. Twins and scoped packages are described in 6,
the missing audit row in 7. Malformed JSON of a manifest is a DecodeError, which
`_extract_package_name` does not catch, and fails the crawl of its repository.

## 10. Faults

SBOM: neither crashes nor seeds happen in `FairServeSpec`: after a crash a row may
stay pending for ever, by the code's own design (no retries). The number of
crashes is otherwise not bounded: a crash ends a handler or a job, of which
there are finitely many in an instance without a livelock; with one the state
space is finite all the same.

Dependents: lost acknowledgements, rolled-back commits, failing reconciliations
and killed workers, unbounded. Graph: unique violations and deadlocks, which
roll back. Crawl, git log and registries: a failed request or commit, or a
killed worker, each of which counts against `Faults`; what other jobs cause
(locks, unique keys) is free.

## 11. Proofs

`SbomPipelineProofs` proves, for all constants that satisfy `SbomConstants` and
`NoJobIsNoJob` (evaluated by TLC in every run):

- `TypeCorrect`: `Spec => []TypeOK`. `TypeInv` strengthens it: a slot
  that is not idle holds a job, a slot about to enqueue has a row.
- `JobsNamed`: `Spec => []JobsNameCommittedRows`. `RowsInv` adds that rows of
  handlers past their commit exist, that the seed's batch and the rows selected by
  the chain exist, and that a selected row belongs to the job's repository;
  no action makes a row absent again.
- `ProcessedApplied`: `Spec => []ProcessedWasApplied`. `AppliedInv` adds that a
  status a duplicate has read as processed is backed by an applied document;
  the abstraction that makes it inductive is that `applied` only grows.
- `NoLostWakeup`: `ServeSpec => []QueuedIsCarried`. `CarryInv` says that without
  the seed every job expects pending rows and every pending row of a repository
  whose handler has answered has a job that has not passed its chain query, or has selected a row;
  the case that matters is `ChainDefer` into an occupied lock, where
  the job in the lock carries on.
- `RefusedSettled`: `Spec => []RefusedIsSettled`. `SettledInv` adds that
  an invalid document ends its handler at its first step and that a slot
  replacing edges has parsed its document.
- `EdgesDeclared`: `Spec => []EdgesAreDeclared`. `EdgesInv` adds that, until
  a first document is applied, a job between its DELETE and its INSERTs saw
  every edge (`snap`): what it did not see was declared meanwhile.

`OneSlotIsALedger`, there too: if there is one slot, `Spec`
implements `SbomLedger` under every fault. `AloneInv` says that what
the one job read is still what is committed: the status of its row and the edges
its DELETE saw. So its commit replaces all root edges, the ledger's `Apply`;
with a second slot exactly this fails. Every other action is a step of the
ledger or leaves its three variables unchanged.

`GithubDependentsProofs` proves, for all constants that satisfy
`DependentsConstants`, `WalkConstants` and `SitesFit`, every safety property of the run and the refinement:
`DependentsTyped`, `OutcomesDurable`, `SupersededOlder`, `DisplayCurrent`,
`OutcomesFinal`, `CompleteIsWholeAlways` and `Refinement`. All but the walk rest on one inductive invariant, `Inv`:

- `RunInv`: ids of started runs are distinct and not above `lastId`; an applied
  run has kept its snapshot.
- `PhaseInv`: what the process knows of its run agrees with the run row, up to
  what is in doubt in `sent`.
- `LockInv`: a transaction that will change observations holds the lock of its
  source, and one that found its snapshot current still finds it so. The
  second half is the crux: the order guard is evaluated once, before the
  commit, and no other run of the source can be applied meanwhile.
- `RowsInv`: an observation names only applied runs of its source.
- `DisplayIsCurrent` itself, which needs the four others: the run being
  applied is the newest, hence the run that last saw a row it misses is older.

`Refinement` then shows that the commit of an applied run is a step `Show` of
the view (the id is new and the largest, `live` is what the snapshot makes it),
and that all other steps leave the mapped variables unchanged.

`CompleteIsWholeAlways`, `Spec => []CompleteIsWhole`, is about the walk alone and
any site that satisfies `SitesFit`, what GitHub is taken to serve: a Next link
just where another page follows, whose cursor leads there or back to an earlier
page, and no rows under a count of no repositories. TLC evaluates it on the
27,000 sites. Both loops are folds, seen one iteration at a time (`ListingChain`,
`SiteChain`):

- `CompleteHasAll`: as long as the listing may be called complete, all pages
  before the next one are found (`Reached`). An iteration keeps that: rows it
  leaves are left because the entry cap is met (`LeftAtTheCap`), and a walk ends
  untruncated only on a page without a cursor and without a link, the last one
  (`PageVisited`). A cursor that leads back does no harm, because the page it
  leads to has a cursor that was seen. Listings that are skipped at the cap
  are those of no repositories.
- `PlainIsComplete`: at a plain site the walk is `OnTrack`, at its k-th page in its
  k-th iteration with the cursors 2..k, so that no cursor comes back and no cap is
  met: what is found is on display, which is finite and below the cap
  (`PlainNeverCapped`).

`GitLogProofs` proves, for all constants that satisfy `GitLogConstants`,
`ProcessedIsPersistedAlways`, `HiddenIsTerminalAlways` and `DormantReturnAlways`.
For the first two, the inductive invariant `Inv`
adds what a busy slot knows (`SlotsKnow`): the repositories it has marked met a
terminal failure, the path it holds is that of its log, and a slot about to
record an attempt with a log has committed the statistics of that log. Neither
property is inductive without it, because statistics, audit row and mark are
three transactions. `ParsedAnswer` and `TerminalAnswer` say what the retry loop
returns for any number of retries: an answer that was given, and one that hides
a repository only if no throttling was mentioned. For the third, `TimedInv` adds
that ordinals of rows, batches and slots are not above the clock, that commit
dates are dates, and `PassedSoon`: every ordinal that passed a repository over is less than K
above its last success. It rests on `CadenceBounded` (the rank of a dormant
repository is at most that of the last, so no cadence exceeds K), on `DateOfLog`
(the latest commit of a log exists), and on successes only growing.

`GitLogTyped` and `PonyIsFreshAlways` rest on `CountedInv`, which says of every
contribution that it has a positive count, a stored contributor and a stored
repository, of a batch that it is within its size, and of a repository that its
pony factor is a number. `FreshInv` adds, without faults, why recomputing
the rows of the latest seed is enough: a repository whose pony factor is stale is
in a batch that is queued or running (`Pending`), or its audit row carries the
latest seed, so that the recomputation to come selects it (`WillBeSeen`).
`PonyFactorIsLeast` is about the algorithm itself: with the authors sorted by
count, the number of the first ones that reach half of the commits is the least
number of authors that can, for any finite set of authors. Sums over finite
sets and the existence of sorted lists are shown by induction over the sizes of
sets, which the well-foundedness of the numbers gives (`ListProofs`).

`VertexGraphProofs` proves, for all constants that satisfy `GraphConstants` and
`PackageNames`, `GraphTyped`, `ReposRemain` and `VerifiedEdgesRemain`: for any
number of jobs, names and packages the tables keep their integrity, no commit
loses a Repo, and no crawl weakens a verified edge. TLC has also checked the
inductive invariant, `Inv`, on the instances of the graph runs. Its parts:

- `RowLocks`, `UniqueNames`: no two open transactions write the same row, and
  names are unique among committed and uncommitted rows together. A commit
  merges what one transaction wrote into tables that others have changed since;
  without these two it could bring back a row or a second one of a name.
- `ForeignKeys`, `EndsHeld`, `NoneDeleted`: the edges a transaction wrote have
  ends that are committed or its own, it holds these ends FOR KEY SHARE, and
  nobody deletes a vertex another transaction holds or refers to. This is how
  an edge inserted by one job and a vertex absorbed by another never both commit.
- per job, `Local`: the phase agrees with what is written (`Phase`, `Written`),
  the rows of a statement exist or were deleted meanwhile (`RowsFit`), and a
  verified edge is rewritten only as verified or by a job entitled to (`Weakened`).
- `Absorbed`: an absorption that is about to commit has deleted the external
  vertex, or found it deleted by another that has committed.

`GraphJobProofs` proves, from the same assumptions, the two properties of SBOM
jobs, `OnlyRootsCanDeadlock` and `DeclaredIsApplied`, and the one of absorptions,
`AbsorptionsContract`. The invariant of SBOM jobs, `SbomInv`,
which TLC has checked on the instance of `graph` too, says of each of these jobs:

- `Visits`, `EdgesBehind`: what is left is in canonical order, and the rows it
  holds come before what is left, but for its repository and the edges out of
  it. In a circle of waiting jobs without such a row, each waits for a later row
  than the one before it: there would be no last one (`OneIsARoot`).
- `Resolved`: the ids it remembers belong to vertices of the names they were
  looked up under, wherever these vertices are written by now, and different
  names have different ids. It holds because no step renames a vertex
  or takes an id twice (`StepNames`), which is shown for every action of every
  kind of job.
- `Applied`: the planned edges that its statements are past are verified.

What was planned is what was declared (`TaskSubmitted`): a job reads the artifact
of any submission of equal hash, and `EqualHash` and `SameDeclared` show that
documents of equal hash have the same items and that equal items make the same
declarations, in whatever order. `InCanonicalOrder` exists by
`SortedListExists`.

The invariant of absorptions, `AbsorbInv`, says of each crawl, while its six
statements run and other jobs commit between them:

- `Scanned`: the edges the current statement has yet to visit are edges of the
  external vertex, in the direction the statement is about; one that it is to
  drop is `Kept`.
- `Kept`: the edge that a dropped one becomes when the vertex is contracted is a
  loop, is seen by the transaction, or leads out of a repository whose SBOM job
  is past its look-up of it and may therefore have removed it. Only this last
  case explains a lost edge. It stays true when others commit
  (`KeptBeyondCommit`): a crawl of requirements deletes nothing, an SBOM job only
  what it is excused for, and another absorption only edges of its own external
  vertex, which is neither the Repo of this one nor an end of the dropped edge.
- `Taken`: an edge the transaction deleted was one of the external vertex and is
  `Kept`; one it wrote is what a committed and deleted edge became, or one of the
  three `Between` the vertex and its Repo, which end up as a loop.

At the commit nothing refers to the external vertex (`Absorbed`, `ForeignKeys`),
so that each of its edges was deleted, and is `Kept` (`LostAreRemoved`,
`GainedAreTakenOver`). The proof showed that a loop which another absorption had
left at the Repo is a third kind of edge that remains; TLC has checked
`AbsorbInv` on the instance of `graph` and with two crawls and such a loop.

`RegistryCrawlProofs` proves, for all constants that satisfy `ClientConstants`,
`CrawlConstants`, `StoredConstants` and `SignalConstants`, every invariant of
the run `registry`. The last two say that earlier runs left what this code
leaves (edges with ends, merged releases, scores or none), that projects are not
named like vertices, and that stars and forks are counts or not known; TLC
evaluates all four on the instance.

- `AdoptionSummed`: `Spec => []AdoptionIsWhole`. `CountsInv` says that what a
  transaction loaded of a repository is still committed (`Current`) unless the
  repository is in `overlapped`, so that its commit adds one count and
  removes none. The exception is the lost update of `registry_lost_downloads`.
- `ProcessedWritten`: `Spec => []ProcessedIsWritten`. `WrittenInv` relates what
  a transaction has linked to what it has yet to visit (`Fits`): together
  they hold every requirement, and before the commit the first alone does; a vertex is
  inserted with an edge. A job's tally is zero if and only if it
  processed nothing (`Tallied`). The edges of a package are those of the answer
  it got, whichever requests failed and whatever fields it lacked; `AnswersLists`
  says that the clients parse lists of names, and dependents only
  from the pages, for any pages, caps and failing requests.
- `CriticalityCounted`: `Spec => []CriticalityCounts`. `GraphInv` says that the
  ends of an edge a transaction has linked are committed or inserted by it, so
  that no edge is ever without them, and that the edges are finitely many. On such a graph a
  traversal of as many steps as there are edges is closed (`ReachIsClosed`: a step
  that adds nothing ends it, and each other one takes a new edge) and
  the least such set (`ReachIsLeast`). `ActiveSubgraph` and `DependentsReached`
  then turn the two traversals, forth from the active leaves and back inside
  what these reached, into the two quantifiers of the property. The back one
  stays in the active subgraph because dependencies of active
  vertices are active: that is why the restriction loses no path.
- `RegistryTyped`: `Spec => []TypeOK`. `RowsInv` says of the columns a
  transaction has loaded what `TypeOK` says of the tables, because it will write
  them whatever the tables hold by then. `MergedOnce` is about `merge_releases`:
  for lists in any order, also with repetitions, the result is sorted and
  repeats none. `ScoresInv` rests on `MeanIsScore` (a mean of fractions
  of a hundred percent, rounded half up, is one) and `CompositesAreScores`. The
  proof corrected `TypeOK`: a composite can be a full hundred percent, since a
  percentile below it rounds up where more than twenty thousand repositories
  are ranked.

All rest on `Typed`, which also says that no two slots hold the same job.

The operators over lists and sets are folds of the community modules, whose
recursive functions are defined by a CHOOSE. `ListProofs` shows, by induction
over the sizes of subsets, that such a function exists (`SubsetFoldExists`), so
that the chosen one obeys its equations, that a fold keeps what each step keeps
(`FoldKeeps`), and that a fold over a list is a chain of its first
elements (`FoldIsChain`).

`PackageCrawlProofs` proves, for all constants that satisfy `CrawlConstants` and
`DiscoveryConstants`, `CrawlTyped` and `RootDrained`: `TypeOK` and `RoundsSuffice` in every state of
`Spec`. The inductive invariant `Inv`, which TLC has checked on the instance
of `crawl`, has these parts:

- `JobsFit`, `Runs`: a job is on the queue of its task, a slot that is not idle
  belongs to an active worker, and it knows what its job has looked up so far:
  a crawl past its upsert has its Repo, a project about to fan out its row.
- `EndsExist`: the ends of the edges a transaction has yet to commit exist.
  An absorption would break this if it could meet a crawl of packages;
  `InOrder` says that it cannot: the workers of the other queues are active
  only after the root's has ended (`needs` of the workflow), and `Kept` is
  where the proof uses it.
- `Drained`: in round n the root's slots and queue hold no job of a level
  below n - 1, and when the round is closing the queue holds none below n.
  Tasks only defer deeper ones, so after three rounds nothing is left:
  `--drain-rounds=4` has one to spare.

The second part of the module has the two properties of its edges and vertices:

- `RequirementsStayLinked`: `Spec => []LinksSurvive`. `ListsInv` says that jobs
  and slots carry lists of packages their repository may publish (`Claims`).
  `LinkInv` says that a crawl of a package has, for each requirement, either
  still to visit it or an edge among those it will commit. It has looked the
  vertex up long before it commits the edge: the invariant survives because no
  absorption runs meanwhile (`RootAlone`), and afterwards because
  an absorption takes a vertex away only for a repository that claims it
  (`Moves`).
- `NoTwins`: `Spec => []TwinsAreUnfinished`. `TwinInv` adds the releases that a
  crawl has read and will write back, and that the vertices which crawls
  of packages are about to insert are not released by anyone: two crawls of one
  repository, the older with the older releases, would otherwise restore what
  the newer had absorbed. Every vertex of a twin that
  neither holds back is in `abandoned` or `foreign`.

The third part is about what is not lost:

- `EveryPackageReached`: `Spec => []NothingForgotten`. `OwedInv` says, as long as
  nothing has failed, of each package that a row publishes, or that a crawl has
  read and will write back, that it is `Owed`: crawled, being crawled, in line,
  or about to be deferred by the crawl that wrote the row. A step may hand a
  package on but not drop it (`Carries`, shown for every action). Three facts
  make that true. A lock that swallows a defer is that of a crawl of the same
  package (`FitInv`: the locks of the other tasks cannot be taken for one,
  `LineFormed`). A row of a repository is written only while the root works, and
  then the worker of the packages has not begun to close (`RootFirst`,
  `RootWorks`). And a round closes only after a fetch found nothing in line, when
  the repositories are done: what was owed is then at least being crawled
  (`Attained`), and settled when the slots rest (`Settled`). How deep the
  requirements go and how many rounds are allowed do not matter: the last round
  may leave jobs, but only of packages some crawl has already reached.

Both suppose `NamesAreBare` (no package is named like a repository or like the
encoded purl of a scoped one) and nothing else of what the services answer; what
registries and SBOMs insert is arbitrary. TLC evaluates it on the instance
(`InstanceSupposes`), and has checked `ListsInv`,
`LinkInv` and `TwinInv` there. What `Distinct`, `Among`, `DetectPackages` and
`Requires` return is shown from their definitions (`DetectedAreClaimed`,
`RequirementsAreLists`): they flatten lists of no or one element
(`FlattenedList`), for any rows, manifests and pages that GitHub and deps.dev
answer (`DiscoveryConstants`).

Model-checked only: the liveness properties, which are out of the prover's reach.
Every invariant and action property of the passing runs is proved.
What `SelectSeq` and `SortSeq` compute is opaque to the prover, so the functions of
OpenGrants are evaluated on the instance's data; those of Discovery,
RegistryClients, Releases and Metrics are folds and are proved about.

## 12. Not modelled

- OIDC and the deps.dev client: a library and generated code, whose outcome is
  a constant or a choice of the models. Regular expressions over HTML likewise.
- Read-only routers other than the dependents of a repository, and their
  response models: they change no state.
- Migrations: they declare the schema; the constraints that matter are in the
  actions that meet them.
- Version ranges, display names, descriptions, categories and metadata of
  projects: no other state depends on them. So a crawl overwriting the version
  range of a verified edge is a hazard without a property.
- The rate limiter and pacing of requests: they delay, and the models have no
  clock for it.
- The temporary file of the local artifact store, and the step between two
  statements of the API's answer: hazards without a property.
- Writers of different rows of section 2 at the level of statements, such as a
  git log job and a crawl that both write `latest_commit_date`.
- Command lines and scripts (`gitlog/__main__.py`, `scripts/`), which call what
  is modelled or prepare data by hand.

`PROJECT.json` lists each component with its status.
