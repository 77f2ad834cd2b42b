---------------------------- MODULE PackageCrawl ----------------------------
(***************************************************************************)
(* The weekly bootstrap: a root task synchronises OpenGrants and fans out  *)
(* into projects, repositories and packages (procrastinate/tasks.py), on   *)
(* queues that workers drain in rounds (procrastinate/worker.py), in the   *)
(* order of .github/workflows/bootstrap.yml.                               *)
(*                                                                         *)
(* Every defer and every upsert is a commit of its own, so a worker that   *)
(* is killed leaves what it had committed.  The jobs of a queue are taken  *)
(* in any order.  Statement-level races of upserts are in VertexGraph.     *)
(***************************************************************************)
EXTENDS OpenGrants, Discovery, FiniteSets, BagsExt

CONSTANTS
  RegistryRequires, \* requirements the registries list
  Scoped,         \* npm packages whose names begin with a scope
  DependentsEnabled,   \* GITHUB_DEPENDENTS_ENABLED
  DependentsAllowlist, \* GITHUB_DEPENDENTS_ALLOWLIST, its entries
  Everything,     \* the entry "*"
  Externals,      \* ExternalRepo vertices an SBOM may have left, by purl
  Selections,     \* project filters of a run; {} for none
  Slots, QueueOf, \* concurrent tasks of the three workers
  Weeks,          \* bound on runs of the workflow
  Faults          \* bound on killed workers and services that fail

Queues == {"opengrants", "package-deps", "registry-crawl"}
Idle == [pc |-> "idle"]

ASSUME CrawlConstants ==
  /\ QueueOf \in [Slots -> Queues]
  /\ Weeks \in Nat /\ Faults \in Nat
  /\ Scoped \subseteq {p \in KnownPackages : p[1] = "NPM"}

VARIABLES
  todo,        \* jobs of each queue, a bag
  slots,       \* what each slot of a running worker does
  worker,      \* "waiting", "fetching", "closing" or how it ended, by queue
  round,       \* drain round of each worker
  week, stage, \* runs of the workflow so far; whether one is running
  projects,    \* type of each project row
  repos,       \* [project, releases] of each Repo
  externals,   \* canonical ids of ExternalRepo vertices
  edges,       \* depends_on
  faults,      \* faults so far
  applied,     \* history: packages whose requirements were committed, by source
  abandoned,   \* history: packages a killed crawl had yet to absorb
  foreign,     \* history: vertices from SBOMs and registries no crawl absorbed since
  settled      \* history: packages whose crawl ended

graph == <<projects, repos, externals, edges>>
queue == <<todo, worker, round, week, stage>>
history == <<applied, abandoned, foreign, settled>>
vars == <<queue, slots, graph, faults, history>>

Busy(s) == slots[s].pc # "idle"
Job(s) == slots[s].job
Jobs(q) == DOMAIN todo[q]

(* Release purls, SBOMs and registries percent-encode the scope of an npm   *)
(* package; the tasks write it as it is.                                    *)
Purl(p) == IF p \in Scoped THEN <<"encoded", p>> ELSE p
TaskId(p) == p

TypeOK ==
  /\ \A q \in Queues : IsABag(todo[q])
  /\ \A s \in Slots : slots[s].pc \in {"idle", "start", "write", "absorb", "defer", "commit"}
  /\ worker \in [Queues -> {"waiting", "fetching", "closing", "done", "killed", "skipped"}]
  /\ round \in [Queues -> 0..30] /\ week \in 0..Weeks /\ stage \in {"seeded", "over"}
  /\ \A id \in DOMAIN projects : projects[id] \in {"scf_project", "public_good"}
  /\ DOMAIN repos \subseteq Repos
  /\ \A r \in DOMAIN repos : repos[r].project \in DOMAIN projects
  /\ \A e \in edges : e[1] \in DOMAIN repos /\ e[2] \in DOMAIN repos \cup externals
  /\ faults \in 0..Faults

Init ==
  /\ todo = [q \in Queues |-> EmptyBag]
  /\ slots = [s \in Slots |-> Idle]
  /\ worker = [q \in Queues |-> "done"]
  /\ round = [q \in Queues |-> 0]
  /\ week = 0 /\ stage = "over"
  /\ projects = <<>> /\ repos = <<>> /\ edges = {}
  /\ externals \in SUBSET Externals
  /\ faults = 0
  /\ applied = {} /\ abandoned = {} /\ foreign = externals /\ settled = {}
-----------------------------------------------------------------------------
(* Procrastinate.                                                           *)

QueueOfTask == [sync_opengrants |-> "opengrants", process_project |-> "opengrants",
                crawl_github_repo |-> "opengrants", crawl_package_deps |-> "package-deps",
                crawl_package_registry |-> "registry-crawl",
                crawl_github_dependents |-> "registry-crawl"]

(* A queueing lock refuses a job while one with that lock is todo.          *)
Locked(job) ==
  job.lock # None /\ \E q \in Queues : \E other \in Jobs(q) : other.lock = job.lock
Defer(job) ==
  LET q == QueueOfTask[job.task]
  IN todo' = IF Locked(job) THEN todo ELSE [todo EXCEPT ![q] = BagAdd(@, job)]

(* batch_defer: one insert for jobs without locks.                          *)
BatchDefer(jobs) == todo' = [todo EXCEPT !["opengrants"] = @ (+) SetToBag(jobs)]

SyncJob(selected) ==
  [task |-> "sync_opengrants", lock |-> <<"sync_opengrants">>, selected |-> selected]
ProjectJob(project) == [task |-> "process_project", lock |-> None, project |-> project]
RepoJob(repo, id, packages) ==
  [task |-> "crawl_github_repo", lock |-> None, repo |-> repo, project |-> id,
   packages |-> packages]
DepsJob(p, source) ==
  [task |-> "crawl_package_deps", lock |-> p, package |-> p, source |-> source]
RegistryJob(repo, system, names) ==
  [task |-> "crawl_package_registry", lock |-> <<"registry", repo, system>>, names |-> names]
DependentsJob(repo) ==
  [task |-> "crawl_github_dependents", lock |-> <<"github-dependents", repo>>, repo |-> repo]
-----------------------------------------------------------------------------
(* Slots.                                                                   *)

Free(s) == slots' = [slots EXCEPT ![s] = Idle]
Go(s, state) == slots' = [slots EXCEPT ![s] = state]

(* The packages whose vertices a crawl has yet to absorb.                   *)
Unabsorbed(s) ==
  IF slots[s].pc = "absorb" THEN {TaskId(p) : p \in ToSet(slots[s].rest)} ELSE {}

Visiting(s) ==
  IF Busy(s) /\ Job(s).task = "crawl_package_deps" THEN {Job(s).package} ELSE {}

(* A job that raises is failed for good: no task has a retry strategy.      *)
Fail(s) ==
  /\ Free(s)
  /\ settled' = settled \cup Visiting(s)
  /\ UNCHANGED <<queue, graph, applied, abandoned, foreign>>

(* Services may fail as long as the bound on faults allows.                 *)
Fault(happens) == faults' = IF happens THEN faults + 1 ELSE faults
MayFail == faults < Faults

(* fetch_scf_projects: a pool may fail, a failed listing raises.            *)
SyncOpengrants(s) ==
  /\ slots[s].pc = "start" /\ Job(s).task = "sync_opengrants"
  /\ \/ \E answer \in [DOMAIN Pools -> Answers] :
          LET failed == {i \in DOMAIN Pools : ~answer[i]}
              fetched == FetchScfProjects(failed)
              bad == DuplicateOverride \/ MissingIds(fetched, Job(s).selected) # {}
          IN /\ failed # {} => MayFail
             /\ Fault(failed # {})
             /\ \/ /\ bad /\ Fail(s)
                \/ /\ ~bad
                   /\ BatchDefer({ProjectJob(p) : p \in ProjectBatch(fetched, Job(s).selected)})
                   /\ Free(s)
                   /\ UNCHANGED <<worker, round, week, stage, graph, history>>
     \/ FALSE \in Answers /\ MayFail /\ Fault(TRUE) /\ Fail(s)

Upserted(table, key, row) == [k \in DOMAIN table \cup {key} |-> IF k = key THEN row ELSE table[k]]

(* process_project resolves repositories and packages and looks up its row. *)
ResolveProject(s) ==
  /\ slots[s].pc = "start" /\ Job(s).task = "process_project"
  /\ LET p == Job(s).project
         education == p.category = "Education & Community"
     IN \E unavailable, failing \in SUBSET (Repos \cup {p.owner}), batchFails \in BOOLEAN :
          LET crawled == IF education THEN {}
                         ELSE ReposToCrawl(p.owner, p.repos, FALSE, unavailable)
              packages == ProjectPackages(crawled, batchFails, failing)
              faulty == unavailable \cup failing # {} \/ batchFails
          IN /\ Cardinality(unavailable) + Cardinality(failing) + (IF batchFails THEN 1 ELSE 0) <= 1
             /\ failing \subseteq crawled
             /\ faulty => MayFail
             /\ Fault(faulty)
             /\ Go(s, [pc |-> "write", job |-> Job(s), found |-> p.canonical_id \in DOMAIN projects,
                       type |-> IF \E r \in crawled : packages[r] # <<>>
                                THEN "public_good" ELSE "scf_project",
                       rest |-> {RepoJob(r, p.canonical_id, packages[r]) : r \in crawled},
                       last |-> education])
  /\ UNCHANGED <<queue, graph, history>>

(* upsert_project; the insertion of a row that appeared meanwhile raises.   *)
UpsertProject(s) ==
  /\ slots[s].pc = "write" /\ Job(s).task = "process_project"
  /\ LET id == Job(s).project.canonical_id
     IN \/ /\ slots[s].found \/ id \notin DOMAIN projects
           /\ projects' = Upserted(projects, id, slots[s].type)
           /\ Go(s, IF slots[s].last THEN Idle ELSE [slots[s] EXCEPT !.pc = "defer"])
           /\ UNCHANGED <<queue, repos, externals, edges, history>>
        \/ ~slots[s].found /\ id \in DOMAIN projects /\ Fail(s)
  /\ UNCHANGED faults

DeferRepos(s) ==
  /\ slots[s].pc = "defer" /\ Job(s).task = "process_project"
  /\ BatchDefer(slots[s].rest)
  /\ Free(s)
  /\ UNCHANGED <<worker, round, week, stage, graph, faults, history>>
-----------------------------------------------------------------------------
(* crawl_github_repo.                                                       *)

(* Packages come with the job or from the manifests; deps.dev gives their   *)
(* releases.  The row is looked up.                                         *)
BeginCrawl(s) ==
  /\ slots[s].pc = "start" /\ Job(s).task = "crawl_github_repo"
  /\ LET r == Job(s).repo
         detects == Job(s).packages = <<>>
         all == Pages(r)
     IN \E pages \in 0..all, unreadable \in SUBSET ToSet(Manifests[r]),
           failing \in SUBSET KnownPackages :
       \E manifests \in {IF detects THEN ReadManifests(r, pages, unreadable) ELSE <<>>} :
       \E packages \in {IF detects THEN DetectPackages(r, manifests) ELSE Job(s).packages} :
          LET answered == {p \in ToSet(packages) : p[1] \in DepsDevSystems /\ p \in KnownPackages \ failing}
              faulty == pages < all \/ unreadable # {} \/ failing # {}
          IN /\ failing \subseteq ToSet(packages)
             /\ Cardinality(failing) + Cardinality(unreadable) + (all - pages) <= 1
             /\ ~detects => pages = all /\ unreadable = {}
             /\ faulty => MayFail
             /\ Fault(faulty)
             /\ \/ /\ \E i \in DOMAIN manifests : DecodingRaises(manifests[i])
                   /\ Fail(s)
                \/ /\ \A i \in DOMAIN manifests : ~DecodingRaises(manifests[i])
                   /\ Go(s, [pc |-> "write", job |-> Job(s), found |-> r \in DOMAIN repos,
                             read |-> IF r \in DOMAIN repos THEN repos[r].releases ELSE {},
                             releases |-> {Purl(p) : p \in Released(packages, answered)}, rest |-> packages])
                   /\ UNCHANGED <<queue, graph, history>>

(* upsert_repo, with the releases merged into those that were read.         *)
UpsertRepoRow(s) ==
  /\ slots[s].pc = "write" /\ Job(s).task = "crawl_github_repo"
  /\ LET r == Job(s).repo
     IN \/ /\ slots[s].found \/ r \notin DOMAIN repos
           /\ repos' = Upserted(repos, r, [project |-> Job(s).project,
                                           releases |-> slots[s].read \cup slots[s].releases])
           /\ Go(s, [pc |-> "absorb", job |-> Job(s), packages |-> slots[s].rest,
                     rest |-> slots[s].rest])
           /\ UNCHANGED <<queue, projects, externals, edges, history>>
        \/ ~slots[s].found /\ r \in DOMAIN repos /\ Fail(s)
  /\ UNCHANGED faults

(* Mutant: an external vertex with dependents is left. *)
AbsorbedIfUnused(p) == {v \in {TaskId(p)} \cap externals : \A e \in edges : e[2] # v}
(* absorb_external_repo: the vertex goes and its edges move to the Repo.    *)
Absorbed(p) == {TaskId(p)} \cap externals

(* Mutants: the edges stay; the edges go with the vertex. *)
EdgesLeft(gone, r) == edges
EdgesDeleted(gone, r) == {e \in edges : e[2] \notin gone}
EdgesMoved(gone, r) ==
  {<<e[1], IF e[2] \in gone THEN r ELSE e[2]>> : e \in edges}
    \ (IF gone = {} THEN {} ELSE {<<r, r>>})

(* The next package of the repository.                                      *)
AbsorbPackage(s) ==
  /\ slots[s].pc = "absorb" /\ slots[s].rest # <<>>
  /\ LET gone == Absorbed(Head(slots[s].rest))
     IN /\ externals' = externals \ gone
        /\ edges' = EdgesMoved(gone, Job(s).repo)
  /\ abandoned' = abandoned \ {TaskId(Head(slots[s].rest))}
  /\ foreign' = foreign \ {TaskId(Head(slots[s].rest))}
  /\ Go(s, [slots[s] EXCEPT !.rest = Tail(@)])
  /\ UNCHANGED <<queue, projects, repos, faults, applied, settled>>

(* Mutant: what a registry crawl covers is not sent to deps.dev. *)
FanOutOneWay(r, packages) ==
  LET deps == Among(packages, {p \in ToSet(packages) : p[1] \in DepsDevSystems \ RegistrySystems})
  IN [i \in DOMAIN deps |-> <<"deps", deps[i]>>]

(* github_dependents_scheduling_allowed: "*" counts only on its own.         *)
SchedulingAllowed(r) ==
  DependentsEnabled /\ (DependentsAllowlist = {Everything} \/ r \in DependentsAllowlist)

(* What the crawl defers: one job per package to deps.dev, one per system   *)
(* to the registries, and the dependents of a repository that is allowed.   *)
FanOut(r, packages) ==
  LET deps == DepsDevPackages(packages)
      registry == RegistryPackages(packages)
      systems == Distinct([i \in DOMAIN registry |-> registry[i][1]])
  IN [i \in DOMAIN deps |-> <<"deps", deps[i]>>]
     \o [i \in DOMAIN systems |-> <<"registry", systems[i]>>]
     \o IF SchedulingAllowed(r) THEN <<<<"dependents", r>>>> ELSE <<>>
FanOutJob(r, packages, next) ==
  CASE next[1] = "deps" -> DepsJob(next[2], r)
    [] next[1] = "registry" ->
         RegistryJob(r, next[2], {p \in ToSet(RegistryPackages(packages)) : p[1] = next[2]})
    [] OTHER -> DependentsJob(r)

(* associate_repo_with_project.                                             *)
Associate(s) ==
  /\ slots[s].pc = "absorb" /\ slots[s].rest = <<>>
  /\ repos' = [repos EXCEPT ![Job(s).repo].project = Job(s).project]
  /\ Go(s, [slots[s] EXCEPT !.pc = "defer", !.rest = FanOut(Job(s).repo, slots[s].packages)])
  /\ UNCHANGED <<queue, projects, externals, edges, faults, history>>

DeferNext(s) ==
  /\ slots[s].pc = "defer" /\ Job(s).task = "crawl_github_repo" /\ slots[s].rest # <<>>
  /\ Defer(FanOutJob(Job(s).repo, slots[s].packages, Head(slots[s].rest)))
  /\ Go(s, [slots[s] EXCEPT !.rest = Tail(@)])
  /\ UNCHANGED <<worker, round, week, stage, graph, faults, history>>

EndCrawl(s) ==
  /\ slots[s].pc = "defer" /\ Job(s).task = "crawl_github_repo" /\ slots[s].rest = <<>>
  /\ Free(s)
  /\ UNCHANGED <<queue, graph, faults, history>>
-----------------------------------------------------------------------------
(* crawl_package_deps.                                                      *)

(* An unknown package, an error or no requirement ends it, successfully.    *)
FetchRequirements(s) ==
  /\ slots[s].pc = "start" /\ Job(s).task = "crawl_package_deps"
  /\ LET p == Job(s).package
         empty == p \notin KnownPackages \/ Requires(p) = <<>> \/ Job(s).source \notin DOMAIN repos
     IN \/ /\ empty
           /\ Free(s)
           /\ settled' = settled \cup {p}
           /\ UNCHANGED <<faults, applied, abandoned, foreign>>
        \/ /\ ~empty
           /\ Go(s, [pc |-> "write", job |-> Job(s), rest |-> Requires(p), edges |-> {}, new |-> {}])
           /\ UNCHANGED <<faults, history>>
        \/ /\ MayFail /\ Fault(TRUE)
           /\ Free(s)
           /\ UNCHANGED history
  /\ UNCHANGED <<queue, graph>>

(* find_repo_by_release_purl picks one if several match.                    *)
Publishers(id) == {r \in DOMAIN repos : id \in repos[r].releases}
New(s) == IF Busy(s) /\ slots[s].pc = "write" /\ Job(s).task = "crawl_package_deps"
          THEN slots[s].new ELSE {}

(* Mutant: the package itself is deferred again. *)
RecursionToSelf(s, q, r) == DepsJob(Job(s).package, r)
Recursion(s, q, r) == DepsJob(q, r)

(* One requirement: an edge to the Repo that publishes it, whose package is *)
(* crawled in turn, or to an external vertex.  The new job is enqueued at   *)
(* once, the edge only when all requirements are done.                      *)
VisitRequirement(s) ==
  /\ slots[s].pc = "write" /\ Job(s).task = "crawl_package_deps" /\ slots[s].rest # <<>>
  /\ LET q == Head(slots[s].rest)
         id == TaskId(q)
         linked(v, new) == Go(s, [slots[s] EXCEPT !.rest = Tail(@), !.new = @ \cup new,
                                                  !.edges = @ \cup {<<Job(s).source, v>>}])
     IN \/ /\ \E r \in Publishers(id) : linked(r, {}) /\ Defer(Recursion(s, q, r))
           /\ UNCHANGED <<worker, round, week, stage, graph, history>>
        \/ /\ Publishers(id) = {} /\ id \in externals \cup New(s)
           /\ linked(id, {})
           /\ UNCHANGED <<queue, graph, history>>
        \/ /\ Publishers(id) = {} /\ id \notin externals \cup New(s)
           /\ \A t \in Slots : id \notin New(t)
           /\ linked(id, {id})
           /\ UNCHANGED <<queue, graph, history>>
        \/ /\ Publishers(id) = {} /\ id \notin externals \cup New(s)   \* two insertions collide
           /\ \E t \in Slots : id \in New(t)
           /\ Fail(s)
  /\ UNCHANGED faults

CommitDeps(s) ==
  /\ slots[s].pc = "write" /\ Job(s).task = "crawl_package_deps" /\ slots[s].rest = <<>>
  /\ externals' = externals \cup slots[s].new
  /\ edges' = edges \cup slots[s].edges
  /\ Free(s)
  /\ applied' = applied \cup {<<Job(s).package, Job(s).source>>}
  /\ settled' = settled \cup {Job(s).package}
  /\ UNCHANGED <<queue, projects, repos, faults, abandoned, foreign>>

(* crawl_package_registry: each package the registry answers for commits    *)
(* external vertices for its requirements, published or not.  The requests, *)
(* the rows and the dependents are in RegistryCrawl and GithubDependents.   *)
CrawlRegistry(s) ==
  /\ slots[s].pc = "start" /\ QueueOfTask[Job(s).task] = "registry-crawl"
  /\ LET names == IF Job(s).task = "crawl_package_registry" THEN Job(s).names ELSE {}
         listed == {p \in names \cap DOMAIN RegistryRequires : Publishers(Purl(p)) # {}}
         required(p) == {Purl(q) : q \in RegistryRequires[p]}
     IN \E answered \in SUBSET listed :
          /\ answered # listed => MayFail
          /\ Fault(answered # listed)
          /\ externals' = externals \cup UNION {required(p) : p \in answered}
          /\ edges' = edges \cup UNION {Publishers(Purl(p)) \X required(p) : p \in answered}
          /\ foreign' = foreign \cup (externals' \ externals)
  /\ Free(s)
  /\ UNCHANGED <<queue, projects, repos, applied, abandoned, settled>>
-----------------------------------------------------------------------------
(* process_queue.                                                           *)

(* Mutant: the default of --drain-rounds. *)
DefaultRounds(q) == 2
(* --drain-rounds of bootstrap.yml.                                         *)
DrainRounds(q) ==
  CASE q = "opengrants" -> 4 [] q = "package-deps" -> 30 [] q = "registry-crawl" -> 2

Mine(q) == {s \in Slots : QueueOf[s] = q}
AllIdle(q) == \A s \in Mine(q) : ~Busy(s)
Turn(q, state) == worker' = [worker EXCEPT ![q] = state]

(* deps-dev and registries need crawl.                                      *)
MayStart(q) == stage = "seeded" /\ (q # "opengrants" => worker["opengrants"] = "done")

(* _pending_jobs_count.                                                     *)
Pending(q) == todo[q] # EmptyBag

StartWorker(q) ==
  /\ worker[q] = "waiting" /\ MayStart(q)
  /\ Turn(q, IF Pending(q) THEN "fetching" ELSE "done")
  /\ round' = [round EXCEPT ![q] = 1]
  /\ UNCHANGED <<todo, week, stage, slots, graph, faults, history>>

Fetch(s) ==
  LET q == QueueOf[s]
  IN /\ worker[q] = "fetching" /\ ~Busy(s)
     /\ \E job \in Jobs(q) :
          /\ Go(s, [pc |-> "start", job |-> job])
          /\ todo' = [todo EXCEPT ![q] = BagRemove(@, job)]
     /\ UNCHANGED <<worker, round, week, stage, graph, faults, history>>

(* A fetch that finds nothing ends the round; running jobs are awaited.     *)
FetchNothing(q) ==
  /\ worker[q] = "fetching" /\ ~Pending(q)
  /\ \E s \in Mine(q) : ~Busy(s)
  /\ Turn(q, "closing")
  /\ UNCHANGED <<todo, round, week, stage, slots, graph, faults, history>>

EndRound(q) ==
  /\ worker[q] = "closing" /\ AllIdle(q)
  /\ \/ /\ ~Pending(q) \/ round[q] = DrainRounds(q)
        /\ Turn(q, "done") /\ UNCHANGED round
     \/ /\ Pending(q) /\ round[q] < DrainRounds(q)
        /\ Turn(q, "fetching")
        /\ round' = [round EXCEPT ![q] = @ + 1]
  /\ UNCHANGED <<todo, week, stage, slots, graph, faults, history>>

(* The runner is lost or times out: its jobs stay "doing", and the next     *)
(* worker marks them failed (mark_stalled_jobs_failed).                     *)
KillWorker(q) ==
  /\ worker[q] \in {"waiting", "fetching", "closing"} /\ MayStart(q) /\ MayFail
  /\ Turn(q, "killed")
  /\ slots' = [s \in Slots |-> IF s \in Mine(q) THEN Idle ELSE slots[s]]
  /\ abandoned' = abandoned \cup UNION {Unabsorbed(s) : s \in Mine(q)}
  /\ Fault(TRUE)
  /\ UNCHANGED <<todo, round, week, stage, graph, applied, foreign, settled>>
-----------------------------------------------------------------------------
(* The workflow.                                                            *)

(* seed: the defer raises if a root task is still todo, and no worker runs. *)
StartWeek ==
  /\ stage = "over" /\ week < Weeks
  /\ week' = week + 1
  /\ \E selected \in Selections :
       IF Locked(SyncJob(selected))
       THEN UNCHANGED <<todo, worker, stage>>
       ELSE /\ Defer(SyncJob(selected))
            /\ worker' = [q \in Queues |-> "waiting"]
            /\ stage' = "seeded"
  /\ round' = [q \in Queues |-> 0]
  /\ UNCHANGED <<slots, graph, faults, history>>

EndWeek ==
  /\ stage = "seeded"
  /\ worker["opengrants"] # "killed" => \A q \in Queues : worker[q] \in {"done", "killed"}
  /\ worker' = [q \in Queues |-> IF worker[q] = "waiting" THEN "skipped" ELSE worker[q]]
  /\ stage' = "over"
  /\ UNCHANGED <<todo, round, week, slots, graph, faults, history>>

Work(s) ==
  \/ SyncOpengrants(s) \/ ResolveProject(s) \/ UpsertProject(s) \/ DeferRepos(s)
  \/ BeginCrawl(s) \/ UpsertRepoRow(s) \/ AbsorbPackage(s) \/ Associate(s)
  \/ DeferNext(s) \/ EndCrawl(s)
  \/ FetchRequirements(s) \/ VisitRequirement(s) \/ CommitDeps(s) \/ CrawlRegistry(s)
Run(q) == StartWorker(q) \/ FetchNothing(q) \/ EndRound(q)

Next ==
  \/ \E s \in Slots : Work(s) \/ Fetch(s)
  \/ \E q \in Queues : Run(q) \/ KillWorker(q)
  \/ StartWeek \/ EndWeek

Spec == Init /\ [][Next]_vars

(* Jobs and workers go on; a worker that is killed is not a promise.        *)
Fairness ==
  /\ \A s \in Slots : WF_vars(Work(s)) /\ WF_vars(Fetch(s))
  /\ \A q \in Queues : WF_vars(Run(q))
  /\ WF_vars(EndWeek)
FairSpec == Spec /\ Fairness
-----------------------------------------------------------------------------
(* Properties.                                                              *)

(* --drain-rounds=4 is enough for the three levels of the fan-out: a worker *)
(* that was not killed leaves no job of its queue, although a round ends as *)
(* soon as one fetch finds nothing (process_queue).                         *)
RoundsSuffice == worker["opengrants"] = "done" => todo["opengrants"] = EmptyBag

(* Requirements that were committed for a source stay linked to it, through *)
(* every later absorption: to the external vertex of that name or to a Repo *)
(* that claims it.  Only a Repo's own packages leave no edge.               *)
LinksSurvive ==
  \A a \in applied : \A q \in ToSet(Requires(a[1])) :
    LET targets == ({TaskId(q)} \cap externals) \cup {r \in DOMAIN repos : q \in Claims(r)}
    IN q \in Claims(a[2]) \/ \E v \in targets : <<a[2], v>> \in edges

(* An ExternalRepo that a Repo publishes is absorbed ("If an ExternalRepo   *)
(* exists for this package, absorb it", crawl_github_repo), and no crawl of *)
(* deps.dev creates one ("Use find_repo_by_release_purl() to check",        *)
(* implementation-notes.md), although releases are read and written in      *)
(* different steps: both exist only while a crawl is about to absorb the    *)
(* vertex, after a worker was killed before it did, or because an SBOM or a *)
(* registry left the vertex, which do not check (base.py), and no crawl of  *)
(* that package has come by since.                                          *)
TwinsAreUnfinished ==
  \A r \in DOMAIN repos :
    repos[r].releases \cap externals
      \subseteq abandoned \cup foreign \cup UNION {Unabsorbed(s) : s \in Slots}

(* What LinksSurvive and TwinsAreUnfinished suppose of the names deps.dev   *)
(* answers with: no package is named like a repository, and none is         *)
(* required by the encoded purl of a scoped one.                            *)
NamesAreBare ==
  /\ \A r \in Repos : Claims(r) \cap Repos = {}
  /\ \A p \in KnownPackages :
       ToSet(Requires(p)) \cap (Repos \cup {Purl(scoped) : scoped \in Scoped}) = {}

(* Without faults, the bootstrap reaches every package that a repository    *)
(* publishes, although locks swallow defers and insertions collide.         *)
NothingForgotten ==
  worker["package-deps"] = "done" /\ faults = 0 =>
    \A r \in DOMAIN repos : {p \in Claims(r) : Purl(p) \in repos[r].releases} \subseteq settled

(* Every run of the workflow ends ("the worker exits once the queue is      *)
(* drained", worker.py).                                                    *)
BootstrapEnds == stage = "seeded" ~> stage = "over"
=============================================================================
