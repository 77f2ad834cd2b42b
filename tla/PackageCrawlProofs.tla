-------------------------- MODULE PackageCrawlProofs --------------------------
(***************************************************************************)
(* What holds of the weekly bootstrap under any projects, repositories,    *)
(* packages, slots, weeks and faults.                                      *)
(***************************************************************************)
EXTENDS PackageCrawl, ListProofs

-----------------------------------------------------------------------------
(* Bags of jobs.                                                            *)

LEMMA Added ==
  ASSUME NEW B, IsABag(B), NEW x
  PROVE  IsABag(BagAdd(B, x)) /\ DOMAIN BagAdd(B, x) = DOMAIN B \cup {x}
BY DEF IsABag, BagAdd

LEMMA Removed ==
  ASSUME NEW B, IsABag(B), NEW x
  PROVE  IsABag(BagRemove(B, x)) /\ DOMAIN BagRemove(B, x) \subseteq DOMAIN B
BY DEF IsABag, BagRemove

LEMMA AddedAll ==
  ASSUME NEW B, IsABag(B), NEW S
  PROVE  IsABag(B (+) SetToBag(S)) /\ DOMAIN (B (+) SetToBag(S)) = DOMAIN B \cup S
BY DEF IsABag, (+), SetToBag

LEMMA Emptied ==
  /\ IsABag(EmptyBag) /\ DOMAIN EmptyBag = {}
  /\ \A B : IsABag(B) => (B = EmptyBag <=> DOMAIN B = {})
BY DEF IsABag, EmptyBag, SetToBag

-----------------------------------------------------------------------------
(* The inductive invariant.                                                 *)

Root == "opengrants"
Active(q) == worker[q] \in {"fetching", "closing"}
Pcs == {"idle", "start", "write", "absorb", "defer", "commit"}

(* A job is on the queue of its task; the project of a repository exists.   *)
JobFits(job, q) ==
  /\ job.task \in DOMAIN QueueOfTask /\ QueueOfTask[job.task] = q
  /\ job.task = "crawl_github_repo" => job.repo \in Repos /\ job.project \in DOMAIN projects

(* The edges a transaction has yet to commit.                               *)
EndsExist(s) ==
  /\ Job(s).source \in DOMAIN repos
  /\ \A e \in slots[s].edges :
       e[1] \in DOMAIN repos /\ e[2] \in DOMAIN repos \cup externals \cup slots[s].new

(* What a slot knows, as far as its job has got.                            *)
KnowsProject(s) ==
  /\ {"found", "type", "rest", "last"} \subseteq DOMAIN slots[s]
  /\ slots[s].pc \in {"write", "defer"} /\ slots[s].type \in {"scf_project", "public_good"}
  /\ \A job \in slots[s].rest :
       /\ job.task = "crawl_github_repo" /\ job.repo \in Repos
       /\ job.project = Job(s).project.canonical_id
  /\ slots[s].pc = "defer" => Job(s).project.canonical_id \in DOMAIN projects
KnowsRepo(s) ==
  /\ "rest" \in DOMAIN slots[s]
  /\ slots[s].pc # "write" => "packages" \in DOMAIN slots[s] /\ Job(s).repo \in DOMAIN repos
KnowsPackage(s) ==
  slots[s].pc = "write" /\ {"rest", "edges", "new"} \subseteq DOMAIN slots[s] /\ EndsExist(s)
Knows(s) ==
  /\ {"pc", "job"} \subseteq DOMAIN slots[s]
  /\ slots[s].pc \in Pcs
  /\ slots[s].pc # "start" =>
       CASE Job(s).task = "process_project" -> KnowsProject(s)
         [] Job(s).task = "crawl_github_repo" -> KnowsRepo(s)
         [] Job(s).task = "crawl_package_deps" -> KnowsPackage(s)
         [] OTHER -> FALSE

(* Jobs run on the slots of an active worker.                               *)
Runs(s) == Busy(s) => Active(QueueOf[s]) /\ JobFits(Job(s), QueueOf[s]) /\ Knows(s)

JobsFit ==
  /\ DOMAIN todo = Queues
  /\ \A q \in Queues : IsABag(todo[q]) /\ \A job \in Jobs(q) : JobFits(job, q)

(* Packages are crawled when the repositories are done.                     *)
InOrder == \A q \in Queues : Active(q) => stage = "seeded" /\ (q # Root => worker[Root] = "done")

GraphFits ==
  /\ \A id \in DOMAIN projects : projects[id] \in {"scf_project", "public_good"}
  /\ DOMAIN repos \subseteq Repos
  /\ \A r \in DOMAIN repos : repos[r].project \in DOMAIN projects
  /\ \A e \in edges : e[1] \in DOMAIN repos /\ e[2] \in DOMAIN repos \cup externals

Counters ==
  /\ worker \in [Queues -> {"waiting", "fetching", "closing", "done", "killed", "skipped"}]
  /\ round \in [Queues -> 0..30] /\ week \in 0..Weeks /\ stage \in {"seeded", "over"}
  /\ faults \in 0..Faults
  /\ DOMAIN slots = Slots

(* The levels of the fan-out: round n leaves none below n.                  *)
LevelOf == [sync_opengrants |-> 0, process_project |-> 1, crawl_github_repo |-> 2]
Level(job) == LevelOf[job.task]
Drained ==
  LET n == round[Root]
  IN /\ Active(Root) => n >= 1
     /\ worker[Root] = "fetching" => \A job \in Jobs(Root) : Level(job) >= n - 1
     /\ worker[Root] = "closing" => \A job \in Jobs(Root) : Level(job) >= n
     /\ \A s \in Mine(Root) : Busy(s) => Level(Job(s)) >= n - 1
     /\ worker[Root] = "done" => Jobs(Root) = {}

Inv ==
  /\ Counters /\ JobsFit /\ GraphFits /\ InOrder /\ Drained
  /\ \A s \in Slots : Runs(s)

-----------------------------------------------------------------------------
(* Facts about tasks and queues.                                            *)

LEMMA TaskQueues ==
  /\ DOMAIN QueueOfTask = {"sync_opengrants", "process_project", "crawl_github_repo",
                           "crawl_package_deps", "crawl_package_registry", "crawl_github_dependents"}
  /\ QueueOfTask["sync_opengrants"] = Root /\ QueueOfTask["process_project"] = Root
  /\ QueueOfTask["crawl_github_repo"] = Root
  /\ QueueOfTask["crawl_package_deps"] = "package-deps"
  /\ QueueOfTask["crawl_package_registry"] = "registry-crawl"
  /\ QueueOfTask["crawl_github_dependents"] = "registry-crawl"
BY DEF QueueOfTask, Root

LEMMA Levels ==
  /\ LevelOf["sync_opengrants"] = 0 /\ LevelOf["process_project"] = 1 /\ LevelOf["crawl_github_repo"] = 2
BY DEF LevelOf

LEMMA RootLevel ==
  ASSUME NEW job, JobFits(job, Root)
  PROVE  Level(job) \in 0..2 /\ job.task \in {"sync_opengrants", "process_project", "crawl_github_repo"}
BY TaskQueues, Levels DEF JobFits, Level, Root

LEMMA RootQueue == Root \in Queues /\ "package-deps" \in Queues /\ "registry-crawl" \in Queues
BY DEF Root, Queues

LEMMA SlotQueue == ASSUME NEW s \in Slots PROVE QueueOf[s] \in Queues
BY CrawlConstants DEF CrawlConstants

(* What other jobs add leaves a slot what it knows.                         *)
LEMMA Kept ==
  ASSUME NEW t \in Slots, Runs(t), slots'[t] = slots[t], Active(QueueOf[t])',
         DOMAIN projects \subseteq DOMAIN projects', DOMAIN repos \subseteq DOMAIN repos',
         externals \subseteq externals' \/ QueueOf[t] # "package-deps"
  PROVE  Runs(t)'
<1> SUFFICES ASSUME Busy(t) PROVE Runs(t)'
  BY DEF Runs, Busy
<1>1. JobFits(Job(t), QueueOf[t]) /\ Knows(t)
  BY DEF Runs
<1>2. Job(t)' = Job(t)
  BY DEF Job
<1>3. JobFits(Job(t), QueueOf[t])'
  BY <1>1, <1>2 DEF JobFits
<1>4. Knows(t)'
  <2>1. KnowsProject(t) => KnowsProject(t)'
    BY <1>2 DEF KnowsProject
  <2>2. KnowsRepo(t) => KnowsRepo(t)'
    BY <1>2 DEF KnowsRepo
  <2>3. Job(t).task = "crawl_package_deps" => QueueOf[t] = "package-deps"
    BY <1>1, TaskQueues DEF JobFits
  <2>4. Job(t).task = "crawl_package_deps" /\ KnowsPackage(t) => KnowsPackage(t)'
    BY <1>2, <2>3 DEF KnowsPackage, EndsExist
  <2> QED BY <1>1, <1>2, <2>1, <2>2, <2>4 DEF Knows
<1> QED BY <1>3, <1>4 DEF Runs

(* The jobs a step of a slot may add: of a later level, if on its queue.    *)
QueueGrows(s) ==
  /\ JobsFit'
  /\ \A job \in Jobs(Root)' \ Jobs(Root) : QueueOf[s] = Root /\ Level(job) > Level(Job(s))

LEMMA SlotStep ==
  ASSUME Inv, NEW s \in Slots, Busy(s), NEW state, slots' = [slots EXCEPT ![s] = state],
         state.pc # "idle" => state.job = Job(s) /\ Knows(s)',
         UNCHANGED <<worker, round, week, stage>>, faults' \in 0..Faults,
         QueueGrows(s), GraphFits',
         DOMAIN projects \subseteq DOMAIN projects', DOMAIN repos \subseteq DOMAIN repos',
         externals \subseteq externals' \/ QueueOf[s] = Root
  PROVE  Inv'
<1>1. slots'[s] = state /\ DOMAIN slots' = Slots /\ \A t \in Slots \ {s} : slots'[t] = slots[t]
  BY DEF Inv, Counters
<1>2. Counters'
  BY <1>1 DEF Inv, Counters
<1>3. InOrder'
  BY DEF Inv, InOrder, Active
<1>4. Active(QueueOf[s]) /\ JobFits(Job(s), QueueOf[s])
  BY DEF Inv, Runs
<1>5. \A t \in Slots : Active(QueueOf[t])' = Active(QueueOf[t])
  BY DEF Active
<1>6. ASSUME NEW t \in Slots \ {s} PROVE Runs(t)'
  <2>1. CASE ~Busy(t)
    BY <1>1, <2>1 DEF Runs, Busy
  <2>2. CASE Busy(t)
    <3>1. Runs(t) /\ Active(QueueOf[t])
      BY <2>2 DEF Inv, Runs
    <3>2. QueueOf[s] = Root => QueueOf[t] # "package-deps"
      BY <1>4, <3>1, SlotQueue DEF Inv, InOrder, Active, Root
    <3> QED BY <1>1, <1>5, <3>1, <3>2, Kept
  <2> QED BY <2>1, <2>2
<1>7. Runs(s)'
  <2> SUFFICES ASSUME state.pc # "idle" PROVE Runs(s)'
    BY <1>1 DEF Runs, Busy
  <2>1. Job(s)' = Job(s)
    BY <1>1 DEF Job
  <2>2. JobFits(Job(s), QueueOf[s])'
    BY <1>4, <2>1 DEF JobFits
  <2> QED BY <1>4, <1>5, <2>2 DEF Runs
<1>8. Drained'
  <2> DEFINE n == round[Root]
  <2>1. n \in 0..30
    BY RootQueue DEF Inv, Counters
  <2>2. \A t \in Slots : Busy(t)' => Busy(t) /\ Job(t)' = Job(t)
    BY <1>1 DEF Busy, Job
  <2>3. \A t \in Mine(Root) : Busy(t)' => Level(Job(t))' >= n - 1
    BY <2>2 DEF Inv, Drained, Level, Mine
  <2>4. \A job \in Jobs(Root)' \ Jobs(Root) : Active(Root) /\ Level(job) >= n /\ Level(job) >= n - 1
    <3> SUFFICES ASSUME NEW job \in Jobs(Root)' \ Jobs(Root) PROVE Active(Root) /\ Level(job) >= n /\ Level(job) >= n - 1
      OBVIOUS
    <3>1. QueueOf[s] = Root /\ Level(job) > Level(Job(s))
      BY DEF QueueGrows
    <3>2. Level(Job(s)) \in 0..2 /\ Level(Job(s)) >= n - 1
      BY <1>4, <3>1, RootLevel DEF Inv, Drained, Mine
    <3>3. JobFits(job, Root)'
      BY RootQueue DEF QueueGrows, JobsFit
    <3>4. Level(job) \in 0..2
      BY <3>3, TaskQueues, Levels DEF JobFits, Level, Root
    <3> QED BY <1>4, <2>1, <3>1, <3>2, <3>4
  <2>5. UNCHANGED <<worker, round>>
    OBVIOUS
  <2>6. worker[Root] = "fetching" => \A job \in Jobs(Root)' : Level(job) >= n - 1
    BY <2>4 DEF Inv, Drained
  <2>7. worker[Root] = "closing" => \A job \in Jobs(Root)' : Level(job) >= n
    BY <2>4 DEF Inv, Drained
  <2>8. worker[Root] = "done" => Jobs(Root)' = {}
    BY <2>4 DEF Inv, Drained, Active
  <2> QED BY <2>3, <2>5, <2>6, <2>7, <2>8 DEF Inv, Drained, Active, Level
<1> QED BY <1>2, <1>3, <1>6, <1>7, <1>8 DEF Inv, QueueGrows

-----------------------------------------------------------------------------
(* What steps do to the queues.                                             *)

LEMMA QueueKept ==
  ASSUME Inv, NEW s \in Slots, UNCHANGED todo, DOMAIN projects \subseteq DOMAIN projects'
  PROVE  QueueGrows(s)
BY DEF Inv, QueueGrows, JobsFit, JobFits, Jobs

LEMMA QueueBatch ==
  ASSUME Inv, NEW s \in Slots, NEW jobs, BatchDefer(jobs), UNCHANGED projects, QueueOf[s] = Root,
         \A job \in jobs : JobFits(job, Root) /\ Level(job) > Level(Job(s))
  PROVE  QueueGrows(s)
<1>1. DOMAIN todo' = Queues /\ \A q \in Queues \ {Root} : todo'[q] = todo[q]
  BY DEF Inv, JobsFit, BatchDefer, Root
<1>2. todo'[Root] = todo[Root] (+) SetToBag(jobs)
  BY RootQueue DEF Inv, JobsFit, BatchDefer, Root
<1>3. IsABag(todo[Root])
  BY RootQueue DEF Inv, JobsFit
<1>4. IsABag(todo'[Root]) /\ Jobs(Root)' = Jobs(Root) \cup jobs
  BY <1>2, <1>3, AddedAll DEF Jobs
<1>5. \A job, q : JobFits(job, q)' <=> JobFits(job, q)
  BY DEF JobFits
<1>6. JobsFit'
  <2> SUFFICES ASSUME NEW q \in Queues
               PROVE  IsABag(todo'[q]) /\ \A job \in Jobs(q)' : JobFits(job, q)
    BY <1>1, <1>5 DEF JobsFit
  <2>1. CASE q = Root
    BY <1>4, <2>1 DEF Inv, JobsFit
  <2>2. CASE q # Root
    BY <1>1, <2>2 DEF Inv, JobsFit, Jobs
  <2> QED BY <2>1, <2>2
<1> QED BY <1>4, <1>6 DEF QueueGrows

(* Crawls of repositories defer to the other queues.                        *)
LEMMA QueueDefer ==
  ASSUME Inv, NEW s \in Slots, NEW job, Defer(job), UNCHANGED projects,
         job.task \in {"crawl_package_deps", "crawl_package_registry", "crawl_github_dependents"}
  PROVE  QueueGrows(s)
<1> DEFINE q == QueueOfTask[job.task]
<1>1. q \in Queues \ {Root} /\ JobFits(job, q)
  BY TaskQueues, RootQueue DEF JobFits, Root
<1>2. CASE UNCHANGED todo
  BY <1>2, QueueKept
<1>3. CASE todo' = [todo EXCEPT ![q] = BagAdd(@, job)]
  <2>1. DOMAIN todo' = Queues /\ \A o \in Queues \ {q} : todo'[o] = todo[o]
    BY <1>3 DEF Inv, JobsFit
  <2>2. IsABag(todo[q]) /\ todo'[q] = BagAdd(todo[q], job)
    BY <1>1, <1>3 DEF Inv, JobsFit
  <2>3. IsABag(todo'[q]) /\ Jobs(q)' = Jobs(q) \cup {job}
    BY <2>2, Added DEF Jobs
  <2>4. \A other, o : JobFits(other, o)' <=> JobFits(other, o)
    BY DEF JobFits
  <2> HIDE DEF q
  <2>5. JobsFit'
    <3> SUFFICES ASSUME NEW o \in Queues
                 PROVE  IsABag(todo'[o]) /\ \A other \in Jobs(o)' : JobFits(other, o)
      BY <2>1, <2>4 DEF JobsFit
    <3>1. CASE o = q
      BY <1>1, <2>3, <3>1 DEF Inv, JobsFit
    <3>2. CASE o # q
      BY <2>1, <3>2 DEF Inv, JobsFit, Jobs
    <3> QED BY <3>1, <3>2
  <2>6. Jobs(Root)' = Jobs(Root)
    BY <1>1, <2>1, RootQueue DEF Jobs
  <2> QED BY <2>5, <2>6 DEF QueueGrows
<1> QED BY <1>2, <1>3 DEF Defer

LEMMA Faulty ==
  ASSUME Inv, NEW happens \in BOOLEAN, Fault(happens), happens => MayFail
  PROVE  faults' \in 0..Faults
BY CrawlConstants DEF CrawlConstants, Inv, Counters, Fault, MayFail

LEMMA FaultsKept == Inv => faults \in 0..Faults
BY DEF Inv, Counters

LEMMA GraphKept ==
  ASSUME Inv, UNCHANGED graph
  PROVE  GraphFits' /\ UNCHANGED <<projects, repos, externals, edges>>
BY DEF Inv, GraphFits, graph

(* A slot that is freed, with the jobs it deferred.                         *)
LEMMA FreeStep ==
  ASSUME Inv, NEW s \in Slots, Busy(s), Free(s), UNCHANGED <<worker, round, week, stage>>,
         UNCHANGED <<projects, repos>>, faults' \in 0..Faults, QueueGrows(s), GraphFits',
         externals \subseteq externals'
  PROVE  Inv'
<1>1. slots' = [slots EXCEPT ![s] = Idle] /\ Idle.pc = "idle"
  BY DEF Free, Idle
<1> QED BY <1>1, SlotStep

LEMMA FailStep ==
  ASSUME Inv, NEW s \in Slots, Busy(s), Fail(s), faults' \in 0..Faults
  PROVE  Inv'
<1>1. UNCHANGED <<todo, worker, round, week, stage>> /\ Free(s) /\ UNCHANGED graph
  BY DEF Fail, queue
<1>2. QueueGrows(s)
  BY <1>1, GraphKept, QueueKept
<1> QED BY <1>1, <1>2, GraphKept, FreeStep

(* A slot goes on, and the graph stays.                                     *)
LEMMA GoStep ==
  ASSUME Inv, NEW s \in Slots, Busy(s), NEW state, Go(s, state), state.job = Job(s), Knows(s)',
         UNCHANGED <<worker, round, week, stage>>, UNCHANGED graph, faults' \in 0..Faults,
         QueueGrows(s)
  PROVE  Inv'
BY GraphKept, SlotStep DEF Go

LEMMA GoesTo ==
  ASSUME Inv, NEW s \in Slots, NEW state, Go(s, state)
  PROVE  slots'[s] = state
BY DEF Inv, Counters, Go

-----------------------------------------------------------------------------
(* The projects.                                                            *)

LEMMA Working ==
  ASSUME Inv, NEW s \in Slots, slots[s].pc \in Pcs \ {"idle"}
  PROVE  /\ Busy(s) /\ Active(QueueOf[s]) /\ JobFits(Job(s), QueueOf[s]) /\ Knows(s)
         /\ QueueOf[s] = QueueOfTask[Job(s).task]
BY DEF Inv, Runs, Busy, JobFits

LEMMA SyncStep == ASSUME Inv, NEW s \in Slots, SyncOpengrants(s) PROVE Inv'
<1>1. slots[s].pc = "start" /\ Job(s).task = "sync_opengrants"
  BY DEF SyncOpengrants
<1>2. Busy(s) /\ QueueOf[s] = Root /\ Level(Job(s)) = 0
  BY <1>1, Working, TaskQueues, Levels DEF Pcs, Level
<1>3. \/ Fail(s) /\ \E happens \in BOOLEAN : Fault(happens) /\ (happens => MayFail)
      \/ /\ \E projectJobs : BatchDefer({ProjectJob(p) : p \in projectJobs})
         /\ Free(s) /\ UNCHANGED <<worker, round, week, stage, graph, history>>
         /\ \E happens \in BOOLEAN : Fault(happens) /\ (happens => MayFail)
  BY DEF SyncOpengrants
<1>4. faults' \in 0..Faults
  BY <1>3, Faulty
<1>5. CASE Fail(s)
  BY <1>2, <1>4, <1>5, FailStep
<1>6. ASSUME NEW chosen, BatchDefer({ProjectJob(p) : p \in chosen}), Free(s),
             UNCHANGED <<worker, round, week, stage, graph, history>>
      PROVE  Inv'
  <2>1. \A p : JobFits(ProjectJob(p), Root) /\ Level(ProjectJob(p)) = 1
    BY TaskQueues, Levels DEF JobFits, ProjectJob, Level
  <2>2. QueueGrows(s)
    BY <1>2, <1>6, <2>1, GraphKept, QueueBatch
  <2>3. GraphFits' /\ UNCHANGED <<projects, repos, externals>>
    BY <1>6, GraphKept
  <2> QED BY <1>2, <1>4, <1>6, <2>2, <2>3, FreeStep
<1> QED BY <1>3, <1>5, <1>6

LEMMA ReposFound ==
  ASSUME NEW owner, NEW named, NEW unavailable
  PROVE  ReposToCrawl(owner, named, FALSE, unavailable) \subseteq Repos
BY DEF ReposToCrawl, Repos

LEMMA ResolveStep == ASSUME Inv, NEW s \in Slots, ResolveProject(s) PROVE Inv'
<1> DEFINE p == Job(s).project
<1>1. slots[s].pc = "start" /\ Job(s).task = "process_project" /\ UNCHANGED <<queue, graph, history>>
  BY DEF ResolveProject
<1>2. Busy(s)
  BY <1>1, Working DEF Pcs
<1>3. PICK state :
        /\ Go(s, state) /\ \E happens \in BOOLEAN : Fault(happens) /\ (happens => MayFail)
        /\ DOMAIN state = {"pc", "job", "found", "type", "rest", "last"}
        /\ state.pc = "write" /\ state.job = Job(s) /\ state.type \in {"scf_project", "public_good"}
        /\ \A job \in state.rest :
             job.task = "crawl_github_repo" /\ job.repo \in Repos /\ job.project = p.canonical_id
  <2>1. PICK unavailable \in SUBSET (Repos \cup {p.owner}), failing \in SUBSET (Repos \cup {p.owner}),
             batchFails \in BOOLEAN :
          LET education == p.category = "Education & Community"
              crawled == IF education THEN {} ELSE ReposToCrawl(p.owner, p.repos, FALSE, unavailable)
              packages == ProjectPackages(crawled, batchFails, failing)
              faulty == unavailable \cup failing # {} \/ batchFails
          IN /\ faulty => MayFail
             /\ Fault(faulty)
             /\ Go(s, [pc |-> "write", job |-> Job(s), found |-> p.canonical_id \in DOMAIN projects,
                       type |-> IF \E r \in crawled : packages[r] # <<>>
                                THEN "public_good" ELSE "scf_project",
                       rest |-> {RepoJob(r, p.canonical_id, packages[r]) : r \in crawled},
                       last |-> education])
    BY DEF ResolveProject
  <2> DEFINE education == p.category = "Education & Community"
             crawled == IF education THEN {} ELSE ReposToCrawl(p.owner, p.repos, FALSE, unavailable)
             packages == ProjectPackages(crawled, batchFails, failing)
             faulty == unavailable \cup failing # {} \/ batchFails
             type == IF \E r \in crawled : packages[r] # <<>> THEN "public_good" ELSE "scf_project"
             found == p.canonical_id \in DOMAIN projects
             rest == {RepoJob(r, p.canonical_id, packages[r]) : r \in crawled}
             state == [pc |-> "write", job |-> Job(s), found |-> found, type |-> type, rest |-> rest,
                       last |-> education]
  <2>2. crawled \subseteq Repos /\ type \in {"scf_project", "public_good"} /\ faulty \in BOOLEAN
    BY ReposFound
  <2>3. Go(s, state) /\ Fault(faulty) /\ (faulty => MayFail)
    BY <2>1
  <2> HIDE DEF education, crawled, packages, faulty, type, found
  <2>4. \A job \in rest : job.task = "crawl_github_repo" /\ job.repo \in Repos /\ job.project = p.canonical_id
    BY <2>2 DEF RepoJob
  <2> HIDE DEF rest
  <2>5. /\ DOMAIN state = {"pc", "job", "found", "type", "rest", "last"}
        /\ state.pc = "write" /\ state.job = Job(s) /\ state.type = type /\ state.rest = rest
    OBVIOUS
  <2> HIDE DEF state
  <2> QED BY <2>2, <2>3, <2>4, <2>5
<1>4. faults' \in 0..Faults
  BY <1>3, Faulty
<1>5. slots'[s] = state
  BY <1>3, GoesTo
<1>6. Job(s)' = Job(s)
  BY <1>3, <1>5 DEF Job
<1>7. KnowsProject(s)'
  BY <1>3, <1>5, <1>6 DEF KnowsProject
<1>8. Knows(s)'
  BY <1>1, <1>3, <1>5, <1>6, <1>7 DEF Knows, Pcs
<1>9. UNCHANGED <<worker, round, week, stage>> /\ QueueGrows(s)
  BY <1>1, GraphKept, QueueKept DEF queue
<1> QED BY <1>1, <1>2, <1>3, <1>4, <1>8, <1>9, GoStep

LEMMA UpsertProjectStep == ASSUME Inv, NEW s \in Slots, UpsertProject(s) PROVE Inv'
<1> DEFINE id == Job(s).project.canonical_id
           state == IF slots[s].last THEN Idle ELSE [slots[s] EXCEPT !.pc = "defer"]
<1>1. slots[s].pc = "write" /\ Job(s).task = "process_project" /\ UNCHANGED faults
  BY DEF UpsertProject
<1>2. Busy(s) /\ KnowsProject(s) /\ {"pc", "job"} \subseteq DOMAIN slots[s]
  BY <1>1, Working DEF Pcs, Knows
<1>3. CASE Fail(s)
  BY <1>1, <1>2, <1>3, FailStep, FaultsKept
<1>4. CASE projects' = Upserted(projects, id, slots[s].type) /\ Go(s, state)
           /\ UNCHANGED <<queue, repos, externals, edges, history>>
  <2>1. /\ DOMAIN projects' = DOMAIN projects \cup {id}
        /\ \A k \in DOMAIN projects' : projects'[k] = IF k = id THEN slots[s].type ELSE projects[k]
    BY <1>4 DEF Upserted
  <2>2. GraphFits'
    BY <1>2, <1>4, <2>1 DEF Inv, GraphFits, KnowsProject
  <2>3. UNCHANGED <<todo, worker, round, week, stage, repos, externals>>
    BY <1>4 DEF queue
  <2>4. QueueGrows(s)
    BY <2>1, <2>3, QueueKept
  <2>5. state.pc # "idle" => /\ state = [slots[s] EXCEPT !.pc = "defer"]
                             /\ DOMAIN state = DOMAIN slots[s] /\ state.pc = "defer"
                             /\ \A x \in DOMAIN slots[s] \ {"pc"} : state[x] = slots[s][x]
    BY <1>2 DEF Idle
  <2>6. slots'[s] = state
    BY <1>4, GoesTo
  <2> HIDE DEF state
  <2>7. ASSUME state.pc # "idle" PROVE state.job = Job(s) /\ Knows(s)'
    <3>1. Job(s)' = Job(s) /\ state.job = Job(s)
      BY <1>2, <2>5, <2>6, <2>7 DEF Job
    <3>2. KnowsProject(s)'
      BY <1>2, <2>1, <2>5, <2>6, <2>7, <3>1 DEF KnowsProject
    <3> QED BY <1>1, <1>2, <2>5, <2>6, <2>7, <3>1, <3>2 DEF Knows, Pcs
  <2>8. slots' = [slots EXCEPT ![s] = state]
    BY <1>4 DEF Go
  <2> QED BY <1>1, <1>2, <2>1, <2>2, <2>3, <2>4, <2>7, <2>8, SlotStep, FaultsKept
<1> QED BY <1>3, <1>4 DEF UpsertProject

LEMMA DeferReposStep == ASSUME Inv, NEW s \in Slots, DeferRepos(s) PROVE Inv'
<1>1. /\ slots[s].pc = "defer" /\ Job(s).task = "process_project" /\ BatchDefer(slots[s].rest) /\ Free(s)
      /\ UNCHANGED <<worker, round, week, stage, graph, faults>>
  BY DEF DeferRepos
<1>2. Busy(s) /\ KnowsProject(s) /\ QueueOf[s] = Root /\ Level(Job(s)) = 1
  BY <1>1, Working, TaskQueues, Levels DEF Pcs, Knows, Level
<1>3. \A job \in slots[s].rest : JobFits(job, Root) /\ Level(job) = 2
  BY <1>1, <1>2, TaskQueues, Levels DEF KnowsProject, JobFits, Level
<1>4. GraphFits' /\ UNCHANGED <<projects, repos, externals>>
  BY <1>1, GraphKept
<1>5. QueueGrows(s)
  BY <1>1, <1>2, <1>3, <1>4, QueueBatch
<1> QED BY <1>1, <1>2, <1>4, <1>5, FreeStep, FaultsKept

-----------------------------------------------------------------------------
(* The repositories.                                                        *)

LEMMA CrawlBegins ==
  ASSUME NEW s \in Slots, BeginCrawl(s)
  PROVE  LET r == Job(s).repo
             detects == Job(s).packages = <<>>
             all == Pages(r)
         IN \E pages \in 0..all, unreadable \in SUBSET ToSet(Manifests[r]), failing \in SUBSET KnownPackages,
               faulty \in BOOLEAN : \E packages, answered :
              /\ packages = IF detects THEN DetectPackages(r, ReadManifests(r, pages, unreadable)) ELSE Job(s).packages
              /\ answered = {p \in ToSet(packages) : p[1] \in DepsDevSystems /\ p \in KnownPackages \ failing}
              /\ failing # {} => faulty
              /\ (faulty => MayFail) /\ Fault(faulty)
              /\ \/ Fail(s)
                 \/ /\ Go(s, [pc |-> "write", job |-> Job(s), found |-> r \in DOMAIN repos,
                              read |-> IF r \in DOMAIN repos THEN repos[r].releases ELSE {},
                              releases |-> {Purl(p) : p \in Released(packages, answered)}, rest |-> packages])
                    /\ UNCHANGED <<queue, graph, history>>
<1> DEFINE r == Job(s).repo
           detects == Job(s).packages = <<>>
           all == Pages(r)
           read(pages, unreadable) == IF detects THEN ReadManifests(r, pages, unreadable) ELSE <<>>
           found(manifests) == IF detects THEN DetectPackages(r, manifests) ELSE Job(s).packages
           ends(packages, answered) ==
             \/ Fail(s)
             \/ /\ Go(s, [pc |-> "write", job |-> Job(s), found |-> r \in DOMAIN repos,
                          read |-> IF r \in DOMAIN repos THEN repos[r].releases ELSE {},
                          releases |-> {Purl(p) : p \in Released(packages, answered)}, rest |-> packages])
                /\ UNCHANGED <<queue, graph, history>>
           begun(pages, unreadable, failing, manifests, packages) ==
             LET answered == {p \in ToSet(packages) : p[1] \in DepsDevSystems /\ p \in KnownPackages \ failing}
                 faulty == pages < all \/ unreadable # {} \/ failing # {}
             IN /\ failing \subseteq ToSet(packages)
                /\ Cardinality(failing) + Cardinality(unreadable) + (all - pages) <= 1
                /\ ~detects => pages = all /\ unreadable = {}
                /\ faulty => MayFail
                /\ Fault(faulty)
                /\ \/ /\ \E i \in DOMAIN manifests : DecodingRaises(manifests[i])
                      /\ Fail(s)
                   \/ /\ \A i \in DOMAIN manifests : ~DecodingRaises(manifests[i])
                      /\ Go(s, [pc |-> "write", job |-> Job(s), found |-> r \in DOMAIN repos,
                                read |-> IF r \in DOMAIN repos THEN repos[r].releases ELSE {},
                                releases |-> {Purl(p) : p \in Released(packages, answered)}, rest |-> packages])
                      /\ UNCHANGED <<queue, graph, history>>
           goal(pages, unreadable, failing, faulty, packages, answered) ==
             /\ packages = IF detects THEN DetectPackages(r, ReadManifests(r, pages, unreadable)) ELSE Job(s).packages
             /\ answered = {p \in ToSet(packages) : p[1] \in DepsDevSystems /\ p \in KnownPackages \ failing}
             /\ failing # {} => faulty
             /\ (faulty => MayFail) /\ Fault(faulty)
             /\ ends(packages, answered)
<1>1. \E pages \in 0..all, unreadable \in SUBSET ToSet(Manifests[r]), failing \in SUBSET KnownPackages :
        \E manifests \in {read(pages, unreadable)} :
        \E packages \in {found(manifests)} : begun(pages, unreadable, failing, manifests, packages)
  BY DEF BeginCrawl
<1>2. PICK pages \in 0..all, unreadable \in SUBSET ToSet(Manifests[r]), failing \in SUBSET KnownPackages :
        begun(pages, unreadable, failing, read(pages, unreadable), found(read(pages, unreadable)))
  <2> HIDE DEF begun, read, found
  <2> QED BY <1>1
<1> DEFINE packages == found(read(pages, unreadable))
           answered == {p \in ToSet(packages) : p[1] \in DepsDevSystems /\ p \in KnownPackages \ failing}
           faulty == pages < all \/ unreadable # {} \/ failing # {}
<1>3. packages = IF detects THEN DetectPackages(r, ReadManifests(r, pages, unreadable)) ELSE Job(s).packages
  OBVIOUS
<1>4. (faulty => MayFail) /\ Fault(faulty) /\ ends(packages, answered)
  <2> DEFINE manifests == read(pages, unreadable)
  <2>1. begun(pages, unreadable, failing, manifests, packages)
    BY <1>2
  <2> HIDE DEF read, found, packages, manifests
  <2> QED BY <2>1, Zenon
<1>5. answered = {p \in ToSet(packages) : p[1] \in DepsDevSystems /\ p \in KnownPackages \ failing}
  OBVIOUS
<1>6. faulty \in BOOLEAN /\ (failing # {} => faulty)
  OBVIOUS
<1> HIDE DEF answered, faulty, packages, ends
<1>7. goal(pages, unreadable, failing, faulty, packages, answered)
  BY <1>3, <1>4, <1>5, <1>6
<1> HIDE DEF goal
<1>8. \E pgs \in 0..all, unr \in SUBSET ToSet(Manifests[r]), fls \in SUBSET KnownPackages, fty \in BOOLEAN :
        \E pks, ans : goal(pgs, unr, fls, fty, pks, ans)
  BY <1>6, <1>7
<1> QED BY <1>8 DEF goal, ends

LEMMA BeginStep == ASSUME Inv, NEW s \in Slots, BeginCrawl(s) PROVE Inv'
<1>1. slots[s].pc = "start" /\ Job(s).task = "crawl_github_repo"
  BY DEF BeginCrawl
<1>2. Busy(s)
  BY <1>1, Working DEF Pcs
<1>3. /\ \E happens \in BOOLEAN : Fault(happens) /\ (happens => MayFail)
      /\ \/ Fail(s)
         \/ /\ \E found, read, releases, packages :
                 Go(s, [pc |-> "write", job |-> Job(s), found |-> found, read |-> read,
                        releases |-> releases, rest |-> packages])
            /\ UNCHANGED <<queue, graph, history>>
  <2>1. PICK packages, answered, faulty :
          /\ faulty \in BOOLEAN
          /\ (faulty => MayFail) /\ Fault(faulty)
          /\ \/ Fail(s)
             \/ /\ Go(s, [pc |-> "write", job |-> Job(s), found |-> Job(s).repo \in DOMAIN repos,
                          read |-> IF Job(s).repo \in DOMAIN repos THEN repos[Job(s).repo].releases ELSE {},
                          releases |-> {Purl(p) : p \in Released(packages, answered)}, rest |-> packages])
                /\ UNCHANGED <<queue, graph, history>>
    BY CrawlBegins
  <2> DEFINE found == Job(s).repo \in DOMAIN repos
             read == IF Job(s).repo \in DOMAIN repos THEN repos[Job(s).repo].releases ELSE {}
             releases == {Purl(p) : p \in Released(packages, answered)}
  <2>2. \/ Fail(s)
        \/ /\ Go(s, [pc |-> "write", job |-> Job(s), found |-> found, read |-> read,
                     releases |-> releases, rest |-> packages])
           /\ UNCHANGED <<queue, graph, history>>
    BY <2>1
  <2> HIDE DEF found, read, releases
  <2> QED BY <2>1, <2>2
<1>4. faults' \in 0..Faults
  BY <1>3, Faulty
<1>5. CASE Fail(s)
  BY <1>2, <1>4, <1>5, FailStep
<1>6. ASSUME NEW found, NEW read, NEW releases, NEW packages, UNCHANGED <<queue, graph, history>>,
             Go(s, [pc |-> "write", job |-> Job(s), found |-> found, read |-> read,
                    releases |-> releases, rest |-> packages])
      PROVE  Inv'
  <2> DEFINE state == [pc |-> "write", job |-> Job(s), found |-> found, read |-> read,
                       releases |-> releases, rest |-> packages]
  <2>1. slots'[s] = state
    BY <1>6, GoesTo
  <2>2. Job(s)' = Job(s)
    BY <2>1 DEF Job
  <2>3. Knows(s)'
    BY <1>1, <2>1, <2>2 DEF Knows, KnowsRepo, Pcs
  <2>4. UNCHANGED <<worker, round, week, stage>> /\ QueueGrows(s)
    BY <1>6, GraphKept, QueueKept DEF queue
  <2>5. Go(s, state) /\ state.job = Job(s) /\ UNCHANGED graph
    BY <1>6
  <2> QED BY <1>2, <1>4, <2>3, <2>4, <2>5, GoStep
<1> QED BY <1>3, <1>5, <1>6

LEMMA UpsertRepoStep == ASSUME Inv, NEW s \in Slots, UpsertRepoRow(s) PROVE Inv'
<1> DEFINE r == Job(s).repo
           row == [project |-> Job(s).project, releases |-> slots[s].read \cup slots[s].releases]
           state == [pc |-> "absorb", job |-> Job(s), packages |-> slots[s].rest, rest |-> slots[s].rest]
<1>1. slots[s].pc = "write" /\ Job(s).task = "crawl_github_repo" /\ UNCHANGED faults
  BY DEF UpsertRepoRow
<1>2. Busy(s) /\ r \in Repos /\ Job(s).project \in DOMAIN projects
  BY <1>1, Working DEF Pcs, JobFits
<1>3. CASE Fail(s)
  BY <1>1, <1>2, <1>3, FailStep, FaultsKept
<1>4. CASE repos' = Upserted(repos, r, row) /\ Go(s, state)
           /\ UNCHANGED <<queue, projects, externals, edges, history>>
  <2>1. /\ DOMAIN repos' = DOMAIN repos \cup {r}
        /\ \A k \in DOMAIN repos' : repos'[k] = IF k = r THEN row ELSE repos[k]
    BY <1>4 DEF Upserted
  <2>2. row.project = Job(s).project
    OBVIOUS
  <2> HIDE DEF row
  <2>3. GraphFits'
    BY <1>2, <1>4, <2>1, <2>2 DEF Inv, GraphFits
  <2>4. UNCHANGED <<todo, worker, round, week, stage, projects, externals>>
    BY <1>4 DEF queue
  <2>5. QueueGrows(s)
    BY <2>4, QueueKept
  <2>6. slots'[s] = state
    BY <1>4, GoesTo
  <2>7. Job(s)' = Job(s)
    BY <2>6 DEF Job
  <2>8. Knows(s)'
    BY <1>1, <2>1, <2>6, <2>7 DEF Knows, KnowsRepo, Pcs
  <2>9. slots' = [slots EXCEPT ![s] = state] /\ state.job = Job(s)
    BY <1>4 DEF Go
  <2> QED BY <1>1, <1>2, <2>1, <2>3, <2>4, <2>5, <2>8, <2>9, SlotStep, FaultsKept
<1> QED BY <1>3, <1>4 DEF UpsertRepoRow

(* A step of a crawl after the row was upserted.                            *)
LEMMA CrawlGoes ==
  ASSUME Inv, NEW s \in Slots, slots[s].pc \in {"absorb", "defer"}, Job(s).task = "crawl_github_repo",
         NEW pc \in {"absorb", "defer"}, NEW rest,
         Go(s, [slots[s] EXCEPT !.pc = pc, !.rest = rest]),
         DOMAIN repos \subseteq DOMAIN repos'
  PROVE  /\ Busy(s) /\ QueueOf[s] = Root
         /\ Job(s).repo \in DOMAIN repos /\ Job(s).project \in DOMAIN projects
         /\ \E state : slots' = [slots EXCEPT ![s] = state] /\ state.job = Job(s) /\ Knows(s)'
<1>1. Busy(s) /\ Knows(s) /\ JobFits(Job(s), QueueOf[s]) /\ QueueOf[s] = Root
  BY Working, TaskQueues DEF Pcs
<1>2. {"pc", "job", "rest", "packages"} \subseteq DOMAIN slots[s] /\ Job(s).repo \in DOMAIN repos
  BY <1>1 DEF Knows, KnowsRepo
<1> DEFINE state == [slots[s] EXCEPT !.pc = pc, !.rest = rest]
<1>3. DOMAIN state = DOMAIN slots[s] /\ state.pc = pc /\ state.job = slots[s].job
  BY <1>2
<1>4. slots' = [slots EXCEPT ![s] = state] /\ slots'[s] = state
  BY GoesTo DEF Go
<1> HIDE DEF state
<1>5. Job(s)' = Job(s) /\ state.job = Job(s)
  BY <1>3, <1>4 DEF Job
<1>6. Knows(s)'
  BY <1>2, <1>3, <1>4, <1>5 DEF Knows, KnowsRepo, Pcs
<1> QED BY <1>1, <1>2, <1>4, <1>5, <1>6 DEF JobFits

LEMMA AbsorbStep == ASSUME Inv, NEW s \in Slots, AbsorbPackage(s) PROVE Inv'
<1> DEFINE gone == Absorbed(Head(slots[s].rest))
           r == Job(s).repo
<1>1. /\ slots[s].pc = "absorb" /\ slots[s].rest # <<>>
      /\ externals' = externals \ gone /\ edges' = EdgesMoved(gone, r)
      /\ Go(s, [slots[s] EXCEPT !.rest = Tail(@)])
      /\ UNCHANGED <<queue, projects, repos, faults>>
  BY DEF AbsorbPackage
<1>2. Knows(s)
  BY <1>1, Working DEF Pcs
<1>3. Job(s).task = "crawl_github_repo"
  BY <1>1, <1>2 DEF Knows, KnowsProject, KnowsPackage
<1>4. Go(s, [slots[s] EXCEPT !.pc = "absorb", !.rest = Tail(slots[s].rest)])
  <2>1. {"pc", "rest"} \subseteq DOMAIN slots[s]
    BY <1>1, <1>2, <1>3 DEF Knows, KnowsRepo
  <2> DEFINE rest == Tail(slots[s].rest)
  <2> HIDE DEF rest
  <2>2. [slots[s] EXCEPT !.rest = rest] = [slots[s] EXCEPT !.pc = "absorb", !.rest = rest]
    BY <1>1, <2>1
  <2> QED BY <1>1, <2>2 DEF rest
<1>5. UNCHANGED <<todo, worker, round, week, stage>>
  BY <1>1 DEF queue
<1>6. /\ Busy(s) /\ QueueOf[s] = Root /\ r \in DOMAIN repos
      /\ \E state : slots' = [slots EXCEPT ![s] = state] /\ state.job = Job(s) /\ Knows(s)'
  BY <1>1, <1>3, <1>4, CrawlGoes
<1>7. GraphFits'
  <2>1. \A e \in edges' : e[1] \in DOMAIN repos /\ e[2] \in DOMAIN repos \cup externals'
    BY <1>1, <1>6 DEF EdgesMoved, Inv, GraphFits
  <2> QED BY <1>1, <2>1 DEF Inv, GraphFits
<1>8. QueueGrows(s)
  BY <1>1, <1>5, QueueKept
<1>9. DOMAIN projects \subseteq DOMAIN projects' /\ DOMAIN repos \subseteq DOMAIN repos' /\ faults' \in 0..Faults
  BY <1>1, FaultsKept
<1> HIDE DEF gone, r
<1> QED BY <1>5, <1>6, <1>7, <1>8, <1>9, SlotStep

LEMMA AssociateStep == ASSUME Inv, NEW s \in Slots, Associate(s) PROVE Inv'
<1> DEFINE r == Job(s).repo
<1>1. /\ slots[s].pc = "absorb" /\ repos' = [repos EXCEPT ![r].project = Job(s).project]
      /\ UNCHANGED <<queue, projects, externals, edges, faults>>
      /\ \E rest : Go(s, [slots[s] EXCEPT !.pc = "defer", !.rest = rest])
  BY DEF Associate
<1>2. Job(s).task = "crawl_github_repo"
  BY <1>1, Working DEF Pcs, Knows, KnowsProject, KnowsPackage
<1>3. UNCHANGED <<todo, worker, round, week, stage>> /\ DOMAIN repos' = DOMAIN repos
  BY <1>1 DEF queue
<1>4. /\ Busy(s) /\ r \in DOMAIN repos /\ Job(s).project \in DOMAIN projects
      /\ \E state : slots' = [slots EXCEPT ![s] = state] /\ state.job = Job(s) /\ Knows(s)'
  BY <1>1, <1>2, <1>3, CrawlGoes
<1>5. GraphFits'
  <2>1. \A k \in DOMAIN repos : repos'[k].project \in DOMAIN projects
    BY <1>1, <1>4 DEF Inv, GraphFits
  <2> QED BY <1>1, <1>3, <2>1 DEF Inv, GraphFits
<1>6. QueueGrows(s)
  BY <1>1, <1>3, QueueKept
<1>7. DOMAIN projects \subseteq DOMAIN projects' /\ faults' \in 0..Faults /\ externals \subseteq externals'
  BY <1>1, FaultsKept
<1> QED BY <1>3, <1>4, <1>5, <1>6, <1>7, SlotStep

LEMMA DeferNextStep == ASSUME Inv, NEW s \in Slots, DeferNext(s) PROVE Inv'
<1>1. /\ slots[s].pc = "defer" /\ Job(s).task = "crawl_github_repo"
      /\ Defer(FanOutJob(Job(s).repo, slots[s].packages, Head(slots[s].rest)))
      /\ Go(s, [slots[s] EXCEPT !.rest = Tail(@)])
      /\ UNCHANGED <<worker, round, week, stage, graph, faults>>
  BY DEF DeferNext
<1>2. GraphFits' /\ UNCHANGED <<projects, repos, externals>>
  BY <1>1, GraphKept
<1>3. Go(s, [slots[s] EXCEPT !.pc = "defer", !.rest = Tail(slots[s].rest)])
  <2>1. {"pc", "rest"} \subseteq DOMAIN slots[s]
    BY <1>1, Working DEF Knows, KnowsRepo, Pcs
  <2> DEFINE rest == Tail(slots[s].rest)
  <2> HIDE DEF rest
  <2>2. [slots[s] EXCEPT !.rest = rest] = [slots[s] EXCEPT !.pc = "defer", !.rest = rest]
    BY <1>1, <2>1
  <2> QED BY <1>1, <2>2 DEF rest
<1>4. /\ Busy(s)
      /\ \E state : slots' = [slots EXCEPT ![s] = state] /\ state.job = Job(s) /\ Knows(s)'
  BY <1>1, <1>2, <1>3, CrawlGoes
<1>5. \A repo, packages, next : FanOutJob(repo, packages, next).task
        \in {"crawl_package_deps", "crawl_package_registry", "crawl_github_dependents"}
  BY DEF FanOutJob, DepsJob, RegistryJob, DependentsJob
<1>6. QueueGrows(s)
  BY <1>1, <1>2, <1>5, QueueDefer
<1> QED BY <1>1, <1>2, <1>4, <1>6, SlotStep, FaultsKept

LEMMA EndCrawlStep == ASSUME Inv, NEW s \in Slots, EndCrawl(s) PROVE Inv'
<1>1. /\ slots[s].pc = "defer" /\ Free(s) /\ UNCHANGED <<todo, worker, round, week, stage>>
      /\ UNCHANGED graph /\ UNCHANGED faults
  BY DEF EndCrawl, queue
<1>2. Busy(s)
  BY <1>1 DEF Busy
<1>3. QueueGrows(s)
  BY <1>1, GraphKept, QueueKept
<1> QED BY <1>1, <1>2, <1>3, GraphKept, FreeStep, FaultsKept

-----------------------------------------------------------------------------
(* The packages.                                                            *)

LEMMA RequirementsStep == ASSUME Inv, NEW s \in Slots, FetchRequirements(s) PROVE Inv'
<1> DEFINE p == Job(s).package
           state == [pc |-> "write", job |-> Job(s), rest |-> Requires(p), edges |-> {}, new |-> {}]
<1>1. /\ slots[s].pc = "start" /\ Job(s).task = "crawl_package_deps"
      /\ UNCHANGED <<todo, worker, round, week, stage>> /\ UNCHANGED graph
  BY DEF FetchRequirements, queue
<1>2. Busy(s)
  BY <1>1 DEF Busy
<1>3. \/ Free(s) /\ (UNCHANGED faults \/ (MayFail /\ Fault(TRUE)))
      \/ Job(s).source \in DOMAIN repos /\ Go(s, state) /\ UNCHANGED faults
  BY DEF FetchRequirements
<1>4. faults' \in 0..Faults
  BY <1>3, Faulty, FaultsKept
<1>5. QueueGrows(s)
  BY <1>1, GraphKept, QueueKept
<1>6. CASE Free(s)
  BY <1>1, <1>2, <1>4, <1>5, <1>6, GraphKept, FreeStep
<1>7. CASE Job(s).source \in DOMAIN repos /\ Go(s, state)
  <2>1. slots'[s] = state
    BY <1>7, GoesTo
  <2>2. Job(s)' = Job(s)
    BY <2>1 DEF Job
  <2>3. UNCHANGED repos
    BY <1>1, GraphKept
  <2>4. KnowsPackage(s)'
    BY <1>7, <2>1, <2>2, <2>3 DEF KnowsPackage, EndsExist
  <2>5. Knows(s)'
    BY <1>1, <2>1, <2>2, <2>4 DEF Knows, Pcs
  <2> QED BY <1>1, <1>2, <1>4, <1>5, <1>7, <2>5, GoStep
<1> QED BY <1>3, <1>6, <1>7

LEMMA VisitStep == ASSUME Inv, NEW s \in Slots, VisitRequirement(s) PROVE Inv'
<1> DEFINE id == TaskId(Head(slots[s].rest))
           rest == Tail(slots[s].rest)
<1>1. /\ slots[s].pc = "write" /\ Job(s).task = "crawl_package_deps" /\ UNCHANGED faults
  BY DEF VisitRequirement
<1>2. Busy(s) /\ KnowsPackage(s) /\ {"pc", "job"} \subseteq DOMAIN slots[s] /\ QueueOf[s] = "package-deps"
  BY <1>1, Working, TaskQueues DEF Knows, Pcs
<1>3. \/ Fail(s)
      \/ \E v, new :
           /\ v \in DOMAIN repos \cup externals \cup slots[s].new \cup new
           /\ Go(s, [slots[s] EXCEPT !.rest = rest, !.new = @ \cup new, !.edges = @ \cup {<<Job(s).source, v>>}])
           /\ UNCHANGED todo \/ \E q, r : Defer(Recursion(s, q, r))
           /\ UNCHANGED <<worker, round, week, stage>> /\ UNCHANGED graph
  <2> DEFINE linked(v, new) ==
               Go(s, [slots[s] EXCEPT !.rest = rest, !.new = @ \cup new, !.edges = @ \cup {<<Job(s).source, v>>}])
  <2>1. \/ /\ \E r \in Publishers(id) : linked(r, {}) /\ Defer(Recursion(s, Head(slots[s].rest), r))
           /\ UNCHANGED <<worker, round, week, stage, graph, history>>
        \/ /\ id \in externals \cup New(s) /\ linked(id, {})
           /\ UNCHANGED <<queue, graph, history>>
        \/ linked(id, {id}) /\ UNCHANGED <<queue, graph, history>>
        \/ Fail(s)
    BY DEF VisitRequirement
  <2>2. \A r \in Publishers(id) : r \in DOMAIN repos
    BY DEF Publishers
  <2>3. New(s) = slots[s].new
    BY <1>1, <1>2 DEF New
  <2> HIDE DEF id, linked
  <2>4. ASSUME NEW v, NEW new, linked(v, new), v \in DOMAIN repos \cup externals \cup slots[s].new \cup new,
               UNCHANGED todo \/ \E q, r : Defer(Recursion(s, q, r)),
               UNCHANGED <<worker, round, week, stage>>, UNCHANGED graph
        PROVE  \E w, fresh :
                 /\ w \in DOMAIN repos \cup externals \cup slots[s].new \cup fresh
                 /\ linked(w, fresh)
                 /\ UNCHANGED todo \/ \E q, r : Defer(Recursion(s, q, r))
                 /\ UNCHANGED <<worker, round, week, stage>> /\ UNCHANGED graph
    BY <2>4
  <2>5. ASSUME NEW r \in Publishers(id), linked(r, {}), Defer(Recursion(s, Head(slots[s].rest), r)),
               UNCHANGED <<worker, round, week, stage, graph, history>>
        PROVE  \E w, fresh :
                 /\ w \in DOMAIN repos \cup externals \cup slots[s].new \cup fresh
                 /\ linked(w, fresh)
                 /\ UNCHANGED todo \/ \E q, t : Defer(Recursion(s, q, t))
                 /\ UNCHANGED <<worker, round, week, stage>> /\ UNCHANGED graph
    <3>1. r \in DOMAIN repos \cup externals \cup slots[s].new \cup {}
      BY <2>2, <2>5
    <3>2. \E q, t : Defer(Recursion(s, q, t))
      BY <2>5
    <3> QED BY <2>4, <2>5, <3>1, <3>2
  <2>6. ASSUME UNCHANGED <<queue, graph, history>>, NEW fresh, linked(id, fresh),
               id \in externals \cup slots[s].new \cup fresh
        PROVE  \E w, f :
                 /\ w \in DOMAIN repos \cup externals \cup slots[s].new \cup f
                 /\ linked(w, f)
                 /\ UNCHANGED todo \/ \E q, t : Defer(Recursion(s, q, t))
                 /\ UNCHANGED <<worker, round, week, stage>> /\ UNCHANGED graph
    <3>1. UNCHANGED <<todo, worker, round, week, stage>> /\ UNCHANGED graph
      BY <2>6 DEF queue
    <3> QED BY <2>4, <2>6, <3>1
  <2> QED BY <2>1, <2>3, <2>5, <2>6 DEF linked
<1>4. CASE Fail(s)
  BY <1>1, <1>2, <1>4, FailStep, FaultsKept
<1>5. ASSUME NEW v, NEW new, v \in DOMAIN repos \cup externals \cup slots[s].new \cup new,
             Go(s, [slots[s] EXCEPT !.rest = rest, !.new = @ \cup new, !.edges = @ \cup {<<Job(s).source, v>>}]),
             UNCHANGED todo \/ \E q, r : Defer(Recursion(s, q, r)),
             UNCHANGED <<worker, round, week, stage>>, UNCHANGED graph
      PROVE  Inv'
  <2> HIDE DEF rest
  <2> DEFINE state == [slots[s] EXCEPT !.rest = rest, !.new = @ \cup new, !.edges = @ \cup {<<Job(s).source, v>>}]
  <2>1. /\ DOMAIN state = DOMAIN slots[s] /\ state.pc = "write" /\ state.job = slots[s].job
        /\ state.new = slots[s].new \cup new /\ state.edges = slots[s].edges \cup {<<Job(s).source, v>>}
    BY <1>1, <1>2 DEF KnowsPackage
  <2>2. slots'[s] = state /\ Go(s, state)
    BY <1>5, GoesTo
  <2> HIDE DEF state
  <2>3. Job(s)' = Job(s) /\ state.job = Job(s)
    BY <2>1, <2>2 DEF Job
  <2>4. UNCHANGED <<projects, repos, externals>>
    BY <1>5, GraphKept
  <2>5. KnowsPackage(s)'
    <3>1. /\ \A e \in slots[s].edges : e[1] \in DOMAIN repos /\ e[2] \in DOMAIN repos \cup externals \cup slots[s].new
          /\ Job(s).source \in DOMAIN repos
      BY <1>2 DEF KnowsPackage, EndsExist
    <3>2. \A e \in slots'[s].edges :
            e[1] \in DOMAIN repos /\ e[2] \in DOMAIN repos \cup externals \cup slots[s].new \cup new
      BY <1>5, <2>1, <2>2, <3>1
    <3> QED BY <1>2, <2>1, <2>2, <2>3, <2>4, <3>1, <3>2 DEF KnowsPackage, EndsExist
  <2>6. Knows(s)'
    BY <1>1, <1>2, <2>1, <2>2, <2>3, <2>5 DEF Knows, Pcs
  <2>7. QueueGrows(s)
    BY <1>5, <2>4, QueueKept, QueueDefer DEF Recursion, DepsJob
  <2> QED BY <1>1, <1>2, <1>5, <2>2, <2>3, <2>6, <2>7, GoStep, FaultsKept
<1> QED BY <1>3, <1>4, <1>5

LEMMA CommitDepsStep == ASSUME Inv, NEW s \in Slots, CommitDeps(s) PROVE Inv'
<1>1. /\ slots[s].pc = "write" /\ Job(s).task = "crawl_package_deps" /\ Free(s)
      /\ externals' = externals \cup slots[s].new /\ edges' = edges \cup slots[s].edges
      /\ UNCHANGED <<todo, worker, round, week, stage, projects, repos, faults>>
  BY DEF CommitDeps, queue
<1>2. Busy(s) /\ EndsExist(s)
  BY <1>1, Working DEF Knows, KnowsPackage, Pcs
<1>3. GraphFits'
  BY <1>1, <1>2 DEF Inv, GraphFits, EndsExist
<1>4. QueueGrows(s)
  BY <1>1, QueueKept
<1> QED BY <1>1, <1>2, <1>3, <1>4, FreeStep, FaultsKept

LEMMA RegistryStep == ASSUME Inv, NEW s \in Slots, CrawlRegistry(s) PROVE Inv'
<1> DEFINE required(p) == {Purl(q) : q \in RegistryRequires[p]}
<1>1. /\ slots[s].pc = "start" /\ Free(s) /\ UNCHANGED <<todo, worker, round, week, stage, projects, repos>>
  BY DEF CrawlRegistry, queue
<1>2. Busy(s)
  BY <1>1 DEF Busy
<1>3. PICK answered :
        /\ externals' = externals \cup UNION {required(p) : p \in answered}
        /\ edges' = edges \cup UNION {Publishers(Purl(p)) \X required(p) : p \in answered}
        /\ \E happens \in BOOLEAN : Fault(happens) /\ (happens => MayFail)
  BY DEF CrawlRegistry
<1> HIDE DEF required
<1>4. \A p, e : e \in Publishers(Purl(p)) \X required(p) => e[1] \in DOMAIN repos /\ e[2] \in required(p)
  BY DEF Publishers
<1>5. \A e \in edges' : e[1] \in DOMAIN repos /\ e[2] \in DOMAIN repos \cup externals'
  BY <1>3, <1>4 DEF Inv, GraphFits
<1>6. GraphFits'
  BY <1>1, <1>5 DEF Inv, GraphFits
<1>7. faults' \in 0..Faults
  BY <1>3, Faulty
<1>8. QueueGrows(s)
  BY <1>1, QueueKept
<1> QED BY <1>1, <1>2, <1>3, <1>6, <1>7, <1>8, FreeStep

LEMMA WorkStep == ASSUME Inv, NEW s \in Slots, Work(s) PROVE Inv'
BY SyncStep, ResolveStep, UpsertProjectStep, DeferReposStep, BeginStep, UpsertRepoStep, AbsorbStep,
   AssociateStep, DeferNextStep, EndCrawlStep, RequirementsStep, VisitStep, CommitDepsStep,
   RegistryStep DEF Work

-----------------------------------------------------------------------------
(* The workers.                                                             *)

LEMMA SlotsKept ==
  ASSUME Inv, UNCHANGED <<slots, graph>>,
         \A t \in Slots : Active(QueueOf[t]) => Active(QueueOf[t])'
  PROVE  \A t \in Slots : Runs(t)'
<1> SUFFICES ASSUME NEW t \in Slots, Busy(t) PROVE Runs(t)'
  BY DEF Runs, Busy
<1>1. Runs(t) /\ Active(QueueOf[t])'
  BY DEF Inv, Runs
<1> QED BY <1>1, GraphKept, Kept

LEMMA JobsKept == ASSUME Inv, UNCHANGED <<todo, graph>> PROVE JobsFit'
BY GraphKept DEF Inv, JobsFit, JobFits, Jobs

LEMMA NoneBelow == ASSUME Inv PROVE \A job \in Jobs(Root) : Level(job) >= 0
BY RootLevel, RootQueue DEF Inv, JobsFit

(* Slots of a worker that is not active are idle.                           *)
LEMMA Resting == ASSUME Inv, NEW s \in Slots, ~Active(QueueOf[s]) PROVE ~Busy(s)
BY DEF Inv, Runs

LEMMA StartWorkerStep == ASSUME Inv, NEW q \in Queues, StartWorker(q) PROVE Inv'
<1>1. /\ worker[q] = "waiting" /\ MayStart(q)
      /\ worker' = [worker EXCEPT ![q] = IF Pending(q) THEN "fetching" ELSE "done"]
      /\ round' = [round EXCEPT ![q] = 1]
      /\ UNCHANGED <<todo, week, stage, slots, faults>> /\ UNCHANGED graph
  BY DEF StartWorker, Turn
<1>2. \A o \in Queues \ {q} : worker'[o] = worker[o] /\ round'[o] = round[o]
  BY <1>1 DEF Inv, Counters
<1>3. worker'[q] = (IF Pending(q) THEN "fetching" ELSE "done") /\ round'[q] = 1
  BY <1>1 DEF Inv, Counters
<1>4. Counters'
  BY <1>1 DEF Inv, Counters
<1>5. \A t \in Slots : Runs(t)'
  BY <1>1, <1>2, SlotQueue, SlotsKept DEF Active
<1>6. InOrder'
  <2>1. stage = "seeded" /\ (q # Root => worker[Root] = "done")
    BY <1>1 DEF MayStart, Root
  <2>2. q = Root => \A o \in Queues : Active(o) => o = Root
    BY <1>1 DEF Inv, InOrder, Active
  <2> QED BY <1>1, <1>2, <1>3, <2>1, <2>2, RootQueue DEF Inv, InOrder, Active
<1>7. Drained'
  <2>1. CASE q = Root
    <3>1. \A s \in Mine(Root) : ~Busy(s)
      BY <1>1, <2>1, Resting DEF Active, Mine
    <3>2. worker'[Root] = "done" => Jobs(Root) = {}
      BY <1>3, <2>1, RootQueue, Emptied DEF Pending, Jobs
    <3>3. worker'[Root] # "closing" /\ round'[Root] = 1 /\ worker'[Root] \in {"fetching", "done"}
      BY <1>3, <2>1
    <3>4. \A s \in Mine(Root) : ~Busy(s)'
      BY <1>1, <3>1 DEF Busy, Mine
    <3> QED BY <1>1, <3>2, <3>3, <3>4, NoneBelow DEF Drained, Active, Jobs, Level, Mine
  <2>2. CASE q # Root
    <3>1. UNCHANGED <<worker[Root], round[Root]>>
      BY <1>2, <2>2, RootQueue
    <3> QED BY <1>1, <3>1 DEF Inv, Drained, Active, Jobs, Level, Mine, Busy, Job
  <2> QED BY <2>1, <2>2
<1> QED BY <1>1, <1>4, <1>5, <1>6, <1>7, JobsKept, GraphKept DEF Inv

LEMMA FetchStep == ASSUME Inv, NEW s \in Slots, Fetch(s) PROVE Inv'
<1> DEFINE q == QueueOf[s]
<1>1. PICK job \in Jobs(q) :
        /\ worker[q] = "fetching" /\ ~Busy(s) /\ Go(s, [pc |-> "start", job |-> job])
        /\ todo' = [todo EXCEPT ![q] = BagRemove(@, job)]
        /\ UNCHANGED <<worker, round, week, stage, faults>> /\ UNCHANGED graph
  BY DEF Fetch
<1>2. q \in Queues /\ JobFits(job, q) /\ IsABag(todo[q])
  BY <1>1, SlotQueue DEF Inv, JobsFit
<1>3. slots'[s] = [pc |-> "start", job |-> job] /\ DOMAIN slots' = Slots /\ \A t \in Slots \ {s} : slots'[t] = slots[t]
  BY <1>1 DEF Inv, Counters, Go
<1>4. /\ DOMAIN todo' = Queues /\ \A o \in Queues \ {q} : todo'[o] = todo[o]
      /\ todo'[q] = BagRemove(todo[q], job)
  BY <1>1, <1>2 DEF Inv, JobsFit
<1>5. IsABag(todo'[q]) /\ Jobs(q)' \subseteq Jobs(q)
  BY <1>2, <1>4, Removed DEF Jobs
<1>6. \A other, o : JobFits(other, o)' <=> JobFits(other, o)
  BY <1>1, GraphKept DEF JobFits
<1> HIDE DEF q
<1>7. JobsFit' /\ \A o \in Queues : Jobs(o)' \subseteq Jobs(o)
  <2>1. \A o \in Queues : IsABag(todo'[o]) /\ Jobs(o)' \subseteq Jobs(o)
    BY <1>4, <1>5 DEF Inv, JobsFit, Jobs
  <2> QED BY <1>4, <1>6, <2>1 DEF Inv, JobsFit
<1>8. Job(s)' = job /\ Busy(s)'
  BY <1>3 DEF Job, Busy
<1>9. Runs(s)'
  <2>1. Active(q)'
    BY <1>1 DEF Active
  <2>2. Knows(s)'
    BY <1>3 DEF Knows, Pcs
  <2> QED BY <1>2, <1>6, <1>8, <2>1, <2>2 DEF Runs, q
<1>10. ASSUME NEW t \in Slots \ {s} PROVE Runs(t)'
  <2>1. Active(QueueOf[t]) => Active(QueueOf[t])'
    BY <1>1 DEF Active
  <2>2. CASE ~Busy(t)
    BY <1>3, <2>2 DEF Runs, Busy
  <2>3. CASE Busy(t)
    BY <1>1, <1>3, <2>1, <2>3, GraphKept, Kept DEF Inv, Runs
  <2> QED BY <2>2, <2>3
<1>11. Counters' /\ InOrder'
  BY <1>1, <1>3 DEF Inv, Counters, InOrder, Active
<1>12. Drained'
  <2>1. \A t \in Mine(Root) \ {s} : Busy(t)' = Busy(t) /\ Job(t)' = Job(t)
    BY <1>3 DEF Busy, Job, Mine
  <2>2. s \in Mine(Root) => Level(Job(s))' >= round[Root] - 1
    BY <1>1, <1>8 DEF Inv, Drained, Level, Mine, q
  <2>3. \A t \in Mine(Root) : Busy(t)' => Level(Job(t))' >= round[Root] - 1
    BY <2>1, <2>2 DEF Inv, Drained, Level
  <2>4. Jobs(Root)' \subseteq Jobs(Root) /\ UNCHANGED <<worker, round>> /\ Mine(Root)' = Mine(Root)
    BY <1>1, <1>7, RootQueue DEF Mine
  <2> QED BY <2>3, <2>4 DEF Inv, Drained, Active, Level, Mine
<1> QED BY <1>1, <1>7, <1>9, <1>10, <1>11, <1>12, GraphKept DEF Inv

LEMMA RoundsBound == \A q \in Queues : DrainRounds(q) \in 2..30 /\ DrainRounds(Root) = 4
BY DEF DrainRounds, Queues, Root

(* A worker other than the root's leaves what the rounds drain.             *)
LEMMA DrainedKept ==
  ASSUME Inv, UNCHANGED <<todo, slots>>, UNCHANGED <<worker[Root], round[Root]>>
  PROVE  Drained'
BY DEF Inv, Drained, Active, Jobs, Level, Mine, Busy, Job

LEMMA FetchNothingStep == ASSUME Inv, NEW q \in Queues, FetchNothing(q) PROVE Inv'
<1>1. /\ worker[q] = "fetching" /\ ~Pending(q)
      /\ worker' = [worker EXCEPT ![q] = "closing"]
      /\ UNCHANGED <<todo, round, week, stage, slots, faults>> /\ UNCHANGED graph
  BY DEF FetchNothing, Turn
<1>2. worker'[q] = "closing" /\ \A o \in Queues \ {q} : worker'[o] = worker[o]
  BY <1>1 DEF Inv, Counters
<1>3. Counters'
  BY <1>1 DEF Inv, Counters
<1>4. \A o \in Queues : Active(o)' <=> Active(o)
  BY <1>1, <1>2 DEF Active
<1>5. \A t \in Slots : Runs(t)'
  BY <1>1, <1>4, SlotQueue, SlotsKept
<1>6. InOrder'
  BY <1>1, <1>2, <1>4, RootQueue DEF Inv, InOrder
<1>7. Drained'
  <2>1. CASE q = Root
    <3>1. Jobs(Root) = {}
      BY <1>1, <2>1, Emptied, RootQueue DEF Pending, Jobs
    <3>2. worker'[Root] = "closing" /\ worker[Root] = "fetching"
      BY <1>1, <1>2, <2>1
    <3> QED BY <1>1, <3>1, <3>2 DEF Inv, Drained, Active, Jobs, Level, Mine, Busy, Job
  <2>2. CASE q # Root
    BY <1>1, <1>2, <2>2, RootQueue, DrainedKept
  <2> QED BY <2>1, <2>2
<1> QED BY <1>1, <1>3, <1>5, <1>6, <1>7, JobsKept, GraphKept DEF Inv

LEMMA EndRoundStep == ASSUME Inv, NEW q \in Queues, EndRound(q) PROVE Inv'
<1>1. /\ worker[q] = "closing" /\ AllIdle(q)
      /\ \/ /\ ~Pending(q) \/ round[q] = DrainRounds(q)
            /\ worker' = [worker EXCEPT ![q] = "done"] /\ UNCHANGED round
         \/ /\ Pending(q) /\ round[q] < DrainRounds(q)
            /\ worker' = [worker EXCEPT ![q] = "fetching"]
            /\ round' = [round EXCEPT ![q] = @ + 1]
      /\ UNCHANGED <<todo, week, stage, slots, faults>> /\ UNCHANGED graph
  BY DEF EndRound, Turn
<1>2. \A o \in Queues \ {q} : worker'[o] = worker[o] /\ round'[o] = round[o]
  BY <1>1 DEF Inv, Counters
<1>3. Counters'
  <2>1. worker \in [Queues -> {"waiting", "fetching", "closing", "done", "killed", "skipped"}]
        /\ round \in [Queues -> 0..30]
    BY DEF Inv, Counters
  <2>2. round' \in [Queues -> 0..30]
    <3>1. CASE UNCHANGED round
      BY <2>1, <3>1
    <3>2. CASE round[q] < DrainRounds(q) /\ round' = [round EXCEPT ![q] = @ + 1]
      <4>1. round[q] + 1 \in 0..30
        BY <2>1, <3>2, RoundsBound
      <4> QED BY <2>1, <3>2, <4>1
    <3> QED BY <1>1, <3>1, <3>2
  <2> QED BY <1>1, <2>1, <2>2 DEF Inv, Counters
<1>4. \A o \in Queues : o # q => (Active(o)' <=> Active(o))
  BY <1>2 DEF Active
<1>5. \A t \in Slots : Runs(t)'
  <2>1. ASSUME NEW t \in Slots, Busy(t) PROVE Active(QueueOf[t])'
    <3>1. QueueOf[t] # q
      BY <1>1, <2>1 DEF AllIdle, Mine
    <3> QED BY <1>4, <2>1, <3>1, SlotQueue DEF Inv, Runs
  <2>2. ASSUME NEW t \in Slots PROVE Runs(t)'
    <3>1. CASE Busy(t)
      BY <1>1, <2>1, <3>1, GraphKept, Kept DEF Inv
    <3>2. CASE ~Busy(t)
      BY <1>1, <3>2 DEF Runs, Busy
    <3> QED BY <3>1, <3>2
  <2> QED BY <2>2
<1>6. InOrder'
  <2>1. Active(q)
    BY <1>1 DEF Active
  <2>2. q = Root => \A o \in Queues : Active(o) => o = Root
    BY <1>1 DEF Inv, InOrder
  <2>3. UNCHANGED stage
    BY <1>1
  <2>4. q # Root => worker'[Root] = worker[Root]
    BY <1>2, RootQueue
  <2> QED BY <1>4, <2>1, <2>2, <2>3, <2>4 DEF Inv, InOrder
<1>7. Drained'
  <2>1. CASE q = Root
    <3>1. /\ worker[Root] = "closing" /\ round[Root] \in 0..30 /\ round[Root] >= 1
          /\ \A job \in Jobs(Root) : Level(job) >= round[Root]
      BY <1>1, <2>1, RootQueue DEF Inv, Counters, Drained, Active
    <3>2. \A s \in Mine(Root) : ~Busy(s)'
      BY <1>1, <2>1 DEF AllIdle, Busy, Mine
    <3>3. \A job \in Jobs(Root) : Level(job) \in 0..2
      BY RootLevel, RootQueue DEF Inv, JobsFit
    <3>4. CASE (~Pending(q) \/ round[q] = DrainRounds(q)) /\ worker' = [worker EXCEPT ![q] = "done"] /\ UNCHANGED round
      <4>1. Jobs(Root) = {}
        <5>1. CASE ~Pending(q)
          BY <2>1, <5>1, Emptied DEF Pending, Jobs
        <5>2. CASE round[q] = DrainRounds(q)
          BY <2>1, <3>1, <3>3, <5>2, RoundsBound
        <5> QED BY <3>4, <5>1, <5>2
      <4>2. worker'[Root] = "done"
        BY <2>1, <3>4 DEF Inv, Counters
      <4> QED BY <1>1, <3>2, <4>1, <4>2 DEF Drained, Active, Jobs, Mine, Level
    <3>5. CASE worker' = [worker EXCEPT ![q] = "fetching"] /\ round' = [round EXCEPT ![q] = @ + 1]
      <4>1. worker'[Root] = "fetching" /\ round'[Root] = round[Root] + 1
        BY <2>1, <3>5, RootQueue DEF Inv, Counters
      <4>2. \A job \in Jobs(Root)' : job \in Jobs(Root) /\ Level(job)' = Level(job)
        BY <1>1 DEF Jobs, Level
      <4>3. \A job \in Jobs(Root)' : Level(job)' >= round'[Root] - 1
        BY <3>1, <3>3, <4>1, <4>2
      <4>4. round'[Root] >= 1
        BY <3>1, <4>1
      <4> QED BY <3>2, <4>1, <4>3, <4>4 DEF Drained, Active, Mine
    <3> QED BY <1>1, <3>4, <3>5
  <2>2. CASE q # Root
    BY <1>1, <1>2, <2>2, RootQueue, DrainedKept
  <2> QED BY <2>1, <2>2
<1> QED BY <1>1, <1>3, <1>5, <1>6, <1>7, JobsKept, GraphKept DEF Inv

LEMMA KillWorkerStep == ASSUME Inv, NEW q \in Queues, KillWorker(q) PROVE Inv'
<1>1. /\ MayFail /\ Fault(TRUE)
      /\ worker' = [worker EXCEPT ![q] = "killed"]
      /\ slots' = [s \in Slots |-> IF s \in Mine(q) THEN Idle ELSE slots[s]]
      /\ UNCHANGED <<todo, round, week, stage>> /\ UNCHANGED graph
  BY DEF KillWorker, Turn
<1>2. worker[q] # "done"
  BY DEF KillWorker
<1>3. worker'[q] = "killed" /\ \A o \in Queues \ {q} : worker'[o] = worker[o]
  BY <1>1 DEF Inv, Counters
<1>4. faults' \in 0..Faults
  BY <1>1, Faulty
<1>5. Counters'
  BY <1>1, <1>4 DEF Inv, Counters
<1>6. \A o \in Queues : Active(o)' <=> o # q /\ Active(o)
  BY <1>3 DEF Active
<1>7. \A t \in Slots : Busy(t)' => t \notin Mine(q) /\ slots'[t] = slots[t] /\ Busy(t)
  BY <1>1 DEF Busy, Idle
<1>8. ASSUME NEW t \in Slots PROVE Runs(t)'
  <2> SUFFICES ASSUME Busy(t)' PROVE Runs(t)'
    BY DEF Runs
  <2>1. Runs(t) /\ slots'[t] = slots[t] /\ QueueOf[t] # q
    BY <1>7 DEF Inv, Mine
  <2>2. Active(QueueOf[t])'
    BY <1>6, <1>7, <2>1, SlotQueue DEF Runs
  <2> QED BY <1>1, <2>1, <2>2, GraphKept, Kept
<1>9. InOrder'
  <2>1. ASSUME NEW o \in Queues, Active(o)'
        PROVE  stage = "seeded" /\ (o # Root => worker'[Root] = "done")
    <3>1. Active(o) /\ stage = "seeded" /\ (o # Root => worker[Root] = "done")
      BY <1>6, <2>1 DEF Inv, InOrder
    <3>2. worker[Root] = "done" => q # Root
      BY <1>2
    <3> QED BY <1>3, <3>1, <3>2, RootQueue
  <2> QED BY <1>1, <2>1 DEF InOrder
<1>10. Drained'
  <2>1. \A s \in Mine(Root) : Busy(s)' => Busy(s) /\ Level(Job(s))' = Level(Job(s))
    BY <1>7 DEF Mine, Job, Level
  <2>2. Jobs(Root)' = Jobs(Root) /\ round'[Root] = round[Root] /\ Mine(Root)' = Mine(Root)
    BY <1>1 DEF Jobs, Mine
  <2>3. worker'[Root] = worker[Root] \/ worker'[Root] = "killed"
    BY <1>3, RootQueue
  <2> QED BY <2>1, <2>2, <2>3 DEF Inv, Drained, Active, Level
<1> QED BY <1>1, <1>5, <1>8, <1>9, <1>10, JobsKept, GraphKept DEF Inv

-----------------------------------------------------------------------------
(* The weeks.                                                               *)

LEMMA AllRest == ASSUME Inv, stage = "over" PROVE \A s \in Slots : ~Busy(s)
BY SlotQueue, Resting DEF Inv, InOrder

LEMMA StartWeekStep == ASSUME Inv, StartWeek PROVE Inv'
<1>1. /\ stage = "over" /\ week < Weeks /\ week' = week + 1
      /\ round' = [q \in Queues |-> 0]
      /\ UNCHANGED <<slots, faults>> /\ UNCHANGED graph
      /\ \/ UNCHANGED <<todo, worker, stage>>
         \/ /\ \E selected : Defer(SyncJob(selected))
            /\ worker' = [q \in Queues |-> "waiting"] /\ stage' = "seeded"
  BY DEF StartWeek
<1>2. Counters'
  <2>1. week' \in 0..Weeks
    BY <1>1, CrawlConstants DEF Inv, Counters, CrawlConstants
  <2> QED BY <1>1, <2>1 DEF Inv, Counters
<1>3. \A q \in Queues : ~Active(q)'
  BY <1>1 DEF Inv, InOrder, Active
<1>4. \A s \in Slots : ~Busy(s)' /\ Runs(s)'
  BY <1>1, AllRest DEF Busy, Runs
<1>5. InOrder'
  BY <1>3 DEF InOrder
<1>6. JobsFit' /\ (UNCHANGED <<todo, worker>> \/ worker'[Root] = "waiting")
  <2>1. CASE UNCHANGED <<todo, worker, stage>>
    BY <1>1, <2>1, JobsKept
  <2>2. ASSUME NEW selected, Defer(SyncJob(selected)), worker' = [q \in Queues |-> "waiting"] PROVE JobsFit' /\ worker'[Root] = "waiting"
    <3> DEFINE job == SyncJob(selected)
    <3>1. job.task = "sync_opengrants"
      BY DEF SyncJob
    <3> HIDE DEF job
    <3>2. todo' = todo \/ todo' = [todo EXCEPT ![Root] = BagAdd(@, job)]
      BY <2>2, <3>1, TaskQueues DEF Defer, job
    <3>3. \A other, q : JobFits(other, q)' <=> JobFits(other, q)
      BY <1>1, GraphKept DEF JobFits
    <3>4. CASE todo' = todo
      BY <1>1, <2>2, <3>4, JobsKept, RootQueue
    <3>5. CASE todo' = [todo EXCEPT ![Root] = BagAdd(@, job)]
      <4>1. DOMAIN todo' = Queues /\ todo'[Root] = BagAdd(todo[Root], job) /\ \A q \in Queues \ {Root} : todo'[q] = todo[q]
        BY <3>5, RootQueue DEF Inv, JobsFit
      <4>2. IsABag(todo'[Root]) /\ Jobs(Root)' = Jobs(Root) \cup {job}
        <5>1. IsABag(todo[Root])
          BY RootQueue DEF Inv, JobsFit
        <5>2. IsABag(BagAdd(todo[Root], job)) /\ DOMAIN BagAdd(todo[Root], job) = Jobs(Root) \cup {job}
          BY <5>1, Added DEF Jobs
        <5> QED BY <4>1, <5>2 DEF Jobs
      <4>3. JobFits(job, Root)
        BY <3>1, TaskQueues DEF JobFits
      <4>4. ASSUME NEW q \in Queues PROVE IsABag(todo'[q]) /\ \A other \in Jobs(q)' : JobFits(other, q)
        <5>1. CASE q = Root
          BY <4>2, <4>3, <5>1 DEF Inv, JobsFit
        <5>2. CASE q # Root
          BY <4>1, <5>2 DEF Inv, JobsFit, Jobs
        <5> QED BY <5>1, <5>2
      <4> QED BY <2>2, <3>3, <4>1, <4>4, RootQueue DEF JobsFit
    <3> QED BY <3>2, <3>4, <3>5
  <2> QED BY <1>1, <2>1, <2>2
<1>7. Drained'
  <2>1. worker'[Root] = "done" => Jobs(Root)' = {}
    BY <1>6 DEF Inv, Drained, Jobs
  <2> QED BY <1>3, <1>4, <2>1, RootQueue DEF Drained, Active, Mine
<1> QED BY <1>1, <1>2, <1>4, <1>5, <1>6, <1>7, GraphKept DEF Inv

(* The root's worker is killed: the others never started.                   *)
LEMMA EndWeekStep == ASSUME Inv, EndWeek PROVE Inv'
<1>1. /\ worker[Root] # "killed" => \A q \in Queues : worker[q] \in {"done", "killed"}
      /\ worker' = [q \in Queues |-> IF worker[q] = "waiting" THEN "skipped" ELSE worker[q]]
      /\ stage' = "over"
      /\ UNCHANGED <<todo, round, week, slots, faults>> /\ UNCHANGED graph
  BY DEF EndWeek, Root
<1>2. \A q \in Queues : ~Active(q)
  BY <1>1, RootQueue DEF Inv, InOrder, Active
<1>3. \A q \in Queues : ~Active(q)' /\ (worker'[q] = "done" => worker[q] = "done")
  BY <1>1, <1>2 DEF Active
<1>4. \A s \in Slots : ~Busy(s)' /\ Runs(s)'
  BY <1>1, <1>2, SlotQueue, Resting DEF Busy, Runs
<1>5. Counters'
  BY <1>1 DEF Inv, Counters
<1>6. InOrder'
  BY <1>3 DEF InOrder
<1>7. Drained'
  <2>1. worker'[Root] = "done" => Jobs(Root)' = {}
    BY <1>1, <1>3, RootQueue DEF Inv, Drained, Jobs
  <2> QED BY <1>3, <1>4, <2>1, RootQueue DEF Drained, Active, Mine
<1> QED BY <1>1, <1>4, <1>5, <1>6, <1>7, JobsKept, GraphKept DEF Inv

-----------------------------------------------------------------------------
LEMMA InitInv == Init => Inv
<1> SUFFICES ASSUME Init PROVE Inv
  OBVIOUS
<1>1. Counters
  BY CrawlConstants DEF Init, Counters, CrawlConstants
<1>2. \A q \in Queues : todo[q] = EmptyBag /\ Jobs(q) = {}
  BY Emptied DEF Init, Jobs
<1>3. JobsFit
  BY <1>2, Emptied DEF Init, JobsFit
<1>4. GraphFits
  BY DEF Init, GraphFits
<1>5. \A q \in Queues : ~Active(q)
  BY DEF Init, Active
<1>6. \A s \in Slots : ~Busy(s)
  BY DEF Init, Busy, Idle
<1> QED BY <1>1, <1>2, <1>3, <1>4, <1>5, <1>6, RootQueue DEF Inv, InOrder, Drained, Runs, Mine

LEMMA Stutter == ASSUME Inv, UNCHANGED vars PROVE Inv'
<1>1. UNCHANGED <<todo, worker, round, week, stage, slots, faults>> /\ UNCHANGED graph
  BY DEF vars, queue
<1>2. Counters' /\ InOrder'
  BY <1>1 DEF Inv, Counters, InOrder, Active
<1>3. \A t \in Slots : Runs(t)'
  BY <1>1, SlotsKept DEF Active
<1> QED BY <1>1, <1>2, <1>3, JobsKept, GraphKept, DrainedKept DEF Inv

LEMMA NextInv == Inv /\ [Next]_vars => Inv'
BY WorkStep, StartWorkerStep, FetchStep, FetchNothingStep, EndRoundStep, KillWorkerStep, StartWeekStep,
   EndWeekStep, Stutter DEF Next, Run

THEOREM CrawlInvariant == Spec => []Inv
BY InitInv, NextInv, PTL DEF Spec

(* Through every interleaving of jobs, lost workers and services that fail  *)
(* (process_queue, bootstrap.yml), the tables stay whole: a Repo's project   *)
(* exists, and every depends_on row joins rows that exist, although a crawl *)
(* commits edges long after it looked their ends up and another absorbs     *)
(* external repositories meanwhile (_crawl_and_upsert_package_deps,         *)
(* absorb_external_repo).  It holds because crawls of packages wait for     *)
(* those of repositories.                                                   *)
THEOREM CrawlTyped == Spec => []TypeOK
<1>1. Inv => TypeOK
  <2> SUFFICES ASSUME Inv PROVE TypeOK
    OBVIOUS
  <2>1. \A s \in Slots : slots[s].pc \in {"idle", "start", "write", "absorb", "defer", "commit"}
    BY DEF Inv, Runs, Knows, Busy, Pcs
  <2> QED BY <2>1 DEF TypeOK, Inv, Counters, JobsFit, GraphFits
<1> QED BY <1>1, CrawlInvariant, PTL

(* --drain-rounds=4 of bootstrap.yml leaves no job on the root queue unless *)
(* the worker was killed, whatever the projects and the order of the jobs.  *)
THEOREM RootDrained == Spec => []RoundsSuffice
<1>1. Inv => RoundsSuffice
  BY Emptied, RootQueue DEF Inv, Drained, JobsFit, Jobs, RoundsSuffice, Root
<1> QED BY <1>1, CrawlInvariant, PTL

-----------------------------------------------------------------------------
(***************************************************************************)
(* What becomes of the edges and the external vertices of packages that    *)
(* repositories publish, under any projects, packages, slots and faults.   *)
(***************************************************************************)

-----------------------------------------------------------------------------
(* What the lists of the services come to.                                  *)

LEMMA ListIs ==
  ASSUME NEW list, IsList(list)
  PROVE  /\ Len(list) \in Nat /\ DOMAIN list = 1..Len(list)
         /\ \A i \in DOMAIN list : list[i] \in ToSet(list)
         /\ \A x \in ToSet(list) : \E i \in DOMAIN list : list[i] = x
BY DEF IsList, ToSet

LEMMA ListOver == ASSUME NEW S, NEW list \in Seq(S) PROVE IsList(list)
BY DEF IsList, ToSet

(* Each element gives none or one.                                          *)
LEMMA OneOrNone ==
  ASSUME NEW seq, IsList(seq), NEW lists, DOMAIN lists = DOMAIN seq, lists = [i \in DOMAIN seq |-> lists[i]],
         NEW S, NEW item, \A i \in DOMAIN seq : lists[i] = <<>> \/ (item[i] \in S /\ lists[i] = <<item[i]>>)
  PROVE  /\ FlattenSeq(lists) \in Seq(S)
         /\ ToSet(FlattenSeq(lists)) = {item[i] : i \in {j \in DOMAIN seq : lists[j] # <<>>}}
<1>1. DOMAIN seq = 1..Len(seq) /\ Len(seq) \in Nat
  BY ListIs
<1>2. ASSUME NEW i \in DOMAIN seq PROVE lists[i] \in Seq(S)
  <2> DEFINE empty == <<>>
  <2>1. empty \in Seq(S) /\ (item[i] \in S => <<item[i]>> \in Seq(S))
    OBVIOUS
  <2>2. lists[i] = empty \/ (item[i] \in S /\ lists[i] = <<item[i]>>)
    OBVIOUS
  <2> HIDE DEF empty
  <2> QED BY <2>1, <2>2
<1>3. lists \in Seq(Seq(S))
  <2>1. lists \in [1..Len(seq) -> Seq(S)]
    BY <1>1, <1>2
  <2> QED BY <1>1, <2>1
<1>4. FlattenSeq(lists) \in Seq(S) /\ ToSet(FlattenSeq(lists)) = UNION {ToSet(lists[i]) : i \in DOMAIN lists}
  BY <1>3, FlattenedList
<1>5. ASSUME NEW i \in DOMAIN seq
      PROVE  ToSet(lists[i]) = IF lists[i] # <<>> THEN {item[i]} ELSE {}
  BY DEF ToSet
<1> QED BY <1>4, <1>5

LEMMA AmongIs ==
  ASSUME NEW seq, IsList(seq), NEW set
  PROVE  IsList(Among(seq, set)) /\ ToSet(Among(seq, set)) = ToSet(seq) \cap set
<1> DEFINE lists == [i \in DOMAIN seq |-> IF seq[i] \in set THEN <<seq[i]>> ELSE <<>>]
           S == ToSet(seq)
<1>1. DOMAIN lists = DOMAIN seq /\ lists = [i \in DOMAIN seq |-> lists[i]]
  OBVIOUS
<1>2. \A i \in DOMAIN seq : lists[i] = <<>> \/ (seq[i] \in S /\ lists[i] = <<seq[i]>>)
  BY ListIs
<1>3. \A i \in DOMAIN seq : lists[i] # <<>> <=> seq[i] \in set
  OBVIOUS
<1>4. Among(seq, set) = FlattenSeq(lists)
  BY DEF Among
<1> HIDE DEF lists, S
<1>5. /\ Among(seq, set) \in Seq(S)
      /\ ToSet(Among(seq, set)) = {seq[i] : i \in {j \in DOMAIN seq : lists[j] # <<>>}}
  BY <1>1, <1>2, <1>4, OneOrNone
<1>6. {seq[i] : i \in {j \in DOMAIN seq : lists[j] # <<>>}} = ToSet(seq) \cap set
  BY <1>3, ListIs
<1> QED BY <1>5, <1>6, ListOver

LEMMA DistinctIs ==
  ASSUME NEW seq, IsList(seq)
  PROVE  IsList(Distinct(seq)) /\ ToSet(Distinct(seq)) = ToSet(seq)
<1> DEFINE lists == [i \in DOMAIN seq |-> IF \E j \in 1..(i - 1) : seq[j] = seq[i] THEN <<>> ELSE <<seq[i]>>]
           S == ToSet(seq)
<1>1. DOMAIN lists = DOMAIN seq /\ lists = [i \in DOMAIN seq |-> lists[i]]
  OBVIOUS
<1>2. \A i \in DOMAIN seq : lists[i] = <<>> \/ (seq[i] \in S /\ lists[i] = <<seq[i]>>)
  BY ListIs
<1>3. \A i \in DOMAIN seq : lists[i] # <<>> <=> ~ \E j \in 1..(i - 1) : seq[j] = seq[i]
  OBVIOUS
<1>4. Distinct(seq) = FlattenSeq(lists)
  BY DEF Distinct
<1> HIDE DEF lists, S
<1>5. /\ Distinct(seq) \in Seq(S)
      /\ ToSet(Distinct(seq)) = {seq[i] : i \in {j \in DOMAIN seq : lists[j] # <<>>}}
  BY <1>1, <1>2, <1>4, OneOrNone
<1>6. ASSUME NEW x \in ToSet(seq)
      PROVE  \E i \in DOMAIN seq : lists[i] # <<>> /\ seq[i] = x
  <2> DEFINE places == {i \in DOMAIN seq : seq[i] = x}
  <2>1. places \subseteq Nat /\ places # {}
    BY ListIs
  <2>2. PICK i \in places : \A j \in places : i <= j
    BY <2>1, LeastElement
  <2>3. \A j \in 1..(i - 1) : j \notin places /\ j \in DOMAIN seq
    BY <2>1, <2>2, ListIs
  <2> QED BY <1>3, <2>2, <2>3
<1>7. {seq[i] : i \in {j \in DOMAIN seq : lists[j] # <<>>}} = ToSet(seq)
  BY <1>6, ListIs
<1> QED BY <1>5, <1>7, ListOver

LEMMA DetectedIs ==
  ASSUME NEW repo, NEW manifests, IsList(manifests)
  PROVE  /\ IsList(DetectPackages(repo, manifests))
         /\ ToSet(DetectPackages(repo, manifests)) =
              {<<m.system, ExtractPackageName(m, repo)>> :
                 m \in {x \in ToSet(manifests) : ExtractPackageName(x, repo) # NoName}}
<1> DEFINE name(m) == ExtractPackageName(m, repo)
           item == [i \in DOMAIN manifests |-> <<manifests[i].system, name(manifests[i])>>]
           lists == [i \in DOMAIN manifests |-> IF name(manifests[i]) = NoName THEN <<>>
                                                ELSE <<<<manifests[i].system, name(manifests[i])>>>>]
           S == {item[i] : i \in DOMAIN manifests}
           names == FlattenSeq(lists)
<1>1. DOMAIN lists = DOMAIN manifests /\ lists = [i \in DOMAIN manifests |-> lists[i]]
  OBVIOUS
<1>2. \A i \in DOMAIN manifests : lists[i] = <<>> \/ (item[i] \in S /\ lists[i] = <<item[i]>>)
  OBVIOUS
<1>3. \A i \in DOMAIN manifests : lists[i] # <<>> <=> name(manifests[i]) # NoName
  OBVIOUS
<1>4. DetectPackages(repo, manifests) = Distinct(names)
  BY Zenon DEF DetectPackages
<1>5. \A i \in DOMAIN manifests : item[i] = <<manifests[i].system, name(manifests[i])>>
  OBVIOUS
<1> HIDE DEF lists, S, item
<1>6. names \in Seq(S) /\ ToSet(names) = {item[i] : i \in {j \in DOMAIN manifests : lists[j] # <<>>}}
  BY <1>1, <1>2, OneOrNone
<1>7. IsList(names)
  BY <1>6, ListOver
<1>8. {item[i] : i \in {j \in DOMAIN manifests : lists[j] # <<>>}} =
        {<<m.system, name(m)>> : m \in {x \in ToSet(manifests) : name(x) # NoName}}
  <2> HIDE DEF name, names
  <2>1. ASSUME NEW m \in ToSet(manifests) PROVE \E i \in DOMAIN manifests : manifests[i] = m
    BY ListIs
  <2>2. \A i \in DOMAIN manifests : manifests[i] \in ToSet(manifests)
    BY ListIs
  <2> DEFINE named == {j \in DOMAIN manifests : lists[j] # <<>>}
             good == {x \in ToSet(manifests) : name(x) # NoName}
  <2>3. \A i \in named : manifests[i] \in good /\ item[i] = <<manifests[i].system, name(manifests[i])>>
    BY <1>3, <1>5, <2>2
  <2>4. ASSUME NEW m \in good PROVE \E i \in named : item[i] = <<m.system, name(m)>>
    BY <1>3, <1>5, <2>1
  <2> HIDE DEF named, good
  <2>5. {item[i] : i \in named} = {<<m.system, name(m)>> : m \in good}
    <3> DEFINE pair == [m \in good |-> <<m.system, name(m)>>]
    <3>1. {<<m.system, name(m)>> : m \in good} = {pair[m] : m \in good}
      BY Zenon
    <3>2. /\ \A i \in named : manifests[i] \in good /\ item[i] = pair[manifests[i]]
          /\ \A m \in good : \E i \in named : item[i] = pair[m]
      BY <2>3, <2>4
    <3> HIDE DEF pair
    <3>3. ASSUME NEW x \in {item[i] : i \in named} PROVE x \in {pair[m] : m \in good}
      BY <3>2
    <3>4. ASSUME NEW x \in {pair[m] : m \in good} PROVE x \in {item[i] : i \in named}
      BY <3>2
    <3>5. {item[i] : i \in named} = {pair[m] : m \in good}
      BY <3>3, <3>4
    <3> QED BY <3>1, <3>5
  <2> QED BY <2>5 DEF named, good
<1> HIDE DEF names
<1> QED BY <1>4, <1>6, <1>7, <1>8, DistinctIs

LEMMA ReadIs ==
  ASSUME NEW r \in Repos, NEW pages, NEW unreadable
  PROVE  /\ IsList(ReadManifests(r, pages, unreadable))
         /\ ToSet(ReadManifests(r, pages, unreadable)) \subseteq ToSet(ReadManifests(r, Len(Manifests[r]), {}))
<1> DEFINE all == Manifests[r]
           good == {m \in ToSet(all) : m.parseable /\ ~m.skipped}
           empty == <<>>
<1>1. IsList(all) /\ PageSize \in Nat \ {0}
  BY DiscoveryConstants DEF DiscoveryConstants
<1>2. IsList(Among(all, good)) /\ ToSet(Among(all, good)) = good
  BY <1>1, AmongIs
<1>3. IsList(empty) /\ ToSet(empty) = {}
  BY DEF IsList, ToSet
<1>4. ~(Len(all) * PageSize < Len(all))
  <2>1. Len(all) \in Nat
    BY <1>1, ListIs
  <2> HIDE DEF all
  <2> QED BY <1>1, <2>1
<1>5. ManifestPaths(r, Len(all)) = Among(all, good)
  BY <1>4 DEF ManifestPaths
<1>6. ManifestPaths(r, pages) = empty \/ ManifestPaths(r, pages) = Among(all, good)
  BY DEF ManifestPaths
<1> HIDE DEF all, empty
<1>7. IsList(ManifestPaths(r, pages)) /\ ToSet(ManifestPaths(r, pages)) \subseteq good
  BY <1>2, <1>3, <1>6
<1>8. ToSet(ReadManifests(r, Len(all), {})) = good
  BY <1>2, <1>5, AmongIs DEF ReadManifests, all
<1>9. /\ IsList(ReadManifests(r, pages, unreadable))
      /\ ToSet(ReadManifests(r, pages, unreadable)) \subseteq ToSet(ManifestPaths(r, pages))
  BY <1>7, AmongIs DEF ReadManifests
<1> QED BY <1>7, <1>8, <1>9 DEF all

(* What a repository is found to publish, it may publish.                   *)
LEMMA MappedAreClaimed == ASSUME NEW r \in Repos PROVE Distinct(Mapped[r]) \in Seq(Claims(r))
<1>1. IsList(Distinct(Mapped[r])) /\ ToSet(Distinct(Mapped[r])) = ToSet(Mapped[r])
  BY DistinctIs, DiscoveryConstants DEF DiscoveryConstants
<1> QED BY <1>1 DEF IsList, Claims

LEMMA DetectedAreClaimed ==
  ASSUME NEW r \in Repos, NEW pages, NEW unreadable
  PROVE  DetectPackages(r, ReadManifests(r, pages, unreadable)) \in Seq(Claims(r))
<1> DEFINE some == ReadManifests(r, pages, unreadable)
           all == ReadManifests(r, Len(Manifests[r]), {})
<1>1. IsList(some) /\ IsList(all) /\ ToSet(some) \subseteq ToSet(all)
  BY ReadIs
<1> HIDE DEF some, all
<1>2. IsList(DetectPackages(r, some)) /\ ToSet(DetectPackages(r, some)) \subseteq ToSet(DetectPackages(r, all))
  BY <1>1, DetectedIs
<1> QED BY <1>2 DEF IsList, Claims, some, all

LEMMA RequirementsAreLists == ASSUME NEW p \in KnownPackages PROVE IsList(Requires(p))
<1> DEFINE found == {v \in DefaultVersions(p) : v \in DOMAIN Declares[p]}
           rows == Declares[p][CHOOSE v \in found : TRUE]
           system == p[1]
           empty == <<>>
<1>1. CASE found = {}
  <2>1. Requires(p) = empty /\ empty \in Seq({})
    BY <1>1 DEF Requires
  <2> QED BY <2>1, ListOver
<1>2. CASE found # {}
  <2>1. (CHOOSE v \in found : TRUE) \in DOMAIN Declares[p]
    BY <1>2
  <2>2. IsList(rows)
    BY <2>1, DiscoveryConstants DEF DiscoveryConstants
  <2>3. Requires(p) = ExtractRequirements(system, rows)
    BY <1>2 DEF Requires
  <2> HIDE DEF rows
  <2> DEFINE item == [i \in DOMAIN rows |-> <<system, rows[i].name>>]
             lists == [i \in DOMAIN rows |-> IF IsRuntime(system, rows[i].kind) THEN <<<<system, rows[i].name>>>> ELSE <<>>]
             S == {item[i] : i \in DOMAIN rows}
             names == FlattenSeq(lists)
  <2>4. DOMAIN lists = DOMAIN rows /\ lists = [i \in DOMAIN rows |-> lists[i]]
    OBVIOUS
  <2>5. \A i \in DOMAIN rows : lists[i] = <<>> \/ (item[i] \in S /\ lists[i] = <<item[i]>>)
    OBVIOUS
  <2>6. ExtractRequirements(system, rows) \in {names, Distinct(names)}
    BY Zenon DEF ExtractRequirements
  <2> HIDE DEF lists, S, item
  <2>7. names \in Seq(S)
    BY <2>2, <2>4, <2>5, OneOrNone
  <2>8. IsList(names)
    BY <2>7, ListOver
  <2> HIDE DEF names
  <2> QED BY <2>3, <2>6, <2>8, DistinctIs
<1> QED BY <1>1, <1>2

-----------------------------------------------------------------------------
(* Lists of packages.                                                       *)

LEMMA HeadTail ==
  ASSUME NEW S, NEW list \in Seq(S), list # <<>>
  PROVE  /\ Head(list) \in S /\ Tail(list) \in Seq(S)
         /\ ToSet(list) = {Head(list)} \cup ToSet(Tail(list))
<1>1. Head(list) \in S /\ Tail(list) \in Seq(S) /\ Len(list) \in Nat \ {0}
  OBVIOUS
<1>2. Head(list) = list[1] /\ Len(Tail(list)) = Len(list) - 1
  OBVIOUS
<1>3. \A i \in 1..Len(list) - 1 : Tail(list)[i] = list[i + 1]
  OBVIOUS
<1> DEFINE rest == Tail(list)
<1>4. DOMAIN list = 1..Len(list) /\ DOMAIN rest = 1..Len(list) - 1
  BY <1>1, <1>2
<1>5. \A i \in 1..Len(list) - 1 : rest[i] = list[i + 1]
  BY <1>3
<1> HIDE DEF rest
<1>6. \A i \in DOMAIN list : i = 1 \/ (i - 1 \in DOMAIN rest /\ list[i] = rest[i - 1])
  BY <1>1, <1>4, <1>5
<1>7. \A i \in DOMAIN rest : i + 1 \in DOMAIN list /\ rest[i] = list[i + 1]
  BY <1>1, <1>4, <1>5
<1>8. 1 \in DOMAIN list
  BY <1>1, <1>4
<1>9. ToSet(list) = {list[1]} \cup ToSet(rest)
  BY <1>6, <1>7, <1>8 DEF ToSet
<1> QED BY <1>1, <1>2, <1>9 DEF rest

LEMMA Within == ASSUME NEW S, NEW list \in Seq(S) PROVE ToSet(list) \subseteq S
BY DEF ToSet

LEMMA NothingListed == ToSet(<<>>) = {}
BY DEF ToSet

(* Only packages that deps.dev answers for have releases.                   *)
LEMMA ReleasedAnswered ==
  ASSUME NEW packages, NEW answered
  PROVE  Released(packages, answered) \subseteq answered
<1> DEFINE asked == {i \in DOMAIN packages : packages[i] \in answered}
           releases == UNION {{i} \X DOMAIN Versions[packages[i]] : i \in asked}
<1>1. \A x \in releases : packages[x[1]] \in answered
  OBVIOUS
<1>2. \A p \in Released(packages, answered) : \E x \in releases : p = packages[x[1]]
  BY DEF Released
<1> QED BY <1>1, <1>2

-----------------------------------------------------------------------------
(* What jobs and slots carry: packages that the repository may publish, and *)
(* releases of packages that deps.dev knows.                                *)

JobLists(job) == job.task = "crawl_github_repo" => job.packages \in Seq(Claims(job.repo))
ReleasesOf(packages) == {Purl(p) : p \in packages \cap KnownPackages}

CrawlLists(x) ==
  /\ x.pc \in {"write", "absorb"} => x.rest \in Seq(Claims(x.job.repo))
  /\ x.pc = "write" =>
       /\ x.releases \subseteq ReleasesOf(ToSet(x.rest))
       /\ x.read \subseteq ReleasesOf(Claims(x.job.repo))
DepsLists(x) ==
  x.pc = "write" =>
    x.job.package \in KnownPackages /\ x.rest \in Seq(ToSet(Requires(x.job.package)))
Lists(x) ==
  x.pc # "idle" =>
    /\ JobLists(x.job)
    /\ x.job.task = "process_project" /\ x.pc # "start" => \A job \in x.rest : JobLists(job)
    /\ x.job.task = "crawl_github_repo" => CrawlLists(x)
    /\ x.job.task = "crawl_package_deps" => DepsLists(x)

RowsClaimed == \A r \in DOMAIN repos : repos[r].releases \subseteq ReleasesOf(Claims(r))
ListsInv ==
  /\ \A s \in Slots : Lists(slots[s])
  /\ \A job \in Jobs(Root) : JobLists(job)
  /\ RowsClaimed

LEMMA IdleLists == Lists(Idle)
BY DEF Lists, Idle

LEMMA ListsStep ==
  ASSUME Inv, ListsInv, NEW s \in Slots, NEW state, slots' = [slots EXCEPT ![s] = state], Lists(state),
         \A job \in Jobs(Root)' : job \in Jobs(Root) \/ JobLists(job), RowsClaimed'
  PROVE  ListsInv'
BY DEF Inv, Counters, ListsInv

LEMMA FreeLists ==
  ASSUME Inv, ListsInv, NEW s \in Slots, Free(s), UNCHANGED repos,
         \A job \in Jobs(Root)' : job \in Jobs(Root) \/ JobLists(job)
  PROVE  ListsInv'
<1>1. slots' = [slots EXCEPT ![s] = Idle]
  BY DEF Free
<1>2. RowsClaimed'
  BY DEF ListsInv, RowsClaimed
<1> QED BY <1>1, <1>2, IdleLists, ListsStep

LEMMA FailLists == ASSUME Inv, ListsInv, NEW s \in Slots, Fail(s) PROVE ListsInv'
<1>1. Free(s) /\ UNCHANGED <<todo, repos>>
  BY DEF Fail, queue, graph
<1>2. Jobs(Root)' = Jobs(Root)
  BY <1>1 DEF Jobs
<1> QED BY <1>1, <1>2, FreeLists

(* A slot goes on, the queue of the root and the repositories stay.         *)
LEMMA GoLists ==
  ASSUME Inv, ListsInv, NEW s \in Slots, NEW state, Go(s, state), Lists(state), UNCHANGED repos,
         Jobs(Root)' = Jobs(Root)
  PROVE  ListsInv'
<1>1. RowsClaimed'
  BY DEF ListsInv, RowsClaimed
<1> QED BY <1>1, ListsStep DEF Go

LEMMA SameJobs == ASSUME UNCHANGED todo PROVE Jobs(Root)' = Jobs(Root)
BY DEF Jobs

LEMMA BatchAdds ==
  ASSUME Inv, NEW jobs, BatchDefer(jobs)
  PROVE  Jobs(Root)' = Jobs(Root) \cup jobs
<1>1. todo'[Root] = todo[Root] (+) SetToBag(jobs) /\ IsABag(todo[Root])
  BY RootQueue DEF Inv, JobsFit, BatchDefer, Root
<1> QED BY <1>1, AddedAll DEF Jobs

LEMMA DefersElsewhere ==
  ASSUME Inv, NEW job, Defer(job),
         job.task \in {"crawl_package_deps", "crawl_package_registry", "crawl_github_dependents"}
  PROVE  Jobs(Root)' = Jobs(Root)
<1>1. QueueOfTask[job.task] \in Queues \ {Root}
  BY TaskQueues, RootQueue DEF Root
<1>2. todo' = todo \/ todo' = [todo EXCEPT ![QueueOfTask[job.task]] = BagAdd(@, job)]
  BY DEF Defer
<1> DEFINE q == QueueOfTask[job.task]
<1> HIDE DEF q
<1>3. q \in Queues \ {Root} /\ (todo' = todo \/ todo' = [todo EXCEPT ![q] = BagAdd(@, job)])
  BY <1>1, <1>2 DEF q
<1>4. todo'[Root] = todo[Root]
  BY <1>3, RootQueue DEF Inv, JobsFit
<1> QED BY <1>4 DEF Jobs

LEMMA SyncLists == ASSUME Inv, ListsInv, NEW s \in Slots, SyncOpengrants(s) PROVE ListsInv'
<1>1. \/ Fail(s)
      \/ \E chosen : BatchDefer({ProjectJob(p) : p \in chosen}) /\ Free(s) /\ UNCHANGED graph
  BY DEF SyncOpengrants
<1>2. ASSUME NEW chosen, BatchDefer({ProjectJob(p) : p \in chosen}), Free(s), UNCHANGED graph PROVE ListsInv'
  <2>1. \A p : JobLists(ProjectJob(p))
    BY DEF JobLists, ProjectJob
  <2>2. Jobs(Root)' = Jobs(Root) \cup {ProjectJob(p) : p \in chosen}
    BY <1>2, BatchAdds
  <2> QED BY <1>2, <2>1, <2>2, FreeLists DEF graph
<1> QED BY <1>1, <1>2, FailLists

LEMMA Resolved ==
  ASSUME NEW s \in Slots, ResolveProject(s)
  PROVE  \E state :
           /\ Go(s, state) /\ state.pc = "write" /\ state.job = Job(s)
           /\ \A job \in state.rest : JobLists(job) /\ job.lock = None
<1> DEFINE p == Job(s).project
<1>1. PICK unavailable \in SUBSET (Repos \cup {p.owner}), failing \in SUBSET (Repos \cup {p.owner}),
           batchFails \in BOOLEAN :
        LET education == p.category = "Education & Community"
            crawled == IF education THEN {} ELSE ReposToCrawl(p.owner, p.repos, FALSE, unavailable)
            packages == ProjectPackages(crawled, batchFails, failing)
        IN Go(s, [pc |-> "write", job |-> Job(s), found |-> p.canonical_id \in DOMAIN projects,
                  type |-> IF \E r \in crawled : packages[r] # <<>> THEN "public_good" ELSE "scf_project",
                  rest |-> {RepoJob(r, p.canonical_id, packages[r]) : r \in crawled},
                  last |-> education])
  BY DEF ResolveProject
<1> DEFINE education == p.category = "Education & Community"
           crawled == IF education THEN {} ELSE ReposToCrawl(p.owner, p.repos, FALSE, unavailable)
           packages == ProjectPackages(crawled, batchFails, failing)
           type == IF \E r \in crawled : packages[r] # <<>> THEN "public_good" ELSE "scf_project"
           found == p.canonical_id \in DOMAIN projects
           rest == {RepoJob(r, p.canonical_id, packages[r]) : r \in crawled}
           state == [pc |-> "write", job |-> Job(s), found |-> found, type |-> type, rest |-> rest,
                     last |-> education]
<1>2. Go(s, state)
  BY <1>1
<1>3. crawled \subseteq Repos
  BY ReposFound
<1> HIDE DEF education, crawled, type, found
<1>4. ASSUME NEW r \in crawled PROVE packages[r] \in Seq(Claims(r))
  <2> DEFINE empty == <<>>
  <2>1. packages[r] = empty \/ packages[r] = Distinct(Mapped[r])
    BY DEF ProjectPackages
  <2>2. empty \in Seq(Claims(r)) /\ Distinct(Mapped[r]) \in Seq(Claims(r))
    BY <1>3, MappedAreClaimed
  <2> HIDE DEF packages, empty
  <2> QED BY <2>1, <2>2
<1> HIDE DEF packages
<1>5. \A job \in rest : JobLists(job) /\ job.lock = None
  BY <1>4 DEF RepoJob, JobLists
<1> HIDE DEF rest
<1>6. state.pc = "write" /\ state.job = Job(s) /\ state.rest = rest
  OBVIOUS
<1> HIDE DEF state
<1> QED BY <1>2, <1>5, <1>6

LEMMA ResolveLists ==
  ASSUME Inv, ListsInv, NEW s \in Slots, ResolveProject(s)
  PROVE  ListsInv'
<1>1. slots[s].pc = "start" /\ Job(s).task = "process_project" /\ UNCHANGED <<todo, repos>>
  BY DEF ResolveProject, queue, graph
<1>2. PICK state :
        /\ Go(s, state) /\ state.pc = "write" /\ state.job = Job(s)
        /\ \A job \in state.rest : JobLists(job)
  BY Resolved
<1>3. Lists(state)
  BY <1>1, <1>2 DEF Lists, JobLists
<1> QED BY <1>1, <1>2, <1>3, SameJobs, GoLists

LEMMA UpsertProjectLists == ASSUME Inv, ListsInv, NEW s \in Slots, UpsertProject(s) PROVE ListsInv'
<1>1. slots[s].pc = "write" /\ Job(s).task = "process_project"
  BY DEF UpsertProject
<1>2. KnowsProject(s) /\ {"pc", "job"} \subseteq DOMAIN slots[s]
  BY <1>1, Working DEF Pcs, Knows
<1>3. Fail(s) \/ ((Go(s, Idle) \/ Go(s, [slots[s] EXCEPT !.pc = "defer"])) /\ UNCHANGED <<queue, repos>>)
  BY DEF UpsertProject
<1> DEFINE state == [slots[s] EXCEPT !.pc = "defer"]
<1>4. DOMAIN state = DOMAIN slots[s] /\ state.pc = "defer" /\ state.job = slots[s].job /\ state.rest = slots[s].rest
  BY <1>2 DEF KnowsProject
<1> HIDE DEF state
<1>5. Lists(state)
  BY <1>1, <1>4 DEF Lists, ListsInv, Job
<1> QED BY <1>3, <1>5, FailLists, IdleLists, SameJobs, GoLists DEF queue, state

LEMMA DeferReposLists == ASSUME Inv, ListsInv, NEW s \in Slots, DeferRepos(s) PROVE ListsInv'
<1>1. slots[s].pc = "defer" /\ Job(s).task = "process_project" /\ BatchDefer(slots[s].rest) /\ Free(s) /\ UNCHANGED repos
  BY DEF DeferRepos, graph
<1>2. \A job \in slots[s].rest : JobLists(job)
  BY <1>1 DEF ListsInv, Lists, Job
<1> QED BY <1>1, <1>2, BatchAdds, FreeLists

-----------------------------------------------------------------------------
(* The crawl of a repository.                                               *)

(* Packages of a crawl come with its job, or from the manifests.            *)
FromLists(s, packages) ==
  Job(s).repo \in Repos /\ Job(s).packages \in Seq(Claims(Job(s).repo)) =>
    packages \in Seq(Claims(Job(s).repo))

LEMMA Begun ==
  ASSUME NEW s \in Slots, BeginCrawl(s)
  PROVE  \/ Fail(s)
         \/ \E found, packages, answered :
              /\ FromLists(s, packages) /\ answered \subseteq ToSet(packages) \cap KnownPackages
              /\ \A p \in answered : p[1] \in DepsDevSystems
              /\ Go(s, [pc |-> "write", job |-> Job(s), found |-> found,
                        read |-> IF Job(s).repo \in DOMAIN repos THEN repos[Job(s).repo].releases ELSE {},
                        releases |-> {Purl(p) : p \in Released(packages, answered)}, rest |-> packages])
              /\ UNCHANGED <<queue, graph, history>>
<1> DEFINE r == Job(s).repo
           detects == Job(s).packages = <<>>
<1>1. PICK pages, unreadable, failing, packages, answered :
        /\ packages = IF detects THEN DetectPackages(r, ReadManifests(r, pages, unreadable)) ELSE Job(s).packages
        /\ answered = {p \in ToSet(packages) : p[1] \in DepsDevSystems /\ p \in KnownPackages \ failing}
        /\ \/ Fail(s)
           \/ /\ Go(s, [pc |-> "write", job |-> Job(s), found |-> r \in DOMAIN repos,
                        read |-> IF r \in DOMAIN repos THEN repos[r].releases ELSE {},
                        releases |-> {Purl(p) : p \in Released(packages, answered)}, rest |-> packages])
              /\ UNCHANGED <<queue, graph, history>>
  BY CrawlBegins
<1>2. FromLists(s, packages)
  <2>1. detects /\ r \in Repos => packages \in Seq(Claims(r))
    BY <1>1, DetectedAreClaimed
  <2> QED BY <1>1, <2>1 DEF FromLists
<1> DEFINE found == r \in DOMAIN repos
           read == IF r \in DOMAIN repos THEN repos[r].releases ELSE {}
<1>3. \/ Fail(s)
      \/ /\ Go(s, [pc |-> "write", job |-> Job(s), found |-> found, read |-> read,
                   releases |-> {Purl(p) : p \in Released(packages, answered)}, rest |-> packages])
         /\ UNCHANGED <<queue, graph, history>>
  BY <1>1
<1>4. answered \subseteq ToSet(packages) \cap KnownPackages /\ \A p \in answered : p[1] \in DepsDevSystems
  BY <1>1
<1> HIDE DEF found
<1> QED BY <1>2, <1>3, <1>4 DEF read

LEMMA BeginLists ==
  ASSUME Inv, ListsInv, NEW s \in Slots, BeginCrawl(s)
  PROVE  ListsInv'
<1> DEFINE r == Job(s).repo
<1>1. slots[s].pc = "start" /\ Job(s).task = "crawl_github_repo"
  BY DEF BeginCrawl
<1>2. r \in Repos
  BY <1>1, Working DEF Pcs, JobFits
<1>3. Job(s).packages \in Seq(Claims(r))
  BY <1>1 DEF ListsInv, Lists, JobLists, Job
<1>4. \/ Fail(s)
      \/ \E found, packages, answered :
           /\ packages \in Seq(Claims(r)) /\ answered \subseteq ToSet(packages) \cap KnownPackages
           /\ Go(s, [pc |-> "write", job |-> Job(s), found |-> found,
                     read |-> IF r \in DOMAIN repos THEN repos[r].releases ELSE {},
                     releases |-> {Purl(p) : p \in Released(packages, answered)}, rest |-> packages])
           /\ UNCHANGED <<queue, graph, history>>
  BY <1>2, <1>3, Begun DEF FromLists
<1>5. ASSUME NEW found, NEW packages \in Seq(Claims(r)), NEW answered \in SUBSET (ToSet(packages) \cap KnownPackages),
             Go(s, [pc |-> "write", job |-> Job(s), found |-> found,
                    read |-> IF r \in DOMAIN repos THEN repos[r].releases ELSE {},
                    releases |-> {Purl(p) : p \in Released(packages, answered)}, rest |-> packages]),
             UNCHANGED <<queue, graph, history>>
      PROVE  ListsInv'
  <2> DEFINE read == IF r \in DOMAIN repos THEN repos[r].releases ELSE {}
             releases == {Purl(p) : p \in Released(packages, answered)}
             state == [pc |-> "write", job |-> Job(s), found |-> found, read |-> read, releases |-> releases,
                       rest |-> packages]
  <2>1. read \subseteq ReleasesOf(Claims(r))
    BY DEF ListsInv, RowsClaimed
  <2>2. releases \subseteq ReleasesOf(ToSet(packages))
    BY ReleasedAnswered DEF ReleasesOf
  <2>3. Go(s, state) /\ UNCHANGED <<todo, repos>>
    BY <1>5 DEF queue, graph
  <2> HIDE DEF read, releases
  <2>4. Lists(state)
    BY <1>1, <1>3, <2>1, <2>2 DEF Lists, CrawlLists, JobLists
  <2> QED BY <2>3, <2>4, SameJobs, GoLists
<1> QED BY <1>4, <1>5, FailLists

(* A row that is written has the releases read before and those answered.   *)
LEMMA UpsertedRow ==
  ASSUME Inv, NEW s \in Slots, UpsertRepoRow(s), ~Fail(s)
  PROVE  /\ Job(s).task = "crawl_github_repo" /\ slots[s].pc = "write" /\ Job(s).repo \in Repos
         /\ DOMAIN repos' = DOMAIN repos \cup {Job(s).repo}
         /\ repos'[Job(s).repo].releases = slots[s].read \cup slots[s].releases
         /\ \A r \in DOMAIN repos \ {Job(s).repo} : repos'[r] = repos[r]
         /\ Go(s, [pc |-> "absorb", job |-> Job(s), packages |-> slots[s].rest, rest |-> slots[s].rest])
         /\ UNCHANGED <<queue, projects, externals, edges, history>>
<1> DEFINE releases == slots[s].read \cup slots[s].releases
           row == [project |-> Job(s).project, releases |-> releases]
<1>1. /\ Job(s).task = "crawl_github_repo" /\ slots[s].pc = "write"
      /\ repos' = Upserted(repos, Job(s).repo, row)
      /\ Go(s, [pc |-> "absorb", job |-> Job(s), packages |-> slots[s].rest, rest |-> slots[s].rest])
      /\ UNCHANGED <<queue, projects, externals, edges, history>>
  BY DEF UpsertRepoRow
<1>2. Job(s).repo \in Repos
  BY <1>1, Working DEF Pcs, JobFits
<1>3. row.releases = releases
  OBVIOUS
<1> HIDE DEF row
<1>4. /\ DOMAIN repos' = DOMAIN repos \cup {Job(s).repo}
      /\ \A k \in DOMAIN repos' : repos'[k] = IF k = Job(s).repo THEN row ELSE repos[k]
  BY <1>1 DEF Upserted
<1> QED BY <1>1, <1>2, <1>3, <1>4

LEMMA Widened ==
  ASSUME NEW S, NEW T, S \subseteq T
  PROVE  ReleasesOf(S) \subseteq ReleasesOf(T)
BY DEF ReleasesOf

LEMMA UpsertRepoLists == ASSUME Inv, ListsInv, NEW s \in Slots, UpsertRepoRow(s) PROVE ListsInv'
<1> DEFINE r == Job(s).repo
           state == [pc |-> "absorb", job |-> Job(s), packages |-> slots[s].rest, rest |-> slots[s].rest]
<1> SUFFICES ASSUME ~Fail(s) PROVE ListsInv'
  BY FailLists
<1>1. CrawlLists(slots[s]) /\ JobLists(Job(s)) /\ slots[s].job = Job(s)
  BY UpsertedRow DEF ListsInv, Lists, Job
<1>2. slots[s].rest \in Seq(Claims(r))
  BY <1>1, UpsertedRow DEF CrawlLists
<1>3. slots[s].read \cup slots[s].releases \subseteq ReleasesOf(Claims(r))
  <2>1. slots[s].releases \subseteq ReleasesOf(ToSet(slots[s].rest)) /\ slots[s].read \subseteq ReleasesOf(Claims(r))
    BY <1>1, UpsertedRow DEF CrawlLists
  <2>2. ToSet(slots[s].rest) \subseteq Claims(r)
    BY <1>2, Within
  <2> HIDE DEF r
  <2>3. ReleasesOf(ToSet(slots[s].rest)) \subseteq ReleasesOf(Claims(r))
    BY <2>2, Widened
  <2> QED BY <2>1, <2>3
<1>4. RowsClaimed'
  <2>1. ASSUME NEW k \in DOMAIN repos' PROVE repos'[k].releases \subseteq ReleasesOf(Claims(k))
    <3>1. CASE k = r
      <4>1. repos'[k].releases = slots[s].read \cup slots[s].releases
        BY <3>1, UpsertedRow
      <4> QED BY <1>3, <3>1, <4>1
    <3>2. CASE k # r
      <4>1. k \in DOMAIN repos /\ repos'[k] = repos[k]
        BY <2>1, <3>2, UpsertedRow
      <4> QED BY <4>1 DEF ListsInv, RowsClaimed
    <3> QED BY <3>1, <3>2
  <2> QED BY <2>1 DEF RowsClaimed
<1>5. Lists(state)
  BY <1>1, <1>2, UpsertedRow DEF Lists, CrawlLists
<1>6. UNCHANGED todo /\ slots' = [slots EXCEPT ![s] = state]
  BY UpsertedRow DEF queue, Go
<1> HIDE DEF state
<1> QED BY <1>4, <1>5, <1>6, SameJobs, ListsStep

LEMMA Absorbing ==
  ASSUME Inv, NEW s \in Slots, slots[s].pc = "absorb"
  PROVE  /\ Busy(s) /\ Job(s).task = "crawl_github_repo" /\ slots[s].job = Job(s) /\ QueueOf[s] = Root
         /\ {"pc", "job", "rest"} \subseteq DOMAIN slots[s]
<1>1. Busy(s) /\ Knows(s) /\ QueueOf[s] = QueueOfTask[Job(s).task]
  BY Working DEF Pcs
<1>2. Job(s).task = "crawl_github_repo"
  BY <1>1 DEF Knows, KnowsProject, KnowsPackage
<1> QED BY <1>1, <1>2, TaskQueues DEF Knows, KnowsRepo, Job

(* What a crawl absorbs comes from its list.                                *)
LEMMA AbsorbedNext ==
  ASSUME Inv, ListsInv, NEW s \in Slots, AbsorbPackage(s)
  PROVE  /\ slots[s].rest \in Seq(Claims(Job(s).repo)) /\ slots[s].rest # <<>> /\ Job(s).repo \in Repos
         /\ Head(slots[s].rest) \in Claims(Job(s).repo)
         /\ Tail(slots[s].rest) \in Seq(Claims(Job(s).repo))
         /\ ToSet(slots[s].rest) = {Head(slots[s].rest)} \cup ToSet(Tail(slots[s].rest))
<1>1. slots[s].pc = "absorb" /\ slots[s].rest # <<>>
  BY DEF AbsorbPackage
<1>2. Job(s).task = "crawl_github_repo" /\ slots[s].job = Job(s)
  BY <1>1, Absorbing
<1>3. slots[s].rest \in Seq(Claims(Job(s).repo))
  BY <1>1, <1>2 DEF ListsInv, Lists, CrawlLists
<1>4. Job(s).repo \in Repos
  BY <1>1, <1>2, Working DEF Pcs, JobFits
<1> DEFINE list == slots[s].rest
<1>5. list \in Seq(Claims(Job(s).repo)) /\ list # <<>>
  BY <1>1, <1>3
<1> HIDE DEF list
<1>6. /\ Head(list) \in Claims(Job(s).repo) /\ Tail(list) \in Seq(Claims(Job(s).repo))
      /\ ToSet(list) = {Head(list)} \cup ToSet(Tail(list))
  BY <1>5, HeadTail
<1> QED BY <1>4, <1>5, <1>6 DEF list

LEMMA AbsorbLists == ASSUME Inv, ListsInv, NEW s \in Slots, AbsorbPackage(s) PROVE ListsInv'
<1> DEFINE rest == Tail(slots[s].rest)
           state == [slots[s] EXCEPT !.rest = rest]
<1>1. slots[s].pc = "absorb" /\ Go(s, state) /\ UNCHANGED <<todo, repos>>
  BY DEF AbsorbPackage, queue
<1>2. rest \in Seq(Claims(Job(s).repo))
  BY AbsorbedNext
<1>3. Lists(slots[s])
  BY DEF ListsInv
<1> HIDE DEF rest
<1>4. state.pc = "absorb" /\ state.job = Job(s) /\ state.rest = rest
  BY <1>1, Absorbing
<1> HIDE DEF state
<1>5. Lists(state)
  BY <1>1, <1>2, <1>3, <1>4, Absorbing DEF Lists, CrawlLists
<1> QED BY <1>1, <1>5, SameJobs, GoLists

LEMMA AssociateLists == ASSUME Inv, ListsInv, NEW s \in Slots, Associate(s) PROVE ListsInv'
<1> DEFINE rest == FanOut(Job(s).repo, slots[s].packages)
           state == [slots[s] EXCEPT !.pc = "defer", !.rest = rest]
           row == [repos[Job(s).repo] EXCEPT !.project = Job(s).project]
<1>1. /\ slots[s].pc = "absorb" /\ slots' = [slots EXCEPT ![s] = state] /\ UNCHANGED todo
      /\ repos' = [repos EXCEPT ![Job(s).repo] = row]
  BY DEF Associate, queue, Go
<1>2. Lists(slots[s])
  BY DEF ListsInv
<1> HIDE DEF rest
<1>3. state.pc = "defer" /\ state.job = Job(s)
  BY <1>1, Absorbing
<1> HIDE DEF state
<1>4. Lists(state)
  BY <1>1, <1>2, <1>3, Absorbing DEF Lists, CrawlLists
<1>5. row.releases = repos[Job(s).repo].releases
  OBVIOUS
<1> HIDE DEF row
<1>6. RowsClaimed'
  BY <1>1, <1>5 DEF ListsInv, RowsClaimed
<1> QED BY <1>1, <1>4, <1>6, SameJobs, ListsStep

LEMMA DeferNextLists == ASSUME Inv, ListsInv, NEW s \in Slots, DeferNext(s) PROVE ListsInv'
<1> DEFINE rest == Tail(slots[s].rest)
           state == [slots[s] EXCEPT !.rest = rest]
<1>1. /\ slots[s].pc = "defer" /\ Job(s).task = "crawl_github_repo" /\ Go(s, state) /\ UNCHANGED repos
      /\ \E next : Defer(FanOutJob(Job(s).repo, slots[s].packages, next))
  BY DEF DeferNext, graph
<1>2. \A next : FanOutJob(Job(s).repo, slots[s].packages, next).task
        \in {"crawl_package_deps", "crawl_package_registry", "crawl_github_dependents"}
  BY DEF FanOutJob, DepsJob, RegistryJob, DependentsJob
<1>3. Jobs(Root)' = Jobs(Root)
  BY <1>1, <1>2, DefersElsewhere
<1>4. {"pc", "job", "rest"} \subseteq DOMAIN slots[s] /\ Lists(slots[s]) /\ slots[s].job = Job(s)
  BY <1>1, Working DEF Knows, KnowsRepo, Pcs, ListsInv, Job
<1> HIDE DEF rest
<1>5. state.pc = "defer" /\ state.job = Job(s)
  BY <1>1, <1>4
<1> HIDE DEF state
<1>6. Lists(state)
  BY <1>1, <1>4, <1>5 DEF Lists, CrawlLists
<1> QED BY <1>1, <1>3, <1>6, GoLists

LEMMA EndCrawlLists == ASSUME Inv, ListsInv, NEW s \in Slots, EndCrawl(s) PROVE ListsInv'
BY SameJobs, FreeLists DEF EndCrawl, queue, graph

-----------------------------------------------------------------------------
(* The packages.                                                            *)

LEMMA RequirementsLists ==
  ASSUME Inv, ListsInv, NEW s \in Slots, FetchRequirements(s)
  PROVE  ListsInv'
<1> DEFINE p == Job(s).package
           state == [pc |-> "write", job |-> Job(s), rest |-> Requires(p), edges |-> {}, new |-> {}]
<1>1. /\ slots[s].pc = "start" /\ Job(s).task = "crawl_package_deps" /\ UNCHANGED <<todo, repos>>
      /\ Free(s) \/ (p \in KnownPackages /\ Go(s, state))
  BY DEF FetchRequirements, queue, graph
<1>2. p \in KnownPackages => Lists(state)
  BY <1>1, RequirementsAreLists DEF Lists, DepsLists, JobLists, IsList
<1> QED BY <1>1, <1>2, SameJobs, FreeLists, GoLists

(* A visit of a requirement ends the crawl of the package, or links it.     *)
LEMMA Visited ==
  ASSUME Inv, ListsInv, NEW s \in Slots, VisitRequirement(s), ~Fail(s)
  PROVE  LET q == Head(slots[s].rest)
         IN /\ slots[s].pc = "write" /\ Job(s).task = "crawl_package_deps" /\ slots[s].job = Job(s)
            /\ {"pc", "job", "rest", "edges", "new"} \subseteq DOMAIN slots[s]
            /\ slots[s].rest # <<>> /\ slots[s].rest \in Seq(ToSet(Requires(Job(s).package)))
            /\ Job(s).package \in KnownPackages /\ UNCHANGED graph /\ UNCHANGED <<applied, abandoned, foreign>>
            /\ Jobs(Root)' = Jobs(Root)
            /\ \E v, new :
                 /\ \/ v \in Publishers(TaskId(q)) /\ new = {}
                    \/ v = TaskId(q) /\ Publishers(v) = {} /\ v \in externals \cup New(s) /\ new = {}
                    \/ v = TaskId(q) /\ Publishers(v) = {} /\ new = {v}
                 /\ Go(s, [slots[s] EXCEPT !.rest = Tail(@), !.new = @ \cup new,
                                           !.edges = @ \cup {<<Job(s).source, v>>}])
<1> DEFINE q == Head(slots[s].rest)
           id == TaskId(q)
           linked(v, new) ==
             Go(s, [slots[s] EXCEPT !.rest = Tail(@), !.new = @ \cup new, !.edges = @ \cup {<<Job(s).source, v>>}])
<1>1. slots[s].pc = "write" /\ Job(s).task = "crawl_package_deps" /\ slots[s].rest # <<>>
  BY DEF VisitRequirement
<1>2. Knows(s) /\ {"pc", "job"} \subseteq DOMAIN slots[s] /\ slots[s].job = Job(s) /\ Lists(slots[s])
  BY <1>1, Working DEF Knows, Pcs, ListsInv, Job
<1>3. {"pc", "job", "rest", "edges", "new"} \subseteq DOMAIN slots[s]
  BY <1>1, <1>2 DEF Knows, KnowsPackage
<1>4. slots[s].rest \in Seq(ToSet(Requires(Job(s).package))) /\ Job(s).package \in KnownPackages
  BY <1>1, <1>2 DEF Lists, DepsLists
<1>5. \/ /\ \E r \in Publishers(id) : linked(r, {}) /\ Defer(Recursion(s, q, r))
         /\ UNCHANGED <<worker, round, week, stage, graph, history>>
      \/ /\ Publishers(id) = {} /\ id \in externals \cup New(s)
         /\ linked(id, {})
         /\ UNCHANGED <<queue, graph, history>>
      \/ /\ Publishers(id) = {}
         /\ linked(id, {id})
         /\ UNCHANGED <<queue, graph, history>>
  BY DEF VisitRequirement
<1>6. UNCHANGED graph /\ UNCHANGED <<applied, abandoned, foreign>>
  BY <1>5 DEF history
<1>7. \A r : Recursion(s, q, r).task = "crawl_package_deps"
  BY DEF Recursion, DepsJob
<1> HIDE DEF id
<1>8. Jobs(Root)' = Jobs(Root)
  BY <1>5, <1>7, DefersElsewhere, SameJobs DEF queue
<1>9. \E v, new :
        /\ \/ v \in Publishers(id) /\ new = {}
           \/ v = id /\ Publishers(v) = {} /\ v \in externals \cup New(s) /\ new = {}
           \/ v = id /\ Publishers(v) = {} /\ new = {v}
        /\ linked(v, new)
  <2> HIDE DEF linked
  <2> QED BY <1>5
<1> QED BY <1>1, <1>2, <1>3, <1>4, <1>6, <1>8, <1>9 DEF id

LEMMA VisitLists == ASSUME Inv, ListsInv, NEW s \in Slots, VisitRequirement(s) PROVE ListsInv'
<1> SUFFICES ASSUME ~Fail(s) PROVE ListsInv'
  BY FailLists
<1> DEFINE rest == Tail(slots[s].rest)
           required == ToSet(Requires(Job(s).package))
<1>1. /\ slots[s].pc = "write" /\ Job(s).task = "crawl_package_deps" /\ slots[s].job = Job(s)
      /\ {"pc", "job", "rest", "edges", "new"} \subseteq DOMAIN slots[s]
      /\ slots[s].rest # <<>> /\ slots[s].rest \in Seq(required)
      /\ Job(s).package \in KnownPackages /\ UNCHANGED repos /\ Jobs(Root)' = Jobs(Root)
  BY Visited DEF graph
<1>2. PICK v, new : Go(s, [slots[s] EXCEPT !.rest = rest, !.new = @ \cup new,
                                           !.edges = @ \cup {<<Job(s).source, v>>}])
  BY Visited
<1>3. rest \in Seq(required)
  BY <1>1, HeadTail
<1> HIDE DEF rest
<1> DEFINE state == [slots[s] EXCEPT !.rest = rest, !.new = @ \cup new, !.edges = @ \cup {<<Job(s).source, v>>}]
<1>4. state.pc = "write" /\ state.job = Job(s) /\ state.rest = rest
  BY <1>1
<1>5. Go(s, state)
  BY <1>2
<1> HIDE DEF state
<1>6. Lists(state)
  BY <1>1, <1>3, <1>4 DEF Lists, DepsLists, JobLists
<1> QED BY <1>1, <1>5, <1>6, GoLists

LEMMA CommitDepsLists == ASSUME Inv, ListsInv, NEW s \in Slots, CommitDeps(s) PROVE ListsInv'
BY SameJobs, FreeLists DEF CommitDeps, queue

LEMMA RegistryLists == ASSUME Inv, ListsInv, NEW s \in Slots, CrawlRegistry(s) PROVE ListsInv'
BY SameJobs, FreeLists DEF CrawlRegistry, queue

-----------------------------------------------------------------------------
(* The workers.                                                             *)

LEMMA ListsKept ==
  ASSUME Inv, ListsInv, UNCHANGED <<slots, repos>>, \A job \in Jobs(Root)' : job \in Jobs(Root) \/ JobLists(job)
  PROVE  ListsInv'
BY DEF ListsInv, RowsClaimed

LEMMA FetchedJob ==
  ASSUME Inv, NEW s \in Slots, Fetch(s)
  PROVE  /\ ~Busy(s) /\ UNCHANGED graph /\ UNCHANGED history /\ Jobs(Root)' \subseteq Jobs(Root)
         /\ UNCHANGED worker /\ worker[QueueOf[s]] = "fetching"
         /\ \E job \in Jobs(QueueOf[s]) : JobFits(job, QueueOf[s]) /\ Go(s, [pc |-> "start", job |-> job])
<1> DEFINE q == QueueOf[s]
<1>1. PICK job \in Jobs(q) :
        /\ Go(s, [pc |-> "start", job |-> job]) /\ todo' = [todo EXCEPT ![q] = BagRemove(@, job)]
        /\ ~Busy(s) /\ UNCHANGED graph /\ UNCHANGED history /\ UNCHANGED worker /\ worker[q] = "fetching"
  BY DEF Fetch
<1>2. JobFits(job, q) /\ IsABag(todo[q]) /\ q \in Queues
  BY <1>1, SlotQueue DEF Inv, JobsFit
<1> HIDE DEF q
<1>3. todo'[Root] = IF Root = q THEN BagRemove(todo[q], job) ELSE todo[Root]
  BY <1>1, <1>2, RootQueue DEF Inv, JobsFit
<1>4. Jobs(Root)' \subseteq Jobs(Root)
  BY <1>2, <1>3, Removed DEF Jobs
<1> QED BY <1>1, <1>2, <1>4 DEF q

LEMMA FetchLists == ASSUME Inv, ListsInv, NEW s \in Slots, Fetch(s) PROVE ListsInv'
<1>1. PICK job \in Jobs(QueueOf[s]) : JobFits(job, QueueOf[s]) /\ Go(s, [pc |-> "start", job |-> job])
  BY FetchedJob
<1> DEFINE state == [pc |-> "start", job |-> job]
<1>2. JobLists(job)
  BY <1>1, TaskQueues DEF JobFits, ListsInv, JobLists, Root
<1>3. Lists(state)
  BY <1>2 DEF Lists, CrawlLists, DepsLists
<1>4. RowsClaimed'
  BY FetchedJob DEF graph, ListsInv, RowsClaimed
<1>5. slots' = [slots EXCEPT ![s] = state]
  BY <1>1 DEF Go
<1> HIDE DEF state
<1> QED BY <1>3, <1>4, <1>5, FetchedJob, ListsStep

LEMMA KillLists == ASSUME Inv, ListsInv, NEW q \in Queues, KillWorker(q) PROVE ListsInv'
<1>1. UNCHANGED <<todo, repos>> /\ \A s \in Slots : slots'[s] \in {Idle, slots[s]}
  BY DEF KillWorker, graph
<1>2. \A s \in Slots : Lists(slots[s])'
  BY <1>1, IdleLists DEF ListsInv
<1> QED BY <1>1, <1>2, SameJobs DEF ListsInv, RowsClaimed

LEMMA StartWeekLists == ASSUME Inv, ListsInv, StartWeek PROVE ListsInv'
<1>1. UNCHANGED <<slots, repos>> /\ (UNCHANGED todo \/ \E selected : Defer(SyncJob(selected)))
  BY DEF StartWeek, graph
<1>2. ASSUME NEW selected, Defer(SyncJob(selected)) PROVE \A job \in Jobs(Root)' : job \in Jobs(Root) \/ JobLists(job)
  <2> DEFINE job == SyncJob(selected)
  <2>1. QueueOfTask[job.task] = Root /\ JobLists(job)
    BY TaskQueues DEF SyncJob, JobLists
  <2> HIDE DEF job
  <2>2. todo' = todo \/ todo' = [todo EXCEPT ![Root] = BagAdd(@, job)]
    BY <1>2, <2>1 DEF Defer, job
  <2>3. todo'[Root] \in {todo[Root], BagAdd(todo[Root], job)} /\ IsABag(todo[Root])
    BY <2>2, RootQueue DEF Inv, JobsFit
  <2>4. Jobs(Root)' \subseteq Jobs(Root) \cup {job}
    BY <2>3, Added DEF Jobs
  <2> QED BY <2>1, <2>4
<1> QED BY <1>1, <1>2, SameJobs, ListsKept

LEMMA WorkLists == ASSUME Inv, ListsInv, NEW s \in Slots, Work(s) PROVE ListsInv'
BY SyncLists, ResolveLists, UpsertProjectLists, DeferReposLists, BeginLists, UpsertRepoLists, AbsorbLists,
   AssociateLists, DeferNextLists, EndCrawlLists, RequirementsLists, VisitLists, CommitDepsLists,
   RegistryLists DEF Work

(* Steps of the workflow that leave the slots, the jobs and the graph.      *)
Administers == UNCHANGED slots /\ UNCHANGED todo /\ UNCHANGED graph /\ UNCHANGED history

LEMMA Cases ==
  ASSUME [Next]_vars
  PROVE  \/ \E s \in Slots : Work(s) \/ Fetch(s)
         \/ \E q \in Queues : KillWorker(q)
         \/ StartWeek
         \/ Administers
<1>1. ASSUME NEW q \in Queues, Run(q) PROVE Administers
  BY <1>1 DEF Run, StartWorker, FetchNothing, EndRound, Administers
<1>2. EndWeek => Administers
  BY DEF EndWeek, Administers
<1>3. UNCHANGED vars => Administers
  BY DEF vars, queue, Administers
<1> QED BY <1>1, <1>2, <1>3 DEF Next

LEMMA ListsNext == ASSUME Inv, ListsInv, [Next]_vars PROVE ListsInv'
<1>1. Administers => ListsInv'
  BY SameJobs, ListsKept DEF Administers, graph
<1> QED BY <1>1, Cases, WorkLists, FetchLists, KillLists, StartWeekLists

LEMMA ListsInit == Init => ListsInv
<1> SUFFICES ASSUME Init PROVE ListsInv
  OBVIOUS
<1>1. Jobs(Root) = {}
  BY RootQueue, Emptied DEF Init, Jobs
<1>2. DOMAIN repos = {}
  BY DEF Init
<1> QED BY <1>1, <1>2, IdleLists DEF Init, ListsInv, RowsClaimed

LEMMA ListsAlways == Spec => []ListsInv
<1>1. Inv /\ ListsInv /\ [Next]_vars => ListsInv'
  BY ListsNext
<1> QED BY <1>1, ListsInit, CrawlInvariant, PTL DEF Spec

-----------------------------------------------------------------------------
(* Requirements stay linked.                                                *)

(* A source is linked to a requirement, given the external vertices, the    *)
(* repositories and the edges.                                              *)
Linked(source, q, vertices, rows, joined) ==
  \/ q \in Claims(source)
  \/ \E v \in ({TaskId(q)} \cap vertices) \cup {r \in rows : q \in Claims(r)} : <<source, v>> \in joined

LEMMA Grows ==
  ASSUME NEW source, NEW q, NEW vertices, NEW rows, NEW joined, NEW vertices2, NEW rows2, NEW joined2,
         Linked(source, q, vertices, rows, joined),
         vertices \subseteq vertices2, rows \subseteq rows2, joined \subseteq joined2
  PROVE  Linked(source, q, vertices2, rows2, joined2)
BY DEF Linked

Visits(x) == x.pc = "write" /\ x.job.task = "crawl_package_deps"

(* The requirements a crawl is done with are linked by what it will commit. *)
VisitLinked(x, vertices, rows) ==
  \A q \in ToSet(Requires(x.job.package)) :
    q \in ToSet(x.rest) \/ Linked(x.job.source, q, vertices \cup x.new, rows, x.edges)
LinkInv ==
  /\ \A a \in applied : a[1] \in KnownPackages
  /\ \A a \in applied : \A q \in ToSet(Requires(a[1])) : Linked(a[2], q, externals, DOMAIN repos, edges)
  /\ \A s \in Slots : Visits(slots[s]) => VisitLinked(slots[s], externals, DOMAIN repos)

LEMMA LinksGrow ==
  ASSUME LinkInv, UNCHANGED applied, externals \subseteq externals', edges \subseteq edges',
         DOMAIN repos \subseteq DOMAIN repos',
         \A s \in Slots : Visits(slots'[s]) =>
           slots'[s] = slots[s] \/ VisitLinked(slots'[s], externals', DOMAIN repos')
  PROVE  LinkInv'
<1>1. \A a \in applied : \A q \in ToSet(Requires(a[1])) : Linked(a[2], q, externals', DOMAIN repos', edges')
  BY Grows DEF LinkInv
<1>2. ASSUME NEW s \in Slots, Visits(slots'[s]) PROVE VisitLinked(slots'[s], externals', DOMAIN repos')
  <2>1. ASSUME slots'[s] = slots[s] PROVE VisitLinked(slots'[s], externals', DOMAIN repos')
    <3> DEFINE x == slots[s]
    <3>1. VisitLinked(x, externals, DOMAIN repos)
      BY <1>2, <2>1 DEF LinkInv
    <3>2. externals \cup x.new \subseteq externals' \cup x.new
      OBVIOUS
    <3> HIDE DEF x
    <3>3. VisitLinked(x, externals', DOMAIN repos')
      BY <3>1, <3>2, Grows DEF VisitLinked
    <3> QED BY <2>1, <3>3 DEF x
  <2> QED BY <1>2, <2>1
<1> QED BY <1>1, <1>2 DEF LinkInv

(* While the root works, no package is crawled.                             *)
LEMMA RootAlone ==
  ASSUME Inv, NEW s \in Slots, Busy(s), QueueOf[s] = Root, NEW t \in Slots, Busy(t)
  PROVE  QueueOf[t] = Root
BY SlotQueue DEF Inv, Runs, InOrder, Active

LEMMA VisitsApart ==
  ASSUME Inv, NEW s \in Slots, Busy(s), QueueOf[s] = Root
  PROVE  \A t \in Slots : ~Visits(slots[t])
<1> SUFFICES ASSUME NEW t \in Slots, Visits(slots[t]) PROVE FALSE
  OBVIOUS
<1>1. Busy(t) /\ Job(t).task = "crawl_package_deps"
  BY DEF Visits, Busy, Job
<1>2. QueueOf[t] = "package-deps"
  BY <1>1, TaskQueues DEF Inv, Runs, JobFits
<1> QED BY <1>1, <1>2, RootAlone DEF Root

(* An absorption moves the links to a requirement along with its vertex.    *)
LEMMA Moves ==
  ASSUME NamesAreBare, NEW r \in Repos, NEW p \in Claims(r), NEW vertices, NEW rows \in SUBSET Repos, r \in rows,
         NEW joined, NEW source, NEW q, q \notin Repos, Linked(source, q, vertices, rows, joined)
  PROVE  LET gone == {TaskId(p)} \cap vertices
         IN Linked(source, q, vertices \ gone, rows,
                   {<<e[1], IF e[2] \in gone THEN r ELSE e[2]>> : e \in joined}
                     \ (IF gone = {} THEN {} ELSE {<<r, r>>}))
<1> DEFINE gone == {TaskId(p)} \cap vertices
           moved == {<<e[1], IF e[2] \in gone THEN r ELSE e[2]>> : e \in joined}
                      \ (IF gone = {} THEN {} ELSE {<<r, r>>})
<1> SUFFICES ASSUME q \notin Claims(source) PROVE Linked(source, q, vertices \ gone, rows, moved)
  BY DEF Linked
<1>1. PICK v \in ({q} \cap vertices) \cup {k \in rows : q \in Claims(k)} : <<source, v>> \in joined
  BY DEF Linked, TaskId
<1>2. gone \subseteq {p} /\ p \notin Repos
  BY DEF NamesAreBare, TaskId
<1>3. <<source, IF v \in gone THEN r ELSE v>> \in {<<e[1], IF e[2] \in gone THEN r ELSE e[2]>> : e \in joined}
  <2>1. \A e \in joined : <<e[1], IF e[2] \in gone THEN r ELSE e[2]>>
                            \in {<<f[1], IF f[2] \in gone THEN r ELSE f[2]>> : f \in joined}
    OBVIOUS
  <2> DEFINE e == <<source, v>>
  <2>2. e \in joined /\ e[1] = source /\ e[2] = v
    BY <1>1
  <2> HIDE DEF e, gone
  <2> QED BY <2>1, <2>2
<1>4. CASE v \in gone
  <2>1. v = p /\ q = p
    BY <1>1, <1>2, <1>4
  <2>2. source # r
    BY <2>1
  <2>3. <<source, r>> \in moved
    BY <1>3, <1>4, <2>2
  <2>4. r \in {k \in rows : q \in Claims(k)}
    BY <2>1
  <2> QED BY <2>3, <2>4 DEF Linked
<1>5. CASE v \notin gone
  <2>1. ~(source = r /\ v = r)
    BY <1>1
  <2>2. <<source, v>> \in moved
    BY <1>3, <1>5, <2>1
  <2>3. v \in ({TaskId(q)} \cap (vertices \ gone)) \cup {k \in rows : q \in Claims(k)}
    BY <1>1, <1>5 DEF TaskId
  <2> QED BY <2>2, <2>3 DEF Linked
<1> QED BY <1>4, <1>5

LEMMA AbsorbLinks ==
  ASSUME Inv, ListsInv, LinkInv, NamesAreBare, NEW s \in Slots, AbsorbPackage(s)
  PROVE  LinkInv'
<1> DEFINE p == Head(slots[s].rest)
           r == Job(s).repo
           gone == {TaskId(p)} \cap externals
<1>1. /\ slots[s].pc = "absorb" /\ externals' = externals \ gone /\ UNCHANGED <<repos, applied>>
      /\ edges' = {<<e[1], IF e[2] \in gone THEN r ELSE e[2]>> : e \in edges}
                    \ (IF gone = {} THEN {} ELSE {<<r, r>>})
      /\ \E state : state.pc = "absorb" /\ slots' = [slots EXCEPT ![s] = state]
  <2>1. slots[s].pc = "absorb" /\ Go(s, [slots[s] EXCEPT !.rest = Tail(@)])
    BY DEF AbsorbPackage
  <2>2. [slots[s] EXCEPT !.rest = Tail(@)].pc = "absorb"
    BY <2>1, Absorbing
  <2> QED BY <2>1, <2>2 DEF AbsorbPackage, Absorbed, EdgesMoved, Go
<1>2. p \in Claims(r) /\ r \in Repos
  BY AbsorbedNext
<1>3. r \in DOMAIN repos /\ DOMAIN repos \subseteq Repos
  BY <1>1, Working, Absorbing DEF Knows, KnowsRepo, Inv, GraphFits, Pcs
<1>4. \A t \in Slots : ~Visits(slots'[t])
  BY <1>1, VisitsApart, Absorbing DEF Visits, Inv, Counters
<1>5. ASSUME NEW a \in applied, NEW q \in ToSet(Requires(a[1]))
      PROVE  Linked(a[2], q, externals', DOMAIN repos', edges')
  <2>1. Linked(a[2], q, externals, DOMAIN repos, edges) /\ q \notin Repos
    BY DEF LinkInv, NamesAreBare
  <2> HIDE DEF p, r
  <2> QED BY <1>1, <1>2, <1>3, <2>1, Moves
<1> QED BY <1>1, <1>4, <1>5 DEF LinkInv

LEMMA VisitLinks ==
  ASSUME Inv, ListsInv, LinkInv, NamesAreBare, NEW s \in Slots, VisitRequirement(s), ~Fail(s)
  PROVE  LinkInv'
<1> DEFINE q == Head(slots[s].rest)
           rest == Tail(slots[s].rest)
           required == ToSet(Requires(Job(s).package))
<1>1. /\ slots[s].pc = "write" /\ Job(s).task = "crawl_package_deps" /\ slots[s].job = Job(s)
      /\ {"pc", "job", "rest", "edges", "new"} \subseteq DOMAIN slots[s]
      /\ slots[s].rest # <<>> /\ slots[s].rest \in Seq(required)
      /\ Job(s).package \in KnownPackages
      /\ UNCHANGED <<repos, externals, edges, applied>>
  BY Visited DEF graph
<1>2. PICK v, new :
        /\ \/ v \in Publishers(TaskId(q)) /\ new = {}
           \/ v = TaskId(q) /\ Publishers(v) = {} /\ v \in externals \cup New(s) /\ new = {}
           \/ v = TaskId(q) /\ Publishers(v) = {} /\ new = {v}
        /\ Go(s, [slots[s] EXCEPT !.rest = rest, !.new = @ \cup new, !.edges = @ \cup {<<Job(s).source, v>>}])
  BY Visited
<1>3. q \in required /\ ToSet(slots[s].rest) = {q} \cup ToSet(rest)
  BY <1>1, HeadTail
<1>4. v \in ({TaskId(q)} \cap (externals \cup slots[s].new \cup new)) \cup {r \in DOMAIN repos : q \in Claims(r)}
  <2>1. ASSUME v \in Publishers(TaskId(q)) PROVE v \in DOMAIN repos /\ q \in Claims(v)
    <3>1. v \in DOMAIN repos /\ q \in repos[v].releases
      BY <2>1 DEF Publishers, TaskId
    <3>2. PICK p \in Claims(v) \cap KnownPackages : q = Purl(p)
      BY <3>1 DEF ListsInv, RowsClaimed, ReleasesOf
    <3>3. p \notin Scoped
      BY <1>1, <1>3, <3>2 DEF NamesAreBare
    <3> QED BY <3>1, <3>2, <3>3 DEF Purl
  <2>2. New(s) \subseteq slots[s].new
    BY DEF New
  <2> HIDE DEF q
  <2> QED BY <1>2, <2>1, <2>2
<1> DEFINE state == [slots[s] EXCEPT !.rest = rest, !.new = @ \cup new, !.edges = @ \cup {<<Job(s).source, v>>}]
<1> HIDE DEF rest, q
<1>5. /\ state.job = Job(s) /\ state.rest = rest /\ state.new = slots[s].new \cup new
      /\ state.edges = slots[s].edges \cup {<<Job(s).source, v>>}
  BY <1>1
<1>6. slots' = [slots EXCEPT ![s] = state]
  BY <1>2 DEF Go
<1> HIDE DEF state
<1>7. VisitLinked(state, externals, DOMAIN repos)
  <2> SUFFICES ASSUME NEW k \in required
               PROVE  k \in ToSet(rest) \/ Linked(Job(s).source, k, externals \cup state.new, DOMAIN repos, state.edges)
    BY <1>5 DEF VisitLinked
  <2>1. CASE k = q
    BY <1>4, <1>5, <2>1 DEF Linked
  <2>2. CASE k # q
    <3>1. VisitLinked(slots[s], externals, DOMAIN repos)
      BY <1>1 DEF LinkInv, Visits
    <3>2. k \in ToSet(rest) \/ Linked(Job(s).source, k, externals \cup slots[s].new, DOMAIN repos, slots[s].edges)
      BY <1>1, <1>3, <2>2, <3>1 DEF VisitLinked
    <3>3. externals \cup slots[s].new \subseteq externals \cup state.new /\ slots[s].edges \subseteq state.edges
      BY <1>5
    <3> QED BY <3>2, <3>3, Grows
  <2> QED BY <2>1, <2>2
<1>8. \A t \in Slots : slots'[t] = slots[t] \/ slots'[t] = state
  BY <1>6 DEF Inv, Counters
<1> QED BY <1>1, <1>7, <1>8, LinksGrow

LEMMA CommitLinks ==
  ASSUME Inv, ListsInv, LinkInv, NEW s \in Slots, CommitDeps(s)
  PROVE  LinkInv'
<1> DEFINE a == <<Job(s).package, Job(s).source>>
<1>1. /\ Visits(slots[s]) /\ slots[s].job = Job(s) /\ slots[s].rest = <<>> /\ UNCHANGED repos
      /\ slots' = [slots EXCEPT ![s] = Idle]
      /\ externals' = externals \cup slots[s].new /\ edges' = edges \cup slots[s].edges
      /\ applied' = applied \cup {a}
  BY DEF CommitDeps, Visits, Job, Free
<1>2. Job(s).package \in KnownPackages
  BY <1>1 DEF ListsInv, Lists, DepsLists, Visits
<1>3. \A q \in ToSet(Requires(Job(s).package)) : Linked(Job(s).source, q, externals', DOMAIN repos', edges')
  <2>1. \A q \in ToSet(Requires(Job(s).package)) :
          Linked(Job(s).source, q, externals \cup slots[s].new, DOMAIN repos, slots[s].edges)
    BY <1>1, NothingListed DEF LinkInv, VisitLinked
  <2> QED BY <1>1, <2>1, Grows
<1>4. ASSUME NEW b \in applied, NEW q \in ToSet(Requires(b[1]))
      PROVE  Linked(b[2], q, externals', DOMAIN repos', edges')
  <2>1. Linked(b[2], q, externals, DOMAIN repos, edges)
    BY DEF LinkInv
  <2> QED BY <1>1, <2>1, Grows
<1>5. ASSUME NEW t \in Slots, Visits(slots'[t]) PROVE VisitLinked(slots'[t], externals', DOMAIN repos')
  <2> DEFINE x == slots[t]
  <2>1. slots'[t] = x
    BY <1>1, <1>5 DEF Inv, Counters, Visits, Idle
  <2>2. VisitLinked(x, externals, DOMAIN repos)
    BY <1>5, <2>1 DEF LinkInv
  <2>3. externals \cup x.new \subseteq externals' \cup x.new
    BY <1>1
  <2> HIDE DEF x
  <2> QED BY <1>1, <2>1, <2>2, <2>3, Grows DEF VisitLinked
<1>6. a[1] = Job(s).package /\ a[2] = Job(s).source
  OBVIOUS
<1> HIDE DEF a
<1>7. ASSUME NEW b \in applied'
      PROVE  b[1] \in KnownPackages /\ \A q \in ToSet(Requires(b[1])) : Linked(b[2], q, externals', DOMAIN repos', edges')
  <2>1. CASE b \in applied
    BY <1>4, <2>1 DEF LinkInv
  <2>2. CASE b = a
    BY <1>2, <1>3, <1>6, <2>2
  <2> QED BY <1>1, <2>1, <2>2
<1> QED BY <1>5, <1>7 DEF LinkInv

(* A slot that is freed or does not visit requirements.                     *)
LEMMA SlotLinks ==
  ASSUME Inv, LinkInv, NEW s \in Slots, NEW state, slots' = [slots EXCEPT ![s] = state],
         Visits(state) => VisitLinked(state, externals', DOMAIN repos'),
         UNCHANGED applied, externals \subseteq externals', edges \subseteq edges',
         DOMAIN repos \subseteq DOMAIN repos'
  PROVE  LinkInv'
<1>1. \A t \in Slots : slots'[t] = slots[t] \/ slots'[t] = state
  BY DEF Inv, Counters
<1> QED BY <1>1, LinksGrow

LEMMA IdleLinks ==
  ASSUME Inv, LinkInv, NEW s \in Slots, Free(s) \/ Go(s, Idle), UNCHANGED <<repos, applied>>,
         externals \subseteq externals', edges \subseteq edges'
  PROVE  LinkInv'
<1>1. slots' = [slots EXCEPT ![s] = Idle] /\ ~Visits(Idle)
  BY DEF Free, Go, Visits, Idle
<1> QED BY <1>1, SlotLinks

LEMMA FailLinks == ASSUME Inv, LinkInv, NEW s \in Slots, Fail(s) PROVE LinkInv'
BY IdleLinks DEF Fail, graph

(* Steps of a slot that does not crawl a package.                           *)
LEMMA OtherLinks ==
  ASSUME Inv, LinkInv, NEW s \in Slots, NEW state, Go(s, state), ~Visits(state),
         UNCHANGED <<applied, externals, edges>>, DOMAIN repos \subseteq DOMAIN repos'
  PROVE  LinkInv'
BY SlotLinks DEF Go

LEMMA RequirementsLinks ==
  ASSUME Inv, LinkInv, NEW s \in Slots, FetchRequirements(s)
  PROVE  LinkInv'
<1> DEFINE p == Job(s).package
           state == [pc |-> "write", job |-> Job(s), rest |-> Requires(p), edges |-> {}, new |-> {}]
<1>1. (Free(s) \/ Go(s, state)) /\ UNCHANGED <<repos, externals, edges, applied>>
  BY DEF FetchRequirements, graph, history
<1>2. VisitLinked(state, externals', DOMAIN repos')
  BY DEF VisitLinked
<1> HIDE DEF state
<1> QED BY <1>1, <1>2, IdleLinks, SlotLinks DEF Go

LEMMA RegistryLinks == ASSUME Inv, LinkInv, NEW s \in Slots, CrawlRegistry(s) PROVE LinkInv'
<1>1. /\ Free(s) /\ UNCHANGED <<repos, applied>>
      /\ \E vertices, joined : externals' = externals \cup vertices /\ edges' = edges \cup joined
  BY DEF CrawlRegistry, history
<1> QED BY <1>1, IdleLinks

LEMMA UpsertRepoLinks == ASSUME Inv, LinkInv, NEW s \in Slots, UpsertRepoRow(s) PROVE LinkInv'
<1> SUFFICES ASSUME ~Fail(s) PROVE LinkInv'
  BY FailLinks
<1> DEFINE state == [pc |-> "absorb", job |-> Job(s), packages |-> slots[s].rest, rest |-> slots[s].rest]
<1>1. ~Visits(state)
  BY DEF Visits
<1>2. Go(s, state) /\ UNCHANGED <<externals, edges, history>> /\ DOMAIN repos \subseteq DOMAIN repos'
  BY UpsertedRow
<1> HIDE DEF state
<1> QED BY <1>1, <1>2, OtherLinks DEF history

LEMMA AssociateLinks == ASSUME Inv, LinkInv, NEW s \in Slots, Associate(s) PROVE LinkInv'
<1> DEFINE state == [slots[s] EXCEPT !.pc = "defer", !.rest = FanOut(Job(s).repo, slots[s].packages)]
<1>1. /\ slots[s].pc = "absorb" /\ Go(s, state) /\ UNCHANGED <<externals, edges, applied>>
      /\ DOMAIN repos' = DOMAIN repos
  BY DEF Associate, history
<1>2. state.pc = "defer"
  BY <1>1, Absorbing
<1> HIDE DEF state
<1> QED BY <1>1, <1>2, OtherLinks DEF Visits

(* The other steps of the root's jobs.                                      *)
LEMMA RootLinks ==
  ASSUME Inv, LinkInv, NEW s \in Slots,
         SyncOpengrants(s) \/ ResolveProject(s) \/ UpsertProject(s) \/ DeferRepos(s) \/ BeginCrawl(s)
           \/ DeferNext(s) \/ EndCrawl(s)
  PROVE  LinkInv'
<1>1. ASSUME UNCHANGED <<repos, externals, edges, applied>>, NEW state, Go(s, state),
             state.pc # "write" \/ state.job = Job(s), Job(s).task # "crawl_package_deps"
      PROVE  LinkInv'
  BY <1>1, OtherLinks DEF Visits
<1>2. SyncOpengrants(s) \/ DeferRepos(s) \/ EndCrawl(s) => LinkInv'
  BY FailLinks, IdleLinks DEF SyncOpengrants, DeferRepos, EndCrawl, graph, history
<1>3. ASSUME ResolveProject(s) PROVE LinkInv'
  <2>1. UNCHANGED <<repos, externals, edges, applied>> /\ Job(s).task = "process_project"
    BY <1>3 DEF ResolveProject, graph, history
  <2>2. \E state : Go(s, state) /\ state.job = Job(s)
    BY <1>3, Resolved
  <2> QED BY <1>1, <2>1, <2>2
<1>4. ASSUME UpsertProject(s), ~Fail(s) PROVE LinkInv'
  <2>1. /\ slots[s].pc = "write" /\ Job(s).task = "process_project" /\ UNCHANGED <<repos, externals, edges, applied>>
        /\ Go(s, Idle) \/ Go(s, [slots[s] EXCEPT !.pc = "defer"])
    BY <1>4 DEF UpsertProject, history
  <2>2. {"pc", "job"} \subseteq DOMAIN slots[s]
    BY <2>1, Working DEF Pcs, Knows
  <2> DEFINE state == [slots[s] EXCEPT !.pc = "defer"]
  <2>3. state.pc = "defer"
    BY <2>2
  <2> HIDE DEF state
  <2> QED BY <1>1, <2>1, <2>3, IdleLinks DEF state
<1>5. ASSUME BeginCrawl(s), ~Fail(s) PROVE LinkInv'
  <2>1. UNCHANGED <<repos, externals, edges, applied>> /\ Job(s).task = "crawl_github_repo"
    BY <1>5 DEF BeginCrawl, graph, history
  <2>2. \E state : Go(s, state) /\ state.job = Job(s)
    BY <1>5 DEF BeginCrawl
  <2> QED BY <1>1, <2>1, <2>2
<1>6. ASSUME DeferNext(s) PROVE LinkInv'
  <2> DEFINE state == [slots[s] EXCEPT !.rest = Tail(@)]
  <2>1. /\ slots[s].pc = "defer" /\ Job(s).task = "crawl_github_repo" /\ Go(s, state)
        /\ UNCHANGED <<repos, externals, edges, applied>>
    BY <1>6 DEF DeferNext, graph, history
  <2>2. {"pc", "job"} \subseteq DOMAIN slots[s]
    BY <2>1, Working DEF Pcs, Knows
  <2>3. state.pc = "defer"
    BY <2>1, <2>2
  <2> HIDE DEF state
  <2> QED BY <1>1, <2>1, <2>3
<1> QED BY <1>2, <1>3, <1>4, <1>5, <1>6, FailLinks

LEMMA WorkLinks ==
  ASSUME Inv, ListsInv, LinkInv, NamesAreBare, NEW s \in Slots, Work(s)
  PROVE  LinkInv'
BY RootLinks, UpsertRepoLinks, AbsorbLinks, AssociateLinks, RequirementsLinks, VisitLinks, FailLinks,
   CommitLinks, RegistryLinks DEF Work

LEMMA LinksNext ==
  ASSUME Inv, ListsInv, LinkInv, NamesAreBare, [Next]_vars
  PROVE  LinkInv'
<1>1. ASSUME NEW s \in Slots, Fetch(s) PROVE LinkInv'
  <2>1. PICK job : Go(s, [pc |-> "start", job |-> job])
    BY <1>1, FetchedJob
  <2>2. UNCHANGED <<repos, externals, edges, applied>>
    BY <1>1, FetchedJob DEF graph, history
  <2>3. ~Visits([pc |-> "start", job |-> job])
    BY DEF Visits
  <2> QED BY <2>1, <2>2, <2>3, OtherLinks
<1>2. ASSUME NEW q \in Queues, KillWorker(q) PROVE LinkInv'
  <2>1. UNCHANGED <<repos, externals, edges, applied>> /\ \A s \in Slots : slots'[s] \in {Idle, slots[s]}
    BY <1>2 DEF KillWorker, graph
  <2>2. ~Visits(Idle)
    BY DEF Visits, Idle
  <2> QED BY <2>1, <2>2, LinksGrow
<1>3. StartWeek \/ Administers => LinkInv'
  BY LinksGrow DEF StartWeek, Administers, graph, history
<1> QED BY <1>1, <1>2, <1>3, Cases, WorkLinks

LEMMA LinksInit == Init => LinkInv
BY DEF Init, LinkInv, Visits, Idle

(* Requirements that a crawl of a package committed stay linked to its      *)
(* source through every later crawl: absorb_external_repo moves the edges   *)
(* of an external vertex to a Repo that publishes the package, and no lost  *)
(* worker, repeated crawl or insertion that collides undoes it.             *)
THEOREM RequirementsStayLinked ==
  ASSUME NamesAreBare
  PROVE  Spec => []LinksSurvive
<1>1. Inv /\ ListsInv /\ LinkInv /\ [Next]_vars => LinkInv'
  BY LinksNext
<1>2. LinkInv => LinksSurvive
  BY DEF LinkInv, LinksSurvive, Linked
<1> QED BY <1>1, <1>2, LinksInit, ListsAlways, CrawlInvariant, PTL DEF Spec

-----------------------------------------------------------------------------
(* Twins: external vertices of packages that a repository releases.         *)

ReleasedIds == UNION {repos[r].releases : r \in DOMAIN repos}
Awaited == abandoned \cup foreign \cup UNION {Unabsorbed(t) : t \in Slots}
Encoded == {Purl(p) : p \in Scoped}
Writes(x) == x.pc = "write" /\ x.job.task = "crawl_github_repo"

(* A crawl that has read releases but not written them would restore them.  *)
TwinInv ==
  /\ ReleasedIds \cap externals \subseteq Awaited
  /\ \A s \in Slots : Writes(slots[s]) => slots[s].read \cap externals \subseteq Awaited
  /\ externals \cap Encoded \subseteq foreign
  /\ \A s \in Slots : Visits(slots[s]) => slots[s].new \cap (ReleasedIds \cup Encoded) = {}

LEMMA TwinsBase ==
  ASSUME TwinInv, externals' \subseteq externals, foreign \cap externals' \subseteq foreign',
         Awaited \cap externals' \subseteq Awaited',
         ReleasedIds' \cap externals' \subseteq ReleasedIds \cup Awaited \cup Awaited',
         \A t \in Slots : Writes(slots'[t]) => slots'[t] = slots[t] \/ slots'[t].read \subseteq ReleasedIds,
         \A t \in Slots : Visits(slots'[t]) => slots'[t] = slots[t] /\ UNCHANGED repos
  PROVE  TwinInv'
<1>1. ReleasedIds' \cap externals' \subseteq Awaited'
  BY DEF TwinInv
<1>2. ASSUME NEW t \in Slots, Writes(slots'[t]) PROVE slots'[t].read \cap externals' \subseteq Awaited'
  BY <1>2 DEF TwinInv
<1>3. externals' \cap Encoded \subseteq foreign'
  BY DEF TwinInv
<1>4. ASSUME NEW t \in Slots, Visits(slots'[t]) PROVE slots'[t].new \cap (ReleasedIds' \cup Encoded) = {}
  <2>1. ReleasedIds' = ReleasedIds /\ slots'[t] = slots[t]
    BY <1>4 DEF ReleasedIds
  <2> QED BY <1>4, <2>1 DEF TwinInv
<1> QED BY <1>1, <1>2, <1>3, <1>4 DEF TwinInv

(* A step of one slot: what it awaited it still does, or it is absorbed.    *)
LEMMA TwinsSlot ==
  ASSUME Inv, TwinInv, NEW s \in Slots, NEW state, slots' = [slots EXCEPT ![s] = state],
         ~Visits(state), Writes(state) => state.read \subseteq ReleasedIds,
         externals' \subseteq externals, foreign \cap externals' \subseteq foreign',
         (abandoned \cup Unabsorbed(s)) \cap externals' \subseteq abandoned' \cup Unabsorbed(s)',
         ReleasedIds' \cap externals' \subseteq ReleasedIds \cup Awaited \cup Unabsorbed(s)',
         UNCHANGED repos \/ \A t \in Slots : ~Visits(slots[t])
  PROVE  TwinInv'
<1>1. slots'[s] = state /\ \A t \in Slots \ {s} : slots'[t] = slots[t]
  BY DEF Inv, Counters
<1>2. \A t \in Slots \ {s} : Unabsorbed(t)' = Unabsorbed(t)
  BY <1>1 DEF Unabsorbed
<1>3. Awaited \cap externals' \subseteq Awaited'
  BY <1>2 DEF Awaited
<1>4. ReleasedIds' \cap externals' \subseteq ReleasedIds \cup Awaited \cup Awaited'
  BY DEF Awaited
<1> QED BY <1>1, <1>3, <1>4, TwinsBase

(* A crawl of a package adds nothing that is released; what a registry adds *)
(* is foreign.                                                              *)
LEMMA TwinsAdd ==
  ASSUME Inv, TwinInv, NEW s \in Slots, Busy(s), QueueOf[s] # Root, NEW state,
         slots' = [slots EXCEPT ![s] = state], state.pc # "absorb", ~Writes(state),
         UNCHANGED <<repos, abandoned>>, foreign \subseteq foreign',
         NEW added, externals' = externals \cup added,
         (added \ externals) \cap (ReleasedIds \cup Encoded) \subseteq foreign',
         Visits(state) => state.new \cap (ReleasedIds \cup Encoded) = {}
  PROVE  TwinInv'
<1>1. slots'[s] = state /\ \A t \in Slots \ {s} : slots'[t] = slots[t]
  BY DEF Inv, Counters
<1>2. ASSUME NEW t \in Slots, slots[t].pc = "absorb" \/ Writes(slots[t]) PROVE FALSE
  <2>1. Busy(t) /\ Job(t).task = "crawl_github_repo"
    BY <1>2, Absorbing DEF Writes, Busy, Job
  <2>2. QueueOf[t] = Root
    BY <2>1, TaskQueues DEF Inv, Runs, JobFits
  <2> QED BY <2>1, <2>2, RootAlone
<1>3. \A t \in Slots : Unabsorbed(t) = {}
  BY <1>2 DEF Unabsorbed
<1>4. Awaited = abandoned \cup foreign
  BY <1>3 DEF Awaited
<1>5. ReleasedIds' = ReleasedIds
  BY DEF ReleasedIds
<1>6. ReleasedIds' \cap externals' \subseteq Awaited'
  BY <1>4, <1>5 DEF TwinInv, Awaited
<1>7. \A t \in Slots : ~Writes(slots'[t])
  BY <1>1, <1>2
<1>8. externals' \cap Encoded \subseteq foreign'
  BY DEF TwinInv
<1>9. ASSUME NEW t \in Slots, Visits(slots'[t]) PROVE slots'[t].new \cap (ReleasedIds' \cup Encoded) = {}
  BY <1>1, <1>5, <1>9 DEF TwinInv
<1> QED BY <1>6, <1>7, <1>8, <1>9 DEF TwinInv

LEMMA AbsorbTwins ==
  ASSUME Inv, ListsInv, TwinInv, NEW s \in Slots, AbsorbPackage(s)
  PROVE  TwinInv'
<1> DEFINE p == Head(slots[s].rest)
           rest == Tail(slots[s].rest)
           state == [slots[s] EXCEPT !.rest = rest]
<1>1. /\ slots[s].pc = "absorb" /\ Go(s, state) /\ UNCHANGED repos
      /\ externals' = externals \ {TaskId(p)} /\ abandoned' = abandoned \ {TaskId(p)}
      /\ foreign' = foreign \ {TaskId(p)}
  BY DEF AbsorbPackage, Absorbed
<1>2. ToSet(slots[s].rest) = {p} \cup ToSet(rest)
  BY AbsorbedNext
<1> HIDE DEF p, rest
<1>3. state.pc = "absorb" /\ state.rest = rest
  BY <1>1, Absorbing
<1> HIDE DEF state
<1>4. slots'[s] = state
  BY <1>1, GoesTo
<1>5. Unabsorbed(s)' = {TaskId(k) : k \in ToSet(rest)}
  BY <1>3, <1>4 DEF Unabsorbed
<1>6. Unabsorbed(s) = {TaskId(k) : k \in {p} \cup ToSet(rest)}
  BY <1>1, <1>2 DEF Unabsorbed
<1>7. /\ (abandoned \cup Unabsorbed(s)) \cap externals' \subseteq abandoned' \cup Unabsorbed(s)'
      /\ foreign \cap externals' \subseteq foreign'
  BY <1>1, <1>5, <1>6 DEF TaskId
<1>8. ReleasedIds' = ReleasedIds /\ ~Visits(state) /\ ~Writes(state)
  BY <1>1, <1>3 DEF ReleasedIds, Visits, Writes
<1> QED BY <1>1, <1>7, <1>8, TwinsSlot DEF Go

LEMMA UpsertRepoTwins ==
  ASSUME Inv, ListsInv, TwinInv, NEW s \in Slots, UpsertRepoRow(s), ~Fail(s)
  PROVE  TwinInv'
<1> DEFINE r == Job(s).repo
           state == [pc |-> "absorb", job |-> Job(s), packages |-> slots[s].rest, rest |-> slots[s].rest]
<1>1. /\ Job(s).task = "crawl_github_repo" /\ slots[s].pc = "write" /\ r \in Repos
      /\ DOMAIN repos' = DOMAIN repos \cup {r}
      /\ repos'[r].releases = slots[s].read \cup slots[s].releases
      /\ \A k \in DOMAIN repos \ {r} : repos'[k] = repos[k]
      /\ Go(s, state) /\ UNCHANGED <<externals, abandoned, foreign>>
  BY UpsertedRow DEF history
<1>2. Busy(s) /\ QueueOf[s] = Root
  BY <1>1, Working, TaskQueues DEF Pcs
<1>3. state.pc = "absorb" /\ state.rest = slots[s].rest
  OBVIOUS
<1> HIDE DEF state
<1>4. slots'[s] = state /\ ~Visits(state) /\ ~Writes(state)
  BY <1>1, <1>3, GoesTo DEF Visits, Writes
<1>5. Unabsorbed(s)' = {TaskId(p) : p \in ToSet(slots[s].rest)} /\ Unabsorbed(s) = {}
  BY <1>1, <1>3, <1>4 DEF Unabsorbed
<1>6. slots[s].read \cap externals \subseteq Awaited
  BY <1>1 DEF TwinInv, Writes, Job
<1>7. slots[s].releases \cap externals \subseteq Unabsorbed(s)' \cup foreign
  <2>1. slots[s].releases \subseteq {Purl(p) : p \in ToSet(slots[s].rest)}
    BY <1>1 DEF ListsInv, Lists, CrawlLists, ReleasesOf, Job
  <2>2. ASSUME NEW p \in ToSet(slots[s].rest), Purl(p) \in externals \ foreign PROVE Purl(p) = TaskId(p)
    BY <2>2 DEF TwinInv, Encoded, Purl, TaskId
  <2> QED BY <1>5, <2>1, <2>2
<1>8. ReleasedIds' \subseteq ReleasedIds \cup slots[s].read \cup slots[s].releases
  BY <1>1 DEF ReleasedIds
<1>9. ReleasedIds' \cap externals' \subseteq ReleasedIds \cup Awaited \cup Unabsorbed(s)'
  BY <1>1, <1>6, <1>7, <1>8 DEF Awaited
<1>10. \A t \in Slots : ~Visits(slots[t])
  BY <1>2, VisitsApart
<1> QED BY <1>1, <1>4, <1>5, <1>9, <1>10, TwinsSlot DEF Go

LEMMA VisitTwins ==
  ASSUME Inv, ListsInv, TwinInv, NamesAreBare, NEW s \in Slots, VisitRequirement(s), ~Fail(s)
  PROVE  TwinInv'
<1> DEFINE q == Head(slots[s].rest)
           rest == Tail(slots[s].rest)
           required == ToSet(Requires(Job(s).package))
<1>1. /\ slots[s].pc = "write" /\ Job(s).task = "crawl_package_deps" /\ slots[s].job = Job(s)
      /\ {"pc", "job", "rest", "edges", "new"} \subseteq DOMAIN slots[s]
      /\ slots[s].rest # <<>> /\ slots[s].rest \in Seq(required)
      /\ Job(s).package \in KnownPackages
      /\ UNCHANGED <<repos, externals, abandoned, foreign>>
  BY Visited DEF graph
<1>2. PICK v, new :
        /\ new = {} \/ (new = {v} /\ v = TaskId(q) /\ Publishers(v) = {})
        /\ Go(s, [slots[s] EXCEPT !.rest = rest, !.new = @ \cup new, !.edges = @ \cup {<<Job(s).source, v>>}])
  BY Visited
<1>3. q \in required
  BY <1>1, HeadTail
<1>4. new \cap (ReleasedIds \cup Encoded) = {}
  <2>1. q \notin Encoded
    BY <1>1, <1>3 DEF NamesAreBare, Encoded
  <2>2. Publishers(v) = {} => v \notin ReleasedIds
    BY DEF Publishers, ReleasedIds
  <2> HIDE DEF q
  <2> QED BY <1>2, <2>1, <2>2 DEF TaskId
<1> DEFINE state == [slots[s] EXCEPT !.rest = rest, !.new = @ \cup new, !.edges = @ \cup {<<Job(s).source, v>>}]
<1> HIDE DEF rest, q
<1>5. state.pc = "write" /\ state.job = Job(s) /\ state.new = slots[s].new \cup new
  BY <1>1
<1>6. slots' = [slots EXCEPT ![s] = state]
  BY <1>2 DEF Go
<1> HIDE DEF state
<1>7. state.new \cap (ReleasedIds \cup Encoded) = {}
  BY <1>1, <1>4, <1>5 DEF TwinInv, Visits
<1>8. Busy(s) /\ QueueOf[s] # Root /\ ~Writes(state)
  BY <1>1, <1>5, Working, TaskQueues DEF Pcs, Root, Writes
<1>9. externals' = externals \cup {} /\ state.pc # "absorb"
  BY <1>1, <1>5
<1> QED BY <1>1, <1>6, <1>7, <1>8, <1>9, TwinsAdd

(* Steps that leave the graph and what is abandoned.                        *)
LEMMA QuietTwins ==
  ASSUME Inv, TwinInv, NEW s \in Slots, NEW state, slots' = [slots EXCEPT ![s] = state], ~Visits(state),
         Writes(state) => state.read \subseteq ReleasedIds, slots[s].pc # "absorb",
         UNCHANGED <<repos, externals, abandoned, foreign>>
  PROVE  TwinInv'
<1>1. Unabsorbed(s) = {} /\ ReleasedIds' = ReleasedIds
  BY DEF Unabsorbed, ReleasedIds
<1> QED BY <1>1, TwinsSlot

LEMMA IdleTwins ==
  ASSUME Inv, TwinInv, NEW s \in Slots, Free(s) \/ Go(s, Idle), slots[s].pc # "absorb",
         UNCHANGED <<repos, externals, abandoned, foreign>>
  PROVE  TwinInv'
<1>1. slots' = [slots EXCEPT ![s] = Idle] /\ ~Visits(Idle) /\ ~Writes(Idle)
  BY DEF Free, Go, Visits, Writes, Idle
<1> QED BY <1>1, QuietTwins

LEMMA FailTwins ==
  ASSUME Inv, TwinInv, NEW s \in Slots, Fail(s), slots[s].pc # "absorb"
  PROVE  TwinInv'
BY IdleTwins DEF Fail, graph

LEMMA BeginTwins ==
  ASSUME Inv, TwinInv, NEW s \in Slots, BeginCrawl(s)
  PROVE  TwinInv'
<1> DEFINE r == Job(s).repo
           read == IF r \in DOMAIN repos THEN repos[r].releases ELSE {}
<1>1. slots[s].pc = "start" /\ Job(s).task = "crawl_github_repo"
  BY DEF BeginCrawl
<1>2. \/ Fail(s)
      \/ /\ UNCHANGED <<queue, graph, history>>
         /\ \E found, releases, packages :
              Go(s, [pc |-> "write", job |-> Job(s), found |-> found, read |-> read,
                     releases |-> releases, rest |-> packages])
  BY Begun
<1>3. read \subseteq ReleasedIds
  BY DEF ReleasedIds
<1> HIDE DEF read
<1>4. ASSUME NEW found, NEW releases, NEW packages, UNCHANGED <<queue, graph, history>>,
             Go(s, [pc |-> "write", job |-> Job(s), found |-> found, read |-> read,
                    releases |-> releases, rest |-> packages])
      PROVE  TwinInv'
  <2> DEFINE state == [pc |-> "write", job |-> Job(s), found |-> found, read |-> read,
                       releases |-> releases, rest |-> packages]
  <2>1. state.read = read /\ ~Visits(state)
    BY <1>1 DEF Visits
  <2>2. slots' = [slots EXCEPT ![s] = state] /\ UNCHANGED <<repos, externals, abandoned, foreign>>
    BY <1>4 DEF Go, graph, history
  <2> HIDE DEF state
  <2> QED BY <1>1, <1>3, <2>1, <2>2, QuietTwins
<1> QED BY <1>1, <1>2, <1>4, FailTwins

LEMMA AssociateTwins ==
  ASSUME Inv, TwinInv, NEW s \in Slots, Associate(s)
  PROVE  TwinInv'
<1> DEFINE r == Job(s).repo
           state == [slots[s] EXCEPT !.pc = "defer", !.rest = FanOut(r, slots[s].packages)]
           row == [repos[r] EXCEPT !.project = Job(s).project]
<1>1. /\ slots[s].pc = "absorb" /\ slots[s].rest = <<>> /\ Go(s, state) /\ UNCHANGED <<externals, abandoned, foreign>>
      /\ repos' = [repos EXCEPT ![r] = row]
  BY DEF Associate, history
<1>2. state.pc = "defer"
  BY <1>1, Absorbing
<1>3. row.releases = repos[r].releases
  OBVIOUS
<1> HIDE DEF state, row
<1>4. ReleasedIds' = ReleasedIds
  BY <1>1, <1>3 DEF ReleasedIds
<1>5. Unabsorbed(s) = {}
  BY <1>1, NothingListed DEF Unabsorbed
<1>6. \A t \in Slots : ~Visits(slots[t])
  BY <1>1, Absorbing, VisitsApart
<1>7. ~Visits(state) /\ ~Writes(state)
  BY <1>2 DEF Visits, Writes
<1> QED BY <1>1, <1>4, <1>5, <1>6, <1>7, TwinsSlot DEF Go

(* The other steps of the root's jobs.                                      *)
LEMMA RootTwins ==
  ASSUME Inv, TwinInv, NEW s \in Slots,
         SyncOpengrants(s) \/ ResolveProject(s) \/ UpsertProject(s) \/ DeferRepos(s) \/ DeferNext(s)
           \/ EndCrawl(s)
  PROVE  TwinInv'
<1>1. ASSUME SyncOpengrants(s) \/ DeferRepos(s) \/ EndCrawl(s) PROVE TwinInv'
  <2>1. slots[s].pc # "absorb" /\ (Fail(s) \/ (Free(s) /\ UNCHANGED <<repos, externals, abandoned, foreign>>))
    BY <1>1 DEF SyncOpengrants, DeferRepos, EndCrawl, graph, history
  <2> QED BY <2>1, FailTwins, IdleTwins
<1>2. ASSUME ResolveProject(s) PROVE TwinInv'
  <2>1. /\ slots[s].pc = "start" /\ Job(s).task = "process_project" /\ UNCHANGED <<repos, externals, abandoned, foreign>>
    BY <1>2 DEF ResolveProject, graph, history
  <2>2. PICK state : Go(s, state) /\ state.job = Job(s)
    BY <1>2, Resolved
  <2>3. ~Visits(state) /\ ~Writes(state)
    BY <2>1, <2>2 DEF Visits, Writes
  <2> QED BY <2>1, <2>2, <2>3, QuietTwins DEF Go
<1>3. ASSUME UpsertProject(s) PROVE TwinInv'
  <2>1. /\ slots[s].pc = "write" /\ Job(s).task = "process_project"
        /\ Fail(s) \/ (/\ UNCHANGED <<repos, externals, abandoned, foreign>>
                       /\ Go(s, Idle) \/ Go(s, [slots[s] EXCEPT !.pc = "defer"]))
    BY <1>3 DEF UpsertProject, history
  <2>2. {"pc", "job"} \subseteq DOMAIN slots[s]
    BY <2>1, Working DEF Pcs, Knows
  <2> DEFINE state == [slots[s] EXCEPT !.pc = "defer"]
  <2>3. state.pc = "defer"
    BY <2>2
  <2> HIDE DEF state
  <2>4. ~Visits(state) /\ ~Writes(state)
    BY <2>3 DEF Visits, Writes
  <2>5. Go(s, state) => slots' = [slots EXCEPT ![s] = state]
    BY DEF Go
  <2> QED BY <2>1, <2>4, <2>5, IdleTwins, FailTwins, QuietTwins DEF state
<1>4. ASSUME DeferNext(s) PROVE TwinInv'
  <2> DEFINE state == [slots[s] EXCEPT !.rest = Tail(@)]
  <2>1. /\ slots[s].pc = "defer" /\ Job(s).task = "crawl_github_repo" /\ Go(s, state)
        /\ UNCHANGED <<repos, externals, abandoned, foreign>>
    BY <1>4 DEF DeferNext, graph, history
  <2>2. {"pc", "job"} \subseteq DOMAIN slots[s]
    BY <2>1, Working DEF Pcs, Knows
  <2>3. state.pc = "defer"
    BY <2>1, <2>2
  <2> HIDE DEF state
  <2>4. ~Visits(state) /\ ~Writes(state)
    BY <2>3 DEF Visits, Writes
  <2> QED BY <2>1, <2>4, QuietTwins DEF Go
<1> QED BY <1>1, <1>2, <1>3, <1>4

LEMMA DepsTwins ==
  ASSUME Inv, TwinInv, NEW s \in Slots, FetchRequirements(s) \/ CommitDeps(s)
  PROVE  TwinInv'
<1>1. slots[s].pc \in {"start", "write"} /\ Job(s).task = "crawl_package_deps" /\ slots[s].job = Job(s)
  BY DEF FetchRequirements, CommitDeps, Job
<1>2. Busy(s) /\ QueueOf[s] # Root
  BY <1>1, Working, TaskQueues DEF Pcs, Root
<1>3. Idle.pc # "absorb" /\ ~Writes(Idle) /\ ~Visits(Idle)
  BY DEF Idle, Writes, Visits
<1>4. CASE FetchRequirements(s)
  <2> DEFINE state == [pc |-> "write", job |-> Job(s), rest |-> Requires(Job(s).package), edges |-> {}, new |-> {}]
  <2>1. UNCHANGED <<repos, externals, abandoned, foreign>> /\ (Free(s) \/ Go(s, state))
    BY <1>4 DEF FetchRequirements, graph, history
  <2>2. state.pc # "absorb" /\ ~Writes(state) /\ state.new = {}
    BY <1>1 DEF Writes
  <2> HIDE DEF state
  <2>3. externals' = externals \cup {}
    BY <2>1
  <2>4. \E x \in {state, Idle} : slots' = [slots EXCEPT ![s] = x]
    BY <2>1 DEF Free, Go
  <2> QED BY <1>2, <1>3, <2>1, <2>2, <2>3, <2>4, TwinsAdd
<1>5. CASE CommitDeps(s)
  <2>1. /\ slots[s].pc = "write" /\ slots' = [slots EXCEPT ![s] = Idle] /\ UNCHANGED <<repos, abandoned, foreign>>
        /\ externals' = externals \cup slots[s].new
    BY <1>5 DEF CommitDeps, Free
  <2>2. slots[s].new \cap (ReleasedIds \cup Encoded) = {}
    BY <1>1, <2>1 DEF TwinInv, Visits
  <2> QED BY <1>2, <1>3, <2>1, <2>2, TwinsAdd
<1> QED BY <1>4, <1>5

LEMMA RegistryTwins ==
  ASSUME Inv, TwinInv, NEW s \in Slots, CrawlRegistry(s)
  PROVE  TwinInv'
<1>1. /\ slots[s].pc = "start" /\ QueueOfTask[Job(s).task] = "registry-crawl" /\ UNCHANGED <<repos, abandoned>>
      /\ slots' = [slots EXCEPT ![s] = Idle]
  BY DEF CrawlRegistry, Free
<1>2. PICK added : externals' = externals \cup added /\ foreign' = foreign \cup (externals' \ externals)
  BY DEF CrawlRegistry
<1>3. foreign \subseteq foreign' /\ added \ externals \subseteq foreign'
  BY <1>2
<1>4. Busy(s) /\ QueueOf[s] # Root
  BY <1>1, Working DEF Pcs, Root
<1>5. Idle.pc # "absorb" /\ ~Writes(Idle) /\ ~Visits(Idle)
  BY DEF Idle, Writes, Visits
<1> QED BY <1>1, <1>2, <1>3, <1>4, <1>5, TwinsAdd

LEMMA WorkTwins ==
  ASSUME Inv, ListsInv, TwinInv, NamesAreBare, NEW s \in Slots, Work(s)
  PROVE  TwinInv'
<1>1. Fail(s) /\ slots[s].pc = "write" => TwinInv'
  BY FailTwins
<1>2. UpsertRepoRow(s) \/ VisitRequirement(s) => slots[s].pc = "write"
  BY DEF UpsertRepoRow, VisitRequirement
<1> QED BY <1>1, <1>2, RootTwins, BeginTwins, UpsertRepoTwins, AbsorbTwins, AssociateTwins, DepsTwins,
           VisitTwins, RegistryTwins DEF Work

LEMMA KillTwins == ASSUME TwinInv, NEW q \in Queues, KillWorker(q) PROVE TwinInv'
<1>1. /\ UNCHANGED <<repos, externals>>
      /\ abandoned' = abandoned \cup UNION {Unabsorbed(s) : s \in Mine(q)} /\ UNCHANGED foreign
      /\ \A s \in Slots : IF s \in Mine(q) THEN slots'[s] = Idle ELSE slots'[s] = slots[s]
  BY DEF KillWorker, graph
<1>2. \A s \in Slots \ Mine(q) : Unabsorbed(s)' = Unabsorbed(s)
  BY <1>1 DEF Unabsorbed
<1>3. Awaited \subseteq Awaited'
  BY <1>1, <1>2 DEF Awaited
<1>4. ~Visits(Idle) /\ ~Writes(Idle)
  BY DEF Visits, Writes, Idle
<1>5. ReleasedIds' = ReleasedIds
  BY <1>1 DEF ReleasedIds
<1> QED BY <1>1, <1>3, <1>4, <1>5, TwinsBase

LEMMA TwinsNext ==
  ASSUME Inv, ListsInv, TwinInv, NamesAreBare, [Next]_vars
  PROVE  TwinInv'
<1>1. ASSUME NEW s \in Slots, Fetch(s) PROVE TwinInv'
  <2>1. PICK job : Go(s, [pc |-> "start", job |-> job])
    BY <1>1, FetchedJob
  <2>2. UNCHANGED <<repos, externals, abandoned, foreign>> /\ slots[s].pc # "absorb"
    BY <1>1, FetchedJob DEF graph, history, Busy
  <2> DEFINE state == [pc |-> "start", job |-> job]
  <2>3. ~Visits(state) /\ ~Writes(state)
    BY DEF Visits, Writes
  <2> HIDE DEF state
  <2> QED BY <2>1, <2>2, <2>3, QuietTwins DEF Go, state
<1>2. ASSUME UNCHANGED slots, UNCHANGED <<repos, externals, abandoned, foreign>> PROVE TwinInv'
  <2>1. Awaited' = Awaited /\ ReleasedIds' = ReleasedIds
    BY <1>2 DEF Awaited, Unabsorbed, ReleasedIds
  <2> QED BY <1>2, <2>1, TwinsBase
<1>3. StartWeek \/ Administers => UNCHANGED slots /\ UNCHANGED <<repos, externals, abandoned, foreign>>
  BY DEF StartWeek, Administers, graph, history
<1> QED BY <1>1, <1>2, <1>3, Cases, WorkTwins, KillTwins

LEMMA TwinsInit == Init => TwinInv
<1> SUFFICES ASSUME Init PROVE TwinInv
  OBVIOUS
<1>1. ReleasedIds = {} /\ foreign = externals
  BY DEF Init, ReleasedIds
<1>2. \A s \in Slots : ~Visits(slots[s]) /\ ~Writes(slots[s])
  BY DEF Init, Visits, Writes, Idle
<1> QED BY <1>1, <1>2 DEF TwinInv

(* An external vertex and a Repo that releases the package exist together   *)
(* only between the upsert of the row and the absorption, after a worker    *)
(* was killed there (crawl_github_repo), or while no crawl of the package   *)
(* has followed the registry (base.py) or SBOM that left the vertex.  No    *)
(* crawl of deps.dev creates a vertex that is published                     *)
(* (find_repo_by_release_purl), although releases are read long before they *)
(* are written and repositories are crawled by several jobs at once.        *)
THEOREM NoTwins ==
  ASSUME NamesAreBare
  PROVE  Spec => []TwinsAreUnfinished
<1>1. Inv /\ ListsInv /\ TwinInv /\ [Next]_vars => TwinInv'
  BY TwinsNext
<1>2. TwinInv => TwinsAreUnfinished
  BY DEF TwinInv, TwinsAreUnfinished, ReleasedIds, Awaited
<1> QED BY <1>1, <1>2, TwinsInit, ListsAlways, CrawlInvariant, PTL DEF Spec

-----------------------------------------------------------------------------
(* Nothing is forgotten.                                                    *)

Deps == "package-deps"

(* A slot that crawls the package, and one that will defer its crawl.       *)
Crawls(x, p) == x.pc # "idle" /\ x.job.task = "crawl_package_deps" /\ x.job.package = p
WillDefer(x, p) ==
  \/ x.pc = "absorb" /\ p \in ToSet(x.packages) /\ p[1] \in DepsDevSystems
  \/ x.pc = "defer" /\ x.job.task = "crawl_github_repo" /\ <<"deps", p>> \in ToSet(x.rest)
Reached(p) == p \in settled \/ \E s \in Slots : Crawls(slots[s], p)
InLine(p) == \E job \in Jobs(Deps) : job.package = p
Owed(p) == Reached(p) \/ InLine(p) \/ \E s \in Slots : WillDefer(slots[s], p)

(* A lock in the way of the crawl of a package is that of such a crawl.     *)
LockFits(job, q) ==
  IF q = Deps THEN job.lock = job.package ELSE job.lock = None \/ job.lock[1] \notin Systems
Fits(x) ==
  /\ x.pc \in {"write", "defer"} /\ x.job.task = "process_project" => \A job \in x.rest : job.lock = None
  /\ x.pc = "absorb" => IsList(x.packages)
  /\ x.pc = "defer" /\ x.job.task = "crawl_github_repo" => IsList(x.rest)
FitInv ==
  /\ \A q \in Queues : \A job \in Jobs(q) : LockFits(job, q)
  /\ \A s \in Slots : Fits(slots[s])

RootFirst == worker[Deps] = "done" /\ stage = "seeded" => worker[Root] \in {"done", "killed"}

Published(r) == {p \in Claims(r) : Purl(p) \in repos[r].releases}
WriteOwed(x) ==
  Writes(x) => \A p \in Claims(x.job.repo) :
    /\ Purl(p) \in x.read => Owed(p)
    /\ Purl(p) \in x.releases => p \in ToSet(x.rest) /\ p[1] \in DepsDevSystems
ReachInv ==
  /\ \A r \in DOMAIN repos : \A p \in Published(r) :
       /\ Owed(p)
       /\ worker[Deps] = "closing" => Reached(p)
       /\ worker[Deps] = "done" => p \in settled
  /\ \A s \in Slots : WriteOwed(slots[s])

OwedInv == FitInv /\ RootFirst /\ (faults = 0 => ReachInv)

LEMMA ReadWithin ==
  ASSUME NEW r \in Repos
  PROVE  ToSet(ReadManifests(r, Len(Manifests[r]), {})) \subseteq ToSet(Manifests[r])
<1> DEFINE all == Manifests[r]
           good == {m \in ToSet(all) : m.parseable /\ ~m.skipped}
           empty == <<>>
<1>1. IsList(all)
  BY DiscoveryConstants DEF DiscoveryConstants
<1>2. IsList(Among(all, good)) /\ ToSet(Among(all, good)) \subseteq ToSet(all)
  BY <1>1, AmongIs
<1>3. IsList(empty) /\ ToSet(empty) = {}
  BY DEF IsList, ToSet
<1>4. ManifestPaths(r, Len(all)) = empty \/ ManifestPaths(r, Len(all)) = Among(all, good)
  BY DEF ManifestPaths
<1> HIDE DEF all, empty, good
<1>5. IsList(ManifestPaths(r, Len(all))) /\ ToSet(ManifestPaths(r, Len(all))) \subseteq ToSet(all)
  BY <1>2, <1>3, <1>4
<1> QED BY <1>5, AmongIs DEF ReadManifests, all

LEMMA ClaimsHaveSystems ==
  ASSUME NEW r \in Repos, NEW p \in Claims(r)
  PROVE  p[1] \in Systems
<1> DEFINE read == ReadManifests(r, Len(Manifests[r]), {})
<1>1. ASSUME p \in ToSet(DetectPackages(r, read)) PROVE p[1] \in Systems
  <2>1. IsList(read) /\ ToSet(read) \subseteq ToSet(Manifests[r])
    BY ReadIs, ReadWithin
  <2> HIDE DEF read
  <2>2. PICK m \in ToSet(read) : p = <<m.system, ExtractPackageName(m, r)>>
    BY <1>1, <2>1, DetectedIs
  <2> DEFINE system == m.system
  <2>3. system \in Systems
    BY <2>1, <2>2, DiscoveryConstants DEF DiscoveryConstants
  <2> HIDE DEF system
  <2>4. p = <<system, ExtractPackageName(m, r)>>
    BY <2>2 DEF system
  <2> QED BY <2>3, <2>4
<1>2. p \in ToSet(Mapped[r]) => p[1] \in Systems
  BY DiscoveryConstants DEF DiscoveryConstants
<1> QED BY <1>1, <1>2 DEF Claims

(* Packages of one repository are told apart by their purls.                *)
LEMMA PurlsDiffer ==
  ASSUME NEW p, NEW q, p[1] \in Systems, q[1] \in Systems, Purl(p) = Purl(q)
  PROVE  p = q
<1>1. \A k : Purl(k) = (IF k \in Scoped THEN <<"encoded", k>> ELSE k)
  BY DEF Purl
<1>2. \A k : <<"encoded", k>>[1] = "encoded" /\ <<"encoded", k>>[2] = k
  OBVIOUS
<1>3. "encoded" \notin Systems
  BY DEF Systems, DepsDevSystems, RegistrySystems
<1> QED BY <1>1, <1>2, <1>3

-----------------------------------------------------------------------------
(* What is deferred.                                                        *)

LEMMA Deferred ==
  ASSUME Inv, NEW job, job.task \in DOMAIN QueueOfTask, Defer(job)
  PROVE  /\ \A q \in Queues : Jobs(q) \subseteq Jobs(q)'
         /\ \A q \in Queues : \A other \in Jobs(q)' \ Jobs(q) : other = job /\ q = QueueOfTask[job.task]
         /\ Locked(job) \/ job \in Jobs(QueueOfTask[job.task])'
<1> DEFINE o == QueueOfTask[job.task]
<1>1. o \in Queues
  BY TaskQueues, RootQueue
<1>2. todo' = IF Locked(job) THEN todo ELSE [todo EXCEPT ![o] = BagAdd(@, job)]
  BY DEF Defer
<1> HIDE DEF o
<1>3. CASE Locked(job)
  BY <1>2, <1>3 DEF Jobs
<1>4. CASE ~Locked(job)
  <2>1. todo'[o] = BagAdd(todo[o], job) /\ IsABag(todo[o]) /\ \A q \in Queues \ {o} : todo'[q] = todo[q]
    BY <1>1, <1>2, <1>4 DEF Inv, JobsFit
  <2>2. Jobs(o)' = Jobs(o) \cup {job} /\ \A q \in Queues \ {o} : Jobs(q)' = Jobs(q)
    BY <2>1, Added DEF Jobs
  <2> QED BY <1>1, <2>2 DEF o
<1> QED BY <1>3, <1>4 DEF o

LEMMA Batched ==
  ASSUME Inv, NEW jobs, BatchDefer(jobs)
  PROVE  /\ Jobs(Deps)' = Jobs(Deps)
         /\ \A q \in Queues : \A job \in Jobs(q)' \ Jobs(q) : job \in jobs /\ q = Root
<1>1. \A q \in Queues \ {Root} : Jobs(q)' = Jobs(q)
  BY DEF Inv, JobsFit, BatchDefer, Root, Jobs
<1>2. Jobs(Root)' = Jobs(Root) \cup jobs
  BY BatchAdds
<1> QED BY <1>1, <1>2, RootQueue DEF Deps, Root

(* A crawl of a package is in line once it was deferred.                    *)
LEMMA LineFormed ==
  ASSUME Inv, FitInv, NEW p, NEW source, Defer(DepsJob(p, source)), p[1] \in Systems
  PROVE  InLine(p)'
<1> DEFINE job == DepsJob(p, source)
<1>1. job.task = "crawl_package_deps" /\ job.lock = p /\ job.package = p
  BY DEF DepsJob
<1> HIDE DEF job
<1>2. /\ \A q \in Queues : Jobs(q) \subseteq Jobs(q)'
      /\ Locked(job) \/ job \in Jobs(Deps)'
  BY <1>1, TaskQueues, Deferred DEF job, Deps
<1>3. ASSUME Locked(job) PROVE InLine(p)
  <2>1. PICK q \in Queues : \E other \in Jobs(q) : p # None /\ other.lock = p
    BY <1>1, <1>3 DEF Locked
  <2>2. PICK other \in Jobs(q) : p # None /\ other.lock = p
    BY <2>1
  <2>3. q = Deps /\ other.package = p
    BY <2>1, <2>2 DEF FitInv, LockFits
  <2> QED BY <2>2, <2>3 DEF InLine
<1> QED BY <1>1, <1>2, <1>3, RootQueue DEF InLine, Deps

(* What a crawl defers has one job for each package of deps.dev.            *)
LEMMA FannedOut ==
  ASSUME NEW r, NEW packages, IsList(packages)
  PROVE  /\ IsList(FanOut(r, packages))
         /\ \A p \in ToSet(packages) : p[1] \in DepsDevSystems => <<"deps", p>> \in ToSet(FanOut(r, packages))
<1> DEFINE deps == DepsDevPackages(packages)
           registry == RegistryPackages(packages)
           named == [i \in DOMAIN registry |-> registry[i][1]]
           systems == Distinct(named)
           first == [i \in DOMAIN deps |-> <<"deps", deps[i]>>]
           second == [i \in DOMAIN systems |-> <<"registry", systems[i]>>]
           third == IF SchedulingAllowed(r) THEN <<<<"dependents", r>>>> ELSE <<>>
<1>1. IsList(deps) /\ ToSet(deps) = {p \in ToSet(packages) : p[1] \in DepsDevSystems}
  BY AmongIs DEF DepsDevPackages
<1>2. IsList(registry)
  BY AmongIs DEF RegistryPackages
<1>3. FanOut(r, packages) = first \o second \o third
  BY DEF FanOut
<1> DEFINE S == {first[i] : i \in DOMAIN first} \cup {second[i] : i \in DOMAIN second} \cup {<<"dependents", r>>}
<1>4. IsList(systems)
  <2>1. DOMAIN registry = 1..Len(registry) /\ Len(registry) \in Nat
    BY <1>2, ListIs
  <2> HIDE DEF registry
  <2>2. named \in Seq({named[i] : i \in DOMAIN registry})
    BY <2>1
  <2> HIDE DEF named
  <2> QED BY <2>2, ListOver, DistinctIs
<1>5. DOMAIN deps = 1..Len(deps) /\ Len(deps) \in Nat /\ DOMAIN systems = 1..Len(systems) /\ Len(systems) \in Nat
  BY <1>1, <1>4, ListIs
<1>6. /\ DOMAIN first = 1..Len(deps) /\ \A i \in DOMAIN deps : first[i] = <<"deps", deps[i]>>
      /\ DOMAIN second = 1..Len(systems)
  BY <1>5
<1>7. \A p \in ToSet(deps) : \E i \in DOMAIN deps : deps[i] = p
  BY <1>1, ListIs
<1>8. first = [i \in 1..Len(deps) |-> first[i]] /\ second = [i \in 1..Len(systems) |-> second[i]]
  BY <1>5, <1>6
<1>9. third \in Seq(S)
  OBVIOUS
<1> HIDE DEF deps, systems, first, second, third
<1>10. first \in Seq(S) /\ Len(first) = Len(deps)
  BY <1>5, <1>6, <1>8
<1>11. second \in Seq(S)
  BY <1>5, <1>6, <1>8
<1> HIDE DEF S
<1>12. first \o second \o third \in Seq(S)
  BY <1>9, <1>10, <1>11
<1>13. ASSUME NEW i \in DOMAIN deps PROVE first[i] \in ToSet(first \o second \o third)
  <2>1. i \in 1..Len(first) /\ Len(first) \in Nat /\ Len(second) \in Nat /\ Len(third) \in Nat
    BY <1>5, <1>9, <1>10, <1>11
  <2>2. (first \o second \o third)[i] = first[i] /\ i \in DOMAIN (first \o second \o third)
    BY <1>9, <1>10, <1>11, <2>1
  <2> QED BY <2>2 DEF ToSet
<1>14. ASSUME NEW p \in ToSet(deps) PROVE <<"deps", p>> \in ToSet(first \o second \o third)
  BY <1>6, <1>7, <1>13
<1> QED BY <1>1, <1>3, <1>12, <1>14, ListOver

-----------------------------------------------------------------------------
(* Locks and lists.                                                         *)

LEMMA FitStep ==
  ASSUME Inv, FitInv, NEW s \in Slots, NEW state, slots' = [slots EXCEPT ![s] = state], Fits(state),
         \A q \in Queues : \A job \in Jobs(q)' \ Jobs(q) : LockFits(job, q)
  PROVE  FitInv'
<1>1. \A q \in Queues : \A job \in Jobs(q)' : LockFits(job, q)
  BY DEF FitInv
<1>2. \A t \in Slots : Fits(slots'[t])
  BY DEF Inv, Counters, FitInv
<1> QED BY <1>1, <1>2 DEF FitInv

LEMMA FitGo ==
  ASSUME Inv, FitInv, NEW s \in Slots, NEW state, Go(s, state), Fits(state), UNCHANGED todo
  PROVE  FitInv'
<1>1. \A q \in Queues : Jobs(q)' = Jobs(q)
  BY DEF Jobs
<1> QED BY <1>1, FitStep DEF Go

LEMMA IdleFits == Fits(Idle)
BY DEF Fits, Idle

LEMMA FitFree ==
  ASSUME Inv, FitInv, NEW s \in Slots, Free(s), UNCHANGED todo
  PROVE  FitInv'
BY IdleFits, FitGo DEF Free, Go

LEMMA FitFail == ASSUME Inv, FitInv, NEW s \in Slots, Fail(s) PROVE FitInv'
BY FitFree DEF Fail, queue

LEMMA SyncFit == ASSUME Inv, FitInv, NEW s \in Slots, SyncOpengrants(s) PROVE FitInv'
<1>1. \/ Fail(s)
      \/ \E chosen : BatchDefer({ProjectJob(p) : p \in chosen}) /\ Free(s)
  BY DEF SyncOpengrants
<1>2. ASSUME NEW chosen, BatchDefer({ProjectJob(p) : p \in chosen}), Free(s) PROVE FitInv'
  <2>1. \A p : ProjectJob(p).lock = None
    BY DEF ProjectJob
  <2>2. \A q \in Queues : \A job \in Jobs(q)' \ Jobs(q) : job \in {ProjectJob(p) : p \in chosen} /\ q = Root
    BY <1>2, Batched
  <2>3. \A q \in Queues : \A job \in Jobs(q)' \ Jobs(q) : LockFits(job, q)
    BY <2>1, <2>2 DEF LockFits, Root, Deps
  <2> QED BY <1>2, <2>3, IdleFits, FitStep DEF Free
<1> QED BY <1>1, <1>2, FitFail

LEMMA ProjectFit ==
  ASSUME Inv, FitInv, NEW s \in Slots, ResolveProject(s) \/ UpsertProject(s) \/ DeferRepos(s)
  PROVE  FitInv'
<1>1. ASSUME ResolveProject(s) PROVE FitInv'
  <2>1. PICK state : /\ Go(s, state) /\ state.pc = "write" /\ state.job = Job(s)
                     /\ \A job \in state.rest : job.lock = None
    BY <1>1, Resolved
  <2>2. Fits(state) /\ UNCHANGED todo
    BY <1>1, <2>1 DEF Fits, ResolveProject, queue
  <2> QED BY <2>1, <2>2, FitGo
<1>2. ASSUME UpsertProject(s) PROVE FitInv'
  <2> DEFINE state == [slots[s] EXCEPT !.pc = "defer"]
  <2>1. /\ slots[s].pc = "write" /\ Job(s).task = "process_project" /\ slots[s].job = Job(s)
        /\ Fail(s) \/ (UNCHANGED todo /\ (Go(s, Idle) \/ Go(s, state)))
    BY <1>2 DEF UpsertProject, queue, Job
  <2>2. KnowsProject(s) /\ {"pc", "job"} \subseteq DOMAIN slots[s]
    BY <2>1, Working DEF Pcs, Knows
  <2>3. state.pc = "defer" /\ state.job = Job(s) /\ state.rest = slots[s].rest
    BY <2>1, <2>2 DEF KnowsProject
  <2> HIDE DEF state
  <2>4. \A job \in slots[s].rest : job.lock = None
    BY <2>1 DEF FitInv, Fits
  <2>5. Fits(state)
    BY <2>1, <2>3, <2>4 DEF Fits
  <2> QED BY <2>1, <2>5, FitFail, IdleFits, FitGo
<1>3. ASSUME DeferRepos(s) PROVE FitInv'
  <2>1. /\ slots[s].pc = "defer" /\ Job(s).task = "process_project" /\ slots[s].job = Job(s)
        /\ BatchDefer(slots[s].rest) /\ Free(s)
    BY <1>3 DEF DeferRepos, Job
  <2>2. \A job \in slots[s].rest : job.lock = None
    BY <2>1 DEF FitInv, Fits
  <2>3. \A q \in Queues : \A job \in Jobs(q)' \ Jobs(q) : job \in slots[s].rest /\ q = Root
    BY <2>1, Batched
  <2>4. \A q \in Queues : \A job \in Jobs(q)' \ Jobs(q) : LockFits(job, q)
    BY <2>2, <2>3 DEF LockFits, Root, Deps
  <2> QED BY <2>1, <2>4, IdleFits, FitStep DEF Free
<1> QED BY <1>1, <1>2, <1>3

LEMMA CrawlFit ==
  ASSUME Inv, ListsInv, FitInv, NEW s \in Slots,
         BeginCrawl(s) \/ UpsertRepoRow(s) \/ AbsorbPackage(s) \/ Associate(s)
  PROVE  FitInv'
<1>1. ASSUME BeginCrawl(s) PROVE FitInv'
  <2>1. Job(s).task = "crawl_github_repo"
    BY <1>1 DEF BeginCrawl
  <2>2. \/ Fail(s)
        \/ \E found, read, releases, packages :
             /\ Go(s, [pc |-> "write", job |-> Job(s), found |-> found, read |-> read,
                       releases |-> releases, rest |-> packages])
             /\ UNCHANGED <<queue, graph, history>>
    BY <1>1, Begun
  <2>3. ASSUME NEW found, NEW read, NEW releases, NEW packages, UNCHANGED <<queue, graph, history>>,
               Go(s, [pc |-> "write", job |-> Job(s), found |-> found, read |-> read,
                      releases |-> releases, rest |-> packages])
        PROVE  FitInv'
    <3> DEFINE state == [pc |-> "write", job |-> Job(s), found |-> found, read |-> read,
                         releases |-> releases, rest |-> packages]
    <3>1. state.pc = "write" /\ state.job = Job(s)
      OBVIOUS
    <3>2. Go(s, state) /\ UNCHANGED todo
      BY <2>3 DEF queue
    <3> HIDE DEF state
    <3>3. Fits(state)
      BY <2>1, <3>1 DEF Fits
    <3> QED BY <3>2, <3>3, FitGo
  <2> QED BY <2>2, <2>3, FitFail
<1>2. ASSUME UpsertRepoRow(s) PROVE FitInv'
  <2> SUFFICES ASSUME ~Fail(s) PROVE FitInv'
    BY FitFail
  <2> DEFINE state == [pc |-> "absorb", job |-> Job(s), packages |-> slots[s].rest, rest |-> slots[s].rest]
  <2>1. /\ Job(s).task = "crawl_github_repo" /\ slots[s].pc = "write" /\ slots[s].job = Job(s)
        /\ Go(s, state) /\ UNCHANGED todo
    BY <1>2, UpsertedRow DEF queue, Job
  <2>2. slots[s].rest \in Seq(Claims(Job(s).repo))
    BY <2>1 DEF ListsInv, Lists, CrawlLists
  <2>3. state.pc = "absorb" /\ state.packages = slots[s].rest
    OBVIOUS
  <2> HIDE DEF state
  <2>4. Fits(state)
    BY <2>2, <2>3, ListOver DEF Fits
  <2> QED BY <2>1, <2>4, FitGo
<1>3. ASSUME AbsorbPackage(s) PROVE FitInv'
  <2> DEFINE rest == Tail(slots[s].rest)
             state == [slots[s] EXCEPT !.rest = rest]
  <2>1. slots[s].pc = "absorb" /\ Go(s, state) /\ UNCHANGED todo
    BY <1>3 DEF AbsorbPackage, queue
  <2>2. "packages" \in DOMAIN slots[s]
    BY <2>1, Absorbing, Working DEF Knows, KnowsRepo, Pcs
  <2> HIDE DEF rest
  <2>3. state.pc = "absorb" /\ state.packages = slots[s].packages
    BY <2>1, <2>2, Absorbing
  <2> HIDE DEF state
  <2>4. Fits(state)
    BY <2>1, <2>3 DEF FitInv, Fits
  <2> QED BY <2>1, <2>4, FitGo
<1>4. ASSUME Associate(s) PROVE FitInv'
  <2> DEFINE rest == FanOut(Job(s).repo, slots[s].packages)
             state == [slots[s] EXCEPT !.pc = "defer", !.rest = rest]
  <2>1. slots[s].pc = "absorb" /\ Go(s, state) /\ UNCHANGED todo
    BY <1>4 DEF Associate, queue
  <2>2. IsList(rest)
    BY <2>1, FannedOut DEF FitInv, Fits
  <2> HIDE DEF rest
  <2>3. state.pc = "defer" /\ state.rest = rest /\ state.job = Job(s) /\ Job(s).task = "crawl_github_repo"
    BY <2>1, Absorbing
  <2> HIDE DEF state
  <2>4. Fits(state)
    BY <2>2, <2>3 DEF Fits
  <2> QED BY <2>1, <2>4, FitGo
<1> QED BY <1>1, <1>2, <1>3, <1>4

LEMMA FanOutJobFits ==
  ASSUME NEW r, NEW packages, NEW next
  PROVE  LET job == FanOutJob(r, packages, next)
         IN /\ job.task \in {"crawl_package_deps", "crawl_package_registry", "crawl_github_dependents"}
            /\ LockFits(job, QueueOfTask[job.task])
<1>1. \A p : LockFits(DepsJob(p, r), "package-deps") /\ DepsJob(p, r).task = "crawl_package_deps"
  BY DEF LockFits, DepsJob, Deps
<1>2. "registry" \notin Systems /\ "github-dependents" \notin Systems
  BY DEF Systems, DepsDevSystems, RegistrySystems
<1>3. \A system, names : /\ RegistryJob(r, system, names).lock = <<"registry", r, system>>
                         /\ RegistryJob(r, system, names).task = "crawl_package_registry"
  BY DEF RegistryJob
<1>4. \A system : <<"registry", r, system>>[1] = "registry"
  OBVIOUS
<1>5. \A system, names : LockFits(RegistryJob(r, system, names), "registry-crawl")
  BY <1>2, <1>3, <1>4 DEF LockFits, Deps
<1>6. DependentsJob(r).lock[1] = "github-dependents" /\ DependentsJob(r).task = "crawl_github_dependents"
  BY DEF DependentsJob
<1>7. LockFits(DependentsJob(r), "registry-crawl")
  BY <1>2, <1>6 DEF LockFits, Deps
<1> QED BY <1>1, <1>3, <1>5, <1>6, <1>7, TaskQueues DEF FanOutJob

LEMMA DeferFit ==
  ASSUME Inv, FitInv, NEW s \in Slots, DeferNext(s)
  PROVE  FitInv'
<1> DEFINE rest == Tail(slots[s].rest)
           state == [slots[s] EXCEPT !.rest = rest]
           job == FanOutJob(Job(s).repo, slots[s].packages, Head(slots[s].rest))
<1>1. /\ slots[s].pc = "defer" /\ Job(s).task = "crawl_github_repo" /\ slots[s].rest # <<>> /\ Go(s, state)
      /\ Defer(job) /\ slots[s].job = Job(s)
  BY DEF DeferNext, Job
<1>2. /\ job.task \in {"crawl_package_deps", "crawl_package_registry", "crawl_github_dependents"}
      /\ LockFits(job, QueueOfTask[job.task])
  BY FanOutJobFits
<1> HIDE DEF job
<1>3. \A q \in Queues : \A other \in Jobs(q)' \ Jobs(q) : other = job /\ q = QueueOfTask[job.task]
  BY <1>1, <1>2, TaskQueues, Deferred
<1>4. {"pc", "job", "rest"} \subseteq DOMAIN slots[s] /\ IsList(slots[s].rest)
  BY <1>1, Working DEF Knows, KnowsRepo, Pcs, FitInv, Fits
<1>5. IsList(rest)
  <2> DEFINE list == slots[s].rest
  <2>1. list \in Seq(ToSet(list)) /\ list # <<>>
    BY <1>1, <1>4 DEF IsList
  <2> HIDE DEF list
  <2>2. Tail(list) \in Seq(ToSet(list))
    BY <2>1, HeadTail
  <2> QED BY <2>2, ListOver DEF list
<1> HIDE DEF rest
<1>6. state.pc = "defer" /\ state.job = Job(s) /\ state.rest = rest
  BY <1>1, <1>4
<1> HIDE DEF state
<1>7. Fits(state)
  BY <1>1, <1>5, <1>6 DEF Fits
<1> QED BY <1>1, <1>2, <1>3, <1>7, FitStep DEF Go

LEMMA PackageFit ==
  ASSUME Inv, FitInv, NEW s \in Slots, FetchRequirements(s) \/ VisitRequirement(s)
  PROVE  FitInv'
<1>1. ASSUME FetchRequirements(s) PROVE FitInv'
  <2> DEFINE state == [pc |-> "write", job |-> Job(s), rest |-> Requires(Job(s).package), edges |-> {}, new |-> {}]
  <2>1. Job(s).task = "crawl_package_deps" /\ UNCHANGED todo /\ (Free(s) \/ Go(s, state))
    BY <1>1 DEF FetchRequirements, queue
  <2>2. Fits(state)
    BY <2>1 DEF Fits
  <2> QED BY <2>1, <2>2, FitFree, FitGo
<1>2. ASSUME VisitRequirement(s) PROVE FitInv'
  <2> SUFFICES ASSUME ~Fail(s) PROVE FitInv'
    BY FitFail
  <2> DEFINE rest == Tail(slots[s].rest)
             q == Head(slots[s].rest)
             edge(v) == <<Job(s).source, v>>
  <2>1. /\ slots[s].pc = "write" /\ Job(s).task = "crawl_package_deps"
        /\ UNCHANGED todo \/ \E r : Defer(DepsJob(q, r))
        /\ \E v, new : Go(s, [slots[s] EXCEPT !.rest = Tail(@), !.new = @ \cup new, !.edges = @ \cup {edge(v)}])
    BY <1>2 DEF VisitRequirement, Recursion, queue
  <2>2. Knows(s) /\ {"pc", "job"} \subseteq DOMAIN slots[s] /\ slots[s].job = Job(s)
    BY <2>1, Working DEF Knows, Pcs, Job
  <2>3. {"rest", "edges", "new"} \subseteq DOMAIN slots[s]
    BY <2>1, <2>2 DEF Knows, KnowsPackage
  <2>4. PICK v, new : Go(s, [slots[s] EXCEPT !.rest = Tail(@), !.new = @ \cup new, !.edges = @ \cup {edge(v)}])
    BY <2>1
  <2> HIDE DEF rest, q, edge
  <2> DEFINE state == [slots[s] EXCEPT !.rest = Tail(@), !.new = @ \cup new, !.edges = @ \cup {edge(v)}]
  <2>5. state.pc = "write" /\ state.job = Job(s)
    BY <2>1, <2>2
  <2>6. slots' = [slots EXCEPT ![s] = state]
    BY <2>4 DEF Go
  <2> HIDE DEF state
  <2>7. Fits(state)
    BY <2>1, <2>5 DEF Fits
  <2>8. \A k \in Queues : \A job \in Jobs(k)' \ Jobs(k) : LockFits(job, k)
    <3>1. ASSUME NEW r, Defer(DepsJob(q, r)), NEW k \in Queues, NEW job \in Jobs(k)' \ Jobs(k) PROVE LockFits(job, k)
      <4> DEFINE new2 == DepsJob(q, r)
      <4>1. new2.task = "crawl_package_deps" /\ LockFits(new2, Deps)
        BY DEF DepsJob, LockFits
      <4> HIDE DEF new2
      <4>2. job = new2 /\ k = Deps
        BY <3>1, <4>1, TaskQueues, Deferred DEF new2, Deps
      <4> QED BY <4>1, <4>2
    <3>2. UNCHANGED todo => \A k \in Queues : Jobs(k)' = Jobs(k)
      BY DEF Jobs
    <3> QED BY <2>1, <3>1, <3>2
  <2> QED BY <2>6, <2>7, <2>8, FitStep
<1> QED BY <1>1, <1>2

LEMMA WorkFit == ASSUME Inv, ListsInv, FitInv, NEW s \in Slots, Work(s) PROVE FitInv'
<1>1. EndCrawl(s) \/ CommitDeps(s) \/ CrawlRegistry(s) => Free(s) /\ UNCHANGED todo
  BY DEF EndCrawl, CommitDeps, CrawlRegistry, queue
<1> QED BY <1>1, FitFree, SyncFit, ProjectFit, CrawlFit, DeferFit, PackageFit DEF Work

LEMMA FetchTakes ==
  ASSUME Inv, NEW s \in Slots, Fetch(s)
  PROVE  \E job \in Jobs(QueueOf[s]) :
           /\ JobFits(job, QueueOf[s]) /\ Go(s, [pc |-> "start", job |-> job])
           /\ Jobs(QueueOf[s]) \subseteq Jobs(QueueOf[s])' \cup {job}
           /\ \A q \in Queues : Jobs(q)' \subseteq Jobs(q)
           /\ \A q \in Queues \ {QueueOf[s]} : Jobs(q)' = Jobs(q)
<1> DEFINE o == QueueOf[s]
<1>1. PICK job \in Jobs(o) : Go(s, [pc |-> "start", job |-> job]) /\ todo' = [todo EXCEPT ![o] = BagRemove(@, job)]
  BY DEF Fetch
<1>2. JobFits(job, o) /\ IsABag(todo[o]) /\ o \in Queues
  BY <1>1, SlotQueue DEF Inv, JobsFit
<1> HIDE DEF o
<1>3. todo'[o] = BagRemove(todo[o], job) /\ \A q \in Queues \ {o} : todo'[q] = todo[q]
  BY <1>1, <1>2 DEF Inv, JobsFit
<1>4. Jobs(o)' \subseteq Jobs(o) /\ Jobs(o) \subseteq Jobs(o)' \cup {job}
  <2>1. DOMAIN todo[o] \subseteq DOMAIN BagRemove(todo[o], job) \cup {job}
    BY <1>2 DEF BagRemove
  <2> QED BY <1>2, <1>3, <2>1, Removed DEF Jobs
<1>5. \A q \in Queues \ {o} : Jobs(q)' = Jobs(q)
  BY <1>3 DEF Jobs
<1> QED BY <1>1, <1>2, <1>4, <1>5 DEF o

LEMMA FitNext == ASSUME Inv, ListsInv, FitInv, [Next]_vars PROVE FitInv'
<1>1. ASSUME NEW s \in Slots, Fetch(s) PROVE FitInv'
  <2>1. PICK job : Go(s, [pc |-> "start", job |-> job]) /\ \A q \in Queues : Jobs(q)' \subseteq Jobs(q)
    BY <1>1, FetchTakes
  <2> DEFINE state == [pc |-> "start", job |-> job]
  <2>2. Fits(state) /\ slots' = [slots EXCEPT ![s] = state]
    BY <2>1 DEF Fits, Go
  <2> QED BY <2>1, <2>2, FitStep
<1>2. ASSUME NEW q \in Queues, KillWorker(q) PROVE FitInv'
  <2>1. UNCHANGED todo /\ \A s \in Slots : slots'[s] = Idle \/ slots'[s] = slots[s]
    BY <1>2 DEF KillWorker
  <2>2. \A s \in Slots : Fits(slots'[s])
    BY <2>1, IdleFits DEF FitInv
  <2> QED BY <2>1, <2>2 DEF FitInv, Jobs
<1>3. ASSUME StartWeek PROVE FitInv'
  <2>1. UNCHANGED slots /\ (UNCHANGED todo \/ \E selected : Defer(SyncJob(selected)))
    BY <1>3 DEF StartWeek
  <2>2. ASSUME NEW selected, Defer(SyncJob(selected)), NEW q \in Queues, NEW job \in Jobs(q)' \ Jobs(q)
        PROVE  LockFits(job, q)
    <3> DEFINE sync == SyncJob(selected)
    <3>1. sync.task = "sync_opengrants" /\ sync.lock[1] = "sync_opengrants"
      BY DEF SyncJob
    <3> HIDE DEF sync
    <3>2. job = sync /\ q = Root
      BY <2>2, <3>1, TaskQueues, Deferred DEF sync
    <3> QED BY <3>1, <3>2 DEF LockFits, Root, Deps, Systems, DepsDevSystems, RegistrySystems
  <2>3. UNCHANGED todo => \A q \in Queues : Jobs(q)' = Jobs(q)
    BY DEF Jobs
  <2> QED BY <2>1, <2>2, <2>3 DEF FitInv
<1>4. Administers => FitInv'
  BY DEF Administers, FitInv, Jobs
<1> QED BY <1>1, <1>2, <1>3, <1>4, Cases, WorkFit

-----------------------------------------------------------------------------
(* The worker of the packages comes after the root's.                       *)

(* A visit that goes on moves its slot, and what it defers.                 *)
LEMMA VisitMoves ==
  ASSUME NEW s \in Slots, VisitRequirement(s), ~Fail(s)
  PROVE  \E v, new : /\ UNCHANGED <<worker, stage, repos, settled>>
                     /\ Go(s, [slots[s] EXCEPT !.rest = Tail(@), !.new = @ \cup new,
                                               !.edges = @ \cup {<<Job(s).source, v>>}])
<1> DEFINE q == Head(slots[s].rest)
           id == TaskId(q)
           linked(v, new) ==
             Go(s, [slots[s] EXCEPT !.rest = Tail(@), !.new = @ \cup new, !.edges = @ \cup {<<Job(s).source, v>>}])
<1>1. \/ /\ \E r \in Publishers(id) : linked(r, {}) /\ Defer(Recursion(s, q, r))
         /\ UNCHANGED <<worker, round, week, stage, graph, history>>
      \/ /\ Publishers(id) = {} /\ id \in externals \cup New(s)
         /\ linked(id, {})
         /\ UNCHANGED <<queue, graph, history>>
      \/ /\ Publishers(id) = {}
         /\ linked(id, {id})
         /\ UNCHANGED <<queue, graph, history>>
  BY DEF VisitRequirement
<1> HIDE DEF linked, id
<1>2. UNCHANGED <<worker, stage, repos, settled>> /\ \E v, new : linked(v, new)
  BY <1>1 DEF queue, graph, history
<1>3. PICK v, new : linked(v, new)
  BY <1>2
<1> QED BY <1>2, <1>3, Zenon DEF linked

LEMMA VisitKeeps ==
  ASSUME NEW s \in Slots, VisitRequirement(s), ~Fail(s)
  PROVE  UNCHANGED <<worker, stage, repos, settled>>
BY VisitMoves

LEMMA SlotsOnly == ASSUME NEW s \in Slots, Work(s) \/ Fetch(s) PROVE UNCHANGED <<worker, stage>>
<1>1. UNCHANGED queue \/ UNCHANGED <<worker, round, week, stage>> => UNCHANGED <<worker, stage>>
  BY DEF queue
<1>2. Fail(s) => UNCHANGED queue
  BY DEF Fail
<1>3. BeginCrawl(s) => UNCHANGED queue
  BY <1>2, Begun
<1>4. SyncOpengrants(s) => Fail(s) \/ UNCHANGED <<worker, round, week, stage>>
  BY DEF SyncOpengrants
<1>5. ResolveProject(s) => UNCHANGED <<queue, graph, history>>
  BY Zenon DEF ResolveProject
<1>6. UpsertProject(s) => Fail(s) \/ UNCHANGED queue
  BY DEF UpsertProject
<1>7. UpsertRepoRow(s) => Fail(s) \/ UNCHANGED queue
  BY DEF UpsertRepoRow
<1>8. VisitRequirement(s) => Fail(s) \/ UNCHANGED <<worker, stage>>
  BY VisitKeeps
<1>9. FetchRequirements(s) \/ CommitDeps(s) \/ CrawlRegistry(s) \/ AbsorbPackage(s) \/ Associate(s)
        \/ EndCrawl(s) => UNCHANGED queue
  BY DEF FetchRequirements, CommitDeps, CrawlRegistry, AbsorbPackage, Associate, EndCrawl
<1>10. DeferRepos(s) \/ DeferNext(s) \/ Fetch(s) => UNCHANGED <<worker, round, week, stage>>
  BY DEF DeferRepos, DeferNext, Fetch
<1> QED BY <1>1, <1>2, <1>3, <1>4, <1>5, <1>6, <1>7, <1>8, <1>9, <1>10 DEF Work

LEMMA RootFirstNext == ASSUME Inv, RootFirst, [Next]_vars PROVE RootFirst'
<1>1. ASSUME UNCHANGED <<worker, stage>> PROVE RootFirst'
  BY <1>1 DEF RootFirst
<1>2. ASSUME NEW s \in Slots, Work(s) \/ Fetch(s) PROVE RootFirst'
  BY <1>1, <1>2, SlotsOnly
<1>3. ASSUME NEW q \in Queues, StartWorker(q) PROVE RootFirst'
  <2>1. /\ worker[q] = "waiting" /\ stage = "seeded" /\ (q # Root => worker[Root] = "done") /\ UNCHANGED stage
        /\ \E state \in {"fetching", "done"} : worker' = [worker EXCEPT ![q] = state]
    BY <1>3 DEF StartWorker, Turn, MayStart, Root
  <2> QED BY <2>1, RootQueue DEF RootFirst, Inv, Counters, Deps, Root
<1>4. ASSUME NEW q \in Queues, FetchNothing(q) \/ EndRound(q) \/ KillWorker(q) PROVE RootFirst'
  <2>1. UNCHANGED stage /\ \E state \in {"closing", "fetching", "done", "killed"} : worker' = [worker EXCEPT ![q] = state]
    BY <1>4 DEF FetchNothing, EndRound, KillWorker, Turn
  <2>2. FetchNothing(q) \/ EndRound(q) => Active(q)
    BY DEF FetchNothing, EndRound, Active
  <2>3. CASE q = Deps
    <3>1. Active(q) => worker[Root] = "done"
      BY <2>3, RootQueue DEF Inv, InOrder, Deps, Root
    <3>2. worker'[Root] = worker[Root]
      BY <2>1, <2>3, RootQueue DEF Inv, Counters, Deps, Root
    <3>3. ASSUME KillWorker(q) PROVE worker'[Deps] = "killed"
      BY <2>3, <3>3, RootQueue DEF KillWorker, Turn, Inv, Counters, Deps
    <3> QED BY <1>4, <2>2, <3>1, <3>2, <3>3 DEF RootFirst
  <2>4. CASE q = Root
    <3>1. worker'[Deps] = worker[Deps]
      BY <2>1, <2>4, RootQueue DEF Inv, Counters, Deps, Root
    <3>2. Active(q) => stage = "seeded"
      BY RootQueue DEF Inv, InOrder
    <3>3. KillWorker(q) => worker'[Root] = "killed"
      BY <2>4, RootQueue DEF KillWorker, Turn, Inv, Counters
    <3> QED BY <1>4, <2>1, <2>2, <2>4, <3>1, <3>2, <3>3 DEF RootFirst, Active
  <2>5. CASE q # Deps /\ q # Root
    <3>1. worker'[Deps] = worker[Deps] /\ worker'[Root] = worker[Root]
      BY <2>1, <2>5, RootQueue DEF Inv, Counters, Deps
    <3> QED BY <2>1, <3>1 DEF RootFirst
  <2> QED BY <2>3, <2>4, <2>5
<1>5. ASSUME StartWeek PROVE RootFirst'
  <2>1. UNCHANGED <<worker, stage>> \/ worker' = [q \in Queues |-> "waiting"]
    BY <1>5 DEF StartWeek
  <2> QED BY <1>1, <2>1, RootQueue DEF RootFirst, Deps
<1>6. EndWeek => RootFirst'
  BY DEF EndWeek, RootFirst
<1>7. UNCHANGED vars => RootFirst'
  BY <1>1 DEF vars, queue
<1> QED BY <1>2, <1>3, <1>4, <1>5, <1>6, <1>7 DEF Next, Run

(* While the root works, the worker of the packages has not begun to close. *)
LEMMA RootWorks ==
  ASSUME Inv, RootFirst, NEW s \in Slots, Busy(s), QueueOf[s] = Root
  PROVE  worker[Deps] \notin {"closing", "done"}
BY RootQueue DEF Inv, Runs, InOrder, Active, RootFirst, Deps, Root

-----------------------------------------------------------------------------
(* A package that is owed stays owed until it is settled.                   *)

Carries(p) == (Owed(p) => Owed(p)') /\ (Reached(p) => Reached(p)')

LEMMA CarriesOn ==
  ASSUME Inv, NEW s \in Slots, NEW state, slots' = [slots EXCEPT ![s] = state],
         settled \subseteq settled', Jobs(Deps) \subseteq Jobs(Deps)', NEW p,
         Crawls(slots[s], p) => p \in settled' \/ Crawls(state, p),
         WillDefer(slots[s], p) => WillDefer(state, p) \/ InLine(p)'
  PROVE  Carries(p)
<1>1. slots'[s] = state /\ \A t \in Slots \ {s} : slots'[t] = slots[t]
  BY DEF Inv, Counters
<1>2. Reached(p) => Reached(p)'
  BY <1>1 DEF Reached
<1>3. InLine(p) => InLine(p)'
  BY DEF InLine
<1>4. (\E t \in Slots : WillDefer(slots[t], p)) => (\E t \in Slots : WillDefer(slots'[t], p)) \/ InLine(p)'
  BY <1>1
<1> QED BY <1>2, <1>3, <1>4 DEF Carries, Owed

(* A step of a job that neither crawls a package nor has any to defer.      *)
LEMMA QuietCarries ==
  ASSUME Inv, NEW s \in Slots, NEW state, slots' = [slots EXCEPT ![s] = state],
         settled \subseteq settled', Jobs(Deps) \subseteq Jobs(Deps)', NEW p,
         slots[s].job.task # "crawl_package_deps", slots[s].pc # "absorb",
         slots[s].pc # "defer" \/ slots[s].job.task # "crawl_github_repo"
  PROVE  Carries(p)
BY CarriesOn DEF Crawls, WillDefer

LEMMA FailCarries ==
  ASSUME Inv, NEW s \in Slots, Fail(s), slots[s].pc \in {"start", "write"}, NEW p
  PROVE  Carries(p)
<1>1. slots' = [slots EXCEPT ![s] = Idle] /\ settled' = settled \cup Visiting(s) /\ Jobs(Deps)' = Jobs(Deps)
  BY DEF Fail, Free, queue, Jobs
<1>2. Crawls(slots[s], p) => p \in settled'
  BY <1>1 DEF Crawls, Visiting, Busy, Job
<1>3. ~WillDefer(slots[s], p)
  BY DEF WillDefer
<1> QED BY <1>1, <1>2, <1>3, CarriesOn

LEMMA ProjectCarries ==
  ASSUME Inv, NEW s \in Slots, NEW p,
         SyncOpengrants(s) \/ ResolveProject(s) \/ UpsertProject(s) \/ DeferRepos(s)
  PROVE  Carries(p)
<1>1. /\ slots[s].pc \in {"start", "write", "defer"} /\ slots[s].job.task \in {"sync_opengrants", "process_project"}
      /\ slots[s].pc # "defer" \/ DeferRepos(s)
  BY DEF SyncOpengrants, ResolveProject, UpsertProject, DeferRepos, Job
<1>2. \/ Fail(s) /\ slots[s].pc # "defer"
      \/ /\ \E state : slots' = [slots EXCEPT ![s] = state]
         /\ UNCHANGED settled
         /\ UNCHANGED todo \/ \E jobs : BatchDefer(jobs)
  <2>1. SyncOpengrants(s) => Fail(s) \/ (Free(s) /\ UNCHANGED settled /\ \E jobs : BatchDefer(jobs))
    BY DEF SyncOpengrants, history
  <2>2. ResolveProject(s) => UNCHANGED settled /\ UNCHANGED todo /\ \E state : Go(s, state)
    BY DEF ResolveProject, history, queue
  <2>3. UpsertProject(s) => Fail(s) \/ (UNCHANGED settled /\ UNCHANGED todo /\ \E state : Go(s, state))
    BY DEF UpsertProject, history, queue
  <2>4. DeferRepos(s) => UNCHANGED settled /\ Free(s) /\ \E jobs : BatchDefer(jobs)
    BY DEF DeferRepos, history
  <2>5. SyncOpengrants(s) \/ UpsertProject(s) => slots[s].pc # "defer"
    BY DEF SyncOpengrants, UpsertProject
  <2> QED BY <2>1, <2>2, <2>3, <2>4, <2>5 DEF Free, Go
<1>3. UNCHANGED todo \/ (\E jobs : BatchDefer(jobs)) => Jobs(Deps)' = Jobs(Deps)
  BY Batched DEF Jobs
<1> QED BY <1>1, <1>2, <1>3, FailCarries, QuietCarries

LEMMA CrawlCarries ==
  ASSUME Inv, FitInv, NEW s \in Slots, NEW p,
         BeginCrawl(s) \/ UpsertRepoRow(s) \/ AbsorbPackage(s) \/ Associate(s) \/ EndCrawl(s)
  PROVE  Carries(p)
<1>1. ASSUME BeginCrawl(s) PROVE Carries(p)
  <2>1. /\ slots[s].pc = "start" /\ slots[s].job.task = "crawl_github_repo"
    BY <1>1 DEF BeginCrawl, Job
  <2>3. Fail(s) \/ (UNCHANGED <<queue, graph, history>> /\ \E state : Go(s, state))
    <3>1. ASSUME NEW found, NEW read, NEW releases, NEW packages,
                 Go(s, [pc |-> "write", job |-> Job(s), found |-> found, read |-> read,
                        releases |-> releases, rest |-> packages])
          PROVE  \E state : Go(s, state)
      BY <3>1
    <3> QED BY <1>1, <3>1, Begun
  <2>2. UNCHANGED <<queue, graph, history>> => UNCHANGED settled /\ Jobs(Deps)' = Jobs(Deps)
    BY DEF queue, history, Jobs
  <2> QED BY <2>1, <2>2, <2>3, FailCarries, QuietCarries DEF Go
<1>2. ASSUME UpsertRepoRow(s) PROVE Carries(p)
  <2>1. /\ slots[s].pc = "write" /\ slots[s].job.task = "crawl_github_repo"
        /\ Fail(s) \/ (UNCHANGED <<todo, settled>> /\ \E state : Go(s, state))
    BY <1>2 DEF UpsertRepoRow, Job, queue, history
  <2>2. UNCHANGED todo => Jobs(Deps)' = Jobs(Deps)
    BY DEF Jobs
  <2> QED BY <2>1, <2>2, FailCarries, QuietCarries DEF Go
<1>3. ASSUME AbsorbPackage(s) PROVE Carries(p)
  <2> DEFINE rest == Tail(slots[s].rest)
             state == [slots[s] EXCEPT !.rest = rest]
  <2>1. slots[s].pc = "absorb" /\ slots' = [slots EXCEPT ![s] = state] /\ UNCHANGED settled /\ Jobs(Deps)' = Jobs(Deps)
    BY <1>3 DEF AbsorbPackage, queue, Go, Jobs
  <2>2. "packages" \in DOMAIN slots[s] /\ slots[s].job.task = "crawl_github_repo"
    BY <2>1, Absorbing, Working DEF Knows, KnowsRepo, Pcs
  <2> HIDE DEF rest
  <2>3. state.pc = "absorb" /\ state.packages = slots[s].packages
    BY <2>1, <2>2, Absorbing
  <2> HIDE DEF state
  <2>4. ~Crawls(slots[s], p) /\ (WillDefer(slots[s], p) => WillDefer(state, p))
    BY <2>1, <2>2, <2>3 DEF Crawls, WillDefer
  <2> QED BY <2>1, <2>4, CarriesOn
<1>4. ASSUME Associate(s) PROVE Carries(p)
  <2> DEFINE rest == FanOut(Job(s).repo, slots[s].packages)
             state == [slots[s] EXCEPT !.pc = "defer", !.rest = rest]
  <2>1. slots[s].pc = "absorb" /\ slots' = [slots EXCEPT ![s] = state] /\ UNCHANGED settled /\ Jobs(Deps)' = Jobs(Deps)
    BY <1>4 DEF Associate, queue, history, Go, Jobs
  <2>2. \A k \in ToSet(slots[s].packages) : k[1] \in DepsDevSystems => <<"deps", k>> \in ToSet(rest)
    BY <2>1, FannedOut DEF FitInv, Fits
  <2>3. slots[s].job.task = "crawl_github_repo" /\ {"pc", "job", "rest"} \subseteq DOMAIN slots[s]
    BY <2>1, Absorbing
  <2> HIDE DEF rest
  <2>4. state.pc = "defer" /\ state.rest = rest /\ state.job = slots[s].job
    BY <2>3
  <2> HIDE DEF state
  <2>5. ~Crawls(slots[s], p) /\ (WillDefer(slots[s], p) => WillDefer(state, p))
    BY <2>1, <2>2, <2>3, <2>4 DEF Crawls, WillDefer
  <2> QED BY <2>1, <2>5, CarriesOn
<1>5. ASSUME EndCrawl(s) PROVE Carries(p)
  <2>1. /\ slots[s].pc = "defer" /\ slots[s].job.task = "crawl_github_repo" /\ slots[s].rest = <<>>
        /\ slots' = [slots EXCEPT ![s] = Idle] /\ UNCHANGED settled /\ Jobs(Deps)' = Jobs(Deps)
    BY <1>5 DEF EndCrawl, Job, queue, history, Free, Jobs
  <2>2. ~Crawls(slots[s], p) /\ ~WillDefer(slots[s], p)
    BY <2>1, NothingListed DEF Crawls, WillDefer
  <2> QED BY <2>1, <2>2, CarriesOn
<1> QED BY <1>1, <1>2, <1>3, <1>4, <1>5

LEMMA DeferCarries ==
  ASSUME Inv, FitInv, NEW s \in Slots, DeferNext(s), NEW p, p[1] \in Systems
  PROVE  Carries(p)
<1> DEFINE list == slots[s].rest
           rest == Tail(list)
           next == Head(list)
           state == [slots[s] EXCEPT !.rest = rest]
           job == FanOutJob(Job(s).repo, slots[s].packages, next)
<1>1. /\ slots[s].pc = "defer" /\ slots[s].job.task = "crawl_github_repo" /\ list # <<>> /\ Defer(job)
      /\ slots' = [slots EXCEPT ![s] = state] /\ UNCHANGED settled
  BY DEF DeferNext, Job, Go, history
<1>2. job.task \in DOMAIN QueueOfTask
  BY FanOutJobFits, TaskQueues
<1>3. next = <<"deps", p>> => InLine(p)'
  <2> SUFFICES ASSUME next = <<"deps", p>> PROVE InLine(p)'
    OBVIOUS
  <2>1. next[1] = "deps" /\ next[2] = p
    OBVIOUS
  <2> HIDE DEF next
  <2>2. job = DepsJob(p, Job(s).repo)
    BY <2>1 DEF FanOutJob
  <2> HIDE DEF job
  <2> QED BY <1>1, <2>2, LineFormed
<1> HIDE DEF job
<1>4. Jobs(Deps) \subseteq Jobs(Deps)'
  BY <1>1, <1>2, Deferred, RootQueue DEF Deps
<1>5. {"pc", "job", "rest"} \subseteq DOMAIN slots[s] /\ IsList(list)
  BY <1>1, Working DEF Knows, KnowsRepo, Pcs, FitInv, Fits, Job
<1> HIDE DEF list
<1>6. ToSet(list) = {next} \cup ToSet(rest)
  BY <1>1, <1>5, HeadTail DEF IsList
<1> HIDE DEF rest, next
<1>7. state.pc = "defer" /\ state.job = slots[s].job /\ state.rest = rest
  BY <1>1, <1>5
<1> HIDE DEF state
<1>8. ~Crawls(slots[s], p)
  BY <1>1 DEF Crawls
<1>9. WillDefer(slots[s], p) => WillDefer(state, p) \/ InLine(p)'
  BY <1>1, <1>3, <1>6, <1>7 DEF WillDefer, list
<1> QED BY <1>1, <1>4, <1>8, <1>9, CarriesOn

LEMMA PackageCarries ==
  ASSUME Inv, NEW s \in Slots, faults = 0, faults' = 0, NEW p,
         FetchRequirements(s) \/ VisitRequirement(s) \/ CommitDeps(s) \/ CrawlRegistry(s)
  PROVE  Carries(p)
<1>1. slots[s].pc \in {"start", "write"} => ~WillDefer(slots[s], p)
  BY DEF WillDefer
<1>2. UNCHANGED todo => Jobs(Deps)' = Jobs(Deps)
  BY DEF Jobs
<1>3. ASSUME FetchRequirements(s) PROVE Carries(p)
  <2> DEFINE state == [pc |-> "write", job |-> Job(s), rest |-> Requires(Job(s).package), edges |-> {}, new |-> {}]
  <2>1. /\ slots[s].pc = "start" /\ UNCHANGED todo
        /\ \/ Free(s) /\ settled' = settled \cup {slots[s].job.package}
           \/ Go(s, state) /\ UNCHANGED settled
           \/ Fault(TRUE)
    BY <1>3 DEF FetchRequirements, queue, history, Job
  <2>2. ~Fault(TRUE)
    BY DEF Fault
  <2>3. Crawls(slots[s], p) => Crawls(state, p)
    BY DEF Crawls, Job
  <2>4. Crawls(slots[s], p) => p = slots[s].job.package
    BY DEF Crawls
  <2> HIDE DEF state
  <2> QED BY <1>1, <1>2, <2>1, <2>2, <2>3, <2>4, CarriesOn DEF Free, Go
<1>4. ASSUME VisitRequirement(s) PROVE Carries(p)
  <2>0. slots[s].pc = "write"
    BY <1>4 DEF VisitRequirement
  <2> SUFFICES ASSUME ~Fail(s) PROVE Carries(p)
    BY <2>0, FailCarries
  <2> DEFINE rest == Tail(slots[s].rest)
             q == Head(slots[s].rest)
             edge(v) == <<Job(s).source, v>>
  <2>1. /\ Job(s).task = "crawl_package_deps" /\ UNCHANGED settled
        /\ UNCHANGED todo \/ \E r : Defer(DepsJob(q, r))
        /\ \E v, new : Go(s, [slots[s] EXCEPT !.rest = Tail(@), !.new = @ \cup new, !.edges = @ \cup {edge(v)}])
    BY <1>4 DEF VisitRequirement, Recursion, queue, history
  <2>2. {"pc", "job", "rest", "edges", "new"} \subseteq DOMAIN slots[s]
    BY <2>0, <2>1, Working DEF Knows, Pcs, KnowsPackage
  <2>3. PICK v, new : Go(s, [slots[s] EXCEPT !.rest = Tail(@), !.new = @ \cup new, !.edges = @ \cup {edge(v)}])
    BY <2>1
  <2> DEFINE state == [slots[s] EXCEPT !.rest = Tail(@), !.new = @ \cup new, !.edges = @ \cup {edge(v)}]
  <2>4. \A r : DepsJob(q, r).task \in DOMAIN QueueOfTask
    BY TaskQueues DEF DepsJob
  <2> HIDE DEF rest, q, edge
  <2>5. state.pc = "write" /\ state.job = slots[s].job
    BY <2>0, <2>2
  <2>6. slots' = [slots EXCEPT ![s] = state]
    BY <2>3 DEF Go
  <2> HIDE DEF state
  <2>7. Crawls(slots[s], p) => Crawls(state, p)
    BY <2>5 DEF Crawls
  <2>8. Jobs(Deps) \subseteq Jobs(Deps)'
    BY <1>2, <2>1, <2>4, Deferred, RootQueue DEF Deps
  <2> QED BY <1>1, <2>0, <2>1, <2>6, <2>7, <2>8, CarriesOn
<1>5. ASSUME CommitDeps(s) PROVE Carries(p)
  <2>1. /\ slots[s].pc = "write" /\ UNCHANGED todo /\ slots' = [slots EXCEPT ![s] = Idle]
        /\ settled' = settled \cup {slots[s].job.package}
    BY <1>5 DEF CommitDeps, queue, Free, Job
  <2>2. Crawls(slots[s], p) => p \in settled'
    BY <2>1 DEF Crawls
  <2> QED BY <1>1, <1>2, <2>1, <2>2, CarriesOn
<1>6. ASSUME CrawlRegistry(s) PROVE Carries(p)
  <2>1. /\ slots[s].pc = "start" /\ QueueOfTask[Job(s).task] = "registry-crawl" /\ UNCHANGED todo
        /\ slots' = [slots EXCEPT ![s] = Idle] /\ UNCHANGED settled
    BY <1>6 DEF CrawlRegistry, queue, history, Free
  <2>2. slots[s].job.task # "crawl_package_deps"
    BY <2>1, TaskQueues DEF Job
  <2> QED BY <1>2, <2>1, <2>2, QuietCarries
<1> QED BY <1>3, <1>4, <1>5, <1>6

LEMMA WorkCarries ==
  ASSUME Inv, FitInv, NEW s \in Slots, Work(s), faults = 0, faults' = 0, NEW p, p[1] \in Systems
  PROVE  Carries(p)
BY ProjectCarries, CrawlCarries, DeferCarries, PackageCarries DEF Work

LEMMA FetchCarries ==
  ASSUME Inv, NEW s \in Slots, Fetch(s), NEW p
  PROVE  Carries(p)
<1>1. PICK job \in Jobs(QueueOf[s]) :
        /\ JobFits(job, QueueOf[s]) /\ Go(s, [pc |-> "start", job |-> job])
        /\ Jobs(QueueOf[s]) \subseteq Jobs(QueueOf[s])' \cup {job}
        /\ \A q \in Queues \ {QueueOf[s]} : Jobs(q)' = Jobs(q)
  BY FetchTakes
<1> DEFINE state == [pc |-> "start", job |-> job]
<1>2. slots' = [slots EXCEPT ![s] = state] /\ state.pc = "start" /\ state.job = job
  BY <1>1 DEF Go
<1> HIDE DEF state
<1>3. slots'[s] = state /\ \A t \in Slots \ {s} : slots'[t] = slots[t]
  BY <1>2 DEF Inv, Counters
<1>4. ~Busy(s) /\ UNCHANGED settled
  BY DEF Fetch, history
<1>5. ~Crawls(slots[s], p) /\ ~WillDefer(slots[s], p)
  BY <1>4 DEF Crawls, WillDefer, Busy
<1>6. Reached(p) => Reached(p)'
  BY <1>3, <1>4, <1>5 DEF Reached
<1>7. (\E t \in Slots : WillDefer(slots[t], p)) => \E t \in Slots : WillDefer(slots'[t], p)
  BY <1>3, <1>5
<1>8. InLine(p) => InLine(p)' \/ Reached(p)'
  <2> SUFFICES ASSUME NEW other \in Jobs(Deps), other.package = p PROVE InLine(p)' \/ Reached(p)'
    BY DEF InLine
  <2>1. CASE other \in Jobs(Deps)'
    BY <2>1 DEF InLine
  <2>2. CASE other \notin Jobs(Deps)'
    <3>1. QueueOf[s] = Deps /\ other = job
      BY <1>1, <2>2, RootQueue DEF Deps
    <3>2. job.task = "crawl_package_deps"
      BY <1>1, <3>1, TaskQueues DEF JobFits, Deps, Root
    <3>3. Crawls(slots'[s], p)
      BY <1>2, <1>3, <3>1, <3>2 DEF Crawls
    <3> QED BY <3>3 DEF Reached
  <2> QED BY <2>1, <2>2
<1> QED BY <1>6, <1>7, <1>8 DEF Carries, Owed

-----------------------------------------------------------------------------
(* What is published stays owed.                                            *)

(* A step of a slot: what it comes to write, and what it has written.       *)
LEMMA ReachSlot ==
  ASSUME Inv, ReachInv, NEW s \in Slots, NEW state, slots' = [slots EXCEPT ![s] = state],
         UNCHANGED worker, settled \subseteq settled', DOMAIN repos' \subseteq Repos,
         \A p : p[1] \in Systems => Carries(p),
         Writes(state) => \A p \in Claims(state.job.repo) :
           /\ Purl(p) \in state.read => Owed(p)'
           /\ Purl(p) \in state.releases => p \in ToSet(state.rest) /\ p[1] \in DepsDevSystems,
         \A r \in DOMAIN repos' : \A p \in Claims(r) : Purl(p) \in repos'[r].releases =>
           \/ r \in DOMAIN repos /\ Purl(p) \in repos[r].releases
           \/ Owed(p)' /\ worker[Deps] \notin {"closing", "done"}
  PROVE  ReachInv'
<1>1. slots'[s] = state /\ \A t \in Slots \ {s} : slots'[t] = slots[t]
  BY DEF Inv, Counters
<1>2. ASSUME NEW t \in Slots PROVE WriteOwed(slots[t])'
  <2>1. CASE t = s
    BY <1>1, <2>1 DEF WriteOwed
  <2>2. CASE t # s
    <3> SUFFICES ASSUME Writes(slots[t]), NEW p \in Claims(slots[t].job.repo)
                 PROVE  /\ Purl(p) \in slots[t].read => Owed(p)'
                        /\ Purl(p) \in slots[t].releases => p \in ToSet(slots[t].rest) /\ p[1] \in DepsDevSystems
      BY <1>1, <2>2 DEF WriteOwed
    <3>1. slots[t].job.repo \in Repos
      BY Working DEF Writes, Pcs, JobFits, Job
    <3>2. Carries(p)
      BY <3>1, ClaimsHaveSystems
    <3> QED BY <3>2 DEF Carries, ReachInv, WriteOwed
  <2> QED BY <2>1, <2>2
<1>3. ASSUME NEW r \in DOMAIN repos', NEW p \in Claims(r), Purl(p) \in repos'[r].releases
      PROVE  /\ Owed(p)'
             /\ worker[Deps] = "closing" => Reached(p)'
             /\ worker[Deps] = "done" => p \in settled'
  <2>1. Carries(p)
    BY ClaimsHaveSystems
  <2> SUFFICES ASSUME r \in DOMAIN repos, Purl(p) \in repos[r].releases
               PROVE  /\ Owed(p)'
                      /\ worker[Deps] = "closing" => Reached(p)'
                      /\ worker[Deps] = "done" => p \in settled'
    BY <1>3
  <2> QED BY <2>1 DEF Carries, ReachInv, Published
<1> QED BY <1>2, <1>3 DEF ReachInv, Published

SameReleases == DOMAIN repos' = DOMAIN repos /\ \A r \in DOMAIN repos : repos'[r].releases = repos[r].releases

LEMMA ReachQuiet ==
  ASSUME Inv, ReachInv, NEW s \in Slots, NEW state, slots' = [slots EXCEPT ![s] = state], ~Writes(state),
         UNCHANGED worker, settled \subseteq settled', SameReleases,
         \A p : p[1] \in Systems => Carries(p)
  PROVE  ReachInv'
<1>1. DOMAIN repos' \subseteq Repos
  BY DEF SameReleases, Inv, GraphFits
<1> QED BY <1>1, ReachSlot DEF SameReleases

LEMMA ReachFail ==
  ASSUME Inv, ReachInv, NEW s \in Slots, Fail(s), \A p : p[1] \in Systems => Carries(p)
  PROVE  ReachInv'
<1>1. /\ slots' = [slots EXCEPT ![s] = Idle] /\ UNCHANGED worker /\ settled \subseteq settled'
      /\ UNCHANGED repos
  BY DEF Fail, Free, queue, graph
<1>2. ~Writes(Idle)
  BY DEF Writes, Idle
<1> QED BY <1>1, <1>2, ReachQuiet DEF SameReleases

LEMMA BeginReach ==
  ASSUME Inv, ReachInv, NEW s \in Slots, BeginCrawl(s), \A p : p[1] \in Systems => Carries(p)
  PROVE  ReachInv'
<1> DEFINE r == Job(s).repo
           read == IF r \in DOMAIN repos THEN repos[r].releases ELSE {}
<1>1. r \in Repos
  <2>1. slots[s].pc = "start" /\ Job(s).task = "crawl_github_repo"
    BY DEF BeginCrawl
  <2> QED BY <2>1, Working DEF Pcs, JobFits
<1>2. ASSUME NEW found, NEW packages, NEW answered \in SUBSET (ToSet(packages) \cap KnownPackages),
             \A p \in answered : p[1] \in DepsDevSystems, UNCHANGED <<queue, graph, history>>,
             Go(s, [pc |-> "write", job |-> Job(s), found |-> found, read |-> read,
                    releases |-> {Purl(p) : p \in Released(packages, answered)}, rest |-> packages])
      PROVE  ReachInv'
  <2> DEFINE releases == {Purl(p) : p \in Released(packages, answered)}
             state == [pc |-> "write", job |-> Job(s), found |-> found, read |-> read, releases |-> releases,
                       rest |-> packages]
  <2>1. UNCHANGED <<worker, repos, settled>> /\ slots' = [slots EXCEPT ![s] = state]
    BY <1>2 DEF queue, graph, history, Go
  <2>2. ASSUME NEW p \in Claims(r), Purl(p) \in read PROVE Owed(p)'
    <3>1. r \in DOMAIN repos /\ Purl(p) \in repos[r].releases
      BY <2>2
    <3> HIDE DEF r
    <3>2. Owed(p)
      BY <2>2, <3>1 DEF ReachInv, Published
    <3> QED BY <1>1, <2>2, <3>2, ClaimsHaveSystems DEF Carries
  <2>3. ASSUME NEW p \in Claims(r), Purl(p) \in releases PROVE p \in ToSet(packages) /\ p[1] \in DepsDevSystems
    <3>1. PICK k \in Released(packages, answered) : Purl(p) = Purl(k)
      BY <2>3
    <3>2. k \in answered
      BY <3>1, ReleasedAnswered
    <3>3. k[1] \in DepsDevSystems /\ k \in ToSet(packages)
      BY <1>2, <3>2
    <3>4. p = k
      BY <1>1, <3>1, <3>3, ClaimsHaveSystems, PurlsDiffer DEF Systems
    <3> QED BY <3>3, <3>4
  <2> HIDE DEF read, releases
  <2>4. state.job.repo = r /\ state.read = read /\ state.releases = releases /\ state.rest = packages
    OBVIOUS
  <2> HIDE DEF state, r
  <2>5. DOMAIN repos' \subseteq Repos
    BY <2>1 DEF Inv, GraphFits
  <2> QED BY <2>1, <2>2, <2>3, <2>4, <2>5, ReachSlot
<1> HIDE DEF read
<1>3. \/ Fail(s)
      \/ \E found, packages, answered :
           /\ answered \subseteq ToSet(packages) \cap KnownPackages
           /\ \A p \in answered : p[1] \in DepsDevSystems
           /\ Go(s, [pc |-> "write", job |-> Job(s), found |-> found, read |-> read,
                     releases |-> {Purl(p) : p \in Released(packages, answered)}, rest |-> packages])
           /\ UNCHANGED <<queue, graph, history>>
  BY Begun DEF read
<1> QED BY <1>2, <1>3, ReachFail

LEMMA UpsertReach ==
  ASSUME Inv, RootFirst, ReachInv, NEW s \in Slots, UpsertRepoRow(s), \A p : p[1] \in Systems => Carries(p)
  PROVE  ReachInv'
<1> SUFFICES ASSUME ~Fail(s) PROVE ReachInv'
  BY ReachFail
<1> DEFINE r == Job(s).repo
           state == [pc |-> "absorb", job |-> Job(s), packages |-> slots[s].rest, rest |-> slots[s].rest]
<1>1. /\ Job(s).task = "crawl_github_repo" /\ slots[s].pc = "write" /\ r \in Repos
      /\ DOMAIN repos' = DOMAIN repos \cup {r}
      /\ repos'[r].releases = slots[s].read \cup slots[s].releases
      /\ \A k \in DOMAIN repos \ {r} : repos'[k] = repos[k]
      /\ Go(s, state) /\ UNCHANGED <<worker, settled>>
  BY UpsertedRow DEF queue, history
<1>2. state.pc = "absorb" /\ state.packages = slots[s].rest
  OBVIOUS
<1> HIDE DEF state
<1>3. slots' = [slots EXCEPT ![s] = state] /\ slots'[s] = state
  BY <1>1, GoesTo DEF Go
<1>4. worker[Deps] \notin {"closing", "done"}
  BY <1>1, Working, TaskQueues, RootWorks DEF Pcs
<1>5. ASSUME NEW p \in Claims(r), Purl(p) \in slots[s].read \cup slots[s].releases PROVE Owed(p)'
  <2>1. WriteOwed(slots[s]) /\ Writes(slots[s]) /\ slots[s].job.repo = r
    BY <1>1 DEF ReachInv, Writes, Job
  <2>2. CASE Purl(p) \in slots[s].read
    <3>1. Owed(p)
      BY <2>1, <2>2 DEF WriteOwed
    <3> QED BY <1>1, <3>1, ClaimsHaveSystems DEF Carries
  <2>3. CASE Purl(p) \in slots[s].releases
    <3>1. p \in ToSet(slots[s].rest) /\ p[1] \in DepsDevSystems
      BY <2>1, <2>3 DEF WriteOwed
    <3>2. WillDefer(slots'[s], p)
      BY <1>2, <1>3, <3>1 DEF WillDefer
    <3> QED BY <3>2 DEF Owed
  <2> QED BY <1>5, <2>2, <2>3
<1>6. ~Writes(state)
  BY <1>2 DEF Writes
<1>7. DOMAIN repos' \subseteq Repos
  BY <1>1 DEF Inv, GraphFits
<1>8. ASSUME NEW k \in DOMAIN repos', NEW p \in Claims(k), Purl(p) \in repos'[k].releases
      PROVE  \/ k \in DOMAIN repos /\ Purl(p) \in repos[k].releases
             \/ Owed(p)' /\ worker[Deps] \notin {"closing", "done"}
  <2>1. CASE k = r
    BY <1>1, <1>4, <1>5, <1>8, <2>1
  <2>2. CASE k # r
    BY <1>1, <1>8, <2>2
  <2> QED BY <2>1, <2>2
<1> HIDE DEF r
<1> QED BY <1>1, <1>3, <1>6, <1>7, <1>8, ReachSlot

(* The other steps of a slot write no row of a repository.                  *)
LEMMA OtherWork ==
  ASSUME Inv, NEW s \in Slots, Work(s), ~BeginCrawl(s), ~UpsertRepoRow(s)
  PROVE  /\ Fail(s) \/ (SameReleases /\ settled \subseteq settled')
         /\ \E state : slots' = [slots EXCEPT ![s] = state] /\ ~Writes(state)
<1>1. ~Writes(Idle)
  BY DEF Writes, Idle
<1>2. Free(s) \/ Go(s, Idle) => \E state : slots' = [slots EXCEPT ![s] = state] /\ ~Writes(state)
  BY <1>1 DEF Free, Go
<1>3. Fail(s) => Free(s)
  BY DEF Fail
<1>4. UNCHANGED repos => SameReleases
  BY DEF SameReleases
<1>5. SyncOpengrants(s) => Fail(s) \/ (Free(s) /\ UNCHANGED <<repos, settled>>)
  BY DEF SyncOpengrants, graph, history
<1>6. DeferRepos(s) \/ EndCrawl(s) => Free(s) /\ UNCHANGED <<repos, settled>>
  BY DEF DeferRepos, EndCrawl, graph, history
<1>7. CommitDeps(s) \/ CrawlRegistry(s) => Free(s) /\ UNCHANGED repos /\ settled \subseteq settled'
  BY DEF CommitDeps, CrawlRegistry, history
<1>8. ASSUME ResolveProject(s)
      PROVE  /\ UNCHANGED <<repos, settled>>
             /\ \E state : slots' = [slots EXCEPT ![s] = state] /\ ~Writes(state)
  <2>0. Job(s).task = "process_project" /\ UNCHANGED <<queue, graph, history>>
    BY <1>8, Zenon DEF ResolveProject
  <2>1. Job(s).task = "process_project" /\ UNCHANGED <<repos, settled>>
    BY <2>0 DEF graph, history
  <2>2. PICK state : Go(s, state) /\ state.job = Job(s)
    BY <1>8, Resolved
  <2> QED BY <2>1, <2>2 DEF Go, Writes
<1>9. ASSUME UpsertProject(s), ~Fail(s)
      PROVE  /\ UNCHANGED <<repos, settled>>
             /\ \E state : slots' = [slots EXCEPT ![s] = state] /\ ~Writes(state)
  <2> DEFINE state == [slots[s] EXCEPT !.pc = "defer"]
  <2>1. /\ slots[s].pc = "write" /\ UNCHANGED <<repos, settled>>
        /\ Go(s, Idle) \/ Go(s, state)
    BY <1>9 DEF UpsertProject, history
  <2>2. state.pc = "defer"
    BY <2>1, Working DEF Pcs, Knows
  <2> HIDE DEF state
  <2>3. ~Writes(state)
    BY <2>2 DEF Writes
  <2> QED BY <1>2, <2>1, <2>3 DEF Go
<1>10. ASSUME AbsorbPackage(s) \/ Associate(s) \/ DeferNext(s)
       PROVE  /\ SameReleases /\ UNCHANGED settled
              /\ \E state : slots' = [slots EXCEPT ![s] = state] /\ ~Writes(state)
  <2> DEFINE rest == FanOut(Job(s).repo, slots[s].packages)
             goes == [slots[s] EXCEPT !.rest = Tail(@)]
             defers == [slots[s] EXCEPT !.pc = "defer", !.rest = rest]
             row == [repos[Job(s).repo] EXCEPT !.project = Job(s).project]
  <2>1. slots[s].pc \in {"absorb", "defer"}
    BY <1>10 DEF AbsorbPackage, Associate, DeferNext
  <2>2. {"pc", "job"} \subseteq DOMAIN slots[s]
    BY <2>1, Working DEF Pcs, Knows
  <2> HIDE DEF rest
  <2>3. goes.pc = slots[s].pc /\ defers.pc = "defer"
    BY <2>2
  <2>4. row.releases = repos[Job(s).repo].releases
    OBVIOUS
  <2>5. AbsorbPackage(s) \/ DeferNext(s) => Go(s, goes) /\ UNCHANGED <<repos, settled>>
    BY DEF AbsorbPackage, DeferNext, graph, history
  <2>6. Associate(s) => Go(s, defers) /\ UNCHANGED settled /\ repos' = [repos EXCEPT ![Job(s).repo] = row]
    BY DEF Associate, history, rest
  <2> HIDE DEF goes, defers, row
  <2>7. ~Writes(goes) /\ ~Writes(defers)
    BY <2>1, <2>3 DEF Writes
  <2>8. repos' = [repos EXCEPT ![Job(s).repo] = row] => SameReleases
    BY <2>4 DEF SameReleases
  <2> QED BY <1>4, <1>10, <2>5, <2>6, <2>7, <2>8 DEF Go
<1>11. ASSUME FetchRequirements(s)
       PROVE  /\ UNCHANGED repos /\ settled \subseteq settled'
              /\ \E state : slots' = [slots EXCEPT ![s] = state] /\ ~Writes(state)
  <2> DEFINE state == [pc |-> "write", job |-> Job(s), rest |-> Requires(Job(s).package), edges |-> {}, new |-> {}]
  <2>1. /\ Job(s).task = "crawl_package_deps" /\ UNCHANGED repos /\ settled \subseteq settled'
        /\ Free(s) \/ Go(s, state)
    BY <1>11 DEF FetchRequirements, graph, history
  <2>2. ~Writes(state)
    BY <2>1 DEF Writes
  <2> HIDE DEF state
  <2> QED BY <1>2, <2>1, <2>2 DEF Go
<1>12. ASSUME VisitRequirement(s), ~Fail(s)
       PROVE  /\ UNCHANGED <<repos, settled>>
              /\ \E state : slots' = [slots EXCEPT ![s] = state] /\ ~Writes(state)
  <2> DEFINE edge(v) == <<Job(s).source, v>>
  <2>1. /\ slots[s].pc = "write" /\ Job(s).task = "crawl_package_deps" /\ UNCHANGED <<repos, settled>>
        /\ \E v, new : Go(s, [slots[s] EXCEPT !.rest = Tail(@), !.new = @ \cup new, !.edges = @ \cup {edge(v)}])
    BY <1>12, VisitMoves, VisitKeeps DEF VisitRequirement
  <2>2. PICK v, new : Go(s, [slots[s] EXCEPT !.rest = Tail(@), !.new = @ \cup new, !.edges = @ \cup {edge(v)}])
    BY <2>1
  <2> DEFINE state == [slots[s] EXCEPT !.rest = Tail(@), !.new = @ \cup new, !.edges = @ \cup {edge(v)}]
  <2>3. {"pc", "job"} \subseteq DOMAIN slots[s] /\ slots[s].job = Job(s)
    BY <2>1, Working DEF Pcs, Knows, Job
  <2> HIDE DEF edge
  <2>4. state.job = Job(s)
    BY <2>3
  <2>5. slots' = [slots EXCEPT ![s] = state]
    BY <2>2 DEF Go
  <2> HIDE DEF state
  <2> QED BY <2>1, <2>4, <2>5 DEF Writes
<1> QED BY <1>2, <1>3, <1>4, <1>5, <1>6, <1>7, <1>8, <1>9, <1>10, <1>11, <1>12 DEF Work

LEMMA WorkReach ==
  ASSUME Inv, OwedInv, ReachInv, NEW s \in Slots, Work(s), faults = 0, faults' = 0
  PROVE  ReachInv'
<1>1. \A p : p[1] \in Systems => Carries(p)
  BY WorkCarries DEF OwedInv
<1>2. CASE BeginCrawl(s)
  BY <1>1, <1>2, BeginReach
<1>3. CASE UpsertRepoRow(s)
  BY <1>1, <1>3, UpsertReach DEF OwedInv
<1>4. CASE ~BeginCrawl(s) /\ ~UpsertRepoRow(s)
  BY <1>1, <1>4, OtherWork, SlotsOnly, ReachFail, ReachQuiet
<1> QED BY <1>2, <1>3, <1>4

LEMMA FetchReach == ASSUME Inv, ReachInv, NEW s \in Slots, Fetch(s) PROVE ReachInv'
<1>1. PICK job : Go(s, [pc |-> "start", job |-> job])
  BY FetchTakes
<1> DEFINE state == [pc |-> "start", job |-> job]
<1>2. slots' = [slots EXCEPT ![s] = state] /\ ~Writes(state)
  BY <1>1 DEF Go, Writes
<1> HIDE DEF state
<1>3. UNCHANGED <<worker, repos, settled>>
  BY DEF Fetch, graph, history
<1> QED BY <1>2, <1>3, FetchCarries, ReachQuiet DEF SameReleases

(* Faults are counted and not forgotten.                                    *)
LEMMA FaultsStay ==
  ASSUME Inv, NEW s \in Slots, Work(s) \/ Fetch(s), faults' = 0
  PROVE  faults = 0
<1>1. faults \in Nat
  BY CrawlConstants DEF CrawlConstants, Inv, Counters
<1>2. \A happens : Fault(happens) => faults = 0
  BY <1>1 DEF Fault
<1>3. BeginCrawl(s) => \E happens : Fault(happens)
  BY DEF BeginCrawl
<1>4. SyncOpengrants(s) => \E happens : Fault(happens)
  BY DEF SyncOpengrants
<1>5. ASSUME ResolveProject(s) PROVE \E happens : Fault(happens)
  <2>1. PICK unavailable, failing, batchFails : Fault(unavailable \cup failing # {} \/ batchFails)
    BY <1>5, Zenon DEF ResolveProject
  <2> QED BY <2>1
<1>6. CrawlRegistry(s) => \E happens : Fault(happens)
  BY DEF CrawlRegistry
<1>7. FetchRequirements(s) => UNCHANGED faults \/ Fault(TRUE)
  BY DEF FetchRequirements
<1>8. UpsertProject(s) \/ DeferRepos(s) \/ UpsertRepoRow(s) \/ AbsorbPackage(s) \/ Associate(s)
        \/ DeferNext(s) \/ EndCrawl(s) \/ CommitDeps(s) \/ Fetch(s) => UNCHANGED faults
  BY DEF UpsertProject, DeferRepos, UpsertRepoRow, AbsorbPackage, Associate, DeferNext, EndCrawl,
         CommitDeps, Fetch
<1>9. VisitRequirement(s) => UNCHANGED faults
  BY DEF VisitRequirement
<1> QED BY <1>2, <1>3, <1>4, <1>5, <1>6, <1>7, <1>8, <1>9 DEF Work

-----------------------------------------------------------------------------
(* The rounds of the worker of the packages.                                *)

(* When the repositories are done and no job waits, what is owed is reached; *)
(* when the slots rest as well, it is settled.                              *)
LEMMA Attained ==
  ASSUME Inv, worker[Root] = "done", ~Pending(Deps), NEW p, Owed(p)
  PROVE  Reached(p)
<1>1. ~InLine(p)
  BY Emptied, RootQueue DEF InLine, Jobs, Pending, Deps
<1>2. ASSUME NEW s \in Slots, WillDefer(slots[s], p) PROVE FALSE
  <2>1. slots[s].pc = "absorb" => QueueOf[s] = Root /\ Busy(s)
    BY Absorbing
  <2>2. slots[s].pc = "defer" /\ slots[s].job.task = "crawl_github_repo" => QueueOf[s] = Root /\ Busy(s)
    BY Working, TaskQueues DEF Pcs, Job
  <2>3. QueueOf[s] = Root /\ Busy(s)
    BY <1>2, <2>1, <2>2 DEF WillDefer
  <2> QED BY <2>3, Resting DEF Active
<1> QED BY <1>1, <1>2 DEF Owed

LEMMA Settled ==
  ASSUME Inv, AllIdle(Deps), NEW p, Reached(p)
  PROVE  p \in settled
<1> SUFFICES ASSUME NEW s \in Slots, Crawls(slots[s], p) PROVE FALSE
  BY DEF Reached
<1>1. Busy(s)
  BY DEF Crawls, Busy
<1>2. QueueOf[s] = Deps
  BY <1>1, TaskQueues DEF Inv, Runs, JobFits, Crawls, Job, Deps
<1> QED BY <1>1, <1>2 DEF AllIdle, Mine

(* A step that moves no slot and no row.                                    *)
LEMMA ReachStay ==
  ASSUME ReachInv, UNCHANGED <<slots, repos, settled>>, Jobs(Deps) \subseteq Jobs(Deps)',
         \A r \in DOMAIN repos : \A p \in Published(r) :
           /\ worker'[Deps] = "closing" => Reached(p)
           /\ worker'[Deps] = "done" => p \in settled
  PROVE  ReachInv'
<1>1. \A p : (Reached(p) => Reached(p)') /\ (Owed(p) => Owed(p)')
  BY DEF Reached, Owed, InLine
<1>2. \A s \in Slots : WriteOwed(slots[s])'
  BY <1>1 DEF ReachInv, WriteOwed
<1>3. ASSUME NEW r \in DOMAIN repos, NEW p \in Claims(r), Purl(p) \in repos[r].releases
      PROVE  /\ Owed(p)'
             /\ worker'[Deps] = "closing" => Reached(p)'
             /\ worker'[Deps] = "done" => p \in settled
  BY <1>1, <1>3 DEF ReachInv, Published
<1> QED BY <1>2, <1>3 DEF ReachInv, Published

LEMMA RunReach == ASSUME Inv, ReachInv, NEW q \in Queues, Run(q) PROVE ReachInv'
<1>1. UNCHANGED <<slots, repos, settled>> /\ Jobs(Deps)' = Jobs(Deps)
  BY DEF Run, StartWorker, FetchNothing, EndRound, graph, history, Jobs
<1>2. \E state : worker' = [worker EXCEPT ![q] = state]
  BY DEF Run, StartWorker, FetchNothing, EndRound, Turn
<1>3. ASSUME q # Deps PROVE worker'[Deps] = worker[Deps]
  BY <1>2, <1>3
<1>4. ASSUME q = Deps, StartWorker(q)
      PROVE  worker'[Deps] = "fetching" \/ (worker'[Deps] = "done" /\ ~Pending(Deps) /\ AllIdle(Deps) /\ worker[Root] = "done")
  <2>1. /\ worker[Deps] = "waiting" /\ worker[Root] = "done"
        /\ worker' = [worker EXCEPT ![Deps] = IF Pending(Deps) THEN "fetching" ELSE "done"]
    BY <1>4 DEF StartWorker, MayStart, Turn, Deps, Root
  <2>2. AllIdle(Deps)
    BY <2>1, Resting DEF AllIdle, Mine, Active
  <2> QED BY <2>1, <2>2, RootQueue DEF Inv, Counters, Deps
<1>5. ASSUME q = Deps, FetchNothing(q)
      PROVE  worker'[Deps] = "closing" /\ ~Pending(Deps) /\ worker[Root] = "done"
  <2>1. worker[Deps] = "fetching" /\ ~Pending(Deps) /\ worker' = [worker EXCEPT ![Deps] = "closing"]
    BY <1>5 DEF FetchNothing, Turn
  <2> QED BY <2>1, RootQueue DEF Inv, Counters, InOrder, Active, Deps, Root
<1>6. ASSUME q = Deps, EndRound(q)
      PROVE  worker'[Deps] = "fetching" \/ (worker'[Deps] = "done" /\ worker[Deps] = "closing" /\ AllIdle(Deps))
  <2>1. /\ worker[Deps] = "closing" /\ AllIdle(Deps)
        /\ \E state \in {"done", "fetching"} : worker' = [worker EXCEPT ![Deps] = state]
    BY <1>6 DEF EndRound, Turn
  <2> QED BY <2>1, RootQueue DEF Inv, Counters, Deps
<1>7. ASSUME NEW r \in DOMAIN repos, NEW p \in Published(r)
      PROVE  /\ worker'[Deps] = "closing" => Reached(p)
             /\ worker'[Deps] = "done" => p \in settled
  <2>1. /\ Owed(p)
        /\ worker[Deps] = "closing" => Reached(p)
        /\ worker[Deps] = "done" => p \in settled
    BY DEF ReachInv
  <2> QED BY <1>3, <1>4, <1>5, <1>6, <2>1, Attained, Settled DEF Run
<1> QED BY <1>1, <1>7, ReachStay

LEMMA WeekReach == ASSUME Inv, ReachInv, StartWeek \/ EndWeek PROVE ReachInv'
<1>1. UNCHANGED <<slots, repos, settled>>
  BY DEF StartWeek, EndWeek, graph, history
<1>2. Jobs(Deps) \subseteq Jobs(Deps)'
  <2>1. UNCHANGED todo \/ \E selected : Defer(SyncJob(selected))
    BY DEF StartWeek, EndWeek
  <2>2. \A selected : SyncJob(selected).task \in DOMAIN QueueOfTask
    BY TaskQueues DEF SyncJob
  <2>3. UNCHANGED todo => Jobs(Deps)' = Jobs(Deps)
    BY DEF Jobs
  <2> QED BY <2>1, <2>2, <2>3, Deferred, RootQueue DEF Deps
<1>3. worker'[Deps] \in {worker[Deps], "waiting", "skipped"}
  BY RootQueue DEF StartWeek, EndWeek, Deps
<1>4. \A r \in DOMAIN repos : \A p \in Published(r) :
        /\ worker'[Deps] = "closing" => Reached(p)
        /\ worker'[Deps] = "done" => p \in settled
  BY <1>3 DEF ReachInv
<1> QED BY <1>1, <1>2, <1>4, ReachStay

LEMMA ReachNext ==
  ASSUME Inv, OwedInv, [Next]_vars, faults' = 0
  PROVE  ReachInv'
<1>1. faults \in Nat
  BY CrawlConstants DEF CrawlConstants, Inv, Counters
<1>2. ASSUME NEW s \in Slots, Work(s) \/ Fetch(s) PROVE ReachInv'
  BY <1>2, FaultsStay, WorkReach, FetchReach DEF OwedInv
<1>3. ASSUME NEW q \in Queues, Run(q) PROVE ReachInv'
  <2>1. UNCHANGED faults
    BY <1>3 DEF Run, StartWorker, FetchNothing, EndRound
  <2> QED BY <1>3, <2>1, RunReach DEF OwedInv
<1>4. ASSUME NEW q \in Queues, KillWorker(q) PROVE FALSE
  BY <1>1, <1>4 DEF KillWorker, Fault
<1>5. ASSUME StartWeek \/ EndWeek PROVE ReachInv'
  <2>1. UNCHANGED faults
    BY <1>5 DEF StartWeek, EndWeek
  <2> QED BY <1>5, <2>1, WeekReach DEF OwedInv
<1>6. ASSUME UNCHANGED vars PROVE ReachInv'
  <2>1. UNCHANGED <<slots, repos, settled, worker, faults>> /\ Jobs(Deps)' = Jobs(Deps)
    BY <1>6 DEF vars, queue, graph, history, Jobs
  <2> QED BY <2>1, ReachStay DEF OwedInv, ReachInv
<1> QED BY <1>2, <1>3, <1>4, <1>5, <1>6 DEF Next

LEMMA OwedInit == Init => OwedInv
<1> SUFFICES ASSUME Init PROVE OwedInv
  OBVIOUS
<1>1. \A s \in Slots : slots[s] = Idle /\ Fits(slots[s]) /\ ~Writes(slots[s])
  BY IdleFits DEF Init, Writes, Idle
<1>2. \A q \in Queues : Jobs(q) = {}
  BY Emptied DEF Init, Jobs
<1>3. FitInv
  BY <1>1, <1>2 DEF FitInv
<1>4. RootFirst
  BY DEF Init, RootFirst
<1>5. DOMAIN repos = {}
  BY DEF Init
<1>6. ReachInv
  BY <1>1, <1>5 DEF ReachInv, WriteOwed
<1> QED BY <1>3, <1>4, <1>6 DEF OwedInv

(* A worker of the packages that is done has left none behind: each package *)
(* that a repository publishes was crawled, or its crawl failed for good,   *)
(* unless a service failed or a worker was killed (process_queue, and the   *)
(* defers of crawl_github_repo).  A lock that swallows a defer is held by a *)
(* crawl of the same package, and a worker closes its round after a fetch   *)
(* that found nothing, so the bound on the rounds does not matter.          *)
THEOREM EveryPackageReached == Spec => []NothingForgotten
<1>1. Inv /\ ListsInv /\ OwedInv /\ [Next]_vars => OwedInv'
  BY FitNext, RootFirstNext, ReachNext DEF OwedInv
<1>2. OwedInv => NothingForgotten
  BY DEF OwedInv, ReachInv, NothingForgotten, Published, Deps
<1> QED BY <1>1, <1>2, OwedInit, ListsAlways, CrawlInvariant, PTL DEF Spec

==============================================================================
