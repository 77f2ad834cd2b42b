-------------------------------- MODULE GitLog --------------------------------
(***************************************************************************)
(* The git log pipeline: every few days a seed (procrastinate/             *)
(* seed_gitlog.py) selects repositories and defers batches, a worker       *)
(* clones, parses and stores each repository of a batch (gitlog/runtime.py,*)
(* gitlog/persist.py), and the pony factors of the latest seed are         *)
(* recomputed (metrics/materialize_pony.py).                               *)
(*                                                                         *)
(* One step per transaction, except that the statistics of a repository    *)
(* are read contributor by contributor before they are committed at once;  *)
(* the attempt is recorded in a step of its own.                           *)
(* Names of contributors, first and last dates of edges are left out.      *)
(***************************************************************************)
EXTENDS GitLogParser

CONSTANTS
  Repos,         \* repositories with a URL, in the order of their ids
  ProjectOf,     \* their projects
  OutsideUrls,   \* repositories whose URL leaves the clone directory
  Dates,         \* latest commit dates a crawl may have left, 0 for none
  RecentRuns,    \* RECENT_COMMIT_DAYS
  K,             \* GITLOG_DORMANCY_K_RUNS
  BatchSize,     \* GITLOG_BATCH_SIZE
  Slots,         \* concurrent tasks of the worker
  Unset,         \* a pony factor that was never computed
  Runs,          \* bound on runs of the workflow
  Faults         \* bound on faults

ASSUME GitLogConstants ==
  /\ MaxRetries \in Nat /\ K \in Nat \ {0} /\ BatchSize \in Nat \ {0} /\ Runs \in Nat /\ Faults \in Nat
  /\ OutsideUrls \subseteq ToSet(Repos) /\ Dates \subseteq Nat /\ Repos \in Seq(ToSet(Repos))
  /\ \A i, j \in DOMAIN Repos : Repos[i] = Repos[j] => i = j
  /\ \A r \in ToSet(Repos) : \A i \in DOMAIN Commits[r] :
       Commits[r][i].ok => Commits[r][i].time \in Nat
  /\ \A r \in ToSet(Repos) : Commits[r] \in Seq(ToSet(Commits[r]))
  /\ \A r, q \in ToSet(Repos) : ProjectOf[q] # r

RepoIds == ToSet(Repos)
Projects == {ProjectOf[r] : r \in RepoIds}
Idle == [pc |-> "idle"]

VARIABLES
  now,           \* seed runs so far, the clock of the model
  stage,         \* "over", "working" or "materializing"
  todo,          \* batches that wait, with their seed ordinals
  slots,
  dates,         \* latest_commit_date
  visible,       \* repositories that are not private
  contributors,  \* rows, numbered by e-mail
  edges,         \* number_of_commits by contributor row and repository
  artifacts,     \* rows of gitlog_artifacts
  pony,          \* pony_factor of repositories and projects
  faults,        \* faults so far
  terminal,      \* history: repositories that met a terminal failure
  persisted,     \* history: what was committed for which log
  passed         \* history: seed ordinals that passed a repository over

jobs == <<todo, slots>>
statistics == <<dates, contributors, edges>>
history == <<terminal, persisted, passed>>
vars == <<now, stage, jobs, visible, statistics, artifacts, pony, faults, history>>

Busy(s) == slots[s].pc # "idle"
Go(s, state) == slots' = [slots EXCEPT ![s] = state]
Over(f, g) == [x \in DOMAIN f \cup DOMAIN g |-> IF x \in DOMAIN f THEN f[x] ELSE g[x]]
Repo(s) == slots[s].job.repos[slots[s].at]
MayFail == faults < Faults
Fault == MayFail /\ faults' = faults + 1

TypeOK ==
  /\ now \in 0..Runs /\ stage \in {"over", "working", "materializing"}
  /\ \A job \in todo : ToSet(job.repos) \subseteq RepoIds /\ Len(job.repos) \in 1..BatchSize
  /\ \A s \in Slots : Busy(s) => slots[s].at \in DOMAIN slots[s].job.repos
  /\ dates \in [RepoIds -> Nat] /\ visible \subseteq RepoIds
  /\ \A edge \in DOMAIN edges : edge[1] \in contributors /\ edge[2] \in RepoIds
  /\ \A a \in artifacts : a.ordinal \in 1..now
  /\ pony \in [RepoIds \cup Projects -> Nat \cup {Unset}]
  /\ faults \in 0..Faults

Init ==
  /\ now = 0 /\ stage = "over"
  /\ todo = {} /\ slots = [s \in Slots |-> Idle]
  /\ dates \in [RepoIds -> Dates]
  /\ visible = RepoIds
  /\ contributors = {} /\ edges = <<>> /\ artifacts = {}
  /\ pony = [x \in RepoIds \cup Projects |-> Unset]
  /\ faults = 0
  /\ terminal = {} /\ persisted = {} /\ passed = [r \in RepoIds |-> {}]
-------------------------------------------------------------------------------
(* seed_gitlog.                                                             *)

Maximum(S) == CHOOSE x \in S : \A y \in S : y <= x
(* Mutant: the ordinal of the last seed is used again. *)
LastOrdinal == Maximum({a.ordinal : a \in artifacts} \cup {0})
NextOrdinal == 1 + Maximum({a.ordinal : a \in artifacts} \cup {0})

IsRecent(r) == dates[r] # 0 /\ dates[r] + RecentRuns >= now + 1

(* The order of the ids.                                                    *)
Before(q, r) == \E i, j \in DOMAIN Repos : i < j /\ Repos[i] = q /\ Repos[j] = r

(* Rank among the dormant repositories with a date, which is stable; those  *)
(* without one come last.                                                   *)
Older(r, q) == dates[q] > dates[r] \/ (dates[q] = dates[r] /\ Before(q, r))
ComputeDormantCadence(r, dormant) ==
  LET dated == {q \in dormant : dates[q] # 0}
      rank == Cardinality({q \in dated : Older(r, q)})
      last == Cardinality(dated) - 1
  IN CASE r \notin dated -> K
       [] r \in dated /\ last = 0 -> 1
       [] OTHER -> 1 + (rank * (K - 1) + last - 1) \div last

LastSuccess(r) ==
  Maximum({a.ordinal : a \in {x \in artifacts : x.repo = r /\ x.status = "processed"}} \cup {0})

(* Mutant: a repository is due a run late. *)
IsDueLate(r, dormant) ==
  LastSuccess(r) = 0 \/ NextOrdinal - LastSuccess(r) > ComputeDormantCadence(r, dormant)
IsDue(r, dormant) ==
  LastSuccess(r) = 0 \/ NextOrdinal - LastSuccess(r) >= ComputeDormantCadence(r, dormant)

Dormant == {r \in visible : ~IsRecent(r)}
Due == {r \in Dormant : IsDue(r, Dormant)}

(* Rows in the order of their ids.                                          *)
ById(rows) == Ordered(rows, Before)
Scheduled == ById(visible \ Dormant) \o ById(Due)

(* The locks name ordinal, position, first and last repository of a batch:  *)
(* a batch that is still todo under the same lock swallows the new one.     *)
Batches(ids) ==
  {[ordinal |-> NextOrdinal, index |-> i,
    repos |-> SubSeq(ids, (i - 1) * BatchSize + 1, IF i * BatchSize < Len(ids) THEN i * BatchSize ELSE Len(ids))] :
     i \in 1..((Len(ids) + BatchSize - 1) \div BatchSize)}
SameLock(job, other) ==
  /\ job.ordinal = other.ordinal /\ job.index = other.index
  /\ Head(job.repos) = Head(other.repos) /\ Last(job.repos) = Last(other.repos)

SeedGitlogBatches ==
  /\ stage = "over" /\ now < Runs
  /\ now' = now + 1
  /\ todo' = todo \cup {job \in Batches(Scheduled) : \A other \in todo : ~SameLock(job, other)}
  /\ passed' = [r \in RepoIds |->
       IF r \in Dormant \ Due THEN passed[r] \cup {NextOrdinal} ELSE {}]
  /\ stage' = "working"
  /\ UNCHANGED <<slots, visible, statistics, artifacts, pony, faults, terminal, persisted>>
-------------------------------------------------------------------------------
(* process_gitlog_batch.                                                    *)

(* resolve_repos: the repositories of a job in the order of their ids.      *)
ResolveRepos(ids) == ById(ToSet(ids))

Fetch(s) ==
  /\ stage = "working" /\ ~Busy(s)
  /\ \E job \in todo :
       /\ todo' = todo \ {job}
       /\ Go(s, [pc |-> "parse", job |-> [job EXCEPT !.repos = ResolveRepos(@)], at |-> 1, failed |-> {}])
  /\ UNCHANGED <<now, stage, visible, statistics, artifacts, pony, faults, history>>

(* Mutant: a job that raises is put back. *)
FailAgain(s) == Go(s, Idle) /\ todo' = todo \cup {slots[s].job}
(* A job that raises leaves the rest of its batch, its attempt and the      *)
(* marks of terminal failures undone.                                       *)
Fail(s) == Go(s, Idle) /\ UNCHANGED todo

Kept(s) == [job |-> slots[s].job, at |-> slots[s].at, failed |-> slots[s].failed]
Proceed(s, pc, fields) == Go(s, Over(fields, Over([pc |-> pc], Kept(s))))

(* parse_repo_with_raw_output: what it does not catch ends the job.         *)
ParseRepo(s) ==
  /\ slots[s].pc = "parse"
  /\ \/ /\ Repo(s) \in OutsideUrls
        /\ Fail(s) /\ UNCHANGED <<faults, terminal>>
     \/ /\ Repo(s) \notin OutsideUrls
        /\ \E answer \in ParseResults :
             /\ IF answer.ok THEN UNCHANGED faults ELSE Fault
             /\ IF answer.ok
                THEN Proceed(s, "store", [log |-> now])
                ELSE Proceed(s, "audit", [log |-> 0, path |-> 0,
                       failed |-> slots[s].failed \cup (IF IsTerminal(answer) THEN {Repo(s)} ELSE {})])
             /\ terminal' = IF ~answer.ok /\ answer.message = {"not found"}
                            THEN terminal \cup {Repo(s)} ELSE terminal
        /\ UNCHANGED todo
  /\ UNCHANGED <<now, stage, visible, statistics, artifacts, pony, persisted, passed>>

Rows(email) == {c \in contributors : c[1] = email}

(* The reads of persist_repo_result: the date of the repository, then the   *)
(* contributors, those with most commits first, each with its edge.         *)
Read(s, authors, row, known, date) ==
  Proceed(s, IF DOMAIN row = authors THEN "persist" ELSE "load",
    [log |-> slots[s].log, path |-> slots[s].log, row |-> row, known |-> known, date |-> date])

(* store_artifact: the path names the content.  OSError, RuntimeError and   *)
(* ValueError fail the attempt, errors of the storage client the job.       *)
(* Nobody looks at what was stored before the date is read.                 *)
StoreArtifact(s) ==
  /\ slots[s].pc = "store"
  /\ \/ /\ \E authors \in {DOMAIN AggregateContributors(Log(Repo(s), slots[s].log))} :
            Read(s, authors, <<>>, {}, dates[Repo(s)])
        /\ UNCHANGED <<todo, faults>>
     \/ Proceed(s, "audit", [log |-> 0, path |-> 0]) /\ Fault /\ UNCHANGED todo
     \/ Fail(s) /\ Fault
  /\ UNCHANGED <<now, stage, visible, statistics, artifacts, pony, history>>

(* Ties keep the order of the log.                                          *)
Precedes(log, counts, e, f) ==
  \/ counts[e] > counts[f]
  \/ /\ counts[e] = counts[f]
     /\ \E line \in Group(log, e) : \A other \in Group(log, f) : line[1] <= other[1]

(* With several rows for one hash, one of them.                             *)
LoadStatistics(s) ==
  /\ slots[s].pc = "load"
  /\ \E log \in {Log(Repo(s), slots[s].log)} : \E counts \in {AggregateContributors(log)} :
     \E e \in DOMAIN counts \ DOMAIN slots[s].row :
       /\ \A f \in DOMAIN counts \ DOMAIN slots[s].row : Precedes(log, counts, e, f)
       /\ \E c \in IF Rows(e) = {} THEN {Unset} ELSE Rows(e) :
            Read(s, DOMAIN counts, Over([x \in {e} |-> c], slots[s].row),
                 slots[s].known \cup {x \in {e} : <<c, Repo(s)>> \in DOMAIN edges}, slots[s].date)
  /\ UNCHANGED <<now, stage, todo, visible, statistics, artifacts, pony, faults, history>>

(* upsert_contributor: the row that was found, or a new one.                *)
RowOf(s) ==
  [e \in DOMAIN slots[s].row |->
     IF slots[s].row[e] = Unset THEN <<e, Cardinality(Rows(e)) + 1>> ELSE slots[s].row[e]]

(* upsert_contributed_to: counts replace those of the edges that are there; *)
(* the insertion of an edge that appeared meanwhile violates its key.       *)
Contributed(s, counts) ==
  [edge \in {<<RowOf(s)[e], Repo(s)>> : e \in DOMAIN counts} |-> counts[edge[1][1]]]
Conflicts(s, counts) ==
  \E e \in DOMAIN counts \ slots[s].known : <<RowOf(s)[e], Repo(s)>> \in DOMAIN edges

(* The commit of persist_repo_result.  An edge inserted by another job      *)
(* meanwhile, or the database, makes it fail.  After the rollback the       *)
(* repository is expired and the attempt is not recorded.                   *)
PersistStatistics(s) ==
  /\ slots[s].pc = "persist"
  /\ LET r == Repo(s)
         log == Log(r, slots[s].log)
         counts == AggregateContributors(log)
         conflict == Conflicts(s, counts)
     IN \/ /\ ~conflict
           /\ contributors' = contributors \cup {RowOf(s)[e] : e \in DOMAIN counts}
           /\ edges' = Over(Contributed(s, counts), edges)
           /\ dates' = IF LatestCommitDate(log) > slots[s].date
                       THEN [dates EXCEPT ![r] = LatestCommitDate(log)] ELSE dates
           /\ persisted' = persisted \cup {<<r, slots[s].log>>}
           /\ Proceed(s, "audit", [log |-> slots[s].log, path |-> slots[s].path])
           /\ UNCHANGED faults
        \/ /\ IF conflict THEN UNCHANGED faults ELSE Fault
           /\ Proceed(s, "next", <<>>)
           /\ UNCHANGED <<statistics, persisted>>
  /\ UNCHANGED <<now, stage, todo, visible, artifacts, pony, terminal, passed>>

(* Mutant: the status does not depend on the errors. *)
StatusAlways(log) == "processed"
StatusOf(log) == IF log # 0 THEN "processed" ELSE "failed"

(* record_gitlog_attempt: earlier rows lose their paths.                    *)
RecordAttempt(s) ==
  /\ slots[s].pc = "audit"
  /\ LET row == [repo |-> Repo(s), ordinal |-> slots[s].job.ordinal, status |-> StatusOf(slots[s].log),
                 path |-> slots[s].path]
         older == {a \in artifacts : a.repo = Repo(s) /\ slots[s].path # 0}
     IN \/ /\ artifacts' = (artifacts \ older) \cup {[a EXCEPT !.path = 0] : a \in older} \cup {row}
           /\ UNCHANGED faults
        \/ Fault /\ UNCHANGED artifacts
  /\ Proceed(s, "next", <<>>)
  /\ UNCHANGED <<now, stage, todo, visible, statistics, pony, history>>

NextRepo(s) ==
  /\ slots[s].pc = "next"
  /\ IF slots[s].at < Len(slots[s].job.repos)
     THEN /\ Go(s, [slots[s] EXCEPT !.pc = "parse", !.at = @ + 1])
          /\ UNCHANGED visible
     ELSE /\ Go(s, Idle)
          /\ visible' = visible \ slots[s].failed
  /\ UNCHANGED <<now, stage, todo, statistics, artifacts, pony, faults, history>>
-------------------------------------------------------------------------------
(* The workflow: the pony factors are computed however the worker ended.    *)

EndWork ==
  /\ stage = "working"
  /\ \/ /\ todo = {} /\ \A s \in Slots : ~Busy(s)
        /\ UNCHANGED <<slots, faults>>
     \/ /\ Fault                                      \* the worker is killed
        /\ slots' = [s \in Slots |-> Idle]
  /\ stage' = "materializing"
  /\ UNCHANGED <<now, todo, visible, statistics, artifacts, pony, history>>

(* Commits by e-mail, over all rows with that e-mail.                       *)
CountsByEmail(rs) ==
  LET mine == {edge \in DOMAIN edges : edge[2] \in rs}
  IN [e \in {edge[1][1] : edge \in mine} |-> SumFunctionOnSet(edges, {edge \in mine : edge[1][1] = e})]

Members(p) == {r \in RepoIds : ProjectOf[r] = p}

Targets == {a.repo : a \in {x \in artifacts : x.ordinal = NextOrdinal - 1}}

MaterializePony ==
  /\ stage = "materializing"
  /\ LET projects == {ProjectOf[r] : r \in Targets}
     IN pony' = [x \in RepoIds \cup Projects |->
          CASE x \in Targets -> ComputePonyFactor(CountsByEmail({x}))
            [] x \in projects -> ComputePonyFactor(CountsByEmail(Members(x)))
            [] OTHER -> pony[x]]
  /\ stage' = "over"
  /\ UNCHANGED <<now, jobs, visible, statistics, artifacts, faults, history>>

Work(s) ==
  \/ ParseRepo(s) \/ StoreArtifact(s) \/ LoadStatistics(s) \/ PersistStatistics(s)
  \/ RecordAttempt(s) \/ NextRepo(s)

Next ==
  \/ \E s \in Slots : Fetch(s) \/ Work(s)
  \/ SeedGitlogBatches \/ EndWork \/ MaterializePony

Spec == Init /\ [][Next]_vars
Fairness ==
  /\ \A s \in Slots : WF_vars(Fetch(s)) /\ WF_vars(Work(s))
  /\ WF_vars(EndWork) /\ WF_vars(MaterializePony)
FairSpec == Spec /\ Fairness
-------------------------------------------------------------------------------
(* Properties.                                                              *)

(* A processed attempt names a log whose statistics were committed before   *)
(* the audit row, although both are transactions of their own.              *)
ProcessedIsPersisted ==
  \A a \in artifacts : a.status = "processed" =>
    /\ \E p \in persisted : p[1] = a.repo
    /\ a.path # 0 => <<a.repo, a.path>> \in persisted

(* A repository is hidden only after a terminal failure of its own.  Nobody *)
(* makes it public again, so throttling must never hide one.                *)
HiddenIsTerminal == RepoIds \ visible \subseteq terminal

(* "fully dormant repos get cadence k": since the seed whose batch last      *)
(* processed a repository, fewer than K ordinals pass it over before it is  *)
(* scheduled again, although a batch an earlier worker left behind may be   *)
(* processed after seeds that knew nothing of it.                           *)
DormantReturn ==
  \A r \in RepoIds : Cardinality({n \in passed[r] : n > LastSuccess(r)}) < K

(* Without faults, the pony factors after a run are those of the stored     *)
(* counts, of every repository and project, although only the repositories  *)
(* of the latest seed are recomputed: the least number of authors with half *)
(* of the commits.                                                          *)
PonyIsFresh ==
  stage = "over" /\ faults = 0 =>
    \A x \in RepoIds \cup Projects : pony[x] # Unset =>
      LET counts == CountsByEmail(IF x \in RepoIds THEN {x} ELSE Members(x))
      IN pony[x] \in HalfBy(counts) /\ \A n \in HalfBy(counts) : pony[x] <= n

(* Every run of the workflow ends, whatever raises.                         *)
RunsEnd == stage = "working" ~> stage = "over"
===============================================================================
