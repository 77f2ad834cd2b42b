---------------------------- MODULE RegistryCrawl ----------------------------
(***************************************************************************)
(* The registries job of a weekly bootstrap and the metrics job after it:  *)
(* crawl_package_registry (procrastinate/tasks.py) crawls the packages of  *)
(* one repository in one registry (crawlers/base.py), the metrics are      *)
(* recomputed from what is stored (metrics/materialize_criticality.py,     *)
(* metrics/materialize_adoption.py).                                       *)
(*                                                                         *)
(* A package is one transaction at READ COMMITTED: the source repository   *)
(* is read in one step and written, under its row lock, in another;        *)
(* vertices are looked up and then inserted, under their unique key.       *)
(* Edges and vertices that exist are written by single statements, which   *)
(* fail only in a deadlock; version ranges and display names are left out. *)
(***************************************************************************)
EXTENDS RegistryClients, Metrics

CONSTANTS
  Jobs,         \* job -> the packages it crawls, of one repository and registry
  Selections,   \* the sets of jobs that a bootstrap may defer
  Slots,        \* concurrent tasks of the worker
  Repos,
  ProjectOf,    \* repository -> project, or None
  StatusOf,     \* activity_status of each project
  Projects,     \* those without repositories included
  Stars,        \* adoption_stars
  Forks,        \* adoption_forks
  Stored,       \* what earlier runs left: [downloads, releases, externals, edges, scores]
  Faults        \* bound on faults

ASSUME CrawlConstants ==
  /\ Faults \in Nat
  /\ \A j \in DOMAIN Jobs : Jobs[j] \in Seq(Packages) /\ Jobs[j] # <<>>
  /\ Selections \subseteq SUBSET DOMAIN Jobs
  /\ DOMAIN ProjectOf = Repos /\ {ProjectOf[r] : r \in Repos} \subseteq Projects \cup {None}
  /\ StatusOf \in [Projects -> ActivityStatus]
  /\ DOMAIN Stored.downloads = Repos

(* Earlier runs left rows of different tables, edges whose ends exist, and  *)
(* what merge_releases and the metrics compute.                             *)
NamesOf(p) ==
  Dependents(p) \cup UNION {ToSet(crawled.requires) : crawled \in {a \in PackageAnswers[p] : ~a.raised}}
Vertices(found) == Repos \cup found
Counts(map) ==
  /\ IsFiniteSet(DOMAIN map) /\ DOMAIN map \subseteq Packages
  /\ \A p \in DOMAIN map : map[p] \in Nat
SortedOnce(list) ==
  /\ IsList(list)
  /\ \A i, k \in DOMAIN list :
       /\ list[i].date \in Nat
       /\ i < k => list[i].date >= list[k].date
       /\ Key(list[i]) = Key(list[k]) => i = k
Scores == (0..10000) \cup {Unknown}

ASSUME StoredConstants ==
  /\ IsFiniteSet(Stored.edges) /\ Stored.edges \subseteq Vertices(Stored.externals) \X Vertices(Stored.externals)
  /\ Projects \cap Vertices(Stored.externals \cup UNION {NamesOf(p) : p \in Packages}) = {}
  /\ \A r \in Repos : Counts(Stored.downloads[r]) /\ SortedOnce(Stored.releases[r])
  /\ DOMAIN Stored.releases = Repos
  /\ Stored.scores \in [Projects -> Scores]

ASSUME SignalConstants ==
  /\ IsFiniteSet(Repos) /\ Unknown \notin Nat
  /\ Stars \in [Repos -> Nat \cup {Unknown}] /\ Forks \in [Repos -> Nat \cup {Unknown}]

VARIABLES
  stage,        \* "working", "criticality", "adoption", "over"
  jobs,         \* status of each job
  slots,
  downloads,    \* adoption_downloads_by_purl of each repository
  releases,
  externals,    \* vertices of packages
  edges,
  adoption,     \* adoption_downloads of each repository
  criticality,  \* of vertices and projects
  scores,       \* adoption_score of projects
  faults,
  processed,    \* history: packages counted as processed, their repositories, requirements and jobs
  counted,      \* history: the counts of those packages
  overlapped    \* history: repositories two transactions wrote at once

graph == <<downloads, releases, externals, edges>>
metrics == <<adoption, criticality, scores>>
history == <<processed, counted, overlapped>>
vars == <<stage, jobs, slots, graph, metrics, faults, history>>

Idle == [pc |-> "idle"]
Busy(s) == slots[s].pc # "idle"
Over(f, g) == [x \in DOMAIN f \cup DOMAIN g |-> IF x \in DOMAIN f THEN f[x] ELSE g[x]]
Go(s, fields) == slots' = [slots EXCEPT ![s] = Over(fields, slots[s])]
Package(s) == Jobs[slots[s].job][slots[s].at]
Fault == faults < Faults /\ faults' = faults + 1
Open(s) == slots[s].pc \in {"flush", "visit", "insert", "dependents", "commit"}
Members(p) == {r \in Repos : ProjectOf[r] = p}

TypeOK ==
  /\ stage \in {"working", "criticality", "adoption", "over"}
  /\ jobs \in [DOMAIN Jobs -> {"none", "todo", "doing", "succeeded", "failed"}]
  /\ \A s \in Slots : Busy(s) => slots[s].at \in DOMAIN Jobs[slots[s].job]
  /\ \A r \in Repos : Counts(downloads[r]) /\ SortedOnce(releases[r])
  /\ \A e \in edges : {e[1], e[2]} \subseteq Repos \cup externals
  /\ adoption \in [Repos -> Nat \cup {Unknown}]
  /\ scores \in [Projects -> Scores]
  /\ stage = "over" => \A p \in Projects :
       scores[p] = Unknown <=> \A r \in Members(p) : adoption[r] = Unknown /\ {Stars[r], Forks[r]} = {Unknown}
  /\ faults \in 0..Faults

Init ==
  /\ stage = "working"
  /\ \E selected \in Selections : jobs = [j \in DOMAIN Jobs |-> IF j \in selected THEN "todo" ELSE "none"]
  /\ slots = [s \in Slots |-> Idle]
  /\ downloads = Stored.downloads /\ releases = Stored.releases
  /\ externals = Stored.externals /\ edges = Stored.edges
  /\ adoption = [r \in Repos |-> Unknown]
  /\ criticality = [v \in Repos \cup externals \cup Projects |-> 0]
  /\ scores = Stored.scores
  /\ faults = 0
  /\ processed = {} /\ counted = downloads /\ overlapped = {}
-------------------------------------------------------------------------------
(* crawl_package_registry and crawl_and_persist.                            *)

Fetch(s) ==
  /\ stage = "working" /\ ~Busy(s)
  /\ \E j \in DOMAIN Jobs :
       /\ jobs[j] = "todo"
       /\ jobs' = [jobs EXCEPT ![j] = "doing"]
       /\ slots' = [slots EXCEPT ![s] = [pc |-> "fetch", job |-> j, at |-> 1, done |-> 0]]
  /\ UNCHANGED <<stage, graph, metrics, faults, history>>

(* The job raises AllPackagesFailed when it has processed none.             *)
NextPackage(s, done) ==
  LET j == slots[s].job
  IN IF slots[s].at < Len(Jobs[j])
     THEN /\ slots' = [slots EXCEPT ![s] = [pc |-> "fetch", job |-> j, at |-> slots[s].at + 1, done |-> done]]
          /\ UNCHANGED jobs
     ELSE /\ slots' = [slots EXCEPT ![s] = Idle]
          /\ jobs' = [jobs EXCEPT ![j] = IF done = 0 THEN "failed" ELSE "succeeded"]

(* Mutant: what was flushed is not rolled back. *)
KeepFlushed(s) ==
  /\ NextPackage(s, slots[s].done)
  /\ IF Open(s)
     THEN externals' = externals \cup slots[s].new /\ edges' = edges \cup slots[s].links
     ELSE UNCHANGED <<externals, edges>>
  /\ UNCHANGED <<downloads, releases, history>>
FailPackage(s) ==
  /\ NextPackage(s, slots[s].done)
  /\ UNCHANGED <<graph, history>>

FetchPackageOf(s) ==
  /\ slots[s].pc = "fetch"
  /\ \E crawled \in PackageAnswers[Package(s)] :
       /\ IF crawled = FetchPackage(Package(s), "ok", "ok") THEN UNCHANGED faults ELSE Fault
       /\ IF crawled.raised THEN FailPackage(s)
          ELSE Go(s, [pc |-> "load", crawled |-> crawled]) /\ UNCHANGED <<jobs, graph, history>>
  /\ UNCHANGED <<stage, metrics>>
-------------------------------------------------------------------------------
(* _process_package, up to the commit.                                      *)

FindRepoByReleasePurl(p) ==
  {r \in Repos : \E i \in DOMAIN releases[r] : releases[r][i].purl = p}
SourceRepos(s) ==
  IF slots[s].crawled.url \in Repos THEN {slots[s].crawled.url} ELSE FindRepoByReleasePurl(Package(s))

LoadSourceRepo(s) ==
  /\ slots[s].pc = "load"
  /\ IF SourceRepos(s) = {} THEN FailPackage(s)
     ELSE /\ \E r \in SourceRepos(s) :
               Go(s, [pc |-> "flush", repo |-> r, downloads |-> downloads[r], releases |-> releases[r],
                      writes |-> {}, new |-> {}, links |-> {}])
          /\ UNCHANGED <<jobs, graph, history>>
  /\ UNCHANGED <<stage, metrics, faults>>

(* Mutant: the map of the package replaces the map of the repository. *)
OnlyThisDownload(map, p, n) == IF n = None THEN map ELSE [q \in {p} |-> n]
MergeDownload(map, p, n) == IF n = None THEN map ELSE Over([q \in {p} |-> n], map)

PackageReleases(p, crawled) ==
  IF \E i \in DOMAIN crawled.releases : crawled.releases[i].purl = p THEN crawled.releases
  ELSE <<Release(p, crawled.latest, 0)>> \o crawled.releases

Row(s) == [downloads |-> MergeDownload(slots[s].downloads, Package(s), slots[s].crawled.downloads),
           releases |-> MergeReleases(slots[s].releases, PackageReleases(Package(s), slots[s].crawled))]

(* Edges to requirements and from dependents.                              *)
LinksTo(r, names) == [i \in DOMAIN names |-> [name |-> names[i], edge |-> <<r, names[i]>>]]
LinksFrom(r, names) == [i \in DOMAIN names |-> [name |-> names[i], edge |-> <<names[i], r>>]]

(* The flush writes the columns that differ from what was loaded, whatever  *)
(* they hold by now, once no other transaction holds the row.               *)
FlushSourceRepo(s) ==
  /\ slots[s].pc = "flush"
  /\ LET changed == {c \in {"downloads", "releases"} : Row(s)[c] # slots[s][c]}
         r == slots[s].repo
     IN /\ changed # {} => \A t \in Slots \ {s} : ~(Open(t) /\ slots[t].repo = r /\ slots[t].writes # {})
        /\ Go(s, Over(Row(s), [pc |-> "visit", writes |-> changed, asked |-> FALSE,
                               rest |-> LinksTo(r, slots[s].crawled.requires)]))
  /\ UNCHANGED <<stage, jobs, graph, metrics, faults, history>>

Name(s) == Head(slots[s].rest).name
Linked(s) == [pc |-> "visit", links |-> slots[s].links \cup {Head(slots[s].rest).edge}, rest |-> Tail(slots[s].rest)]

(* upsert_external_repo, lookup.                                            *)
VisitPackage(s) ==
  /\ slots[s].pc = "visit"
  /\ CASE slots[s].rest # <<>> /\ Name(s) \in externals \cup slots[s].new -> Go(s, Linked(s))
       [] slots[s].rest # <<>> /\ Name(s) \notin externals \cup slots[s].new -> Go(s, [pc |-> "insert"])
       [] OTHER -> Go(s, [pc |-> IF slots[s].asked THEN "commit" ELSE "dependents"])
  /\ UNCHANGED <<stage, jobs, graph, metrics, faults, history>>

Waits(s, t) == slots[s].pc = "insert" /\ Open(t) /\ Name(s) \in slots[t].new

(* upsert_external_repo, insertion: the key of a vertex that another        *)
(* transaction inserted is waited for, and then violated.                   *)
InsertPackage(s) ==
  /\ slots[s].pc = "insert"
  /\ \A t \in Slots \ {s} : ~Waits(s, t)
  /\ IF Name(s) \in externals THEN FailPackage(s)
     ELSE Go(s, Over([new |-> slots[s].new \cup {Name(s)}], Linked(s))) /\ UNCHANGED <<jobs, graph, history>>
  /\ UNCHANGED <<stage, metrics, faults>>

(* A write to a vertex or an edge that another transaction has visited may  *)
(* wait for the row: it does if that one has changed it.                    *)
Visited(t) == externals \cap UNION {{e[1], e[2]} : e \in slots[t].links}
MayWait(s, t) ==
  \/ Waits(s, t)
  \/ slots[s].pc = "visit" /\ slots[s].rest # <<>> /\ Open(t) /\ Name(s) \in Visited(t)

ResolveDeadlock(s) ==
  /\ \E t \in Slots \ {s} : MayWait(s, t) /\ MayWait(t, s)
  /\ FailPackage(s)
  /\ UNCHANGED <<stage, metrics, faults>>

(* The row of the repository stays locked during the requests.              *)
FetchDependentsOf(s) ==
  /\ slots[s].pc = "dependents"
  /\ \E answer \in DependentsAnswers[Package(s)] :
       /\ IF answer = FetchDependents(Package(s), AllOk) THEN UNCHANGED faults ELSE Fault
       /\ IF answer.raised THEN FailPackage(s)
          ELSE /\ Go(s, [pc |-> "visit", asked |-> TRUE,
                         rest |-> LinksFrom(slots[s].repo, answer.names)])
               /\ UNCHANGED <<jobs, graph, history>>
  /\ UNCHANGED <<stage, metrics>>

Written(s, column, table) ==
  IF column \in slots[s].writes THEN [table EXCEPT ![slots[s].repo] = slots[s][column]] ELSE table

Commit(s) ==
  /\ slots[s].pc = "commit"
  /\ LET p == Package(s)
         r == slots[s].repo
     IN \/ /\ downloads' = Written(s, "downloads", downloads)
           /\ releases' = Written(s, "releases", releases)
           /\ externals' = externals \cup slots[s].new
           /\ edges' = edges \cup slots[s].links
           /\ processed' = processed \cup {<<p, r, ToSet(slots[s].crawled.requires), slots[s].job>>}
           /\ counted' = LET n == slots[s].crawled.downloads
                         IN IF n = None THEN counted ELSE [counted EXCEPT ![r] = Over([q \in {p} |-> n], @)]
           /\ overlapped' = IF \E t \in Slots \ {s} : Open(t) /\ slots[t].repo = r
                            THEN overlapped \cup {r} ELSE overlapped
           /\ NextPackage(s, slots[s].done + 1)
           /\ UNCHANGED faults
        \/ FailPackage(s) /\ Fault
  /\ UNCHANGED <<stage, metrics>>
-------------------------------------------------------------------------------
(* The worker ends when its queue is drained or when it is killed; the      *)
(* metrics are computed in any case (if: always()).                         *)

EndWork ==
  /\ stage = "working"
  /\ \/ /\ \A j \in DOMAIN Jobs : jobs[j] \notin {"todo", "doing"}
        /\ UNCHANGED <<slots, faults>>
     \/ Fault /\ slots' = [s \in Slots |-> Idle]
  /\ stage' = "criticality"
  /\ jobs' = [j \in DOMAIN Jobs |-> IF jobs[j] = "doing" THEN "failed" ELSE jobs[j]]
  /\ UNCHANGED <<graph, metrics, history>>

(* build_dependency_graph, with the attributes that the metrics read.       *)
Activity(r) == IF ProjectOf[r] = None THEN None ELSE StatusOf[ProjectOf[r]]
DependencyGraph ==
  [node |-> Over([r \in Repos |-> [vertex_type |-> "Repo", activity_status |-> Activity(r)]],
                 [v \in externals |-> [vertex_type |-> "ExternalRepo", activity_status |-> None]]),
   edges |-> edges]

MaterializeCriticality ==
  /\ stage = "criticality"
  /\ LET active == ComputeCriticality(ProjectActiveSubgraph(DependencyGraph))
         score == [v \in Repos \cup externals |-> IF v \in DOMAIN active THEN active[v] ELSE 0]
         ofProject == [p \in Projects |->
           IF Members(p) = {} THEN Unknown ELSE MapThenSumSet(LAMBDA r : score[r], Members(p))]
     IN criticality' = Over(score, ofProject)
  /\ stage' = "adoption"
  /\ UNCHANGED <<jobs, slots, graph, adoption, scores, faults, history>>

AggregateRepoDownloads(map) ==
  IF DOMAIN map = {} THEN Unknown ELSE MapThenSumSet(LAMBDA p : map[p], DOMAIN map)

(* Projects without a score are cleared.                                    *)
MaterializeAdoption ==
  /\ stage = "adoption"
  /\ LET total == [r \in Repos |-> AggregateRepoDownloads(downloads[r])]
         composites == RepoComposites(<<total, Stars, Forks>>)
     IN /\ adoption' = total
        /\ scores' = [p \in Projects |-> ProjectScore(composites, Members(p))]
  /\ stage' = "over"
  /\ UNCHANGED <<jobs, slots, graph, criticality, faults, history>>

Next ==
  \/ \E s \in Slots :
       \/ Fetch(s) \/ FetchPackageOf(s) \/ LoadSourceRepo(s) \/ FlushSourceRepo(s) \/ VisitPackage(s)
       \/ InsertPackage(s) \/ ResolveDeadlock(s) \/ FetchDependentsOf(s) \/ Commit(s)
  \/ EndWork \/ MaterializeCriticality \/ MaterializeAdoption

Spec == Init /\ [][Next]_vars
-------------------------------------------------------------------------------
(* Properties.                                                              *)

Killed == stage # "working" /\ faults > 0

(* "A package is counted as processed only if its source Repo can be        *)
(* resolved and all writes commit successfully" (crawl_and_persist): the    *)
(* requirements it was answered are in the graph, no vertex or edge comes   *)
(* from a package that failed, and a job succeeds with the first package it *)
(* processed.                                                               *)
RequiredBy(p, r) == {<<r, n>> : n \in ToSet(FetchPackage(p, "ok", "ok").requires)}
AnsweredFor(x) == {<<x[2], n>> : n \in x[3]}
DependentOn(p, r) == {<<n, r>> : n \in Dependents(p)}
ProcessedIsWritten ==
  /\ edges \subseteq Stored.edges \cup UNION {AnsweredFor(x) \cup DependentOn(x[1], x[2]) : x \in processed}
  /\ \A x \in processed : AnsweredFor(x) \subseteq edges
  /\ faults = 0 => \A x \in processed : RequiredBy(x[1], x[2]) \subseteq edges
  /\ \A v \in externals \ Stored.externals : \E e \in edges : v \in {e[1], e[2]}
  /\ \A j \in DOMAIN Jobs :
       /\ jobs[j] = "succeeded" => \E x \in processed : x[4] = j
       /\ jobs[j] = "failed" /\ ~Killed => \A x \in processed : x[4] # j

(* Adoption is summed over all registries of a repository: unless two       *)
(* transactions wrote it at once, every count that was committed is in.     *)
AdoptionIsWhole ==
  stage = "over" => \A r \in Repos \ overlapped : adoption[r] = AggregateRepoDownloads(counted[r])

(* "each registry package crawl updates only its own PURL key"              *)
(* (implementation-notes.md).                                               *)
DownloadsAreMerged == downloads = counted

(* "Count transitive active dependents" (compute_criticality): a vertex     *)
(* that something active depends on, directly or not, counts all of those.  *)
CriticalityCounts ==
  LET vertices == Repos \cup externals
      closed == {C \in SUBSET vertices : \A e \in edges : e[1] \in C => e[2] \in C}
      DependsOn(u, v) == \A C \in closed : u \in C => v \in C
      leaves == {r \in Repos : Activity(r) \in {"live", "in_dev"} /\ \A v \in vertices : <<v, r>> \notin edges}
      isActive == {v \in vertices : \E r \in leaves : DependsOn(r, v)}
  IN stage \in {"adoption", "over"} =>
       /\ \A v \in vertices :
            criticality[v] = IF v \in isActive
                             THEN Cardinality({u \in isActive \ {v} : DependsOn(u, v)}) ELSE 0
       /\ \A p \in Projects : Members(p) # {} =>
            criticality[p] = MapThenSumSet(LAMBDA r : criticality[r], Members(p))
===============================================================================
