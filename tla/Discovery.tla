------------------------------ MODULE Discovery ------------------------------
(***************************************************************************)
(* Which repositories a project has and which packages they publish:       *)
(* GitHub (procrastinate/github.py) and deps.dev (procrastinate/depsdev.py)*)
(* as the tasks see them.  A package is a system and a name.               *)
(***************************************************************************)
EXTENDS Naturals, Sequences, SequencesExt, FiniteSets

CONSTANTS
  OwnerRepos,   \* public repositories of each owner
  Mapped,       \* packages of deps.dev's project mapping, one row per version
  Manifests,    \* manifests of GitHub's dependency graph, sorted by path
  PageSize,     \* manifests on one page of the dependency graph
  Versions,     \* package -> its versions at deps.dev, each [version, default, date]
  Declares,     \* package -> version -> the rows [name, kind] of its requirements
  MaxReleases,  \* _MAX_RELEASE_ENTRIES
  NoName        \* a manifest that names no package

DepsDevSystems == {"PYPI", "NPM", "CARGO", "MAVEN", "GO", "RUBYGEMS", "NUGET"}
RegistrySystems == {"DART", "COMPOSER", "NPM", "CARGO", "PYPI"}
Systems == DepsDevSystems \cup RegistrySystems

(* First occurrences, in order.                                             *)
Distinct(seq) ==
  FlattenSeq([i \in DOMAIN seq |-> IF \E j \in 1..(i - 1) : seq[j] = seq[i] THEN <<>> ELSE <<seq[i]>>])

(* The elements of the set, in order.                                       *)
Among(seq, set) == FlattenSeq([i \in DOMAIN seq |-> IF seq[i] \in set THEN <<seq[i]>> ELSE <<>>])

Repos == UNION {OwnerRepos[o] : o \in DOMAIN OwnerRepos}
KnownPackages == DOMAIN Versions

(* Rows, manifests and requirements come in lists; the systems are those of *)
(* _system_enum_to_name and _system_from_manifest_path.                     *)
IsList(list) == list \in Seq(ToSet(list))
ASSUME DiscoveryConstants ==
  /\ PageSize \in Nat \ {0}
  /\ \A r \in Repos :
       /\ IsList(Mapped[r]) /\ \A p \in ToSet(Mapped[r]) : p[1] \in Systems
       /\ IsList(Manifests[r]) /\ \A m \in ToSet(Manifests[r]) : m.system \in Systems
  /\ \A p \in KnownPackages : \A v \in DOMAIN Declares[p] : IsList(Declares[p][v])

(* list_org_repos, fetch_repo_list: repositories that GitHub does not answer*)
(* for, or does not have, are missing; a failed listing is empty and not    *)
(* cached.                                                                  *)
ReposToCrawl(owner, repos, extended, unavailable) ==
  IF owner \notin DOMAIN OwnerRepos THEN {}
  ELSE IF extended \/ repos = <<>>
       THEN IF owner \in unavailable THEN {} ELSE OwnerRepos[owner]
       ELSE (ToSet(repos) \cap Repos) \ unavailable

(* get_project_batch and populate_packages: one package per system and name.*)
(* An error on any page discards the batch, one of a repository its own.    *)
ProjectPackages(repos, batchFails, failing) ==
  [r \in repos |-> IF batchFails \/ r \in failing THEN <<>> ELSE Distinct(Mapped[r])]

(* _manifest_paths_from_graphql: an error on any page discards the pages    *)
(* before it.  pages counts the pages answered.                             *)
Pages(repo) == (Len(Manifests[repo]) + PageSize - 1) \div PageSize
ManifestPaths(repo, pages) ==
  IF pages * PageSize < Len(Manifests[repo]) THEN <<>>
  ELSE Among(Manifests[repo], {m \in ToSet(Manifests[repo]) : m.parseable /\ ~m.skipped})

(* _extract_package_name.  A text is "named", "unnamed" or "malformed";     *)
(* private or versionless npm packages and Cargo manifests without a        *)
(* package section are "unpublished".  Systems without a parser are named   *)
(* after the repository, as are files of those with a fallback.             *)
ExtractPackageName(m, repo) ==
  IF m.system \in {"MAVEN", "RUBYGEMS"} THEN repo
  ELSE IF m.system \in {"NPM", "CARGO"} /\ m.text = "unpublished" THEN NoName
  ELSE IF m.text = "named" THEN m.name
  ELSE IF m.system \in {"NPM", "COMPOSER"} THEN NoName ELSE repo

(* Malformed JSON is a DecodeError, and only ValidationError is caught.     *)
DecodingRaises(m) == m.system \in {"NPM", "COMPOSER"} /\ m.text = "malformed"

(* detect_packages_from_repo, which leaves out unreadable manifests.        *)
ReadManifests(repo, pages, unreadable) ==
  Among(ManifestPaths(repo, pages), ToSet(Manifests[repo]) \ unreadable)
DetectPackages(repo, manifests) ==
  LET name(m) == ExtractPackageName(m, repo)
      found(m) == IF name(m) = NoName THEN <<>> ELSE <<<<m.system, name(m)>>>>
  IN Distinct(FlattenSeq([i \in DOMAIN manifests |-> found(manifests[i])]))

(* get_package raises for packages that deps.dev does not know.  The last   *)
(* version that is marked is the default.                                   *)
DefaultVersions(p) ==
  LET marked == SelectSeq(Versions[p], LAMBDA v : v.default)
  IN IF marked = <<>> THEN {} ELSE {Last(marked).version}

(* _extract_requirements: of each system the fields that hold dependencies  *)
(* at run time; frameworks of NuGet repeat theirs.                          *)
IsRuntime(system, kind) ==
  CASE system = "CARGO" -> kind \notin {"dev", "build"}
    [] system = "MAVEN" -> kind \in {"", "compile", "runtime"}
    [] OTHER -> kind = "runtime"
ExtractRequirements(system, rows) ==
  LET kept(row) == IF IsRuntime(system, row.kind) THEN <<<<system, row.name>>>> ELSE <<>>
      names == FlattenSeq([i \in DOMAIN rows |-> kept(rows[i])])
  IN IF system = "NUGET" THEN Distinct(names) ELSE names

(* get_requirements of the default version, if it has any.                  *)
Requires(p) ==
  LET found == {v \in DefaultVersions(p) : v \in DOMAIN Declares[p]}
  IN IF found = {} THEN <<>>
     ELSE ExtractRequirements(p[1], Declares[p][CHOOSE v \in found : TRUE])

(* The packages of which a repository keeps releases: of all packages that  *)
(* deps.dev answers for together it keeps the newest ones.                  *)
Released(packages, answered) ==
  LET asked == {i \in DOMAIN packages : packages[i] \in answered}
      releases == UNION {{i} \X DOMAIN Versions[packages[i]] : i \in asked}
      date(x) == Versions[packages[x[1]]][x[2]].date
      Before(y, x) == \/ date(y) > date(x)
                      \/ date(y) = date(x) /\ (y[1] < x[1] \/ (y[1] = x[1] /\ y[2] < x[2]))
      kept == {x \in releases : Cardinality({y \in releases : Before(y, x)}) < MaxReleases}
  IN {packages[x[1]] : x \in kept}

(* _partition_package_refs: a package may go both ways.                     *)
DepsDevPackages(packages) == Among(packages, {p \in ToSet(packages) : p[1] \in DepsDevSystems})
RegistryPackages(packages) == Among(packages, {p \in ToSet(packages) : p[1] \in RegistrySystems})

(* The packages a repository may be found to publish, in any crawl.         *)
Claims(r) == ToSet(Mapped[r]) \cup ToSet(DetectPackages(r, ReadManifests(r, Len(Manifests[r]), {})))
==============================================================================
