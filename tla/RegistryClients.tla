--------------------------- MODULE RegistryClients ---------------------------
(***************************************************************************)
(* What the registry crawlers make of the answers of their registries:     *)
(* the retry loop of crawlers/base.py, and the requests, the tolerated     *)
(* failures and the selections of cargo.py, npm.py, packagist.py,          *)
(* pubdev.py and pypi.py.                                                  *)
(*                                                                         *)
(* A package is what its registry publishes.  URLs are repositories,       *)
(* NoUrl, or addresses that no repository has.                             *)
(***************************************************************************)
EXTENDS Releases, FiniteSets, FiniteSetsExt

CONSTANTS
  Published,      \* package -> [system, urls, versions, latest, downloads, dependents]
  NoUrl,
  None,           \* a count that is not known
  MaxRetries,     \* CRAWLER_MAX_RETRIES
  MaxPages,       \* MAX_DEPENDENT_PAGES, max_pages
  MaxDependents   \* MAX_DEPENDENTS, max_dependents

Systems == {"CARGO", "NPM", "COMPOSER", "DART", "PYPI"}
Packages == DOMAIN Published
System(p) == Published[p].system

(* Versions, each with its requirements, and pages of dependents.  Releases *)
(* of crates without a version are skipped; those of npm have their key.    *)
AreRows(rows) == IsList(rows) /\ \A i \in DOMAIN rows : DOMAIN rows[i] = {"name", "kind"}
IsPublication(x) ==
  /\ x.system \in Systems
  /\ x.downloads \in Nat \cup {None}
  /\ IsList(x.urls) /\ IsList(x.versions) /\ IsList(x.dependents)
  /\ \A i \in DOMAIN x.versions :
       /\ x.versions[i].date \in Nat /\ AreRows(x.versions[i].requires)
       /\ x.system \in {"CARGO", "NPM"} => x.versions[i].version # NoVersion
  /\ x.dependents # <<>> /\ \A i \in DOMAIN x.dependents : AreRows(x.dependents[i])

ASSUME ClientConstants ==
  /\ MaxRetries \in Nat \ {0} /\ MaxPages \in Nat \ {0} /\ MaxDependents \in Nat \ {0}
  /\ \A p \in Packages : IsPublication(Published[p])
-------------------------------------------------------------------------------
(* _request_with_retry.                                                     *)

(* "broken" is a lost connection, or a body that is not JSON; "misshapen" a *)
(* JSON object that lacks what is expected.                                 *)
Attempts == {"200", "timeout", "404", "429", "5xx", "4xx", "2xx", "broken", "misshapen"}

Errors == [a \in Attempts |->
  CASE a = "200" -> "ok" [] a \in {"timeout", "broken", "misshapen"} -> a [] OTHER -> "status"]

Ends(attempts, i) ==
  \/ attempts[i] \in {"200", "404", "4xx", "broken", "misshapen"}
  \/ attempts[i] \in {"timeout", "5xx"} /\ i = MaxRetries

(* When every attempt was throttled, an earlier timeout or server error is  *)
(* raised, or ExhaustedRetries.                                             *)
RequestWithRetry(attempts) ==
  LET ends == {i \in DOMAIN attempts : Ends(attempts, i)}
      raised == {i \in DOMAIN attempts : attempts[i] \in {"timeout", "5xx"}}
  IN IF ends # {} THEN Errors[attempts[Min(ends)]]
     ELSE IF raised # {} THEN Errors[attempts[Max(raised)]]
     ELSE "exhausted"

Results == {RequestWithRetry(attempts) : attempts \in [1..MaxRetries -> Attempts]}

(* What the crawlers catch around a request they can do without.            *)
Caught == {"status", "timeout", "exhausted"}

(* A misshapen body is decoded as an empty one.                             *)
Answered(result) == result \in {"ok", "misshapen"}
Raised == [raised |-> TRUE]
-------------------------------------------------------------------------------
(* fetch_package.                                                           *)

ReleasesOf(p) ==
  [i \in DOMAIN Published[p].versions |->
     Release(p, Published[p].versions[i].version, Published[p].versions[i].date)]

(* _select_latest_version of Packagist: the highest stable version, or a    *)
(* branch.                                                                  *)
SelectLatestVersion(p) ==
  LET versions == {Published[p].versions[i].version : i \in DOMAIN Published[p].versions}
      stable == {v \in versions : v[1] = "semver"}
  IN IF stable # {} THEN CHOOSE v \in stable : \A w \in stable : w[2] <= v[2]
     ELSE IF versions # {} THEN CHOOSE v \in versions : \A w \in versions : v[2] <= w[2]
     ELSE NoVersion

(* preferred_latest_version(releases) or the registry's own choice.         *)
PreferredOr(releases, version) ==
  LET preferred == PreferredLatestVersion(releases)
  IN IF preferred = NoVersion THEN version ELSE preferred

(* The kinds of requirements that a crawler drops.                          *)
Dropped == [CARGO |-> {"dev", "build"}, NPM |-> {"dev"}, COMPOSER |-> {"dev", "platform"},
            DART |-> {"dev", "sdk"}, PYPI |-> {"extra", "malformed"}]

Kept(system, rows) ==
  LET Keep(names, d) == IF d.kind \in Dropped[system] THEN names ELSE Append(names, d.name)
  IN FoldLeft(Keep, <<>>, rows)

RequirementsOf(p, version) ==
  LET selected == {i \in DOMAIN Published[p].versions : Published[p].versions[i].version = version}
  IN IF selected = {} THEN <<>> ELSE Kept(System(p), Published[p].versions[Min(selected)].requires)

(* The first field that is set, in the crawler's order, of those that are   *)
(* there.                                                                   *)
FirstUrl(p, fields) ==
  LET set == {i \in fields : Published[p].urls[i] # NoUrl}
  IN IF set = {} THEN NoUrl ELSE Published[p].urls[Min(set)]
RepoUrl(p) == FirstUrl(p, DOMAIN Published[p].urls)

Downloads30d(p, counted) == IF counted = "ok" THEN Published[p].downloads ELSE None

Crawled(p, version, selected, releases, downloads) ==
  [raised |-> FALSE, url |-> RepoUrl(p), downloads |-> downloads, releases |-> releases,
   latest |-> version, requires |-> RequirementsOf(p, selected)]

(* crates.io counts 90 days.                                                *)
ParseCrate(p, selected) ==
  LET releases == SortedReleasesDesc(ReleasesOf(p))
  IN Crawled(p, PreferredOr(releases, Published[p].latest), selected, releases,
             IF Published[p].downloads = None THEN None ELSE Published[p].downloads \div 3)

(* What npm's page of a package may lack, field by field.  Its first address *)
(* is that of the version, the others are of the package.                   *)
NpmFields == {"versions", "dist-tags", "time", "repository"}

NpmReleases(p, missing) ==
  IF "versions" \in missing THEN <<>>
  ELSE IF "time" \in missing THEN [i \in DOMAIN ReleasesOf(p) |-> [ReleasesOf(p)[i] EXCEPT !.date = 0]]
  ELSE ReleasesOf(p)

NpmUrl(p, missing) ==
  FirstUrl(p, {i \in DOMAIN Published[p].urls : (IF i = 1 THEN "versions" ELSE "repository") \notin missing})

ParseNpm(p, missing, counted) ==
  LET releases == SortedReleasesDesc(NpmReleases(p, missing))
      latest == PreferredOr(releases, IF "dist-tags" \in missing THEN NoVersion ELSE Published[p].latest)
      listed == \E i \in DOMAIN releases : releases[i].version = latest
      selected == IF listed THEN latest ELSE IF releases # <<>> THEN releases[1].version ELSE NoVersion
  IN [Crawled(p, latest, selected, releases, Downloads30d(p, counted)) EXCEPT !.url = NpmUrl(p, missing)]

ParsePackagist(p, counted) ==
  Crawled(p, SelectLatestVersion(p), SelectLatestVersion(p), ReleasesOf(p), Downloads30d(p, counted))

(* Releases without a version are skipped.                                  *)
Versioned(list) ==
  LET Keep(kept, release) == IF release.version = NoVersion THEN kept ELSE Append(kept, release)
  IN FoldLeft(Keep, <<>>, list)

ParsePubDev(p, counted) ==
  Crawled(p, Published[p].latest, Published[p].latest, Versioned(ReleasesOf(p)), Downloads30d(p, counted))

ParsePyPI(p, counted) ==
  LET releases == SortedReleasesDesc(ReleasesOf(p))
  IN Crawled(p, PreferredOr(releases, Published[p].latest), Published[p].latest, releases,
             Downloads30d(p, counted))

(* An empty answer for the package itself names none, and no repository     *)
(* will be found for it: the same as no answer.  So is taken one that lacks *)
(* no more than the name.                                                   *)

(* A second request asks for the requirements of a crate, which must come,  *)
(* if it has a version; an empty answer is none.                            *)
FetchCrate(p, metadata, requirements) ==
  IF metadata # "ok" \/ (Published[p].latest # NoVersion /\ ~Answered(requirements)) THEN Raised
  ELSE ParseCrate(p, IF requirements = "ok" THEN Published[p].latest ELSE NoVersion)

(* It asks for the downloads of other packages, which need not.             *)
FetchCounted(metadata, counted, parsed) ==
  IF metadata # "ok" \/ ~(Answered(counted) \/ counted \in Caught) THEN Raised ELSE parsed
FetchNpm(p, metadata, counted) == FetchCounted(metadata, counted, ParseNpm(p, {}, counted))
FetchNpmWithout(p, missing, counted) == FetchCounted("ok", counted, ParseNpm(p, missing, counted))
FetchPackagist(p, metadata, counted) == FetchCounted(metadata, counted, ParsePackagist(p, counted))
FetchPubDev(p, metadata, counted) == FetchCounted(metadata, counted, ParsePubDev(p, counted))
FetchPyPI(p, metadata, counted) == FetchCounted(metadata, counted, ParsePyPI(p, counted))

(* build_registry_crawler.                                                  *)
FetchPackage(p, metadata, second) ==
  CASE System(p) = "CARGO" -> FetchCrate(p, metadata, second)
    [] System(p) = "NPM" -> FetchNpm(p, metadata, second)
    [] System(p) = "COMPOSER" -> FetchPackagist(p, metadata, second)
    [] System(p) = "DART" -> FetchPubDev(p, metadata, second)
    [] System(p) = "PYPI" -> FetchPyPI(p, metadata, second)
-------------------------------------------------------------------------------
(* fetch_dependents.                                                        *)

Joined(pages) == FoldLeft(\o, <<>>, pages)
Listed(p, n) == Joined(SubSeq(Published[p].dependents, 1, n))
NamesIn(rows) == [i \in DOMAIN rows |-> rows[i].name]
Fetched(names) == [raised |-> FALSE, names |-> names]

(* crates.io: each name once, runtime only, never the crate itself.         *)
RuntimeCrates(p, rows) ==
  LET Add(names, d) ==
        IF d.kind = "runtime" /\ d.name \notin ToSet(names) \cup {p} THEN Append(names, d.name) ELSE names
  IN FoldLeft(Add, <<>>, rows)
Crates(p, n) == RuntimeCrates(p, Listed(p, n))
Packaged(p, n) == NamesIn(Listed(p, n))

(* The pages a crawler asks for when all answer: it stops at the last page, *)
(* at its cap of pages and once it has enough names.                        *)
Available(p) == Min({Len(Published[p].dependents), MaxPages})
PagesNeeded(p, names) ==
  LET enough == {n \in 1..Available(p) : Len(names[n]) >= MaxDependents}
  IN IF enough = {} THEN Available(p) ELSE Min(enough)

Failing(answers, asked) == {i \in 1..asked : answers[i] # "ok"}

(* What was listed before a page failed or was empty, which seems the last; *)
(* a broken answer is not caught.                                           *)
FetchCrateDependents(p, answers) ==
  LET asked == PagesNeeded(p, [n \in 1..Available(p) |-> Crates(p, n)])
      failing == Failing(answers, asked)
      names == Crates(p, IF failing = {} THEN asked ELSE Min(failing) - 1)
  IN IF failing # {} /\ answers[Min(failing)] \notin Caught \cup {"misshapen"} THEN Raised
     ELSE Fetched(SubSeq(names, 1, Min({Len(names), MaxDependents})))

(* Any failure loses the package, an empty page seems the last.             *)
FetchPubDevDependents(p, answers) ==
  LET asked == PagesNeeded(p, [n \in 1..Available(p) |-> Packaged(p, n)])
      failing == Failing(answers, asked)
  IN IF failing = {} THEN Fetched(Packaged(p, asked))
     ELSE IF answers[Min(failing)] = "misshapen" THEN Fetched(Packaged(p, Min(failing) - 1))
     ELSE Raised

FetchPackagistDependents(p, answers) ==
  IF answers[1] = "ok" THEN Fetched(Packaged(p, 1))
  ELSE IF answers[1] \in Caught \cup {"misshapen"} THEN Fetched(<<>>) ELSE Raised

FetchDependents(p, answers) ==
  CASE System(p) = "CARGO" -> FetchCrateDependents(p, answers)
    [] System(p) = "DART" -> FetchPubDevDependents(p, answers)
    [] System(p) = "COMPOSER" -> FetchPackagistDependents(p, answers)
    [] OTHER -> Fetched(<<>>)

AllOk == [i \in 1..MaxPages |-> "ok"]
PartialAnswers(p) ==
  IF System(p) = "NPM"
  THEN {FetchNpmWithout(p, missing, counted) : missing \in SUBSET NpmFields, counted \in Results}
  ELSE {}
PackageAnswers ==
  [p \in Packages |-> {FetchPackage(p, first, second) : first, second \in Results} \cup PartialAnswers(p)]
DependentsAnswers ==
  [p \in Packages |-> {FetchDependents(p, answers) : answers \in [1..MaxPages -> Results]}]

(* Who may be named as a dependent.                                         *)
Dependents(p) == ToSet(NamesIn(Listed(p, Len(Published[p].dependents))))
===============================================================================
