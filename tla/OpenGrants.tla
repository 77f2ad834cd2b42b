----------------------------- MODULE OpenGrants -----------------------------
(***************************************************************************)
(* The SCF projects of one synchronisation: what OpenGrants answers        *)
(* (procrastinate/opengrants.py), merged, selected and patched by the      *)
(* overrides of the repository (sync_opengrants in procrastinate/tasks.py).*)
(*                                                                         *)
(* A GitHub link is an owner and, maybe, one of its repositories.  Texts,  *)
(* amounts and metadata are left out.                                      *)
(***************************************************************************)
EXTENDS Naturals, Sequences, SequencesExt

CONSTANTS
  Listing,       \* records of /projects, page after page
  Pools,         \* the applications of each grant pool, oldest pool first
  OverrideFiles, \* data/projects/*.yml: fields by canonical id
  MaxRetries,    \* MAX_RETRIES
  None,          \* an absent value
  Invalid        \* text that is not a GitHub URL

(* Responses to one request and its repetitions.  429 and 5xx are retried,  *)
(* other errors raise at once.                                              *)
Responses == [1..MaxRetries -> {"ok", "retryable", "error"}]
GetWithRetry(responses) ==
  \E i \in 1..MaxRetries : responses[i] = "ok" /\ \A h \in 1..(i - 1) : responses[h] = "retryable"

(* A listing is complete or raises: every page must be answered.            *)
PaginatedGet(pages) == \A i \in DOMAIN pages : GetWithRetry(pages[i])

(* What a request for a listing of up to two pages may come to.             *)
Answers == {PaginatedGet(pages) : pages \in UNION {[1..n -> Responses] : n \in 1..2}}

ParseGithubUrl(link) ==
  IF link \in {None, Invalid} THEN [owner |-> None, repos |-> <<>>]
  ELSE [owner |-> link[1], repos |-> IF link[2] = None THEN <<>> ELSE <<link[2]>>]

ActivityStatusFromIntegration(status) ==
  CASE status \in {"Unknown"} -> "non_responsive"
    [] status \in {"Abandoned", "Completed"} -> "discontinued"
    [] status \in {"Mainnet", "Live (on Mainnet)", "Expansion"} -> "live"
    [] OTHER -> "in_dev"

ActivityStatusFromTranche(percent) ==
  IF percent # None /\ percent >= 100 THEN "live" ELSE "in_dev"

(* An application without a project record.                                 *)
MapApplication(app) ==
  LET git == ParseGithubUrl(app.code)
  IN [canonical_id |-> app.project, owner |-> git.owner, repos |-> git.repos,
      category |-> None, status |-> ActivityStatusFromTranche(app.tranche)]

(* The first GitHub entry that is not empty decides, a GitHub URL or not.   *)
ExtractGithubFromSocials(socials) ==
  LET links == SelectSeq(socials, LAMBDA s : s.name = "GitHub" /\ s.value # None)
  IN ParseGithubUrl(IF links = <<>> THEN None ELSE Head(links).value)

(* The latest application's link wins, unless it has none.                  *)
MergeProject(project, apps) ==
  LET code == IF apps # <<>> THEN ParseGithubUrl(Last(apps).code) ELSE ParseGithubUrl(None)
      git == IF code.owner = None THEN ExtractGithubFromSocials(project.socials) ELSE code
  IN [canonical_id |-> project.id, owner |-> git.owner, repos |-> git.repos,
      category |-> project.category, status |-> ActivityStatusFromIntegration(project.integration)]

(* Pools are read in ascending order; one that fails is skipped.            *)
Applications(failed) ==
  FlattenSeq([i \in DOMAIN Pools |-> IF i \in failed THEN <<>> ELSE Pools[i]])

FetchScfProjects(failed) ==
  LET apps == Applications(failed)
      of(id) == SelectSeq(apps, LAMBDA a : a.project = id)
      listed == {Listing[i].id : i \in DOMAIN Listing}
      record(id) == Last(SelectSeq(Listing, LAMBDA p : p.id = id))
      orphans == {apps[i].project : i \in DOMAIN apps} \ listed
  IN {MergeProject(record(id), of(id)) : id \in listed}
     \cup {MapApplication(Last(of(id))) : id \in orphans}

(* A project overridden by two files raises.                                *)
DuplicateOverride ==
  \E i, j \in DOMAIN OverrideFiles : i # j /\ DOMAIN OverrideFiles[i] \cap DOMAIN OverrideFiles[j] # {}
Overrides ==
  [id \in UNION {DOMAIN OverrideFiles[i] : i \in DOMAIN OverrideFiles} |->
     LET file == CHOOSE i \in DOMAIN OverrideFiles : id \in DOMAIN OverrideFiles[i]
     IN OverrideFiles[file][id]]

(* dataclasses.replace and the dict of an override that OpenGrants lacks.   *)
PatchedProject(project, fields) ==
  [f \in DOMAIN project |-> IF f \in DOMAIN fields THEN fields[f] ELSE project[f]]
UnlistedProject(id) ==
  PatchedProject([canonical_id |-> id, owner |-> None, repos |-> <<>>, category |-> None,
                  status |-> "in_dev"], Overrides[id])

(* The projects one sync_opengrants defers; none selected means all.        *)
Wanted(id, selected) == selected = {} \/ id \in selected
ProjectBatch(projects, selected) ==
  LET kept == {p \in projects : Wanted(p.canonical_id, selected)}
      ids == {p.canonical_id : p \in kept}
      patches == {id \in DOMAIN Overrides : Wanted(id, selected)}
  IN {IF p.canonical_id \in patches THEN PatchedProject(p, Overrides[p.canonical_id]) ELSE p :
        p \in kept}
     \cup {UnlistedProject(id) : id \in patches \ ids}

(* Requested ids that neither OpenGrants nor the overrides know raise.      *)
MissingIds(projects, selected) ==
  selected \ ({p.canonical_id : p \in projects} \cup DOMAIN Overrides)
=============================================================================
