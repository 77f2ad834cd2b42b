---------------------------- MODULE SbomPipeline ----------------------------
(***************************************************************************)
(* SBOM ingestion, from the HTTP request to the dependency edges.          *)
(*                                                                         *)
(* A request handler (pg_atlas/ingestion/persist.py) looks for an earlier  *)
(* submission of the same document, commits an audit row and defers a      *)
(* Procrastinate job under the queueing lock "sbom:<repo>".  The jobs of   *)
(* the sbom queue (pg_atlas/procrastinate/tasks.py) run on concurrent      *)
(* worker slots: they re-read the row, replace the repository's outgoing   *)
(* edges, and chain the next submission of the same repository.            *)
(*                                                                         *)
(* Every request inserts at most one row, so a row is named by the request *)
(* that wrote it.  A database transaction is split where another session   *)
(* can observe or disturb it; the isolation level is READ COMMITTED.       *)
(***************************************************************************)
EXTENDS Naturals, FiniteSets

CONSTANTS
  Requests,    \* POST /ingest/sbom calls, and the audit rows they write
  Repos,       \* repository claims
  Contents,    \* SBOM documents up to their semantic hash
  Targets,     \* vertices an SBOM can name as a dependency
  Slots,       \* concurrent task slots of the sbom worker
  ClaimOf,     \* the repository claim of each request
  BodyOf,      \* the document each request carries
  DepsOf,      \* the root dependencies a document declares
  Malformed,   \* documents that are not valid SPDX 2.3
  Losable,     \* documents whose stored artifact the worker may fail to find
  Inferred,    \* root edges left by the package crawls before any SBOM
  SeedLimit,   \* _N_MOST_RECENT of the reprocessing seed script
  MaxSeedRuns, \* bound: runs of the seed script
  NoJob, NoRow

ASSUME SbomConstants ==
  /\ ClaimOf \in [Requests -> Repos]
  /\ BodyOf \in [Requests -> Contents]
  /\ DepsOf \in [Contents -> SUBSET Targets]
  /\ Malformed \subseteq Contents /\ Losable \subseteq Contents
  /\ Inferred \subseteq Targets
  /\ SeedLimit \in Nat /\ MaxSeedRuns \in Nat
  /\ NoRow \notin Requests

Expect == {"pending", "failed"}
Job == [sub : Requests, expect : Expect]

ASSUME NoJobIsNoJob == NoJob \notin Job

VARIABLES
  phase,    \* progress of each request handler
  status,   \* sbom_submissions.status of the row of each request
  at,       \* sbom_submissions.submitted_at, as the rank of the transaction
  clock,    \* the rank of the latest transaction that wrote a submission
  copied,   \* the status a duplicate request read from the earlier row
  missing,  \* rows whose error_detail says "No such file or directory"
  todo,     \* the job in status todo that holds each repository's lock
  pc,       \* progress of each worker slot
  job,      \* the job in status doing on each slot
  snap,     \* the edges the slot's DELETE statement saw
  next,     \* the row the slot's chain query returned
  edges,    \* committed depends_on rows leaving each repository
  applied,  \* history: documents whose graph was committed, per repository
  batch,    \* rows the running seed script has selected and not yet deferred
  seedRuns  \* runs of the seed script so far

requestVars == <<phase, at, clock, copied>>
slotVars == <<pc, job, snap, next>>
graphVars == <<edges, applied>>
seedVars == <<batch, seedRuns>>
vars == <<requestVars, status, missing, todo, slotVars, graphVars, seedVars>>

Status == {"absent", "pending", "processed", "failed"}
Answers == {"queued", "skipped", "invalid", "unavailable", "error"}
Phase == {"idle", "storing", "copying", "deferring", "rejecting"} \cup Answers
SlotPc == {"idle", "load", "apply", "replacing",
           "unreadable", "failing", "chain", "enqueue"}

TypeOK ==
  /\ phase \in [Requests -> Phase]
  /\ status \in [Requests -> Status]
  /\ at \in [Requests -> Nat]
  /\ clock \in Nat
  /\ copied \in [Requests -> Status]
  /\ missing \subseteq Requests
  /\ todo \in [Repos -> Job \cup {NoJob}]
  /\ pc \in [Slots -> SlotPc]
  /\ job \in [Slots -> Job \cup {NoJob}]
  /\ snap \in [Slots -> SUBSET Targets]
  /\ next \in [Slots -> Requests \cup {NoRow}]
  /\ edges \in [Repos -> SUBSET Targets]
  /\ applied \in [Repos -> SUBSET Contents]
  /\ batch \subseteq Requests
  /\ seedRuns \in Nat

Init ==
  /\ phase = [q \in Requests |-> "idle"]
  /\ status = [q \in Requests |-> "absent"]
  /\ at = [q \in Requests |-> 0]
  /\ clock = 0
  /\ copied = [q \in Requests |-> "absent"]
  /\ missing = {}
  /\ todo = [r \in Repos |-> NoJob]
  /\ pc = [w \in Slots |-> "idle"]
  /\ job = [w \in Slots |-> NoJob]
  /\ snap = [w \in Slots |-> {}]
  /\ next = [w \in Slots |-> NoRow]
  /\ edges = [r \in Repos |-> Inferred]
  /\ applied = [r \in Repos |-> {}]
  /\ batch = {}
  /\ seedRuns = 0

-----------------------------------------------------------------------------
(* Procrastinate: the unique index on queueing_lock WHERE status = 'todo'.  *)

(* Deferring under the lock of r inserts j, unless a todo job holds the     *)
(* lock: then AlreadyEnqueued is raised and defer_with_lock swallows it.    *)
DeferWithLock(r, j) ==
  todo' = IF todo[r] = NoJob THEN [todo EXCEPT ![r] = j] ELSE todo

-----------------------------------------------------------------------------
(* The request handler, handle_sbom_submission.                             *)

SameDocument(p, q) == ClaimOf[p] = ClaimOf[q] /\ BodyOf[p] = BodyOf[q]

(* The non-failed rows of the same repository and document; the query has   *)
(* no ORDER BY, so any of them may be the one returned.                     *)
Existing(q) == {p \in Requests : /\ SameDocument(p, q)
                                 /\ status[p] \in {"pending", "processed"}}

(* The document does not validate.  It is stored, and a store that fails    *)
(* gives a 500; a failed row is written when the database allows it, and    *)
(* the caller gets a 422 either way.                                        *)
RejectInvalid(q) ==
  /\ phase[q] = "idle" /\ BodyOf[q] \in Malformed
  /\ \/ /\ phase' = [phase EXCEPT ![q] = "invalid"]
        /\ status' = [status EXCEPT ![q] = "failed"]
        /\ clock' = clock + 1
        /\ at' = [at EXCEPT ![q] = clock + 1]
     \/ /\ \E answer \in {"invalid", "error"} : phase' = [phase EXCEPT ![q] = answer]
        /\ UNCHANGED <<status, clock, at>>
  /\ UNCHANGED <<copied, missing, todo, slotVars, graphVars, seedVars>>

(* The deduplication query.  It opens the transaction, whose start is what  *)
(* now() gives to submitted_at of the row inserted later.                   *)
CheckExisting(q) ==
  /\ phase[q] = "idle" /\ BodyOf[q] \notin Malformed
  /\ clock' = clock + 1
  /\ at' = [at EXCEPT ![q] = clock + 1]
  /\ \/ /\ Existing(q) = {}
        /\ phase' = [phase EXCEPT ![q] = "storing"]
        /\ UNCHANGED copied
     \/ \E p \in Existing(q) :
          /\ phase' = [phase EXCEPT ![q] = "copying"]
          /\ copied' = [copied EXCEPT ![q] = status[p]]
  /\ UNCHANGED <<status, missing, todo, slotVars, graphVars, seedVars>>

(* Mutant: a duplicate is recorded as processed without looking.            *)
InsertDuplicateAsProcessed(q) ==
  /\ phase[q] = "copying"
  /\ phase' = [phase EXCEPT ![q] = "skipped"]
  /\ status' = [status EXCEPT ![q] = "processed"]
  /\ copied' = [copied EXCEPT ![q] = "absent"]
  /\ UNCHANGED <<at, clock, missing, todo, slotVars, graphVars, seedVars>>

(* A duplicate: the earlier row is detached and inserted again, with the    *)
(* status it had when it was read.  No job is deferred.                     *)
InsertDuplicate(q) ==
  /\ phase[q] = "copying"
  /\ phase' = [phase EXCEPT ![q] = "skipped"]
  /\ status' = [status EXCEPT ![q] = copied[q]]
  /\ copied' = [copied EXCEPT ![q] = "absent"]
  /\ UNCHANGED <<at, clock, missing, todo, slotVars, graphVars, seedVars>>

(* Mutant: the row is flushed, not committed, before the defer.             *)
FlushPending(q) ==
  /\ phase[q] = "storing"
  /\ phase' = [phase EXCEPT ![q] = "deferring"]
  /\ UNCHANGED <<at, clock, copied, status, missing, todo, slotVars, graphVars, seedVars>>

(* The artifact is stored and the pending row committed.                    *)
CommitPending(q) ==
  /\ phase[q] = "storing"
  /\ phase' = [phase EXCEPT ![q] = "deferring"]
  /\ status' = [status EXCEPT ![q] = "pending"]
  /\ UNCHANGED <<at, clock, copied, missing, todo, slotVars, graphVars, seedVars>>

(* Storing the artifact or inserting the row raised.  Only a failed insert  *)
(* is followed by an attempt to record a failed row, in a transaction of    *)
(* its own; the caller gets a 500.                                          *)
AdmissionRaises(q) ==
  /\ phase[q] \in {"storing", "copying"}
  /\ phase' = [phase EXCEPT ![q] = "error"]
  /\ copied' = [copied EXCEPT ![q] = "absent"]
  /\ \/ UNCHANGED <<status, clock, at>>
     \/ /\ phase[q] = "storing"
        /\ status' = [status EXCEPT ![q] = "failed"]
        /\ clock' = clock + 1
        /\ at' = [at EXCEPT ![q] = clock + 1]
  /\ UNCHANGED <<missing, todo, slotVars, graphVars, seedVars>>

(* The defer call returned; whether it inserted a job or met the lock, the  *)
(* answer is 202 "queued".                                                  *)
DeferProcessing(q) ==
  /\ phase[q] = "deferring"
  /\ DeferWithLock(ClaimOf[q], [sub |-> q, expect |-> "pending"])
  /\ phase' = [phase EXCEPT ![q] = "queued"]
  /\ UNCHANGED <<at, clock, copied, status, missing, slotVars, graphVars, seedVars>>

(* The defer call raised before it reached the queue.                       *)
DeferRaises(q) ==
  /\ phase[q] = "deferring"
  /\ phase' = [phase EXCEPT ![q] = "rejecting"]
  /\ UNCHANGED <<at, clock, copied, status, missing, todo, slotVars, graphVars, seedVars>>

(* Mutant: the 503 is raised and the row left as it is.                     *)
RejectUnmarked(q) ==
  /\ phase[q] = "rejecting"
  /\ phase' = [phase EXCEPT ![q] = "unavailable"]
  /\ UNCHANGED <<at, clock, copied, status, missing, todo, slotVars, graphVars, seedVars>>

(* _mark_submission_failed, then SbomQueueingError: the caller gets a 503.  *)
RejectUnqueued(q) ==
  /\ phase[q] = "rejecting"
  /\ phase' = [phase EXCEPT ![q] = "unavailable"]
  /\ status' = [status EXCEPT ![q] = "failed"]
  /\ missing' = missing \ {q}
  /\ UNCHANGED <<at, clock, copied, todo, slotVars, graphVars, seedVars>>

-----------------------------------------------------------------------------
(* The worker, process_sbom_submission on slot w.                           *)

Row(w) == job[w].sub
RepoOn(w) == ClaimOf[Row(w)]

Goto(w, label) == pc' = [pc EXCEPT ![w] = label]

(* The slot drops its job: it ended, or the task raised.  A job is never    *)
(* retried, so its final status leaves no trace here.                       *)
Release(w) ==
  /\ pc' = [pc EXCEPT ![w] = "idle"]
  /\ job' = [job EXCEPT ![w] = NoJob]
  /\ snap' = [snap EXCEPT ![w] = {}]
  /\ next' = [next EXCEPT ![w] = NoRow]

(* procrastinate_fetch_job: todo becomes doing, which frees the lock.       *)
Fetch(w, r) ==
  /\ pc[w] = "idle"
  /\ todo[r] # NoJob
  /\ job' = [job EXCEPT ![w] = todo[r]]
  /\ todo' = [todo EXCEPT ![r] = NoJob]
  /\ Goto(w, "load")
  /\ UNCHANGED <<requestVars, status, missing, snap, next, graphVars, seedVars>>

(* The row is read and its status compared with the expected one.           *)
Load(w) ==
  /\ pc[w] = "load"
  /\ \/ /\ status[Row(w)] = "absent"
        /\ Release(w)
     \/ /\ status[Row(w)] # "absent"
        /\ Goto(w, IF status[Row(w)] = job[w].expect THEN "apply" ELSE "chain")
        /\ UNCHANGED <<job, snap, next>>
  /\ UNCHANGED <<requestVars, status, missing, todo, graphVars, seedVars>>

(* FileNotFoundError: the stored artifact is not there.                     *)
ReadFails(w) ==
  /\ pc[w] = "apply"
  /\ BodyOf[Row(w)] \in Losable
  /\ Goto(w, "unreadable")
  /\ UNCHANGED <<requestVars, status, missing, todo, job, snap, next, graphVars, seedVars>>

(* Mutant: the deletion is committed before the new edges are inserted.     *)
DeleteRootEdgesAtOnce(w) ==
  /\ pc[w] = "apply"
  /\ BodyOf[Row(w)] \notin Malformed
  /\ edges' = [edges EXCEPT ![RepoOn(w)] = {}]
  /\ snap' = [snap EXCEPT ![w] = edges[RepoOn(w)]]
  /\ Goto(w, "replacing")
  /\ UNCHANGED <<requestVars, status, missing, todo, job, next, applied, seedVars>>

(* DELETE FROM depends_on WHERE in_vertex_id = repo: it removes the rows    *)
(* committed when the statement starts.                                     *)
DeleteRootEdges(w) ==
  /\ pc[w] = "apply"
  /\ BodyOf[Row(w)] \notin Malformed
  /\ snap' = [snap EXCEPT ![w] = edges[RepoOn(w)]]
  /\ Goto(w, "replacing")
  /\ UNCHANGED <<requestVars, status, missing, todo, job, next, graphVars, seedVars>>

(* Mutant: nothing is deleted, so every earlier edge survives.              *)
UnseenWithoutDelete(w) == edges[RepoOn(w)] \ DepsOf[BodyOf[Row(w)]]

(* What a concurrent transaction committed since that statement.            *)
Unseen(w) == edges[RepoOn(w)] \ snap[w]

(* The INSERTs, the status update and the commit.                           *)
CommitGraph(w) ==
  /\ pc[w] = "replacing"
  /\ Unseen(w) \cap DepsOf[BodyOf[Row(w)]] = {}
  /\ edges' = [edges EXCEPT ![RepoOn(w)] = Unseen(w) \cup DepsOf[BodyOf[Row(w)]]]
  /\ applied' = [applied EXCEPT ![RepoOn(w)] = @ \cup {BodyOf[Row(w)]}]
  /\ status' = [status EXCEPT ![Row(w)] = "processed"]
  /\ missing' = missing \ {Row(w)}
  /\ snap' = [snap EXCEPT ![w] = {}]
  /\ Goto(w, "chain")
  /\ UNCHANGED <<requestVars, todo, job, next, seedVars>>

(* The INSERTs meet the primary key of an edge committed meanwhile, or the  *)
(* transaction raises for any other reason: it is rolled back.              *)
ApplyRaises(w) ==
  /\ pc[w] \in {"apply", "replacing"}
  /\ snap' = [snap EXCEPT ![w] = {}]
  /\ Goto(w, "failing")
  /\ UNCHANGED <<requestVars, status, missing, todo, job, next, graphVars, seedVars>>

(* Mutant: the failure is rolled back and not recorded.                     *)
LeaveUnmarked(w) ==
  /\ pc[w] \in {"unreadable", "failing"}
  /\ Goto(w, "chain")
  /\ UNCHANGED <<requestVars, status, missing, todo, job, snap, next, graphVars, seedVars>>

(* _mark_submission_failed commits whatever the row's status is by now.     *)
MarkFailed(w) ==
  /\ pc[w] \in {"unreadable", "failing"}
  /\ status' = [status EXCEPT ![Row(w)] = "failed"]
  /\ missing' = IF pc[w] = "unreadable" THEN missing \cup {Row(w)} ELSE missing \ {Row(w)}
  /\ Goto(w, "chain")
  /\ UNCHANGED <<requestVars, todo, job, snap, next, graphVars, seedVars>>

(* Mutants: only later submissions are chained; every row of the            *)
(* repository is; the rows of every repository are.                         *)
LaterCandidates(w) ==
  {q \in Requests : /\ ClaimOf[q] = RepoOn(w)
                    /\ status[q] = job[w].expect
                    /\ at[q] > at[Row(w)]}

EveryRow(w) ==
  {q \in Requests : ClaimOf[q] = RepoOn(w) /\ status[q] # "absent"}

CandidatesOfAnyRepo(w) ==
  {q \in Requests \ {Row(w)} : status[q] = job[w].expect}

(* Rows of the same repository in the status this job selects.              *)
ChainCandidates(w) ==
  {q \in Requests : /\ ClaimOf[q] = RepoOn(w)
                    /\ status[q] = job[w].expect
                    /\ q # Row(w)}

(* Mutant: the early return on an empty result is missing.                  *)
ChainSelectUnchecked(w) ==
  /\ pc[w] = "chain"
  /\ \/ ChainCandidates(w) = {} /\ UNCHANGED next
     \/ \E q \in ChainCandidates(w) :
          /\ \A p \in ChainCandidates(w) : at[q] <= at[p]
          /\ next' = [next EXCEPT ![w] = q]
  /\ Goto(w, "enqueue")
  /\ UNCHANGED <<requestVars, status, missing, todo, job, snap, graphVars, seedVars>>

ChainSelect(w) ==
  /\ pc[w] = "chain"
  /\ \/ /\ ChainCandidates(w) = {}
        /\ Release(w)
     \/ \E q \in ChainCandidates(w) :
          /\ \A p \in ChainCandidates(w) : at[q] <= at[p]
          /\ next' = [next EXCEPT ![w] = q]
          /\ Goto(w, "enqueue")
          /\ UNCHANGED <<job, snap>>
  /\ UNCHANGED <<requestVars, status, missing, todo, graphVars, seedVars>>

(* The chained defer, and the end of the job.                               *)
ChainDefer(w) ==
  /\ pc[w] = "enqueue"
  /\ DeferWithLock(RepoOn(w), [sub |-> next[w], expect |-> job[w].expect])
  /\ Release(w)
  /\ UNCHANGED <<requestVars, status, missing, graphVars, seedVars>>

-----------------------------------------------------------------------------
(* seed_reprocess_sboms.                                                    *)

Recoverable == {q \in missing : status[q] = "failed"}

(* The newest SeedLimit failed rows whose error is a known one.             *)
SeedSelect ==
  /\ batch = {} /\ Recoverable # {} /\ seedRuns < MaxSeedRuns
  /\ batch' = {q \in Recoverable :
                 Cardinality({p \in Recoverable : at[p] > at[q]}) < SeedLimit}
  /\ seedRuns' = seedRuns + 1
  /\ UNCHANGED <<requestVars, status, missing, todo, slotVars, graphVars>>

(* One job per selected row, newest first, under the repository's lock.     *)
SeedDefer(q) ==
  /\ q \in batch /\ \A p \in batch : at[p] <= at[q]
  /\ DeferWithLock(ClaimOf[q], [sub |-> q, expect |-> "failed"])
  /\ batch' = batch \ {q}
  /\ UNCHANGED <<requestVars, status, missing, slotVars, graphVars, seedRuns>>

-----------------------------------------------------------------------------
(* Faults.                                                                  *)

(* The web process dies, or the connection drops, inside a handler.         *)
RequestLost(q) ==
  /\ phase[q] \in {"storing", "copying", "deferring", "rejecting"}
  /\ phase' = [phase EXCEPT ![q] = "error"]
  /\ copied' = [copied EXCEPT ![q] = "absent"]
  /\ UNCHANGED <<at, clock, status, missing, todo, slotVars, graphVars, seedVars>>

(* The worker is killed (its workflow has a time limit) or the task itself  *)
(* raises.  The open transaction is rolled back; mark_stalled_jobs_failed   *)
(* later turns the job from doing to failed, which nothing here reads.      *)
JobLost(w) ==
  /\ pc[w] # "idle"
  /\ Release(w)
  /\ UNCHANGED <<requestVars, status, missing, todo, graphVars, seedVars>>

(* The defer call raises although the job was inserted.                     *)
DeferAckLost(q) ==
  /\ phase[q] = "deferring"
  /\ DeferWithLock(ClaimOf[q], [sub |-> q, expect |-> "pending"])
  /\ phase' = [phase EXCEPT ![q] = "rejecting"]
  /\ UNCHANGED <<at, clock, copied, status, missing, slotVars, graphVars, seedVars>>

-----------------------------------------------------------------------------
RequestStep(q) ==
  \/ RejectInvalid(q) \/ CheckExisting(q)
  \/ InsertDuplicate(q) \/ CommitPending(q) \/ AdmissionRaises(q)
  \/ DeferProcessing(q) \/ DeferRaises(q) \/ RejectUnqueued(q)

JobStep(w) ==
  \/ Load(w) \/ ReadFails(w) \/ DeleteRootEdges(w) \/ CommitGraph(w)
  \/ ApplyRaises(w) \/ MarkFailed(w) \/ ChainSelect(w) \/ ChainDefer(w)

Serve ==
  \/ \E q \in Requests : RequestStep(q)
  \/ \E w \in Slots : JobStep(w) \/ \E r \in Repos : Fetch(w, r)

Seed == SeedSelect \/ \E q \in Requests : SeedDefer(q)

Crash ==
  \/ \E q \in Requests : RequestLost(q)
  \/ \E w \in Slots : JobLost(w)

LoseAck == \E q \in Requests : DeferAckLost(q)

(* A handler that has begun runs to its answer and a slot that holds a job  *)
(* runs it to the end.  Jobs are fetched oldest first and a lock admits one *)
(* todo job, so a job cannot be overtaken forever by other repositories'.   *)
Fairness ==
  /\ \A q \in Requests : WF_vars(phase[q] # "idle" /\ RequestStep(q))
  /\ \A w \in Slots : WF_vars(JobStep(w))
  /\ \A r \in Repos : SF_vars(\E w \in Slots : Fetch(w, r))

(* The deployment as scheduled today: the seed step is commented out in the *)
(* sbom-queue workflow, so no job expects failed rows.                      *)
ServeSpec == Init /\ [][Serve]_vars
FairServeSpec == ServeSpec /\ Fairness
CrashSpec == Init /\ [][Serve \/ Crash]_vars
SeedSpec == Init /\ [][Serve \/ Seed]_vars
FairSeedSpec == SeedSpec /\ Fairness /\ WF_vars(\E q \in Requests : SeedDefer(q))
Next == Serve \/ Seed \/ Crash \/ LoseAck
Spec == Init /\ [][Next]_vars
-----------------------------------------------------------------------------
(* Properties.                                                              *)

(* Something will still look at the pending rows of r: a todo job under its *)
(* lock that selects pending rows, or a running one that has not yet ended. *)
Carried(r) ==
  \/ todo[r] # NoJob /\ todo[r].expect = "pending"
  \/ \E w \in Slots : /\ pc[w] # "idle" /\ RepoOn(w) = r
                      /\ job[w].expect = "pending"

(* No lost wake-up.  A row whose submitter was told "queued" is never left  *)
(* pending with nobody to process it, although its own defer may have been  *)
(* swallowed by the lock: the job it hid behind chains it                   *)
(* (tasks.py:process_sbom_submission).                                      *)
QueuedIsCarried ==
  \A q \in Requests :
    phase[q] = "queued" /\ status[q] = "pending" => Carried(ClaimOf[q])

(* A job never refers to a row that is not committed, and the chain stays   *)
(* within the repository: handle_sbom_submission commits before it defers   *)
(* (persist.py), and the chain query filters on repository_claim.           *)
JobsNameCommittedRows ==
  /\ \A r \in Repos : todo[r] # NoJob =>
       /\ status[todo[r].sub] # "absent"
       /\ ClaimOf[todo[r].sub] = r
  /\ \A w \in Slots : pc[w] # "idle" => status[Row(w)] # "absent"

(* A row is processed only when its own document reached the graph of its   *)
(* repository, also when the status was copied from an earlier row: the     *)
(* edges and the status are one transaction (parse_sbom_and_persist_graph). *)
ProcessedWasApplied ==
  \A q \in Requests :
    status[q] = "processed" => BodyOf[q] \in applied[ClaimOf[q]]

(* The caller of a 503 finds its row settled, and what did not validate     *)
(* never reaches the graph, whichever job re-reads the failed row           *)
(* (handle_sbom_submission's error paths, parse_sbom_and_persist_graph).    *)
RefusedIsSettled ==
  \A q \in Requests :
    /\ phase[q] = "unavailable" => status[q] \notin {"absent", "pending"}
    /\ BodyOf[q] \in Malformed => /\ status[q] \in {"absent", "failed"}
                                  /\ BodyOf[q] \notin applied[ClaimOf[q]]

(* The root edges of a repository are those of one document that was        *)
(* submitted for it, never a mixture (_replace_root_depends_on_edges:       *)
(* "Deletes every existing outgoing edge for the submitting repo and        *)
(* re-inserts the full set declared in the current SBOM").                  *)
RootEdgesOfOneSbom ==
  \A r \in Repos :
    applied[r] # {} => \E c \in applied[r] : edges[r] = DepsOf[c]

(* No edge comes from a document that was not applied: a submission that    *)
(* fails leaves the edges as they were, the first one applied removes what  *)
(* the crawls had inferred, and while a single document was applied the     *)
(* edges are exactly its own (one transaction per submission, persist.py).  *)
EdgesAreDeclared ==
  \A r \in Repos :
    /\ applied[r] = {} => edges[r] = Inferred
    /\ applied[r] # {} => edges[r] \subseteq UNION {DepsOf[c] : c \in applied[r]}
    /\ \A c \in Contents : applied[r] = {c} => edges[r] = DepsOf[c]

(* Every submission answered with "queued" is processed or marked failed.   *)
QueuedIsSettled ==
  \A q \in Requests :
    phase[q] = "queued" /\ status[q] = "pending" ~> status[q] \in {"processed", "failed"}

(* "With wait=False the worker exits once the queue is drained"             *)
(* (worker.py): with finitely many submissions the queue runs dry.          *)
QueueDrains ==
  <>[](/\ \A r \in Repos : todo[r] = NoJob
       /\ \A w \in Slots : pc[w] = "idle")

(* With a single slot the pipeline is the serial ledger, whatever crashes,  *)
(* acknowledgements are lost or seeds run.                                  *)
Ledger == INSTANCE SbomLedger
ImplementsLedger == Ledger!Spec
=============================================================================
