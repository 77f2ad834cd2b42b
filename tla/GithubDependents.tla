--------------------------- MODULE GithubDependents ---------------------------
(***************************************************************************)
(* Collection of the dependents GitHub displays for a tracked repository   *)
(* (pg_atlas/crawlers/github_dependents.py).                               *)
(*                                                                         *)
(* An attempt commits a run row, walks the listing over HTTP for as long   *)
(* as that takes, and applies the snapshot in one transaction under an     *)
(* advisory lock of the source.  Attempts of one source overlap: the       *)
(* queueing lock covers waiting jobs only.  The client of a COMMIT may     *)
(* never learn its outcome, so an attempt whose COMMIT was sent leaves a   *)
(* transaction the server decides on alone, and every exception is         *)
(* reconciled with the run row on a session of its own.                    *)
(***************************************************************************)
EXTENDS DependentsWalk

CONSTANTS
  Attempts,    \* executions of the crawl task
  Sources,     \* tracked repositories
  SourceOf,    \* the repository each attempt crawls
  Dependents,  \* dependent repositories, up to letter case
  Packages,    \* package ids of the selector of a source
  Snapshots,   \* what a walk over the listing may bring home
  NoRun, NoSnapshot

(* A snapshot: the dependents seen, through which packages, and whether the *)
(* listing and the header counts are complete.                              *)
Snapshot == [seen : SUBSET Dependents, packages : [Dependents -> SUBSET Packages],
             listing : BOOLEAN, counts : BOOLEAN]

ASSUME DependentsConstants ==
  /\ SourceOf \in [Attempts -> Sources]
  /\ Snapshots \subseteq Snapshot
  /\ NoRun \notin Attempts
  /\ NoSnapshot \notin Snapshot

VARIABLES
  phase,     \* progress of each attempt, as its process knows it
  lastId,    \* the sequence of run ids
  id,        \* the id of the run of each attempt
  run,       \* the committed status of that run
  snap,      \* the snapshot an attempt has collected
  sent,      \* the transaction the server has yet to commit or to roll back
  holder,    \* the attempt whose transaction holds each source's lock
  seenBy,    \* last_seen_run_id of each observation; NoRun: no such row
  retiredBy, \* retired_by_run_id, set together with retired_at
  packages   \* package_ids

rowVars == <<seenBy, retiredBy, packages>>
vars == <<phase, lastId, id, run, snap, sent, holder, rowVars>>

(* An attempt that is "lost" ended without knowing what became of its run:  *)
(* it could not start it, reconcile it, or was killed.                      *)
Ended == {"processed", "failed", "lost"}
Phase == {"idle", "collecting", "collected", "locked", "superseding",
          "committing", "reconciling"} \cup Ended
Applied == {"complete", "partial"}
RunStatus == {"absent", "running", "failed", "superseded"} \cup Applied

TypeOK ==
  /\ phase \in [Attempts -> Phase]
  /\ lastId \in Nat
  /\ id \in [Attempts -> Nat]
  /\ run \in [Attempts -> RunStatus]
  /\ snap \in [Attempts -> Snapshots \cup {NoSnapshot}]
  /\ sent \in [Attempts -> {"none", "apply", "supersede", "left"}]
  /\ holder \in [Sources -> Attempts \cup {NoRun}]
  /\ seenBy \in [Sources -> [Dependents -> Attempts \cup {NoRun}]]
  /\ retiredBy \in [Sources -> [Dependents -> Attempts \cup {NoRun}]]
  /\ packages \in [Sources -> [Dependents -> SUBSET Packages]]

Init ==
  /\ phase = [a \in Attempts |-> "idle"]
  /\ lastId = 0
  /\ id = [a \in Attempts |-> 0]
  /\ run = [a \in Attempts |-> "absent"]
  /\ snap = [a \in Attempts |-> NoSnapshot]
  /\ sent = [a \in Attempts |-> "none"]
  /\ holder = [s \in Sources |-> NoRun]
  /\ seenBy = [s \in Sources |-> [d \in Dependents |-> NoRun]]
  /\ retiredBy = [s \in Sources |-> [d \in Dependents |-> NoRun]]
  /\ packages = [s \in Sources |-> [d \in Dependents |-> {}]]

-----------------------------------------------------------------------------
Goto(a, label) == phase' = [phase EXCEPT ![a] = label]

(* The end of a's transaction frees the lock of its source if a holds it.   *)
Unlock(a) ==
  holder' = [s \in Sources |-> IF holder[s] = a THEN NoRun ELSE holder[s]]

(* The snapshot of an attempt that no longer applies it is forgotten.       *)
Drop(a) == snap' = [snap EXCEPT ![a] = NoSnapshot]

(* The source does not resolve to exactly one tracked repository, or the    *)
(* run row cannot be committed.                                             *)
ResolveFails(a) ==
  /\ phase[a] = "idle"
  /\ Goto(a, "lost")
  /\ UNCHANGED <<lastId, id, run, snap, sent, holder, rowVars>>

(* The run row is committed before any HTTP.  If the acknowledgement of     *)
(* that commit is lost the exception leaves a running row behind.           *)
StartRun(a) ==
  /\ phase[a] = "idle"
  /\ \E label \in {"collecting", "lost"} : Goto(a, label)
  /\ lastId' = lastId + 1
  /\ id' = [id EXCEPT ![a] = lastId + 1]
  /\ run' = [run EXCEPT ![a] = "running"]
  /\ UNCHANGED <<snap, sent, holder, rowVars>>

Collect(a, sn) ==
  /\ phase[a] = "collecting"
  /\ Goto(a, "collected")
  /\ snap' = [snap EXCEPT ![a] = sn]
  /\ UNCHANGED <<lastId, id, run, sent, holder, rowVars>>

(* Mutant: the lock is not waited for.                                      *)
AcquireWithoutWaiting(a) ==
  /\ phase[a] = "collected"
  /\ holder' = [holder EXCEPT ![SourceOf[a]] = a]
  /\ Goto(a, "locked")
  /\ UNCHANGED <<lastId, id, run, snap, sent, rowVars>>

(* pg_advisory_xact_lock.                                                   *)
AcquireLock(a) ==
  /\ phase[a] = "collected"
  /\ holder[SourceOf[a]] = NoRun
  /\ holder' = [holder EXCEPT ![SourceOf[a]] = a]
  /\ Goto(a, "locked")
  /\ UNCHANGED <<lastId, id, run, snap, sent, rowVars>>

(* Mutant: a newer run that is still collecting counts as well.             *)
StaleByAnyRun(a) ==
  \E b \in Attempts : SourceOf[b] = SourceOf[a] /\ run[b] # "absent" /\ id[b] > id[a]

(* The newest applied run of the source is newer than this one.             *)
Stale(a) ==
  \E b \in Attempts : /\ SourceOf[b] = SourceOf[a]
                      /\ run[b] \in Applied
                      /\ id[b] > id[a]

(* A stale snapshot mutates nothing: the transaction ends, which releases   *)
(* the lock, and _finish_run marks the run in another.                      *)
FindStale(a) ==
  /\ phase[a] = "locked" /\ Stale(a)
  /\ Unlock(a)
  /\ Drop(a)
  /\ Goto(a, "superseding")
  /\ UNCHANGED <<lastId, id, run, sent, rowVars>>

SendSuperseded(a) ==
  /\ phase[a] = "superseding"
  /\ sent' = [sent EXCEPT ![a] = "supersede"]
  /\ Goto(a, "committing")
  /\ UNCHANGED <<lastId, id, run, snap, holder, rowVars>>

(* Every statement of _apply_snapshot has run and COMMIT is sent.  Nobody   *)
(* else writes the source's observations while the lock is held, so their   *)
(* effect is stated once, in Decide.                                        *)
SendApplied(a) ==
  /\ phase[a] = "locked" /\ ~Stale(a)
  /\ sent' = [sent EXCEPT ![a] = "apply"]
  /\ Goto(a, "committing")
  /\ UNCHANGED <<lastId, id, run, snap, holder, rowVars>>

(* Mutants: the row names its source as the run that retired it; every      *)
(* snapshot retires what it did not see.                                    *)
RetiredBySource(a) ==
  [d \in Dependents |->
     IF d \in snap[a].seen THEN NoRun
     ELSE IF /\ snap[a].listing
             /\ seenBy[SourceOf[a]][d] # NoRun /\ retiredBy[SourceOf[a]][d] = NoRun
          THEN SourceOf[a] ELSE retiredBy[SourceOf[a]][d]]

RetiredByAnyListing(a) ==
  [d \in Dependents |->
     IF d \in snap[a].seen THEN NoRun
     ELSE IF seenBy[SourceOf[a]][d] # NoRun /\ retiredBy[SourceOf[a]][d] = NoRun
          THEN a ELSE retiredBy[SourceOf[a]][d]]

(* The upsert un-retires what the snapshot saw; a complete listing retires  *)
(* every row on display that it did not see.                                *)
Retired(a) ==
  [d \in Dependents |->
     IF d \in snap[a].seen THEN NoRun
     ELSE IF /\ snap[a].listing
             /\ seenBy[SourceOf[a]][d] # NoRun /\ retiredBy[SourceOf[a]][d] = NoRun
          THEN a ELSE retiredBy[SourceOf[a]][d]]

Seen(a) ==
  [d \in Dependents |-> IF d \in snap[a].seen THEN a ELSE seenBy[SourceOf[a]][d]]

(* A complete listing replaces the package ids, a partial one adds to them. *)
Repackaged(a) ==
  [d \in Dependents |->
     IF d \notin snap[a].seen THEN packages[SourceOf[a]][d]
     ELSE IF snap[a].listing THEN snap[a].packages[d]
     ELSE packages[SourceOf[a]][d] \cup snap[a].packages[d]]

(* The server commits what was sent.                                        *)
Decide(a) ==
  /\ sent[a] # "none"
  /\ sent' = [sent EXCEPT ![a] = "none"]
  /\ Unlock(a)
  /\ \/ /\ sent[a] = "supersede"
        /\ run' = [run EXCEPT ![a] = "superseded"]
        /\ UNCHANGED rowVars
     \/ /\ sent[a] = "apply"
        /\ run' = [run EXCEPT ![a] = IF snap[a].listing /\ snap[a].counts
                                     THEN "complete" ELSE "partial"]
        /\ seenBy' = [seenBy EXCEPT ![SourceOf[a]] = Seen(a)]
        /\ retiredBy' = [retiredBy EXCEPT ![SourceOf[a]] = Retired(a)]
        /\ packages' = [packages EXCEPT ![SourceOf[a]] = Repackaged(a)]
  /\ UNCHANGED <<phase, lastId, id, snap>>

(* The server rolls back what was sent, or left to it: the connection or    *)
(* the server died.                                                         *)
Abort(a) ==
  /\ sent[a] # "none"
  /\ sent' = [sent EXCEPT ![a] = "none"]
  /\ Unlock(a)
  /\ Drop(a)
  /\ UNCHANGED <<phase, lastId, id, run, rowVars>>

Acknowledged(a) ==
  /\ phase[a] = "committing" /\ sent[a] = "none" /\ run[a] # "running"
  /\ Goto(a, "processed")
  /\ UNCHANGED <<lastId, id, run, snap, sent, holder, rowVars>>

(* The commit raised: it failed, or its acknowledgement is lost.            *)
CommitRaises(a) ==
  /\ phase[a] = "committing"
  /\ Goto(a, "reconciling")
  /\ UNCHANGED <<lastId, id, run, snap, sent, holder, rowVars>>

(* Mutant: the transaction is left open with its lock.                      *)
RaiseWithoutRollback(a) ==
  /\ phase[a] \in {"collecting", "collected", "locked", "superseding"}
  /\ Drop(a)
  /\ Goto(a, "reconciling")
  /\ UNCHANGED <<lastId, id, run, sent, holder, rowVars>>

(* The walk or a statement raised; the transaction, if any, is rolled back, *)
(* or left to the server when the rollback raises as well.                  *)
Raise(a) ==
  /\ phase[a] \in {"collecting", "collected", "locked", "superseding"}
  /\ \/ Unlock(a) /\ UNCHANGED sent
     \/ /\ phase[a] \in {"locked", "superseding"}
        /\ sent' = [sent EXCEPT ![a] = "left"]
        /\ UNCHANGED holder
  /\ Drop(a)
  /\ Goto(a, "reconciling")
  /\ UNCHANGED <<lastId, id, run, rowVars>>

(* Mutants of the reconciliation: the status is read without waiting for    *)
(* the transaction in doubt; the run is failed whatever its status is.      *)
ReconcileAtOnce(a) ==
  /\ phase[a] = "reconciling"
  /\ \/ /\ run[a] = "running"
        /\ run' = [run EXCEPT ![a] = "failed"]
        /\ Goto(a, "failed")
     \/ /\ run[a] # "running"
        /\ Goto(a, "processed")
        /\ UNCHANGED run
  /\ UNCHANGED <<lastId, id, snap, sent, holder, rowVars>>

ReconcileUnconditionally(a) ==
  /\ phase[a] = "reconciling" /\ sent[a] = "none"
  /\ run' = [run EXCEPT ![a] = "failed"]
  /\ Goto(a, "failed")
  /\ UNCHANGED <<lastId, id, snap, sent, holder, rowVars>>

(* _reconcile_failed_run: the conditional UPDATE waits for the transaction  *)
(* in doubt, which holds the run row, and then sees its outcome.  One that  *)
(* was left may not have come to the run row.  Only this fails a run, so    *)
(* one that is not running was applied or superseded.                       *)
Reconcile(a) ==
  /\ phase[a] = "reconciling" /\ sent[a] \in {"none", "left"}
  /\ \/ /\ run[a] = "running"
        /\ run' = [run EXCEPT ![a] = "failed"]
        /\ Goto(a, "failed")
     \/ /\ run[a] # "running"
        /\ Goto(a, "processed")
        /\ UNCHANGED run
  /\ UNCHANGED <<lastId, id, snap, sent, holder, rowVars>>

(* The reconciliation raised, before its UPDATE or after its own commit.    *)
ReconcileRaises(a) ==
  /\ phase[a] = "reconciling"
  /\ Goto(a, "lost")
  /\ \/ UNCHANGED run
     \/ /\ sent[a] \in {"none", "left"} /\ run[a] = "running"
        /\ run' = [run EXCEPT ![a] = "failed"]
  /\ UNCHANGED <<lastId, id, snap, sent, holder, rowVars>>

(* The worker is killed.  An open transaction is rolled back; one whose     *)
(* COMMIT was sent is still decided by the server.                          *)
Crash(a) ==
  /\ phase[a] \notin Ended \cup {"idle"}
  /\ Goto(a, "lost")
  /\ IF phase[a] \in {"committing", "reconciling"}
     THEN UNCHANGED <<snap, holder>>
     ELSE Drop(a) /\ Unlock(a)
  /\ UNCHANGED <<lastId, id, run, sent, rowVars>>

-----------------------------------------------------------------------------
Step(a) ==
  \/ \E sn \in Snapshots : Collect(a, sn)
  \/ AcquireLock(a) \/ FindStale(a) \/ SendSuperseded(a) \/ SendApplied(a)
  \/ Acknowledged(a) \/ Reconcile(a)

Fault(a) == Abort(a) \/ CommitRaises(a) \/ Raise(a) \/ ReconcileRaises(a) \/ Crash(a)

Next == \E a \in Attempts : \/ ResolveFails(a) \/ StartRun(a)
                            \/ Step(a) \/ Decide(a) \/ Fault(a)

Spec == Init /\ [][Next]_vars

(* A running attempt goes on (requests have timeouts and page caps), the    *)
(* server decides what it was sent, and a client learns that its COMMIT was *)
(* rolled back.  An attempt waits for one of these at a time.               *)
Progress(a) ==
  \/ Step(a) \/ Decide(a) \/ Abort(a)
  \/ sent[a] = "none" /\ CommitRaises(a)

Fairness == \A a \in Attempts : WF_vars(Progress(a))

FairSpec == Spec /\ Fairness
-----------------------------------------------------------------------------
(* What the API answers of a source (get_repo_github_dependents), its       *)
(* queries taken at once: the observations, and the runs whose newest dates *)
(* them (observations_as_of).                                               *)
ActiveObservations(s) ==
  {d \in Dependents : seenBy[s][d] # NoRun /\ retiredBy[s][d] = NoRun}
ListingRuns(s) ==
  {a \in Attempts : SourceOf[a] = s /\ run[a] \in Applied /\ snap[a].listing}
-----------------------------------------------------------------------------
(* Properties.                                                              *)

(* An attempt that reports a failure changed nothing, and one that reports  *)
(* success is durable: a lost acknowledgement is never taken for a          *)
(* rollback, nor an overtaken snapshot for an applied one                   *)
(* (_reconcile_failed_run, crawl_and_persist).                              *)
OutcomeIsDurable ==
  \A a \in Attempts :
    /\ phase[a] = "failed" =>
         /\ run[a] = "failed"
         /\ \A s \in Sources, d \in Dependents : a \notin {seenBy[s][d], retiredBy[s][d]}
    /\ phase[a] = "processed" => run[a] \in Applied \cup {"superseded"}

(* A run is superseded only by a newer run of its source that was applied   *)
(* (the run-order guard of _apply_snapshot).                                *)
SupersededIsOlder ==
  \A a \in Attempts : run[a] = "superseded" =>
    \E b \in Attempts : /\ SourceOf[b] = SourceOf[a] /\ run[b] \in Applied
                        /\ id[b] > id[a]

(* What is on display was seen since the newest complete listing, as whose  *)
(* the endpoint dates it, and what is retired was missed by a complete      *)
(* listing newer than the last run that saw it: "an older snapshot must     *)
(* neither resurrect rows a newer complete run retired nor retire rows a    *)
(* newer partial run added" (_apply_snapshot).                              *)
DisplayIsCurrent ==
  \A s \in Sources, d \in Dependents : seenBy[s][d] # NoRun =>
    \/ /\ d \in ActiveObservations(s)
       /\ \A a \in ListingRuns(s) : id[a] <= id[seenBy[s][d]]
    \/ /\ d \notin ActiveObservations(s)
       /\ retiredBy[s][d] \in ListingRuns(s)
       /\ id[retiredBy[s][d]] > id[seenBy[s][d]]

(* A complete listing retires what it lacks: a snapshot that is called      *)
(* complete holds every dependent that any page of any package displays,    *)
(* whatever does not parse and whichever cap is met, and a site that parses *)
(* and fits under the caps gives a complete one (collect_snapshot).  It is  *)
(* about the walk alone, and evaluated before the first attempt.            *)
CompleteIsWhole == (\A a \in Attempts : phase[a] = "idle") => Misjudged = {}

(* "The conditional transition below can never overwrite an applied         *)
(* terminal state" (_reconcile_failed_run), and no run ends twice.          *)
OutcomeIsFinal ==
  [][\A a \in Attempts : run[a] \notin {"absent", "running"} => run'[a] = run[a]]_vars

(* Every attempt comes to an end, however many wait for the same lock and   *)
(* whichever of them die holding it.                                        *)
AttemptsEnd ==
  \A a \in Attempts : phase[a] # "idle" ~> phase[a] \in Ended

(* The observations are those of the applied snapshots in run order.        *)
View == INSTANCE DependentsView WITH
  shown <- [s \in Sources |->
              {id[a] : a \in {b \in Attempts : SourceOf[b] = s /\ run[b] \in Applied}}],
  live <- [s \in Sources |-> ActiveObservations(s)]
ImplementsView == View!Spec
=============================================================================
