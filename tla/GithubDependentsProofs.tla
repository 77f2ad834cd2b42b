------------------------ MODULE GithubDependentsProofs ------------------------
(***************************************************************************)
(* Theorems about GithubDependents, for any number of attempts, sources,   *)
(* dependents and packages and any set of snapshots; and about the walk    *)
(* that collects a snapshot, at any site.                                  *)
(***************************************************************************)
EXTENDS GithubDependents, ListProofs

(* Run ids are handed out in order and never twice.                         *)
RunInv ==
  /\ \A a \in Attempts :
       /\ id[a] <= lastId
       /\ phase[a] = "idle" => run[a] = "absent" /\ sent[a] = "none"
       /\ run[a] # "absent" => id[a] > 0
  /\ \A a, b \in Attempts :
       run[a] # "absent" /\ run[b] # "absent" /\ id[a] = id[b] => a = b

(* What an attempt has told or will tell agrees with its run.               *)
PhaseInv ==
  \A a \in Attempts :
    /\ phase[a] \in {"collecting", "collected", "locked", "superseding"} =>
         run[a] = "running" /\ sent[a] = "none"
    /\ phase[a] \in {"committing", "reconciling"} =>
         run[a] \in {"running", "superseded"} \cup Applied
    /\ phase[a] = "processed" => run[a] \in {"superseded"} \cup Applied
    /\ phase[a] = "failed" => run[a] = "failed"
    /\ phase[a] \in {"processed", "failed"} => sent[a] \in {"none", "left"}
    /\ sent[a] \in {"apply", "supersede"} => run[a] = "running"
    /\ sent[a] = "left" => run[a] \in {"running", "failed"}
    /\ phase[a] \in {"collected", "locked"} \/ sent[a] = "apply" \/ run[a] \in Applied
         => snap[a] \in Snapshots

(* A transaction that will apply a snapshot holds the lock, and holding it  *)
(* keeps the verdict on the run order valid until the commit.               *)
LockInv ==
  \A a \in Attempts :
    /\ phase[a] = "locked" \/ sent[a] = "apply" => holder[SourceOf[a]] = a
    /\ sent[a] = "apply" => ~Stale(a)
    /\ phase[a] = "superseding" \/ sent[a] = "supersede" \/ run[a] = "superseded"
         => Stale(a)

(* Observations name applied runs of their own source.                      *)
RowsInv ==
  \A s \in Sources, d \in Dependents :
    /\ seenBy[s][d] # NoRun => /\ run[seenBy[s][d]] \in Applied
                               /\ SourceOf[seenBy[s][d]] = s
    /\ retiredBy[s][d] # NoRun => /\ seenBy[s][d] # NoRun
                                  /\ run[retiredBy[s][d]] \in Applied
                                  /\ SourceOf[retiredBy[s][d]] = s

Inv == TypeOK /\ RunInv /\ PhaseInv /\ LockInv /\ RowsInv /\ DisplayIsCurrent

(* Every step but the server's commit.                                      *)
Quiet(a) == ResolveFails(a) \/ StartRun(a) \/ Step(a) \/ Fault(a)

USE DEF ActiveObservations, ListingRuns

-----------------------------------------------------------------------------
(* Types.                                                                   *)

LEMMA InitTyped == Init => TypeOK
BY DependentsConstants DEF Init, TypeOK, Phase, RunStatus

LEMMA QuietTyped ==
  ASSUME TypeOK, NEW a \in Attempts, Quiet(a)
  PROVE  TypeOK'
<1> USE DependentsConstants DEF TypeOK, Phase, Ended, RunStatus, Applied, Goto, rowVars
<1>1. CASE ResolveFails(a)
  BY <1>1 DEF ResolveFails
<1>2. CASE StartRun(a)
  BY <1>2 DEF StartRun
<1>3. CASE \E sn \in Snapshots : Collect(a, sn)
  BY <1>3 DEF Collect
<1>4. CASE AcquireLock(a)
  BY <1>4 DEF AcquireLock
<1>5. CASE FindStale(a)
  BY <1>5 DEF FindStale, Unlock, Drop
<1>6. CASE SendSuperseded(a) \/ SendApplied(a)
  BY <1>6 DEF SendSuperseded, SendApplied
<1>7. CASE Acknowledged(a) \/ CommitRaises(a)
  BY <1>7 DEF Acknowledged, CommitRaises
<1>8. CASE Reconcile(a) \/ ReconcileRaises(a)
  BY <1>8 DEF Reconcile, ReconcileRaises
<1>9. CASE Abort(a)
  BY <1>9 DEF Abort, Unlock, Drop
<1>10. CASE Raise(a)
  BY <1>10 DEF Raise, Unlock, Drop
<1>11. CASE Crash(a)
  BY <1>11, ZenonT(30) DEF Crash, Unlock, Drop
<1> QED
  BY <1>1, <1>2, <1>3, <1>4, <1>5, <1>6, <1>7, <1>8, <1>9, <1>10, <1>11
     DEF Quiet, Step, Fault

LEMMA DecideTyped ==
  ASSUME TypeOK, PhaseInv, NEW a \in Attempts, Decide(a)
  PROVE  TypeOK'
<1> USE DependentsConstants
<1>1. /\ phase' \in [Attempts -> Phase] /\ lastId' \in Nat /\ id' \in [Attempts -> Nat]
      /\ snap' \in [Attempts -> Snapshots \cup {NoSnapshot}]
      /\ sent' \in [Attempts -> {"none", "apply", "supersede", "left"}]
      /\ holder' \in [Sources -> Attempts \cup {NoRun}]
  BY DEF TypeOK, Decide, Unlock
<1>2. run' \in [Attempts -> RunStatus]
  BY DEF TypeOK, Decide, RunStatus, Applied
<1>3. sent[a] = "apply" => snap[a] \in Snapshot
  BY DEF PhaseInv
<1>4. /\ Seen(a) \in [Dependents -> Attempts \cup {NoRun}]
      /\ Retired(a) \in [Dependents -> Attempts \cup {NoRun}]
  BY DEF TypeOK, Seen, Retired
<1>5. sent[a] = "apply" => Repackaged(a) \in [Dependents -> SUBSET Packages]
  BY <1>3 DEF TypeOK, Repackaged, Snapshot
<1>6. /\ seenBy' \in [Sources -> [Dependents -> Attempts \cup {NoRun}]]
      /\ retiredBy' \in [Sources -> [Dependents -> Attempts \cup {NoRun}]]
      /\ packages' \in [Sources -> [Dependents -> SUBSET Packages]]
  <2>1. CASE sent[a] = "supersede"
    BY <2>1 DEF TypeOK, Decide, rowVars
  <2>2. CASE sent[a] = "apply"
    <3>1. /\ seenBy' = [seenBy EXCEPT ![SourceOf[a]] = Seen(a)]
          /\ retiredBy' = [retiredBy EXCEPT ![SourceOf[a]] = Retired(a)]
          /\ packages' = [packages EXCEPT ![SourceOf[a]] = Repackaged(a)]
      BY <2>2 DEF Decide
    <3> QED BY <3>1, <1>4, <1>5, <2>2 DEF TypeOK
  <2> QED BY <2>1, <2>2 DEF TypeOK, Decide
<1> QED BY <1>1, <1>2, <1>6 DEF TypeOK

LEMMA StutterTyped == ASSUME TypeOK, UNCHANGED vars PROVE TypeOK'
BY DEF TypeOK, vars, rowVars

-----------------------------------------------------------------------------
(* Quiet steps.                                                             *)

(* A quiet step touches no observation and neither makes nor unmakes an     *)
(* applied run; a run that exists keeps its id.                             *)
LEMMA QuietFrame ==
  ASSUME TypeOK, RunInv, PhaseInv, NEW a \in Attempts, Quiet(a)
  PROVE  /\ UNCHANGED rowVars
         /\ \A b \in Attempts :
              /\ run'[b] \in Applied <=> run[b] \in Applied
              /\ run[b] # "absent" => id'[b] = id[b]
              /\ run[b] \in Applied => run'[b] = run[b] /\ snap'[b] = snap[b]
              /\ run[b] \notin {"absent", "running"} => run'[b] = run[b]
<1> USE DEF TypeOK, RunInv, PhaseInv, Applied, Ended, Goto
<1>1. CASE ResolveFails(a)
  BY <1>1 DEF ResolveFails
<1>2. CASE StartRun(a)
  BY <1>2 DEF StartRun
<1>3. CASE \E sn \in Snapshots : Collect(a, sn)
  BY <1>3 DEF Collect
<1>4. CASE AcquireLock(a) \/ SendSuperseded(a) \/ SendApplied(a)
  BY <1>4 DEF AcquireLock, SendSuperseded, SendApplied
<1>5. CASE FindStale(a) \/ Raise(a) \/ Abort(a)
  BY <1>5 DEF FindStale, Raise, Abort, Drop
<1>6. CASE Acknowledged(a) \/ CommitRaises(a)
  BY <1>6 DEF Acknowledged, CommitRaises
<1>7. CASE Reconcile(a) \/ ReconcileRaises(a)
  BY <1>7 DEF Reconcile, ReconcileRaises
<1>8. CASE Crash(a)
  <2>1. CASE phase[a] \in {"committing", "reconciling"}
    BY <1>8, <2>1 DEF Crash
  <2>2. CASE phase[a] \notin {"committing", "reconciling"}
    <3>1. run[a] = "running"
      BY <1>8, <2>2 DEF Crash, Phase
    <3> QED BY <1>8, <2>2, <3>1 DEF Crash, Drop
  <2> QED BY <2>1, <2>2
<1> QED
  BY <1>1, <1>2, <1>3, <1>4, <1>5, <1>6, <1>7, <1>8 DEF Quiet, Step, Fault

LEMMA QuietRuns ==
  ASSUME TypeOK, RunInv, PhaseInv, NEW a \in Attempts, Quiet(a)
  PROVE  RunInv'
<1> USE DEF TypeOK, RunInv, Goto
<1>1. CASE ResolveFails(a)
  BY <1>1 DEF ResolveFails
<1>2. CASE StartRun(a)
  BY <1>2 DEF StartRun
<1>3. CASE \E sn \in Snapshots : Collect(a, sn)
  BY <1>3 DEF Collect
<1>4. CASE AcquireLock(a) \/ FindStale(a) \/ Raise(a)
  BY <1>4 DEF AcquireLock, FindStale, Raise
<1>5. CASE SendSuperseded(a) \/ SendApplied(a) \/ Abort(a)
  BY <1>5 DEF SendSuperseded, SendApplied, Abort
<1>6. CASE Acknowledged(a) \/ CommitRaises(a) \/ Crash(a)
  BY <1>6 DEF Acknowledged, CommitRaises, Crash
<1>7. CASE Reconcile(a)
  BY <1>7 DEF Reconcile
<1>8. CASE ReconcileRaises(a)
  <2>1. UNCHANGED run \/ (run[a] = "running" /\ run' = [run EXCEPT ![a] = "failed"])
    BY <1>8 DEF ReconcileRaises
  <2>2. \A b \in Attempts : run'[b] = "absent" <=> run[b] = "absent"
    BY <2>1
  <2>3. UNCHANGED <<id, lastId, sent>> /\ \A b \in Attempts : phase'[b] = "idle" => phase[b] = "idle"
    BY <1>8 DEF ReconcileRaises
  <2> QED BY <2>2, <2>3
<1> QED BY <1>1, <1>2, <1>3, <1>4, <1>5, <1>6, <1>7, <1>8 DEF Quiet, Step, Fault

LEMMA QuietPhases ==
  ASSUME TypeOK, RunInv, PhaseInv, NEW a \in Attempts, Quiet(a)
  PROVE  PhaseInv'
<1> USE DEF TypeOK, RunInv, PhaseInv, Applied, RunStatus, Goto
<1>1. CASE ResolveFails(a)
  BY <1>1 DEF ResolveFails
<1>2. CASE StartRun(a)
  BY <1>2 DEF StartRun
<1>3. CASE \E sn \in Snapshots : Collect(a, sn)
  BY <1>3 DEF Collect
<1>4. CASE AcquireLock(a)
  BY <1>4 DEF AcquireLock
<1>5. CASE FindStale(a) \/ Raise(a)
  BY <1>5 DEF FindStale, Raise, Drop
<1>6. CASE SendSuperseded(a) \/ SendApplied(a)
  BY <1>6 DEF SendSuperseded, SendApplied
<1>7. CASE Acknowledged(a) \/ CommitRaises(a)
  BY <1>7 DEF Acknowledged, CommitRaises
<1>8. CASE Reconcile(a) \/ ReconcileRaises(a)
  BY <1>8 DEF Reconcile, ReconcileRaises
<1>9. CASE Abort(a)
  BY <1>9 DEF Abort, Drop
<1>10. CASE Crash(a)
  <2>1. CASE phase[a] \in {"committing", "reconciling"}
    BY <1>10, <2>1 DEF Crash
  <2>2. CASE phase[a] \notin {"committing", "reconciling"}
    <3>1. run[a] = "running" /\ sent[a] = "none"
      BY <1>10, <2>2 DEF Crash, Phase, Ended
    <3> QED BY <1>10, <2>2, <3>1 DEF Crash, Drop
  <2> QED BY <2>1, <2>2
<1> QED
  BY <1>1, <1>2, <1>3, <1>4, <1>5, <1>6, <1>7, <1>8, <1>9, <1>10
     DEF Quiet, Step, Fault

(* The verdict on the run order depends on applied runs and their ids only. *)
LEMMA StaleKept ==
  ASSUME NEW a \in Attempts, id'[a] = id[a],
         \A b \in Attempts : run[b] \in Applied => run'[b] \in Applied /\ id'[b] = id[b],
         Stale(a)
  PROVE  Stale(a)'
BY DEF Stale

LEMMA FreshKept ==
  ASSUME NEW a \in Attempts, id'[a] = id[a], ~Stale(a),
         \A b \in Attempts : run'[b] \in Applied /\ SourceOf[b] = SourceOf[a]
                             => run[b] \in Applied /\ id'[b] = id[b]
  PROVE  ~Stale(a)'
BY DEF Stale

LEMMA QuietLocks ==
  ASSUME TypeOK, RunInv, PhaseInv, LockInv, NEW a \in Attempts, Quiet(a)
  PROVE  LockInv'
<1> USE DependentsConstants
<1>1. \A b \in Attempts : run[b] # "absent" => Stale(b)' = Stale(b)
  <2> SUFFICES ASSUME NEW b \in Attempts, run[b] # "absent"
               PROVE  Stale(b)' = Stale(b)
    OBVIOUS
  <2>1. \A c \in Attempts : /\ run'[c] \in Applied <=> run[c] \in Applied
                            /\ run[c] # "absent" => id'[c] = id[c]
    BY QuietFrame
  <2> QED BY <2>1 DEF Stale, Applied
<1>2. \A b \in Attempts :
        /\ phase'[b] = "locked" \/ sent'[b] = "apply" => holder'[SourceOf[b]] = b
        /\ sent'[b] = "apply" => run[b] # "absent" /\ ~Stale(b)
        /\ phase'[b] = "superseding" \/ sent'[b] = "supersede" \/ run'[b] = "superseded"
             => run[b] # "absent" /\ Stale(b)
  <2> USE DEF TypeOK, RunInv, PhaseInv, LockInv, Goto
  <2>1. CASE ResolveFails(a)
    BY <2>1 DEF ResolveFails
  <2>2. CASE StartRun(a)
    BY <2>2 DEF StartRun
  <2>3. CASE \E sn \in Snapshots : Collect(a, sn)
    BY <2>3 DEF Collect
  <2>4. CASE AcquireLock(a)
    BY <2>4 DEF AcquireLock
  <2>5. CASE FindStale(a)
    BY <2>5 DEF FindStale, Unlock
  <2>6. CASE Raise(a)
    BY <2>6 DEF Raise, Unlock
  <2>7. CASE SendSuperseded(a) \/ SendApplied(a)
    BY <2>7 DEF SendSuperseded, SendApplied
  <2>8. CASE Acknowledged(a) \/ CommitRaises(a)
    BY <2>8 DEF Acknowledged, CommitRaises
  <2>9. CASE Reconcile(a) \/ ReconcileRaises(a)
    BY <2>9 DEF Reconcile, ReconcileRaises
  <2>10. CASE Abort(a)
    BY <2>10 DEF Abort, Unlock
  <2>11. CASE Crash(a)
    <3>1. CASE phase[a] \in {"committing", "reconciling"}
      BY <2>11, <3>1 DEF Crash
    <3>2. CASE phase[a] \notin {"committing", "reconciling"}
      <4>1. sent[a] = "none"
        BY <2>11, <3>2 DEF Crash, Phase, Ended
      <4> QED BY <2>11, <3>2, <4>1 DEF Crash, Unlock
    <3> QED BY <3>1, <3>2
  <2> QED
    BY <2>1, <2>2, <2>3, <2>4, <2>5, <2>6, <2>7, <2>8, <2>9, <2>10, <2>11
       DEF Quiet, Step, Fault
<1> QED BY <1>1, <1>2 DEF LockInv

LEMMA QuietRows ==
  ASSUME TypeOK, RunInv, PhaseInv, RowsInv, DisplayIsCurrent,
         NEW a \in Attempts, Quiet(a)
  PROVE  RowsInv' /\ DisplayIsCurrent'
<1>1. /\ UNCHANGED rowVars
      /\ \A b \in Attempts :
           /\ run'[b] \in Applied <=> run[b] \in Applied
           /\ run[b] \in Applied => id'[b] = id[b] /\ snap'[b] = snap[b]
  BY QuietFrame DEF Applied
<1>2. \A s \in Sources, d \in Dependents :
        seenBy[s][d] \in Attempts \cup {NoRun} /\ retiredBy[s][d] \in Attempts \cup {NoRun}
  BY DEF TypeOK
<1>3. RowsInv'
  BY <1>1, <1>2 DEF RowsInv, rowVars
<1>4. DisplayIsCurrent'
  BY <1>1, <1>2 DEF RowsInv, DisplayIsCurrent, rowVars
<1> QED BY <1>3, <1>4

-----------------------------------------------------------------------------
(* The server's commit.                                                     *)

LEMMA DecideFrame ==
  ASSUME TypeOK, PhaseInv, NEW a \in Attempts, Decide(a)
  PROVE  /\ UNCHANGED <<phase, lastId, id, snap>>
         /\ run[a] = "running" /\ run'[a] \in {"superseded"} \cup Applied
         /\ run'[a] \in Applied <=> sent[a] = "apply"
         /\ \A b \in Attempts \ {a} : run'[b] = run[b]
BY DEF TypeOK, PhaseInv, Decide, Applied

LEMMA DecideRunsAndPhases ==
  ASSUME TypeOK, RunInv, PhaseInv, NEW a \in Attempts, Decide(a)
  PROVE  RunInv' /\ PhaseInv'
<1>1. sent' = [sent EXCEPT ![a] = "none"] /\ sent[a] # "none"
  BY DEF Decide
<1>2. RunInv'
  <2>1. \A b \in Attempts : /\ run'[b] = "absent" <=> run[b] = "absent"
                            /\ sent[b] = "none" => sent'[b] = "none"
    BY <1>1, DecideFrame DEF TypeOK, Applied
  <2>2. phase' = phase /\ lastId' = lastId /\ id' = id
    BY DecideFrame
  <2> QED BY <2>1, <2>2 DEF RunInv
<1>3. PhaseInv'
  BY <1>1, DecideFrame DEF TypeOK, PhaseInv, Applied
<1> QED BY <1>2, <1>3

LEMMA DecideLocks ==
  ASSUME TypeOK, RunInv, PhaseInv, LockInv, NEW a \in Attempts, Decide(a)
  PROVE  LockInv'
<1> USE DependentsConstants
<1> SUFFICES ASSUME NEW b \in Attempts
             PROVE  /\ phase'[b] = "locked" \/ sent'[b] = "apply" => holder'[SourceOf[b]] = b
                    /\ sent'[b] = "apply" => ~Stale(b)'
                    /\ \/ phase'[b] = "superseding" \/ sent'[b] = "supersede"
                       \/ run'[b] = "superseded"
                       => Stale(b)'
  BY DEF LockInv
<1>1. sent' = [sent EXCEPT ![a] = "none"] /\ sent[a] # "none" /\ Unlock(a)
  BY DEF Decide
<1>2. phase'[b] = "locked" \/ sent'[b] = "apply" =>
        b # a /\ holder[SourceOf[b]] = b /\ holder'[SourceOf[b]] = b
  BY <1>1, DecideFrame DEF TypeOK, PhaseInv, LockInv, Unlock
<1>3. ASSUME sent'[b] = "apply" PROVE ~Stale(b)'
  <2>1. b # a /\ ~Stale(b)
    BY <1>1, <1>3 DEF TypeOK, LockInv
  <2>2. run'[a] \in Applied => SourceOf[a] # SourceOf[b]
    BY <1>2, <1>3, <2>1, DecideFrame DEF LockInv
  <2>3. \A c \in Attempts : run'[c] \in Applied /\ SourceOf[c] = SourceOf[b]
                            => run[c] \in Applied /\ id'[c] = id[c]
    BY <2>2, DecideFrame
  <2> QED BY <2>1, <2>3, FreshKept, DecideFrame
<1>4. ASSUME phase'[b] = "superseding" \/ sent'[b] = "supersede" \/ run'[b] = "superseded"
      PROVE  Stale(b)'
  <2>1. Stale(b)
    <3>1. CASE run'[b] = "superseded"
      <4>1. CASE b = a
        <5>1. sent[a] = "supersede"
          BY <3>1, <4>1, DecideFrame DEF Decide, Applied
        <5> QED BY <4>1, <5>1 DEF LockInv
      <4>2. CASE b # a
        BY <3>1, <4>2, DecideFrame DEF LockInv
      <4> QED BY <4>1, <4>2
    <3>2. CASE phase'[b] = "superseding" \/ sent'[b] = "supersede"
      <4>1. phase[b] = "superseding" \/ sent[b] = "supersede"
        BY <1>1, <3>2, DecideFrame DEF TypeOK
      <4> QED BY <4>1 DEF LockInv
    <3> QED BY <1>4, <3>1, <3>2
  <2>2. \A c \in Attempts : run[c] \in Applied => run'[c] \in Applied /\ id'[c] = id[c]
    BY DecideFrame DEF Applied
  <2> QED BY <2>1, <2>2, StaleKept, DecideFrame
<1> QED BY <1>2, <1>3, <1>4

(* The snapshot that is applied is the newest of its source so far.         *)
LEMMA AppliedIsNewest ==
  ASSUME TypeOK, RunInv, PhaseInv, LockInv, NEW a \in Attempts, sent[a] = "apply",
         NEW b \in Attempts, run[b] \in Applied, SourceOf[b] = SourceOf[a]
  PROVE  id[b] < id[a]
<1>1. run[a] = "running" /\ ~Stale(a)
  BY DEF PhaseInv, LockInv
<1>2. id[b] <= id[a]
  BY <1>1 DEF Stale, TypeOK
<1>3. id[b] # id[a]
  BY <1>1 DEF RunInv, Applied
<1>4. id[a] \in Nat /\ id[b] \in Nat
  BY DEF TypeOK
<1> QED BY <1>2, <1>3, <1>4

LEMMA DecideRows ==
  ASSUME Inv, NEW a \in Attempts, Decide(a)
  PROVE  RowsInv' /\ DisplayIsCurrent'
<1> USE DependentsConstants DEF Inv
<1>1. CASE sent[a] = "supersede"
  <2>1. /\ UNCHANGED rowVars
        /\ \A b \in Attempts :
             /\ run'[b] \in Applied <=> run[b] \in Applied
             /\ id'[b] = id[b] /\ snap'[b] = snap[b]
    BY <1>1, DecideFrame DEF Decide, Applied
  <2>2. \A s \in Sources, d \in Dependents :
          seenBy[s][d] \in Attempts \cup {NoRun} /\ retiredBy[s][d] \in Attempts \cup {NoRun}
    BY DEF TypeOK
  <2> QED BY <2>1, <2>2 DEF RowsInv, DisplayIsCurrent, rowVars
<1>2. CASE sent[a] = "apply"
  <2> DEFINE r == SourceOf[a]
  <2>1. /\ seenBy' = [seenBy EXCEPT ![r] = Seen(a)]
        /\ retiredBy' = [retiredBy EXCEPT ![r] = Retired(a)]
    BY <1>2 DEF Decide
  <2>2. /\ id' = id /\ snap' = snap /\ run'[a] \in Applied
        /\ \A b \in Attempts : run[b] \in Applied => run'[b] \in Applied
        /\ \A b \in Attempts \ {a} : run'[b] \in Applied => run[b] \in Applied
    BY <1>2, DecideFrame DEF Applied
  <2>3. \A b \in Attempts : run[b] \in Applied /\ SourceOf[b] = r => id[b] < id[a]
    BY <1>2, AppliedIsNewest
  <2>4. \A s \in Sources, d \in Dependents :
          /\ seenBy[s][d] \in Attempts \cup {NoRun}
          /\ retiredBy[s][d] \in Attempts \cup {NoRun}
          /\ s # r => seenBy'[s][d] = seenBy[s][d] /\ retiredBy'[s][d] = retiredBy[s][d]
    BY <2>1 DEF TypeOK
  <2>5. r \in Sources /\ seenBy'[r] = Seen(a) /\ retiredBy'[r] = Retired(a)
    BY <2>1 DEF TypeOK
  <2>6. \A d \in Dependents :
          /\ d \in snap[a].seen => seenBy'[r][d] = a /\ retiredBy'[r][d] = NoRun
          /\ d \notin snap[a].seen => seenBy'[r][d] = seenBy[r][d]
          /\ d \notin snap[a].seen =>
               \/ retiredBy'[r][d] = retiredBy[r][d]
                  /\ (snap[a].listing => seenBy[r][d] = NoRun \/ retiredBy[r][d] # NoRun)
               \/ retiredBy'[r][d] = a /\ snap[a].listing /\ seenBy[r][d] # NoRun
    BY <2>5 DEF Seen, Retired
  <2>7. RowsInv'
    <3> SUFFICES ASSUME NEW s \in Sources, NEW d \in Dependents
                 PROVE  /\ seenBy'[s][d] # NoRun => /\ run'[seenBy'[s][d]] \in Applied
                                                    /\ SourceOf[seenBy'[s][d]] = s
                        /\ retiredBy'[s][d] # NoRun => /\ seenBy'[s][d] # NoRun
                                                       /\ run'[retiredBy'[s][d]] \in Applied
                                                       /\ SourceOf[retiredBy'[s][d]] = s
      BY DEF RowsInv, Applied
    <3>1. CASE s = r
      BY <3>1, <2>2, <2>4, <2>6 DEF RowsInv
    <3>2. CASE s # r
      BY <3>2, <2>2, <2>4 DEF RowsInv
    <3> QED BY <3>1, <3>2
  <2>8. DisplayIsCurrent'
    <3> SUFFICES ASSUME NEW s \in Sources, NEW d \in Dependents, seenBy'[s][d] # NoRun
                 PROVE  \/ /\ retiredBy'[s][d] = NoRun
                           /\ \A b \in Attempts :
                                SourceOf[b] = s /\ run'[b] \in Applied /\ snap'[b].listing
                                => id'[b] <= id'[seenBy'[s][d]]
                        \/ /\ retiredBy'[s][d] # NoRun
                           /\ run'[retiredBy'[s][d]] \in Applied
                           /\ snap'[retiredBy'[s][d]].listing
                           /\ id'[retiredBy'[s][d]] > id'[seenBy'[s][d]]
      <4>1. \A s \in Sources, d \in Dependents : retiredBy'[s][d] \in Attempts \cup {NoRun}
        BY <2>1, <2>4, <2>5, <2>6
      <4> QED BY <4>1, <2>7 DEF DisplayIsCurrent, RowsInv, Applied
    <3>1. CASE s # r
      BY <3>1, <2>2, <2>4 DEF RowsInv, DisplayIsCurrent
    <3>2. CASE s = r /\ d \in snap[a].seen
      BY <3>2, <2>2, <2>3, <2>6, SMTT(20) DEF TypeOK
    <3>3. CASE s = r /\ d \notin snap[a].seen /\ retiredBy'[r][d] = retiredBy[r][d]
      <4>1. CASE retiredBy[r][d] = NoRun
        <5>1. ~snap[a].listing
          BY <3>3, <4>1, <2>6
        <5> QED BY <3>3, <4>1, <5>1, <2>2, <2>4, <2>6 DEF DisplayIsCurrent
      <4>2. CASE retiredBy[r][d] # NoRun
        BY <3>3, <4>2, <2>2, <2>4, <2>6 DEF DisplayIsCurrent
      <4> QED BY <4>1, <4>2
    <3>4. CASE /\ s = r /\ d \notin snap[a].seen
               /\ retiredBy'[r][d] = a /\ snap[a].listing /\ seenBy[r][d] # NoRun
      <4>1. id[seenBy[r][d]] < id[a]
        BY <3>4, <2>3, <2>4, <2>5 DEF RowsInv
      <4> QED BY <3>4, <4>1, <2>2, <2>6 DEF TypeOK
    <3> QED BY <3>1, <3>2, <3>3, <3>4, <2>6
  <2> QED BY <2>7, <2>8
<1> QED BY <1>1, <1>2 DEF Decide, TypeOK

-----------------------------------------------------------------------------
(* The invariant.                                                           *)

LEMMA InitInv == Init => Inv
<1> SUFFICES ASSUME Init PROVE Inv
  OBVIOUS
<1>1. RunInv /\ PhaseInv /\ LockInv
  BY DEF Init, RunInv, PhaseInv, LockInv, Applied
<1>2. RowsInv /\ DisplayIsCurrent
  BY DEF Init, RowsInv, DisplayIsCurrent
<1> QED BY <1>1, <1>2, InitTyped DEF Inv

LEMMA NextSplit == Next => \E a \in Attempts : Quiet(a) \/ Decide(a)
BY DEF Next, Quiet

LEMMA NextInv == Inv /\ [Next]_vars => Inv'
<1> SUFFICES ASSUME Inv, [Next]_vars PROVE Inv'
  OBVIOUS
<1>1. ASSUME NEW a \in Attempts, Quiet(a) PROVE Inv'
  BY <1>1, QuietTyped, QuietRuns, QuietPhases, QuietLocks, QuietRows DEF Inv
<1>2. ASSUME NEW a \in Attempts, Decide(a) PROVE Inv'
  BY <1>2, DecideTyped, DecideRunsAndPhases, DecideLocks, DecideRows DEF Inv
<1>3. CASE UNCHANGED vars
  BY <1>3, StutterTyped DEF Inv, RunInv, PhaseInv, LockInv, Stale, RowsInv,
                            DisplayIsCurrent, vars, rowVars
<1> QED BY <1>1, <1>2, <1>3, NextSplit

LEMMA Invariance == Spec => []Inv
BY InitInv, NextInv, PTL DEF Spec

(* Types hold in every behaviour, whatever the walks bring home.            *)
THEOREM DependentsTyped == Spec => []TypeOK
BY Invariance, PTL DEF Inv

(* An attempt that failed left no trace and a processed one is durable:     *)
(* _reconcile_failed_run never mistakes a lost acknowledgement.             *)
THEOREM OutcomesDurable == Spec => []OutcomeIsDurable
<1>1. Inv => OutcomeIsDurable
  <2> SUFFICES ASSUME Inv, NEW a \in Attempts
               PROVE  /\ phase[a] = "failed" =>
                           /\ run[a] = "failed"
                           /\ \A s \in Sources, d \in Dependents :
                                a # seenBy[s][d] /\ a # retiredBy[s][d]
                      /\ phase[a] = "processed" => run[a] \in Applied \cup {"superseded"}
    BY ZenonT(30) DEF OutcomeIsDurable
  <2> QED BY DependentsConstants DEF Inv, PhaseInv, RowsInv, Applied
<1> QED BY <1>1, Invariance, PTL

(* A run is superseded only by a newer applied run of its source.           *)
THEOREM SupersededOlder == Spec => []SupersededIsOlder
<1>1. Inv => SupersededIsOlder
  BY DEF Inv, LockInv, SupersededIsOlder, Stale
<1> QED BY <1>1, Invariance, PTL

(* What is displayed was seen since the newest complete listing, what is    *)
(* retired was missed by a newer one, for any number of overlapping runs.   *)
THEOREM DisplayCurrent == Spec => []DisplayIsCurrent
BY Invariance, PTL DEF Inv

(* The status of a run that ended never changes.                            *)
THEOREM OutcomesFinal == Spec => OutcomeIsFinal
<1>1. ASSUME Inv, [Next]_vars
      PROVE  [\A a \in Attempts : run[a] \notin {"absent", "running"} => run'[a] = run[a]]_vars
  <2>1. ASSUME NEW b \in Attempts, Quiet(b)
        PROVE  \A a \in Attempts : run[a] \notin {"absent", "running"} => run'[a] = run[a]
    BY <1>1, <2>1, QuietFrame DEF Inv
  <2>2. ASSUME NEW b \in Attempts, Decide(b)
        PROVE  \A a \in Attempts : run[a] \notin {"absent", "running"} => run'[a] = run[a]
    BY <1>1, <2>2, DecideFrame DEF Inv
  <2> QED BY <1>1, <2>1, <2>2, NextSplit
<1> QED BY <1>1, Invariance, PTL DEF Spec, OutcomeIsFinal

-----------------------------------------------------------------------------
(* The refinement.                                                          *)

Shown == [s \in Sources |->
            {id[a] : a \in {b \in Attempts : SourceOf[b] = s /\ run[b] \in Applied}}]
Live == [s \in Sources |-> ActiveObservations(s)]

LEMMA ViewInit == Init => View!Init
<1> SUFFICES ASSUME Init PROVE View!Init
  OBVIOUS
<1>1. Shown = [s \in Sources |-> {}]
  BY DEF Init, Shown, Applied
<1>2. Live = [s \in Sources |-> {}]
  BY DEF Init, Live
<1> QED BY <1>1, <1>2 DEF View!Init, Shown, Live, Init

(* A quiet step does not show.                                              *)
LEMMA QuietStutters ==
  ASSUME Inv, NEW a \in Attempts, Quiet(a)
  PROVE  UNCHANGED <<Shown, Live, packages>>
<1>1. /\ UNCHANGED rowVars
      /\ \A b \in Attempts : /\ run'[b] \in Applied <=> run[b] \in Applied
                             /\ run[b] \in Applied => id'[b] = id[b]
  BY QuietFrame DEF Inv, Applied
<1>2. Live' = Live /\ packages' = packages
  BY <1>1 DEF Live, rowVars
<1>3. ASSUME NEW s \in Sources
      PROVE  {id'[b] : b \in {c \in Attempts : SourceOf[c] = s /\ run'[c] \in Applied}}
           = {id[b] : b \in {c \in Attempts : SourceOf[c] = s /\ run[c] \in Applied}}
  BY <1>1
<1>4. Shown' = Shown
  BY <1>3 DEF Shown, Applied
<1> QED BY <1>2, <1>4

(* The commit of a snapshot shows it as a whole, after all older ones.      *)
LEMMA DecideShows ==
  ASSUME Inv, NEW a \in Attempts, Decide(a), sent[a] = "apply"
  PROVE  /\ snap[a] \in Snapshots /\ SourceOf[a] \in Sources
         /\ View!Show(SourceOf[a], id[a], snap[a])
         /\ id[a] \in Shown'[SourceOf[a]]
<1> USE DependentsConstants
<1> DEFINE r == SourceOf[a]
<1>1. r \in Sources /\ snap[a] \in Snapshots /\ id[a] \in Nat
  BY DEF Inv, TypeOK, PhaseInv
<1>2. \A m \in Shown[r] : m < id[a]
  BY <1>1, AppliedIsNewest DEF Inv, Shown
<1>3. /\ id' = id /\ run'[a] \in Applied
      /\ \A b \in Attempts \ {a} : run'[b] = run[b]
  BY DecideFrame DEF Inv
<1>4. ASSUME NEW s \in Sources
      PROVE  {id'[b] : b \in {c \in Attempts : SourceOf[c] = s /\ run'[c] \in Applied}}
           = {id[b] : b \in {c \in Attempts : SourceOf[c] = s /\ run[c] \in Applied}}
             \cup (IF s = r THEN {id[a]} ELSE {})
  <2>1. run[a] \notin Applied
    BY DecideFrame DEF Inv, Applied
  <2> QED BY <1>3, <2>1
<1>5. Shown' = [Shown EXCEPT ![r] = @ \cup {id[a]}]
  BY <1>1, <1>4 DEF Shown, Applied
<1>6. /\ seenBy' = [seenBy EXCEPT ![r] = Seen(a)]
      /\ retiredBy' = [retiredBy EXCEPT ![r] = Retired(a)]
      /\ packages' = [packages EXCEPT ![r] = Repackaged(a)]
  BY DEF Decide
<1>7. Live' = [Live EXCEPT ![r] = IF snap[a].listing THEN snap[a].seen ELSE @ \cup snap[a].seen]
  <2>1. /\ \A s \in Sources \ {r} : seenBy'[s] = seenBy[s] /\ retiredBy'[s] = retiredBy[s]
        /\ seenBy'[r] = Seen(a) /\ retiredBy'[r] = Retired(a)
    BY <1>1, <1>6 DEF Inv, TypeOK
  <2>2. snap[a].seen \subseteq Dependents
    BY <1>1 DEF Snapshot
  <2>3. {d \in Dependents : Seen(a)[d] # NoRun /\ Retired(a)[d] = NoRun}
        = IF snap[a].listing THEN snap[a].seen ELSE Live[r] \cup snap[a].seen
    BY <1>1, <2>2 DEF Live, Seen, Retired, Inv, RowsInv
  <2>4. \A s \in Sources \ {r} :
          {d \in Dependents : seenBy'[s][d] # NoRun /\ retiredBy'[s][d] = NoRun} = Live[s]
    BY <2>1 DEF Live
  <2>5. {d \in Dependents : seenBy'[r][d] # NoRun /\ retiredBy'[r][d] = NoRun}
        = IF snap[a].listing THEN snap[a].seen ELSE Live[r] \cup snap[a].seen
    BY <2>1, <2>3
  <2>6. Live = [s \in Sources |-> Live[s]]
    BY DEF Live
  <2>7. Live' = [s \in Sources |->
                   {d \in Dependents : seenBy'[s][d] # NoRun /\ retiredBy'[s][d] = NoRun}]
    BY DEF Live
  <2> HIDE DEF r
  <2> QED BY <1>1, <2>4, <2>5, <2>6, <2>7, ZenonT(30)
<1>8. packages' = [packages EXCEPT ![r] = [d \in Dependents |->
        IF d \notin snap[a].seen THEN packages[r][d]
        ELSE IF snap[a].listing THEN snap[a].packages[d]
        ELSE packages[r][d] \cup snap[a].packages[d]]]
  BY <1>6 DEF Repackaged
<1>9. id[a] \in Shown'[r]
  BY <1>1, <1>5 DEF Shown
<1> QED BY <1>1, <1>2, <1>5, <1>7, <1>8, <1>9 DEF View!Show, Shown, Live

(* The collection implements the view: whatever overlaps, crashes or is     *)
(* left in doubt, the display is that of the applied snapshots in order.    *)
THEOREM Refinement == Spec => ImplementsView
<1>1. ASSUME Inv, [Next]_vars PROVE [View!Next]_(View!vars)
  <2>1. ASSUME NEW a \in Attempts, Quiet(a) PROVE UNCHANGED View!vars
    BY <1>1, <2>1, QuietStutters DEF View!vars, Shown, Live
  <2>2. ASSUME NEW a \in Attempts, Decide(a) PROVE [View!Next]_(View!vars)
    <3>1. CASE sent[a] = "apply"
      <4>1. /\ snap[a] \in Snapshots /\ SourceOf[a] \in Sources
            /\ View!Show(SourceOf[a], id[a], snap[a])
            /\ id[a] \in Shown'[SourceOf[a]]
        BY <1>1, <2>2, <3>1, DecideShows
      <4>2. PICK n, sn : n = id[a] /\ sn = snap[a]
        OBVIOUS
      <4>3. View!Show(SourceOf[a], n, sn)
        BY <4>1, <4>2 DEF View!Show
      <4>4. \E s \in Sources, w \in Snapshots : \E m \in Shown'[s] : View!Show(s, m, w)
        BY <4>1, <4>2, <4>3
      <4>5. View!Next
        BY <4>4 DEF View!Next, Shown
      <4> QED BY <4>5
    <3>2. CASE sent[a] = "supersede"
      <4>1. /\ UNCHANGED rowVars /\ id' = id
            /\ \A b \in Attempts : run'[b] \in Applied <=> run[b] \in Applied
        BY <1>1, <2>2, <3>2, DecideFrame DEF Decide, Inv, Applied
      <4>2. Shown' = Shown /\ Live' = Live /\ packages' = packages
        BY <4>1 DEF Shown, Live, Applied, rowVars
      <4> QED BY <4>2 DEF View!vars, Shown, Live
    <3> QED BY <1>1, <2>2, <3>1, <3>2 DEF Inv, TypeOK, Decide
  <2>3. CASE UNCHANGED vars
    BY <2>3 DEF vars, rowVars, View!vars, Applied
  <2> QED BY <1>1, <2>1, <2>2, <2>3, NextSplit
<1> QED BY <1>1, ViewInit, Invariance, PTL DEF Spec, ImplementsView, View!Spec

-----------------------------------------------------------------------------
(* The walk.  What the pages of a site show, without the site itself.       *)

PageOf(site, p, i) == Pages(site, p)[i]
Shows(site, p, i) == Named(PageOf(site, p, i), DOMAIN PageOf(site, p, i).rows) \ {site.source}

(* What a page is, whose position in its listing is i.                      *)
PageFits(site, p, i) ==
  LET page == PageOf(site, p, i)
      n == Len(Pages(site, p))
  IN /\ Len(page.rows) \in Nat /\ DOMAIN page.rows = 1..Len(page.rows)
     /\ page.link \in BOOLEAN /\ (page.link <=> i < n)
     /\ page.next \in {NoPage} \cup {j \in 1..n : j <= i + 1}
     /\ Repos(site, p) = 0 => page.rows = <<>>

LEMMA PagesFit ==
  ASSUME NEW site, SiteFits(site), NEW p \in Listings(site)
  PROVE  /\ Len(Pages(site, p)) \in Nat \ {0} /\ DOMAIN Pages(site, p) = 1..Len(Pages(site, p))
         /\ Repos(site, p) \in Nat \cup {Unreadable}
         /\ \A i \in 1..Len(Pages(site, p)) : PageFits(site, p, i)
<1>1. ListingFits(site.listings[p])
  BY DEF SiteFits
<1>2. Len(Pages(site, p)) \in Nat /\ DOMAIN Pages(site, p) = 1..Len(Pages(site, p)) /\ Len(Pages(site, p)) > 0
  BY <1>1 DEF ListingFits, IsList, Pages
<1>3. ASSUME NEW i \in 1..Len(Pages(site, p))
      PROVE  PageFits(site, p, i)
  <2>1. IsList(PageOf(site, p, i).rows)
    BY <1>1 DEF ListingFits, Pages, PageOf
  <2>2. Len(PageOf(site, p, i).rows) \in Nat /\ DOMAIN PageOf(site, p, i).rows = 1..Len(PageOf(site, p, i).rows)
    BY <2>1 DEF IsList
  <2>3. /\ PageOf(site, p, i).link = (i < Len(Pages(site, p)))
        /\ PageOf(site, p, i).next \in {NoPage} \cup {j \in 1..Len(Pages(site, p)) : j <= i + 1}
        /\ Repos(site, p) = 0 => PageOf(site, p, i).rows = <<>>
    BY <1>1 DEF ListingFits, Pages, PageOf, Repos
  <2>4. PageOf(site, p, i).link \in BOOLEAN /\ (PageOf(site, p, i).link <=> i < Len(Pages(site, p)))
    <3> DEFINE more == i < Len(Pages(site, p))
    <3>1. more \in BOOLEAN /\ PageOf(site, p, i).link = more
      BY <2>3
    <3>2. more <=> i < Len(Pages(site, p))
      OBVIOUS
    <3> HIDE DEF more
    <3> QED BY <3>1, <3>2
  <2> QED BY <2>2, <2>3, <2>4 DEF PageFits
<1> QED BY <1>1, <1>2, <1>3 DEF ListingFits, Repos

LEMMA DisplayedIsShown ==
  ASSUME NEW site, SiteFits(site)
  PROVE  /\ \A p \in Listings(site) : \A i \in 1..Len(Pages(site, p)) : Shows(site, p, i) \subseteq Displayed(site)
         /\ \A d \in Displayed(site) : \E p \in Listings(site) :
              \E i \in 1..Len(Pages(site, p)) : d \in Shows(site, p, i)
<1> DEFINE pages == UNION {ToSet(Pages(site, p)) : p \in Listings(site)}
           rows == UNION {ToSet(page.rows) : page \in pages}
<1>1. Displayed(site) = {row.repo : row \in rows} \ {site.source}
  BY DEF Displayed
<1>2. ASSUME NEW p \in Listings(site), NEW i \in 1..Len(Pages(site, p)), NEW d \in Shows(site, p, i)
      PROVE  d \in Displayed(site)
  <2>1. PICK j \in DOMAIN PageOf(site, p, i).rows : d = PageOf(site, p, i).rows[j].repo
    BY DEF Shows, Named
  <2>2. i \in DOMAIN Pages(site, p)
    BY PagesFit
  <2>3. PageOf(site, p, i) \in ToSet(Pages(site, p))
    BY <2>2 DEF PageOf, ToSet
  <2>4. PageOf(site, p, i) \in pages
    BY <2>3
  <2>5. PageOf(site, p, i).rows[j] \in ToSet(PageOf(site, p, i).rows)
    BY DEF ToSet
  <2>6. PageOf(site, p, i).rows[j] \in rows
    BY <2>4, <2>5
  <2> HIDE DEF rows
  <2> QED BY <1>1, <2>1, <2>6 DEF Shows
<1>3. ASSUME NEW d \in Displayed(site)
      PROVE  \E p \in Listings(site) : \E i \in 1..Len(Pages(site, p)) : d \in Shows(site, p, i)
  <2>1. PICK row \in rows : d = row.repo
    BY <1>1
  <2>2. PICK page \in pages : row \in ToSet(page.rows)
    BY <2>1
  <2>3. PICK p \in Listings(site) : page \in ToSet(Pages(site, p))
    BY <2>2
  <2>4. PICK i \in DOMAIN Pages(site, p) : page = Pages(site, p)[i]
    BY <2>3 DEF ToSet
  <2>5. PICK j \in DOMAIN page.rows : row = page.rows[j]
    BY <2>2 DEF ToSet
  <2>6. i \in 1..Len(Pages(site, p))
    BY <2>4, PagesFit
  <2>7. d # site.source
    BY <1>1
  <2>8. d \in Shows(site, p, i)
    BY <2>1, <2>4, <2>5, <2>7 DEF Shows, Named, PageOf
  <2> QED BY <2>6, <2>8
<1> QED BY <1>2, <1>3

(* The rows of a page that are not consumed are left because the cap is met. *)
LEMMA LeftAtTheCap ==
  ASSUME NEW page, NEW n \in Nat, DOMAIN page.rows = 1..n, NEW source, NEW found, NEW p
  PROVE  LET consumed == Consumed(source, page, found)
             new == AddDependents(found, Named(page, consumed) \ {source}, p)
         IN /\ consumed \subseteq Entries(page) /\ Entries(page) \subseteq 1..n
            /\ DOMAIN new = DOMAIN found \cup (Named(page, consumed) \ {source})
            /\ consumed # Entries(page) => AtCap(new)
<1> DEFINE consumed == Consumed(source, page, found)
           new == AddDependents(found, Named(page, consumed) \ {source}, p)
<1> DEFINE Names(k) == DOMAIN found \cup (Named(page, {j \in Entries(page) : j <= k}) \ {source})
           stops == {i \in Entries(page) : page.rows[i].repo # source /\ Cardinality(Names(i - 1)) >= EntryCap}
<1>1. consumed = {i \in Entries(page) : \A j \in stops : i < j}
  BY DEF Consumed
<1>2. Entries(page) \subseteq 1..n
  BY DEF Entries
<1>3. DOMAIN new = DOMAIN found \cup (Named(page, consumed) \ {source})
  BY DEF AddDependents
<1>4. ASSUME consumed # Entries(page) PROVE AtCap(new)
  <2>1. stops # {} /\ stops \subseteq Nat
    <3>1. stops \subseteq Entries(page)
      OBVIOUS
    <3> HIDE DEF stops
    <3> QED BY <1>1, <1>2, <1>4, <3>1
  <2>2. PICK m \in stops : \A j \in stops : m <= j
    BY <2>1, LeastElement
  <2>3. consumed = {j \in Entries(page) : j <= m - 1}
    <3>1. m \in Int /\ stops \subseteq Int /\ Entries(page) \subseteq Int
      BY <1>2, <2>1
    <3> HIDE DEF stops
    <3> QED BY <1>1, <2>2, <3>1
  <2>4. Cardinality(Names(m - 1)) >= EntryCap
    BY <2>2
  <2>5. DOMAIN new = Names(m - 1)
    BY <1>3, <2>3
  <2> QED BY <2>4, <2>5 DEF AtCap
<1> QED BY <1>1, <1>2, <1>3, <1>4

-----------------------------------------------------------------------------
(* What a walk has found; and a walk over a listing of n pages.             *)

Founds(site) == UNION {[ds -> SUBSET Listings(site)] : ds \in SUBSET Displayed(site)}
Builders(site) ==
  [found : Founds(site), listing : BOOLEAN, counts : BOOLEAN, raised : BOOLEAN,
   at : Nat \cup {NoPage}, cursors : SUBSET (Nat \cup {NoPage}), over : BOOLEAN]
Walkers(site, p) == {w \in Builders(site) : w.over \/ w.at \in 1..Len(Pages(site, p))}

LEMMA FoundFacts ==
  ASSUME NEW site, NEW found
  PROVE  /\ found \in Founds(site) => /\ DOMAIN found \subseteq Displayed(site)
                                      /\ \A d \in DOMAIN found : found[d] \subseteq Listings(site)
         /\ \A ds \in SUBSET Displayed(site) : found \in [ds -> SUBSET Listings(site)] => found \in Founds(site)
<1>1. ASSUME found \in Founds(site)
      PROVE  DOMAIN found \subseteq Displayed(site) /\ \A d \in DOMAIN found : found[d] \subseteq Listings(site)
  <2>1. PICK ds \in SUBSET Displayed(site) : found \in [ds -> SUBSET Listings(site)]
    BY <1>1 DEF Founds
  <2> QED BY <2>1
<1>2. ASSUME NEW ds \in SUBSET Displayed(site), found \in [ds -> SUBSET Listings(site)]
      PROVE  found \in Founds(site)
  BY <1>2 DEF Founds
<1> QED BY <1>1, <1>2

LEMMA AddedAreFounds ==
  ASSUME NEW site, NEW p \in Listings(site), NEW found \in Founds(site), NEW ds \in SUBSET Displayed(site)
  PROVE  AddDependents(found, ds, p) \in Founds(site)
<1> DEFINE all == DOMAIN found \cup ds
           new == [d \in all |-> (IF d \in DOMAIN found THEN found[d] ELSE {})
                                  \cup (IF d \in ds THEN {p} \ {NoPackage} ELSE {})]
<1>1. all \in SUBSET Displayed(site) /\ \A d \in DOMAIN found : found[d] \subseteq Listings(site)
  BY FoundFacts
<1>2. \A d \in all : new[d] \subseteq Listings(site)
  BY <1>1
<1>3. new \in [all -> SUBSET Listings(site)]
  BY <1>2
<1>4. new = AddDependents(found, ds, p)
  BY DEF AddDependents
<1> HIDE DEF new, all
<1> QED BY <1>1, <1>3, <1>4, FoundFacts

(* A page that is visited: it ends the walk over its listing as one that is *)
(* not whole, or its rows are found and the walk goes on or is at the end.  *)
Continues(site, p, w, v) ==
  /\ Shows(site, p, w.at) \subseteq DOMAIN v.found
  /\ IF v.over THEN w.at = Len(Pages(site, p)) \/ Repos(site, p) = 0 ELSE v.at <= w.at + 1

LEMMA TruncatedCases ==
  ASSUME NEW page, page.link \in BOOLEAN, NEW all \in BOOLEAN, NEW found, NEW cursors, NEW i
  PROVE  /\ Truncated(page, all, found, cursors, i) \in BOOLEAN
         /\ AtCap(found) => (Truncated(page, all, found, cursors, i) <=> ~all \/ page.next # NoPage \/ page.link)
         /\ ~AtCap(found) /\ page.next = NoPage => (Truncated(page, all, found, cursors, i) <=> page.link)
         /\ ~AtCap(found) /\ page.next # NoPage =>
              (Truncated(page, all, found, cursors, i) <=> page.next \in cursors \/ i = PagesCap)
<1>1. CASE AtCap(found)
  BY <1>1 DEF Truncated
<1>2. CASE ~AtCap(found) /\ page.next = NoPage
  BY <1>2 DEF Truncated
<1>3. CASE ~AtCap(found) /\ page.next # NoPage
  BY <1>3 DEF Truncated
<1> QED BY <1>1, <1>2, <1>3

LEMMA PageVisited ==
  ASSUME NEW site, SiteFits(site), NEW p \in Listings(site), NEW w \in Walkers(site, p), ~w.over,
         NEW i \in 1..PagesCap, NEW v, v = VisitPage(site, p, w, i)
  PROVE  /\ v \in Walkers(site, p) /\ (w.raised => v.raised) /\ (v.listing => w.listing)
         /\ DOMAIN w.found \subseteq DOMAIN v.found
         /\ ~v.raised /\ v.listing => Continues(site, p, w, v)
         /\ i = PagesCap => v.over
<1> DEFINE page == PageOf(site, p, w.at)
           rows == Entries(page)
           consumed == Consumed(site.source, page, w.found)
           found == AddDependents(w.found, Named(page, consumed) \ {site.source}, p)
           truncated == Truncated(page, consumed = rows, found, w.cursors, i)
           n == Len(Pages(site, p))
<1>1. w \in Builders(site) /\ w.at \in 1..n /\ n \in Nat \ {0}
  BY PagesFit DEF Walkers
<1>2. PageFits(site, p, w.at)
  BY <1>1, PagesFit
<1>3. Len(page.rows) \in Nat /\ DOMAIN page.rows = 1..Len(page.rows)
  BY <1>2 DEF PageFits
<1>4. /\ consumed \subseteq rows /\ rows \subseteq 1..Len(page.rows)
      /\ DOMAIN found = DOMAIN w.found \cup (Named(page, consumed) \ {site.source})
      /\ consumed # rows => AtCap(found)
  <2> DEFINE m == Len(page.rows)
  <2>1. m \in Nat /\ DOMAIN page.rows = 1..m
    BY <1>3
  <2> HIDE DEF page, m
  <2>2. /\ consumed \subseteq rows /\ rows \subseteq 1..m
        /\ DOMAIN found = DOMAIN w.found \cup (Named(page, consumed) \ {site.source})
        /\ consumed # rows => AtCap(found)
    BY <2>1, LeftAtTheCap
  <2> QED BY <2>2 DEF m
<1>5. Shows(site, p, w.at) \subseteq Displayed(site)
  BY <1>1, DisplayedIsShown
<1>6. found \in Founds(site)
  <2>1. Named(page, consumed) \ {site.source} \subseteq Shows(site, p, w.at)
    BY <1>3, <1>4 DEF Shows, Named
  <2>2. w.found \in Founds(site)
    BY <1>1 DEF Builders
  <2> HIDE DEF page, consumed
  <2> QED BY <1>5, <2>1, <2>2, AddedAreFounds
<1>7. /\ truncated \in BOOLEAN
      /\ AtCap(found) => (truncated <=> consumed # rows \/ page.next # NoPage \/ page.link)
      /\ ~AtCap(found) /\ page.next = NoPage => (truncated <=> page.link)
      /\ ~AtCap(found) /\ page.next # NoPage => (truncated <=> page.next \in w.cursors \/ i = PagesCap)
  <2> DEFINE all == consumed = rows
  <2>1. page.link \in BOOLEAN /\ all \in BOOLEAN /\ truncated = Truncated(page, all, found, w.cursors, i)
    BY <1>2 DEF PageFits
  <2>2. all <=> consumed = rows
    OBVIOUS
  <2> HIDE DEF page, consumed, rows, found, truncated, all
  <2> QED BY <2>1, <2>2, TruncatedCases
<1> DEFINE empty == w.listing /\ i = 1 /\ Repos(site, p) = 0
           whole == w.listing /\ rows = DOMAIN page.rows /\ ~truncated
           ends == truncated \/ page.next = NoPage \/ AtCap(found)
<1>8. v = IF ~Answered(page) \/ (rows = {} /\ page.rows # <<>>) THEN [w EXCEPT !.raised = TRUE, !.over = TRUE]
          ELSE IF page.rows = <<>> THEN [w EXCEPT !.listing = empty, !.over = TRUE]
          ELSE [w EXCEPT !.found = found, !.listing = whole, !.over = ends,
                         !.at = page.next, !.cursors = w.cursors \cup {page.next}]
  BY DEF VisitPage, PageOf
<1>9. /\ empty \in BOOLEAN /\ whole \in BOOLEAN /\ ends \in BOOLEAN
      /\ empty => w.listing /\ Repos(site, p) = 0
      /\ whole => w.listing /\ rows = DOMAIN page.rows /\ ~truncated
      /\ ends <=> truncated \/ page.next = NoPage \/ AtCap(found)
  <2>1. w.listing \in BOOLEAN
    BY <1>1 DEF Builders
  <2> HIDE DEF page, rows, truncated, found
  <2> QED BY <2>1
<1>10. /\ page.link <=> w.at < n
       /\ page.next \in {NoPage} \cup {j \in 1..n : j <= w.at + 1}
       /\ Repos(site, p) = 0 => page.rows = <<>>
  BY <1>2 DEF PageFits
<1>11. Shows(site, p, w.at) = Named(page, DOMAIN page.rows) \ {site.source}
  BY DEF Shows
<1>12. page.rows = <<>> => Shows(site, p, w.at) = {}
  BY <1>3, <1>11 DEF Named
<1> HIDE DEF page, consumed, rows, found, truncated, n, empty, whole, ends
<1>14. CASE ~Answered(page) \/ (rows = {} /\ page.rows # <<>>)
  <2>1. v = [w EXCEPT !.raised = TRUE, !.over = TRUE]
    BY <1>8, <1>14
  <2>2. v \in Builders(site) /\ v.raised /\ v.over /\ v.found = w.found /\ v.listing = w.listing
    BY <1>1, <2>1 DEF Builders
  <2> QED BY <2>2 DEF Walkers
<1>15. CASE Answered(page) /\ ~(rows = {} /\ page.rows # <<>>) /\ page.rows = <<>>
  <2>1. v = [w EXCEPT !.listing = empty, !.over = TRUE]
    BY <1>8, <1>15
  <2>2. v \in Builders(site) /\ v.raised = w.raised /\ v.over /\ v.found = w.found /\ v.listing = empty
    BY <1>1, <1>9, <2>1 DEF Builders
  <2>3. v.listing => Continues(site, p, w, v)
    BY <1>9, <1>12, <1>15, <2>2 DEF Continues
  <2> QED BY <1>9, <2>2, <2>3 DEF Walkers
<1>16. CASE Answered(page) /\ ~(rows = {} /\ page.rows # <<>>) /\ page.rows # <<>>
  <2> DEFINE cursors == w.cursors \cup {page.next}
  <2>2. page.next \in Nat \cup {NoPage} /\ cursors \in SUBSET (Nat \cup {NoPage})
    BY <1>1, <1>10 DEF Builders
  <2>1. v = [w EXCEPT !.found = found, !.listing = whole, !.over = ends,
                      !.at = page.next, !.cursors = cursors]
    BY <1>8, <1>16
  <2> HIDE DEF cursors
  <2>3. /\ v \in Builders(site) /\ v.raised = w.raised /\ v.over = ends /\ v.found = found
        /\ v.listing = whole /\ v.at = page.next
    BY <1>1, <1>6, <1>9, <2>1, <2>2 DEF Builders
  <2>4. v.over \/ v.at \in 1..n
    <3>1. page.next # NoPage => page.next \in 1..n
      BY <1>10
    <3> QED BY <1>9, <2>3, <3>1
  <2>5. v \in Walkers(site, p)
    BY <2>3, <2>4 DEF Walkers, n
  <2>6. ASSUME whole PROVE Continues(site, p, w, v)
    <3>1. consumed = rows
      BY <1>4, <1>7, <1>9, <2>6
    <3>2. Shows(site, p, w.at) \subseteq DOMAIN found
      BY <1>4, <1>9, <1>11, <2>6, <3>1
    <3>3. ends => w.at = n
      <4>1. ends => page.next = NoPage /\ ~page.link
        BY <1>7, <1>9, <2>6
      <4> QED BY <1>1, <1>10, <4>1
    <3>4. ~ends => page.next <= w.at + 1
      BY <1>1, <1>9, <1>10
    <3> QED BY <2>3, <3>2, <3>3, <3>4 DEF Continues, n
  <2>7. i = PagesCap => ends
    BY <1>7, <1>9
  <2>8. whole => w.listing
    BY <1>9
  <2> QED BY <1>4, <2>3, <2>5, <2>6, <2>7, <2>8
<1> QED BY <1>14, <1>15, <1>16

(* A listing page by page.                                                  *)
Start(w) == [w EXCEPT !.at = 1, !.cursors = {}, !.over = w.raised]
Turn(site, p, w, i) == IF w.over THEN w ELSE VisitPage(site, p, w, i)

LEMMA Caps ==
  /\ PagesCap \in Nat \ {0} /\ EntryCap \in Nat \ {0} /\ PackagesCap \in Nat \ {0} /\ NoPage \notin Nat
BY WalkConstants

LEMMA Starts ==
  ASSUME NEW site, SiteFits(site), NEW p \in Listings(site), NEW w \in Builders(site)
  PROVE  /\ Start(w) \in Walkers(site, p) /\ Start(w).raised = w.raised /\ Start(w).over = w.raised /\ Start(w).at = 1
         /\ Start(w).listing = w.listing /\ Start(w).found = w.found /\ Start(w).cursors = {}
         /\ w.raised \in BOOLEAN
<1>1. 1 \in 1..Len(Pages(site, p))
  BY PagesFit
<1> QED BY <1>1 DEF Start, Walkers, Builders

LEMMA ListingChain ==
  ASSUME NEW site, SiteFits(site), NEW p \in Listings(site), NEW w \in Builders(site)
  PROVE  \E g \in [0..PagesCap -> Walkers(site, p)] :
           /\ g[0] = Start(w) /\ g[PagesCap] = WalkListing(site, p, w)
           /\ \A k \in 1..PagesCap : g[k] = Turn(site, p, g[k - 1], k)
<1> DEFINE op(d, x) == IF d.over THEN d ELSE VisitPage(site, p, d, x)
           n == PagesCap
           base == [w EXCEPT !.at = 1, !.cursors = {}, !.over = w.raised]
           seq == [i \in 1..PagesCap |-> i]
           D == Walkers(site, p)
           step == [x \in D \X (1..n) |-> op(x[1], seq[x[2]])]
           P(h) == h = [s \in SUBSET DOMAIN seq |->
                          IF s = {} THEN base ELSE op(h[s \ {Max(s)}], seq[Max(s)])]
           h == CHOOSE x : P(x)
<1>1. n \in Nat /\ DOMAIN seq = 1..n
  BY Caps
<1>2. \A d \in D, i \in 1..n : op(d, seq[i]) \in D
  <2> SUFFICES ASSUME NEW d \in D, NEW i \in 1..n PROVE op(d, i) \in D
    OBVIOUS
  <2>1. ~d.over => VisitPage(site, p, d, i) \in D
    BY PageVisited
  <2> QED BY <2>1
<1>3. WalkListing(site, p, w) = h[1..n]
  BY <1>1 DEF FoldLeft, MapThenFoldSet, WalkListing
<1>4. base \in D /\ base = Start(w)
  BY Starts DEF Start
<1> HIDE DEF op, D, base, seq
<1>5. IsStep(step, D, 1..n) /\ \A d \in D, i \in 1..n : step[<<d, i>>] = op(d, seq[i])
  BY <1>2 DEF IsStep
<1> HIDE DEF step, n
<1>6. /\ IsPick(LastOf(n), 1..n) /\ IsFiniteSet(1..n)
      /\ \A s \in SUBSET (1..n) : LastOf(n)[s] = Max(s) /\ (s # {} => Max(s) \in 1..n)
  BY <1>1, LastIsPicked, MaxOfNumbers
<1>7. PICK f : IsFoldOf(f, D, base, 1..n, step, LastOf(n))
  BY <1>4, <1>5, <1>6, SubsetFoldExists
<1>8. P(f)
  <2>1. ASSUME NEW s \in SUBSET (1..n)
        PROVE  f[s] = IF s = {} THEN base ELSE op(f[s \ {Max(s)}], seq[Max(s)])
    <3>1. s # {} => f[s \ {Max(s)}] \in D
      BY <1>7 DEF IsFoldOf
    <3> QED BY <1>5, <1>6, <1>7, <3>1 DEF IsFoldOf
  <2>2. f = [s \in SUBSET (1..n) |-> f[s]]
    BY <1>7 DEF IsFoldOf
  <2>3. f = [s \in SUBSET (1..n) |-> IF s = {} THEN base ELSE op(f[s \ {Max(s)}], seq[Max(s)])]
    BY <2>1, <2>2, Zenon
  <2> QED BY <1>1, <2>3
<1>9. P(h)
  <2> HIDE DEF P
  <2> QED BY <1>8
<1> HIDE DEF h
<1>10. \A s \in SUBSET (1..n) : h[s] = IF s = {} THEN base ELSE op(h[s \ {Max(s)}], seq[Max(s)])
  BY <1>1, <1>9, Zenon
<1> HIDE DEF P
<1>11. Folds(h, D, base, 1..n, step, LastOf(n))
  <2>1. h[{}] = base
    BY <1>10
  <2>2. ASSUME NEW s \in SUBSET (1..n), s # {}, h[s \ {Max(s)}] \in D
        PROVE  h[s] = step[<<h[s \ {Max(s)}], Max(s)>>]
    BY <1>5, <1>6, <1>10, <2>2
  <2> QED BY <1>6, <2>1, <2>2 DEF Folds
<1>12. PICK g : IsChain(g, D, base, n, step) /\ g[n] = h[1..n]
  BY <1>1, <1>4, <1>5, <1>11, FoldIsChain
<1>13. ASSUME NEW k \in 1..n PROVE g[k] = op(g[k - 1], k)
  <2>1. k - 1 \in 0..n /\ g[k - 1] \in D /\ seq[k] = k
    BY <1>1, <1>12 DEF IsChain, seq, n
  <2> QED BY <1>5, <1>12, <2>1 DEF IsChain
<1> QED BY <1>3, <1>4, <1>12, <1>13 DEF IsChain, op, D, n, Turn

(* What was seen of a listing of which nothing was missed so far.           *)
Reached(site, p, w) ==
  \A i \in 1..Len(Pages(site, p)) : w.over \/ i < w.at => Shows(site, p, i) \subseteq DOMAIN w.found

LEMMA TurnTaken ==
  ASSUME NEW site, SiteFits(site), NEW p \in Listings(site), NEW w \in Walkers(site, p), NEW i \in 1..PagesCap,
         NEW v, v = Turn(site, p, w, i)
  PROVE  /\ (w.raised => v.raised) /\ (v.listing => w.listing) /\ DOMAIN w.found \subseteq DOMAIN v.found
         /\ ~v.raised /\ v.listing /\ Reached(site, p, w) => Reached(site, p, v)
         /\ i = PagesCap => v.over
<1>1. CASE w.over
  BY <1>1 DEF Turn
<1>2. CASE ~w.over
  <2>1. v = VisitPage(site, p, w, i)
    BY <1>2 DEF Turn
  <2>2. /\ v \in Walkers(site, p) /\ (w.raised => v.raised) /\ (v.listing => w.listing)
        /\ DOMAIN w.found \subseteq DOMAIN v.found
        /\ ~v.raised /\ v.listing => Continues(site, p, w, v)
        /\ i = PagesCap => v.over
    BY <1>2, <2>1, PageVisited
  <2>3. ASSUME ~v.raised, v.listing, Reached(site, p, w), NEW k \in 1..Len(Pages(site, p)), v.over \/ k < v.at
        PROVE  Shows(site, p, k) \subseteq DOMAIN v.found
    <3>1. w.at \in 1..Len(Pages(site, p)) /\ (v.over \/ v.at \in 1..Len(Pages(site, p)))
          /\ Len(Pages(site, p)) \in Nat
      BY <1>2, <2>2, PagesFit DEF Walkers
    <3>2. Continues(site, p, w, v)
      BY <2>2, <2>3
    <3>3. CASE k < w.at
      BY <2>2, <2>3, <3>3 DEF Reached
    <3>4. CASE k = w.at
      BY <3>2, <3>4 DEF Continues
    <3>5. CASE k > w.at
      <4>1. Repos(site, p) = 0
        BY <2>3, <3>1, <3>2, <3>5 DEF Continues
      <4>2. PageFits(site, p, k)
        BY PagesFit
      <4>3. PageOf(site, p, k).rows = <<>>
        BY <4>1, <4>2 DEF PageFits
      <4>4. Shows(site, p, k) = {}
        BY <4>3 DEF Shows, Named
      <4> QED BY <4>4
    <3> QED BY <3>1, <3>3, <3>4, <3>5
  <2> QED BY <2>2, <2>3 DEF Reached
<1> QED BY <1>1, <1>2

LEMMA ListingWalked ==
  ASSUME NEW site, SiteFits(site), NEW p \in Listings(site), NEW w \in Builders(site),
         NEW v, v = WalkListing(site, p, w)
  PROVE  /\ v \in Builders(site) /\ (w.raised => v.raised) /\ (v.listing => w.listing)
         /\ DOMAIN w.found \subseteq DOMAIN v.found
         /\ ~v.raised /\ v.listing =>
              \A i \in 1..Len(Pages(site, p)) : Shows(site, p, i) \subseteq DOMAIN v.found
<1>1. PICK g \in [0..PagesCap -> Walkers(site, p)] :
        /\ g[0] = Start(w) /\ g[PagesCap] = v
        /\ \A k \in 1..PagesCap : g[k] = Turn(site, p, g[k - 1], k)
  BY ListingChain
<1>2. PagesCap \in Nat \ {0}
  BY Caps
<1> DEFINE Kept(k) == /\ (w.raised => g[k].raised) /\ (g[k].listing => w.listing)
                      /\ DOMAIN w.found \subseteq DOMAIN g[k].found
                      /\ ~g[k].raised /\ g[k].listing => Reached(site, p, g[k])
           Upto == {k \in Nat : k <= PagesCap => Kept(k)}
<1>3. Kept(0)
  <2>1. \A i \in 1..Len(Pages(site, p)) : ~(i < 1)
    BY PagesFit
  <2> QED BY <1>1, <2>1, Starts DEF Reached
<1>4. ASSUME NEW k \in Upto PROVE k + 1 \in Upto
  <2>1. SUFFICES ASSUME k + 1 <= PagesCap PROVE Kept(k + 1)
    BY <1>2
  <2>2. k \in 0..PagesCap /\ k + 1 \in 1..PagesCap /\ k + 1 - 1 = k /\ k <= PagesCap
    BY <1>2, <2>1
  <2>3. g[k] \in Walkers(site, p) /\ g[k + 1] = Turn(site, p, g[k], k + 1)
    BY <1>1, <2>2
  <2>4. Kept(k)
    BY <2>2
  <2>5. /\ (g[k].raised => g[k + 1].raised) /\ (g[k + 1].listing => g[k].listing)
        /\ DOMAIN g[k].found \subseteq DOMAIN g[k + 1].found
        /\ ~g[k + 1].raised /\ g[k + 1].listing /\ Reached(site, p, g[k]) => Reached(site, p, g[k + 1])
    BY <2>2, <2>3, TurnTaken
  <2> QED BY <2>4, <2>5
<1>5. Kept(PagesCap)
  <2>1. Nat \subseteq Upto
    <3>1. 0 \in Upto
      BY <1>3
    <3> HIDE DEF Upto
    <3> QED BY <1>4, <3>1, Induction
  <2> QED BY <1>2, <2>1
<1>6. v.over
  <2>1. /\ PagesCap \in 1..PagesCap /\ PagesCap - 1 \in 0..PagesCap
        /\ g[PagesCap - 1] \in Walkers(site, p) /\ v = Turn(site, p, g[PagesCap - 1], PagesCap)
    BY <1>1, <1>2
  <2> QED BY <2>1, TurnTaken
<1>7. v \in Walkers(site, p)
  BY <1>1, <1>2
<1> QED BY <1>1, <1>5, <1>6, <1>7 DEF Reached, Walkers

-----------------------------------------------------------------------------
(* The listings of a site, one after the other.                             *)

LEMMA ListedInOrder ==
  ASSUME NEW site, NEW S, NEW ids \in Seq(S), \A i \in DOMAIN ids : Repos(site, ids[i]) \in Nat \cup {Unreadable},
         NEW ordered, ordered = LargestFirst(site, ids)
  PROVE  /\ DOMAIN ordered = 1..Len(ids) /\ \A k \in 1..Len(ids) : ordered[k] \in S
         /\ \A i \in 1..Len(ids) : \E k \in 1..Len(ids) : ordered[k] = ids[i]
<1> DEFINE n == Len(ids)
           Total(i) == IF Repos(site, ids[i]) = Unreadable THEN 0 ELSE Repos(site, ids[i])
           before == {x \in (DOMAIN ids) \X (DOMAIN ids) :
                        Total(x[1]) > Total(x[2]) \/ (Total(x[1]) = Total(x[2]) /\ x[1] < x[2])}
           InOrder(list) == \A i, j \in DOMAIN ids : i < j => <<list[i], list[j]>> \in before
           order == CHOOSE list \in SetToSeqs(DOMAIN ids) : InOrder(list)
<1>1. n \in Nat /\ DOMAIN ids = 1..n /\ \A i \in 1..n : ids[i] \in S
  OBVIOUS
<1>2. \A i \in 1..n : Total(i) \in Nat
  BY <1>1
<1>3. ordered = [k \in DOMAIN ids |-> ids[order[k]]]
  BY DEF LargestFirst
<1> HIDE DEF Total, n
<1>4. IsOrder(before, 1..n)
  <2>1. \A x, y \in 1..n :
          <<x, y>> \in before <=> Total(x) > Total(y) \/ (Total(x) = Total(y) /\ x < y)
    BY <1>1
  <2> HIDE DEF before
  <2>2. 1..n \subseteq Nat
    BY <1>1
  <2>3. ASSUME NEW x \in 1..n, NEW y \in 1..n, x # y PROVE <<x, y>> \in before \/ <<y, x>> \in before
    BY <1>2, <2>1, <2>2, <2>3
  <2>4. ASSUME NEW x \in 1..n, NEW y \in 1..n, NEW z \in 1..n, <<x, y>> \in before, <<y, z>> \in before
        PROVE  <<x, z>> \in before
    BY <1>2, <2>1, <2>2, <2>4
  <2> QED BY <2>3, <2>4 DEF IsOrder
<1>5. IsFiniteSet(1..n) /\ Cardinality(1..n) = n
  BY <1>1, FS_Interval
<1>6. PICK list \in SetToSeqs(1..n) : Sorted(list, before)
  BY <1>4, <1>5, SortedListExists
<1>7. ASSUME NEW l \in SetToSeqs(1..n)
      PROVE  /\ l \in [1..n -> 1..n] /\ \A x \in 1..n : \E i \in 1..n : l[i] = x
  <2> DEFINE all == 1..n
  <2>1. IsFiniteSet(all) /\ Cardinality(all) = n /\ l \in SetToSeqs(all)
    BY <1>5, <1>7
  <2> HIDE DEF all
  <2>2. l \in [1..n -> all] /\ \A x \in all : \E i \in 1..n : l[i] = x
    BY <2>1, ListOfSet
  <2> QED BY <2>2 DEF all
<1>8. InOrder(list)
  <2> HIDE DEF before
  <2>1. DOMAIN list = 1..n
    BY <1>7
  <2> QED BY <1>1, <1>6, <2>1 DEF Sorted
<1>9. order \in SetToSeqs(1..n)
  <2> HIDE DEF InOrder
  <2> QED BY <1>1, <1>6, <1>8
<1> HIDE DEF order, before, InOrder
<1>10. order \in [1..n -> 1..n] /\ \A x \in 1..n : \E i \in 1..n : order[i] = x
  BY <1>7, <1>9
<1>11. DOMAIN ordered = 1..n /\ \A k \in 1..n : ordered[k] = ids[order[k]]
  BY <1>1, <1>3
<1>12. ASSUME NEW k \in 1..n PROVE ordered[k] \in S
  <2>1. order[k] \in 1..n
    BY <1>10
  <2> QED BY <1>1, <1>11, <2>1
<1>13. ASSUME NEW i \in 1..n PROVE \E k \in 1..n : ordered[k] = ids[i]
  BY <1>10, <1>11
<1> QED BY <1>11, <1>12, <1>13 DEF n

Ordered(site) == LargestFirst(site, Scanned(site))

LEMMA OrderedFacts ==
  ASSUME NEW site, SiteFits(site)
  PROVE  /\ Len(Scanned(site)) \in Nat /\ DOMAIN Ordered(site) = 1..Len(Scanned(site))
         /\ \A k \in 1..Len(Scanned(site)) : Ordered(site)[k] \in Listings(site)
         /\ Len(site.menu) <= PackagesCap =>
              \A p \in Listings(site) : \E k \in 1..Len(Scanned(site)) : Ordered(site)[k] = p
         /\ Len(site.menu) \in Nat
<1>1. IsList(site.menu) /\ Len(site.menu) \in Nat /\ DOMAIN site.menu = 1..Len(site.menu)
  BY DEF SiteFits, IsList
<1> DEFINE ids == Scanned(site)
           Whole == \A p \in Listings(site) : \E i \in 1..Len(ids) : ids[i] = p
<1>2. ids \in Seq(Listings(site)) /\ (Len(site.menu) <= PackagesCap => Whole)
  <2>1. CASE site.menu = <<>>
    <3>1. ids = <<NoPackage>> /\ Listings(site) = {NoPackage}
      BY <2>1 DEF Scanned, Listings
    <3>2. Len(ids) = 1 /\ ids[1] = NoPackage
      BY <3>1
    <3> QED BY <3>1, <3>2
  <2>2. CASE site.menu # <<>>
    <3> DEFINE menu == site.menu
               m == Min({Len(menu), PackagesCap})
    <3>1. Listings(site) = ToSet(menu) /\ menu \in Seq(Listings(site)) /\ ids = SubSeq(menu, 1, m)
      BY <1>1, <2>2 DEF Listings, IsList, Scanned
    <3>2. m \in Nat /\ m <= Len(menu) /\ m \in {Len(menu), PackagesCap} /\ m <= PackagesCap
      BY <1>1, Caps, SmallerOf
    <3>3. Len(menu) <= PackagesCap => m = Len(menu)
      BY <1>1, <3>2, Caps
    <3> HIDE DEF menu, m
    <3>4. ids \in Seq(Listings(site)) /\ Len(ids) = m /\ \A i \in 1..m : ids[i] = menu[i]
      <4>1. \A i \in 1..m : menu[i] \in Listings(site)
        BY <1>1, <3>1, <3>2 DEF menu
      <4> HIDE DEF ids
      <4> QED BY <3>1, <3>2, <4>1
    <3>5. Len(menu) <= PackagesCap => Whole
      BY <1>1, <3>1, <3>3, <3>4 DEF ToSet, menu
    <3> QED BY <3>4, <3>5 DEF menu
  <2> QED BY <2>1, <2>2
<1>3. \A i \in DOMAIN ids : Repos(site, ids[i]) \in Nat \cup {Unreadable}
  <2>1. \A i \in DOMAIN ids : ids[i] \in Listings(site)
    BY <1>2
  <2> QED BY <2>1, PagesFit
<1>4. /\ DOMAIN Ordered(site) = 1..Len(ids) /\ \A k \in 1..Len(ids) : Ordered(site)[k] \in Listings(site)
      /\ \A i \in 1..Len(ids) : \E k \in 1..Len(ids) : Ordered(site)[k] = ids[i]
  <2> HIDE DEF ids
  <2> QED BY <1>2, <1>3, ListedInOrder DEF Ordered, ids
<1>5. Len(ids) \in Nat
  BY <1>2
<1> HIDE DEF ids
<1> QED BY <1>1, <1>2, <1>4, <1>5 DEF ids

(* What CollectSnapshot starts with, and its visit of the k-th listing.     *)
Whole(site) == Len(site.menu) <= PackagesCap
Counted(site) == \A p \in ToSet(Scanned(site)) : Unreadable \notin Counts(site, p)
Unread(site) ==
  \/ site.button /\ site.menu = <<>>
  \/ ~Answered(Pages(site, NoPackage)[1])
  \/ \E p \in ToSet(Scanned(site)) : Counts(site, p) = {Unreadable} \/ ~Answered(Pages(site, p)[1])
First(site) == NewBuilder(Whole(site), Whole(site) /\ Counted(site), Unread(site))
Rest(site, k) == \A j \in k..Len(Ordered(site)) : Repos(site, Ordered(site)[j]) = 0
Visited(site, w, k) ==
  IF AtCap(w.found) THEN [w EXCEPT !.listing = @ /\ Rest(site, k)] ELSE WalkListing(site, Ordered(site)[k], w)

LEMMA FirstBuilder ==
  ASSUME NEW site, SiteFits(site)
  PROVE  First(site) \in Builders(site) /\ First(site).listing = Whole(site) /\ First(site).found = <<>>
<1> DEFINE empty == <<>>
<1>1. empty \in Founds(site)
  <2>1. {} \in SUBSET Displayed(site)
    OBVIOUS
  <2>2. empty \in [{} -> SUBSET Listings(site)]
    OBVIOUS
  <2> HIDE DEF empty
  <2> QED BY <2>1, <2>2, FoundFacts
<1> DEFINE counted == Whole(site) /\ Counted(site)
<1>2. Whole(site) \in BOOLEAN /\ counted \in BOOLEAN /\ Unread(site) \in BOOLEAN
  BY DEF Whole, Counted, Unread
<1>3. First(site) = [found |-> empty, listing |-> Whole(site), counts |-> counted, raised |-> Unread(site),
                     at |-> 1, cursors |-> {}, over |-> FALSE]
  BY DEF First, NewBuilder
<1> HIDE DEF empty, counted
<1>4. First(site) \in Builders(site) /\ First(site).listing = Whole(site) /\ First(site).found = empty
  BY <1>1, <1>2, <1>3 DEF Builders
<1> QED BY <1>4 DEF empty

LEMMA ListingVisited ==
  ASSUME NEW site, SiteFits(site), NEW w \in Builders(site), NEW k \in 1..Len(Scanned(site)),
         NEW v, v = Visited(site, w, k)
  PROVE  /\ v \in Builders(site) /\ (w.raised => v.raised) /\ (v.listing => w.listing)
         /\ DOMAIN w.found \subseteq DOMAIN v.found
         /\ ~v.raised /\ v.listing =>
              \A i \in 1..Len(Pages(site, Ordered(site)[k])) : Shows(site, Ordered(site)[k], i) \subseteq DOMAIN v.found
<1> DEFINE p == Ordered(site)[k]
<1>1. p \in Listings(site) /\ Len(Ordered(site)) = Len(Scanned(site)) /\ Len(Scanned(site)) \in Nat
  <2>1. /\ Len(Scanned(site)) \in Nat /\ DOMAIN Ordered(site) = 1..Len(Scanned(site)) /\ p \in Listings(site)
        /\ \A j \in 1..Len(Scanned(site)) : Ordered(site)[j] \in Listings(site)
    BY OrderedFacts
  <2>2. Ordered(site) = [j \in DOMAIN Scanned(site) |-> Ordered(site)[j]]
    BY DEF Ordered, LargestFirst
  <2> QED BY <2>1, <2>2
<1>2. CASE AtCap(w.found)
  <2> DEFINE listing == w.listing /\ Rest(site, k)
  <2>1. listing \in BOOLEAN /\ (listing => w.listing /\ Rest(site, k)) /\ v = [w EXCEPT !.listing = listing]
    BY <1>2 DEF Visited, Builders
  <2> HIDE DEF listing
  <2>2. v \in Builders(site) /\ v.raised = w.raised /\ v.listing = listing /\ v.found = w.found
    BY <2>1 DEF Builders
  <2>3. ASSUME listing, NEW i \in 1..Len(Pages(site, p)) PROVE Shows(site, p, i) = {}
    <3>1. Repos(site, p) = 0
      BY <1>1, <2>1, <2>3 DEF Rest
    <3>2. PageFits(site, p, i)
      BY <1>1, PagesFit
    <3>3. PageOf(site, p, i).rows = <<>>
      BY <3>1, <3>2 DEF PageFits
    <3> QED BY <3>3 DEF Shows, Named
  <2> QED BY <2>1, <2>2, <2>3
<1>3. CASE ~AtCap(w.found)
  <2>1. v = WalkListing(site, p, w)
    BY <1>3 DEF Visited
  <2> HIDE DEF p
  <2>2. /\ v \in Builders(site) /\ (w.raised => v.raised) /\ (v.listing => w.listing)
        /\ DOMAIN w.found \subseteq DOMAIN v.found
        /\ ~v.raised /\ v.listing =>
             \A i \in 1..Len(Pages(site, p)) : Shows(site, p, i) \subseteq DOMAIN v.found
    BY <1>1, <2>1, ListingWalked
  <2> QED BY <2>2 DEF p
<1> QED BY <1>2, <1>3

LEMMA SiteChain ==
  ASSUME NEW site, SiteFits(site)
  PROVE  \E g \in [0..Len(Scanned(site)) -> Builders(site)] :
           /\ g[0] = First(site) /\ g[Len(Scanned(site))] = CollectSnapshot(site)
           /\ \A k \in 1..Len(Scanned(site)) : g[k] = Visited(site, g[k - 1], k)
<1> DEFINE op(d, x) == Visited(site, d, x)
           n == Len(Scanned(site))
           base == First(site)
           seq == [k \in DOMAIN Ordered(site) |-> k]
           D == Builders(site)
           step == [x \in D \X (1..n) |-> op(x[1], seq[x[2]])]
           P(h) == h = [s \in SUBSET DOMAIN seq |->
                          IF s = {} THEN base ELSE op(h[s \ {Max(s)}], seq[Max(s)])]
           h == CHOOSE x : P(x)
<1>1. n \in Nat /\ DOMAIN seq = 1..n
  BY OrderedFacts
<1>2. \A d \in D, i \in 1..n : seq[i] = i /\ op(d, seq[i]) \in D
  <2>1. \A i \in 1..n : seq[i] = i
    BY <1>1
  <2>2. \A d \in D, i \in 1..n : Visited(site, d, i) \in D
    BY ListingVisited
  <2> QED BY <2>1, <2>2
<1>3. CollectSnapshot(site) = h[1..n]
  BY <1>1 DEF FoldLeft, MapThenFoldSet, CollectSnapshot, Visited, First, Ordered, Rest, Whole, Counted, Unread
<1>4. base \in D
  BY FirstBuilder
<1> HIDE DEF op, D, base, seq
<1>5. IsStep(step, D, 1..n) /\ \A d \in D, i \in 1..n : step[<<d, i>>] = op(d, seq[i])
  BY <1>2 DEF IsStep
<1> HIDE DEF step, n
<1>6. /\ IsPick(LastOf(n), 1..n) /\ IsFiniteSet(1..n)
      /\ \A s \in SUBSET (1..n) : LastOf(n)[s] = Max(s) /\ (s # {} => Max(s) \in 1..n)
  BY <1>1, LastIsPicked, MaxOfNumbers
<1>7. PICK f : IsFoldOf(f, D, base, 1..n, step, LastOf(n))
  BY <1>4, <1>5, <1>6, SubsetFoldExists
<1>8. P(f)
  <2>1. ASSUME NEW s \in SUBSET (1..n)
        PROVE  f[s] = IF s = {} THEN base ELSE op(f[s \ {Max(s)}], seq[Max(s)])
    <3>1. s # {} => f[s \ {Max(s)}] \in D
      BY <1>7 DEF IsFoldOf
    <3> QED BY <1>5, <1>6, <1>7, <3>1 DEF IsFoldOf
  <2>2. f = [s \in SUBSET (1..n) |-> f[s]]
    BY <1>7 DEF IsFoldOf
  <2>3. f = [s \in SUBSET (1..n) |-> IF s = {} THEN base ELSE op(f[s \ {Max(s)}], seq[Max(s)])]
    BY <2>1, <2>2, Zenon
  <2> QED BY <1>1, <2>3
<1>9. P(h)
  <2> HIDE DEF P
  <2> QED BY <1>8
<1> HIDE DEF h
<1>10. \A s \in SUBSET (1..n) : h[s] = IF s = {} THEN base ELSE op(h[s \ {Max(s)}], seq[Max(s)])
  BY <1>1, <1>9, Zenon
<1> HIDE DEF P
<1>11. Folds(h, D, base, 1..n, step, LastOf(n))
  <2>1. h[{}] = base
    BY <1>10
  <2>2. ASSUME NEW s \in SUBSET (1..n), s # {}, h[s \ {Max(s)}] \in D
        PROVE  h[s] = step[<<h[s \ {Max(s)}], Max(s)>>]
    BY <1>5, <1>6, <1>10, <2>2
  <2> QED BY <1>6, <2>1, <2>2 DEF Folds
<1>12. PICK g : IsChain(g, D, base, n, step) /\ g[n] = h[1..n]
  BY <1>1, <1>4, <1>5, <1>11, FoldIsChain
<1>13. ASSUME NEW k \in 1..n PROVE g[k] = op(g[k - 1], k)
  <2>1. k - 1 \in 0..n /\ g[k - 1] \in D /\ seq[k] = k
    BY <1>1, <1>2, <1>12 DEF IsChain
  <2> QED BY <1>5, <1>12, <2>1 DEF IsChain
<1> QED BY <1>3, <1>12, <1>13 DEF IsChain, op, D, n, base

(* A snapshot that is called complete holds every dependent on display.     *)
LEMMA CompleteHasAll ==
  ASSUME NEW site, SiteFits(site), NEW v, v = CollectSnapshot(site), ~v.raised, v.listing
  PROVE  Displayed(site) \subseteq DOMAIN v.found
<1> DEFINE n == Len(Scanned(site))
<1>1. PICK g \in [0..n -> Builders(site)] :
        g[0] = First(site) /\ g[n] = v /\ \A k \in 1..n : g[k] = Visited(site, g[k - 1], k)
  BY SiteChain
<1>2. n \in Nat
  BY OrderedFacts
<1> DEFINE Has(k, j) == \A i \in 1..Len(Pages(site, Ordered(site)[j])) :
                          Shows(site, Ordered(site)[j], i) \subseteq DOMAIN g[k].found
           Kept(k) == /\ g[k].listing => Whole(site)
                      /\ ~g[k].raised /\ g[k].listing => \A j \in 1..k : Has(k, j)
           Upto == {k \in Nat : k <= n => Kept(k)}
<1>3. Kept(0)
  BY <1>1, FirstBuilder
<1>4. ASSUME NEW k \in Upto PROVE k + 1 \in Upto
  <2>1. SUFFICES ASSUME k + 1 <= n PROVE Kept(k + 1)
    BY <1>2
  <2>2. k \in 0..n /\ k + 1 \in 1..n /\ k + 1 - 1 = k /\ k <= n
    BY <1>2, <2>1
  <2>3. g[k] \in Builders(site) /\ g[k + 1] = Visited(site, g[k], k + 1)
    BY <1>1, <2>2
  <2>4. Kept(k)
    BY <2>2
  <2>5. /\ (g[k].raised => g[k + 1].raised) /\ (g[k + 1].listing => g[k].listing)
        /\ DOMAIN g[k].found \subseteq DOMAIN g[k + 1].found
        /\ ~g[k + 1].raised /\ g[k + 1].listing => Has(k + 1, k + 1)
    BY <2>2, <2>3, ListingVisited
  <2>6. ASSUME ~g[k + 1].raised, g[k + 1].listing, NEW j \in 1..(k + 1) PROVE Has(k + 1, j)
    <3>1. CASE j = k + 1
      BY <2>5, <2>6, <3>1
    <3>2. CASE j \in 1..k
      BY <2>4, <2>5, <2>6, <3>2
    <3> QED BY <2>2, <3>1, <3>2
  <2> HIDE DEF Has
  <2> QED BY <2>4, <2>5, <2>6
<1>5. Kept(n)
  <2>1. Nat \subseteq Upto
    <3>1. 0 \in Upto
      BY <1>3
    <3> HIDE DEF Upto
    <3> QED BY <1>4, <3>1, Induction
  <2> QED BY <1>2, <2>1
<1>6. Whole(site) /\ \A j \in 1..n : Has(n, j)
  BY <1>1, <1>5
<1> SUFFICES ASSUME NEW d \in Displayed(site) PROVE d \in DOMAIN v.found
  OBVIOUS
<1>7. PICK p \in Listings(site) : \E i \in 1..Len(Pages(site, p)) : d \in Shows(site, p, i)
  BY DisplayedIsShown
<1>8. PICK j \in 1..n : Ordered(site)[j] = p
  BY <1>6, OrderedFacts DEF Whole
<1>9. Has(n, j)
  BY <1>6
<1> QED BY <1>1, <1>7, <1>8, <1>9

(* What a site displays is finite.                                          *)
LEMMA FiniteList ==
  ASSUME NEW list, IsList(list)
  PROVE  IsFiniteSet(ToSet(list))
<1>1. Len(list) \in Nat /\ DOMAIN list = 1..Len(list)
  BY DEF IsList
<1>2. IsFiniteSet(DOMAIN list)
  BY <1>1, FS_Interval
<1>3. ToSet(list) = {list[i] : i \in DOMAIN list}
  BY DEF ToSet
<1> QED BY <1>2, <1>3, FiniteImage

LEMMA DisplayedIsFinite ==
  ASSUME NEW site, SiteFits(site)
  PROVE  IsFiniteSet(Displayed(site))
<1>1. IsFiniteSet(Listings(site))
  <2>1. CASE site.menu = <<>>
    BY <2>1, FS_Singleton DEF Listings
  <2>2. CASE site.menu # <<>>
    BY <2>2, FiniteList DEF SiteFits, Listings
  <2> QED BY <2>1, <2>2
<1> DEFINE pagesOf == [p \in Listings(site) |-> ToSet(Pages(site, p))]
           pages == UNION {pagesOf[p] : p \in Listings(site)}
           rowsOf == [page \in pages |-> ToSet(page.rows)]
           rows == UNION {rowsOf[page] : page \in pages}
           repoOf == [row \in rows |-> row.repo]
<1>2. ASSUME NEW p \in Listings(site)
      PROVE  /\ IsFiniteSet(pagesOf[p])
             /\ \A page \in pagesOf[p] : IsFiniteSet(ToSet(page.rows))
  <2>1. IsList(Pages(site, p)) /\ \A i \in 1..Len(Pages(site, p)) : IsList(Pages(site, p)[i].rows)
    BY DEF SiteFits, ListingFits, Pages
  <2>2. ASSUME NEW page \in ToSet(Pages(site, p)) PROVE IsFiniteSet(ToSet(page.rows))
    <3>1. PICK i \in DOMAIN Pages(site, p) : page = Pages(site, p)[i]
      BY DEF ToSet
    <3>2. i \in 1..Len(Pages(site, p))
      BY <3>1, PagesFit
    <3>3. IsList(page.rows)
      BY <2>1, <3>1, <3>2
    <3> QED BY <3>3, FiniteList
  <2> QED BY <2>1, <2>2, FiniteList
<1>3. IsFiniteSet(pages)
  <2> DEFINE all == {pagesOf[p] : p \in Listings(site)}
  <2>1. \A T \in all : IsFiniteSet(T)
    BY <1>2
  <2>2. DOMAIN pagesOf = Listings(site)
    OBVIOUS
  <2> HIDE DEF pagesOf
  <2>3. IsFiniteSet(all)
    BY <1>1, <2>2, FiniteImage
  <2> HIDE DEF all
  <2>4. IsFiniteSet(UNION all)
    BY <2>1, <2>3, FS_UNION
  <2> QED BY <2>4 DEF all
<1>4. \A page \in pages : IsFiniteSet(rowsOf[page])
  BY <1>2
<1>5. DOMAIN rowsOf = pages
  OBVIOUS
<1>6. IsFiniteSet(rows)
  <2> HIDE DEF pages, rowsOf
  <2> DEFINE all == {rowsOf[page] : page \in pages}
  <2>1. \A T \in all : IsFiniteSet(T)
    BY <1>4
  <2>2. IsFiniteSet(all)
    BY <1>3, <1>5, FiniteImage
  <2> HIDE DEF all
  <2>3. IsFiniteSet(UNION all)
    BY <2>1, <2>2, FS_UNION
  <2> QED BY <2>3 DEF all
<1>7. IsFiniteSet({repoOf[row] : row \in rows})
  <2>1. DOMAIN repoOf = rows
    OBVIOUS
  <2> HIDE DEF rows, repoOf
  <2> QED BY <1>6, <2>1, FiniteImage
<1>8. Displayed(site) \subseteq {repoOf[row] : row \in rows}
  BY DEF Displayed
<1> HIDE DEF repoOf, rows
<1> QED BY <1>7, <1>8, FS_Subset

(* At a plain site no cap is met.                                           *)
LEMMA PlainNeverCapped ==
  ASSUME NEW site, SiteFits(site), Plain(site), NEW found \in Founds(site)
  PROVE  ~AtCap(found)
<1>1. DOMAIN found \subseteq Displayed(site)
  BY FoundFacts
<1>2. /\ Cardinality(DOMAIN found) \in Nat /\ Cardinality(Displayed(site)) \in Nat
      /\ Cardinality(DOMAIN found) <= Cardinality(Displayed(site))
  BY <1>1, DisplayedIsFinite, FS_Subset, FS_CardinalityType
<1>3. Cardinality(Displayed(site)) < EntryCap /\ EntryCap \in Nat
  BY Caps DEF Plain
<1> QED BY <1>2, <1>3 DEF AtCap

(* The walk is at page k of the listing, or over.                           *)
OnTrack(w, k) == w.over \/ (w.at = k /\ w.cursors = 2..k)

LEMMA PlainPage ==
  ASSUME NEW site, SiteFits(site), Plain(site), NEW p \in Listings(site), NEW i \in 1..Len(Pages(site, p))
  PROVE  /\ Len(Pages(site, p)) <= PagesCap /\ Entries(PageOf(site, p, i)) = DOMAIN PageOf(site, p, i).rows
         /\ PageOf(site, p, i).rows = <<>> => i = 1 /\ Repos(site, p) = 0
         /\ PageOf(site, p, i).next = IF i < Len(Pages(site, p)) THEN i + 1 ELSE NoPage
<1>1. i \in DOMAIN Pages(site, p) /\ Len(Pages(site, p)) \in Nat \ {0}
  BY PagesFit
<1>2. /\ Len(Pages(site, p)) <= PagesCap
      /\ Pages(site, p)[1].rows = <<>> => Repos(site, p) = 0
      /\ PageOf(site, p, i).next = IF i < Len(Pages(site, p)) THEN i + 1 ELSE NoPage
      /\ \A j \in DOMAIN PageOf(site, p, i).rows : PageOf(site, p, i).rows[j].readable
      /\ i > 1 => PageOf(site, p, i).rows # <<>>
  BY <1>1 DEF Plain, PageOf
<1>3. Entries(PageOf(site, p, i)) = DOMAIN PageOf(site, p, i).rows
  BY <1>2 DEF Entries
<1>4. i # 1 => i > 1
  BY <1>1
<1> QED BY <1>2, <1>3, <1>4 DEF PageOf

LEMMA PlainTurn ==
  ASSUME NEW site, SiteFits(site), Plain(site), NEW p \in Listings(site), NEW w \in Walkers(site, p),
         NEW i \in 1..PagesCap, OnTrack(w, i), NEW v, v = Turn(site, p, w, i), ~v.raised
  PROVE  (w.listing => v.listing) /\ OnTrack(v, i + 1)
<1>1. CASE w.over
  BY <1>1 DEF Turn, OnTrack
<1>2. CASE ~w.over
  <2> DEFINE page == PageOf(site, p, i)
             n == Len(Pages(site, p))
             consumed == Consumed(site.source, page, w.found)
             found == AddDependents(w.found, Named(page, consumed) \ {site.source}, p)
             truncated == Truncated(page, consumed = Entries(page), found, w.cursors, i)
             empty == w.listing /\ i = 1 /\ Repos(site, p) = 0
             whole == w.listing /\ Entries(page) = DOMAIN page.rows /\ ~truncated
             ends == truncated \/ page.next = NoPage \/ AtCap(found)
  <2>1. /\ w \in Builders(site) /\ w.at = i /\ i \in 1..n /\ w.cursors = 2..i /\ n \in Nat \ {0}
        /\ v = VisitPage(site, p, w, i) /\ PagesCap \in Nat
    BY <1>2, PagesFit, Caps DEF Walkers, OnTrack, Turn
  <2>2. /\ n <= PagesCap /\ Entries(page) = DOMAIN page.rows
        /\ page.rows = <<>> => i = 1 /\ Repos(site, p) = 0
        /\ page.next = IF i < n THEN i + 1 ELSE NoPage
    BY <2>1, PlainPage
  <2>3. PageFits(site, p, i)
    BY <2>1, PagesFit
  <2>4. /\ page.link \in BOOLEAN /\ (page.link <=> i < n)
        /\ Len(page.rows) \in Nat /\ DOMAIN page.rows = 1..Len(page.rows)
    BY <2>3 DEF PageFits
  <2>5. v = IF ~Answered(page) \/ (Entries(page) = {} /\ page.rows # <<>>) THEN [w EXCEPT !.raised = TRUE, !.over = TRUE]
            ELSE IF page.rows = <<>> THEN [w EXCEPT !.listing = empty, !.over = TRUE]
            ELSE [w EXCEPT !.found = found, !.listing = whole, !.over = ends,
                           !.at = page.next, !.cursors = w.cursors \cup {page.next}]
    BY <2>1 DEF VisitPage, PageOf
  <2>6. w.listing \in BOOLEAN /\ empty \in BOOLEAN /\ whole \in BOOLEAN /\ ends \in BOOLEAN
    BY <2>1 DEF Builders
  <2>7. CASE ~Answered(page) \/ (Entries(page) = {} /\ page.rows # <<>>)
    <3>1. v = [w EXCEPT !.raised = TRUE, !.over = TRUE]
      BY <2>5, <2>7
    <3>2. v.raised
      BY <2>1, <3>1 DEF Builders
    <3> QED BY <3>2
  <2>8. CASE ~(~Answered(page) \/ (Entries(page) = {} /\ page.rows # <<>>)) /\ page.rows = <<>>
    <3>1. empty <=> w.listing
      BY <2>2, <2>6, <2>8
    <3> HIDE DEF empty
    <3>2. v = [w EXCEPT !.listing = empty, !.over = TRUE]
      BY <2>5, <2>8
    <3>3. v.listing = empty /\ v.over
      BY <2>1, <3>2 DEF Builders
    <3> QED BY <2>6, <3>1, <3>3 DEF OnTrack
  <2>9. CASE ~(~Answered(page) \/ (Entries(page) = {} /\ page.rows # <<>>)) /\ page.rows # <<>>
    <3>1. found \in Founds(site)
      <4>1. Named(page, consumed) \ {site.source} \subseteq Displayed(site)
        <5>1. consumed \subseteq DOMAIN page.rows
          BY DEF Consumed, Entries
        <5>2. Named(page, consumed) \ {site.source} \subseteq Shows(site, p, i)
          BY <5>1 DEF Named, Shows
        <5>3. Shows(site, p, i) \subseteq Displayed(site)
          BY <2>1, DisplayedIsShown
        <5> QED BY <5>2, <5>3
      <4>2. w.found \in Founds(site)
        BY <2>1 DEF Builders
      <4> HIDE DEF page, consumed
      <4> QED BY <4>1, <4>2, AddedAreFounds
    <3>2. ~AtCap(found)
      BY <3>1, PlainNeverCapped
    <3>3. /\ page.next = NoPage => (truncated <=> page.link)
          /\ page.next # NoPage => (truncated <=> page.next \in w.cursors \/ i = PagesCap)
      <4> DEFINE all == consumed = Entries(page)
      <4>1. all \in BOOLEAN /\ truncated = Truncated(page, all, found, w.cursors, i)
        OBVIOUS
      <4> HIDE DEF page, consumed, found, truncated, all
      <4> QED BY <2>4, <3>2, <4>1, TruncatedCases
    <3>4. page.next = NoPage <=> ~(i < n)
      BY <2>1, <2>2, Caps
    <3>5. ~truncated
      <4> HIDE DEF page, truncated
      <4>1. CASE i < n
        <5>1. page.next = i + 1 /\ i # PagesCap /\ i + 1 \notin 2..i
          BY <2>1, <2>2, <4>1
        <5> QED BY <2>1, <3>3, <3>4, <4>1, <5>1
      <4>2. CASE ~(i < n)
        BY <2>4, <3>3, <3>4, <4>2
      <4> QED BY <4>1, <4>2
    <3>6. (whole <=> w.listing) /\ (ends <=> ~(i < n))
      <4> HIDE DEF page, truncated, found
      <4> QED BY <2>2, <2>6, <3>2, <3>4, <3>5
    <3>7. page.next \in Nat \cup {NoPage}
      BY <2>1, <2>2
    <3> DEFINE cursors == w.cursors \cup {page.next}
    <3>8. v = [w EXCEPT !.found = found, !.listing = whole, !.over = ends, !.at = page.next, !.cursors = cursors]
      BY <2>5, <2>9
    <3>9. i < n => cursors = 2..(i + 1) /\ page.next = i + 1
      BY <2>1, <2>2
    <3> HIDE DEF page, found, truncated, whole, ends, cursors
    <3>10. v.listing = whole /\ v.over = ends /\ v.at = page.next /\ v.cursors = cursors
      BY <2>1, <3>8 DEF Builders
    <3> QED BY <2>6, <3>6, <3>9, <3>10 DEF OnTrack
  <2> QED BY <2>7, <2>8, <2>9
<1> QED BY <1>1, <1>2

LEMMA PlainListing ==
  ASSUME NEW site, SiteFits(site), Plain(site), NEW p \in Listings(site), NEW w \in Builders(site),
         NEW v, v = WalkListing(site, p, w), ~v.raised
  PROVE  w.listing => v.listing
<1>1. PICK g \in [0..PagesCap -> Walkers(site, p)] :
        /\ g[0] = Start(w) /\ g[PagesCap] = v
        /\ \A k \in 1..PagesCap : g[k] = Turn(site, p, g[k - 1], k)
  BY ListingChain
<1>2. PagesCap \in Nat \ {0}
  BY Caps
<1> DEFINE Kept(k) == ~g[k].raised => (w.listing => g[k].listing) /\ OnTrack(g[k], k + 1)
           Upto == {k \in Nat : k <= PagesCap => Kept(k)}
<1>3. Kept(0)
  <2>1. 2..1 = {} /\ 0 + 1 = 1
    OBVIOUS
  <2> QED BY <1>1, <2>1, Starts DEF OnTrack
<1>4. ASSUME NEW k \in Upto PROVE k + 1 \in Upto
  <2>1. SUFFICES ASSUME k + 1 <= PagesCap PROVE Kept(k + 1)
    BY <1>2
  <2>2. k \in 0..PagesCap /\ k + 1 \in 1..PagesCap /\ k + 1 - 1 = k /\ k <= PagesCap
    BY <1>2, <2>1
  <2>3. g[k] \in Walkers(site, p) /\ g[k + 1] = Turn(site, p, g[k], k + 1)
    BY <1>1, <2>2
  <2>4. Kept(k)
    BY <2>2
  <2>5. g[k].raised => g[k + 1].raised
    BY <2>2, <2>3, TurnTaken
  <2>6. ASSUME ~g[k + 1].raised
        PROVE  (w.listing => g[k + 1].listing) /\ OnTrack(g[k + 1], k + 1 + 1)
    <3>1. (w.listing => g[k].listing) /\ OnTrack(g[k], k + 1)
      BY <2>4, <2>5, <2>6
    <3>2. (g[k].listing => g[k + 1].listing) /\ OnTrack(g[k + 1], k + 1 + 1)
      BY <2>2, <2>3, <2>6, <3>1, PlainTurn
    <3> QED BY <3>1, <3>2
  <2> QED BY <2>6
<1>5. Kept(PagesCap)
  <2>1. Nat \subseteq Upto
    <3>1. 0 \in Upto
      BY <1>3
    <3> HIDE DEF Upto
    <3> QED BY <1>4, <3>1, Induction
  <2> QED BY <1>2, <2>1
<1> QED BY <1>1, <1>5

LEMMA PlainIsComplete ==
  ASSUME NEW site, SiteFits(site), Plain(site), NEW v, v = CollectSnapshot(site), ~v.raised
  PROVE  v.listing
<1> DEFINE n == Len(Scanned(site))
<1>1. PICK g \in [0..n -> Builders(site)] :
        g[0] = First(site) /\ g[n] = v /\ \A k \in 1..n : g[k] = Visited(site, g[k - 1], k)
  BY SiteChain
<1>2. n \in Nat
  BY OrderedFacts
<1> DEFINE Kept(k) == ~g[k].raised => g[k].listing
           Upto == {k \in Nat : k <= n => Kept(k)}
<1>3. Kept(0)
  <2>1. Whole(site)
    BY DEF Plain, Whole
  <2> QED BY <1>1, <2>1, FirstBuilder
<1>4. ASSUME NEW k \in Upto PROVE k + 1 \in Upto
  <2>1. SUFFICES ASSUME k + 1 <= n PROVE Kept(k + 1)
    BY <1>2
  <2>2. k \in 0..n /\ k + 1 \in 1..n /\ k + 1 - 1 = k /\ k <= n
    BY <1>2, <2>1
  <2>3. g[k] \in Builders(site) /\ g[k + 1] = Visited(site, g[k], k + 1)
    BY <1>1, <2>2
  <2>4. Kept(k) /\ (g[k].raised => g[k + 1].raised)
    BY <2>2, <2>3, ListingVisited
  <2>5. ~AtCap(g[k].found)
    BY <2>3, PlainNeverCapped DEF Builders
  <2>6. g[k + 1] = WalkListing(site, Ordered(site)[k + 1], g[k]) /\ Ordered(site)[k + 1] \in Listings(site)
    BY <2>2, <2>3, <2>5, OrderedFacts DEF Visited
  <2>7. ~g[k + 1].raised => (g[k].listing => g[k + 1].listing)
    BY <2>3, <2>6, PlainListing
  <2> QED BY <2>4, <2>7
<1>5. Kept(n)
  <2>1. Nat \subseteq Upto
    <3>1. 0 \in Upto
      BY <1>3
    <3> HIDE DEF Upto
    <3> QED BY <1>4, <3>1, Induction
  <2> QED BY <1>2, <2>1
<1> QED BY <1>1, <1>5

LEMMA NoneMisjudged == Misjudged = {}
<1> SUFFICES ASSUME NEW site \in Misjudged PROVE FALSE
  OBVIOUS
<1> DEFINE walk == CollectSnapshot(site)
<1>1. /\ site \in Sites /\ ~walk.raised
      /\ \/ walk.listing /\ ~(Displayed(site) \subseteq DOMAIN walk.found)
         \/ Plain(site) /\ ~walk.listing
  BY DEF Misjudged
<1>2. SiteFits(site)
  BY <1>1, SitesFit
<1> HIDE DEF walk
<1>3. CASE walk.listing /\ ~(Displayed(site) \subseteq DOMAIN walk.found)
  BY <1>1, <1>2, <1>3, CompleteHasAll DEF walk
<1>4. CASE Plain(site) /\ ~walk.listing
  BY <1>1, <1>2, <1>4, PlainIsComplete DEF walk
<1> QED BY <1>1, <1>3, <1>4

(* At every site, whatever does not parse and whichever cap is met: a       *)
(* snapshot that is called complete holds every dependent on display, and   *)
(* a plain site gives a complete one (collect_snapshot).                    *)
THEOREM CompleteIsWholeAlways == Spec => []CompleteIsWhole
<1>1. CompleteIsWhole
  BY NoneMisjudged DEF CompleteIsWhole
<1> QED BY <1>1, PTL
=============================================================================
