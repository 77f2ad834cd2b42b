------------------------- MODULE SbomPipelineProofs -------------------------
(***************************************************************************)
(* Theorems about SbomPipeline, for any number of requests, repositories,  *)
(* documents and worker slots.                                             *)
(***************************************************************************)
EXTENDS SbomPipeline, TLAPS

(* TypeOK with what the slots' program counters say of their registers: a   *)
(* busy slot holds a job, and one about to chain holds a row.               *)
TypeInv ==
  /\ TypeOK
  /\ \A w \in Slots : pc[w] # "idle" => job[w] \in Job
  /\ \A w \in Slots : pc[w] = "enqueue" => next[w] \in Requests

LEMMA InitTyped == Init => TypeInv
BY SbomConstants DEF Init, TypeInv, TypeOK, Phase, Answers, Status, SlotPc

LEMMA RequestStepTyped ==
  ASSUME TypeInv, NEW q \in Requests, RequestStep(q) \/ RequestLost(q) \/ DeferAckLost(q)
  PROVE  TypeInv'
<1> USE SbomConstants
<1>1. CASE RejectInvalid(q)
  BY <1>1 DEF TypeInv, TypeOK, RejectInvalid, requestVars, slotVars, graphVars,
              seedVars, Phase, Answers, Status
<1>2. CASE CheckExisting(q)
  BY <1>2 DEF TypeInv, TypeOK, CheckExisting, Existing, slotVars, graphVars,
              seedVars, Phase, Answers, Status
<1>3. CASE InsertDuplicate(q)
  BY <1>3 DEF TypeInv, TypeOK, InsertDuplicate, slotVars, graphVars, seedVars,
              Phase, Answers, Status
<1>4. CASE CommitPending(q)
  BY <1>4 DEF TypeInv, TypeOK, CommitPending, slotVars, graphVars, seedVars,
              Phase, Answers, Status
<1>5. CASE AdmissionRaises(q)
  BY <1>5 DEF TypeInv, TypeOK, AdmissionRaises, slotVars, graphVars, seedVars,
              Phase, Answers, Status
<1>6. CASE DeferProcessing(q) \/ DeferAckLost(q)
  <2>1. [sub |-> q, expect |-> "pending"] \in Job
    BY DEF Job, Expect
  <2>2. todo' \in [Repos -> Job \cup {NoJob}]
    BY <1>6, <2>1 DEF TypeInv, TypeOK, DeferProcessing, DeferAckLost, DeferWithLock
  <2>3. phase' \in [Requests -> Phase]
    BY <1>6 DEF TypeInv, TypeOK, DeferProcessing, DeferAckLost, Phase, Answers
  <2> QED
    BY <1>6, <2>2, <2>3 DEF TypeInv, TypeOK, DeferProcessing, DeferAckLost,
                            slotVars, graphVars, seedVars
<1>7. CASE DeferRaises(q)
  BY <1>7 DEF TypeInv, TypeOK, DeferRaises, slotVars, graphVars, seedVars,
              Phase, Answers
<1>8. CASE RejectUnqueued(q)
  BY <1>8 DEF TypeInv, TypeOK, RejectUnqueued, slotVars, graphVars, seedVars,
              Phase, Answers, Status
<1>9. CASE RequestLost(q)
  BY <1>9 DEF TypeInv, TypeOK, RequestLost, slotVars, graphVars, seedVars,
              Phase, Answers, Status
<1> QED BY <1>1, <1>2, <1>3, <1>4, <1>5, <1>6, <1>7, <1>8, <1>9 DEF RequestStep

LEMMA JobStepTyped ==
  ASSUME TypeInv, NEW w \in Slots,
         JobStep(w) \/ JobLost(w) \/ \E r \in Repos : Fetch(w, r)
  PROVE  TypeInv'
<1> USE SbomConstants
<1>1. CASE \E r \in Repos : Fetch(w, r)
  BY <1>1 DEF TypeInv, TypeOK, Fetch, Goto, requestVars, graphVars, seedVars, SlotPc
<1>2. CASE Load(w)
  BY <1>2 DEF TypeInv, TypeOK, Load, Goto, Release, requestVars, graphVars,
              seedVars, SlotPc
<1>3. CASE ReadFails(w)
  BY <1>3 DEF TypeInv, TypeOK, ReadFails, Goto, requestVars, graphVars, seedVars, SlotPc
<1>4. CASE DeleteRootEdges(w)
  BY <1>4 DEF TypeInv, TypeOK, DeleteRootEdges, RepoOn, Row, Goto, requestVars,
              graphVars, seedVars, SlotPc, Job
<1>5. CASE CommitGraph(w)
  <2>1. Row(w) \in Requests
    BY <1>5 DEF TypeInv, CommitGraph, Row, Job
  <2>2. edges' \in [Repos -> SUBSET Targets] /\ applied' \in [Repos -> SUBSET Contents]
    BY <1>5, <2>1 DEF TypeInv, TypeOK, CommitGraph, RepoOn, Unseen
  <2>3. status' \in [Requests -> Status] /\ missing' \subseteq Requests
    BY <1>5, <2>1 DEF TypeInv, TypeOK, CommitGraph, Status
  <2> QED
    BY <1>5, <2>2, <2>3 DEF TypeInv, TypeOK, CommitGraph, Goto, requestVars,
                            seedVars, SlotPc
<1>6. CASE ApplyRaises(w)
  BY <1>6 DEF TypeInv, TypeOK, ApplyRaises, Goto, requestVars, graphVars, seedVars, SlotPc
<1>7. CASE MarkFailed(w)
  BY <1>7 DEF TypeInv, TypeOK, MarkFailed, Row, Goto, requestVars, graphVars,
              seedVars, SlotPc, Status, Job
<1>8. CASE ChainSelect(w)
  BY <1>8 DEF TypeInv, TypeOK, ChainSelect, ChainCandidates, Goto, Release,
              requestVars, graphVars, seedVars, SlotPc
<1>9. CASE ChainDefer(w)
  BY <1>9 DEF TypeInv, TypeOK, ChainDefer, DeferWithLock, Release, requestVars,
              graphVars, seedVars, SlotPc, Job
<1>10. CASE JobLost(w)
  BY <1>10 DEF TypeInv, TypeOK, JobLost, Release, requestVars, graphVars,
               seedVars, SlotPc
<1> QED
  BY <1>1, <1>2, <1>3, <1>4, <1>5, <1>6, <1>7, <1>8, <1>9, <1>10 DEF JobStep

LEMMA SeedTyped == ASSUME TypeInv, Seed PROVE TypeInv'
<1>1. CASE SeedSelect
  BY <1>1 DEF TypeInv, TypeOK, SeedSelect, Recoverable, requestVars, slotVars, graphVars
<1>2. CASE \E q \in Requests : SeedDefer(q)
  BY <1>2, SbomConstants DEF TypeInv, TypeOK, SeedDefer, DeferWithLock, requestVars,
                             slotVars, graphVars, Job, Expect
<1> QED BY <1>1, <1>2 DEF Seed

LEMMA NextTyped == TypeInv /\ [Next]_vars => TypeInv'
<1> SUFFICES ASSUME TypeInv, [Next]_vars PROVE TypeInv'
  OBVIOUS
<1>1. CASE UNCHANGED vars
  BY <1>1 DEF TypeInv, TypeOK, vars, requestVars, slotVars, graphVars, seedVars
<1>2. CASE Next
  BY <1>2, RequestStepTyped, JobStepTyped, SeedTyped
     DEF Next, Serve, Crash, LoseAck
<1> QED BY <1>1, <1>2

(* Every variable of the pipeline keeps its type in every behaviour, with   *)
(* crashes, lost acknowledgements and seed runs.                            *)
THEOREM TypeCorrect == Spec => []TypeOK
<1>1. TypeInv => TypeOK
  BY DEF TypeInv
<1> QED BY <1>1, InitTyped, NextTyped, PTL DEF Spec

-----------------------------------------------------------------------------
(* Rows and the handlers, jobs and seeds that name them.                    *)

(* Where a row exists: not before its handler has inserted it, and always   *)
(* once a handler, a job, a chain or a seed run carries its identifier.     *)
RowsInv ==
  /\ \A q \in Requests :
       phase[q] \in {"idle", "storing", "copying"} => status[q] = "absent"
  /\ \A q \in Requests :
       phase[q] \in {"deferring", "rejecting"} => status[q] # "absent"
  /\ \A q \in Requests : phase[q] = "copying" => copied[q] # "absent"
  /\ \A q \in batch : status[q] # "absent"
  /\ \A w \in Slots : pc[w] = "enqueue" =>
       ClaimOf[next[w]] = RepoOn(w) /\ status[next[w]] # "absent"
  /\ JobsNameCommittedRows

LEMMA InitRows == Init => RowsInv
BY SbomConstants DEF Init, RowsInv, JobsNameCommittedRows

LEMMA RequestStepRows ==
  ASSUME TypeInv, RowsInv, NEW q \in Requests,
         RequestStep(q) \/ RequestLost(q) \/ DeferAckLost(q)
  PROVE  RowsInv'
<1> USE SbomConstants
<1>1. CASE RejectInvalid(q)
  BY <1>1 DEF TypeInv, TypeOK, RowsInv, JobsNameCommittedRows, RejectInvalid,
              Row, RepoOn, slotVars, seedVars, Job
<1>2. CASE CheckExisting(q)
  BY <1>2, SMTT(20) DEF TypeInv, TypeOK, RowsInv, JobsNameCommittedRows, CheckExisting,
              Existing, Row, RepoOn, slotVars, seedVars, Job
<1>3. CASE InsertDuplicate(q)
  BY <1>3 DEF TypeInv, TypeOK, RowsInv, JobsNameCommittedRows, InsertDuplicate,
              Row, RepoOn, slotVars, seedVars, Job
<1>4. CASE CommitPending(q)
  BY <1>4 DEF TypeInv, TypeOK, RowsInv, JobsNameCommittedRows, CommitPending,
              Row, RepoOn, slotVars, seedVars, Job
<1>5. CASE AdmissionRaises(q)
  BY <1>5 DEF TypeInv, TypeOK, RowsInv, JobsNameCommittedRows, AdmissionRaises,
              Row, RepoOn, slotVars, seedVars, Job
<1>6. CASE DeferProcessing(q) \/ DeferAckLost(q)
  BY <1>6 DEF TypeInv, TypeOK, RowsInv, JobsNameCommittedRows, DeferProcessing,
              DeferAckLost, DeferWithLock, Row, RepoOn, slotVars, seedVars, Job
<1>7. CASE DeferRaises(q)
  BY <1>7 DEF TypeInv, TypeOK, RowsInv, JobsNameCommittedRows, DeferRaises,
              Row, RepoOn, slotVars, seedVars, Job
<1>8. CASE RejectUnqueued(q)
  BY <1>8 DEF TypeInv, TypeOK, RowsInv, JobsNameCommittedRows, RejectUnqueued,
              Row, RepoOn, slotVars, seedVars, Job
<1>9. CASE RequestLost(q)
  BY <1>9 DEF TypeInv, TypeOK, RowsInv, JobsNameCommittedRows, RequestLost,
              Row, RepoOn, slotVars, seedVars, Job
<1> QED BY <1>1, <1>2, <1>3, <1>4, <1>5, <1>6, <1>7, <1>8, <1>9 DEF RequestStep

LEMMA JobStepRows ==
  ASSUME TypeInv, RowsInv, NEW w \in Slots,
         JobStep(w) \/ JobLost(w) \/ \E r \in Repos : Fetch(w, r)
  PROVE  RowsInv'
<1> USE SbomConstants
<1>1. CASE \E r \in Repos : Fetch(w, r)
  BY <1>1 DEF TypeInv, TypeOK, RowsInv, JobsNameCommittedRows, Fetch, Goto, Row,
              RepoOn, requestVars, seedVars, Job
<1>2. CASE Load(w)
  BY <1>2 DEF TypeInv, TypeOK, RowsInv, JobsNameCommittedRows, Load, Goto, Release,
              Row, RepoOn, requestVars, seedVars
<1>3. CASE ReadFails(w) \/ DeleteRootEdges(w) \/ ApplyRaises(w)
  BY <1>3 DEF TypeInv, TypeOK, RowsInv, JobsNameCommittedRows, ReadFails,
              DeleteRootEdges, ApplyRaises, Goto, Row, RepoOn, requestVars, seedVars
<1>4. CASE CommitGraph(w)
  BY <1>4 DEF TypeInv, TypeOK, RowsInv, JobsNameCommittedRows, CommitGraph, Goto,
              Row, RepoOn, requestVars, seedVars
<1>5. CASE MarkFailed(w)
  BY <1>5 DEF TypeInv, TypeOK, RowsInv, JobsNameCommittedRows, MarkFailed, Goto,
              Row, RepoOn, requestVars, seedVars
<1>6. CASE ChainSelect(w)
  BY <1>6, SMTT(20) DEF TypeInv, TypeOK, RowsInv, JobsNameCommittedRows, ChainSelect,
              ChainCandidates, Goto, Release, Row, RepoOn, requestVars, seedVars,
              Job, Expect
<1>7. CASE ChainDefer(w)
  BY <1>7 DEF TypeInv, TypeOK, RowsInv, JobsNameCommittedRows, ChainDefer,
              DeferWithLock, Release, Row, RepoOn, requestVars, seedVars, Job
<1>8. CASE JobLost(w)
  BY <1>8 DEF TypeInv, TypeOK, RowsInv, JobsNameCommittedRows, JobLost, Release,
              Row, RepoOn, requestVars, seedVars
<1> QED
  BY <1>1, <1>2, <1>3, <1>4, <1>5, <1>6, <1>7, <1>8 DEF JobStep

LEMMA SeedRows == ASSUME TypeInv, RowsInv, Seed PROVE RowsInv'
<1>1. CASE SeedSelect
  BY <1>1 DEF TypeInv, TypeOK, RowsInv, JobsNameCommittedRows, SeedSelect, Recoverable,
              Row, RepoOn, requestVars, slotVars
<1>2. CASE \E q \in Requests : SeedDefer(q)
  BY <1>2, SbomConstants
     DEF TypeInv, TypeOK, RowsInv, JobsNameCommittedRows, SeedDefer, DeferWithLock,
         Row, RepoOn, requestVars, slotVars, Job
<1> QED BY <1>1, <1>2 DEF Seed

LEMMA NextRows == TypeInv /\ RowsInv /\ [Next]_vars => RowsInv'
<1> SUFFICES ASSUME TypeInv, RowsInv, [Next]_vars PROVE RowsInv'
  OBVIOUS
<1>1. CASE UNCHANGED vars
  BY <1>1 DEF RowsInv, JobsNameCommittedRows, Row, RepoOn, vars, requestVars,
              slotVars, seedVars
<1>2. CASE Next
  BY <1>2, RequestStepRows, JobStepRows, SeedRows DEF Next, Serve, Crash, LoseAck
<1> QED BY <1>1, <1>2

(* Whatever crashes, is lost or is seeded, a job names a committed row of   *)
(* the repository whose lock it was deferred under: the row is committed    *)
(* before the defer, and the chain query filters on repository_claim        *)
(* (handle_sbom_submission, process_sbom_submission).                       *)
THEOREM JobsNamed == Spec => []JobsNameCommittedRows
<1>1. RowsInv => JobsNameCommittedRows
  BY DEF RowsInv
<1> QED BY <1>1, InitTyped, NextTyped, InitRows, NextRows, PTL DEF Spec

-----------------------------------------------------------------------------
(* The status of a row and the graph of its repository.                     *)

(* A row that is or is about to be processed has its document in the graph. *)
AppliedInv ==
  /\ ProcessedWasApplied
  /\ \A q \in Requests : phase[q] = "copying" /\ copied[q] = "processed"
                            => BodyOf[q] \in applied[ClaimOf[q]]

LEMMA InitApplied == Init => AppliedInv
BY DEF Init, AppliedInv, ProcessedWasApplied

LEMMA RequestStepApplied ==
  ASSUME TypeInv, AppliedInv, NEW q \in Requests,
         RequestStep(q) \/ RequestLost(q) \/ DeferAckLost(q)
  PROVE  AppliedInv'
<1> USE SbomConstants DEF TypeInv, TypeOK, AppliedInv, ProcessedWasApplied, graphVars
<1>1. CASE RejectInvalid(q)
  BY <1>1 DEF RejectInvalid
<1>2. CASE CheckExisting(q)
  BY <1>2 DEF CheckExisting, Existing, SameDocument
<1>3. CASE InsertDuplicate(q)
  BY <1>3 DEF InsertDuplicate
<1>4. CASE CommitPending(q)
  BY <1>4 DEF CommitPending
<1>5. CASE AdmissionRaises(q)
  BY <1>5 DEF AdmissionRaises
<1>6. CASE DeferProcessing(q) \/ DeferAckLost(q) \/ DeferRaises(q)
  BY <1>6 DEF DeferProcessing, DeferAckLost, DeferRaises
<1>7. CASE RejectUnqueued(q)
  BY <1>7 DEF RejectUnqueued
<1>8. CASE RequestLost(q)
  BY <1>8 DEF RequestLost
<1> QED BY <1>1, <1>2, <1>3, <1>4, <1>5, <1>6, <1>7, <1>8 DEF RequestStep

LEMMA JobStepApplied ==
  ASSUME TypeInv, AppliedInv, NEW w \in Slots,
         JobStep(w) \/ JobLost(w) \/ \E r \in Repos : Fetch(w, r)
  PROVE  AppliedInv'
<1> USE SbomConstants
    DEF TypeInv, TypeOK, AppliedInv, ProcessedWasApplied, requestVars, graphVars
<1>1. CASE \E r \in Repos : Fetch(w, r)
  BY <1>1 DEF Fetch
<1>2. CASE Load(w) \/ ReadFails(w) \/ DeleteRootEdges(w) \/ ApplyRaises(w)
  BY <1>2 DEF Load, ReadFails, DeleteRootEdges, ApplyRaises
<1>3. CASE CommitGraph(w)
  <2>1. Row(w) \in Requests /\ RepoOn(w) = ClaimOf[Row(w)]
    BY <1>3 DEF CommitGraph, Row, RepoOn, Job
  <2>2. \A r \in Repos : applied[r] \subseteq applied'[r]
    BY <1>3, <2>1 DEF CommitGraph
  <2>3. BodyOf[Row(w)] \in applied'[ClaimOf[Row(w)]]
    BY <1>3, <2>1 DEF CommitGraph
  <2> QED BY <1>3, <2>1, <2>2, <2>3 DEF CommitGraph
<1>4. CASE MarkFailed(w)
  BY <1>4 DEF MarkFailed
<1>5. CASE ChainSelect(w) \/ ChainDefer(w) \/ JobLost(w)
  BY <1>5 DEF ChainSelect, ChainDefer, JobLost
<1> QED BY <1>1, <1>2, <1>3, <1>4, <1>5 DEF JobStep

LEMMA NextApplied == TypeInv /\ AppliedInv /\ [Next]_vars => AppliedInv'
<1> SUFFICES ASSUME TypeInv, AppliedInv, [Next]_vars PROVE AppliedInv'
  OBVIOUS
<1>1. CASE UNCHANGED vars
  BY <1>1 DEF AppliedInv, ProcessedWasApplied, vars, requestVars, graphVars
<1>2. CASE Seed
  BY <1>2 DEF Seed, SeedSelect, SeedDefer, AppliedInv, ProcessedWasApplied,
              requestVars, graphVars
<1>3. CASE Next /\ ~Seed
  BY <1>3, RequestStepApplied, JobStepApplied DEF Next, Serve, Crash, LoseAck
<1> QED BY <1>1, <1>2, <1>3

(* A row says "processed" only when its own document reached the graph of   *)
(* its repository, whatever crashes, is lost or is seeded, and also when    *)
(* the status was copied from an earlier row (parse_sbom_and_persist_graph  *)
(* commits edges and status together).                                      *)
THEOREM ProcessedApplied == Spec => []ProcessedWasApplied
<1>1. AppliedInv => ProcessedWasApplied
  BY DEF AppliedInv
<1> QED BY <1>1, InitTyped, NextTyped, InitApplied, NextApplied, PTL DEF Spec

-----------------------------------------------------------------------------
(* What was refused, and what did not validate.                             *)

(* An invalid document gets no further than its handler's first step, and a *)
(* slot that replaces edges has parsed its document.                        *)
SettledInv ==
  /\ RefusedIsSettled
  /\ \A q \in Requests : BodyOf[q] \in Malformed => phase[q] \in {"idle", "invalid", "error"}
  /\ \A w \in Slots : pc[w] = "replacing" => BodyOf[Row(w)] \notin Malformed

LEMMA InitSettled == Init => SettledInv
BY SbomConstants DEF Init, SettledInv, RefusedIsSettled

LEMMA RequestStepSettled ==
  ASSUME TypeInv, RowsInv, SettledInv, NEW q \in Requests,
         RequestStep(q) \/ RequestLost(q) \/ DeferAckLost(q)
  PROVE  SettledInv'
<1> USE SbomConstants
    DEF TypeInv, TypeOK, RowsInv, SettledInv, RefusedIsSettled, slotVars, graphVars, Row
<1>1. CASE RejectInvalid(q)
  BY <1>1 DEF RejectInvalid
<1>2. CASE CheckExisting(q)
  BY <1>2 DEF CheckExisting
<1>3. CASE InsertDuplicate(q) \/ CommitPending(q)
  BY <1>3 DEF InsertDuplicate, CommitPending
<1>4. CASE AdmissionRaises(q)
  BY <1>4 DEF AdmissionRaises
<1>5. CASE DeferProcessing(q) \/ DeferAckLost(q) \/ DeferRaises(q)
  BY <1>5 DEF DeferProcessing, DeferAckLost, DeferRaises
<1>6. CASE RejectUnqueued(q) \/ RequestLost(q)
  BY <1>6 DEF RejectUnqueued, RequestLost
<1> QED BY <1>1, <1>2, <1>3, <1>4, <1>5, <1>6 DEF RequestStep

LEMMA JobStepSettled ==
  ASSUME TypeInv, RowsInv, SettledInv, NEW w \in Slots,
         JobStep(w) \/ JobLost(w) \/ \E r \in Repos : Fetch(w, r)
  PROVE  SettledInv'
<1> USE SbomConstants
    DEF TypeInv, TypeOK, SettledInv, RefusedIsSettled, requestVars, graphVars, Row,
        Goto, Release
<1>1. CASE \E r \in Repos : Fetch(w, r)
  BY <1>1 DEF Fetch
<1>2. CASE Load(w) \/ ReadFails(w) \/ DeleteRootEdges(w) \/ ApplyRaises(w)
  BY <1>2 DEF Load, ReadFails, DeleteRootEdges, ApplyRaises
<1>3. CASE CommitGraph(w)
  <2>1. Row(w) \in Requests /\ BodyOf[Row(w)] \notin Malformed
    BY <1>3 DEF CommitGraph, Job
  <2>2. \A r \in Repos : applied'[r] \subseteq applied[r] \cup {BodyOf[Row(w)]}
    BY <1>3, <2>1 DEF CommitGraph
  <2>3. \A q \in Requests : status'[q] = IF q = Row(w) THEN "processed" ELSE status[q]
    BY <1>3 DEF CommitGraph
  <2> QED BY <1>3, <2>1, <2>2, <2>3 DEF CommitGraph
<1>4. CASE MarkFailed(w)
  BY <1>4 DEF MarkFailed, RowsInv, JobsNameCommittedRows
<1>5. CASE ChainSelect(w) \/ ChainDefer(w) \/ JobLost(w)
  BY <1>5 DEF ChainSelect, ChainDefer, JobLost
<1> QED BY <1>1, <1>2, <1>3, <1>4, <1>5 DEF JobStep

LEMMA NextSettled == TypeInv /\ RowsInv /\ SettledInv /\ [Next]_vars => SettledInv'
<1> SUFFICES ASSUME TypeInv, RowsInv, SettledInv, [Next]_vars PROVE SettledInv'
  OBVIOUS
<1>1. CASE UNCHANGED vars \/ Seed
  BY <1>1 DEF SettledInv, RefusedIsSettled, Row, vars, requestVars, slotVars, graphVars,
              Seed, SeedSelect, SeedDefer
<1>2. CASE Next /\ ~Seed
  BY <1>2, RequestStepSettled, JobStepSettled DEF Next, Serve, Crash, LoseAck
<1> QED BY <1>1, <1>2

(* The caller of a 503 finds its row settled, and a document that did not   *)
(* validate never reaches the graph, although a seed run may select the     *)
(* failed row again (handle_sbom_submission's error paths,                  *)
(* parse_sbom_and_persist_graph).                                           *)
THEOREM RefusedSettled == Spec => []RefusedIsSettled
<1>1. SettledInv => RefusedIsSettled
  BY DEF SettledInv
<1> QED
  BY <1>1, InitTyped, NextTyped, InitRows, NextRows, InitSettled, NextSettled, PTL
     DEF Spec

-----------------------------------------------------------------------------
(* Where the root edges of a repository come from.                          *)

(* Until a first document is applied nothing writes the repository's edges, *)
(* so a slot that is replacing them saw every one of them.                  *)
EdgesInv ==
  /\ EdgesAreDeclared
  /\ \A w \in Slots : pc[w] = "replacing" /\ applied[RepoOn(w)] = {}
                        => snap[w] = edges[RepoOn(w)]

LEMMA InitEdges == Init => EdgesInv
BY SbomConstants DEF Init, EdgesInv, EdgesAreDeclared

(* A step that writes no graph and moves no slot into the replacement.      *)
LEMMA EdgesKept ==
  ASSUME EdgesInv, UNCHANGED graphVars,
         \A w \in Slots : pc'[w] = "replacing"
            => pc[w] = "replacing" /\ job'[w] = job[w] /\ snap'[w] = snap[w]
  PROVE  EdgesInv'
BY DEF EdgesInv, EdgesAreDeclared, graphVars, RepoOn, Row

LEMMA CommitEdges ==
  ASSUME TypeInv, EdgesInv, NEW w \in Slots, CommitGraph(w)
  PROVE  EdgesInv'
<1> DEFINE r == RepoOn(w)
           c == BodyOf[Row(w)]
<1>1. Row(w) \in Requests /\ r \in Repos /\ c \in Contents
  BY SbomConstants DEF TypeInv, CommitGraph, Row, RepoOn, Job
<1>2. /\ edges'[r] = (edges[r] \ snap[w]) \cup DepsOf[c]
      /\ applied'[r] = applied[r] \cup {c}
      /\ \A s \in Repos \ {r} : edges'[s] = edges[s] /\ applied'[s] = applied[s]
  BY <1>1 DEF CommitGraph, Unseen, TypeInv, TypeOK
<1>3. applied[r] = {} => edges'[r] = DepsOf[c]
  BY <1>2 DEF EdgesInv, CommitGraph
<1>4. \A t \in edges[r] : applied[r] # {} => \E d \in applied[r] : t \in DepsOf[d]
  <2>1. applied[r] # {} => edges[r] \subseteq UNION {DepsOf[d] : d \in applied[r]}
    BY <1>1 DEF EdgesInv, EdgesAreDeclared
  <2> QED BY <2>1
<1>5. edges'[r] \subseteq UNION {DepsOf[d] : d \in applied'[r]}
  <2> SUFFICES ASSUME NEW t \in edges'[r] PROVE \E d \in applied'[r] : t \in DepsOf[d]
    OBVIOUS
  <2> QED BY <1>2, <1>3, <1>4
<1>6. \A d \in Contents : applied'[r] = {d} => edges'[r] = DepsOf[d]
  <2> SUFFICES ASSUME NEW d \in Contents, applied'[r] = {d} PROVE edges'[r] = DepsOf[d]
    OBVIOUS
  <2>1. d = c /\ (applied[r] = {} \/ applied[r] = {d})
    BY <1>2
  <2>2. applied[r] = {d} => edges[r] = DepsOf[d]
    BY <1>1 DEF EdgesInv, EdgesAreDeclared
  <2> QED BY <1>2, <1>3, <2>1, <2>2
<1>7. EdgesAreDeclared'
  <2> SUFFICES ASSUME NEW s \in Repos
               PROVE  /\ applied'[s] = {} => edges'[s] = Inferred
                      /\ applied'[s] # {}
                           => edges'[s] \subseteq UNION {DepsOf[d] : d \in applied'[s]}
                      /\ \A d \in Contents : applied'[s] = {d} => edges'[s] = DepsOf[d]
    BY DEF EdgesAreDeclared
  <2>1. CASE s = r
    BY <1>2, <1>5, <1>6, <2>1
  <2>2. CASE s # r
    BY <1>2, <2>2 DEF EdgesInv, EdgesAreDeclared
  <2> QED BY <2>1, <2>2
<1>8. ASSUME NEW v \in Slots, pc'[v] = "replacing", applied'[RepoOn(v)'] = {}
      PROVE  snap'[v] = edges'[RepoOn(v)']
  <2>1. v # w /\ pc[v] = "replacing" /\ snap'[v] = snap[v] /\ RepoOn(v)' = RepoOn(v)
    BY <1>8 DEF CommitGraph, Goto, TypeInv, TypeOK, RepoOn, Row
  <2>2. RepoOn(v) \in Repos \ {r}
    BY <1>2, <1>8, <2>1, SbomConstants DEF TypeInv, RepoOn, Row, Job
  <2> QED BY <1>2, <1>8, <2>1, <2>2 DEF EdgesInv
<1> QED BY <1>7, <1>8 DEF EdgesInv

LEMMA NextEdges == TypeInv /\ EdgesInv /\ [Next]_vars => EdgesInv'
<1> SUFFICES ASSUME TypeInv, EdgesInv, [Next]_vars PROVE EdgesInv'
  OBVIOUS
<1>1. CASE \E q \in Requests : RequestStep(q) \/ RequestLost(q) \/ DeferAckLost(q)
  BY <1>1, EdgesKept
     DEF RequestStep, RejectInvalid, CheckExisting, InsertDuplicate, CommitPending,
         AdmissionRaises, DeferProcessing, DeferRaises, RejectUnqueued, RequestLost,
         DeferAckLost, slotVars
<1>2. CASE UNCHANGED vars \/ Seed
  BY <1>2, EdgesKept DEF vars, Seed, SeedSelect, SeedDefer, slotVars
<1>3. CASE \E w \in Slots : JobStep(w) \/ JobLost(w) \/ \E r \in Repos : Fetch(w, r)
  <2>1. PICK w \in Slots : JobStep(w) \/ JobLost(w) \/ \E r \in Repos : Fetch(w, r)
    BY <1>3
  <2>2. CASE CommitGraph(w)
    BY <2>2, CommitEdges
  <2>3. CASE DeleteRootEdges(w)
    BY <2>3 DEF DeleteRootEdges, Goto, EdgesInv, EdgesAreDeclared, TypeInv, TypeOK,
                graphVars, RepoOn, Row
  <2>4. ASSUME ~CommitGraph(w), ~DeleteRootEdges(w)
        PROVE  /\ UNCHANGED graphVars /\ pc'[w] # "replacing"
               /\ \A v \in Slots \ {w} : pc'[v] = pc[v] /\ job'[v] = job[v] /\ snap'[v] = snap[v]
    <3>1. CASE (\E r \in Repos : Fetch(w, r)) \/ Load(w) \/ ReadFails(w) \/ ApplyRaises(w)
      BY <3>1 DEF Fetch, Load, ReadFails, ApplyRaises, Goto, Release, TypeInv, TypeOK
    <3>2. CASE MarkFailed(w) \/ ChainSelect(w) \/ ChainDefer(w) \/ JobLost(w)
      BY <3>2 DEF MarkFailed, ChainSelect, ChainDefer, JobLost, Goto, Release, TypeInv, TypeOK
    <3> QED BY <2>1, <2>4, <3>1, <3>2 DEF JobStep
  <2>5. CASE ~CommitGraph(w) /\ ~DeleteRootEdges(w)
    <3>1. ASSUME NEW v \in Slots, pc'[v] = "replacing"
          PROVE  pc[v] = "replacing" /\ job'[v] = job[v] /\ snap'[v] = snap[v]
      BY <2>4, <2>5, <3>1
    <3> QED BY <2>4, <2>5, <3>1, EdgesKept
  <2> QED BY <2>2, <2>3, <2>5
<1> QED BY <1>1, <1>2, <1>3 DEF Next, Serve, Crash, LoseAck

(* No edge comes from a document that was not applied, the first document   *)
(* applied removes what the crawls had inferred, and while one document was *)
(* applied the edges are its own, with any number of slots replacing the    *)
(* same repository's edges at once (_replace_root_depends_on_edges).        *)
THEOREM EdgesDeclared == Spec => []EdgesAreDeclared
<1>1. EdgesInv => EdgesAreDeclared
  BY DEF EdgesInv
<1> QED BY <1>1, InitTyped, NextTyped, InitEdges, NextEdges, PTL DEF Spec

-----------------------------------------------------------------------------
(* No lost wake-up, in the deployment without seed runs.                    *)

(* Without seed runs every job selects pending rows, and a job that is past *)
(* its own row has left it in another status.                               *)
CarryInv ==
  /\ \A r \in Repos : todo[r] # NoJob => todo[r].expect = "pending"
  /\ \A w \in Slots : pc[w] # "idle" => job[w].expect = "pending"
  /\ \A w \in Slots : pc[w] \in {"chain", "enqueue"} => status[Row(w)] # "pending"
  /\ QueuedIsCarried

LEMMA InitCarry == Init => CarryInv
BY SbomConstants DEF Init, CarryInv, QueuedIsCarried

(* A step that leaves jobs and slots alone keeps CarryInv if it queues no   *)
(* pending row and turns no row of a finishing job pending.                 *)
LEMMA CarryKept ==
  ASSUME CarryInv, UNCHANGED <<todo, pc, job>>,
         \A p \in Requests : phase'[p] = "queued" /\ status'[p] = "pending"
                             => phase[p] = "queued" /\ status[p] = "pending",
         \A w \in Slots : pc[w] \in {"chain", "enqueue"} /\ status'[Row(w)] = "pending"
                          => status[Row(w)] = "pending"
  PROVE  CarryInv'
<1>1. \A w \in Slots : Row(w)' = Row(w) /\ RepoOn(w)' = RepoOn(w)
  BY DEF Row, RepoOn
<1>2. \A r \in Repos : Carried(r)' = Carried(r)
  BY <1>1 DEF Carried
<1>3. QueuedIsCarried'
  BY <1>2, SbomConstants DEF CarryInv, QueuedIsCarried
<1> QED BY <1>1, <1>3 DEF CarryInv

(* Handlers: only a defer makes a row queued, and it leaves a job under the *)
(* lock, its own or the one it met.                                         *)
LEMMA RequestStepCarries ==
  ASSUME TypeInv, RowsInv, CarryInv, NEW q \in Requests, RequestStep(q)
  PROVE  CarryInv'
<1> USE SbomConstants
<1>1. CASE DeferProcessing(q)
  <2>1. todo' \in [Repos -> Job \cup {NoJob}]
    BY <1>1, RequestStepTyped DEF TypeInv, TypeOK
  <2>2. \A r \in Repos : /\ todo[r] # NoJob => todo'[r] = todo[r]
                         /\ todo'[r] # NoJob => todo'[r].expect = "pending"
    BY <1>1 DEF DeferProcessing, DeferWithLock, CarryInv, TypeInv, TypeOK
  <2>3. todo'[ClaimOf[q]] # NoJob
    BY <1>1, NoJobIsNoJob DEF DeferProcessing, DeferWithLock, TypeInv, TypeOK, Job, Expect
  <2>4. UNCHANGED <<status, pc, job>>
    BY <1>1 DEF DeferProcessing, slotVars
  <2>5. \A p \in Requests \ {q} : phase'[p] = phase[p]
    BY <1>1 DEF DeferProcessing, TypeInv, TypeOK
  <2> QED
    BY <2>2, <2>3, <2>4, <2>5 DEF CarryInv, QueuedIsCarried, Carried, Row, RepoOn
<1>2. CASE RejectInvalid(q) \/ CheckExisting(q) \/ AdmissionRaises(q)
           \/ DeferRaises(q) \/ RejectUnqueued(q)
  <2>1. \A p \in Requests : /\ phase'[p] = "queued" => phase[p] = "queued"
                            /\ status'[p] = "pending" => status[p] = "pending"
    BY <1>2 DEF RejectInvalid, CheckExisting, AdmissionRaises, DeferRaises,
                RejectUnqueued, TypeInv, TypeOK
  <2>2. UNCHANGED <<todo, pc, job>>
    BY <1>2 DEF RejectInvalid, CheckExisting, AdmissionRaises, DeferRaises,
                RejectUnqueued, slotVars
  <2>3. \A w \in Slots : pc[w] # "idle" => Row(w) \in Requests
    BY DEF TypeInv, Row, Job
  <2> QED BY <2>1, <2>2, <2>3, CarryKept
<1>3. CASE InsertDuplicate(q) \/ CommitPending(q)
  <2>1. status[q] = "absent"
    BY <1>3 DEF InsertDuplicate, CommitPending, RowsInv
  <2>2. \A w \in Slots : pc[w] # "idle" => Row(w) \in Requests \ {q}
    BY <2>1 DEF RowsInv, JobsNameCommittedRows, TypeInv, Row, Job
  <2>3. /\ \A p \in Requests \ {q} : status'[p] = status[p] /\ phase'[p] = phase[p]
        /\ phase'[q] # "queued"
    BY <1>3 DEF InsertDuplicate, CommitPending, TypeInv, TypeOK
  <2>4. UNCHANGED <<todo, pc, job>>
    BY <1>3 DEF InsertDuplicate, CommitPending, slotVars
  <2> QED BY <2>2, <2>3, <2>4, CarryKept
<1> QED BY <1>1, <1>2, <1>3 DEF RequestStep

(* Jobs: one that stays busy keeps carrying its repository, and one that    *)
(* ends found no other pending row or left a job under the lock.            *)
LEMMA JobStepCarries ==
  ASSUME TypeInv, RowsInv, CarryInv, NEW w \in Slots,
         JobStep(w) \/ \E r \in Repos : Fetch(w, r)
  PROVE  CarryInv'
<1> USE SbomConstants
<1>1. CASE \E r \in Repos : Fetch(w, r)
  <2>1. PICK r \in Repos : Fetch(w, r)
    BY <1>1
  <2>2. /\ todo[r] \in Job /\ todo[r].expect = "pending"
        /\ ClaimOf[todo[r].sub] = r
    BY <2>1 DEF Fetch, TypeInv, TypeOK, RowsInv, JobsNameCommittedRows, CarryInv
  <2>3. /\ job'[w] = todo[r] /\ pc'[w] = "load"
        /\ \A v \in Slots \ {w} : job'[v] = job[v] /\ pc'[v] = pc[v]
        /\ \A s \in Repos \ {r} : todo'[s] = todo[s]
        /\ todo'[r] = NoJob
        /\ pc[w] = "idle"
        /\ UNCHANGED <<phase, status>>
    BY <2>1 DEF Fetch, Goto, TypeInv, TypeOK, requestVars
  <2>4. \A s \in Repos : Carried(s) => Carried(s)'
    BY <2>2, <2>3 DEF Carried, RepoOn, Row
  <2> QED BY <2>2, <2>3, <2>4 DEF CarryInv, QueuedIsCarried, Row
<1>2. CASE Load(w)
  <2>1. status[Row(w)] # "absent"
    BY <1>2 DEF Load, RowsInv, JobsNameCommittedRows
  <2> QED
    BY <1>2, <2>1, SMTT(20) DEF Load, Goto, CarryInv, QueuedIsCarried, Carried, RepoOn, Row,
                      TypeInv, TypeOK, requestVars
<1>3. CASE ReadFails(w) \/ DeleteRootEdges(w) \/ ApplyRaises(w)
  BY <1>3 DEF ReadFails, DeleteRootEdges, ApplyRaises, Goto, CarryInv,
              QueuedIsCarried, Carried, RepoOn, Row, TypeInv, TypeOK, requestVars
<1>4. CASE CommitGraph(w) \/ MarkFailed(w)
  <2>1. /\ pc[w] # "idle" /\ pc'[w] = "chain"
        /\ \A v \in Slots \ {w} : pc'[v] = pc[v]
        /\ UNCHANGED <<phase, todo, job>>
    BY <1>4 DEF CommitGraph, MarkFailed, Goto, TypeInv, TypeOK, requestVars
  <2>2. Row(w) \in Requests /\ \A v \in Slots : pc[v] # "idle" => Row(v) \in Requests
    BY <2>1 DEF TypeInv, Row, Job
  <2>3. /\ status'[Row(w)] # "pending"
        /\ \A q \in Requests : status'[q] = "pending" => status[q] = "pending"
    BY <1>4, <2>2 DEF CommitGraph, MarkFailed, TypeInv, TypeOK
  <2>4. \A s \in Repos : Carried(s) => Carried(s)'
    BY <2>1 DEF Carried, RepoOn, Row
  <2> QED BY <2>1, <2>2, <2>3, <2>4 DEF CarryInv, QueuedIsCarried, Row
<1>5. CASE ChainSelect(w)
  <2>1. CASE ChainCandidates(w) = {}
    <3>1. \A q \in Requests : ClaimOf[q] = RepoOn(w) => status[q] # "pending"
      BY <1>5, <2>1 DEF ChainSelect, ChainCandidates, CarryInv
    <3>2. \A v \in Slots \ {w} : job'[v] = job[v] /\ pc'[v] = pc[v]
      BY <1>5, <2>1 DEF ChainSelect, Release, TypeInv, TypeOK
    <3>3. pc'[w] = "idle" /\ UNCHANGED <<todo, phase, status>>
      BY <1>5, <2>1 DEF ChainSelect, Release, TypeInv, TypeOK, requestVars
    <3>4. \A s \in Repos \ {RepoOn(w)} : Carried(s) => Carried(s)'
      BY <3>2, <3>3 DEF Carried, RepoOn, Row
    <3> QED BY <3>1, <3>2, <3>3, <3>4 DEF CarryInv, QueuedIsCarried, Row
  <2>2. CASE ChainCandidates(w) # {}
    BY <1>5, <2>2 DEF ChainSelect, Goto, CarryInv, QueuedIsCarried, Carried, RepoOn,
                      Row, TypeInv, TypeOK, requestVars
  <2> QED BY <2>1, <2>2
<1>6. CASE ChainDefer(w)
  <2>1. RepoOn(w) \in Repos /\ job[w].expect = "pending" /\ next[w] \in Requests
    BY <1>6 DEF ChainDefer, CarryInv, TypeInv, RepoOn, Row, Job
  <2>2. /\ todo'[RepoOn(w)] # NoJob
        /\ \A r \in Repos : /\ todo[r] # NoJob => todo'[r] = todo[r]
                            /\ todo'[r] # NoJob => todo'[r].expect = "pending"
    BY <1>6, <2>1, NoJobIsNoJob
       DEF ChainDefer, DeferWithLock, CarryInv, TypeInv, TypeOK, Job, Expect
  <2>3. /\ \A v \in Slots \ {w} : job'[v] = job[v] /\ pc'[v] = pc[v]
        /\ pc'[w] = "idle"
        /\ UNCHANGED <<phase, status>>
    BY <1>6 DEF ChainDefer, Release, TypeInv, TypeOK, requestVars
  <2>4. \A s \in Repos : Carried(s) => Carried(s)'
    BY <2>1, <2>2, <2>3 DEF Carried, RepoOn, Row
  <2> QED BY <2>2, <2>3, <2>4 DEF CarryInv, QueuedIsCarried, Row
<1> QED BY <1>1, <1>2, <1>3, <1>4, <1>5, <1>6 DEF JobStep

(* A submission answered with "queued" is never left pending with nobody to *)
(* process it, although the repository's lock may have swallowed its own    *)
(* defer (defer_with_lock) and two jobs of the repository may overlap.      *)
THEOREM NoLostWakeup == ServeSpec => []QueuedIsCarried
<1>1. TypeInv /\ RowsInv /\ CarryInv /\ [Serve]_vars => CarryInv'
  <2> SUFFICES ASSUME TypeInv, RowsInv, CarryInv, [Serve]_vars PROVE CarryInv'
    OBVIOUS
  <2>1. CASE UNCHANGED vars
    BY <2>1 DEF CarryInv, QueuedIsCarried, Carried, Row, RepoOn, vars, requestVars,
                slotVars
  <2>2. CASE Serve
    BY <2>2, RequestStepCarries, JobStepCarries DEF Serve
  <2> QED BY <2>1, <2>2
<1>2. [Serve]_vars => [Next]_vars
  BY DEF Next
<1>3. CarryInv => QueuedIsCarried
  BY DEF CarryInv
<1> QED
  BY <1>1, <1>2, <1>3, InitTyped, NextTyped, InitRows, NextRows, InitCarry, PTL
     DEF ServeSpec
-----------------------------------------------------------------------------
(* The ledger: with a single worker slot the pipeline implements the serial *)
(* ledger of SbomLedger, for any number of requests, repositories and       *)
(* documents.  With two slots it does not: see the run sbom_mixed_edges.    *)


(* What one slot alone can rely on: nobody else processes its row or writes *)
(* its repository's edges between its read, its DELETE and its commit.      *)
AloneInv ==
  /\ \A q \in Requests : phase[q] = "copying" => copied[q] \in {"pending", "processed"}
  /\ \A w \in Slots : pc[w] \in {"apply", "replacing"}
                        => status[Row(w)] \in {"pending", "failed"}
  /\ \A w \in Slots : pc[w] = "replacing" => snap[w] = edges[RepoOn(w)]

LEMMA InitAlone == Init => AloneInv
BY DEF Init, AloneInv

LEMMA RequestStepAlone ==
  ASSUME TypeInv, RowsInv, AloneInv, NEW q \in Requests,
         RequestStep(q) \/ RequestLost(q) \/ DeferAckLost(q)
  PROVE  AloneInv'
<1> USE SbomConstants
    DEF TypeInv, TypeOK, RowsInv, AloneInv, slotVars, graphVars, Row, RepoOn, Job
<1>1. CASE RejectInvalid(q)
  BY <1>1 DEF RejectInvalid
<1>2. CASE CheckExisting(q)
  BY <1>2 DEF CheckExisting, Existing
<1>3. CASE InsertDuplicate(q) \/ CommitPending(q)
  BY <1>3 DEF InsertDuplicate, CommitPending, JobsNameCommittedRows
<1>4. CASE AdmissionRaises(q)
  BY <1>4 DEF AdmissionRaises
<1>5. CASE DeferProcessing(q) \/ DeferAckLost(q) \/ DeferRaises(q)
  BY <1>5 DEF DeferProcessing, DeferAckLost, DeferRaises
<1>6. CASE RejectUnqueued(q) \/ RequestLost(q)
  BY <1>6 DEF RejectUnqueued, RequestLost
<1> QED BY <1>1, <1>2, <1>3, <1>4, <1>5, <1>6 DEF RequestStep

LEMMA JobStepAlone ==
  ASSUME TypeInv, AloneInv, NEW w, Slots = {w},
         JobStep(w) \/ JobLost(w) \/ \E r \in Repos : Fetch(w, r)
  PROVE  AloneInv'
<1> USE SbomConstants
    DEF TypeInv, TypeOK, AloneInv, requestVars, graphVars, Row, RepoOn, Goto, Release
<1>1. CASE \E r \in Repos : Fetch(w, r)
  BY <1>1 DEF Fetch
<1>2. CASE Load(w)
  BY <1>2 DEF Load, Job, Expect
<1>3. CASE ReadFails(w) \/ DeleteRootEdges(w) \/ ApplyRaises(w)
  BY <1>3 DEF ReadFails, DeleteRootEdges, ApplyRaises
<1>4. CASE CommitGraph(w)
  BY <1>4 DEF CommitGraph
<1>5. CASE MarkFailed(w)
  BY <1>5 DEF MarkFailed
<1>6. CASE ChainSelect(w) \/ ChainDefer(w) \/ JobLost(w)
  BY <1>6 DEF ChainSelect, ChainDefer, JobLost
<1> QED BY <1>1, <1>2, <1>3, <1>4, <1>5, <1>6 DEF JobStep

LEMMA NextAlone ==
  ASSUME NEW w, Slots = {w}
  PROVE  TypeInv /\ RowsInv /\ AloneInv /\ [Next]_vars => AloneInv'
<1> SUFFICES ASSUME TypeInv, RowsInv, AloneInv, [Next]_vars PROVE AloneInv'
  OBVIOUS
<1>1. CASE UNCHANGED vars \/ Seed
  BY <1>1 DEF AloneInv, Row, RepoOn, vars, requestVars, slotVars, graphVars, Seed,
              SeedSelect, SeedDefer
<1>2. CASE Next /\ ~Seed
  BY <1>2, RequestStepAlone, JobStepAlone DEF Next, Serve, Crash, LoseAck
<1> QED BY <1>1, <1>2

-----------------------------------------------------------------------------
(* The refinement, step by step.                                            *)

LEMMA InitRefines == Init => Ledger!Init
BY DEF Init, Ledger!Init

(* A handler's step is an admission, the failure of a row it could not      *)
(* queue, or nothing to the ledger.                                         *)
LEMMA RequestStepRefines ==
  ASSUME TypeInv, RowsInv, AppliedInv, AloneInv, NEW q \in Requests,
         RequestStep(q) \/ RequestLost(q) \/ DeferAckLost(q)
  PROVE  [Ledger!Next]_(Ledger!vars)
<1>1. phase[q] \in {"idle", "storing", "copying"} => status[q] = "absent"
  BY DEF RowsInv
<1>2. CASE RejectInvalid(q) \/ AdmissionRaises(q)
  <2>1. UNCHANGED graphVars /\ status[q] = "absent"
    BY <1>1, <1>2 DEF RejectInvalid, AdmissionRaises
  <2>2. status' = status \/ status' = [status EXCEPT ![q] = "failed"]
    BY <1>2 DEF RejectInvalid, AdmissionRaises
  <2> QED BY <2>1, <2>2 DEF graphVars, Ledger!Next, Ledger!Admit, Ledger!vars
<1>3. CASE InsertDuplicate(q)
  <2>1. /\ UNCHANGED graphVars /\ status[q] = "absent"
        /\ status' = [status EXCEPT ![q] = copied[q]]
    BY <1>1, <1>3 DEF InsertDuplicate
  <2>2. \/ copied[q] = "pending"
        \/ copied[q] = "processed" /\ BodyOf[q] \in applied[ClaimOf[q]]
    BY <1>3 DEF InsertDuplicate, AloneInv, AppliedInv
  <2> QED BY <2>1, <2>2 DEF graphVars, Ledger!Next, Ledger!Admit
<1>4. CASE CommitPending(q)
  BY <1>1, <1>4 DEF CommitPending, graphVars, Ledger!Next, Ledger!Admit
<1>5. CASE RejectUnqueued(q)
  <2>1. status[q] # "absent"
    BY <1>5 DEF RejectUnqueued, RowsInv
  <2> QED BY <1>5, <2>1 DEF RejectUnqueued, graphVars, Ledger!Next, Ledger!Fail
<1>6. CASE CheckExisting(q) \/ DeferProcessing(q) \/ DeferRaises(q) \/ RequestLost(q)
           \/ DeferAckLost(q)
  BY <1>6 DEF CheckExisting, DeferProcessing, DeferRaises, RequestLost, DeferAckLost,
              graphVars, Ledger!vars
<1> QED BY <1>2, <1>3, <1>4, <1>5, <1>6 DEF RequestStep

(* A job's commit applies its document as a whole, its failure marks the    *)
(* row, and every other step is nothing to the ledger.                      *)
LEMMA JobStepRefines ==
  ASSUME TypeInv, RowsInv, SettledInv, AloneInv, NEW w \in Slots,
         JobStep(w) \/ JobLost(w) \/ \E r \in Repos : Fetch(w, r)
  PROVE  [Ledger!Next]_(Ledger!vars)
<1>1. pc[w] # "idle" => Row(w) \in Requests /\ status[Row(w)] # "absent"
  BY DEF TypeInv, Row, Job, RowsInv, JobsNameCommittedRows
<1>2. CASE CommitGraph(w)
  <2>1. /\ Row(w) \in Requests /\ status[Row(w)] \in {"pending", "failed"}
        /\ BodyOf[Row(w)] \notin Malformed /\ Unseen(w) = {}
    BY <1>1, <1>2 DEF CommitGraph, AloneInv, SettledInv, Unseen
  <2>2. Ledger!Apply(Row(w))
    BY <1>2, <2>1 DEF CommitGraph, RepoOn, Ledger!Apply
  <2> QED BY <2>1, <2>2 DEF Ledger!Next
<1>3. CASE MarkFailed(w)
  <2>1. Ledger!Fail(Row(w))
    BY <1>1, <1>3 DEF MarkFailed, graphVars, Ledger!Fail
  <2> QED BY <1>1, <1>3, <2>1 DEF MarkFailed, Ledger!Next
<1>4. CASE (\E r \in Repos : Fetch(w, r)) \/ Load(w) \/ ReadFails(w) \/ ApplyRaises(w)
           \/ DeleteRootEdges(w)
  BY <1>4 DEF Fetch, Load, ReadFails, ApplyRaises, DeleteRootEdges, graphVars, Ledger!vars
<1>5. CASE ChainSelect(w) \/ ChainDefer(w) \/ JobLost(w)
  BY <1>5 DEF ChainSelect, ChainDefer, JobLost, graphVars, Ledger!vars
<1> QED BY <1>2, <1>3, <1>4, <1>5 DEF JobStep

LEMMA NextRefines ==
  TypeInv /\ RowsInv /\ AppliedInv /\ SettledInv /\ AloneInv /\ [Next]_vars
    => [Ledger!Next]_(Ledger!vars)
<1> SUFFICES ASSUME TypeInv, RowsInv, AppliedInv, SettledInv, AloneInv, [Next]_vars
             PROVE  [Ledger!Next]_(Ledger!vars)
  OBVIOUS
<1>1. CASE UNCHANGED vars \/ Seed
  BY <1>1 DEF vars, graphVars, Seed, SeedSelect, SeedDefer, Ledger!vars
<1>2. CASE Next /\ ~Seed
  BY <1>2, RequestStepRefines, JobStepRefines DEF Next, Serve, Crash, LoseAck
<1> QED BY <1>1, <1>2

(* One worker slot is a serial ledger, whatever crashes, acknowledgements   *)
(* are lost or seeds run: every row is admitted once, a processed row is    *)
(* applied exactly when its document replaces all the root edges of its     *)
(* repository, and nothing else touches the graph                           *)
(* (process_sbom_submission when the worker runs one job at a time).        *)
THEOREM OneSlotIsALedger ==
  ASSUME NEW w, Slots = {w}
  PROVE  Spec => ImplementsLedger
<1>1. TypeInv /\ RowsInv /\ AloneInv /\ [Next]_vars => AloneInv'
  BY NextAlone
<1> QED
  BY <1>1, InitTyped, NextTyped, InitRows, NextRows, InitApplied, NextApplied,
     InitSettled, NextSettled, InitAlone, InitRefines, NextRefines, PTL
     DEF Spec, ImplementsLedger, Ledger!Spec
=============================================================================
