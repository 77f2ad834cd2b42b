----------------------------- MODULE SbomLedger -----------------------------
(***************************************************************************)
(* What SBOM ingestion promises when submissions are processed one at a    *)
(* time: an audit ledger and, per repository, the root edges of the last   *)
(* document applied.  There are no jobs, locks or transactions here: a     *)
(* submission is admitted, refused, failed, or applied as a whole.         *)
(***************************************************************************)
CONSTANTS Requests, Repos, Contents, Targets, ClaimOf, BodyOf, DepsOf,
          Malformed, Inferred

VARIABLES
  status,   \* the audit row of each submission
  edges,    \* root edges of each repository
  applied   \* documents applied to each repository

vars == <<status, edges, applied>>

Init ==
  /\ status = [q \in Requests |-> "absent"]
  /\ edges = [r \in Repos |-> Inferred]
  /\ applied = [r \in Repos |-> {}]

(* A row appears: to be processed, failed at the door, or as the copy of a  *)
(* row whose document is already in the graph.                              *)
Admit(q) ==
  /\ status[q] = "absent"
  /\ \/ \E s \in {"pending", "failed"} : status' = [status EXCEPT ![q] = s]
     \/ /\ BodyOf[q] \in applied[ClaimOf[q]]
        /\ status' = [status EXCEPT ![q] = "processed"]
  /\ UNCHANGED <<edges, applied>>

(* A row is marked failed, by the worker or by the handler that could not   *)
(* queue it; the graph is not touched.                                      *)
Fail(q) ==
  /\ status[q] # "absent"
  /\ status' = [status EXCEPT ![q] = "failed"]
  /\ UNCHANGED <<edges, applied>>

(* A pending or failed row is applied: its document replaces all the root   *)
(* edges of its repository in one step.  A processed row is not applied.    *)
Apply(q) ==
  /\ status[q] \in {"pending", "failed"}
  /\ BodyOf[q] \notin Malformed
  /\ status' = [status EXCEPT ![q] = "processed"]
  /\ edges' = [edges EXCEPT ![ClaimOf[q]] = DepsOf[BodyOf[q]]]
  /\ applied' = [applied EXCEPT ![ClaimOf[q]] = @ \cup {BodyOf[q]}]

Next == \E q \in Requests : Admit(q) \/ Fail(q) \/ Apply(q)

Spec == Init /\ [][Next]_vars
=============================================================================
