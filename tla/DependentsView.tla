---------------------------- MODULE DependentsView ----------------------------
(***************************************************************************)
(* What the collection of GitHub dependents promises for each source       *)
(* repository: snapshots take effect as a whole, each at most once, in the *)
(* order of their run ids.  There are no locks, commits or failures here.  *)
(***************************************************************************)
EXTENDS Naturals

CONSTANTS Sources, Dependents, Packages, Snapshots

VARIABLES
  shown,     \* ids of the runs whose snapshot took effect
  live,      \* the dependents on display
  packages   \* the packages through which each was last known to depend

vars == <<shown, live, packages>>

Init ==
  /\ shown = [s \in Sources |-> {}]
  /\ live = [s \in Sources |-> {}]
  /\ packages = [s \in Sources |-> [d \in Dependents |-> {}]]

(* Run n takes effect.  A complete listing is the new truth; a partial one  *)
(* only adds.                                                               *)
Show(s, n, snap) ==
  /\ n \in Nat /\ \A m \in shown[s] : m < n
  /\ shown' = [shown EXCEPT ![s] = @ \cup {n}]
  /\ live' = [live EXCEPT ![s] = IF snap.listing THEN snap.seen ELSE @ \cup snap.seen]
  /\ packages' = [packages EXCEPT ![s] = [d \in Dependents |->
       IF d \notin snap.seen THEN packages[s][d]
       ELSE IF snap.listing THEN snap.packages[d]
       ELSE packages[s][d] \cup snap.packages[d]]]

Next == \E s \in Sources, snap \in Snapshots : \E n \in shown'[s] : Show(s, n, snap)

Spec == Init /\ [][Next]_vars
=============================================================================
