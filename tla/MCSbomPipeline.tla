--------------------------- MODULE MCSbomPipeline ---------------------------
(***************************************************************************)
(* Instances of SbomPipeline for TLC.                                      *)
(***************************************************************************)
EXTENDS SbomPipeline, TLC

CONSTANTS q1, q2, q3, r1, r2, a, b, c, d

(* All submissions come from one repository. *)
OneRepo == [q \in Requests |-> r1]
(* Two repositories share the worker. *)
TwoRepos == [q \in Requests |-> IF q = q3 THEN r2 ELSE r1]

(* Three documents. *)
Distinct == [q \in Requests |-> CASE q = q1 -> a [] q = q2 -> b [] q = q3 -> c]
(* The second submission repeats the first document. *)
Repeated == [q \in Requests |-> IF q = q3 THEN b ELSE a]
(* The last document is not valid SPDX. *)
LastInvalid == [q \in Requests |-> CASE q = q1 -> a [] q = q2 -> b [] q = q3 -> d]

(* Documents a and c share a dependency, b is disjoint from both. *)
Deps == (a :> {1, 2}) @@ (b :> {3}) @@ (c :> {2}) @@ (d :> {})
(* The slots are interchangeable (runs without liveness). *)
Interchangeable == Permutations(Slots)
=============================================================================
