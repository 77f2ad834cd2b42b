------------------------------- MODULE MCGitLog -------------------------------
(***************************************************************************)
(* Instances of GitLog for TLC.                                            *)
(***************************************************************************)
EXTENDS GitLog, TLC

CONSTANTS r1, r2, r3, P, Q, s1, s2

Commit(email, name, time) == [ok |-> TRUE, email |-> <<email, name>>, name |-> name, time |-> time]

(* ann leaves r1's window after the second run; bob's latest commit there   *)
(* is a bot's; r2 has one author, r3 cannot be cloned.                      *)
History == r1 :> <<Commit("ann", "Ann", 1), Commit("ann", "ann", 1), Commit("bob", "Bob", 2),
                   [ok |-> FALSE], Commit("eve", "Eve", 3)>>
           @@ r2 :> <<Commit("ann", "Ann", 1), Commit("bot", "ci[bot]", 2)>>
           @@ r3 :> <<>>
InOrder == <<r1, r2, r3>>
Belongs == r1 :> P @@ r2 :> P @@ r3 :> Q
===============================================================================
