-------------------------------- MODULE Metrics --------------------------------
(***************************************************************************)
(* The metrics as functions: the active subgraph and its criticality       *)
(* (metrics/active_subgraph.py, metrics/criticality.py), percentiles and   *)
(* adoption scores (metrics/adoption.py).  Edges lead from a dependent to  *)
(* what it depends on.  Scores are hundredths of a percent.                *)
(***************************************************************************)
EXTENDS Naturals, Sequences, FiniteSets, FiniteSetsExt

CONSTANT Unknown    \* a signal or a score that is not known

(* What a traversal from S along edges reaches, S included.                 *)
Reach(edges, S) ==
  LET step[n \in Nat] ==
        IF n = 0 THEN S
        ELSE LET reached == step[n - 1]
             IN reached \cup {e[2] : e \in {x \in edges : x[1] \in reached}}
  IN step[Cardinality(edges)]

Induced(edges, nodes) == {e \in edges : e[1] \in nodes /\ e[2] \in nodes}
Reversed(edges) == {<<e[2], e[1]>> : e \in edges}

(* A dependency graph is [node, edges], with the attributes of each node.   *)
ActivityStatus == {"live", "in_dev", "discontinued", "non_responsive"}
DepLayer == {"Repo", "ExternalRepo"}
ActiveLeafStatuses == {"live", "in_dev"}
IsActive(G, v) == G.node[v].vertex_type = "Repo" /\ G.node[v].activity_status \in ActiveLeafStatuses
ActiveLeaves(G) == {v \in DOMAIN G.node : IsActive(G, v) /\ \A e \in G.edges : e[2] # v}

Subgraph(G, nodes) == [node |-> [v \in nodes |-> G.node[v]], edges |-> Induced(G.edges, nodes)]

(* Mutant: every active repository is a seed. *)
SubgraphOfActive(G) == Subgraph(G, Reach(G.edges, {v \in DOMAIN G.node : IsActive(G, v)}))
ProjectActiveSubgraph(G) == Subgraph(G, Reach(G.edges, ActiveLeaves(G)))

(* nx.descendants of the reversed graph: a node is none of its own.         *)
ComputeCriticality(G) ==
  LET nodes == {v \in DOMAIN G.node : G.node[v].vertex_type \in DepLayer}
      dependents == Reversed(Induced(G.edges, nodes))
  IN [v \in nodes |-> Cardinality(Reach(dependents, {v}) \ {v})]
-------------------------------------------------------------------------------
(* Fractions.                                                               *)

Plus(x, y) == <<x[1] * y[2] + y[1] * x[2], x[2] * y[2]>>
RoundHalfUp(x) == (2 * x[1] + x[2]) \div (2 * x[2])
Mean(fractions) ==
  LET sum == FoldFunction(Plus, <<0, 1>>, fractions)
  IN RoundHalfUp(<<sum[1], sum[2] * Cardinality(DOMAIN fractions)>>)

(* compute_percentile_ranks, over those that have the signal.               *)
PercentileRank(signal, x) ==
  LET pool == {y \in DOMAIN signal : signal[y] # Unknown}
  IN <<10000 * Cardinality({y \in pool : signal[y] < signal[x]}), Cardinality(pool)>>

(* compute_repo_adoption_composites: the mean over the signals it has.      *)
RepoComposites(signals) ==
  LET Has(x) == {i \in DOMAIN signals : signals[i][x] # Unknown}
      scored == {x \in DOMAIN signals[1] : Has(x) # {}}
  IN [x \in scored |-> Mean([i \in Has(x) |-> PercentileRank(signals[i], x)])]

(* compute_project_adoption_scores.                                         *)
ProjectScore(composites, members) ==
  LET scored == members \cap DOMAIN composites
  IN IF scored = {} THEN Unknown ELSE Mean([x \in scored |-> <<composites[x], 1>>])
===============================================================================
