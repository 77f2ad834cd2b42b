-------------------------- MODULE VertexGraphProofs --------------------------
(***************************************************************************)
(* What holds of the dependency graph under any number of jobs, names and  *)
(* packages, whichever deadlocks are resolved and transactions fail.       *)
(***************************************************************************)
EXTENDS VertexGraph, ListProofs

-----------------------------------------------------------------------------
(* Tables, and tables with uncommitted rows.                                *)

LEMMA WithRow ==
  ASSUME NEW new, NEW k, NEW row
  PROVE  /\ DOMAIN With(new, k, row) = DOMAIN new \cup {k}
         /\ With(new, k, row)[k] = row
         /\ \A l \in DOMAIN new \ {k} : With(new, k, row)[l] = new[l]
BY DEF With

LEMMA MergedRows ==
  ASSUME NEW table, NEW new
  PROVE  /\ DOMAIN Merged(table, new) =
              {l \in DOMAIN table \cup DOMAIN new : l \in DOMAIN new => new[l].is # "gone"}
         /\ \A l \in DOMAIN Merged(table, new) :
              Merged(table, new)[l] = IF l \in DOMAIN new THEN new[l] ELSE table[l]
BY DEF Merged

LEMMA InMerged ==
  ASSUME NEW table, NEW new, NEW k
  PROVE  k \in DOMAIN Merged(table, new) <=>
           IF k \in DOMAIN new THEN new[k].is # "gone" ELSE k \in DOMAIN table
BY DEF Merged

LEMMA NoRows == DOMAIN Nothing = {}
BY DEF Nothing

(* Keys are visited in lexicographic order, so a statement has a next row.  *)
LEMMA LeastKey ==
  ASSUME NEW S, S \subseteq Nat \X Nat, S # {}
  PROVE  \E k \in S : \A l \in S : Before(k, l)
<1>1. PICK a \in {k[1] : k \in S} : \A b \in {k[1] : k \in S} : a <= b
  <2>1. {k[1] : k \in S} \subseteq Nat /\ {k[1] : k \in S} # {}
    OBVIOUS
  <2> QED BY <2>1, LeastElement
<1> DEFINE Row == {k \in S : k[1] = a}
<1>2. PICK c \in {k[2] : k \in Row} : \A d \in {k[2] : k \in Row} : c <= d
  <2>1. {k[2] : k \in Row} \subseteq Nat /\ {k[2] : k \in Row} # {}
    OBVIOUS
  <2> QED BY <2>1, LeastElement
<1>3. PICK k \in S : k[1] = a /\ k[2] = c
  OBVIOUS
<1>4. ASSUME NEW l \in S PROVE Before(k, l)
  <2>1. k[1] \in Nat /\ l[1] \in Nat /\ k[2] \in Nat /\ l[2] \in Nat
    BY <1>3
  <2>2. k[1] <= l[1]
    BY <1>1, <1>3
  <2>3. l[1] = k[1] => k[2] <= l[2]
    BY <1>2, <1>3
  <2> QED BY <2>1, <2>2, <2>3 DEF Before
<1> QED BY <1>3, <1>4

LEMMA HeadTail ==
  ASSUME NEW S, NEW s \in Seq(S), s # <<>>
  PROVE  /\ Head(s) \in S /\ Tail(s) \in Seq(S)
         /\ 1 \in DOMAIN s /\ Head(s) = s[1]
         /\ \A i \in DOMAIN Tail(s) : i + 1 \in DOMAIN s /\ Tail(s)[i] = s[i + 1]
OBVIOUS

(* The fields of a task.                                                    *)
LEMMA TaskFields ==
  ASSUME NEW t \in Tasks
  PROVE  /\ t.kind \in {"sbom", "deps", "repo"} /\ t.repo \in Names
         /\ t.packages \in Seq(Names) /\ t.versions \in [Names -> Versions \cup {NoVersion}]
         /\ t.kind = "sbom" => t.flat \in BOOLEAN /\ t.relations \subseteq Nat \X Names \X Names
BY DEF Tasks, Latest


-----------------------------------------------------------------------------
(* The inductive invariant: the tables, whatever the jobs are doing.        *)

Typed ==
  /\ task \in [Jobs -> Tasks]
  /\ pc \in [Jobs -> Pc] /\ todo \in [Jobs -> Seq(Names)] /\ stmt \in [Jobs -> 0..6]
  /\ vid \in [Jobs -> [Names -> Nat]] /\ read \in [Jobs -> SUBSET Names]
  /\ rows \in [Jobs -> SUBSET (Nat \X Nat)] /\ shared \in [Jobs -> SUBSET Nat]
  /\ DOMAIN newV = Jobs /\ DOMAIN newE = Jobs
  /\ lastId \in Nat

TypedRows ==
  /\ DOMAIN vertices \subseteq Nat
  /\ \A v \in DOMAIN vertices : vertices[v] \in Vertex /\ vertices[v].is # "gone"
  /\ DOMAIN edges \subseteq Nat \X Nat
  /\ \A k \in DOMAIN edges : edges[k] \in Edge /\ edges[k].is # "gone"
  /\ \A j \in Jobs : /\ DOMAIN newV[j] \subseteq Nat
                     /\ \A v \in DOMAIN newV[j] : newV[j][v] \in Vertex
                     /\ DOMAIN newE[j] \subseteq Nat \X Nat
                     /\ \A k \in DOMAIN newE[j] : newE[j][k] \in Edge

(* No row has uncommitted writes of two transactions.                       *)
RowLocks ==
  \A i, j \in Jobs : i # j => /\ DOMAIN newV[i] \cap DOMAIN newV[j] = {}
                              /\ DOMAIN newE[i] \cap DOMAIN newE[j] = {}

(* Ids come from the sequence, also those that jobs remember.               *)
Ids ==
  /\ \A v \in DOMAIN vertices : v <= lastId
  /\ \A j \in Jobs : \A v \in DOMAIN newV[j] : v <= lastId
  /\ \A j \in Jobs : \A n \in Names : vid[j][n] <= lastId

(* canonical_id is unique, uncommitted rows included.                       *)
UniqueNames ==
  /\ \A u, v \in DOMAIN vertices : vertices[u].name = vertices[v].name => u = v
  /\ \A j \in Jobs : \A u \in DOMAIN vertices : \A v \in DOMAIN newV[j] :
       vertices[u].name = newV[j][v].name => u = v
  /\ \A i, j \in Jobs : \A u \in DOMAIN newV[i] : \A v \in DOMAIN newV[j] :
       newV[i][u].name = newV[j][v].name => u = v

(* A transaction renames no vertex and makes no other of a Repo.            *)
KeepsRepos ==
  \A j \in Jobs : \A v \in DOMAIN newV[j] \cap DOMAIN vertices :
    /\ newV[j][v].name = vertices[v].name
    /\ vertices[v].is = "repo" => newV[j][v].is = "repo"

(* Foreign keys, as each transaction sees the graph.                        *)
ForeignKeys ==
  /\ \A k \in DOMAIN edges : k[1] \in DOMAIN vertices /\ k[2] \in DOMAIN vertices
  /\ \A j \in Jobs : \A k \in DOMAIN E(j) : k[1] \in DOMAIN V(j) /\ k[2] \in DOMAIN V(j)

(* What keeps the end v of an edge that j added from being deleted: j holds *)
(* it, or an edge of it that is committed and that j has written.           *)
Held(j, v) ==
  \/ v \in shared[j]
  \/ \E l \in DOMAIN edges \cap DOMAIN newE[j] : v \in {l[1], l[2]}
EndsHeld ==
  \A j \in Jobs : \A k \in DOMAIN newE[j] \ DOMAIN edges :
    newE[j][k].is # "gone" => Held(j, k[1]) /\ Held(j, k[2])
NoneDeleted ==
  \A i, j \in Jobs : i # j =>
    \A v \in shared[j] : v \in DOMAIN newV[i] => newV[i][v].is # "gone"

Tables == RowLocks /\ UniqueNames /\ KeepsRepos /\ ForeignKeys /\ EndsHeld /\ NoneDeleted

(* What each job knows when it gets where it is.                            *)
Ext(j) == vid[j][Head(todo[j])]
Absorbing(j) == pc[j] \in {"absorbing", "deleteExternal"} \/ (pc[j] = "commit" /\ stmt[j] # 0)

Phase(j) ==
  /\ pc[j] \in {"promote", "updateRepo", "commit", "absorb", "absorbing", "deleteExternal"} =>
       task[j].kind = "repo"
  /\ pc[j] \in {"delete", "root", "nested"} => task[j].kind = "sbom"
  /\ pc[j] = "edge" => task[j].kind = "deps"
  /\ pc[j] \in {"packages", "insertPackage", "updatePackage"} => task[j].kind \in {"sbom", "deps"}
  /\ pc[j] = "insertRepo" => task[j].kind \in {"sbom", "repo"}
  /\ pc[j] \in {"insertPackage", "updatePackage", "edge"} \/ Absorbing(j) => todo[j] # <<>>
  /\ pc[j] \in {"repo", "insertRepo", "promote", "updateRepo"} => stmt[j] = 0
  /\ pc[j] = "deleteExternal" => stmt[j] # 0

(* A crawled repository is none of its packages.                            *)
NotItself(j) ==
  task[j].kind = "repo" =>
    /\ \A i \in DOMAIN task[j].packages : task[j].packages[i] # task[j].repo
    /\ \A i \in DOMAIN todo[j] : todo[j][i] # task[j].repo

(* What a transaction has written so far.                                   *)
Written(j) ==
  /\ pc[j] \in {"repo", "insertRepo", "promote", "updateRepo", "absorb"} \cup Ended =>
       DOMAIN newV[j] = {} /\ DOMAIN newE[j] = {}
  /\ pc[j] \in {"absorbing", "deleteExternal"} => DOMAIN newV[j] = {}
  /\ task[j].kind = "sbom" /\ pc[j] \in {"packages", "insertPackage", "updatePackage"} =>
       DOMAIN newE[j] = {}
  /\ pc[j] = "commit" /\ stmt[j] = 0 =>
       /\ DOMAIN newE[j] = {}
       /\ Source(j) \in DOMAIN newV[j] /\ newV[j][Source(j)].is = "repo"
  /\ ~(pc[j] = "commit" /\ stmt[j] # 0) => \A v \in DOMAIN newV[j] : newV[j][v].is # "gone"

(* The repository that a crawl updates or absorbs into is committed.        *)
SourceIsRepo(j) ==
  pc[j] \in {"updateRepo", "absorb"} \/ Absorbing(j) =>
    Source(j) \in DOMAIN vertices /\ vertices[Source(j)].is = "repo"

(* Which edges a statement visits.                                          *)
RowsFit(j) ==
  /\ pc[j] \in {"repo", "insertRepo", "promote", "updateRepo", "deleteExternal", "commit", "absorb"} =>
       rows[j] = {}
  /\ pc[j] = "delete" => \A k \in rows[j] : k[1] = Source(j)
  /\ pc[j] = "root" => rows[j] \subseteq RootEdges(j)
  /\ pc[j] = "absorbing" =>
       \A k \in rows[j] : stmt[j] # 0 /\ k \in DOMAIN E(j) /\ Ext(j) \in {k[1], k[2]}

(* Which edges a transaction may weaken or remove.                          *)
Weakened(j) ==
  /\ task[j].kind = "sbom" =>
       \A k \in DOMAIN newE[j] : newE[j][k].is = "verified_sbom" \/ k[1] = Source(j)
  /\ task[j].kind = "deps" =>
       \A k \in DOMAIN newE[j] \cap DOMAIN edges :
         edges[k].is = "verified_sbom" => newE[j][k].is = "verified_sbom"
  /\ Absorbing(j) => \A k \in DOMAIN newE[j] \cap DOMAIN edges : Ext(j) \in {k[1], k[2]}

Local(j) == Phase(j) /\ NotItself(j) /\ Written(j) /\ SourceIsRepo(j) /\ RowsFit(j) /\ Weakened(j)

(* An absorption deleted the external vertex, or found it deleted.          *)
Absorbed(j) ==
  pc[j] = "commit" /\ stmt[j] # 0 =>
    \/ Ext(j) \in DOMAIN newV[j] /\ newV[j][Ext(j)].is = "gone"
    \/ Ext(j) \notin DOMAIN vertices /\ \A i \in Jobs : Ext(j) \notin DOMAIN newV[i]

Inv ==
  /\ Typed /\ TypedRows /\ Ids /\ Tables
  /\ \A j \in Jobs : Local(j) /\ Absorbed(j)

(* A job remembers an id.                                                   *)
LEMMA Remembered ==
  ASSUME Typed, NEW j \in Jobs, NEW n \in Names, NEW v \in Nat,
         vid' = [vid EXCEPT ![j][n] = v]
  PROVE  /\ vid' \in [Jobs -> [Names -> Nat]]
         /\ vid'[j][n] = v
         /\ \A m \in Names \ {n} : vid'[j][m] = vid[j][m]
         /\ \A i \in Jobs \ {j} : vid'[i] = vid[i]
BY DEF Typed

-----------------------------------------------------------------------------
(* What writing rows does to the tables.                                    *)

(* A vertex is written: a new one, with a name nobody uses, or one that     *)
(* keeps its name; it is deleted only if nothing refers to it.              *)
LEMMA VertexWritten ==
  ASSUME Typed, TypedRows, Tables, NEW j \in Jobs, NEW v \in Nat, NEW row \in Vertex,
         WriteV(j, v, row), UNCHANGED <<graph, newE, shared>>,
         \A i \in Jobs \ {j} : v \notin DOMAIN newV[i],
         \A u \in DOMAIN vertices : vertices[u].name = row.name => u = v,
         \A i \in Jobs : \A u \in DOMAIN newV[i] : newV[i][u].name = row.name => u = v,
         v \in DOMAIN vertices =>
           row.name = vertices[v].name /\ (vertices[v].is = "repo" => row.is = "repo"),
         row.is = "gone" => /\ \A k \in DOMAIN E(j) : v # k[1] /\ v # k[2]
                            /\ \A i \in Jobs \ {j} : v \notin shared[i]
  PROVE  TypedRows' /\ Tables'
<1>1. /\ DOMAIN newV'[j] = DOMAIN newV[j] \cup {v} /\ newV'[j][v] = row
      /\ \A u \in DOMAIN newV[j] \ {v} : newV'[j][u] = newV[j][u]
      /\ \A i \in Jobs \ {j} : newV'[i] = newV[i]
  <2>1. newV'[j] = With(newV[j], v, row) /\ \A i \in Jobs \ {j} : newV'[i] = newV[i]
    BY DEF WriteV, Typed
  <2>2. /\ DOMAIN With(newV[j], v, row) = DOMAIN newV[j] \cup {v}
        /\ With(newV[j], v, row)[v] = row
        /\ \A u \in DOMAIN newV[j] \ {v} : With(newV[j], v, row)[u] = newV[j][u]
    BY DEF With
  <2> QED BY <2>1, <2>2
<1>2. vertices' = vertices /\ edges' = edges /\ newE' = newE /\ shared' = shared
  BY DEF graph
<1>3. TypedRows'
  <2>1. \A i \in Jobs : /\ DOMAIN newV'[i] \subseteq Nat
                        /\ \A u \in DOMAIN newV'[i] : newV'[i][u] \in Vertex
    BY <1>1 DEF TypedRows
  <2> QED BY <1>2, <2>1 DEF TypedRows
<1>4. RowLocks'
  BY <1>1, <1>2 DEF Tables, RowLocks
<1>5. UniqueNames'
  <2>1. \A i \in Jobs : \A u \in DOMAIN vertices : \A w \in DOMAIN newV'[i] :
          vertices[u].name = newV'[i][w].name => u = w
    BY <1>1 DEF Tables, UniqueNames
  <2>2. \A h, i \in Jobs : \A u \in DOMAIN newV'[h] : \A w \in DOMAIN newV'[i] :
          newV'[h][u].name = newV'[i][w].name => u = w
    <3> TAKE h, i \in Jobs
    <3> TAKE u \in DOMAIN newV'[h]
    <3> TAKE w \in DOMAIN newV'[i]
    <3>1. (u = v /\ newV'[h][u] = row) \/ (u \in DOMAIN newV[h] /\ newV'[h][u] = newV[h][u])
      BY <1>1
    <3>2. (w = v /\ newV'[i][w] = row) \/ (w \in DOMAIN newV[i] /\ newV'[i][w] = newV[i][w])
      BY <1>1
    <3> QED BY <3>1, <3>2 DEF Tables, UniqueNames
  <2> QED BY <1>2, <2>1, <2>2 DEF Tables, UniqueNames
<1>6. KeepsRepos'
  BY <1>1, <1>2 DEF Tables, KeepsRepos
<1>7. \A i \in Jobs : E(i)' = E(i)
  BY <1>2 DEF E
<1>8. ForeignKeys'
  <2>1. \A i \in Jobs : \A u : u \in DOMAIN V(i) /\ (i = j => u # v \/ row.is # "gone") => u \in DOMAIN V(i)'
    BY <1>1, <1>2, InMerged DEF V
  <2>2. ASSUME NEW i \in Jobs, NEW k \in DOMAIN E(i)
        PROVE  k[1] \in DOMAIN V(i)' /\ k[2] \in DOMAIN V(i)'
    <3>1. k[1] \in DOMAIN V(i) /\ k[2] \in DOMAIN V(i)
      BY DEF Tables, ForeignKeys
    <3> QED BY <2>1, <3>1
  <2> QED BY <1>2, <1>7, <2>2 DEF Tables, ForeignKeys
<1>9. EndsHeld'
  BY <1>2 DEF Tables, EndsHeld, Held
<1>10. NoneDeleted'
  BY <1>1, <1>2 DEF Tables, NoneDeleted
<1> QED BY <1>3, <1>4, <1>5, <1>6, <1>8, <1>9, <1>10 DEF Tables

(* Edges are written, K, which no other transaction has written.  Both ends *)
(* of one that is not deleted exist; those of a new one are kept, S of them *)
(* by locks.                                                                *)
Writable(j, e, K, S) ==
  /\ K \subseteq Nat \X Nat /\ S \subseteq Nat
  /\ DOMAIN e = DOMAIN newE[j] \cup K
  /\ \A k \in DOMAIN newE[j] \ K : e[k] = newE[j][k]
  /\ \A k \in K : e[k] \in Edge /\ \A i \in Jobs \ {j} : k \notin DOMAIN newE[i]
  /\ \A k \in K : e[k].is # "gone" => k[1] \in DOMAIN V(j) /\ k[2] \in DOMAIN V(j)
  /\ \A k \in K \ DOMAIN edges : e[k].is # "gone" =>
       \A v \in {k[1], k[2]} :
         Held(j, v) \/ v \in S \/ \E l \in K \cap DOMAIN edges : v \in {l[1], l[2]}
  /\ \A v \in S : \A i \in Jobs \ {j} : v \in DOMAIN newV[i] => newV[i][v].is # "gone"

LEMMA EdgesWritten ==
  ASSUME Typed, TypedRows, Tables, NEW j \in Jobs, NEW K, NEW S, NEW e, Writable(j, e, K, S),
         newE' = [newE EXCEPT ![j] = e],
         shared' = [shared EXCEPT ![j] = @ \cup S],
         UNCHANGED <<graph, newV>>
  PROVE  TypedRows' /\ Tables'
<1>1. /\ K \subseteq Nat \X Nat /\ S \subseteq Nat
      /\ DOMAIN e = DOMAIN newE[j] \cup K
      /\ \A k \in DOMAIN newE[j] \ K : e[k] = newE[j][k]
      /\ \A k \in K : e[k] \in Edge /\ \A i \in Jobs \ {j} : k \notin DOMAIN newE[i]
      /\ \A k \in K : e[k].is # "gone" => k[1] \in DOMAIN V(j) /\ k[2] \in DOMAIN V(j)
      /\ \A k \in K \ DOMAIN edges : e[k].is # "gone" =>
           \A v \in {k[1], k[2]} :
             Held(j, v) \/ v \in S \/ \E l \in K \cap DOMAIN edges : v \in {l[1], l[2]}
      /\ \A v \in S : \A i \in Jobs \ {j} : v \in DOMAIN newV[i] => newV[i][v].is # "gone"
  BY DEF Writable
<1> USE <1>1
<1>2. /\ newE'[j] = e /\ \A i \in Jobs \ {j} : newE'[i] = newE[i]
      /\ shared'[j] = shared[j] \cup S /\ \A i \in Jobs \ {j} : shared'[i] = shared[i]
  BY DEF Typed
<1>3. vertices' = vertices /\ edges' = edges /\ newV' = newV
  BY DEF graph
<1>4. TypedRows'
  <2>1. \A i \in Jobs : /\ DOMAIN newE'[i] \subseteq Nat \X Nat
                        /\ \A k \in DOMAIN newE'[i] : newE'[i][k] \in Edge
    BY <1>2 DEF TypedRows
  <2> QED BY <1>3, <2>1 DEF TypedRows
<1>5. RowLocks'
  BY <1>2, <1>3 DEF Tables, RowLocks
<1>6. UniqueNames' /\ KeepsRepos'
  BY <1>3 DEF Tables, UniqueNames, KeepsRepos
<1>7. ForeignKeys'
  <2>1. \A i \in Jobs : V(i)' = V(i)
    BY <1>3 DEF V
  <2>2. ASSUME NEW i \in Jobs, NEW k \in DOMAIN E(i)'
        PROVE  k[1] \in DOMAIN V(i) /\ k[2] \in DOMAIN V(i)
    <3>1. k \in DOMAIN E(i) \/ (i = j /\ k \in K /\ e[k].is # "gone")
      BY <1>2, <1>3, InMerged DEF E
    <3> QED BY <3>1 DEF Tables, ForeignKeys
  <2> QED BY <1>3, <2>1, <2>2 DEF Tables, ForeignKeys
<1>8. EndsHeld'
  <2>1. \A i \in Jobs : \A v : Held(i, v) => Held(i, v)'
    BY <1>2, <1>3 DEF Held
  <2>2. ASSUME NEW k \in DOMAIN e \ DOMAIN edges, e[k].is # "gone", NEW v \in {k[1], k[2]}
        PROVE  Held(j, v)'
    <3>1. CASE k \notin K
      BY <2>1, <2>2, <3>1 DEF Tables, EndsHeld
    <3>2. CASE k \in K
      <4>1. Held(j, v) \/ v \in S \/ \E l \in K \cap DOMAIN edges : v \in {l[1], l[2]}
        BY <2>2, <3>2
      <4>2. \A l \in K \cap DOMAIN edges : l \in DOMAIN edges' \cap DOMAIN newE'[j]
        BY <1>2, <1>3
      <4> QED BY <1>2, <2>1, <4>1, <4>2 DEF Held
    <3> QED BY <3>1, <3>2
  <2>3. ASSUME NEW i \in Jobs \ {j}, NEW k \in DOMAIN newE[i] \ DOMAIN edges, newE[i][k].is # "gone"
        PROVE  Held(i, k[1])' /\ Held(i, k[2])'
    BY <2>1, <2>3 DEF Tables, EndsHeld
  <2>4. ASSUME NEW i \in Jobs, NEW k \in DOMAIN newE'[i] \ DOMAIN edges', newE'[i][k].is # "gone"
        PROVE  Held(i, k[1])' /\ Held(i, k[2])'
    <3>1. CASE i = j
      <4>1. k \in DOMAIN e \ DOMAIN edges /\ e[k].is # "gone"
        BY <1>2, <1>3, <2>4, <3>1
      <4> QED BY <2>2, <3>1, <4>1
    <3>2. CASE i # j
      BY <1>2, <1>3, <2>3, <2>4, <3>2
    <3> QED BY <3>1, <3>2
  <2> QED BY <2>4 DEF EndsHeld
<1>9. NoneDeleted'
  <2>1. ASSUME NEW i \in Jobs, NEW h \in Jobs, i # h, NEW v \in shared'[h], v \in DOMAIN newV[i]
        PROVE  newV[i][v].is # "gone"
    <3>1. v \in shared[h] \/ (h = j /\ v \in S)
      BY <1>2, <2>1
    <3>2. v \in shared[h] => newV[i][v].is # "gone"
      BY <2>1 DEF Tables, NoneDeleted
    <3>3. h = j /\ v \in S => newV[i][v].is # "gone"
      BY <2>1
    <3> QED BY <3>1, <3>2, <3>3
  <2> QED BY <1>3, <2>1 DEF NoneDeleted
<1> QED BY <1>4, <1>5, <1>6, <1>7, <1>8, <1>9 DEF Tables

(* A transaction is rolled back.                                            *)
LEMMA RolledBack ==
  ASSUME Typed, TypedRows, Tables, NEW j \in Jobs, UNCHANGED graph,
         newV' = [newV EXCEPT ![j] = Nothing], newE' = [newE EXCEPT ![j] = Nothing],
         shared' = [shared EXCEPT ![j] = {}]
  PROVE  TypedRows' /\ Tables'
<1>1. /\ DOMAIN newV'[j] = {} /\ DOMAIN newE'[j] = {} /\ shared'[j] = {}
      /\ \A i \in Jobs \ {j} : newV'[i] = newV[i] /\ newE'[i] = newE[i] /\ shared'[i] = shared[i]
  BY NoRows DEF Typed
<1>2. vertices' = vertices /\ edges' = edges
  BY DEF graph
<1>3. TypedRows'
  BY <1>1, <1>2 DEF TypedRows
<1>4. RowLocks' /\ KeepsRepos'
  BY <1>1, <1>2 DEF Tables, RowLocks, KeepsRepos
<1>5. UniqueNames'
  BY <1>1, <1>2 DEF Tables, UniqueNames
<1>6. ForeignKeys'
  <2>1. ASSUME NEW i \in Jobs, NEW k \in DOMAIN E(i)'
        PROVE  k[1] \in DOMAIN V(i)' /\ k[2] \in DOMAIN V(i)'
    <3>1. CASE i = j
      <4>1. k \in DOMAIN edges /\ DOMAIN vertices \subseteq DOMAIN V(i)'
        BY <1>1, <1>2, <2>1, <3>1, InMerged DEF E, V
      <4> QED BY <4>1 DEF Tables, ForeignKeys
    <3>2. CASE i # j
      <4>1. E(i)' = E(i) /\ V(i)' = V(i)
        BY <1>1, <1>2, <3>2 DEF E, V
      <4> QED BY <2>1, <4>1 DEF Tables, ForeignKeys
    <3> QED BY <3>1, <3>2
  <2> QED BY <1>2, <2>1 DEF Tables, ForeignKeys
<1>7. EndsHeld'
  <2>1. ASSUME NEW i \in Jobs, NEW k \in DOMAIN newE'[i] \ DOMAIN edges', newE'[i][k].is # "gone"
        PROVE  Held(i, k[1])' /\ Held(i, k[2])'
    <3>1. i # j
      BY <1>1, <2>1
    <3>2. Held(i, k[1]) /\ Held(i, k[2])
      BY <1>1, <1>2, <2>1, <3>1 DEF Tables, EndsHeld
    <3> QED BY <1>1, <1>2, <3>1, <3>2 DEF Held
  <2> QED BY <2>1 DEF EndsHeld
<1>8. NoneDeleted'
  BY <1>1, <1>2 DEF Tables, NoneDeleted
<1> QED BY <1>3, <1>4, <1>5, <1>6, <1>7, <1>8 DEF Tables

(* A transaction commits: what it wrote is what all see.                    *)
LEMMA Committed ==
  ASSUME Typed, TypedRows, Tables, NEW j \in Jobs, vertices' = V(j), edges' = E(j),
         newV' = [newV EXCEPT ![j] = Nothing], newE' = [newE EXCEPT ![j] = Nothing],
         shared' = [shared EXCEPT ![j] = {}]
  PROVE  /\ TypedRows' /\ Tables'
         /\ \A v \in DOMAIN vertices : vertices[v].is = "repo" =>
              /\ v \in DOMAIN vertices' /\ vertices'[v].is = "repo"
              /\ vertices'[v].name = vertices[v].name
<1>1. /\ DOMAIN newV'[j] = {} /\ DOMAIN newE'[j] = {} /\ shared'[j] = {}
      /\ \A i \in Jobs \ {j} : newV'[i] = newV[i] /\ newE'[i] = newE[i] /\ shared'[i] = shared[i]
  BY NoRows DEF Typed
<1>2. /\ \A v : v \in DOMAIN vertices' <=>
             IF v \in DOMAIN newV[j] THEN newV[j][v].is # "gone" ELSE v \in DOMAIN vertices
      /\ \A v \in DOMAIN vertices' :
           vertices'[v] = IF v \in DOMAIN newV[j] THEN newV[j][v] ELSE vertices[v]
  BY InMerged, MergedRows DEF V
<1>3. /\ \A k : k \in DOMAIN edges' <=>
             IF k \in DOMAIN newE[j] THEN newE[j][k].is # "gone" ELSE k \in DOMAIN edges
      /\ \A k \in DOMAIN edges' :
           edges'[k] = IF k \in DOMAIN newE[j] THEN newE[j][k] ELSE edges[k]
  BY InMerged, MergedRows DEF E
<1>4. \A v \in DOMAIN vertices : vertices[v].is = "repo" =>
        /\ v \in DOMAIN vertices' /\ vertices'[v].is = "repo"
        /\ vertices'[v].name = vertices[v].name
  BY <1>2 DEF Tables, KeepsRepos
<1>5. TypedRows'
  <2>1. /\ DOMAIN vertices' \subseteq Nat
        /\ \A v \in DOMAIN vertices' : vertices'[v] \in Vertex /\ vertices'[v].is # "gone"
    BY <1>2 DEF TypedRows
  <2>2. /\ DOMAIN edges' \subseteq Nat \X Nat
        /\ \A k \in DOMAIN edges' : edges'[k] \in Edge /\ edges'[k].is # "gone"
    BY <1>3 DEF TypedRows
  <2>3. \A i \in Jobs : /\ DOMAIN newV'[i] \subseteq Nat
                        /\ \A v \in DOMAIN newV'[i] : newV'[i][v] \in Vertex
                        /\ DOMAIN newE'[i] \subseteq Nat \X Nat
                        /\ \A k \in DOMAIN newE'[i] : newE'[i][k] \in Edge
    BY <1>1 DEF TypedRows
  <2> QED BY <2>1, <2>2, <2>3 DEF TypedRows
<1>6. RowLocks'
  BY <1>1 DEF Tables, RowLocks
<1>7. UniqueNames'
  <2>1. \A v \in DOMAIN vertices' : \/ v \in DOMAIN vertices /\ vertices'[v] = vertices[v]
                                    \/ v \in DOMAIN newV[j] /\ vertices'[v] = newV[j][v]
    BY <1>2
  <2>2. \A u, v \in DOMAIN vertices' : vertices'[u].name = vertices'[v].name => u = v
    BY <2>1 DEF Tables, UniqueNames
  <2>3. \A i \in Jobs : \A u \in DOMAIN vertices' : \A v \in DOMAIN newV'[i] :
          vertices'[u].name = newV'[i][v].name => u = v
    BY <1>1, <2>1 DEF Tables, UniqueNames
  <2>4. \A h, i \in Jobs : \A u \in DOMAIN newV'[h] : \A v \in DOMAIN newV'[i] :
          newV'[h][u].name = newV'[i][v].name => u = v
    BY <1>1 DEF Tables, UniqueNames
  <2> QED BY <2>2, <2>3, <2>4 DEF UniqueNames
<1>8. KeepsRepos'
  <2>1. ASSUME NEW i \in Jobs, NEW v \in DOMAIN newV'[i] \cap DOMAIN vertices'
        PROVE  /\ newV'[i][v].name = vertices'[v].name
               /\ vertices'[v].is = "repo" => newV'[i][v].is = "repo"
    <3>1. i # j /\ newV'[i] = newV[i] /\ v \notin DOMAIN newV[j]
      BY <1>1, <2>1 DEF Tables, RowLocks
    <3>2. v \in DOMAIN vertices /\ vertices'[v] = vertices[v]
      BY <1>2, <2>1, <3>1
    <3> QED BY <2>1, <3>1, <3>2 DEF Tables, KeepsRepos
  <2> QED BY <2>1 DEF KeepsRepos
<1>9. EndsHeld'
  <2>1. ASSUME NEW i \in Jobs, NEW k \in DOMAIN newE'[i] \ DOMAIN edges', newE'[i][k].is # "gone"
        PROVE  Held(i, k[1])' /\ Held(i, k[2])'
    <3>1. i # j /\ newE'[i] = newE[i] /\ shared'[i] = shared[i]
      BY <1>1, <2>1
    <3>2. k \notin DOMAIN edges
      BY <1>3, <2>1, <3>1 DEF Tables, RowLocks
    <3>3. Held(i, k[1]) /\ Held(i, k[2])
      BY <2>1, <3>1, <3>2 DEF Tables, EndsHeld
    <3>4. DOMAIN edges \cap DOMAIN newE[i] \subseteq DOMAIN edges'
      BY <1>3, <3>1 DEF Tables, RowLocks
    <3> QED BY <3>1, <3>3, <3>4 DEF Held
  <2> QED BY <2>1 DEF EndsHeld
<1>10. NoneDeleted'
  BY <1>1 DEF Tables, NoneDeleted
<1>11. ForeignKeys'
  <2>1. \A k \in DOMAIN edges' : k[1] \in DOMAIN vertices' /\ k[2] \in DOMAIN vertices'
    BY DEF Tables, ForeignKeys
  <2>2. ASSUME NEW i \in Jobs \ {j}, NEW k \in DOMAIN E(i)', NEW v \in {k[1], k[2]}
        PROVE  v \in DOMAIN V(i)'
    <3>1. IF k \in DOMAIN newE[i] THEN newE[i][k].is # "gone" ELSE k \in DOMAIN E(j)
      BY <1>1, <2>2, InMerged DEF E
    <3>2. v \in DOMAIN V(i)' <=>
            IF v \in DOMAIN newV[i] THEN newV[i][v].is # "gone" ELSE v \in DOMAIN V(j)
      BY <1>1, InMerged DEF V
    <3>3. /\ k \in DOMAIN E(i) => v \in DOMAIN V(i)
          /\ k \in DOMAIN E(j) => v \in DOMAIN V(j)
      BY <2>2 DEF Tables, ForeignKeys
    <3>4. /\ v \in DOMAIN V(i) <=>
               IF v \in DOMAIN newV[i] THEN newV[i][v].is # "gone" ELSE v \in DOMAIN vertices
          /\ v \in DOMAIN V(j) <=>
               IF v \in DOMAIN newV[j] THEN newV[j][v].is # "gone" ELSE v \in DOMAIN vertices
          /\ k \in DOMAIN E(i) <=>
               IF k \in DOMAIN newE[i] THEN newE[i][k].is # "gone" ELSE k \in DOMAIN edges
      BY InMerged DEF V, E
    (* Of two open transactions, one may refer to a vertex only if the      *)
    (* other does not delete it.                                            *)
    <3>5. ASSUME NEW g \in Jobs, NEW h \in Jobs, g # h, v \in DOMAIN V(g),
                 Held(g, v)
          PROVE  v \in DOMAIN newV[h] => newV[h][v].is # "gone"
      <4>1. CASE v \in shared[g]
        BY <3>5, <4>1 DEF Tables, NoneDeleted
      <4>2. CASE \E l \in DOMAIN edges \cap DOMAIN newE[g] : v \in {l[1], l[2]}
        <5>1. PICK l \in DOMAIN edges \cap DOMAIN newE[g] : v \in {l[1], l[2]}
          BY <4>2
        <5>2. l \in DOMAIN E(h)
          BY <3>5, InMerged DEF E, Tables, RowLocks
        <5>3. v \in DOMAIN V(h)
          BY <5>1, <5>2 DEF Tables, ForeignKeys
        <5> QED BY <5>3, InMerged DEF V
      <4> QED BY <3>5, <4>1, <4>2 DEF Held
    <3>6. CASE k \in DOMAIN edges
      <4>1. k \in DOMAIN E(i)
        BY <3>1, <3>4, <3>6
      <4>2. k \in DOMAIN E(j)
        <5>1. k \notin DOMAIN newE[j] \/ k \notin DOMAIN newE[i]
          BY <2>2 DEF Tables, RowLocks
        <5> QED BY <3>1, <3>6, <5>1, InMerged DEF E
      <4> QED BY <3>2, <3>3, <3>4, <4>1, <4>2
    <3>7. CASE k \notin DOMAIN edges /\ k \in DOMAIN newE[i]
      <4>1. v \in DOMAIN V(i) /\ Held(i, v)
        BY <2>2, <3>1, <3>3, <3>4, <3>7 DEF Tables, EndsHeld
      <4>2. v \in DOMAIN newV[j] => newV[j][v].is # "gone"
        BY <2>2, <3>5, <4>1
      <4> QED BY <3>2, <3>4, <4>1, <4>2
    <3>8. CASE k \notin DOMAIN edges /\ k \notin DOMAIN newE[i]
      <4>1. k \in DOMAIN newE[j] /\ newE[j][k].is # "gone"
        BY <3>1, <3>8, InMerged DEF E
      <4>2. v \in DOMAIN V(j) /\ Held(j, v)
        BY <2>2, <3>1, <3>3, <3>8, <4>1 DEF Tables, EndsHeld
      <4>3. v \in DOMAIN newV[i] => newV[i][v].is # "gone"
        BY <2>2, <3>5, <4>2
      <4> QED BY <3>2, <4>2, <4>3
    <3> QED BY <3>6, <3>7, <3>8
  <2>3. ASSUME NEW k \in DOMAIN E(j)'
        PROVE  k[1] \in DOMAIN V(j)' /\ k[2] \in DOMAIN V(j)'
    <3>1. k \in DOMAIN edges' /\ DOMAIN vertices' \subseteq DOMAIN V(j)'
      BY <1>1, <2>3, InMerged DEF E, V
    <3> QED BY <2>1, <3>1
  <2> QED BY <2>1, <2>2, <2>3 DEF ForeignKeys
<1> QED BY <1>4, <1>5, <1>6, <1>7, <1>8, <1>9, <1>10, <1>11 DEF Tables

-----------------------------------------------------------------------------
(* What the step of a job leaves to the others.                             *)

Others(j) ==
  \A i \in Jobs \ {j} :
    /\ pc'[i] = pc[i] /\ todo'[i] = todo[i] /\ rows'[i] = rows[i] /\ stmt'[i] = stmt[i]
    /\ vid'[i] = vid[i] /\ newV'[i] = newV[i] /\ newE'[i] = newE[i] /\ shared'[i] = shared[i]

LEMMA LocalKept ==
  ASSUME NEW i \in Jobs, Local(i), UNCHANGED <<task, graph>>,
         pc'[i] = pc[i], todo'[i] = todo[i], rows'[i] = rows[i], stmt'[i] = stmt[i],
         vid'[i] = vid[i], newV'[i] = newV[i], newE'[i] = newE[i]
  PROVE  Local(i)'
<1>1. vertices' = vertices /\ edges' = edges /\ task' = task
  BY DEF graph
<1>2. Source(i)' = Source(i) /\ Ext(i)' = Ext(i) /\ E(i)' = E(i) /\ RootEdges(i)' = RootEdges(i)
  BY <1>1 DEF Source, Ext, E, RootEdges, Planned, Ends, Plan
<1>3. Phase(i)' /\ NotItself(i)'
  BY <1>1 DEF Local, Phase, NotItself, Absorbing
<1>4. Written(i)' /\ SourceIsRepo(i)'
  BY <1>1, <1>2 DEF Local, Written, SourceIsRepo, Absorbing
<1>5. RowsFit(i)' /\ Weakened(i)'
  BY <1>1, <1>2 DEF Local, RowsFit, Weakened, Absorbing
<1> QED BY <1>3, <1>4, <1>5 DEF Local

LEMMA JobMoves ==
  ASSUME Inv, NEW j \in Jobs, Others(j), UNCHANGED <<task, graph>>,
         Typed', TypedRows', Ids', Tables', Local(j)', Absorbed(j)',
         DOMAIN newV'[j] \subseteq DOMAIN newV[j] \cup DOMAIN vertices \cup {lastId + 1}
  PROVE  Inv'
<1>1. \A i \in Jobs : Local(i)'
  BY LocalKept DEF Inv, Others
<1>2. ASSUME NEW i \in Jobs PROVE Absorbed(i)'
  <2>1. CASE i = j
    BY <2>1
  <2>2. CASE i # j
    <3>1. Ext(i)' = Ext(i) /\ vertices' = vertices
      BY <2>2 DEF Others, Ext, graph
    <3>2. pc[i] = "commit" /\ stmt[i] # 0 => Ext(i) \in Nat /\ Ext(i) <= lastId
      <4>1. ASSUME pc[i] = "commit" /\ stmt[i] # 0 PROVE Head(todo[i]) \in Names
        <5>1. todo[i] \in Seq(Names) /\ todo[i] # <<>>
          BY <4>1 DEF Inv, Typed, Local, Phase, Absorbing
        <5> QED BY <5>1, HeadTail
      <4> QED BY <4>1 DEF Inv, Ids, Typed, Ext
    <3>3. ASSUME pc[i] = "commit" /\ stmt[i] # 0, Ext(i) \notin DOMAIN vertices,
                 \A h \in Jobs : Ext(i) \notin DOMAIN newV[h]
          PROVE  \A h \in Jobs : Ext(i) \notin DOMAIN newV'[h]
      <4>1. Ext(i) \notin DOMAIN newV'[j]
        BY <3>2, <3>3 DEF Inv, Typed
      <4> QED BY <3>3, <4>1 DEF Others
    <3> QED BY <2>2, <3>1, <3>3 DEF Absorbed, Inv, Others
  <2> QED BY <2>1, <2>2
<1> QED BY <1>1, <1>2 DEF Inv

(* A step that writes no row.                                               *)
LEMMA NoRowWritten ==
  ASSUME Inv, NEW j \in Jobs, Others(j), UNCHANGED <<task, graph, lastId, writes>>,
         Typed', Local(j)', Absorbed(j)', \A n \in Names : vid'[j][n] <= lastId
  PROVE  Inv'
<1>1. /\ vertices' = vertices /\ edges' = edges /\ lastId' = lastId
      /\ newV' = newV /\ newE' = newE /\ shared' = shared
  BY DEF graph, writes
<1>2. TypedRows' /\ Ids'
  BY <1>1 DEF Inv, TypedRows, Ids, Others
<1>3. Tables'
  <2>1. RowLocks' /\ UniqueNames' /\ KeepsRepos' /\ NoneDeleted'
    BY <1>1 DEF Inv, Tables, RowLocks, UniqueNames, KeepsRepos, NoneDeleted
  <2>2. ForeignKeys' /\ EndsHeld'
    BY <1>1 DEF Inv, Tables, ForeignKeys, E, V, EndsHeld, Held
  <2> QED BY <2>1, <2>2 DEF Tables
<1> QED BY <1>1, <1>2, <1>3, JobMoves

LEMMA JobProceeds ==
  ASSUME Inv, NEW j \in Jobs, Others(j), UNCHANGED <<task, graph, lastId, writes>>,
         Typed', Local(j)', pc'[j] # "commit", \A n \in Names : vid'[j][n] <= lastId
  PROVE  Inv'
BY NoRowWritten DEF Absorbed

-----------------------------------------------------------------------------
(* The steps that write no row.                                             *)

LEMMA FindRepoKeeps ==
  ASSUME Inv, NEW j \in Jobs, FindRepo(j)
  PROVE  Inv'
<1>1. /\ pc[j] = "repo" /\ task[j].kind \in {"sbom", "deps"} /\ task[j].repo \in Names
      /\ task[j].packages \in Seq(Names) /\ Name(j) = task[j].repo
      /\ UNCHANGED <<task, graph, lastId, rows, stmt, read, writes>>
  BY TaskFields DEF FindRepo, Inv, Typed, Name
<1>2. \/ \E v \in DOMAIN vertices : /\ vid' = [vid EXCEPT ![j][task[j].repo] = v]
                                    /\ todo' = [todo EXCEPT ![j] = task[j].packages]
                                    /\ pc' = [pc EXCEPT ![j] = "packages"]
      \/ /\ pc' = [pc EXCEPT ![j] = IF task[j].kind = "sbom" THEN "insertRepo" ELSE "done"]
         /\ UNCHANGED <<todo, vid>>
  BY <1>1 DEF FindRepo, Resolve, Goto, Named
<1>3. Others(j)
  BY <1>1, <1>2 DEF Others, Inv, Typed, writes
<1>4. vid' \in [Jobs -> [Names -> Nat]] /\ \A n \in Names : vid'[j][n] <= lastId
  <2>1. ASSUME NEW v \in DOMAIN vertices, vid' = [vid EXCEPT ![j][task[j].repo] = v]
        PROVE  vid' \in [Jobs -> [Names -> Nat]] /\ \A n \in Names : vid'[j][n] <= lastId
    <3>1. v \in Nat /\ v <= lastId /\ \A n \in Names : vid[j][n] <= lastId
      BY DEF Inv, TypedRows, Ids
    <3> QED BY <1>1, <2>1, <3>1, Remembered DEF Inv
  <2> QED BY <1>2, <2>1 DEF Inv, Typed, Ids
<1>5. Typed'
  BY <1>1, <1>2, <1>4 DEF Inv, Typed, Pc, Ended, Statements, writes
<1>6. Local(j)'
  BY <1>1, <1>2 DEF Inv, Typed, Local, Phase, NotItself, Written, SourceIsRepo, RowsFit, Weakened,
                    Absorbing, Ended, writes
<1>7. pc'[j] # "commit"
  BY <1>1, <1>2 DEF Inv, Typed
<1> QED BY <1>1, <1>3, <1>4, <1>5, <1>6, <1>7, JobProceeds


LEMMA UpsertRepoKeeps ==
  ASSUME Inv, NEW j \in Jobs, UpsertRepo(j)
  PROVE  Inv'
<1>1. /\ pc[j] = "repo" /\ task[j].kind = "repo" /\ task[j].repo \in Names /\ Name(j) = task[j].repo
      /\ UNCHANGED <<task, graph, lastId, todo, rows, stmt, writes>>
  BY TaskFields DEF UpsertRepo, Inv, Typed, Name
<1>2. \/ \E v \in DOMAIN vertices :
           /\ vid' = [vid EXCEPT ![j][task[j].repo] = v]
           /\ read' = [read EXCEPT ![j] = vertices[v].purls]
           /\ pc' = [pc EXCEPT ![j] = IF vertices[v].is = "external" THEN "promote" ELSE "updateRepo"]
      \/ pc' = [pc EXCEPT ![j] = "insertRepo"] /\ UNCHANGED <<vid, read>>
  BY <1>1 DEF UpsertRepo, Resolve, Goto, Named
<1>3. /\ stmt[j] = 0 /\ DOMAIN newV[j] = {} /\ DOMAIN newE[j] = {}
  BY <1>1 DEF Inv, Local, Phase, Written
<1>4. Others(j)
  BY <1>1, <1>2 DEF Others, Inv, Typed, writes
<1>5. CASE \E v \in DOMAIN vertices :
             /\ vid' = [vid EXCEPT ![j][task[j].repo] = v]
             /\ read' = [read EXCEPT ![j] = vertices[v].purls]
             /\ pc' = [pc EXCEPT ![j] = IF vertices[v].is = "external" THEN "promote" ELSE "updateRepo"]
  <2>1. PICK v \in DOMAIN vertices :
           /\ vid' = [vid EXCEPT ![j][task[j].repo] = v]
           /\ read' = [read EXCEPT ![j] = vertices[v].purls]
           /\ pc' = [pc EXCEPT ![j] = IF vertices[v].is = "external" THEN "promote" ELSE "updateRepo"]
    BY <1>5
  <2>2. /\ v \in Nat /\ v <= lastId /\ vertices[v].purls \subseteq Names
        /\ vertices[v].is # "external" => vertices[v].is = "repo"
    BY DEF Inv, TypedRows, Ids, Vertex, Repo, ExternalRepo, Deleted
  <2>3. /\ vid' \in [Jobs -> [Names -> Nat]] /\ vid'[j][task[j].repo] = v
        /\ \A n \in Names : vid'[j][n] <= lastId
    <3>1. \A n \in Names : vid[j][n] <= lastId
      BY DEF Inv, Ids
    <3> QED BY <1>1, <2>1, <2>2, <3>1, Remembered, ZenonT(30) DEF Inv
  <2>4. Typed'
    BY <1>1, <2>1, <2>2, <2>3 DEF Inv, Typed, Pc, writes
  <2>5. Local(j)'
    BY <1>1, <1>3, <2>1, <2>2, <2>3 DEF Inv, Typed, Local, Phase, NotItself, Written, SourceIsRepo,
       Source, RowsFit, Weakened, Absorbing, Ended, writes, graph
  <2>6. pc'[j] # "commit"
    BY <2>1 DEF Inv, Typed
  <2> QED BY <1>1, <1>4, <2>3, <2>4, <2>5, <2>6, JobProceeds
<1>6. CASE pc' = [pc EXCEPT ![j] = "insertRepo"] /\ UNCHANGED <<vid, read>>
  <2>1. Typed' /\ pc'[j] # "commit"
    BY <1>1, <1>6 DEF Inv, Typed, Pc, writes
  <2>2. Local(j)'
    BY <1>1, <1>3, <1>6 DEF Inv, Typed, Local, Phase, NotItself, Written, SourceIsRepo,
       RowsFit, Weakened, Absorbing, Ended, writes, graph
  <2>3. \A n \in Names : vid'[j][n] <= lastId
    BY <1>6 DEF Inv, Ids
  <2> QED BY <1>1, <1>4, <2>1, <2>2, <2>3, JobProceeds
<1> QED BY <1>2, <1>5, <1>6

(* The vertices that a transaction sees have ids.                           *)
LEMMA SeenIds ==
  ASSUME Inv, NEW j \in Jobs, NEW v \in DOMAIN V(j)
  PROVE  /\ v \in Nat /\ v <= lastId /\ V(j)[v] \in Vertex
         /\ v \in DOMAIN newV[j] \cup DOMAIN vertices
         /\ V(j)[v] = IF v \in DOMAIN newV[j] THEN newV[j][v] ELSE vertices[v]
<1>1. /\ v \in DOMAIN newV[j] \cup DOMAIN vertices
      /\ V(j)[v] = IF v \in DOMAIN newV[j] THEN newV[j][v] ELSE vertices[v]
  BY DEF V, Merged
<1> QED BY <1>1 DEF Inv, TypedRows, Ids

LEMMA VisitPackageKeeps ==
  ASSUME Inv, NEW j \in Jobs, VisitPackage(j)
  PROVE  Inv'
<1>1. /\ pc[j] = "packages" /\ todo[j] # <<>> /\ todo[j] \in Seq(Names) /\ Name(j) = Head(todo[j])
      /\ UNCHANGED <<task, graph, lastId, stmt, read, writes>>
  BY DEF VisitPackage, Inv, Typed, Name
<1>2. Name(j) \in Names /\ Tail(todo[j]) \in Seq(Names) /\ task[j].kind \in {"sbom", "deps"}
      /\ task[j].repo \in Names /\ Source(j) \in Nat
  <2>1. task[j].repo \in Names
    BY TaskFields DEF Inv, Typed
  <2> QED BY <1>1, <2>1, HeadTail DEF Inv, Local, Phase, Typed, Source
<1>3. \/ \E v \in DOMAIN vertices \cup DOMAIN V(j) :
           /\ vid' = [vid EXCEPT ![j][Name(j)] = v]
           /\ \/ /\ task[j].kind = "sbom"
                 /\ todo' = [todo EXCEPT ![j] = Tail(@)]
                 /\ UNCHANGED <<pc, rows>>
              \/ /\ task[j].kind = "deps"
                 /\ pc' = [pc EXCEPT ![j] = "edge"]
                 /\ rows' = [rows EXCEPT ![j] = {<<Source(j), v>>}]
                 /\ UNCHANGED todo
              \/ /\ pc' = [pc EXCEPT ![j] = "updatePackage"]
                 /\ UNCHANGED <<todo, rows>>
      \/ pc' = [pc EXCEPT ![j] = "insertPackage"] /\ UNCHANGED <<todo, rows, vid>>
  BY <1>1 DEF VisitPackage, Publishers, Named, PackageFound, Resolve, Visited, Goto
<1>4. Others(j)
  BY <1>1, <1>3 DEF Others, Inv, Typed, writes
<1>5. /\ vid' \in [Jobs -> [Names -> Nat]] /\ \A n \in Names : vid'[j][n] <= lastId
      /\ rows' \in [Jobs -> SUBSET (Nat \X Nat)]
  <2>1. \A n \in Names : vid[j][n] <= lastId
    BY DEF Inv, Ids
  <2>2. ASSUME NEW v \in DOMAIN vertices \cup DOMAIN V(j), vid' = [vid EXCEPT ![j][Name(j)] = v],
               \/ UNCHANGED rows
               \/ rows' = [rows EXCEPT ![j] = {<<Source(j), v>>}]
        PROVE  /\ vid' \in [Jobs -> [Names -> Nat]] /\ \A n \in Names : vid'[j][n] <= lastId
               /\ rows' \in [Jobs -> SUBSET (Nat \X Nat)]
    <3>1. v \in Nat /\ v <= lastId
      <4>1. CASE v \in DOMAIN vertices
        BY <4>1 DEF Inv, TypedRows, Ids
      <4>2. CASE v \in DOMAIN V(j)
        BY <4>2, SeenIds
      <4> QED BY <4>1, <4>2
    <3>2. rows' \in [Jobs -> SUBSET (Nat \X Nat)]
      <4>1. {<<Source(j), v>>} \in SUBSET (Nat \X Nat)
        BY <1>2, <3>1
      <4> QED BY <2>2, <4>1 DEF Inv, Typed
    <3> QED BY <1>2, <2>1, <2>2, <3>1, <3>2, Remembered, ZenonT(30) DEF Inv
  <2>3. CASE UNCHANGED <<rows, vid>>
    BY <2>1, <2>3 DEF Inv, Typed
  <2> QED BY <1>3, <2>2, <2>3
<1>6. Typed' /\ pc'[j] # "commit"
  <2>1. pc' \in [Jobs -> Pc] /\ pc'[j] # "commit"
    BY <1>1, <1>3 DEF Inv, Typed, Pc, Statements
  <2>2. todo' \in [Jobs -> Seq(Names)]
    BY <1>1, <1>2, <1>3 DEF Inv, Typed
  <2> QED BY <1>1, <1>5, <2>1, <2>2 DEF Inv, Typed, writes
<1>7. Local(j)'
  <2>1. pc'[j] \in {"packages", "edge", "updatePackage", "insertPackage"}
    BY <1>1, <1>3 DEF Inv, Typed
  <2>2. (pc'[j] = "edge" => task[j].kind = "deps") /\ (pc'[j] # "packages" => todo'[j] # <<>>)
    BY <1>1, <1>3 DEF Inv, Typed
  <2>3. /\ task[j].kind = "sbom" => DOMAIN newE[j] = {}
        /\ \A v \in DOMAIN newV[j] : newV[j][v].is # "gone"
    BY <1>1 DEF Inv, Local, Written
  <2>4. task' = task /\ edges' = edges /\ newV' = newV /\ newE' = newE
    BY <1>1 DEF graph, writes
  <2>5. Phase(j)' /\ NotItself(j)' /\ SourceIsRepo(j)' /\ RowsFit(j)'
    BY <1>2, <2>1, <2>2, <2>4 DEF Phase, NotItself, SourceIsRepo, RowsFit, Absorbing
  <2>6. Written(j)'
    BY <1>2, <2>1, <2>3, <2>4 DEF Written, Ended
  <2>7. Weakened(j)'
    BY <1>2, <2>1, <2>3, <2>4 DEF Inv, Local, Weakened, Absorbing
  <2> QED BY <2>5, <2>6, <2>7 DEF Local
<1> QED BY <1>1, <1>4, <1>5, <1>6, <1>7, JobProceeds


(* Planned edges are pairs of ids.                                          *)
LEMMA PlannedTyped ==
  ASSUME Inv, NEW j \in Jobs, task[j].kind = "sbom"
  PROVE  /\ \A p \in Plan(j) : p[1] \in Nat /\ p[2] \in Names /\ p[3] \in Names
         /\ \A p \in Plan(j) : Ends(j, p) \in Nat \X Nat
         /\ RootEdges(j) \subseteq Nat \X Nat /\ NestedEdges(j) \subseteq Nat \X Nat
<1>1. /\ task[j].repo \in Names /\ task[j].packages \in Seq(Names)
      /\ task[j].flat \in BOOLEAN /\ task[j].relations \subseteq Nat \X Names \X Names
  BY TaskFields, Zenon DEF Inv, Typed
<1>2. \A p \in Plan(j) : p[1] \in Nat /\ p[2] \in Names /\ p[3] \in Names
  <2>1. CASE task[j].flat
    BY <1>1, <2>1 DEF Plan
  <2>2. CASE ~task[j].flat
    BY <1>1, <2>2 DEF Plan
  <2> QED BY <2>1, <2>2
<1>3. \A p \in Plan(j) : Ends(j, p) \in Nat \X Nat
  BY <1>2 DEF Ends, Inv, Typed
<1> QED BY <1>2, <1>3 DEF RootEdges, NestedEdges, Planned

(* A step that neither resolves a name nor visits one.                      *)
LEMMA StatementStarts ==
  ASSUME Inv, NEW j \in Jobs, NEW label \in Pc \ {"commit"}, NEW S, S \subseteq Nat \X Nat,
         Goto(j, label), rows' = [rows EXCEPT ![j] = S],
         UNCHANGED <<task, graph, lastId, todo, stmt, vid, read, writes>>, Local(j)'
  PROVE  Inv'
<1>1. Others(j)
  BY DEF Others, Goto, Inv, Typed, writes
<1>2. Typed' /\ pc'[j] # "commit"
  BY DEF Goto, Inv, Typed, writes
<1>3. \A n \in Names : vid'[j][n] <= lastId
  BY DEF Inv, Ids
<1> QED BY <1>1, <1>2, <1>3, JobProceeds

LEMMA DeleteRootEdgesKeeps ==
  ASSUME Inv, NEW j \in Jobs, DeleteRootEdges(j)
  PROVE  Inv'
<1> DEFINE S == {k \in DOMAIN E(j) : k[1] = Source(j)}
<1>1. /\ pc[j] = "packages" /\ task[j].kind = "sbom"
      /\ rows' = [rows EXCEPT ![j] = S] /\ Goto(j, "delete")
      /\ UNCHANGED <<task, graph, lastId, todo, stmt, vid, read, writes>>
  BY DEF DeleteRootEdges
<1>2. S \subseteq Nat \X Nat
  BY InMerged DEF E, Inv, TypedRows
<1>3. /\ pc'[j] = "delete" /\ rows'[j] = S /\ task' = task /\ todo' = todo /\ vid' = vid
      /\ newV' = newV /\ newE' = newE /\ edges' = edges
  BY <1>1 DEF Goto, Inv, Typed, writes, graph
<1>4. Local(j)'
  <2>1. DOMAIN newE[j] = {} /\ \A v \in DOMAIN newV[j] : newV[j][v].is # "gone"
    BY <1>1 DEF Inv, Local, Written
  <2>2. \A k \in S : k[1] = Source(j)
    OBVIOUS
  <2> HIDE DEF S
  <2>3. RowsFit(j)'
    BY <1>1, <1>3, <2>2 DEF RowsFit, Source
  <2> QED BY <1>1, <1>3, <2>1, <2>3 DEF Inv, Local, Phase, NotItself, Written, SourceIsRepo,
             Weakened, Absorbing, Ended
<1> QED BY <1>1, <1>2, <1>4, StatementStarts, Zenon DEF Pc, Statements

LEMMA InsertRootEdgesKeeps ==
  ASSUME Inv, NEW j \in Jobs, InsertRootEdges(j)
  PROVE  Inv'
<1>1. /\ pc[j] = "delete" /\ rows' = [rows EXCEPT ![j] = RootEdges(j)] /\ Goto(j, "root")
      /\ UNCHANGED <<task, graph, lastId, todo, stmt, vid, read, writes>>
  BY DEF InsertRootEdges
<1>2. task[j].kind = "sbom"
  BY <1>1 DEF Inv, Local, Phase
<1>3. /\ pc'[j] = "root" /\ rows'[j] = RootEdges(j) /\ task' = task /\ todo' = todo /\ vid' = vid
      /\ newV' = newV /\ newE' = newE /\ edges' = edges
  BY <1>1 DEF Goto, Inv, Typed, writes, graph
<1>4. Local(j)'
  <2>1. \A v \in DOMAIN newV[j] : newV[j][v].is # "gone"
    BY <1>1 DEF Inv, Local, Written
  <2>2. RootEdges(j)' = RootEdges(j) /\ Source(j)' = Source(j)
    <3>1. Plan(j)' = Plan(j) /\ Source(j)' = Source(j)
      BY <1>3 DEF Plan, Source
    <3>2. \A i : Ends(j, i)' = Ends(j, i)
      BY <1>3, <3>1 DEF Ends
    <3>3. Planned(j)' = Planned(j)
      BY <3>1, <3>2 DEF Planned
    <3> QED BY <3>1, <3>3 DEF RootEdges
  <2>3. RowsFit(j)'
    BY <1>3, <2>2 DEF RowsFit
  <2> QED BY <1>1, <1>2, <1>3, <2>1, <2>2, <2>3 DEF Inv, Local, Phase, NotItself, Written,
             SourceIsRepo, Weakened, Absorbing, Ended
<1>5. RootEdges(j) \subseteq Nat \X Nat
  BY <1>2, PlannedTyped
<1> QED BY <1>1, <1>4, <1>5, StatementStarts, Zenon DEF Pc, Statements

LEMMA UpsertNestedEdgesKeeps ==
  ASSUME Inv, NEW j \in Jobs, UpsertNestedEdges(j)
  PROVE  Inv'
<1>1. /\ pc[j] = "root" /\ rows' = [rows EXCEPT ![j] = NestedEdges(j)] /\ Goto(j, "nested")
      /\ UNCHANGED <<task, graph, lastId, todo, stmt, vid, read, writes>>
  BY DEF UpsertNestedEdges
<1>2. task[j].kind = "sbom"
  BY <1>1 DEF Inv, Local, Phase
<1>3. /\ pc'[j] = "nested" /\ task' = task /\ todo' = todo /\ vid' = vid
      /\ newV' = newV /\ newE' = newE /\ edges' = edges
  BY <1>1 DEF Goto, Inv, Typed, writes, graph
<1>4. Local(j)'
  <2>1. \A v \in DOMAIN newV[j] : newV[j][v].is # "gone"
    BY <1>1 DEF Inv, Local, Written
  <2>2. Source(j)' = Source(j)
    BY <1>3 DEF Source
  <2> QED BY <1>1, <1>2, <1>3, <2>1, <2>2 DEF Inv, Local, Phase, NotItself, Written,
             SourceIsRepo, RowsFit, Weakened, Absorbing, Ended
<1>5. NestedEdges(j) \subseteq Nat \X Nat
  BY <1>2, PlannedTyped
<1> QED BY <1>1, <1>4, <1>5, StatementStarts, Zenon DEF Pc, Statements

LEMMA DeleteStatementKeeps ==
  ASSUME Inv, NEW j \in Jobs, DeleteStatement(j)
  PROVE  Inv'
<1>1. /\ pc[j] = "absorbing" /\ rows[j] = {} /\ stmt[j] = 6 /\ Goto(j, "deleteExternal")
      /\ UNCHANGED <<task, graph, lastId, todo, rows, stmt, vid, read, writes>>
  BY DEF DeleteStatement
<1>2. rows' = [rows EXCEPT ![j] = rows[j]] /\ rows[j] \subseteq Nat \X Nat
  BY <1>1 DEF Inv, Typed
<1>3. /\ pc'[j] = "deleteExternal" /\ task' = task /\ todo' = todo /\ vid' = vid /\ stmt' = stmt
      /\ newV' = newV /\ newE' = newE /\ edges' = edges /\ vertices' = vertices /\ rows' = rows
  BY <1>1 DEF Goto, Inv, Typed, writes, graph
<1>4. Local(j)'
  <2>1. Source(j)' = Source(j) /\ Ext(j)' = Ext(j)
    BY <1>3 DEF Source, Ext
  <2> QED BY <1>1, <1>3, <2>1 DEF Inv, Local, Phase, NotItself, Written,
             SourceIsRepo, RowsFit, Weakened, Absorbing, Ended
<1> QED BY <1>1, <1>2, <1>4, StatementStarts, Zenon DEF Pc, Statements

LEMMA EndCrawlKeeps ==
  ASSUME Inv, NEW j \in Jobs, EndCrawl(j)
  PROVE  Inv'
<1>1. /\ pc[j] = "absorb" /\ Goto(j, "done")
      /\ UNCHANGED <<task, graph, lastId, todo, rows, stmt, vid, read, writes>>
  BY DEF EndCrawl
<1>2. rows' = [rows EXCEPT ![j] = rows[j]] /\ rows[j] \subseteq Nat \X Nat
  BY <1>1 DEF Inv, Typed
<1>3. /\ pc'[j] = "done" /\ task' = task /\ todo' = todo /\ newV' = newV /\ newE' = newE
  BY <1>1 DEF Goto, Inv, Typed, writes
<1>4. Local(j)'
  BY <1>1, <1>3 DEF Inv, Local, Phase, NotItself, Written, SourceIsRepo, RowsFit, Weakened,
     Absorbing, Ended
<1> QED BY <1>1, <1>2, <1>4, StatementStarts, Zenon DEF Pc, Ended

(* Every edge that an absorption visits is one of the external vertex.      *)
LEMMA SelectsExternal ==
  ASSUME Typed, NEW j \in Jobs, pc[j] = "absorbing", NEW s \in 1..6, NEW k, Selects(j, s, k)
  PROVE  Ext(j) \in {k[1], k[2]}
<1>1. Ext(j) = vid[j][Name(j)]
  BY DEF Name, Ext
<1>2. \/ k = <<Source(j), Ext(j)>> \/ k = <<Ext(j), Source(j)>>
      \/ k[1] = Ext(j) \/ k[2] = Ext(j)
  <2>1. CASE s = 1
    BY <1>1, <2>1 DEF Selects
  <2>2. CASE s = 2
    BY <1>1, <2>2 DEF Selects
  <2>3. CASE s = 3
    BY <1>1, <2>3 DEF Selects
  <2>4. CASE s = 4
    BY <1>1, <2>4 DEF Selects
  <2>5. CASE s = 5
    BY <1>1, <2>5 DEF Selects
  <2>6. CASE s = 6
    BY <1>1, <2>6 DEF Selects
  <2> QED BY <2>1, <2>2, <2>3, <2>4, <2>5, <2>6
<1> QED BY <1>2

LEMMA NextStatementKeeps ==
  ASSUME Inv, NEW j \in Jobs, NextStatement(j)
  PROVE  Inv'
<1> DEFINE S == {k \in DOMAIN E(j) : Selects(j, stmt[j] + 1, k)}
<1>1. /\ pc[j] = "absorbing" /\ stmt[j] < 6 /\ stmt[j] \in 0..6
      /\ UNCHANGED <<task, graph, lastId, pc, todo, vid, read, writes>>
  BY DEF NextStatement, Inv, Typed
<1>2. stmt' = [stmt EXCEPT ![j] = stmt[j] + 1] /\ stmt'[j] = stmt[j] + 1
  BY DEF NextStatement, Inv, Typed
<1>3. rows' = [rows EXCEPT ![j] = S]
  BY <1>2 DEF NextStatement
<1>4. S \subseteq Nat \X Nat
  BY InMerged DEF E, Inv, TypedRows
<1>5. \A k \in S : k \in DOMAIN E(j) /\ Ext(j) \in {k[1], k[2]}
  <2>1. stmt[j] + 1 \in 1..6
    BY <1>1
  <2> QED BY <1>1, <2>1, SelectsExternal DEF Inv
<1> HIDE DEF S
<1>6. Others(j)
  BY <1>1, <1>2, <1>3 DEF Others, Inv, Typed, writes
<1>7. Typed'
  BY <1>1, <1>2, <1>3, <1>4 DEF Inv, Typed, writes
<1>8. Local(j)'
  <2>1. /\ pc' = pc /\ task' = task /\ todo' = todo /\ vid' = vid /\ rows'[j] = S
        /\ newV' = newV /\ newE' = newE /\ edges' = edges /\ vertices' = vertices
    BY <1>1, <1>3 DEF Inv, Typed, writes, graph
  <2>2. Source(j)' = Source(j) /\ Ext(j)' = Ext(j) /\ E(j)' = E(j)
    BY <2>1 DEF Source, Ext, E
  <2>3. RowsFit(j)'
    BY <1>1, <1>2, <1>5, <2>1, <2>2 DEF RowsFit
  <2> QED BY <1>1, <2>1, <2>2, <2>3 DEF Inv, Local, Phase, NotItself, Written,
             SourceIsRepo, Weakened, Absorbing, Ended
<1>9. (\A n \in Names : vid'[j][n] <= lastId) /\ pc'[j] # "commit"
  BY <1>1 DEF Inv, Ids
<1> QED BY <1>1, <1>6, <1>7, <1>8, <1>9, JobProceeds

LEMMA LookupExternalKeeps ==
  ASSUME Inv, NEW j \in Jobs, LookupExternal(j)
  PROVE  Inv'
<1>1. /\ pc[j] = "absorb" /\ todo[j] # <<>> /\ todo[j] \in Seq(Names) /\ Name(j) = Head(todo[j])
      /\ UNCHANGED <<task, graph, lastId, rows, read, writes>>
  BY DEF LookupExternal, Inv, Typed, Name
<1>2. /\ task[j].kind = "repo" /\ task[j].repo \in Names
      /\ DOMAIN newV[j] = {} /\ DOMAIN newE[j] = {}
      /\ Source(j) \in DOMAIN vertices /\ vertices[Source(j)].is = "repo"
  <2>1. task[j].repo \in Names
    BY TaskFields DEF Inv, Typed
  <2> QED BY <1>1, <2>1 DEF Inv, Local, Phase, Written, SourceIsRepo
<1>3. /\ Head(todo[j]) \in Names /\ Tail(todo[j]) \in Seq(Names) /\ Head(todo[j]) # task[j].repo
      /\ \A i \in DOMAIN Tail(todo[j]) : Tail(todo[j])[i] # task[j].repo
  <2>1. \A i \in DOMAIN todo[j] : todo[j][i] # task[j].repo
    BY <1>2 DEF Inv, Local, NotItself
  <2> QED BY <1>1, <2>1, HeadTail
<1>4. \/ /\ todo' = [todo EXCEPT ![j] = Tail(@)]
         /\ UNCHANGED <<pc, stmt, vid>>
      \/ \E v \in DOMAIN vertices : /\ vid' = [vid EXCEPT ![j][Head(todo[j])] = v]
                                    /\ stmt' = [stmt EXCEPT ![j] = 0]
                                    /\ pc' = [pc EXCEPT ![j] = "absorbing"]
                                    /\ UNCHANGED todo
  BY <1>1 DEF LookupExternal, Resolve, Goto, Named, Visited
<1>5. Others(j)
  BY <1>1, <1>4 DEF Others, Inv, Typed, writes
<1>6. /\ vid' \in [Jobs -> [Names -> Nat]] /\ \A n \in Names : vid'[j][n] <= lastId
      /\ Source(j)' = Source(j)
  <2>1. \A n \in Names : vid[j][n] <= lastId
    BY DEF Inv, Ids
  <2>2. ASSUME NEW v \in DOMAIN vertices, vid' = [vid EXCEPT ![j][Head(todo[j])] = v]
        PROVE  /\ vid' \in [Jobs -> [Names -> Nat]] /\ \A n \in Names : vid'[j][n] <= lastId
               /\ vid'[j][task[j].repo] = vid[j][task[j].repo]
    <3>1. v \in Nat /\ v <= lastId
      BY DEF Inv, TypedRows, Ids
    <3>2. /\ vid' \in [Jobs -> [Names -> Nat]] /\ vid'[j][Head(todo[j])] = v
          /\ \A n \in Names \ {Head(todo[j])} : vid'[j][n] = vid[j][n]
      BY <1>3, <2>2, <3>1, Remembered DEF Inv
    <3> QED BY <1>2, <1>3, <2>1, <3>1, <3>2
  <2>3. ASSUME vid' = vid
        PROVE  /\ vid' \in [Jobs -> [Names -> Nat]] /\ \A n \in Names : vid'[j][n] <= lastId
               /\ vid'[j][task[j].repo] = vid[j][task[j].repo]
    BY <2>1, <2>3 DEF Inv, Typed
  <2>4. /\ vid' \in [Jobs -> [Names -> Nat]] /\ \A n \in Names : vid'[j][n] <= lastId
        /\ vid'[j][task[j].repo] = vid[j][task[j].repo]
    <3>1. vid' = vid \/ \E v \in DOMAIN vertices : vid' = [vid EXCEPT ![j][Head(todo[j])] = v]
      BY <1>4, Zenon
    <3> QED BY <2>2, <2>3, <3>1
  <2> QED BY <1>1, <2>4 DEF Source
<1>7. Typed'
  <2>1. todo' \in [Jobs -> Seq(Names)]
    BY <1>3, <1>4 DEF Inv, Typed
  <2>2. stmt' \in [Jobs -> 0..6] /\ pc' \in [Jobs -> Pc]
    <3>1. "absorbing" \in Pc /\ 0 \in 0..6
      BY DEF Pc, Statements
    <3>2. stmt' = stmt \/ stmt' = [stmt EXCEPT ![j] = 0]
      BY <1>4, Zenon
    <3>3. pc' = pc \/ pc' = [pc EXCEPT ![j] = "absorbing"]
      BY <1>4, Zenon
    <3> QED BY <3>1, <3>2, <3>3, ZenonT(30) DEF Inv, Typed
  <2> QED BY <1>1, <1>6, <2>1, <2>2 DEF Inv, Typed, writes
<1>8. Local(j)'
  <2>1. /\ task' = task /\ newV' = newV /\ newE' = newE /\ vertices' = vertices /\ rows' = rows
    BY <1>1 DEF writes, graph
  <2>2. pc'[j] \in {"absorb", "absorbing"} /\ (pc'[j] = "absorbing" => todo'[j] # <<>>)
    BY <1>1, <1>4 DEF Inv, Typed
  <2>3. NotItself(j)'
    <3>1. \A i \in DOMAIN todo[j] : todo[j][i] # task[j].repo
      BY <1>2 DEF Inv, Local, NotItself
    <3>2. todo'[j] = Tail(todo[j]) \/ todo'[j] = todo[j]
      BY <1>4 DEF Inv, Typed
    <3> QED BY <1>3, <2>1, <3>1, <3>2 DEF Inv, Local, NotItself
  <2>4. rows[j] = {}
    BY <1>1 DEF Inv, Local, RowsFit
  <2> QED BY <1>2, <1>6, <2>1, <2>2, <2>3, <2>4 DEF Inv, Local, Phase, Written, SourceIsRepo, RowsFit,
             Weakened, Absorbing, Ended
<1>9. pc'[j] # "commit"
  BY <1>1, <1>4 DEF Inv, Typed
<1> QED BY <1>1, <1>5, <1>6, <1>7, <1>8, <1>9, JobProceeds


-----------------------------------------------------------------------------
(* The steps that write vertices, and rollbacks.                            *)

LEMMA FailKeeps ==
  ASSUME Inv, NEW j \in Jobs, Fail(j)
  PROVE  Inv'
<1>1. /\ pc' = [pc EXCEPT ![j] = "failed"]
      /\ newV' = [newV EXCEPT ![j] = Nothing] /\ newE' = [newE EXCEPT ![j] = Nothing]
      /\ shared' = [shared EXCEPT ![j] = {}] /\ rows' = [rows EXCEPT ![j] = {}]
      /\ UNCHANGED <<task, graph, lastId, todo, stmt, vid, read>>
  BY DEF Fail, Goto
<1>2. Others(j)
  BY <1>1 DEF Others, Inv, Typed
<1>3. Typed'
  BY <1>1 DEF Inv, Typed, Pc, Ended
<1>4. TypedRows' /\ Tables'
  BY <1>1, RolledBack DEF Inv
<1>5. /\ pc'[j] = "failed" /\ DOMAIN newV'[j] = {} /\ DOMAIN newE'[j] = {} /\ rows'[j] = {}
      /\ task' = task /\ todo' = todo /\ vertices' = vertices
  BY <1>1, NoRows DEF Inv, Typed, graph
<1>6. Ids'
  <2>1. \A i \in Jobs : \A v \in DOMAIN newV'[i] : v \in DOMAIN newV[i]
    BY <1>2, <1>5 DEF Others
  <2> QED BY <1>1, <1>5, <2>1 DEF Inv, Ids
<1>7. Local(j)' /\ Absorbed(j)'
  BY <1>5 DEF Inv, Local, Phase, NotItself, Written, SourceIsRepo, RowsFit, Weakened, Absorbing,
     Absorbed, Ended
<1> QED BY <1>1, <1>2, <1>3, <1>4, <1>5, <1>6, <1>7, JobMoves

(* The version and the releases that a job writes.                          *)
LEMMA WrittenValues ==
  ASSUME Inv, NEW j \in Jobs
  PROVE  /\ Name(j) \in Names => Version(j) \in Versions \cup {NoVersion}
         /\ Published(j) \subseteq Names
<1>1. /\ task[j].packages \in Seq(Names) /\ read[j] \subseteq Names
      /\ task[j].versions \in [Names -> Versions \cup {NoVersion}]
  BY TaskFields DEF Inv, Typed
<1>2. Name(j) \in Names => Version(j) \in Versions \cup {NoVersion}
  BY <1>1 DEF Version
<1>3. \A i \in DOMAIN task[j].packages : task[j].packages[i] \in Names
  BY <1>1
<1> QED BY <1>1, <1>2, <1>3 DEF Published

(* A row that a transaction sees is written, or deleted.                    *)
LEMMA RowRewritten ==
  ASSUME Inv, NEW j \in Jobs, NEW v \in DOMAIN V(j), NEW row \in Vertex, WriteV(j, v, row),
         UNCHANGED <<task, graph, lastId, vid, newE, shared>>, Others(j), Typed',
         \A i \in Jobs \ {j} : v \notin DOMAIN newV[i],
         row.name = V(j)[v].name,
         v \in DOMAIN vertices /\ vertices[v].is = "repo" => row.is = "repo",
         row.is = "gone" => /\ \A k \in DOMAIN E(j) : v # k[1] /\ v # k[2]
                            /\ \A i \in Jobs \ {j} : v \notin shared[i],
         Local(j)', Absorbed(j)'
  PROVE  Inv'
<1>1. /\ v \in Nat /\ v <= lastId
      /\ v \in DOMAIN newV[j] \cup DOMAIN vertices
      /\ V(j)[v] = IF v \in DOMAIN newV[j] THEN newV[j][v] ELSE vertices[v]
  BY SeenIds
<1>2. v \in DOMAIN vertices => row.name = vertices[v].name
  BY <1>1 DEF Inv, Tables, KeepsRepos
<1>3. \A u \in DOMAIN vertices : vertices[u].name = row.name => u = v
  BY <1>1 DEF Inv, Tables, UniqueNames
<1>4. \A i \in Jobs : \A u \in DOMAIN newV[i] : newV[i][u].name = row.name => u = v
  BY <1>1 DEF Inv, Tables, UniqueNames
<1>5. TypedRows' /\ Tables'
  BY <1>1, <1>2, <1>3, <1>4, VertexWritten DEF Inv
<1>6. DOMAIN newV'[j] = DOMAIN newV[j] \cup {v}
  BY DEF With, WriteV, Inv, Typed
<1>7. Ids'
  <2>1. \A i \in Jobs : \A u \in DOMAIN newV'[i] : u <= lastId
    BY <1>1, <1>6 DEF Inv, Ids, Others
  <2> QED BY <2>1 DEF Inv, Ids, graph
<1> QED BY <1>1, <1>5, <1>6, <1>7, JobMoves

LEMMA InsertVertexRaisesKeeps ==
  ASSUME Inv, NEW j \in Jobs, InsertVertexRaises(j)
  PROVE  Inv'
BY FailKeeps DEF InsertVertexRaises

LEMMA PromoteKeeps ==
  ASSUME Inv, NEW j \in Jobs, Promote(j)
  PROVE  Inv'
<1> DEFINE v == Source(j)
           row == [is |-> "repo", name |-> vertices[v].name, purls |-> Published(j),
                   version |-> Version(j)]
<1>1. CASE v \in DOMAIN vertices /\ vertices[v].is = "external"
  <2>1. /\ pc[j] = "promote" /\ Free(j) /\ WriteV(j, v, row) /\ Goto(j, "commit")
        /\ UNCHANGED <<task, graph, lastId, todo, rows, stmt, vid, read, newE, shared>>
    BY <1>1 DEF Promote
  <2>2. /\ Name(j) = task[j].repo /\ task[j].repo \in Names
        /\ stmt[j] = 0 /\ DOMAIN newV[j] = {} /\ DOMAIN newE[j] = {} /\ rows[j] = {}
        /\ task[j].kind = "repo"
    <3>1. task[j].repo \in Names
      BY TaskFields DEF Inv, Typed
    <3> QED BY <2>1, <3>1 DEF Name, Inv, Local, Phase, Written, RowsFit
  <2>3. v \in DOMAIN V(j) /\ V(j)[v] = vertices[v]
    BY <1>1, <2>2 DEF V, Merged
  <2>4. row \in Vertex /\ row.name = vertices[v].name /\ row.is = "repo"
    <3>1. vertices[v].name \in Names
      BY <1>1 DEF Inv, TypedRows, Vertex, Repo, ExternalRepo, Deleted
    <3>2. Published(j) \subseteq Names /\ Version(j) \in Versions \cup {NoVersion}
      BY <2>2, WrittenValues
    <3> QED BY <3>1, <3>2 DEF Vertex, Repo
  <2>5. \A i \in Jobs \ {j} : v \notin DOMAIN newV[i]
    BY <2>1, <2>2 DEF Free, Holders, Source
  <2>6. newV'[j] = With(newV[j], v, row) /\ DOMAIN newV'[j] = {v} /\ newV'[j][v] = row
    <3>1. newV'[j] = With(newV[j], v, row)
      BY <2>1 DEF WriteV, Inv, Typed
    <3> QED BY <2>2, <3>1 DEF With
  <2> HIDE DEF row
  <2>7. Others(j)
    BY <2>1 DEF Others, Goto, WriteV, Inv, Typed
  <2>8. Typed'
    BY <2>1 DEF Goto, WriteV, Inv, Typed, Pc
  <2>9. /\ pc'[j] = "commit" /\ stmt'[j] = 0 /\ rows'[j] = {} /\ DOMAIN newE'[j] = {}
        /\ task' = task /\ todo' = todo /\ Source(j)' = v
    BY <2>1, <2>2 DEF Goto, Inv, Typed, Source
  <2>10. Local(j)' /\ Absorbed(j)'
    BY <2>2, <2>4, <2>6, <2>9 DEF Inv, Local, Phase, NotItself, Written, SourceIsRepo, RowsFit,
       Weakened, Absorbing, Absorbed, Ended
  <2> HIDE DEF v
  <2> QED BY <2>1, <2>3, <2>4, <2>5, <2>7, <2>8, <2>10, RowRewritten
<1>2. CASE ~(v \in DOMAIN vertices /\ vertices[v].is = "external")
  BY <1>2, FailKeeps DEF Promote
<1> QED BY <1>1, <1>2

LEMMA UpdateRepoKeeps ==
  ASSUME Inv, NEW j \in Jobs, UpdateRepo(j)
  PROVE  Inv'
<1> DEFINE v == Source(j)
           row == [vertices[v] EXCEPT
                     !.purls = IF Published(j) = read[j] THEN @ ELSE Published(j),
                     !.version = IF Version(j) = NoVersion THEN @ ELSE Version(j)]
<1>1. /\ pc[j] = "updateRepo" /\ Free(j) /\ WriteV(j, v, row) /\ Goto(j, "commit")
      /\ UNCHANGED <<task, graph, lastId, todo, rows, stmt, vid, read, newE, shared>>
  BY DEF UpdateRepo
<1>2. /\ Name(j) = task[j].repo /\ task[j].repo \in Names
      /\ stmt[j] = 0 /\ DOMAIN newV[j] = {} /\ DOMAIN newE[j] = {} /\ rows[j] = {}
      /\ task[j].kind = "repo" /\ v \in DOMAIN vertices /\ vertices[v].is = "repo"
  <2>1. task[j].repo \in Names
    BY TaskFields DEF Inv, Typed
  <2> QED BY <1>1, <2>1 DEF Name, Inv, Local, Phase, Written, RowsFit, SourceIsRepo
<1>3. v \in DOMAIN V(j) /\ V(j)[v] = vertices[v]
  BY <1>2 DEF V, Merged
<1>4. row \in Vertex /\ row.name = vertices[v].name /\ row.is = "repo"
  <2>1. vertices[v] \in Repo
    BY <1>2 DEF Inv, TypedRows, Vertex, ExternalRepo, Deleted
  <2>2. Published(j) \subseteq Names /\ Version(j) \in Versions \cup {NoVersion}
    BY <1>2, WrittenValues
  <2> QED BY <2>1, <2>2 DEF Vertex, Repo
<1>5. \A i \in Jobs \ {j} : v \notin DOMAIN newV[i]
  BY <1>1, <1>2 DEF Free, Holders, Source
<1>6. newV'[j] = With(newV[j], v, row) /\ DOMAIN newV'[j] = {v} /\ newV'[j][v] = row
  <2>1. newV'[j] = With(newV[j], v, row)
    BY <1>1 DEF WriteV, Inv, Typed
  <2> QED BY <1>2, <2>1 DEF With
<1> HIDE DEF row
<1>7. Others(j)
  BY <1>1 DEF Others, Goto, WriteV, Inv, Typed
<1>8. Typed'
  BY <1>1 DEF Goto, WriteV, Inv, Typed, Pc
<1>9. /\ pc'[j] = "commit" /\ stmt'[j] = 0 /\ rows'[j] = {} /\ DOMAIN newE'[j] = {}
      /\ task' = task /\ todo' = todo /\ Source(j)' = v
  BY <1>1, <1>2 DEF Goto, Inv, Typed, Source
<1>10. Local(j)' /\ Absorbed(j)'
  BY <1>2, <1>4, <1>6, <1>9 DEF Inv, Local, Phase, NotItself, Written, SourceIsRepo, RowsFit,
     Weakened, Absorbing, Absorbed, Ended
<1> HIDE DEF v
<1> QED BY <1>1, <1>3, <1>4, <1>5, <1>7, <1>8, <1>10, RowRewritten


LEMMA UpdatePackageKeeps ==
  ASSUME Inv, NEW j \in Jobs, UpdatePackage(j)
  PROVE  Inv'
<1> DEFINE v == vid[j][Head(todo[j])]
           row == [V(j)[v] EXCEPT !.is = "external", !.version = Version(j)]
<1>1. pc[j] = "updatePackage" /\ Free(j) /\ todo[j] # <<>> /\ task[j].kind \in {"sbom", "deps"}
  BY DEF UpdatePackage, Inv, Local, Phase
<1>2. /\ Name(j) = Head(todo[j]) /\ Name(j) \in Names /\ Tail(todo[j]) \in Seq(Names)
      /\ task[j].repo \in Names /\ v \in Nat /\ Source(j) \in Nat
  <2>1. task[j].repo \in Names
    BY TaskFields DEF Inv, Typed
  <2> QED BY <1>1, <2>1, HeadTail DEF Name, Source, Inv, Typed
<1>3. CASE ~HasChildRow(j, v)
  BY <1>3, FailKeeps DEF UpdatePackage
<1>4. CASE HasChildRow(j, v)
  <2>1. /\ WriteV(j, v, row)
        /\ \/ /\ task[j].kind = "sbom"
              /\ pc' = [pc EXCEPT ![j] = "packages"]
              /\ todo' = [todo EXCEPT ![j] = Tail(@)] /\ UNCHANGED rows
           \/ /\ task[j].kind = "deps"
              /\ pc' = [pc EXCEPT ![j] = "edge"]
              /\ rows' = [rows EXCEPT ![j] = {<<Source(j), v>>}] /\ UNCHANGED todo
        /\ UNCHANGED <<task, graph, lastId, stmt, vid, read, newE, shared>>
    BY <1>1, <1>4 DEF UpdatePackage, Goto, Visited
  <2>2. /\ v \in DOMAIN V(j) /\ V(j)[v].is = "external" /\ V(j)[v] \in Vertex
        /\ V(j)[v] = IF v \in DOMAIN newV[j] THEN newV[j][v] ELSE vertices[v]
    <3>1. v \in DOMAIN V(j) /\ V(j)[v].is = "external"
      BY <1>4 DEF HasChildRow
    <3> QED BY <3>1, SeenIds
  <2>3. row \in Vertex /\ row.name = V(j)[v].name /\ row.is = "external"
    <3>1. V(j)[v] \in ExternalRepo
      BY <2>2 DEF Vertex, Repo, Deleted
    <3>2. Version(j) \in Versions \cup {NoVersion}
      BY <1>2, WrittenValues
    <3> QED BY <3>1, <3>2 DEF Vertex, ExternalRepo
  <2>4. \A i \in Jobs \ {j} : v \notin DOMAIN newV[i]
    BY <1>1, <1>2 DEF Free, Holders
  <2>5. v \in DOMAIN vertices => vertices[v].is # "repo"
    BY <2>2 DEF Inv, Tables, KeepsRepos
  <2>6. /\ DOMAIN newV'[j] = DOMAIN newV[j] \cup {v}
        /\ \A u \in DOMAIN newV'[j] : newV'[j][u] = IF u = v THEN row ELSE newV[j][u]
    BY <2>1 DEF WriteV, With, Inv, Typed
  <2> HIDE DEF row
  <2>7. Others(j)
    BY <2>1 DEF Others, WriteV, Inv, Typed
  <2>8. Typed'
    <3>1. pc' \in [Jobs -> Pc] /\ todo' \in [Jobs -> Seq(Names)]
      BY <1>2, <2>1 DEF Inv, Typed, Pc, Statements
    <3>2. rows' \in [Jobs -> SUBSET (Nat \X Nat)]
      <4>1. {<<Source(j), v>>} \in SUBSET (Nat \X Nat)
        BY <1>2
      <4> HIDE DEF v
      <4> QED BY <2>1, <4>1 DEF Inv, Typed
    <3> QED BY <2>1, <3>1, <3>2 DEF WriteV, Inv, Typed
  <2>9. /\ pc'[j] \in {"packages", "edge"}
        /\ pc'[j] = "edge" => task[j].kind = "deps" /\ todo'[j] # <<>>
        /\ task' = task /\ newE' = newE /\ edges' = edges
    BY <1>1, <2>1 DEF Inv, Typed, graph
  <2>10. /\ task[j].kind = "sbom" => DOMAIN newE[j] = {}
         /\ \A u \in DOMAIN newV'[j] : newV'[j][u].is # "gone"
    BY <1>1, <2>3, <2>6 DEF Inv, Local, Written
  <2>11. Phase(j)' /\ NotItself(j)' /\ SourceIsRepo(j)' /\ RowsFit(j)'
    BY <1>1, <2>9 DEF Phase, NotItself, SourceIsRepo, RowsFit, Absorbing
  <2>12. Written(j)'
    BY <1>1, <2>9, <2>10 DEF Written, Ended
  <2>13. Weakened(j)' /\ Absorbed(j)'
    BY <1>1, <2>9, <2>10 DEF Inv, Local, Weakened, Absorbing, Absorbed
  <2> HIDE DEF v
  <2> QED BY <2>1, <2>2, <2>3, <2>4, <2>5, <2>7, <2>8, <2>11, <2>12, <2>13, RowRewritten DEF Local
<1> QED BY <1>3, <1>4

LEMMA DeleteExternalKeeps ==
  ASSUME Inv, NEW j \in Jobs, DeleteExternal(j)
  PROVE  Inv'
<1> DEFINE ext == Ext(j)
           row == [vertices[ext] EXCEPT !.is = "gone"]
<1>1. /\ pc[j] = "deleteExternal" /\ Free(j) /\ stmt[j] # 0 /\ todo[j] # <<>>
      /\ task[j].kind = "repo" /\ DOMAIN newV[j] = {} /\ rows[j] = {} /\ Name(j) = Head(todo[j])
  BY DEF DeleteExternal, Inv, Local, Phase, Written, RowsFit, Absorbing, Name
<1>2. \/ /\ \A k \in DOMAIN E(j) : ext \notin {k[1], k[2]}
         /\ ext \in DOMAIN vertices => vertices[ext].is = "external"
         /\ ext \in DOMAIN vertices => WriteV(j, ext, row)
         /\ ext \notin DOMAIN vertices => UNCHANGED newV
         /\ pc' = [pc EXCEPT ![j] = "commit"]
         /\ UNCHANGED <<task, graph, lastId, todo, rows, stmt, vid, read, newE, shared>>
      \/ Fail(j)
  BY <1>1 DEF DeleteExternal, Ext, Goto
<1>3. CASE Fail(j)
  BY <1>3, FailKeeps
<1>4. ASSUME /\ \A k \in DOMAIN E(j) : ext \notin {k[1], k[2]}
             /\ ext \in DOMAIN vertices => vertices[ext].is = "external"
             /\ ext \in DOMAIN vertices => WriteV(j, ext, row)
             /\ ext \notin DOMAIN vertices => UNCHANGED newV
             /\ pc' = [pc EXCEPT ![j] = "commit"]
             /\ UNCHANGED <<task, graph, lastId, todo, rows, stmt, vid, read, newE, shared>>
      PROVE  Inv'
  <2>1. \A i \in Jobs \ {j} : ext \notin DOMAIN newV[i] /\ ext \notin shared[i]
    BY <1>1 DEF Free, Holders, Ext
  <2>2. /\ pc'[j] = "commit" /\ task' = task /\ todo' = todo /\ stmt' = stmt /\ rows' = rows
        /\ newE' = newE /\ edges' = edges /\ vertices' = vertices /\ vid' = vid
    BY <1>4 DEF Inv, Typed, graph
  <2>3. Source(j)' = Source(j) /\ Ext(j)' = ext
    BY <2>2 DEF Source, Ext
  <2>4. Local(j)'
    BY <1>1, <2>2, <2>3 DEF Inv, Local, Phase, NotItself, Written, SourceIsRepo, RowsFit, Weakened,
       Absorbing, Ended
  <2>5. CASE ext \notin DOMAIN vertices
    <3>1. Others(j) /\ Typed'
      BY <1>4, <2>5 DEF Others, Inv, Typed, Pc
    <3>2. Absorbed(j)'
      <4>1. \A i \in Jobs : ext \notin DOMAIN newV'[i]
        BY <1>1, <1>4, <2>1, <2>5
      <4> QED BY <2>2, <2>3, <2>5, <4>1 DEF Absorbed
    <3>3. \A n \in Names : vid'[j][n] <= lastId
      BY <2>2 DEF Inv, Ids
    <3>4. UNCHANGED <<task, graph, lastId, writes>>
      BY <1>4, <2>5 DEF writes
    <3> QED BY <2>4, <3>1, <3>2, <3>3, <3>4, NoRowWritten
  <2>6. CASE ext \in DOMAIN vertices
    <3>1. ext \in DOMAIN V(j) /\ V(j)[ext] = vertices[ext]
      BY <1>1, <2>6 DEF V, Merged
    <3>2. row \in Vertex /\ row.name = vertices[ext].name /\ row.is = "gone"
      <4>1. vertices[ext] \in ExternalRepo
        BY <1>4, <2>6 DEF Inv, TypedRows, Vertex, Repo, Deleted
      <4> QED BY <4>1 DEF Vertex, ExternalRepo, Deleted
    <3>3. ext \in DOMAIN newV'[j] /\ newV'[j][ext] = row
      BY <1>4, <2>6 DEF WriteV, With, Inv, Typed
    <3>4. WriteV(j, ext, row)
      BY <1>4, <2>6
    <3> HIDE DEF row
    <3>5. Others(j) /\ Typed'
      BY <1>4, <3>4 DEF WriteV, Others, Inv, Typed, Pc
    <3>6. Absorbed(j)'
      BY <2>3, <3>2, <3>3 DEF Absorbed
    <3>7. vertices[ext].is # "repo" /\ \A k \in DOMAIN E(j) : ext # k[1] /\ ext # k[2]
      BY <1>4, <2>6
    <3> HIDE DEF ext
    <3> QED BY <1>4, <2>1, <2>4, <3>1, <3>2, <3>4, <3>5, <3>6, <3>7, RowRewritten
  <2> QED BY <2>5, <2>6
<1> QED BY <1>2, <1>3, <1>4


LEMMA InsertVertexKeeps ==
  ASSUME Inv, NEW j \in Jobs, InsertVertex(j)
  PROVE  Inv'
<1> DEFINE v == lastId + 1
           row == [is |-> IF pc[j] = "insertRepo" THEN "repo" ELSE "external",
                   name |-> Name(j), purls |-> IF pc[j] = "insertRepo" THEN Published(j) ELSE {},
                   version |-> Version(j)]
<1>1. /\ pc[j] \in {"insertRepo", "insertPackage"} /\ Free(j) /\ Named(V(j), Name(j)) = {}
      /\ lastId' = v /\ vid' = [vid EXCEPT ![j][Name(j)] = v] /\ WriteV(j, v, row)
      /\ UNCHANGED <<task, graph, stmt, read, newE, shared>>
  BY DEF InsertVertex, Resolve
<1>2. \/ /\ pc[j] = "insertRepo" /\ task[j].kind = "repo"
         /\ pc' = [pc EXCEPT ![j] = "commit"] /\ UNCHANGED <<todo, rows>>
      \/ /\ pc[j] = "insertRepo" /\ task[j].kind = "sbom"
         /\ pc' = [pc EXCEPT ![j] = "packages"]
         /\ todo' = [todo EXCEPT ![j] = task[j].packages] /\ UNCHANGED rows
      \/ /\ pc[j] = "insertPackage" /\ task[j].kind = "sbom"
         /\ pc' = [pc EXCEPT ![j] = "packages"]
         /\ todo' = [todo EXCEPT ![j] = Tail(@)] /\ UNCHANGED rows
      \/ /\ pc[j] = "insertPackage" /\ task[j].kind = "deps"
         /\ pc' = [pc EXCEPT ![j] = "edge"]
         /\ rows' = [rows EXCEPT ![j] = {<<Source(j), v>>}] /\ UNCHANGED todo
  BY <1>1 DEF InsertVertex, Goto, Visited
<1>3. /\ task[j].repo \in Names /\ task[j].packages \in Seq(Names)
      /\ Name(j) \in Names /\ Source(j) \in Nat /\ v \in Nat /\ v > lastId
      /\ pc[j] = "insertPackage" => todo[j] # <<>> /\ Tail(todo[j]) \in Seq(Names)
      /\ pc[j] = "insertRepo" => Name(j) = task[j].repo
  <2>1. task[j].repo \in Names /\ task[j].packages \in Seq(Names)
    BY TaskFields DEF Inv, Typed
  <2>2. pc[j] = "insertPackage" => todo[j] # <<>> /\ todo[j] \in Seq(Names)
    BY DEF Inv, Typed, Local, Phase
  <2>3. pc[j] = "insertPackage" => Head(todo[j]) \in Names /\ Tail(todo[j]) \in Seq(Names)
    BY <2>2, HeadTail
  <2> QED BY <1>1, <2>1, <2>2, <2>3 DEF Name, Source, Inv, Typed
<1>4. /\ \A u \in DOMAIN newV[j] : newV[j][u].is # "gone"
      /\ pc[j] = "insertRepo" \/ task[j].kind = "sbom" => DOMAIN newE[j] = {}
      /\ pc[j] = "insertRepo" => stmt[j] = 0 /\ rows[j] = {} /\ DOMAIN newV[j] = {}
  BY <1>1, <1>2 DEF Inv, Local, Written, Phase, RowsFit
<1>5. row \in Vertex /\ row.name = Name(j) /\ (pc[j] = "insertRepo" => row.is = "repo") /\ row.is # "gone"
  <2>1. Published(j) \subseteq Names /\ Version(j) \in Versions \cup {NoVersion}
    BY <1>3, WrittenValues
  <2> QED BY <1>3, <2>1 DEF Vertex, Repo, ExternalRepo
<1> HIDE DEF row
<1>6. /\ v \notin DOMAIN vertices /\ \A i \in Jobs : v \notin DOMAIN newV[i]
  BY <1>3 DEF Inv, Ids, Typed, TypedRows
(* canonical_id is free, as the transaction sees the table and in what is   *)
(* not committed.                                                           *)
<1>7. \A u \in DOMAIN vertices : vertices[u].name # Name(j)
  <2>1. ASSUME NEW u \in DOMAIN vertices, vertices[u].name = Name(j) PROVE FALSE
    <3>1. u \in DOMAIN V(j) /\ V(j)[u].name = Name(j)
      BY <1>4, <2>1 DEF V, Merged, Inv, Tables, KeepsRepos
    <3> QED BY <1>1, <3>1 DEF Named
  <2> QED BY <2>1
<1>8. \A i \in Jobs : \A u \in DOMAIN newV[i] : newV[i][u].name # Name(j)
  <2>1. ASSUME NEW u \in DOMAIN newV[j], newV[j][u].name = Name(j) PROVE FALSE
    <3>1. u \in DOMAIN V(j) /\ V(j)[u].name = Name(j)
      BY <1>4, <2>1 DEF V, Merged
    <3> QED BY <1>1, <3>1 DEF Named
  <2>2. \A i \in Jobs \ {j} : \A u \in DOMAIN newV[i] : newV[i][u].name # Name(j)
    BY <1>1 DEF Free, Holders
  <2> QED BY <2>1, <2>2
<1>9. TypedRows' /\ Tables'
  <2> HIDE DEF v
  <2> QED BY <1>1, <1>3, <1>5, <1>6, <1>7, <1>8, VertexWritten DEF Inv
<1>10. /\ DOMAIN newV'[j] = DOMAIN newV[j] \cup {v} /\ newV'[j][v] = row
       /\ \A u \in DOMAIN newV[j] \ {v} : newV'[j][u] = newV[j][u]
  BY <1>1 DEF WriteV, With, Inv, Typed
<1>11. /\ vid' \in [Jobs -> [Names -> Nat]] /\ vid'[j][Name(j)] = v
       /\ \A n \in Names \ {Name(j)} : vid'[j][n] = vid[j][n]
       /\ \A i \in Jobs \ {j} : vid'[i] = vid[i]
  <2> HIDE DEF v
  <2> QED BY <1>1, <1>3, Remembered DEF Inv
<1>12. Others(j)
  <2> HIDE DEF v
  <2> QED BY <1>1, <1>2, <1>11 DEF Others, WriteV, Inv, Typed
<1>13. Typed'
  <2>1. pc' \in [Jobs -> Pc] /\ todo' \in [Jobs -> Seq(Names)]
    BY <1>2, <1>3, ZenonT(30) DEF Inv, Typed, Pc, Statements
  <2>2. rows' \in [Jobs -> SUBSET (Nat \X Nat)]
    <3>1. {<<Source(j), v>>} \in SUBSET (Nat \X Nat)
      BY <1>3
    <3> HIDE DEF v
    <3> QED BY <1>2, <3>1 DEF Inv, Typed
  <2> QED BY <1>1, <1>3, <1>11, <2>1, <2>2 DEF WriteV, Inv, Typed
<1>14. Ids'
  <2>1. lastId \in Nat /\ \A n \in Nat : n <= lastId => n <= v
    BY DEF Inv, Typed
  <2>2. \A i \in Jobs : \A u \in DOMAIN newV'[i] : u <= v
    <3>1. \A i \in Jobs : \A u \in DOMAIN newV[i] : u \in Nat /\ u <= lastId
      BY DEF Inv, Ids, TypedRows
    <3>2. \A i \in Jobs : \A u \in DOMAIN newV'[i] : u \in DOMAIN newV[i] \/ u = v
      BY <1>10, <1>12 DEF Others
    <3>3. v <= v
      BY <1>3
    <3> HIDE DEF v
    <3> QED BY <2>1, <3>1, <3>2, <3>3
  <2>3. \A i \in Jobs : \A n \in Names : vid'[i][n] <= v
    <3>1. \A i \in Jobs : \A n \in Names : vid[i][n] \in Nat /\ vid[i][n] <= lastId
      BY DEF Inv, Ids, Typed
    <3>2. \A i \in Jobs : \A n \in Names : vid'[i][n] = vid[i][n] \/ vid'[i][n] = v
      BY <1>11
    <3>3. v <= v
      BY <1>3
    <3> HIDE DEF v
    <3> QED BY <2>1, <3>1, <3>2, <3>3
  <2>4. \A u \in DOMAIN vertices : u <= v
    BY <1>3 DEF Inv, Ids, Typed, TypedRows
  <2> QED BY <1>1, <2>2, <2>3, <2>4 DEF Ids, graph
<1>15. Local(j)' /\ Absorbed(j)'
  <2>1. /\ pc'[j] \in {"commit", "packages", "edge"}
        /\ pc'[j] = "commit" => pc[j] = "insertRepo" /\ task[j].kind = "repo" /\ todo' = todo /\ rows' = rows
        /\ pc'[j] = "edge" => task[j].kind = "deps" /\ todo'[j] # <<>>
        /\ pc'[j] = "packages" => task[j].kind = "sbom"
        /\ task' = task /\ newE' = newE /\ edges' = edges /\ stmt' = stmt
    BY <1>1, <1>2, <1>3 DEF Inv, Typed, graph
  <2>2. \A u \in DOMAIN newV'[j] : newV'[j][u].is # "gone"
    BY <1>4, <1>5, <1>10
  <2>3. pc'[j] = "commit" => /\ Source(j)' \in DOMAIN newV'[j] /\ newV'[j][Source(j)'].is = "repo"
                             /\ stmt[j] = 0 /\ rows[j] = {} /\ DOMAIN newE[j] = {}
    BY <1>3, <1>4, <1>5, <1>10, <1>11, <2>1 DEF Source
  <2>4. task[j].kind = "sbom" => DOMAIN newE[j] = {}
    BY <1>4
  <2>5. Phase(j)' /\ SourceIsRepo(j)' /\ RowsFit(j)' /\ Absorbed(j)'
    BY <2>1, <2>3 DEF Phase, SourceIsRepo, RowsFit, Absorbing, Absorbed
  <2>6. NotItself(j)'
    <3>1. pc'[j] = "commit" \/ task[j].kind # "repo"
      BY <2>1
    <3> QED BY <2>1, <3>1 DEF Inv, Local, NotItself
  <2>7. Written(j)'
    BY <2>1, <2>2, <2>3, <2>4 DEF Written, Ended, Source
  <2>8. Weakened(j)'
    <3>1. ~Absorbing(j)'
      BY <2>1, <2>3 DEF Absorbing
    <3> QED BY <2>1, <2>4, <3>1 DEF Inv, Local, Weakened, Absorbing
  <2> QED BY <2>5, <2>6, <2>7, <2>8 DEF Local
<1> QED BY <1>1, <1>9, <1>10, <1>12, <1>13, <1>14, <1>15, JobMoves


-----------------------------------------------------------------------------
(* The steps that write edges.                                              *)

(* A statement visits one of its rows next.                                 *)
LEMMA NextRowVisited ==
  ASSUME Inv, NEW j \in Jobs, rows[j] # {}
  PROVE  NextRow(j) \in rows[j] /\ NextRow(j) \in Nat \X Nat
<1>1. rows[j] \subseteq Nat \X Nat
  BY DEF Inv, Typed
<1>2. CASE pc[j] # "root"
  <2>1. \E k \in rows[j] : \A l \in rows[j] : Before(k, l)
    BY <1>1, LeastKey
  <2>2. \E k \in rows[j] : \A l \in rows[j] :
          IF pc[j] = "root" THEN Position(j, k) <= Position(j, l) ELSE Before(k, l)
    BY <1>2, <2>1
  <2> QED BY <1>1, <2>2 DEF NextRow
<1>3. CASE pc[j] = "root"
  <2>1. rows[j] \subseteq RootEdges(j) /\ \A p \in Plan(j) : p[1] \in Nat
    BY <1>3, PlannedTyped DEF Inv, Local, Phase, RowsFit
  <2>2. ASSUME NEW k \in rows[j] PROVE Position(j, k) \in Nat
    <3> DEFINE places == {p[1] : p \in {q \in Plan(j) : Ends(j, q) = k}}
    <3>1. places \subseteq Nat /\ places # {}
      BY <2>1 DEF RootEdges, Planned
    <3>2. Position(j, k) = CHOOSE i \in places : \A h \in places : i <= h
      BY DEF Position
    <3> HIDE DEF places
    <3> QED BY <3>1, <3>2, LeastElement
  <2> DEFINE positions == {Position(j, k) : k \in rows[j]}
  <2>3. positions \subseteq Nat /\ positions # {}
    BY <2>2
  <2>4. \E p \in positions : \A q \in positions : p <= q
    <3> HIDE DEF positions
    <3> QED BY <2>3, LeastElement
  <2>5. \E k \in rows[j] : \A l \in rows[j] :
          IF pc[j] = "root" THEN Position(j, k) <= Position(j, l) ELSE Before(k, l)
    BY <1>3, <2>4
  <2> QED BY <1>1, <2>5 DEF NextRow
<1> QED BY <1>2, <1>3

(* Its locks are granted: no other transaction has written the row, nor     *)
(* deleted a vertex that the row needs.                                     *)
LEMMA LocksGranted ==
  ASSUME NEW j \in Jobs, pc[j] \in Statements, rows[j] # {}, Free(j)
  PROVE  /\ \A i \in Jobs \ {j} : NextRow(j) \notin DOMAIN newE[i]
         /\ Moves(j) => \A i \in Jobs \ {j} : Moved(j, NextRow(j)) \notin DOMAIN newE[i]
         /\ \A v \in Refers(j) : \A i \in Jobs \ {j} :
              v \in DOMAIN newV[i] => newV[i][v].is # "gone"
BY DEF Free, Holders, Touched

(* What a step that writes edges leaves alone.                              *)
LEMMA RowPassed ==
  ASSUME Inv, NEW j \in Jobs, pc[j] \in Statements, NEW k \in Nat \X Nat, Pass(j, k)
  PROVE  /\ UNCHANGED <<task, graph, lastId, stmt, vid, read, newV>>
         /\ pc' \in [Jobs -> Pc] /\ todo' \in [Jobs -> Seq(Names)]
         /\ rows' \in [Jobs -> SUBSET (Nat \X Nat)]
         /\ rows'[j] = rows[j] \ {k}
         /\ \A i \in Jobs \ {j} : pc'[i] = pc[i] /\ todo'[i] = todo[i] /\ rows'[i] = rows[i]
         /\ pc[j] # "edge" => pc'[j] = pc[j] /\ todo'[j] = todo[j]
         /\ pc[j] = "edge" => pc'[j] = "packages"
<1>1. /\ rows' = [rows EXCEPT ![j] = @ \ {k}]
      /\ UNCHANGED <<task, graph, lastId, stmt, vid, read, newV>>
      /\ pc[j] = "edge" => /\ pc' = [pc EXCEPT ![j] = "packages"]
                           /\ todo' = [todo EXCEPT ![j] = Tail(@)]
      /\ pc[j] # "edge" => UNCHANGED <<pc, todo>>
  BY DEF Pass, Goto, Visited
<1>2. pc[j] = "edge" => Tail(todo[j]) \in Seq(Names)
  <2>1. pc[j] = "edge" => todo[j] \in Seq(Names) /\ todo[j] # <<>>
    BY DEF Inv, Typed, Local, Phase
  <2> QED BY <2>1, HeadTail
<1>3. pc' \in [Jobs -> Pc] /\ todo' \in [Jobs -> Seq(Names)]
  BY <1>1, <1>2, ZenonT(30) DEF Inv, Typed, Pc
<1>4. rows' \in [Jobs -> SUBSET (Nat \X Nat)] /\ rows'[j] = rows[j] \ {k}
  BY <1>1 DEF Inv, Typed
<1>5. /\ \A i \in Jobs \ {j} : pc'[i] = pc[i] /\ todo'[i] = todo[i] /\ rows'[i] = rows[i]
      /\ pc[j] # "edge" => pc'[j] = pc[j] /\ todo'[j] = todo[j]
      /\ pc[j] = "edge" => pc'[j] = "packages"
  BY <1>1 DEF Inv, Typed
<1> QED BY <1>1, <1>3, <1>4, <1>5

(* The rest of the invariant after such a step.                             *)
LEMMA RowMoves ==
  ASSUME Inv, NEW j \in Jobs, pc[j] \in Statements, NEW k \in Nat \X Nat, Pass(j, k),
         NEW e, NEW S, S \subseteq Nat,
         newE' = [newE EXCEPT ![j] = e], shared' = [shared EXCEPT ![j] = @ \cup S],
         TypedRows', Tables', RowsFit(j)', Weakened(j)'
  PROVE  Inv'
<1>1. /\ UNCHANGED <<task, graph, lastId, stmt, vid, read, newV>>
      /\ pc' \in [Jobs -> Pc] /\ todo' \in [Jobs -> Seq(Names)]
      /\ rows' \in [Jobs -> SUBSET (Nat \X Nat)]
      /\ rows'[j] = rows[j] \ {k}
      /\ \A i \in Jobs \ {j} : pc'[i] = pc[i] /\ todo'[i] = todo[i] /\ rows'[i] = rows[i]
      /\ pc[j] # "edge" => pc'[j] = pc[j] /\ todo'[j] = todo[j]
      /\ pc[j] = "edge" => pc'[j] = "packages"
  BY RowPassed
<1>2. Others(j)
  BY <1>1 DEF Others, Inv, Typed
<1>3. shared' \in [Jobs -> SUBSET Nat] /\ DOMAIN newE' = Jobs
  BY DEF Inv, Typed
<1>4. Typed'
  BY <1>1, <1>3 DEF Inv, Typed
<1>5. Ids'
  BY <1>1 DEF Inv, Ids, graph
<1>6. pc[j] = "edge" => task[j].kind = "deps"
  BY DEF Inv, Local, Phase
<1>7. task' = task /\ stmt' = stmt /\ newV' = newV /\ vertices' = vertices /\ Source(j)' = Source(j)
  BY <1>1 DEF graph, Source
<1>8. pc[j] \in {"delete", "root", "nested", "edge", "absorbing"}
  BY DEF Statements
<1>9. CASE pc[j] = "edge"
  <2>1. Local(j)' /\ Absorbed(j)'
    BY <1>1, <1>6, <1>7, <1>9 DEF Inv, Local, Phase, NotItself, Written, SourceIsRepo, Absorbing,
       Absorbed, Ended
  <2> QED BY <1>1, <1>2, <1>4, <1>5, <2>1, JobMoves
<1>10. CASE pc[j] # "edge"
  <2>1. Phase(j)' /\ NotItself(j)' /\ SourceIsRepo(j)' /\ Absorbed(j)'
    BY <1>1, <1>7, <1>8, <1>10 DEF Inv, Local, Phase, NotItself, SourceIsRepo, Absorbing, Absorbed
  <2>2. Written(j)'
    BY <1>1, <1>7, <1>8, <1>10 DEF Inv, Local, Written, Ended
  <2> QED BY <1>1, <1>2, <1>4, <1>5, <2>1, <2>2, JobMoves DEF Local
<1> QED BY <1>9, <1>10


LEMMA DeleteRowKeeps ==
  ASSUME Inv, NEW j \in Jobs, DeleteRow(j)
  PROVE  Inv'
<1> DEFINE k == NextRow(j)
           gone == [is |-> "gone"]
           e == With(newE[j], k, gone)
<1>1. /\ pc[j] = "delete" \/ (pc[j] = "absorbing" /\ ~Moves(j))
      /\ rows[j] # {} /\ Free(j) /\ Pass(j, k) /\ newE' = [newE EXCEPT ![j] = e] /\ UNCHANGED shared
  BY DEF DeleteRow, WriteE
<1>2. pc[j] \in Statements
  BY <1>1 DEF Statements
<1>3. k \in rows[j] /\ k \in Nat \X Nat
  BY <1>1, NextRowVisited
<1>4. \A i \in Jobs \ {j} : k \notin DOMAIN newE[i]
  BY <1>1, <1>2, LocksGranted
<1>5. /\ DOMAIN e = DOMAIN newE[j] \cup {k} /\ e[k] = gone
      /\ \A l \in DOMAIN newE[j] \ {k} : e[l] = newE[j][l]
  BY DEF With
<1>6. gone \in Edge /\ gone.is = "gone"
  BY DEF Edge
<1> HIDE DEF k, e, gone
<1>7. /\ UNCHANGED <<task, graph, lastId, stmt, vid, read, newV>>
      /\ rows'[j] = rows[j] \ {k} /\ pc'[j] = pc[j] /\ todo'[j] = todo[j]
  BY <1>1, <1>2, <1>3, RowPassed
<1>8. shared' = [shared EXCEPT ![j] = @ \cup {}]
  BY <1>1 DEF Inv, Typed
<1>9. TypedRows' /\ Tables'
  <2> DEFINE K == {k}
             S == {}
  <2>1. K \subseteq Nat \X Nat /\ S \subseteq Nat /\ DOMAIN e = DOMAIN newE[j] \cup K
    BY <1>3, <1>5
  <2>2. \A l \in K : e[l] \in Edge /\ \A i \in Jobs \ {j} : l \notin DOMAIN newE[i]
    BY <1>4, <1>5, <1>6
  <2>3. \A l \in K : ~(e[l].is # "gone")
    BY <1>5, <1>6
  <2>4. \A l \in DOMAIN newE[j] \ K : e[l] = newE[j][l]
    BY <1>5
  <2>5. shared' = [shared EXCEPT ![j] = @ \cup S] /\ \A v \in S : FALSE
    BY <1>8
  <2>6. UNCHANGED <<graph, newV>>
    BY <1>7
  <2> HIDE DEF K, S
  <2>7. Writable(j, e, K, S)
    BY <2>1, <2>2, <2>3, <2>4, <2>5 DEF Writable
  <2>8. Typed /\ TypedRows /\ Tables
    BY DEF Inv
  <2> QED BY <1>1, <2>5, <2>6, <2>7, <2>8, EdgesWritten, Zenon
<1>10. newE'[j] = e
  BY <1>1 DEF Inv, Typed
<1>11. /\ Source(j)' = Source(j) /\ Ext(j)' = Ext(j) /\ task' = task /\ stmt' = stmt
       /\ edges' = edges
  BY <1>7 DEF Source, Ext, graph
<1>12. RowsFit(j)'
  <2>1. \A l \in rows[j] \ {k} : l \in DOMAIN E(j) => l \in DOMAIN E(j)'
    BY <1>5, <1>10, <1>11, InMerged DEF E
  <2> QED BY <1>1, <1>7, <1>11, <2>1 DEF Inv, Local, RowsFit
<1>13. Weakened(j)'
  <2>1. pc[j] = "delete" => k[1] = Source(j)
    BY <1>3 DEF Inv, Local, RowsFit
  <2>2. pc[j] = "absorbing" => Ext(j) \in {k[1], k[2]}
    BY <1>3 DEF Inv, Local, RowsFit
  <2>3. IF pc[j] = "delete" THEN task[j].kind = "sbom" ELSE task[j].kind = "repo"
    BY <1>1 DEF Inv, Local, Phase
  <2>4. \A l \in DOMAIN newE'[j] : l = k \/ (l \in DOMAIN newE[j] /\ newE'[j][l] = newE[j][l])
    BY <1>5, <1>10
  <2>5. CASE pc[j] = "delete"
    BY <1>7, <1>11, <2>1, <2>3, <2>4, <2>5 DEF Inv, Local, Weakened, Absorbing
  <2>6. CASE pc[j] = "absorbing"
    <3>1. \A l \in DOMAIN newE[j] \cap DOMAIN edges : Ext(j) \in {l[1], l[2]}
      BY <2>6 DEF Inv, Local, Weakened, Absorbing
    <3> QED BY <1>7, <1>11, <2>2, <2>3, <2>4, <2>6, <3>1 DEF Weakened
  <2> QED BY <1>1, <2>5, <2>6
<1> DEFINE S == {}
<1>14. S \subseteq Nat /\ shared' = [shared EXCEPT ![j] = @ \cup S]
  BY <1>8
<1> HIDE DEF S
<1> QED BY <1>1, <1>2, <1>3, <1>9, <1>12, <1>13, <1>14, RowMoves

LEMMA WriteRowKeeps ==
  ASSUME Inv, NEW j \in Jobs, WriteRow(j)
  PROVE  Inv'
<1> DEFINE k == NextRow(j)
           row == Upserted(j, k)
           e == With(newE[j], k, row)
           S == IF k \in DOMAIN E(j) THEN {} ELSE {k[1], k[2]}
<1>1. pc[j] \in {"root", "nested", "edge"} /\ rows[j] # {} /\ Free(j) /\ pc[j] \in Statements
  BY DEF WriteRow, Statements
<1>2. \/ Fail(j)
      \/ /\ k \notin DOMAIN E(j) => {k[1], k[2]} \subseteq DOMAIN V(j)
         /\ newE' = [newE EXCEPT ![j] = e]
         /\ shared' = [shared EXCEPT ![j] = IF k \notin DOMAIN E(j) THEN @ \cup {k[1], k[2]} ELSE @]
         /\ Pass(j, k)
  BY DEF WriteRow, WriteE
<1>3. ASSUME /\ k \notin DOMAIN E(j) => {k[1], k[2]} \subseteq DOMAIN V(j)
             /\ newE' = [newE EXCEPT ![j] = e]
             /\ shared' = [shared EXCEPT ![j] = IF k \notin DOMAIN E(j) THEN @ \cup {k[1], k[2]} ELSE @]
             /\ Pass(j, k)
      PROVE  Inv'
  <2>1. k \in rows[j] /\ k \in Nat \X Nat
    BY <1>1, NextRowVisited
  <2>2. /\ \A i \in Jobs \ {j} : k \notin DOMAIN newE[i]
        /\ \A v \in {k[1], k[2]} : \A i \in Jobs \ {j} : v \in DOMAIN newV[i] => newV[i][v].is # "gone"
    <3>1. Refers(j) = {k[1], k[2]}
      BY <1>1 DEF Refers, Moves
    <3> HIDE DEF k
    <3>2. \A i \in Jobs \ {j} : NextRow(j) \notin DOMAIN newE[i]
      BY <1>1, LocksGranted
    <3> QED BY <1>1, <3>1, <3>2, LocksGranted DEF k
  <2>3. shared' = [shared EXCEPT ![j] = @ \cup S]
    BY <1>3 DEF Inv, Typed
  <2>4. S \subseteq {k[1], k[2]} /\ S \subseteq Nat /\ (k \notin DOMAIN E(j) => S = {k[1], k[2]})
    BY <2>1
  <2>5. /\ DOMAIN e = DOMAIN newE[j] \cup {k} /\ e[k] = row
        /\ \A l \in DOMAIN newE[j] \ {k} : e[l] = newE[j][l]
    BY DEF With
  <2>6. /\ row \in Edge /\ row.is # "gone"
        /\ task[j].kind = "sbom" => row.is = "verified_sbom"
        /\ k \in DOMAIN E(j) /\ E(j)[k].is = "verified_sbom" => row.is = "verified_sbom"
    BY DEF Upserted, Edge
  <2> HIDE DEF k, e, row, S
  <2>7. TypedRows' /\ Tables'
    <3> DEFINE K == {k}
    <3>1. K \subseteq Nat \X Nat /\ DOMAIN e = DOMAIN newE[j] \cup K
      BY <2>1, <2>5
    <3>2. \A l \in K : e[l] \in Edge /\ \A i \in Jobs \ {j} : l \notin DOMAIN newE[i]
      BY <2>2, <2>5, <2>6
    <3>3. k[1] \in DOMAIN V(j) /\ k[2] \in DOMAIN V(j)
      BY <1>3 DEF Inv, Tables, ForeignKeys
    <3>4. ASSUME k \notin DOMAIN edges, NEW v \in {k[1], k[2]}
          PROVE  Held(j, v) \/ v \in S
      <4>1. CASE k \in DOMAIN E(j)
        <5>1. k \in DOMAIN newE[j] /\ newE[j][k].is # "gone"
          BY <3>4, <4>1, InMerged DEF E
        <5> QED BY <3>4, <5>1 DEF Inv, Tables, EndsHeld
      <4>2. CASE k \notin DOMAIN E(j)
        BY <2>4, <3>4, <4>2
      <4> QED BY <4>1, <4>2
    <3>5. \A l \in K \ DOMAIN edges : e[l].is # "gone" =>
            \A v \in {l[1], l[2]} :
              Held(j, v) \/ v \in S \/ \E m \in K \cap DOMAIN edges : v \in {m[1], m[2]}
      BY <3>4
    <3>6. \A l \in K : e[l].is # "gone" => l[1] \in DOMAIN V(j) /\ l[2] \in DOMAIN V(j)
      BY <3>3
    <3>7. \A l \in DOMAIN newE[j] \ K : e[l] = newE[j][l]
      BY <2>5
    <3>8. \A v \in S : \A i \in Jobs \ {j} : v \in DOMAIN newV[i] => newV[i][v].is # "gone"
      BY <2>2, <2>4
    <3>9. UNCHANGED <<graph, newV>>
      BY <1>3 DEF Pass
    <3> HIDE DEF K
    <3>10. Writable(j, e, K, S)
      BY <2>4, <3>1, <3>2, <3>5, <3>6, <3>7, <3>8 DEF Writable
    <3>11. Typed /\ TypedRows /\ Tables
      BY DEF Inv
    <3> QED BY <1>3, <2>3, <3>9, <3>10, <3>11, EdgesWritten, Zenon
  <2>8. /\ UNCHANGED <<task, graph, lastId, stmt, vid, read, newV>> /\ rows'[j] = rows[j] \ {k}
        /\ pc'[j] \in {"root", "nested", "packages"} /\ (pc'[j] = "root" => pc[j] = "root")
    BY <1>1, <1>3, <2>1, RowPassed
  <2>9. newE'[j] = e
    BY <1>3 DEF Inv, Typed
  <2>10. /\ Source(j)' = Source(j) /\ task' = task /\ edges' = edges /\ vid' = vid
    BY <2>8 DEF Source, graph
  <2>11. RowsFit(j)'
    <3>1. RootEdges(j)' = RootEdges(j)
      <4>1. Plan(j)' = Plan(j)
        BY <2>10 DEF Plan
      <4>2. \A i : Ends(j, i)' = Ends(j, i)
        BY <2>10, <4>1 DEF Ends
      <4>3. Planned(j)' = Planned(j)
        BY <4>1, <4>2 DEF Planned
      <4> QED BY <2>10, <4>3 DEF RootEdges
    <3> QED BY <2>8, <3>1 DEF Inv, Local, RowsFit
  <2>12. Weakened(j)'
    <3>1. task[j].kind \in {"sbom", "deps"}
      BY <1>1 DEF Inv, Local, Phase
    <3>2. ~Absorbing(j)'
      BY <2>8 DEF Absorbing
    <3>3. ASSUME task[j].kind = "sbom", NEW l \in DOMAIN e
          PROVE  e[l].is = "verified_sbom" \/ l[1] = Source(j)
      BY <2>5, <2>6, <3>3 DEF Inv, Local, Weakened
    <3>4. ASSUME task[j].kind = "deps", NEW l \in DOMAIN e \cap DOMAIN edges,
                 edges[l].is = "verified_sbom"
          PROVE  e[l].is = "verified_sbom"
      <4>1. l \in DOMAIN newE[j] => newE[j][l].is = "verified_sbom"
        BY <3>4 DEF Inv, Local, Weakened
      <4>2. CASE l # k
        BY <2>5, <3>4, <4>1, <4>2
      <4>3. CASE l = k
        <5>1. l \in DOMAIN E(j) /\ E(j)[l].is = "verified_sbom"
          BY <3>4, <4>1 DEF E, Merged
        <5> QED BY <2>5, <2>6, <4>3, <5>1
      <4> QED BY <4>2, <4>3
    <3> QED BY <2>9, <2>10, <3>1, <3>2, <3>3, <3>4 DEF Weakened
  <2> QED BY <1>1, <1>3, <2>1, <2>3, <2>4, <2>7, <2>11, <2>12, RowMoves
<1> QED BY <1>2, <1>3, FailKeeps

LEMMA MoveRowKeeps ==
  ASSUME Inv, NEW j \in Jobs, MoveRow(j)
  PROVE  Inv'
<1> DEFINE k == NextRow(j)
           to == Moved(j, k)
           gone == [is |-> "gone"]
           row == E(j)[k]
           e == With(With(newE[j], k, gone), to, row)
<1>1. pc[j] = "absorbing" /\ stmt[j] \in {4, 6} /\ Moves(j) /\ rows[j] # {} /\ Free(j) /\ pc[j] \in Statements
  BY DEF MoveRow, Moves, Statements
<1>2. \/ Fail(j)
      \/ /\ to \notin DOMAIN E(j)
         /\ newE' = [newE EXCEPT ![j] = e]
         /\ shared' = [shared EXCEPT ![j] = @ \cup {Source(j)}]
         /\ Pass(j, k)
  BY DEF MoveRow
<1>3. ASSUME /\ to \notin DOMAIN E(j)
             /\ newE' = [newE EXCEPT ![j] = e]
             /\ shared' = [shared EXCEPT ![j] = @ \cup {Source(j)}]
             /\ Pass(j, k)
      PROVE  Inv'
  <2>1. /\ k \in rows[j] /\ k \in Nat \X Nat /\ k \in DOMAIN E(j) /\ Ext(j) \in {k[1], k[2]}
    BY <1>1, NextRowVisited DEF Inv, Local, RowsFit
  <2>2. /\ Source(j) \in Nat /\ Source(j) \in DOMAIN V(j) /\ DOMAIN newV[j] = {}
    <3>1. Source(j) \in DOMAIN vertices /\ DOMAIN newV[j] = {}
      BY <1>1 DEF Inv, Local, SourceIsRepo, Absorbing, Written
    <3> QED BY <3>1, InMerged DEF V, Inv, TypedRows
  <2>3. /\ to \in Nat \X Nat /\ to # k
        /\ \A v \in {to[1], to[2]} : v = Source(j) \/ v \in {k[1], k[2]}
    BY <1>3, <2>1, <2>2 DEF Moved
  <2>4. /\ \A i \in Jobs \ {j} : k \notin DOMAIN newE[i] /\ to \notin DOMAIN newE[i]
        /\ \A i \in Jobs \ {j} : Source(j) \in DOMAIN newV[i] => newV[i][Source(j)].is # "gone"
    <3>1. Refers(j) = {Source(j)}
      BY <1>1 DEF Refers
    <3>2. \A i \in Jobs \ {j} : NextRow(j) \notin DOMAIN newE[i]
      BY <1>1, LocksGranted
    <3>3. \A i \in Jobs \ {j} : Moved(j, NextRow(j)) \notin DOMAIN newE[i]
      BY <1>1, LocksGranted
    <3>4. \A v \in Refers(j) : \A i \in Jobs \ {j} : v \in DOMAIN newV[i] => newV[i][v].is # "gone"
      BY <1>1, LocksGranted
    <3> QED BY <3>1, <3>2, <3>3, <3>4
  <2>5. /\ DOMAIN e = DOMAIN newE[j] \cup {k, to} /\ e[k] = gone /\ e[to] = row
        /\ \A l \in DOMAIN newE[j] \ {k, to} : e[l] = newE[j][l]
    BY <2>3 DEF With
  <2>6. /\ row \in Edge /\ row.is # "gone"
        /\ k \in DOMAIN newE[j] \/ k \in DOMAIN edges
    BY <2>1 DEF E, Merged, Inv, TypedRows
  <2>7. gone \in Edge /\ gone.is = "gone"
    BY DEF Edge
  <2> HIDE DEF k, to, e, row, gone
  <2>8. TypedRows' /\ Tables'
    <3> DEFINE K == {k, to}
               S == {Source(j)}
    <3>1. K \subseteq Nat \X Nat /\ S \subseteq Nat /\ DOMAIN e = DOMAIN newE[j] \cup K
      BY <2>1, <2>2, <2>3, <2>5
    <3>2. \A l \in K : e[l] \in Edge /\ \A i \in Jobs \ {j} : l \notin DOMAIN newE[i]
      BY <2>4, <2>5, <2>6, <2>7
    <3>3. \A l \in K : e[l].is # "gone" => l[1] \in DOMAIN V(j) /\ l[2] \in DOMAIN V(j)
      <4>1. k[1] \in DOMAIN V(j) /\ k[2] \in DOMAIN V(j)
        BY <2>1 DEF Inv, Tables, ForeignKeys
      <4> QED BY <2>2, <2>3, <2>5, <2>7, <4>1
    <3>4. ASSUME NEW v \in {to[1], to[2]}
          PROVE  Held(j, v) \/ v \in S \/ \E m \in K \cap DOMAIN edges : v \in {m[1], m[2]}
      <4>1. CASE v = Source(j)
        BY <4>1
      <4>2. CASE v \in {k[1], k[2]} /\ k \in DOMAIN edges
        BY <4>2
      <4>3. CASE v \in {k[1], k[2]} /\ k \notin DOMAIN edges
        <5>1. k \in DOMAIN newE[j] /\ newE[j][k].is # "gone"
          BY <2>1, <4>3, InMerged DEF E
        <5> QED BY <4>3, <5>1 DEF Inv, Tables, EndsHeld
      <4> QED BY <2>3, <4>1, <4>2, <4>3
    <3>5. \A l \in K \ DOMAIN edges : e[l].is # "gone" =>
            \A v \in {l[1], l[2]} :
              Held(j, v) \/ v \in S \/ \E m \in K \cap DOMAIN edges : v \in {m[1], m[2]}
      BY <2>5, <2>7, <3>4
    <3>6. \A l \in DOMAIN newE[j] \ K : e[l] = newE[j][l]
      BY <2>5
    <3>7. \A v \in S : \A i \in Jobs \ {j} : v \in DOMAIN newV[i] => newV[i][v].is # "gone"
      BY <2>4
    <3>8. UNCHANGED <<graph, newV>> /\ shared' = [shared EXCEPT ![j] = @ \cup S]
      BY <1>3 DEF Pass
    <3> HIDE DEF K, S
    <3>9. Writable(j, e, K, S)
      BY <3>1, <3>2, <3>3, <3>5, <3>6, <3>7 DEF Writable
    <3>10. Typed /\ TypedRows /\ Tables
      BY DEF Inv
    <3> QED BY <1>3, <3>8, <3>9, <3>10, EdgesWritten, Zenon
  <2>9. /\ UNCHANGED <<task, graph, lastId, stmt, vid, read, newV>> /\ rows'[j] = rows[j] \ {k}
        /\ pc'[j] = pc[j] /\ todo'[j] = todo[j]
    BY <1>1, <1>3, <2>1, RowPassed
  <2>10. newE'[j] = e
    BY <1>3 DEF Inv, Typed
  <2>11. /\ Source(j)' = Source(j) /\ Ext(j)' = Ext(j) /\ task' = task /\ edges' = edges
         /\ stmt' = stmt
    BY <2>9 DEF Source, Ext, graph
  <2>12. RowsFit(j)'
    <3>1. \A l \in rows[j] \ {k} : l \in DOMAIN E(j) => l \in DOMAIN E(j)'
      BY <2>5, <2>6, <2>10, <2>11, InMerged DEF E
    <3> QED BY <1>1, <2>9, <2>11, <3>1 DEF Inv, Local, RowsFit
  <2>13. Weakened(j)'
    <3>1. task[j].kind = "repo" /\ Absorbing(j)
      BY <1>1 DEF Inv, Local, Phase, Absorbing
    <3>2. \A l \in DOMAIN newE[j] \cap DOMAIN edges : Ext(j) \in {l[1], l[2]}
      BY <3>1 DEF Inv, Local, Weakened
    <3>3. to \in DOMAIN edges => to \in DOMAIN newE[j]
      BY <1>3, InMerged DEF E
    <3>4. \A l \in DOMAIN e \cap DOMAIN edges : Ext(j) \in {l[1], l[2]}
      BY <2>1, <2>5, <3>2, <3>3
    <3> QED BY <2>10, <2>11, <3>1, <3>4 DEF Weakened
  <2> QED BY <1>1, <1>3, <2>1, <2>2, <2>8, <2>12, <2>13, RowMoves
<1> QED BY <1>2, <1>3, FailKeeps


-----------------------------------------------------------------------------
(* The end of a transaction, and every step.                                *)

(* A job that is not at a commit of its own sees another one's.             *)
LEMMA CommitSeen ==
  ASSUME Inv, NEW j \in Jobs, NEW i \in Jobs \ {j}, Commit(j)
  PROVE  Local(i)' /\ Absorbed(i)'
<1>1. /\ vertices' = V(j) /\ edges' = E(j) /\ task' = task
      /\ pc'[i] = pc[i] /\ todo'[i] = todo[i] /\ stmt'[i] = stmt[i] /\ vid'[i] = vid[i]
      /\ newV'[i] = newV[i] /\ newE'[i] = newE[i]
      /\ rows'[i] = IF pc[i] \in {"delete", "absorbing"}
                    THEN (rows[i] \ Dropped(j)) \cup Followed(i, j) ELSE rows[i]
  BY DEF Commit, Goto, Inv, Typed
<1>2. \A v \in DOMAIN vertices : vertices[v].is = "repo" =>
        v \in DOMAIN vertices' /\ vertices'[v].is = "repo"
  BY Committed DEF Inv, Commit
<1>3. Source(i)' = Source(i) /\ Ext(i)' = Ext(i)
  BY <1>1 DEF Source, Ext
<1>4. Phase(i)' /\ NotItself(i)'
  BY <1>1 DEF Inv, Local, Phase, NotItself, Absorbing
<1>5. Written(i)'
  BY <1>1, <1>3 DEF Inv, Local, Written
<1>6. SourceIsRepo(i)'
  BY <1>1, <1>2, <1>3 DEF Inv, Local, SourceIsRepo, Absorbing
<1>7. RowsFit(i)'
  <2>1. CASE pc[i] \notin {"delete", "absorbing"}
    <3>1. RootEdges(i)' = RootEdges(i)
      <4>1. Plan(i)' = Plan(i)
        BY <1>1 DEF Plan
      <4>2. \A h : Ends(i, h)' = Ends(i, h)
        BY <1>1, <4>1 DEF Ends
      <4>3. Planned(i)' = Planned(i)
        BY <4>1, <4>2 DEF Planned
      <4> QED BY <1>3, <4>3 DEF RootEdges
    <3> QED BY <1>1, <2>1, <3>1 DEF Inv, Local, RowsFit
  <2>2. CASE pc[i] = "delete"
    <3>1. \A k \in Followed(i, j) : k[1] = Source(i)
      BY <2>2 DEF Followed
    <3> QED BY <1>1, <1>3, <2>2, <3>1 DEF Inv, Local, RowsFit
  <2>3. CASE pc[i] = "absorbing"
    <3>1. ASSUME NEW k \in rows[i], k \notin Dropped(j)
          PROVE  stmt[i] # 0 /\ k \in DOMAIN E(i)' /\ Ext(i) \in {k[1], k[2]}
      <4>1. stmt[i] # 0 /\ k \in DOMAIN E(i) /\ Ext(i) \in {k[1], k[2]}
        BY <2>3, <3>1 DEF Inv, Local, RowsFit
      <4>2. k \in DOMAIN newE[i] => newE[i][k].is # "gone"
        BY <4>1, InMerged DEF E
      <4>3. k \notin DOMAIN newE[i] => k \in DOMAIN E(j)
        <5>1. k \notin DOMAIN newE[i] => k \in DOMAIN edges
          BY <4>1, InMerged DEF E
        <5> QED BY <3>1, <5>1, InMerged DEF Dropped, E
      <4>4. k \in DOMAIN E(i)'
        BY <1>1, <4>2, <4>3, InMerged DEF E
      <4> QED BY <4>1, <4>4
    <3>2. ASSUME NEW k \in Followed(i, j)
          PROVE  stmt[i] # 0 /\ k \in DOMAIN E(i)' /\ Ext(i) \in {k[1], k[2]}
      <4>1. /\ k \in DOMAIN newE[j] /\ newE[j][k].is # "gone" /\ Selects(i, stmt[i], k)
            /\ \E l \in rows[i] : TRUE
        BY <2>3 DEF Followed
      <4>2. stmt[i] # 0 /\ stmt[i] \in 1..6
        BY <2>3, <4>1 DEF Inv, Local, RowsFit, Typed
      <4>3. Ext(i) \in {k[1], k[2]}
        BY <2>3, <4>1, <4>2, SelectsExternal DEF Inv
      <4>4. k \in DOMAIN E(j) /\ k \notin DOMAIN newE[i]
        BY <4>1, InMerged DEF E, Inv, Tables, RowLocks
      <4>5. k \in DOMAIN E(i)'
        BY <1>1, <4>4, InMerged DEF E
      <4> QED BY <4>2, <4>3, <4>5
    <3>3. \A k \in rows'[i] : stmt'[i] # 0 /\ k \in DOMAIN E(i)' /\ Ext(i)' \in {k[1], k[2]}
      BY <1>1, <1>3, <2>3, <3>1, <3>2
    <3> QED BY <1>1, <2>3, <3>3 DEF RowsFit
  <2> QED BY <2>1, <2>2, <2>3
<1>8. Weakened(i)'
  <2>1. \A k \in DOMAIN newE[i] \cap DOMAIN edges' : k \in DOMAIN edges /\ edges'[k] = edges[k]
    <3>1. \A k \in DOMAIN newE[i] : k \notin DOMAIN newE[j]
      BY DEF Inv, Tables, RowLocks
    <3> QED BY <1>1, <3>1 DEF E, Merged
  <2> QED BY <1>1, <1>3, <2>1 DEF Inv, Local, Weakened, Absorbing
<1>9. Absorbed(i)'
  <2>1. CASE pc[i] = "commit" /\ stmt[i] # 0
    <3>1. CASE Ext(i) \in DOMAIN newV[i] /\ newV[i][Ext(i)].is = "gone"
      BY <1>1, <1>3, <3>1 DEF Absorbed
    <3>2. CASE Ext(i) \notin DOMAIN vertices /\ \A h \in Jobs : Ext(i) \notin DOMAIN newV[h]
      <4>1. Ext(i) \notin DOMAIN vertices'
        BY <1>1, <3>2, InMerged DEF V
      <4>2. \A h \in Jobs : DOMAIN newV'[h] \subseteq DOMAIN newV[h]
        BY NoRows DEF Commit, Inv, Typed
      <4> QED BY <1>3, <3>2, <4>1, <4>2 DEF Absorbed
    <3> QED BY <2>1, <3>1, <3>2 DEF Inv, Absorbed
  <2>2. CASE ~(pc[i] = "commit" /\ stmt[i] # 0)
    BY <1>1, <2>2 DEF Absorbed
  <2> QED BY <2>1, <2>2
<1> QED BY <1>4, <1>5, <1>6, <1>7, <1>8, <1>9 DEF Local

LEMMA CommitKeeps ==
  ASSUME Inv, NEW j \in Jobs, Commit(j)
  PROVE  Inv'
<1>1. /\ Committing(j) /\ vertices' = V(j) /\ edges' = E(j)
      /\ newV' = [newV EXCEPT ![j] = Nothing] /\ newE' = [newE EXCEPT ![j] = Nothing]
      /\ shared' = [shared EXCEPT ![j] = {}]
      /\ pc' = [pc EXCEPT ![j] = IF task[j].kind = "repo" THEN "absorb" ELSE "done"]
      /\ todo' = [todo EXCEPT ![j] = IF pc[j] # "commit" THEN @
                                     ELSE IF stmt[j] = 0 THEN task[j].packages ELSE Tail(@)]
      /\ rows' = [i \in Jobs |-> IF pc[i] \in {"delete", "absorbing"}
                                 THEN (rows[i] \ Dropped(j)) \cup Followed(i, j) ELSE rows[i]]
      /\ UNCHANGED <<task, lastId, stmt, vid, read>>
  BY DEF Commit, Goto
<1>2. /\ task[j].kind = "repo" <=> pc[j] = "commit"
      /\ pc[j] \in {"commit", "nested", "packages"}
  BY <1>1 DEF Committing, Inv, Local, Phase
<1>3. /\ task[j].packages \in Seq(Names)
      /\ pc[j] = "commit" /\ stmt[j] # 0 => /\ todo[j] # <<>> /\ Tail(todo[j]) \in Seq(Names)
                                            /\ \A i \in DOMAIN Tail(todo[j]) :
                                                 i + 1 \in DOMAIN todo[j] /\ Tail(todo[j])[i] = todo[j][i + 1]
  <2>1. pc[j] = "commit" /\ stmt[j] # 0 => todo[j] \in Seq(Names) /\ todo[j] # <<>>
    BY DEF Inv, Typed, Local, Phase, Absorbing
  <2>2. task[j].packages \in Seq(Names)
    BY TaskFields DEF Inv, Typed
  <2> QED BY <2>1, <2>2, HeadTail
<1>4. Typed'
  <2>1. todo' \in [Jobs -> Seq(Names)]
    BY <1>1, <1>3 DEF Inv, Typed
  <2>2. rows' \in [Jobs -> SUBSET (Nat \X Nat)]
    <3>1. \A i \in Jobs : Followed(i, j) \subseteq Nat \X Nat
      BY DEF Followed, Inv, TypedRows
    <3> QED BY <1>1, <3>1 DEF Inv, Typed
  <2> QED BY <1>1, <2>1, <2>2 DEF Inv, Typed, Pc, Ended
<1>5. /\ TypedRows' /\ Tables'
      /\ \A v \in DOMAIN vertices : vertices[v].is = "repo" =>
           v \in DOMAIN vertices' /\ vertices'[v].is = "repo"
  BY <1>1, Committed DEF Inv
<1>6. Ids'
  <2>1. \A v \in DOMAIN vertices' : v <= lastId
    BY <1>1, SeenIds
  <2>2. \A i \in Jobs : DOMAIN newV'[i] \subseteq DOMAIN newV[i]
    BY <1>1, NoRows DEF Inv, Typed
  <2> QED BY <1>1, <2>1, <2>2 DEF Inv, Ids
<1>7. Local(j)'
  <2>1. /\ pc'[j] = (IF pc[j] = "commit" THEN "absorb" ELSE "done")
        /\ DOMAIN newV'[j] = {} /\ DOMAIN newE'[j] = {} /\ task' = task /\ stmt' = stmt
        /\ rows'[j] = rows[j] /\ Source(j)' = Source(j)
    BY <1>1, <1>2, NoRows DEF Inv, Typed, Source
  <2>2. NotItself(j)'
    <3>1. CASE pc[j] # "commit"
      BY <1>2, <2>1, <3>1 DEF NotItself
    <3>2. CASE pc[j] = "commit" /\ stmt[j] = 0
      BY <1>1, <2>1, <3>2 DEF Inv, Typed, Local, NotItself
    <3>3. CASE pc[j] = "commit" /\ stmt[j] # 0
      <4>1. todo'[j] = Tail(todo[j])
        BY <1>1, <3>3 DEF Inv, Typed
      <4> QED BY <1>3, <2>1, <3>3, <4>1 DEF Inv, Local, NotItself
    <3> QED BY <3>1, <3>2, <3>3
  <2>3. SourceIsRepo(j)'
    <3>1. CASE pc[j] # "commit"
      BY <2>1, <3>1 DEF SourceIsRepo, Absorbing
    <3>2. CASE pc[j] = "commit" /\ stmt[j] = 0
      <4>1. Source(j) \in DOMAIN newV[j] /\ newV[j][Source(j)].is = "repo"
        BY <3>2 DEF Inv, Local, Written
      <4>2. Source(j) \in DOMAIN vertices' /\ vertices'[Source(j)].is = "repo"
        BY <1>1, <4>1 DEF V, Merged
      <4> QED BY <2>1, <4>2 DEF SourceIsRepo
    <3>3. CASE pc[j] = "commit" /\ stmt[j] # 0
      BY <1>5, <2>1, <3>3 DEF Inv, Local, SourceIsRepo, Absorbing
    <3> QED BY <3>1, <3>2, <3>3
  <2>4. Phase(j)' /\ Written(j)' /\ RowsFit(j)' /\ Weakened(j)'
    BY <1>2, <2>1 DEF Inv, Local, Phase, Written, RowsFit, Weakened, Absorbing, Ended
  <2> QED BY <2>2, <2>3, <2>4 DEF Local
<1>8. Absorbed(j)'
  BY <1>1 DEF Inv, Typed, Absorbed
<1>9. \A i \in Jobs \ {j} : Local(i)' /\ Absorbed(i)'
  BY CommitSeen
<1> QED BY <1>4, <1>5, <1>6, <1>7, <1>8, <1>9 DEF Inv

LEMMA InitInv == Init => Inv
<1> SUFFICES ASSUME Init PROVE Inv
  OBVIOUS
<1>1. PICK c \in Scenarios : task = Asked(c) /\ vertices = c.vertices /\ edges = c.edges
  BY DEF Init
<1>2. /\ task \in [Jobs -> Tasks]
      /\ DOMAIN vertices \subseteq Nat \ {0}
      /\ \A v \in DOMAIN vertices : vertices[v] \in Vertex /\ vertices[v].is # "gone"
      /\ \A u, v \in DOMAIN vertices : vertices[u].name = vertices[v].name => u = v
      /\ DOMAIN edges \subseteq (DOMAIN vertices) \X (DOMAIN vertices)
      /\ \A k \in DOMAIN edges : edges[k] \in Edge /\ edges[k].is # "gone"
  BY <1>1, GraphConstants
<1>3. /\ pc = [j \in Jobs |-> "repo"] /\ todo = [j \in Jobs |-> <<>>] /\ rows = [j \in Jobs |-> {}]
      /\ stmt = [j \in Jobs |-> 0] /\ vid = [j \in Jobs |-> [n \in Names |-> 0]]
      /\ read = [j \in Jobs |-> {}] /\ shared = [j \in Jobs |-> {}]
      /\ newV = [j \in Jobs |-> Nothing] /\ newE = [j \in Jobs |-> Nothing]
      /\ lastId \in Nat /\ \A v \in DOMAIN vertices : v <= lastId
  BY <1>2 DEF Init
<1>4. \A j \in Jobs : DOMAIN newV[j] = {} /\ DOMAIN newE[j] = {}
  BY <1>3, NoRows
<1>5. Typed
  BY <1>2, <1>3 DEF Typed, Pc
<1>6. TypedRows /\ Ids
  BY <1>2, <1>3, <1>4 DEF TypedRows, Ids
<1>7. Tables
  <2>1. RowLocks /\ UniqueNames /\ KeepsRepos /\ EndsHeld
    BY <1>2, <1>4 DEF RowLocks, UniqueNames, KeepsRepos, EndsHeld
  <2>2. NoneDeleted
    BY <1>3 DEF NoneDeleted
  <2>3. ForeignKeys
    <3>1. \A j \in Jobs : DOMAIN E(j) = DOMAIN edges /\ DOMAIN V(j) = DOMAIN vertices
      BY <1>4 DEF E, V, Merged
    <3> QED BY <1>2, <3>1 DEF ForeignKeys
  <2> QED BY <2>1, <2>2, <2>3 DEF Tables
<1>8. ASSUME NEW j \in Jobs PROVE Local(j) /\ Absorbed(j)
  <2>1. pc[j] = "repo" /\ todo[j] = <<>> /\ stmt[j] = 0 /\ rows[j] = {}
    BY <1>3
  <2>2. NotItself(j)
    <3>1. task[j] = IF c.asked[j].kind = "sbom" THEN Opened(c, c.asked[j]) ELSE c.asked[j]
      BY <1>1 DEF Asked
    <3>2. task[j].kind = "repo" => task[j] = c.asked[j] /\ c.asked[j].kind # "sbom"
      BY <3>1 DEF Opened
    <3>3. task[j].kind = "repo" =>
            \A i \in DOMAIN task[j].packages : task[j].packages[i] # task[j].repo
      BY <3>2, PackageNames
    <3> QED BY <2>1, <3>3 DEF NotItself
  <2>3. Phase(j) /\ Written(j) /\ SourceIsRepo(j) /\ RowsFit(j) /\ Weakened(j) /\ Absorbed(j)
    BY <1>4, <2>1 DEF Phase, Written, SourceIsRepo, RowsFit, Weakened, Absorbed, Absorbing, Ended
  <2> QED BY <2>2, <2>3 DEF Local
<1> QED BY <1>5, <1>6, <1>7, <1>8 DEF Inv

LEMMA NextInv == Inv /\ [Next]_vars => Inv'
<1> SUFFICES ASSUME Inv, [Next]_vars PROVE Inv'
  OBVIOUS
<1>1. ASSUME NEW j \in Jobs, Step(j) PROVE Inv'
  BY <1>1, FindRepoKeeps, UpsertRepoKeeps, InsertVertexKeeps, InsertVertexRaisesKeeps,
     PromoteKeeps, UpdateRepoKeeps, VisitPackageKeeps, UpdatePackageKeeps,
     DeleteRootEdgesKeeps, InsertRootEdgesKeeps, UpsertNestedEdgesKeeps,
     DeleteRowKeeps, WriteRowKeeps, LookupExternalKeeps, NextStatementKeeps, MoveRowKeeps,
     DeleteStatementKeeps, DeleteExternalKeeps, CommitKeeps, EndCrawlKeeps DEF Step
<1>2. ASSUME NEW j \in Jobs, ResolveDeadlock(j) PROVE Inv'
  BY <1>2, FailKeeps DEF ResolveDeadlock
<1>3. ASSUME UNCHANGED vars PROVE Inv'
  <2>1. /\ task' = task /\ vertices' = vertices /\ edges' = edges /\ lastId' = lastId /\ pc' = pc
        /\ todo' = todo /\ rows' = rows /\ stmt' = stmt /\ vid' = vid /\ read' = read
        /\ newV' = newV /\ newE' = newE /\ shared' = shared
    BY <1>3 DEF vars, graph, writes
  <2>2. CASE Jobs = {}
    BY <2>1, <2>2 DEF Inv, Typed, TypedRows, Ids, Tables, RowLocks, UniqueNames, KeepsRepos,
       ForeignKeys, EndsHeld, NoneDeleted
  <2>3. CASE Jobs # {}
    <3>1. PICK j \in Jobs : TRUE
      BY <2>3
    <3>2. Local(j)' /\ Absorbed(j)'
      <4>1. Local(j)'
        BY <2>1, LocalKept DEF Inv, graph
      <4> QED BY <2>1, <4>1 DEF Inv, Absorbed, Ext
    <3>3. Typed'
      BY <2>1 DEF Inv, Typed
    <3> QED BY <2>1, <3>2, <3>3, NoRowWritten DEF Inv, Ids, Others, graph, writes
  <2> QED BY <2>2, <2>3
<1> QED BY <1>1, <1>2, <1>3 DEF Next

(* What must always hold holds: the tables keep their types, names are      *)
(* unique and every edge has both its vertices, whichever jobs upsert,      *)
(* promote and absorb at once and whichever of them fail                    *)
(* (repo_vertices_canonical_id_key and the foreign keys of depends_on).     *)
THEOREM GraphTyped == Spec => []TypeOK
<1>1. Inv => TypeOK
  <2> SUFFICES ASSUME Inv PROVE TypeOK
    OBVIOUS
  <2>1. DOMAIN edges \subseteq (DOMAIN vertices) \X (DOMAIN vertices)
    BY DEF Inv, TypedRows, Tables, ForeignKeys
  <2> QED BY <2>1 DEF Inv, Typed, TypedRows, Tables, UniqueNames, TypeOK
<1> QED BY <1>1, InitInv, NextInv, PTL DEF Spec


-----------------------------------------------------------------------------
(* What commits may do to the graph.                                        *)

(* Nobody sees a write before it is committed.                              *)
LEMMA OnlyCommits ==
  ASSUME [Next]_vars
  PROVE  UNCHANGED graph \/ \E j \in Jobs : Commit(j)
<1>1. ASSUME NEW j \in Jobs, Step(j) PROVE UNCHANGED graph \/ Commit(j)
  <2>1. Fail(j) => UNCHANGED graph
    BY DEF Fail
  <2>2. CASE FindRepo(j) \/ UpsertRepo(j) \/ VisitPackage(j) \/ InsertVertex(j)
             \/ InsertVertexRaises(j) \/ Promote(j) \/ UpdateRepo(j) \/ UpdatePackage(j)
    BY <2>1, <2>2 DEF FindRepo, UpsertRepo, VisitPackage, InsertVertex, InsertVertexRaises,
       Promote, UpdateRepo, UpdatePackage
  <2>3. CASE DeleteRow(j) \/ WriteRow(j) \/ MoveRow(j) \/ DeleteExternal(j)
    BY <2>1, <2>3 DEF DeleteRow, WriteRow, MoveRow, DeleteExternal, Pass
  <2>4. CASE DeleteRootEdges(j) \/ InsertRootEdges(j) \/ UpsertNestedEdges(j)
             \/ LookupExternal(j) \/ NextStatement(j) \/ DeleteStatement(j) \/ EndCrawl(j)
    BY <2>4 DEF DeleteRootEdges, InsertRootEdges, UpsertNestedEdges, LookupExternal,
       NextStatement, DeleteStatement, EndCrawl
  <2> QED BY <1>1, <2>2, <2>3, <2>4 DEF Step
<1>2. ASSUME NEW j \in Jobs, ResolveDeadlock(j) PROVE UNCHANGED graph
  BY <1>2 DEF ResolveDeadlock, Fail
<1> QED BY <1>1, <1>2 DEF Next, vars, graph

(* A Repo is never lost, renamed or turned back into an external vertex,    *)
(* however the transactions of crawls and SBOM jobs interleave              *)
(* (upsert_external_repo, _promote_external_to_repo).                       *)
THEOREM ReposRemain == Spec => ReposStay
<1>1. Inv /\ [Next]_vars =>
        \A v \in DOMAIN vertices : vertices[v].is = "repo" =>
          /\ v \in DOMAIN vertices' /\ vertices'[v].is = "repo"
          /\ vertices'[v].name = vertices[v].name
  <2> SUFFICES ASSUME Inv, [Next]_vars
               PROVE  \A v \in DOMAIN vertices : vertices[v].is = "repo" =>
                        /\ v \in DOMAIN vertices' /\ vertices'[v].is = "repo"
                        /\ vertices'[v].name = vertices[v].name
    OBVIOUS
  <2>1. CASE UNCHANGED graph
    BY <2>1 DEF graph
  <2>2. ASSUME NEW j \in Jobs, Commit(j)
        PROVE  \A v \in DOMAIN vertices : vertices[v].is = "repo" =>
                 /\ v \in DOMAIN vertices' /\ vertices'[v].is = "repo"
                 /\ vertices'[v].name = vertices[v].name
    BY <2>2, Committed DEF Inv, Commit
  <2> QED BY <2>1, <2>2, OnlyCommits
<1> QED BY <1>1, InitInv, NextInv, PTL DEF Spec, ReposStay

(* What an SBOM verified, only an SBOM of the same repository removes, or   *)
(* the absorption of an end of it; no crawl weakens it (upsert_depends_on,  *)
(* absorb_external_repo).                                                   *)
THEOREM VerifiedEdgesRemain == Spec => VerifiedEdgesStay
<1> DEFINE Stays(k) ==
             \/ k \in DOMAIN edges' /\ edges'[k].is = "verified_sbom"
             \/ ~({k[1], k[2]} \subseteq DOMAIN vertices')
             \/ \E j \in Jobs : pc[j] = "nested" /\ pc'[j] = "done" /\ Source(j) = k[1]
<1>1. Inv /\ [Next]_vars => \A k \in DOMAIN edges : edges[k].is = "verified_sbom" => Stays(k)
  <2> SUFFICES ASSUME Inv, [Next]_vars, NEW k \in DOMAIN edges, edges[k].is = "verified_sbom"
               PROVE  Stays(k)
    OBVIOUS
  <2>1. CASE UNCHANGED graph
    BY <2>1 DEF graph
  <2>2. ASSUME NEW j \in Jobs, Commit(j) PROVE Stays(k)
    <3>1. /\ vertices' = V(j) /\ edges' = E(j) /\ Committing(j)
          /\ pc'[j] = IF task[j].kind = "repo" THEN "absorb" ELSE "done"
      BY <2>2 DEF Commit, Goto, Inv, Typed
    <3>2. CASE k \notin DOMAIN newE[j]
      BY <3>1, <3>2 DEF E, Merged
    <3>3. CASE k \in DOMAIN newE[j] /\ newE[j][k].is = "verified_sbom"
      BY <3>1, <3>3 DEF E, Merged
    <3>4. CASE k \in DOMAIN newE[j] /\ newE[j][k].is # "verified_sbom"
      <4>1. task[j].kind \in {"sbom", "deps", "repo"}
        BY TaskFields DEF Inv, Typed
      <4>2. CASE task[j].kind = "sbom"
        BY <3>1, <3>4, <4>2 DEF Inv, Local, Phase, Weakened, Committing
      <4>3. CASE task[j].kind = "deps"
        BY <3>4, <4>3 DEF Inv, Local, Weakened
      <4>4. CASE task[j].kind = "repo"
        <5>1. pc[j] = "commit" /\ stmt[j] # 0
          BY <3>1, <3>4, <4>4 DEF Inv, Local, Phase, Written, Committing
        <5>2. Ext(j) \in {k[1], k[2]}
          BY <3>4, <5>1 DEF Inv, Local, Weakened, Absorbing
        <5>3. Ext(j) \notin DOMAIN V(j)
          BY <5>1, InMerged DEF V, Inv, Absorbed
        <5> QED BY <3>1, <5>2, <5>3
      <4> QED BY <4>1, <4>2, <4>3, <4>4
    <3> QED BY <3>2, <3>3, <3>4
  <2> QED BY <2>1, <2>2, OnlyCommits
<1> QED BY <1>1, InitInv, NextInv, PTL DEF Spec, VerifiedEdgesStay

==============================================================================
