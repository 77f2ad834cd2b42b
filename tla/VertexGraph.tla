----------------------------- MODULE VertexGraph -----------------------------
(***************************************************************************)
(* The dependency graph under concurrent writers: SBOM jobs                *)
(* (ingestion/persist.py), crawls of package requirements and of GitHub    *)
(* repositories (procrastinate/tasks.py), which upsert, promote and absorb *)
(* vertices (procrastinate/upserts.py, db_models/vertex_ops.py).           *)
(*                                                                         *)
(* Transactions run at READ COMMITTED: a statement sees what is committed  *)
(* when it starts and its own transaction's writes, and a row another      *)
(* transaction wrote is waited for.  The uncommitted writes of a           *)
(* transaction are therefore also its locks.  The rows of one statement    *)
(* are visited in key order.                                               *)
(***************************************************************************)
EXTENDS Spdx, SequencesExt

CONSTANTS
  Jobs,        \* jobs running on the worker slots
  Names,       \* canonical ids
  Order,       \* all of them, sorted
  Versions,    \* latest_version of a vertex
  Scenarios    \* what they may be asked to do, the artifacts stored and the graph

(* "sbom": repo submitted a document; its artifact lists packages and       *)
(* relations.  "deps": repo's package requires packages, at constraints.    *)
(* "repo": repo is crawled and publishes packages.                          *)
Pairs == Names \X Names
Latest == [Names -> Versions \cup {NoVersion}]
Tasks ==
  [kind : {"sbom"}, repo : Names, packages : Seq(Names), versions : Latest,
   flat : BOOLEAN, relations : SUBSET (Nat \X Names \X Names), declared : SUBSET Pairs]
  \cup [kind : {"deps", "repo"}, repo : Names, packages : Seq(Names), versions : Latest]

(* Mutant: packages in the order of the document. *)
AsListed(repo, listed) == SelectSeq(listed, LAMBDA n : n # repo)
(* sorted(canonical_inputs): the packages of a document in canonical order, *)
(* without the submitting repository.  Requirements come as they are.       *)
Precedes(m, n) == \E i, h \in DOMAIN Order : i < h /\ Order[i] = m /\ Order[h] = n
InCanonicalOrder(repo, listed) ==
  CHOOSE list \in SetToSeqs(Elements(listed) \ {repo}) :
    \A i, h \in DOMAIN list : i < h => Precedes(list[i], list[h])

(* The job reads its submission's artifact back and parses it.              *)
Found(c, asked) == Artifact(c.puts, asked.payload, c.filebase).doc
Opened(c, asked) ==
  LET doc == Found(c, asked)
  IN [kind |-> "sbom", repo |-> asked.repo, packages |-> InCanonicalOrder(asked.repo, Listed(doc)),
      versions |-> [n \in Names |-> LatestVersion(asked.repo, doc, n)],
      flat |-> Flat(doc), relations |-> Relations(asked.repo, doc),
      declared |-> Declared(asked.repo, asked.payload.doc)]
Asked(c) == [j \in Jobs |-> IF c.asked[j].kind = "sbom" THEN Opened(c, c.asked[j])
                           ELSE c.asked[j]]

(* repo_vertices and its child tables; purls are those of the releases,     *)
(* which external vertices come without.  A row deleted by an open          *)
(* transaction is "gone".                                                   *)
Repo == [is : {"repo"}, name : Names, version : Versions \cup {NoVersion}, purls : SUBSET Names]
ExternalRepo == [is : {"external"}, name : Names, version : Versions \cup {NoVersion}, purls : {{}}]
Deleted == [is : {"gone"}, name : Names, version : Versions \cup {NoVersion}, purls : {{}}]
Vertex == Repo \cup ExternalRepo \cup Deleted
Edge == [is : {"verified_sbom", "inferred_shadow", "gone"}]

Nothing == [k \in {} |-> 0]

ASSUME GraphConstants ==
  /\ Order \in Seq(Names) /\ Names \subseteq Elements(Order)
  /\ \A i, h \in DOMAIN Order : Order[i] = Order[h] => i = h
  /\ NoVersion \notin Versions
  /\ \A c \in Scenarios :
       /\ \A raw \in Elements(c.puts) : DOMAIN raw = {"form", "doc"}
       /\ \A j \in Jobs : c.asked[j].kind = "sbom" =>
            /\ DOMAIN c.asked[j].payload = {"form", "doc"} /\ Valid(c.asked[j].payload)
            /\ c.filebase \/ c.asked[j].payload \in Elements(c.puts)
            /\ Elements(Listed(Found(c, c.asked[j]))) \subseteq Names
       /\ c.puts \in Seq(Elements(c.puts))
       /\ Asked(c) \in [Jobs -> Tasks]
       /\ DOMAIN c.vertices \subseteq Nat \ {0}
       /\ \A v \in DOMAIN c.vertices : c.vertices[v] \in Vertex /\ c.vertices[v].is # "gone"
       /\ \A u, v \in DOMAIN c.vertices : c.vertices[u].name = c.vertices[v].name => u = v
       /\ DOMAIN c.edges \subseteq (DOMAIN c.vertices) \X (DOMAIN c.vertices)
       /\ \A k \in DOMAIN c.edges : c.edges[k] \in Edge /\ c.edges[k].is # "gone"

(* Requirements and published packages have package URLs, repositories have *)
(* pkg:github ones: only documents list repositories.                       *)
ASSUME PackageNames ==
  \A c \in Scenarios : \A j \in Jobs : c.asked[j].kind # "sbom" =>
    \A i \in DOMAIN c.asked[j].packages :
      /\ \A h \in Jobs : c.asked[h].repo # c.asked[j].packages[i]
      /\ \A v \in DOMAIN c.vertices :
           c.vertices[v].is = "repo" => c.vertices[v].name # c.asked[j].packages[i]

VARIABLES
  task,       \* what each job was asked to do
  vertices,   \* committed rows of repo_vertices and its child tables, by id
  edges,      \* committed rows of depends_on, by (in, out)
  lastId,     \* sequence of vertex ids
  pc,         \* what each job does next
  todo,       \* names of packages it has yet to visit
  rows,       \* keys the current statement has yet to visit
  stmt,       \* statement of an absorption, counted
  vid,        \* the vertex ids the job has resolved names to; 0 if none
  read,       \* releases it read before merging its own
  newV, newE, \* its uncommitted rows
  shared      \* vertices its new edges refer to, locked FOR KEY SHARE

graph == <<vertices, edges>>
writes == <<newV, newE, shared>>
vars == <<task, graph, lastId, pc, todo, rows, stmt, vid, read, writes>>

Ended == {"done", "failed"}
Statements == {"delete", "root", "nested", "edge", "absorbing"}
Pc == {"repo", "insertRepo", "promote", "updateRepo", "packages", "insertPackage",
       "updatePackage", "commit", "absorb", "deleteExternal"} \cup Statements \cup Ended

(* The name the job is working on, and the vertex of its repository.        *)
Name(j) == IF pc[j] \in {"repo", "insertRepo", "promote", "updateRepo"}
           THEN task[j].repo ELSE Head(todo[j])
Version(j) == task[j].versions[Name(j)]
Source(j) == vid[j][task[j].repo]

(* A table as a transaction with uncommitted rows sees it.                  *)
Merged(table, new) ==
  [k \in {l \in DOMAIN table \cup DOMAIN new : l \in DOMAIN new => new[l].is # "gone"} |->
     IF k \in DOMAIN new THEN new[k] ELSE table[k]]
With(new, k, row) == [l \in DOMAIN new \cup {k} |-> IF l = k THEN row ELSE new[l]]

V(j) == Merged(vertices, newV[j])
E(j) == Merged(edges, newE[j])
Named(table, n) == {v \in DOMAIN table : table[v].name = n}

TypeOK ==
  /\ DOMAIN vertices \subseteq Nat
  /\ \A v \in DOMAIN vertices : vertices[v] \in Vertex /\ vertices[v].is # "gone"
  /\ \A u, v \in DOMAIN vertices : vertices[u].name = vertices[v].name => u = v
  /\ DOMAIN edges \subseteq (DOMAIN vertices) \X (DOMAIN vertices)
  /\ \A k \in DOMAIN edges : edges[k] \in Edge /\ edges[k].is # "gone"
  /\ lastId \in Nat
  /\ pc \in [Jobs -> Pc]
  /\ todo \in [Jobs -> Seq(Names)]
  /\ stmt \in [Jobs -> 0..6]
  /\ vid \in [Jobs -> [Names -> Nat]]
  /\ read \in [Jobs -> SUBSET Names]
  /\ \A j \in Jobs : /\ rows[j] \subseteq Nat \X Nat
                     /\ DOMAIN newV[j] \subseteq Nat /\ DOMAIN newE[j] \subseteq Nat \X Nat
                     /\ \A v \in DOMAIN newV[j] : newV[j][v] \in Vertex
                     /\ \A k \in DOMAIN newE[j] : newE[j][k] \in Edge
                     /\ shared[j] \subseteq Nat

Init ==
  /\ \E c \in Scenarios : task = Asked(c) /\ vertices = c.vertices /\ edges = c.edges
  /\ lastId \in {n \in DOMAIN vertices \cup {0} : \A v \in DOMAIN vertices : v <= n}
  /\ pc = [j \in Jobs |-> "repo"]
  /\ todo = [j \in Jobs |-> <<>>]
  /\ rows = [j \in Jobs |-> {}]
  /\ stmt = [j \in Jobs |-> 0]
  /\ vid = [j \in Jobs |-> [n \in Names |-> 0]]
  /\ read = [j \in Jobs |-> {}]
  /\ newV = [j \in Jobs |-> Nothing] /\ newE = [j \in Jobs |-> Nothing]
  /\ shared = [j \in Jobs |-> {}]

-----------------------------------------------------------------------------
(* Row locks.                                                               *)

Before(k, l) == k[1] < l[1] \/ (k[1] = l[1] /\ k[2] <= l[2])

(* _plan_sbom_edges: names in the order of the document; a flat list        *)
(* depends on the repository in canonical order.  <<place, in, out>>.       *)
Plan(j) == IF task[j].flat
           THEN {<<i, task[j].repo, task[j].packages[i]>> : i \in DOMAIN task[j].packages}
           ELSE task[j].relations
Ends(j, p) == <<vid[j][p[2]], vid[j][p[3]]>>

(* Root edges are inserted in the order of the document.                    *)
Position(j, k) ==
  LET places == {p[1] : p \in {q \in Plan(j) : Ends(j, q) = k}}
  IN CHOOSE i \in places : \A h \in places : i <= h

(* The row the current statement of j visits next.                          *)
NextRow(j) ==
  CHOOSE k \in rows[j] : \A l \in rows[j] :
    IF pc[j] = "root" THEN Position(j, k) <= Position(j, l) ELSE Before(k, l)

(* Where an absorption moves an edge of the external vertex to.             *)
Moved(j, k) == IF stmt[j] = 4 THEN <<k[1], Source(j)>> ELSE <<Source(j), k[2]>>
Moves(j) == pc[j] = "absorbing" /\ stmt[j] \in {4, 6}

(* The edge rows that the next step writes, and whether it creates one.     *)
Touched(j) == IF rows[j] = {} THEN {}
              ELSE {NextRow(j)} \cup (IF Moves(j) THEN {Moved(j, NextRow(j))} ELSE {})
Refers(j) == IF rows[j] = {} \/ pc[j] = "delete" \/ (pc[j] = "absorbing" /\ ~Moves(j)) THEN {}
             ELSE IF Moves(j) THEN {Source(j)} ELSE {NextRow(j)[1], NextRow(j)[2]}

(* Mutant: without unique and foreign keys, only rows are waited for. *)
HoldersOfRows(j) ==
  {i \in Jobs \ {j} :
     \/ /\ pc[j] \in {"promote", "updateRepo", "updatePackage"}
        /\ vid[j][Name(j)] \in DOMAIN newV[i]
     \/ pc[j] \in Statements /\ Touched(j) \cap DOMAIN newE[i] # {}}

(* The transactions that hold what the next step of j needs.                *)
Holders(j) ==
  {i \in Jobs \ {j} :
     \/ /\ pc[j] \in {"insertRepo", "insertPackage"}
        /\ \E v \in DOMAIN newV[i] : newV[i][v].name = Name(j)
     \/ /\ pc[j] \in {"promote", "updateRepo", "updatePackage"}
        /\ vid[j][Name(j)] \in DOMAIN newV[i]
     \/ /\ pc[j] \in Statements
        /\ \/ Touched(j) \cap DOMAIN newE[i] # {}
           \/ \E v \in Refers(j) : v \in DOMAIN newV[i] /\ newV[i][v].is = "gone"
     \/ /\ pc[j] = "deleteExternal"
        /\ vid[j][Name(j)] \in shared[i] \cup DOMAIN newV[i]}

Free(j) == Holders(j) = {}
-----------------------------------------------------------------------------
Goto(j, label) == pc' = [pc EXCEPT ![j] = label]
Resolve(j, v) == vid' = [vid EXCEPT ![j][Name(j)] = v]
WriteV(j, v, row) == newV' = [newV EXCEPT ![j] = With(@, v, row)]
WriteE(j, k, row) == newE' = [newE EXCEPT ![j] = With(@, k, row)]
Visited(j) == todo' = [todo EXCEPT ![j] = Tail(@)]

(* Mutant: the session is not rolled back. *)
FailOpen(j) ==
  /\ Goto(j, "failed")
  /\ rows' = [rows EXCEPT ![j] = {}]
  /\ UNCHANGED <<task, graph, lastId, todo, stmt, vid, read, writes>>

(* A statement raised, or deadlock detection chose j: the transaction is    *)
(* rolled back and the job fails, without a retry.                          *)
Fail(j) ==
  /\ Goto(j, "failed")
  /\ newV' = [newV EXCEPT ![j] = Nothing] /\ newE' = [newE EXCEPT ![j] = Nothing]
  /\ shared' = [shared EXCEPT ![j] = {}]
  /\ rows' = [rows EXCEPT ![j] = {}]
  /\ UNCHANGED <<task, graph, lastId, todo, stmt, vid, read>>

(* _upsert_repo selects a Repo; its attributes do not change, so an existing*)
(* one is not written.  crawl_package_deps takes any vertex, or gives up.   *)
FindRepo(j) ==
  /\ pc[j] = "repo" /\ task[j].kind \in {"sbom", "deps"}
  /\ LET found == {v \in Named(vertices, task[j].repo) :
                     task[j].kind = "sbom" => vertices[v].is = "repo"}
     IN \/ \E v \in found : /\ Resolve(j, v)
                            /\ todo' = [todo EXCEPT ![j] = task[j].packages]
                            /\ Goto(j, "packages")
        \/ /\ found = {}
           /\ Goto(j, IF task[j].kind = "sbom" THEN "insertRepo" ELSE "done")
           /\ UNCHANGED <<todo, vid>>
  /\ UNCHANGED <<task, graph, lastId, rows, stmt, read, writes>>

(* upsert_repo: get_vertex decides between promotion, update and insert.    *)
UpsertRepo(j) ==
  /\ pc[j] = "repo" /\ task[j].kind = "repo"
  /\ \/ \E v \in Named(vertices, task[j].repo) :
          /\ Resolve(j, v)
          /\ read' = [read EXCEPT ![j] = vertices[v].purls]
          /\ Goto(j, IF vertices[v].is = "external" THEN "promote" ELSE "updateRepo")
     \/ /\ Named(vertices, task[j].repo) = {}
        /\ Goto(j, "insertRepo")
        /\ UNCHANGED <<vid, read>>
  /\ UNCHANGED <<task, graph, lastId, todo, rows, stmt, writes>>

Published(j) ==
  read[j] \cup {task[j].packages[i] : i \in {h \in DOMAIN task[j].packages : task[j].kind = "repo"}}

(* INSERT of a vertex: canonical_id is unique.                              *)
InsertVertex(j) ==
  /\ pc[j] \in {"insertRepo", "insertPackage"} /\ Free(j)
  /\ Named(V(j), Name(j)) = {}
  /\ lastId' = lastId + 1
  /\ Resolve(j, lastId')
  /\ WriteV(j, lastId', [is |-> IF pc[j] = "insertRepo" THEN "repo" ELSE "external",
                         name |-> Name(j), purls |-> IF pc[j] = "insertRepo" THEN Published(j) ELSE {},
                         version |-> Version(j)])
  /\ \/ /\ pc[j] = "insertRepo" /\ task[j].kind = "repo"
        /\ Goto(j, "commit")
        /\ UNCHANGED <<todo, rows>>
     \/ /\ pc[j] = "insertRepo" /\ task[j].kind = "sbom"
        /\ Goto(j, "packages")
        /\ todo' = [todo EXCEPT ![j] = task[j].packages]
        /\ UNCHANGED rows
     \/ /\ pc[j] = "insertPackage" /\ task[j].kind = "sbom"
        /\ Goto(j, "packages") /\ Visited(j)
        /\ UNCHANGED rows
     \/ /\ pc[j] = "insertPackage" /\ task[j].kind = "deps"
        /\ Goto(j, "edge")
        /\ rows' = [rows EXCEPT ![j] = {<<Source(j), lastId'>>}]
        /\ UNCHANGED todo
  /\ UNCHANGED <<task, graph, stmt, read, newE, shared>>

InsertVertexRaises(j) ==
  /\ pc[j] \in {"insertRepo", "insertPackage"} /\ Free(j)
  /\ Named(V(j), Name(j)) # {}
  /\ Fail(j)

(* _promote_external_to_repo keeps the id and so the edges.                 *)
Promote(j) ==
  /\ pc[j] = "promote" /\ Free(j)
  /\ LET v == Source(j) IN
       IF v \in DOMAIN vertices /\ vertices[v].is = "external"
       THEN /\ WriteV(j, v, [is |-> "repo", name |-> vertices[v].name,
                             purls |-> Published(j), version |-> Version(j)])
            /\ Goto(j, "commit")
            /\ UNCHANGED <<task, graph, lastId, todo, rows, stmt, vid, read, newE, shared>>
       ELSE Fail(j)

(* The merged releases were computed from what was read; a list that did    *)
(* not change is not written.                                               *)
UpdateRepo(j) ==
  /\ pc[j] = "updateRepo" /\ Free(j)
  /\ LET v == Source(j) IN
       WriteV(j, v, [vertices[v] EXCEPT
         !.purls = IF Published(j) = read[j] THEN @ ELSE Published(j),
         !.version = IF Version(j) = NoVersion THEN @ ELSE Version(j)])
  /\ Goto(j, "commit")
  /\ UNCHANGED <<task, graph, lastId, todo, rows, stmt, vid, read, newE, shared>>

(* find_repo_by_release_purl, on a session of its own.                      *)
Publishers(n) == {v \in DOMAIN vertices : vertices[v].is = "repo" /\ n \in vertices[v].purls}

(* A package has its vertex: SBOM jobs go on, crawls write the edge.        *)
PackageFound(j, v) ==
  /\ Resolve(j, v)
  /\ \/ /\ task[j].kind = "sbom"
        /\ Visited(j)
        /\ UNCHANGED <<pc, rows>>
     \/ /\ task[j].kind = "deps"
        /\ Goto(j, "edge")
        /\ rows' = [rows EXCEPT ![j] = {<<Source(j), v>>}]
        /\ UNCHANGED todo

(* One package of a document or one requirement: upsert_external_repo for   *)
(* one that no Repo publishes, and the fallback of SBOMs to a Repo of that  *)
(* name.                                                                    *)
VisitPackage(j) ==
  /\ pc[j] = "packages" /\ todo[j] # <<>>
  /\ LET n == Head(todo[j])
         publishers == IF task[j].kind = "deps" THEN Publishers(n) ELSE {}
         named == IF publishers = {} THEN Named(V(j), n) ELSE {}
         stale == {v \in named : V(j)[v].is = "external" /\ Version(j) # NoVersion
                                 /\ V(j)[v].version # Version(j)}
     IN \/ /\ \E v \in publishers \cup (named \ stale) : PackageFound(j, v)
           /\ UNCHANGED <<task, graph, lastId, stmt, read, writes>>
        \/ /\ \E v \in stale : Resolve(j, v)
           /\ Goto(j, "updatePackage")
           /\ UNCHANGED <<task, graph, lastId, todo, rows, stmt, read, writes>>
        \/ /\ publishers \cup named = {}
           /\ Goto(j, "insertPackage")
           /\ UNCHANGED <<task, graph, lastId, todo, rows, stmt, vid, read, writes>>

(* Mutant: the base row is written, whatever it has become. *)
HasBaseRow(j, v) == v \in DOMAIN V(j)
HasChildRow(j, v) == v \in DOMAIN V(j) /\ V(j)[v].is = "external"

(* UPDATE of the child row: it is gone if the vertex was absorbed or        *)
(* promoted since.                                                          *)
UpdatePackage(j) ==
  /\ pc[j] = "updatePackage" /\ Free(j)
  /\ LET n == Head(todo[j])
         v == vid[j][n]
     IN IF HasChildRow(j, v)
        THEN /\ WriteV(j, v, [V(j)[v] EXCEPT !.is = "external", !.version = Version(j)])
             /\ IF task[j].kind = "sbom"
                THEN Goto(j, "packages") /\ Visited(j) /\ UNCHANGED rows
                ELSE /\ Goto(j, "edge")
                     /\ rows' = [rows EXCEPT ![j] = {<<Source(j), v>>}]
                     /\ UNCHANGED todo
             /\ UNCHANGED <<task, graph, lastId, stmt, vid, read, newE, shared>>
        ELSE Fail(j)

-----------------------------------------------------------------------------
(* Edges that would be self-loops are left out.                             *)
Planned(j) == {Ends(j, p) : p \in {q \in Plan(j) : Ends(j, q)[1] # Ends(j, q)[2]}}
RootEdges(j) == {k \in Planned(j) : k[1] = Source(j)}
NestedEdges(j) == {k \in Planned(j) : k[1] # Source(j)}

(* The DELETE of the root edges starts: what it removes is what it sees.    *)
DeleteRootEdges(j) ==
  /\ pc[j] = "packages" /\ todo[j] = <<>> /\ task[j].kind = "sbom"
  /\ rows' = [rows EXCEPT ![j] = {k \in DOMAIN E(j) : k[1] = Source(j)}]
  /\ Goto(j, "delete")
  /\ UNCHANGED <<task, graph, lastId, todo, stmt, vid, read, writes>>

InsertRootEdges(j) ==
  /\ pc[j] = "delete" /\ rows[j] = {}
  /\ rows' = [rows EXCEPT ![j] = RootEdges(j)]
  /\ Goto(j, "root")
  /\ UNCHANGED <<task, graph, lastId, todo, stmt, vid, read, writes>>

UpsertNestedEdges(j) ==
  /\ pc[j] = "root" /\ rows[j] = {}
  /\ rows' = [rows EXCEPT ![j] = NestedEdges(j)]
  /\ Goto(j, "nested")
  /\ UNCHANGED <<task, graph, lastId, todo, stmt, vid, read, writes>>

Pass(j, k) ==
  /\ rows' = [rows EXCEPT ![j] = @ \ {k}]
  /\ IF pc[j] = "edge" THEN Goto(j, "packages") /\ Visited(j) ELSE UNCHANGED <<pc, todo>>
  /\ UNCHANGED <<task, graph, lastId, stmt, vid, read, newV>>

(* A row is deleted once its lock is granted.                               *)
DeleteRow(j) ==
  /\ pc[j] = "delete" \/ (pc[j] = "absorbing" /\ ~Moves(j))
  /\ rows[j] # {} /\ Free(j)
  /\ WriteE(j, NextRow(j), [is |-> "gone"])
  /\ Pass(j, NextRow(j))
  /\ UNCHANGED shared

(* Mutant: the last writer decides. *)
UpsertedByLast(j, k) ==
  [is |-> IF task[j].kind = "sbom" THEN "verified_sbom" ELSE "inferred_shadow"]

(* What an edge becomes: SBOMs verify, a crawl keeps what is verified.      *)
Upserted(j, k) ==
  [is |-> IF task[j].kind = "sbom" \/ (k \in DOMAIN E(j) /\ E(j)[k].is = "verified_sbom")
          THEN "verified_sbom" ELSE "inferred_shadow"]

(* INSERT of a root edge, upsert of a nested one or of a crawled one.  New  *)
(* edges need both their vertices.                                          *)
WriteRow(j) ==
  /\ pc[j] \in {"root", "nested", "edge"} /\ rows[j] # {} /\ Free(j)
  /\ LET k == NextRow(j)
         new == k \notin DOMAIN E(j)
     IN \/ /\ new => {k[1], k[2]} \subseteq DOMAIN V(j)
           /\ pc[j] = "root" => new
           /\ WriteE(j, k, Upserted(j, k))
           /\ shared' = [shared EXCEPT ![j] = IF new THEN @ \cup {k[1], k[2]} ELSE @]
           /\ Pass(j, k)
        \/ /\ \/ new /\ ~({k[1], k[2]} \subseteq DOMAIN V(j))
              \/ ~new /\ pc[j] = "root"
           /\ Fail(j)

-----------------------------------------------------------------------------
(* absorb_external_repo, for each package after the repository committed.   *)

LookupExternal(j) ==
  /\ pc[j] = "absorb" /\ todo[j] # <<>>
  /\ LET found == {v \in Named(vertices, Name(j)) : vertices[v].is = "external"} IN
       \/ /\ found = {}
          /\ Visited(j)
          /\ UNCHANGED <<pc, stmt, vid>>
       \/ /\ \E v \in found : Resolve(j, v)
          /\ stmt' = [stmt EXCEPT ![j] = 0]
          /\ Goto(j, "absorbing")
          /\ UNCHANGED todo
  /\ UNCHANGED <<task, graph, lastId, rows, read, writes>>

(* Mutant: the subquery of conflicting edges is not tied to the edge. *)
SelectsUncorrelated(j, s, k) ==
  LET ext == vid[j][Name(j)]
      own == Source(j)
  IN CASE s = 1 -> k = <<own, ext>>
       [] s = 2 -> k = <<ext, own>>
       [] s = 3 -> k[2] = ext /\ \E l \in DOMAIN E(j) : l[2] = own
       [] s = 4 -> k[2] = ext
       [] s = 5 -> k[1] = ext /\ <<own, k[2]>> \in DOMAIN E(j)
       [] s = 6 -> k[1] = ext

(* The edges a statement visits: both self-loops to be, then the edges of   *)
(* the external vertex that would collide and those that move, for each     *)
(* direction.                                                               *)
Selects(j, s, k) ==
  LET ext == vid[j][Name(j)]
      own == Source(j)
  IN CASE s = 1 -> k = <<own, ext>>
       [] s = 2 -> k = <<ext, own>>
       [] s = 3 -> k[2] = ext /\ <<k[1], own>> \in DOMAIN E(j)
       [] s = 4 -> k[2] = ext
       [] s = 5 -> k[1] = ext /\ <<own, k[2]>> \in DOMAIN E(j)
       [] s = 6 -> k[1] = ext

NextStatement(j) ==
  /\ pc[j] = "absorbing" /\ rows[j] = {} /\ stmt[j] < 6
  /\ stmt' = [stmt EXCEPT ![j] = @ + 1]
  /\ rows' = [rows EXCEPT ![j] = {k \in DOMAIN E(j) : Selects(j, stmt'[j], k)}]
  /\ UNCHANGED <<task, graph, lastId, pc, todo, vid, read, writes>>

MoveRow(j) ==
  /\ Moves(j) /\ rows[j] # {} /\ Free(j)
  /\ LET k == NextRow(j)
         to == Moved(j, k)
     IN \/ /\ to \notin DOMAIN E(j)
           /\ newE' = [newE EXCEPT ![j] = With(With(@, k, [is |-> "gone"]), to, E(j)[k])]
           /\ shared' = [shared EXCEPT ![j] = @ \cup {Source(j)}]
           /\ Pass(j, k)
        \/ /\ to \in DOMAIN E(j)
           /\ Fail(j)

DeleteStatement(j) ==
  /\ pc[j] = "absorbing" /\ rows[j] = {} /\ stmt[j] = 6
  /\ Goto(j, "deleteExternal")
  /\ UNCHANGED <<task, graph, lastId, todo, rows, stmt, vid, read, writes>>

(* The child row and the base row go; foreign keys forbid it while an edge  *)
(* or the child row of a promotion refers to them.                          *)
DeleteExternal(j) ==
  /\ pc[j] = "deleteExternal" /\ Free(j)
  /\ LET ext == vid[j][Name(j)] IN
       \/ /\ \A k \in DOMAIN E(j) : ext \notin {k[1], k[2]}
          /\ ext \in DOMAIN vertices => vertices[ext].is = "external"
          /\ IF ext \in DOMAIN vertices
             THEN WriteV(j, ext, [vertices[ext] EXCEPT !.is = "gone"]) ELSE UNCHANGED newV
          /\ Goto(j, "commit")
          /\ UNCHANGED <<task, graph, lastId, todo, rows, stmt, vid, read, newE, shared>>
       \/ /\ \/ \E k \in DOMAIN E(j) : ext \in {k[1], k[2]}
             \/ ext \in DOMAIN vertices /\ vertices[ext].is = "repo"
          /\ Fail(j)

-----------------------------------------------------------------------------
(* A job is about to commit: the next step ends its transaction.            *)
Committing(j) ==
  \/ pc[j] = "commit"
  \/ pc[j] = "nested" /\ rows[j] = {}
  \/ pc[j] = "packages" /\ todo[j] = <<>> /\ task[j].kind = "deps"

(* The rows j's transaction deleted, also those it inserted anew.  A scan   *)
(* that waited for one skips it, whatever row has its key by then.          *)
Dropped(j) ==
  {k \in DOMAIN edges \cap DOMAIN newE[j] :
     newE[j][k].is = "gone" \/ (task[j].kind = "sbom" /\ k[1] = Source(j))}

(* A scan of i follows a row that j moved, if it still matches.             *)
Followed(i, j) ==
  {k \in DOMAIN newE[j] \ DOMAIN edges :
     /\ pc[j] = "commit" /\ newE[j][k].is # "gone"
     /\ \E l \in rows[i] : /\ l \in DOMAIN newE[j] /\ newE[j][l].is = "gone"
                            /\ \/ l[1] = k[1] /\ l[2] = vid[j][Name(j)] /\ k[2] = Source(j)
                               \/ l[2] = k[2] /\ l[1] = vid[j][Name(j)] /\ k[1] = Source(j)
     /\ IF pc[i] = "delete" THEN k[1] = Source(i) ELSE Selects(i, stmt[i], k)}

Commit(j) ==
  /\ Committing(j)
  /\ vertices' = V(j) /\ edges' = E(j)
  /\ newV' = [newV EXCEPT ![j] = Nothing] /\ newE' = [newE EXCEPT ![j] = Nothing]
  /\ shared' = [shared EXCEPT ![j] = {}]
  /\ Goto(j, IF task[j].kind = "repo" THEN "absorb" ELSE "done")
  /\ todo' = [todo EXCEPT ![j] = IF pc[j] # "commit" THEN @
                                 ELSE IF stmt[j] = 0 THEN task[j].packages ELSE Tail(@)]
  /\ rows' = [i \in Jobs |-> IF pc[i] \in {"delete", "absorbing"}
                             THEN (rows[i] \ Dropped(j)) \cup Followed(i, j) ELSE rows[i]]
  /\ UNCHANGED <<task, lastId, stmt, vid, read>>

EndCrawl(j) ==
  /\ pc[j] = "absorb" /\ todo[j] = <<>>
  /\ Goto(j, "done")
  /\ UNCHANGED <<task, graph, lastId, todo, rows, stmt, vid, read, writes>>

(* Jobs that wait for each other; PostgreSQL rolls one of them back.        *)
Deadlocked(S) == S # {} /\ \A j \in S : Holders(j) \cap S # {}
ResolveDeadlock(j) ==
  /\ \E S \in SUBSET Jobs : j \in S /\ Deadlocked(S)
  /\ Fail(j)

Step(j) ==
  \/ FindRepo(j) \/ UpsertRepo(j) \/ InsertVertex(j) \/ InsertVertexRaises(j)
  \/ Promote(j) \/ UpdateRepo(j) \/ VisitPackage(j) \/ UpdatePackage(j)
  \/ DeleteRootEdges(j) \/ InsertRootEdges(j) \/ UpsertNestedEdges(j)
  \/ DeleteRow(j) \/ WriteRow(j)
  \/ LookupExternal(j) \/ NextStatement(j) \/ MoveRow(j) \/ DeleteStatement(j)
  \/ DeleteExternal(j) \/ Commit(j) \/ EndCrawl(j)

Next == \E j \in Jobs : Step(j) \/ ResolveDeadlock(j)

Spec == Init /\ [][Next]_vars

(* Statements return, and the deadlock detector runs.                       *)
Fairness == \A j \in Jobs : WF_vars(Step(j)) /\ WF_vars(ResolveDeadlock(j))
FairSpec == Spec /\ Fairness
-----------------------------------------------------------------------------
(* Properties.                                                              *)

(* Documents take the rows of packages and of nested edges in one order     *)
(* (_upsert_sbom_vertices, _upsert_depends_on_edges): SBOM jobs wait for    *)
(* each other in a circle only around a row of a submitting repository, its *)
(* vertex or an edge out of it, which no order covers.                      *)
OnlyRootsDeadlock ==
  \A S \in SUBSET Jobs : Deadlocked(S) /\ (\A j \in S : task[j].kind = "sbom") =>
    \E i, j \in S :
      /\ i \in Holders(j)
      /\ IF pc[j] \in Statements THEN NextRow(j)[1] = Source(i) ELSE Name(j) = task[i].repo

(* What an SBOM job commits is what the submitted document declares, though *)
(* it reads an artifact that another submission may have written            *)
(* (store_artifact under the semantic hash, parse_sbom_and_persist_graph):  *)
(* edges between the vertices that bear the declared names, verified.       *)
SbomIsApplied ==
  [][\A j \in Jobs : pc[j] = "nested" /\ pc'[j] = "done" =>
       \A p \in task[j].declared : \E k \in DOMAIN edges' :
         /\ {k[1], k[2]} \subseteq DOMAIN vertices'
         /\ vertices'[k[1]].name = p[1] /\ vertices'[k[2]].name = p[2]
         /\ edges'[k].is = "verified_sbom"]_vars

(* The edges of the graph with ext contracted into own.                     *)
TakenOver(ext, own) ==
  LET to(v) == IF v = ext THEN own ELSE v
  IN {<<to(k[1]), to(k[2])>> : k \in {l \in DOMAIN edges : to(l[1]) # to(l[2])}}
Absorbs(j) == pc[j] = "commit" /\ pc'[j] = "absorb"

(* An external vertex disappears only into the Repo whose crawl absorbs it, *)
(* which takes over its edges and gains no other, but for a loop; no other  *)
(* edge changes (absorb_external_repo).  What is lost is an edge of a       *)
(* repository whose SBOM job removed, meanwhile, the one it was dropped     *)
(* for; edges between the two may be left as one of the Repo to itself: see *)
(* NoSelfLoops.                                                             *)
AbsorptionContracts ==
  [][\A ext \in DOMAIN vertices \ DOMAIN vertices' : \E j \in Jobs :
       LET own == Source(j)
           lost == TakenOver(ext, own) \ DOMAIN edges'
           gained == DOMAIN edges' \ (TakenOver(ext, own) \cup DOMAIN edges)
       IN /\ Absorbs(j) /\ vertices[ext].is = "external" /\ vertices'[own].is = "repo"
          /\ gained \subseteq {<<own, own>>}
          /\ lost \cap DOMAIN edges = {}
          /\ \A k \in lost : \E i \in Jobs : task[i].kind = "sbom" /\ k[1] = Source(i)]_vars

(* "Deletes self-loop edges that would result from the merge"               *)
(* (absorb_external_repo).                                                  *)
NoSelfLoops == \A k \in DOMAIN edges : k[1] # k[2]

(* What an SBOM verified, only an SBOM of the same repository removes, or   *)
(* an absorption of one of its ends; a crawl weakens no edge                *)
(* (upsert_depends_on).                                                     *)
VerifiedEdgesStay ==
  [][\A k \in DOMAIN edges : edges[k].is = "verified_sbom" =>
       \/ k \in DOMAIN edges' /\ edges'[k].is = "verified_sbom"
       \/ ~({k[1], k[2]} \subseteq DOMAIN vertices')
       \/ \E j \in Jobs : pc[j] = "nested" /\ pc'[j] = "done" /\ Source(j) = k[1]]_vars

(* A Repo is never lost, renamed or turned back into an external vertex     *)
(* (upsert_external_repo, _promote_external_to_repo).                       *)
ReposStay ==
  [][\A v \in DOMAIN vertices : vertices[v].is = "repo" =>
       /\ v \in DOMAIN vertices' /\ vertices'[v].is = "repo"
       /\ vertices'[v].name = vertices[v].name]_vars

(* Every job comes to an end, deadlocks included.                           *)
JobsEnd == \A j \in Jobs : <>(pc[j] \in Ended)
=============================================================================
