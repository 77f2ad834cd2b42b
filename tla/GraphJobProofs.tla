---------------------------- MODULE GraphJobProofs ----------------------------
(***************************************************************************)
(* What the jobs do to the graph, for any documents and any number of      *)
(* jobs.  Those that ingest SBOMs visit packages and nested edges in one   *)
(* order, and what they commit is what was declared; those that crawl      *)
(* repositories contract the vertices they absorb, and lose no edge that   *)
(* no SBOM job removed.                                                    *)
(***************************************************************************)
EXTENDS VertexGraphProofs

-----------------------------------------------------------------------------
(* The invariant of SBOM jobs.                                              *)

Submits(j) == task[j].kind = "sbom"
Concerned(j) == Elements(task[j].packages) \cup {task[j].repo}
Ascending(s) == \A i, h \in DOMAIN s : i < h => Precedes(s[i], s[h])

(* What was submitted: packages in order, edges between them and the        *)
(* repository, among them those that the document declares.                 *)
Submitted(j) ==
  /\ Ascending(task[j].packages)
  /\ \A i \in DOMAIN task[j].packages : task[j].packages[i] # task[j].repo
  /\ \A q \in Plan(j) : q[2] \in Concerned(j) /\ q[3] \in Concerned(j)
  /\ \A p \in task[j].declared : p[1] # p[2] /\ \E q \in Plan(j) : q[2] = p[1] /\ q[3] = p[2]

(* The packages that are left, and those it holds, which come before.       *)
Visits(j) ==
  /\ Ascending(todo[j])
  /\ \A h \in DOMAIN todo[j] : todo[j][h] # task[j].repo
  /\ \A v \in DOMAIN newV[j] :
       \/ newV[j][v].name = task[j].repo
       \/ \A h \in DOMAIN todo[j] : Precedes(newV[j][v].name, todo[j][h])

(* The edges it holds, but for those out of its repository, come before the *)
(* ones that are left.                                                      *)
EdgesBehind(j) ==
  \A k \in DOMAIN newE[j] :
    \/ k[1] = Source(j)
    \/ pc[j] = "nested" /\ \A l \in rows[j] : Before(k, l) /\ k # l

(* A vertex that has the name n, wherever it is.                            *)
Bears(v, n) ==
  /\ v \in DOMAIN vertices => vertices[v].name = n
  /\ \A i \in Jobs : v \in DOMAIN newV[i] => newV[i][v].name = n

(* Names are resolved to vertices of that name, each to one of its own.     *)
Resolved(j) ==
  /\ \A n \in Names : vid[j][n] # 0 => Bears(vid[j][n], n)
  /\ \A m, n \in Names : vid[j][m] = vid[j][n] => m = n \/ vid[j][m] = 0
  /\ pc[j] \notin {"repo", "insertRepo"} \cup Ended =>
       \A n \in Concerned(j) : vid[j][n] # 0 \/ n \in Elements(todo[j])

(* Planned edges that were visited are verified.                            *)
IsVerified(j, k) == k \in DOMAIN newE[j] /\ newE[j][k].is = "verified_sbom"
Applied(j) ==
  /\ pc[j] \in {"delete", "root", "nested"} => todo[j] = <<>>
  /\ pc[j] = "root" => \A k \in RootEdges(j) \ rows[j] : IsVerified(j, k)
  /\ pc[j] = "nested" => /\ rows[j] \subseteq NestedEdges(j)
                         /\ \A k \in Planned(j) \ rows[j] : IsVerified(j, k)

(* No vertex has the id 0, that of names which are not resolved.            *)
Positive == 0 \notin DOMAIN vertices /\ \A j \in Jobs : 0 \notin DOMAIN newV[j]

Ingests(j) == Visits(j) /\ EdgesBehind(j) /\ Resolved(j) /\ Applied(j)
SbomInv == Positive /\ \A j \in Jobs : Submits(j) => Submitted(j) /\ Ingests(j)

-----------------------------------------------------------------------------
(* The order of names, and lists in that order.                             *)

LEMMA NamesOrdered ==
  /\ IsFiniteSet(Names)
  /\ \A m, n \in Names : m # n => Precedes(m, n) \/ Precedes(n, m)
  /\ \A m, n, o : Precedes(m, n) /\ Precedes(n, o) => Precedes(m, o)
  /\ \A n : ~Precedes(n, n)
<1>1. /\ Order \in Seq(Names) /\ Names \subseteq Elements(Order)
      /\ \A i, h \in DOMAIN Order : Order[i] = Order[h] => i = h
  BY GraphConstants
<1>2. Len(Order) \in Nat /\ DOMAIN Order = 1..Len(Order)
  BY <1>1
<1>3. \A m \in Names : \E i \in DOMAIN Order : Order[i] = m
  BY <1>1 DEF Elements
<1>4. IsFiniteSet(Names)
  <2>1. IsFiniteSet(1..Len(Order))
    BY <1>2, FS_Interval
  <2>2. Order \in Surjection(1..Len(Order), Names)
    BY <1>1, <1>2, <1>3 DEF Surjection
  <2> QED BY <2>1, <2>2, FS_Surjection
<1>5. ASSUME NEW m \in Names, NEW n \in Names, m # n
      PROVE  Precedes(m, n) \/ Precedes(n, m)
  <2>1. PICK i, h \in 1..Len(Order) : Order[i] = m /\ Order[h] = n
    BY <1>2, <1>3
  <2>2. i < h \/ h < i
    BY <1>2, <1>5, <2>1
  <2> QED BY <1>2, <2>1, <2>2 DEF Precedes
<1>6. ASSUME NEW m, NEW n, NEW o, Precedes(m, n), Precedes(n, o)
      PROVE  Precedes(m, o)
  <2>1. PICK i, h \in 1..Len(Order) : i < h /\ Order[i] = m /\ Order[h] = n
    BY <1>2, <1>6 DEF Precedes
  <2>2. PICK k, l \in 1..Len(Order) : k < l /\ Order[k] = n /\ Order[l] = o
    BY <1>2, <1>6 DEF Precedes
  <2>3. h = k
    BY <1>1, <1>2, <2>1, <2>2
  <2>4. i < l
    BY <1>2, <2>1, <2>2, <2>3
  <2> QED BY <1>2, <2>1, <2>2, <2>4 DEF Precedes
<1>7. ASSUME NEW n, Precedes(n, n) PROVE FALSE
  <2>1. PICK i, h \in 1..Len(Order) : i < h /\ Order[i] = n /\ Order[h] = n
    BY <1>2, <1>7 DEF Precedes
  <2>2. i = h
    BY <1>1, <1>2, <2>1
  <2> QED BY <1>2, <2>1, <2>2
<1> QED BY <1>4, <1>5, <1>6, <1>7

(* InCanonicalOrder lists each name but the repository's once, ascending.   *)
LEMMA CanonicalOrder ==
  ASSUME NEW repo, NEW listed, Elements(listed) \subseteq Names
  PROVE  /\ Elements(InCanonicalOrder(repo, listed)) = Elements(listed) \ {repo}
         /\ Ascending(InCanonicalOrder(repo, listed))
<1> DEFINE S == Elements(listed) \ {repo}
           rel == {mn \in S \X S : Precedes(mn[1], mn[2])}
           Fits(list) == \A i, h \in DOMAIN list : i < h => Precedes(list[i], list[h])
           chosen == CHOOSE list \in SetToSeqs(S) : Fits(list)
<1>1. IsFiniteSet(S) /\ S \subseteq Names
  BY NamesOrdered, FS_Subset
<1>2. \A m, n \in S : <<m, n>> \in rel <=> Precedes(m, n)
  OBVIOUS
<1>3. InCanonicalOrder(repo, listed) = chosen
  BY DEF InCanonicalOrder
<1> HIDE DEF S, rel
<1>4. IsOrder(rel, S)
  BY <1>1, <1>2, NamesOrdered DEF IsOrder
<1>5. PICK list \in SetToSeqs(S) : Sorted(list, rel)
  BY <1>1, <1>4, SortedListExists
<1>6. \A l \in SetToSeqs(S) : /\ \A i \in DOMAIN l : l[i] \in S
                              /\ \A n \in S : \E i \in DOMAIN l : l[i] = n
  <2> TAKE l \in SetToSeqs(S)
  <2>1. /\ DOMAIN l = 1..Cardinality(S) /\ l \in [1..Cardinality(S) -> S]
        /\ \A n \in S : \E i \in 1..Cardinality(S) : l[i] = n
    BY <1>1, ListOfSet
  <2> QED BY <2>1
<1>7. Fits(list)
  BY <1>2, <1>5, <1>6 DEF Sorted
<1> HIDE DEF Fits
<1>8. chosen \in SetToSeqs(S) /\ Fits(chosen)
  BY <1>5, <1>7
<1> HIDE DEF chosen
<1>9. Elements(chosen) = S
  BY <1>6, <1>8 DEF Elements
<1> QED BY <1>3, <1>8, <1>9 DEF Fits, Ascending, S

-----------------------------------------------------------------------------
(* Documents.                                                               *)

(* A stable sort keeps the items.                                           *)
ItemsOf(sorted) == {place[2] : place \in sorted}

LEMMA SortKeeps ==
  ASSUME NEW seq, NEW rank, NEW sorted, sorted = {<<rank[i], seq[i]>> : i \in DOMAIN seq}
  PROVE  ItemsOf(sorted) = Elements(seq)
<1>1. \A i \in DOMAIN seq : <<rank[i], seq[i]>> \in sorted
  OBVIOUS
<1>2. ASSUME NEW x \in ItemsOf(sorted) PROVE x \in Elements(seq)
  <2>1. PICK p \in sorted : x = p[2]
    BY DEF ItemsOf
  <2>2. PICK i \in DOMAIN seq : p = <<rank[i], seq[i]>>
    BY <2>1
  <2> QED BY <2>1, <2>2 DEF Elements
<1>3. ASSUME NEW x \in Elements(seq) PROVE x \in ItemsOf(sorted)
  <2>1. PICK i \in DOMAIN seq : x = seq[i]
    BY DEF Elements
  <2>2. <<rank[i], seq[i]>> \in sorted /\ <<rank[i], seq[i]>>[2] = x
    BY <1>1, <2>1
  <2> QED BY <2>2 DEF ItemsOf
<1> QED BY <1>2, <1>3

(* What two documents with equal hashes have in common.                     *)
SameItems(doc, other) ==
  /\ Elements(doc.packages) = Elements(other.packages)
  /\ Elements(doc.relationships) = Elements(other.relationships)

LEMMA EqualHash ==
  ASSUME NEW raw, NEW other, SemanticHash(raw) = SemanticHash(other),
         DOMAIN raw = {"form", "doc"}, DOMAIN other = {"form", "doc"}
  PROVE  raw.doc = other.doc \/ SameItems(raw.doc, other.doc)
<1> DEFINE rank(seq, i) == Cardinality({h \in DOMAIN seq : h <= i /\ seq[h].id = seq[i].id})
           place(seq, i) == Cardinality({h \in DOMAIN seq : h <= i /\
                              <<seq[h].from, seq[h].to, seq[h].type>> = <<seq[i].from, seq[i].to, seq[i].type>>})
           packages(r) == {<<rank(r.doc.packages, i), r.doc.packages[i]>> : i \in DOMAIN r.doc.packages}
           relationships(r) == {<<place(r.doc.relationships, i), r.doc.relationships[i]>> :
                                  i \in DOMAIN r.doc.relationships}
           Hash(r) == [name |-> r.doc.name, packages |-> packages(r), relationships |-> relationships(r)]
<1>1. \A r : SemanticHash(r) = IF "packages" \notin DOMAIN r.doc THEN r ELSE Hash(r)
  BY DEF SemanticHash, ByKey
<1> HIDE DEF rank, place
<1>2. ASSUME NEW r
      PROVE  /\ ItemsOf(packages(r)) = Elements(r.doc.packages)
             /\ ItemsOf(relationships(r)) = Elements(r.doc.relationships)
  <2> DEFINE ranks == [i \in DOMAIN r.doc.packages |-> rank(r.doc.packages, i)]
             places == [i \in DOMAIN r.doc.relationships |-> place(r.doc.relationships, i)]
  <2>1. packages(r) = {<<ranks[i], r.doc.packages[i]>> : i \in DOMAIN r.doc.packages}
    OBVIOUS
  <2>2. relationships(r) = {<<places[i], r.doc.relationships[i]>> : i \in DOMAIN r.doc.relationships}
    OBVIOUS
  <2> HIDE DEF ranks, places, packages, relationships
  <2> QED BY <2>1, <2>2, SortKeeps
<1>3. \A r : /\ DOMAIN Hash(r) = {"name", "packages", "relationships"}
             /\ Hash(r).packages = packages(r) /\ Hash(r).relationships = relationships(r)
  OBVIOUS
<1> HIDE DEF Hash, packages, relationships
<1>4. CASE "packages" \notin DOMAIN raw.doc /\ "packages" \notin DOMAIN other.doc
  BY <1>1, <1>4
<1>5. CASE "packages" \in DOMAIN raw.doc /\ "packages" \in DOMAIN other.doc
  <2>1. packages(raw) = packages(other) /\ relationships(raw) = relationships(other)
    BY <1>1, <1>3, <1>5
  <2> QED BY <1>2, <2>1 DEF SameItems
<1>6. ASSUME NEW r, NEW o, "packages" \in DOMAIN r.doc, "packages" \notin DOMAIN o.doc,
             DOMAIN o = {"form", "doc"}
      PROVE  SemanticHash(r) # SemanticHash(o)
  BY <1>1, <1>3, <1>6
<1> QED BY <1>4, <1>5, <1>6

(* Equal items make equal declarations, whatever the order.                 *)
LEMMA SameDeclared ==
  ASSUME NEW doc, NEW other, doc = other \/ SameItems(doc, other), NEW repo
  PROVE  Declared(repo, doc) = Declared(repo, other)
<1> DEFINE Depends(r) == r.type = "DEPENDS_ON" /\ r.to # NoAssertion
           pairs(d) == {<<NameOf(repo, d, r.from), NameOf(repo, d, r.to)>> :
                          r \in {s \in Elements(d.relationships) :
                                   Depends(s) /\ s.from \in Known(d) /\ s.to \in Known(d)}}
           ids(d) == {CanonicalId(p) : p \in Elements(d.packages)}
           flat(d) == \A r \in Elements(d.relationships) : ~Depends(r)
           declared(d) == {p \in (IF flat(d) THEN {repo} \X ids(d) ELSE pairs(d)) : p[1] # p[2]}
<1>1. \A d : Dependencies(d) = {i \in DOMAIN d.relationships : Depends(d.relationships[i])}
  BY DEF Dependencies
<1>2. \A d : Flat(d) <=> flat(d)
  BY <1>1 DEF Flat, Elements
<1>3. \A d : Elements(Listed(d)) = ids(d)
  BY DEF Listed, Elements
<1>4. ASSUME NEW d PROVE {<<r[2], r[3]>> : r \in Relations(repo, d)} = pairs(d)
  <2> DEFINE at(i) == d.relationships[i]
             places == {i \in DOMAIN d.relationships :
                          Depends(at(i)) /\ at(i).from \in Known(d) /\ at(i).to \in Known(d)}
             relations == {<<i, NameOf(repo, d, at(i).from), NameOf(repo, d, at(i).to)>> : i \in places}
  <2>1. Relations(repo, d) = relations
    BY <1>1 DEF Relations
  <2> HIDE DEF Depends
  <2>2. {at(i) : i \in places} = {s \in Elements(d.relationships) :
                                   Depends(s) /\ s.from \in Known(d) /\ s.to \in Known(d)}
    BY DEF Elements
  <2> DEFINE from(i) == NameOf(repo, d, at(i).from)
             to(i) == NameOf(repo, d, at(i).to)
             ends == {<<r[2], r[3]>> : r \in relations}
             these == {<<from(i), to(i)>> : i \in places}
  <2>3. ends = these
    <3> HIDE DEF places, from, to
    <3>1. ASSUME NEW i \in places PROVE <<from(i), to(i)>> \in ends
      <4> DEFINE r == <<i, from(i), to(i)>>
      <4>1. r \in relations /\ r[2] = from(i) /\ r[3] = to(i)
        BY DEF from, to
      <4> HIDE DEF r, relations
      <4> QED BY <4>1
    <3>2. ASSUME NEW r \in relations PROVE <<r[2], r[3]>> \in these
      <4>1. PICK i \in places : r = <<i, from(i), to(i)>>
        BY DEF from, to
      <4> QED BY <4>1
    <3> HIDE DEF relations
    <3>3. \A x \in these : \E i \in places : x = <<from(i), to(i)>>
      OBVIOUS
    <3>4. \A x \in ends : \E r \in relations : x = <<r[2], r[3]>>
      OBVIOUS
    <3> HIDE DEF ends, these
    <3> QED BY <3>1, <3>2, <3>3, <3>4
  <2>4. pairs(d) = {<<NameOf(repo, d, r.from), NameOf(repo, d, r.to)>> : r \in {at(i) : i \in places}}
    BY <2>2
  <2> HIDE DEF relations, places
  <2> QED BY <2>1, <2>3, <2>4
<1>5. ASSUME NEW d PROVE Declared(repo, d) = declared(d)
  <2>1. Declared(repo, d) = {p \in (IF Flat(d) THEN {repo} \X Elements(Listed(d))
                                   ELSE {<<r[2], r[3]>> : r \in Relations(repo, d)}) : p[1] # p[2]}
    BY DEF Declared
  <2> HIDE DEF pairs, ids, flat
  <2> QED BY <1>2, <1>3, <1>4, <2>1
<1>6. ASSUME SameItems(doc, other)
      PROVE  declared(doc) = declared(other)
  <2>1. Elements(doc.packages) = Elements(other.packages)
        /\ Elements(doc.relationships) = Elements(other.relationships)
    BY <1>6 DEF SameItems
  <2>2. Roots(doc) = Roots(other)
    BY <2>1 DEF Roots
  <2>3. Known(doc) = Known(other)
    BY <2>1, <2>2 DEF Known
  <2>4. \A id : NameOf(repo, doc, id) = NameOf(repo, other, id)
    BY <2>1, <2>2 DEF NameOf
  <2>5. ids(doc) = ids(other) /\ flat(doc) = flat(other)
    BY <2>1
  <2>6. pairs(doc) = pairs(other)
    BY <2>1, <2>3, <2>4
  <2> HIDE DEF ids, flat, pairs
  <2> QED BY <2>5, <2>6
<1> QED BY <1>5, <1>6

(* What a job finds has the items of what was submitted.                    *)
LEMMA FoundItems ==
  ASSUME NEW c \in Scenarios, NEW j \in Jobs, c.asked[j].kind = "sbom"
  PROVE  LET doc == Found(c, c.asked[j]) submitted == c.asked[j].payload.doc
         IN doc = submitted \/ SameItems(doc, submitted)
<1> DEFINE raw == c.asked[j].payload
           same == {i \in DOMAIN c.puts : ContentHash(c.puts[i]) = ContentHash(raw)}
           last == CHOOSE i \in same : \A h \in same : h <= i
<1>1. /\ DOMAIN raw = {"form", "doc"} /\ Valid(raw)
      /\ c.filebase \/ raw \in Elements(c.puts)
      /\ c.puts \in Seq(Elements(c.puts))
      /\ \A put \in Elements(c.puts) : DOMAIN put = {"form", "doc"}
  BY GraphConstants
<1>2. ASSUME NEW r, DOMAIN r = {"form", "doc"} PROVE Unwrapped(r).doc = r.doc
  BY <1>2 DEF Unwrapped
<1>3. CASE c.filebase
  <2>1. Found(c, c.asked[j]) = raw.doc
    BY <1>1, <1>2, <1>3 DEF Found, Artifact
  <2> QED BY <2>1
<1>4. CASE ~c.filebase
  <2>1. last \in DOMAIN c.puts /\ ContentHash(c.puts[last]) = ContentHash(raw)
    <3>1. same \subseteq 0..Len(c.puts) /\ Len(c.puts) \in Nat /\ same # {}
      BY <1>1, <1>4 DEF Elements
    <3>2. \E i \in same : \A h \in same : h <= i
      <4> HIDE DEF same
      <4> QED BY <3>1, GreatestElement
    <3> QED BY <3>2
  <2>2. Found(c, c.asked[j]) = Unwrapped(c.puts[last]).doc
    BY <1>4 DEF Found, Artifact
  <2> DEFINE put == c.puts[last]
  <2> HIDE DEF last
  <2>3. DOMAIN put = {"form", "doc"}
    BY <1>1, <2>1 DEF Elements
  <2>4. Found(c, c.asked[j]) = put.doc
    BY <1>2, <2>2, <2>3
  <2>5. ContentHash(raw) = SemanticHash(raw) /\ ContentHash(put) = SemanticHash(raw)
    BY <1>1, <2>1 DEF ContentHash
  <2> HIDE DEF put, raw
  <2>6. put = raw \/ SemanticHash(put) = SemanticHash(raw)
    <3>1. CASE Valid(put)
      BY <2>5, <3>1 DEF ContentHash
    <3>2. CASE ~Valid(put)
      <4>1. put = SemanticHash(raw)
        BY <2>5, <3>2 DEF ContentHash
      <4>2. \/ SemanticHash(raw) = raw
            \/ "name" \in DOMAIN SemanticHash(raw)
        <5> DEFINE packages == ByKey(raw.doc.packages, LAMBDA p : p.id)
                   relationships == ByKey(raw.doc.relationships, LAMBDA r : <<r.from, r.to, r.type>>)
        <5>1. \/ SemanticHash(raw) = raw
              \/ SemanticHash(raw) = [name |-> raw.doc.name, packages |-> packages,
                                      relationships |-> relationships]
          BY DEF SemanticHash
        <5> HIDE DEF packages, relationships
        <5> QED BY <5>1
      <4> QED BY <2>3, <4>1, <4>2
    <3> QED BY <3>1, <3>2
  <2>7. put.doc = raw.doc \/ SameItems(put.doc, raw.doc)
    BY <1>1, <2>3, <2>6, EqualHash DEF raw
  <2> QED BY <2>4, <2>7 DEF raw
<1> QED BY <1>3, <1>4

(* Every name that a relation is resolved to is the repository's or listed. *)
LEMMA NamesListed ==
  ASSUME NEW repo, NEW doc, NEW id \in Known(doc)
  PROVE  NameOf(repo, doc, id) \in Elements(Listed(doc)) \cup {repo}
<1>1. CASE id \in Roots(doc)
  BY <1>1 DEF NameOf
<1>2. CASE id \notin Roots(doc)
  <2> DEFINE p == CHOOSE q \in Elements(doc.packages) : q.id = id
  <2>1. \E q \in Elements(doc.packages) : q.id = id
    BY <1>2 DEF Known
  <2>2. p \in Elements(doc.packages)
    BY <2>1
  <2>3. NameOf(repo, doc, id) = CanonicalId(p)
    BY <1>2 DEF NameOf
  <2> HIDE DEF p
  <2>4. CanonicalId(p) \in Elements(Listed(doc))
    BY <2>2 DEF Elements, Listed
  <2> QED BY <2>3, <2>4
<1> QED BY <1>1, <1>2

LEMMA TaskSubmitted ==
  ASSUME NEW c \in Scenarios, task = Asked(c), NEW j \in Jobs, Submits(j)
  PROVE  Submitted(j)
<1> DEFINE asked == c.asked[j]
           doc == Found(c, asked)
           repo == asked.repo
<1>1. task[j] = IF asked.kind = "sbom" THEN Opened(c, asked) ELSE asked
  BY DEF Asked
<1>2. asked.kind = "sbom"
  BY <1>1 DEF Submits
<1>3. /\ task[j].repo = repo /\ task[j].packages = InCanonicalOrder(repo, Listed(doc))
      /\ task[j].flat = Flat(doc) /\ task[j].relations = Relations(repo, doc)
      /\ task[j].declared = Declared(repo, asked.payload.doc)
  BY <1>1, <1>2 DEF Opened
<1>4. Elements(Listed(doc)) \subseteq Names
  BY <1>2, GraphConstants
<1>5. task[j].declared = Declared(repo, doc)
  <2>1. doc = asked.payload.doc \/ SameItems(doc, asked.payload.doc)
    BY <1>2, FoundItems
  <2> HIDE DEF doc, repo, asked
  <2> QED BY <1>3, <2>1, SameDeclared
<1> HIDE DEF doc, repo, asked
<1>6. Elements(task[j].packages) = Elements(Listed(doc)) \ {repo} /\ Ascending(task[j].packages)
  BY <1>3, <1>4, CanonicalOrder
<1>7. Concerned(j) = Elements(Listed(doc)) \cup {repo}
  BY <1>3, <1>6 DEF Concerned
<1>8. \A i \in DOMAIN task[j].packages : task[j].packages[i] \in Elements(Listed(doc)) \ {repo}
  BY <1>6 DEF Elements
<1>9. CASE Flat(doc)
  <2>1. Plan(j) = {<<i, repo, task[j].packages[i]>> : i \in DOMAIN task[j].packages}
    BY <1>3, <1>9 DEF Plan
  <2>2. \A q \in Plan(j) : q[2] \in Concerned(j) /\ q[3] \in Concerned(j)
    BY <1>7, <1>8, <2>1
  <2>3. ASSUME NEW p \in task[j].declared
        PROVE  p[1] # p[2] /\ \E q \in Plan(j) : q[2] = p[1] /\ q[3] = p[2]
    <3>1. p \in {repo} \X Elements(Listed(doc)) /\ p[1] # p[2]
      BY <1>5, <1>9 DEF Declared
    <3>2. p[1] = repo /\ p[2] \in Elements(task[j].packages)
      BY <1>6, <3>1
    <3>3. PICK i \in DOMAIN task[j].packages : task[j].packages[i] = p[2]
      BY <3>2 DEF Elements
    <3> DEFINE q == <<i, repo, task[j].packages[i]>>
    <3>4. q \in Plan(j) /\ q[2] = p[1] /\ q[3] = p[2]
      BY <2>1, <3>2, <3>3
    <3> HIDE DEF q
    <3> QED BY <3>1, <3>4
  <2> QED BY <1>3, <1>6, <1>8, <2>2, <2>3 DEF Submitted
<1>10. CASE ~Flat(doc)
  <2>1. Plan(j) = Relations(repo, doc)
    BY <1>3, <1>10 DEF Plan
  <2>2. ASSUME NEW q \in Plan(j) PROVE q[2] \in Concerned(j) /\ q[3] \in Concerned(j)
    <3>1. PICK i \in Dependencies(doc) :
             /\ {doc.relationships[i].from, doc.relationships[i].to} \subseteq Known(doc)
             /\ q[2] = NameOf(repo, doc, doc.relationships[i].from)
             /\ q[3] = NameOf(repo, doc, doc.relationships[i].to)
      BY <2>1 DEF Relations
    <3> QED BY <1>7, <3>1, NamesListed
  <2>3. ASSUME NEW p \in task[j].declared
        PROVE  p[1] # p[2] /\ \E q \in Plan(j) : q[2] = p[1] /\ q[3] = p[2]
    <3>1. p \in {<<r[2], r[3]>> : r \in Relations(repo, doc)} /\ p[1] # p[2]
      BY <1>5, <1>10 DEF Declared
    <3> QED BY <2>1, <3>1
  <2> QED BY <1>3, <1>6, <1>8, <2>2, <2>3 DEF Submitted
<1> QED BY <1>9, <1>10

LEMMA InitIngests == Init => SbomInv
<1> SUFFICES ASSUME Init PROVE SbomInv
  OBVIOUS
<1>1. PICK c \in Scenarios : task = Asked(c) /\ vertices = c.vertices
  BY DEF Init
<1>2. \A j \in Jobs : Submits(j) => Submitted(j)
  BY <1>1, TaskSubmitted
<1>3. 0 \notin DOMAIN vertices
  BY <1>1, GraphConstants
<1>4. \A j \in Jobs : /\ DOMAIN newV[j] = {} /\ DOMAIN newE[j] = {} /\ pc[j] = "repo"
                      /\ todo[j] = <<>> /\ \A n \in Names : vid[j][n] = 0
  BY NoRows DEF Init
<1>5. ASSUME NEW j \in Jobs PROVE Ingests(j)
  <2>1. DOMAIN todo[j] = {}
    BY <1>4
  <2>2. Visits(j) /\ EdgesBehind(j) /\ Resolved(j) /\ Applied(j)
    BY <1>4, <2>1 DEF Visits, Ascending, EdgesBehind, Resolved, Applied
  <2> QED BY <2>2 DEF Ingests
<1> QED BY <1>2, <1>3, <1>4, <1>5 DEF SbomInv, Positive

-----------------------------------------------------------------------------
(* What every step leaves alone: the other jobs, and the names of vertices. *)

Frame(j) ==
  /\ task' = task
  /\ \A i \in Jobs \ {j} :
       /\ pc'[i] = pc[i] /\ todo'[i] = todo[i] /\ vid'[i] = vid[i]
       /\ newV'[i] = newV[i] /\ newE'[i] = newE[i]
       /\ pc[i] \in {"root", "nested"} => rows'[i] = rows[i]

LEMMA FailFrames == ASSUME Inv, NEW j \in Jobs, Fail(j) PROVE Frame(j)
BY DEF Fail, Goto, Frame, Inv, Typed

LEMMA StepFrames == ASSUME Inv, NEW j \in Jobs, Step(j) PROVE Frame(j)
<1>1. Typed
  BY DEF Inv
<1>2. \A k : Pass(j, k) => /\ task' = task /\ vid' = vid /\ newV' = newV
                           /\ \A i \in Jobs \ {j} : pc'[i] = pc[i] /\ todo'[i] = todo[i] /\ rows'[i] = rows[i]
  BY <1>1 DEF Pass, Goto, Visited, Typed
<1>3. \A v, row : WriteV(j, v, row) => \A i \in Jobs \ {j} : newV'[i] = newV[i]
  BY <1>1 DEF WriteV, Typed
<1>4. \A k, row : WriteE(j, k, row) => \A i \in Jobs \ {j} : newE'[i] = newE[i]
  BY <1>1 DEF WriteE, Typed
<1>5. \A label : Goto(j, label) => \A i \in Jobs \ {j} : pc'[i] = pc[i]
  BY <1>1 DEF Goto, Typed
<1>6. \A v : Resolve(j, v) => \A i \in Jobs \ {j} : vid'[i] = vid[i]
  BY <1>1 DEF Resolve, Typed
<1>7. Visited(j) => \A i \in Jobs \ {j} : todo'[i] = todo[i]
  BY <1>1 DEF Visited, Typed
<1>8. CASE FindRepo(j)
  BY <1>1, <1>5, <1>6, <1>8 DEF FindRepo, Frame, Typed, writes
<1>9. CASE UpsertRepo(j)
  BY <1>1, <1>5, <1>6, <1>9 DEF UpsertRepo, Frame, writes
<1>10. CASE InsertVertex(j)
  BY <1>1, <1>3, <1>5, <1>6, <1>7, <1>10 DEF InsertVertex, Frame, Typed
<1>11. CASE InsertVertexRaises(j)
  BY <1>11, FailFrames DEF InsertVertexRaises
<1>12. CASE Promote(j)
  BY <1>3, <1>5, <1>12, FailFrames DEF Promote, Frame
<1>13. CASE UpdateRepo(j)
  BY <1>3, <1>5, <1>13 DEF UpdateRepo, Frame
<1>14. CASE VisitPackage(j)
  BY <1>1, <1>5, <1>6, <1>7, <1>14 DEF VisitPackage, PackageFound, Frame, Typed, writes
<1>15. CASE UpdatePackage(j)
  BY <1>1, <1>3, <1>5, <1>7, <1>15, FailFrames DEF UpdatePackage, Frame, Typed
<1>16. CASE DeleteRootEdges(j)
  BY <1>1, <1>5, <1>16 DEF DeleteRootEdges, Frame, Typed, writes
<1>17. CASE InsertRootEdges(j)
  BY <1>1, <1>5, <1>17 DEF InsertRootEdges, Frame, Typed, writes
<1>18. CASE UpsertNestedEdges(j)
  BY <1>1, <1>5, <1>18 DEF UpsertNestedEdges, Frame, Typed, writes
<1>19. CASE DeleteRow(j)
  BY <1>2, <1>4, <1>19 DEF DeleteRow, Frame
<1>20. CASE WriteRow(j)
  BY <1>2, <1>4, <1>20, FailFrames DEF WriteRow, Frame
<1>21. CASE LookupExternal(j)
  BY <1>1, <1>5, <1>6, <1>7, <1>21 DEF LookupExternal, Frame, Typed, writes
<1>22. CASE NextStatement(j)
  BY <1>1, <1>22 DEF NextStatement, Frame, Typed, writes
<1>23. CASE MoveRow(j)
  BY <1>1, <1>2, <1>23, FailFrames DEF MoveRow, Frame, Typed
<1>24. CASE DeleteStatement(j)
  BY <1>5, <1>24 DEF DeleteStatement, Frame, writes
<1>25. CASE DeleteExternal(j)
  BY <1>3, <1>5, <1>25, FailFrames DEF DeleteExternal, Frame
<1>26. CASE Commit(j)
  BY <1>1, <1>5, <1>26 DEF Commit, Frame, Typed
<1>27. CASE EndCrawl(j)
  BY <1>5, <1>27 DEF EndCrawl, Frame, writes
<1> QED BY <1>8, <1>9, <1>10, <1>11, <1>12, <1>13, <1>14, <1>15, <1>16, <1>17, <1>18, <1>19,
           <1>20, <1>21, <1>22, <1>23, <1>24, <1>25, <1>26, <1>27 DEF Step

(* No vertex is renamed, and new ones take a new id.                        *)
WasNamed(v, n) ==
  \/ v \in DOMAIN vertices /\ vertices[v].name = n
  \/ \E i \in Jobs : v \in DOMAIN newV[i] /\ newV[i][v].name = n
NamesStay ==
  /\ \A v \in DOMAIN vertices' : WasNamed(v, vertices'[v].name)
  /\ \A i \in Jobs : \A v \in DOMAIN newV'[i] : WasNamed(v, newV'[i][v].name) \/ v = lastId + 1

LEMMA NothingWritten ==
  ASSUME UNCHANGED <<vertices, newV>>
  PROVE  NamesStay
BY DEF NamesStay, WasNamed

LEMMA FailNames == ASSUME Inv, NEW j \in Jobs, Fail(j) PROVE NamesStay
<1>1. vertices' = vertices /\ DOMAIN newV'[j] = {} /\ \A i \in Jobs \ {j} : newV'[i] = newV[i]
  BY NoRows DEF Fail, Inv, Typed, graph
<1> QED BY <1>1 DEF NamesStay, WasNamed

LEMMA WriteNames ==
  ASSUME Inv, NEW j \in Jobs, NEW v, NEW row, WriteV(j, v, row), UNCHANGED vertices,
         WasNamed(v, row.name) \/ v = lastId + 1
  PROVE  NamesStay
<1>1. newV'[j] = With(newV[j], v, row) /\ \A i \in Jobs \ {j} : newV'[i] = newV[i]
  BY DEF WriteV, Inv, Typed
<1>2. \A u \in DOMAIN newV'[j] : IF u = v THEN newV'[j][u] = row
                                  ELSE u \in DOMAIN newV[j] /\ newV'[j][u] = newV[j][u]
  BY <1>1 DEF With
<1>3. \A i \in Jobs : \A u \in DOMAIN newV[i] : WasNamed(u, newV[i][u].name)
  BY DEF WasNamed
<1>4. \A u \in DOMAIN vertices' : WasNamed(u, vertices'[u].name)
  BY DEF WasNamed
<1> QED BY <1>1, <1>2, <1>3, <1>4 DEF NamesStay

(* What a transaction sees has the name it has.                             *)
LEMMA SeenNamed ==
  ASSUME NEW j \in Jobs, NEW v \in DOMAIN V(j)
  PROVE  WasNamed(v, V(j)[v].name)
BY DEF V, Merged, WasNamed

LEMMA StepNames == ASSUME Inv, NEW j \in Jobs, Step(j) PROVE NamesStay
<1>1. \A k : Pass(j, k) => UNCHANGED <<vertices, newV>>
  BY DEF Pass, graph
<1>2. Source(j) \in Nat /\ \A v \in DOMAIN vertices : WasNamed(v, vertices[v].name)
  BY TaskFields DEF Source, Inv, Typed, WasNamed
<1>3. CASE FindRepo(j) \/ UpsertRepo(j) \/ VisitPackage(j)
  BY <1>3, NothingWritten DEF FindRepo, UpsertRepo, VisitPackage, graph, writes
<1>4. CASE InsertVertex(j)
  <2> DEFINE row == [is |-> IF pc[j] = "insertRepo" THEN "repo" ELSE "external",
                     name |-> Name(j), purls |-> IF pc[j] = "insertRepo" THEN Published(j) ELSE {},
                     version |-> Version(j)]
  <2>1. WriteV(j, lastId + 1, row) /\ UNCHANGED vertices
    BY <1>4 DEF InsertVertex, graph
  <2> HIDE DEF row
  <2> QED BY <2>1, WriteNames
<1>5. CASE InsertVertexRaises(j)
  BY <1>5, FailNames DEF InsertVertexRaises
<1>6. CASE Promote(j)
  <2> DEFINE v == Source(j)
             row == [is |-> "repo", name |-> vertices[v].name, purls |-> Published(j), version |-> Version(j)]
  <2>1. \/ Fail(j)
        \/ v \in DOMAIN vertices /\ WriteV(j, v, row) /\ UNCHANGED vertices
    BY <1>6 DEF Promote, graph
  <2>2. row.name = vertices[v].name
    OBVIOUS
  <2> HIDE DEF v, row
  <2> QED BY <1>2, <2>1, <2>2, FailNames, WriteNames
<1>7. CASE UpdateRepo(j)
  <2> DEFINE v == Source(j)
             row == [vertices[v] EXCEPT !.purls = IF Published(j) = read[j] THEN @ ELSE Published(j),
                                        !.version = IF Version(j) = NoVersion THEN @ ELSE Version(j)]
  <2>1. pc[j] = "updateRepo" /\ WriteV(j, v, row) /\ UNCHANGED vertices
    BY <1>7 DEF UpdateRepo, graph
  <2>2. v \in DOMAIN vertices /\ vertices[v] \in Vertex
    BY <2>1 DEF Inv, Local, SourceIsRepo, TypedRows
  <2>3. row.name = vertices[v].name
    BY <2>2 DEF Vertex, Repo, ExternalRepo, Deleted
  <2> HIDE DEF v, row
  <2> QED BY <1>2, <2>1, <2>2, <2>3, WriteNames
<1>8. CASE UpdatePackage(j)
  <2> DEFINE v == vid[j][Head(todo[j])]
             row == [V(j)[v] EXCEPT !.is = "external", !.version = Version(j)]
  <2>1. \/ Fail(j)
        \/ HasChildRow(j, v) /\ WriteV(j, v, row) /\ UNCHANGED vertices
    BY <1>8 DEF UpdatePackage, graph
  <2>2. ASSUME v \in DOMAIN V(j) PROVE row.name = V(j)[v].name
    <3>1. V(j)[v] \in Vertex
      BY <2>2 DEF V, Merged, Inv, TypedRows
    <3> QED BY <3>1 DEF Vertex, Repo, ExternalRepo, Deleted
  <2> HIDE DEF v, row
  <2> QED BY <2>1, <2>2, FailNames, WriteNames, SeenNamed DEF HasChildRow
<1>9. CASE DeleteRootEdges(j) \/ InsertRootEdges(j) \/ UpsertNestedEdges(j)
  BY <1>9, NothingWritten DEF DeleteRootEdges, InsertRootEdges, UpsertNestedEdges, graph, writes
<1>10. CASE DeleteRow(j)
  BY <1>1, <1>10, NothingWritten DEF DeleteRow
<1>11. CASE WriteRow(j)
  BY <1>1, <1>11, NothingWritten, FailNames DEF WriteRow
<1>12. CASE LookupExternal(j) \/ NextStatement(j) \/ DeleteStatement(j) \/ EndCrawl(j)
  BY <1>12, NothingWritten DEF LookupExternal, NextStatement, DeleteStatement, EndCrawl, graph, writes
<1>13. CASE MoveRow(j)
  BY <1>1, <1>13, NothingWritten, FailNames DEF MoveRow
<1>14. CASE DeleteExternal(j)
  <2> DEFINE v == vid[j][Name(j)]
             row == [vertices[v] EXCEPT !.is = "gone"]
  <2>1. \/ Fail(j)
        \/ v \in DOMAIN vertices /\ WriteV(j, v, row) /\ UNCHANGED vertices
        \/ UNCHANGED <<vertices, newV>>
    BY <1>14 DEF DeleteExternal, graph
  <2>2. v \in DOMAIN vertices => row.name = vertices[v].name
    BY DEF Inv, TypedRows, Vertex, Repo, ExternalRepo, Deleted
  <2> HIDE DEF v, row
  <2> QED BY <1>2, <2>1, <2>2, FailNames, WriteNames, NothingWritten
<1>15. CASE Commit(j)
  <2>1. /\ vertices' = V(j) /\ DOMAIN newV'[j] = {} /\ \A i \in Jobs \ {j} : newV'[i] = newV[i]
    BY <1>15, NoRows DEF Commit, Inv, Typed
  <2>2. \A v \in DOMAIN vertices' : WasNamed(v, vertices'[v].name)
    BY <2>1, SeenNamed
  <2>3. \A i \in Jobs : \A v \in DOMAIN newV[i] : WasNamed(v, newV[i][v].name)
    BY DEF WasNamed
  <2> QED BY <2>1, <2>2, <2>3 DEF NamesStay
<1> QED BY <1>3, <1>4, <1>5, <1>6, <1>7, <1>8, <1>9, <1>10, <1>11, <1>12, <1>13, <1>14, <1>15 DEF Step

(* So a name that a vertex bears stays its name.                            *)
LEMMA BearsStays ==
  ASSUME Inv, NamesStay, NEW v, v \in Nat, v <= lastId, NEW n, Bears(v, n)
  PROVE  Bears(v, n)'
<1>1. v # lastId + 1
  BY DEF Inv, Typed
<1>2. \A m : WasNamed(v, m) => m = n
  BY DEF WasNamed, Bears
<1> QED BY <1>1, <1>2 DEF NamesStay, Bears

LEMMA PositiveStays ==
  ASSUME Inv, NamesStay, Positive
  PROVE  Positive'
<1>1. lastId + 1 # 0
  BY DEF Inv, Typed
<1> QED BY <1>1 DEF NamesStay, Positive, WasNamed

(* A vertex that a transaction sees bears one name.                         *)
LEMMA SeenBears ==
  ASSUME Inv, NEW j \in Jobs, NEW v \in DOMAIN V(j)
  PROVE  Bears(v, V(j)[v].name) /\ \A m : Bears(v, m) => m = V(j)[v].name
<1>1. IF v \in DOMAIN newV[j] THEN V(j)[v] = newV[j][v] ELSE v \in DOMAIN vertices /\ V(j)[v] = vertices[v]
  BY DEF V, Merged
<1>2. \A i \in Jobs : v \in DOMAIN newV[i] /\ v \in DOMAIN vertices => newV[i][v].name = vertices[v].name
  BY DEF Inv, Tables, KeepsRepos
<1>3. \A i \in Jobs : v \in DOMAIN newV[i] /\ v \in DOMAIN newV[j] => i = j
  BY DEF Inv, Tables, RowLocks
<1> QED BY <1>1, <1>2, <1>3 DEF Bears

(* The other jobs.                                                          *)
LEMMA OthersIngest ==
  ASSUME Inv, NamesStay, NEW j \in Jobs, Frame(j), NEW i \in Jobs \ {j},
         Submits(i), Submitted(i), Ingests(i)
  PROVE  Submits(i)' /\ Submitted(i)' /\ Ingests(i)'
<1>1. /\ task' = task /\ pc'[i] = pc[i] /\ todo'[i] = todo[i] /\ vid'[i] = vid[i]
      /\ newV'[i] = newV[i] /\ newE'[i] = newE[i]
      /\ pc[i] \in {"root", "nested"} => rows'[i] = rows[i]
  BY DEF Frame
<1>2. /\ Source(i)' = Source(i) /\ Planned(i)' = Planned(i) /\ Concerned(i)' = Concerned(i)
      /\ Plan(i)' = Plan(i)
  BY <1>1 DEF Source, Planned, Ends, Plan, Concerned
<1>3. RootEdges(i)' = RootEdges(i) /\ NestedEdges(i)' = NestedEdges(i)
  BY <1>2 DEF RootEdges, NestedEdges
<1>4. Submits(i)' /\ Submitted(i)'
  BY <1>1, <1>2 DEF Submits, Submitted
<1>5. Visits(i)'
  BY <1>1 DEF Ingests, Visits
<1>6. EdgesBehind(i)'
  BY <1>1, <1>2 DEF Ingests, EdgesBehind
<1>7. Resolved(i)'
  <2>1. \A n \in Names : vid[i][n] \in Nat /\ vid[i][n] <= lastId
    BY DEF Inv, Typed, Ids
  <2>2. ASSUME NEW n \in Names, NEW v \in Nat, vid[i][n] = v, v # 0 PROVE Bears(v, n)'
    BY <2>1, <2>2, BearsStays DEF Ingests, Resolved
  <2>3. \A n \in Names : vid[i][n] # 0 => Bears(vid[i][n], n)'
    BY <1>1, <2>1, <2>2
  <2> QED BY <1>1, <1>2, <2>3 DEF Ingests, Resolved
<1>8. Applied(i)'
  BY <1>1, <1>2, <1>3 DEF Ingests, Applied, IsVerified
<1> QED BY <1>4, <1>5, <1>6, <1>7, <1>8 DEF Ingests

(* The job itself remembers the vertex of a name.                           *)
LEMMA Resolves ==
  ASSUME Inv, NamesStay, NEW j \in Jobs, Resolved(j), NEW n \in Names, NEW v \in Nat \ {0},
         vid' = [vid EXCEPT ![j][n] = v], Bears(v, n)',
         \A m \in Names : vid[j][m] = v => m = n
  PROVE  /\ \A m \in Names : vid'[j][m] # 0 => Bears(vid[j][m], m)'
         /\ \A l, m \in Names : vid'[j][l] = vid'[j][m] => l = m \/ vid'[j][l] = 0
<1>1. vid'[j][n] = v /\ \A m \in Names \ {n} : vid'[j][m] = vid[j][m]
  BY Remembered DEF Inv
<1>2. \A m \in Names : vid[j][m] \in Nat /\ vid[j][m] <= lastId
  BY DEF Inv, Typed, Ids
<1>3. ASSUME NEW m \in Names \ {n}, NEW u \in Nat, vid[j][m] = u, u # 0 PROVE Bears(u, m)'
  BY <1>2, <1>3, BearsStays DEF Resolved
<1>4. \A m \in Names : vid'[j][m] # 0 => Bears(vid[j][m], m)'
  BY <1>1, <1>2, <1>3
<1>5. \A l, m \in Names : vid'[j][l] = vid'[j][m] => l = m \/ vid'[j][l] = 0
  BY <1>1 DEF Resolved
<1> QED BY <1>4, <1>5

-----------------------------------------------------------------------------
(* The steps of the job itself.                                             *)

LEMMA QueueShortens ==
  ASSUME NEW s \in Seq(Names), s # <<>>, Ascending(s)
  PROVE  /\ Head(s) \in Names /\ Tail(s) \in Seq(Names) /\ Ascending(Tail(s))
         /\ \A h \in DOMAIN Tail(s) : Precedes(Head(s), Tail(s)[h]) /\ \E i \in DOMAIN s : s[i] = Tail(s)[h]
         /\ 1 \in DOMAIN s /\ s[1] = Head(s)
         /\ \A n \in Elements(s) : n = Head(s) \/ n \in Elements(Tail(s))
<1>1. /\ Len(s) \in Nat \ {0} /\ DOMAIN s = 1..Len(s)
      /\ DOMAIN Tail(s) = 1..(Len(s) - 1) /\ \A h \in 1..(Len(s) - 1) : Tail(s)[h] = s[h + 1]
      /\ Head(s) = s[1] /\ Head(s) \in Names /\ Tail(s) \in Seq(Names)
  OBVIOUS
<1>2. \A h \in 1..(Len(s) - 1) : h + 1 \in 1..Len(s) /\ 1 < h + 1
  BY <1>1
<1>3. Ascending(Tail(s))
  <2>1. ASSUME NEW i \in 1..(Len(s) - 1), NEW h \in 1..(Len(s) - 1), i < h
        PROVE  Precedes(Tail(s)[i], Tail(s)[h])
    <3>1. i + 1 < h + 1
      BY <2>1
    <3> QED BY <1>1, <1>2, <3>1 DEF Ascending
  <2> QED BY <1>1, <2>1 DEF Ascending
<1>4. \A h \in DOMAIN Tail(s) : Precedes(Head(s), Tail(s)[h]) /\ \E i \in DOMAIN s : s[i] = Tail(s)[h]
  BY <1>1, <1>2 DEF Ascending
<1>5. ASSUME NEW n \in Elements(s), n # Head(s) PROVE n \in Elements(Tail(s))
  <2>1. PICK i \in 1..Len(s) : s[i] = n
    BY <1>1 DEF Elements
  <2>2. i - 1 \in 1..(Len(s) - 1) /\ (i - 1) + 1 = i
    BY <1>1, <1>5, <2>1
  <2> QED BY <1>1, <2>1, <2>2 DEF Elements
<1>6. 1 \in DOMAIN s
  BY <1>1
<1> QED BY <1>1, <1>3, <1>4, <1>5, <1>6

(* What an SBOM job is at when it has written nothing yet.                  *)
LEMMA FindRepoIngests ==
  ASSUME Inv, SbomInv, NEW j \in Jobs, Submits(j), FindRepo(j)
  PROVE  Ingests(j)'
<1>1. /\ pc[j] = "repo" /\ task' = task /\ vertices' = vertices /\ newV' = newV /\ newE' = newE
      /\ Submitted(j) /\ Ingests(j) /\ task[j].kind = "sbom"
      /\ \/ /\ pc'[j] = "insertRepo" /\ todo' = todo /\ vid' = vid
         \/ \E v \in Named(vertices, task[j].repo) :
              /\ vid' = [vid EXCEPT ![j][task[j].repo] = v]
              /\ todo'[j] = task[j].packages /\ pc'[j] = "packages"
  BY DEF FindRepo, Goto, Resolve, Name, Inv, Typed, SbomInv, Submits, writes, graph
<1>2. DOMAIN newV[j] = {} /\ DOMAIN newE[j] = {} /\ NamesStay
  BY <1>1, NothingWritten DEF Inv, Local, Written
<1>3. EdgesBehind(j)' /\ Applied(j)'
  BY <1>1, <1>2 DEF EdgesBehind, Applied
<1>4. CASE pc'[j] = "insertRepo" /\ todo' = todo /\ vid' = vid
  <2>1. Visits(j)'
    BY <1>1, <1>4 DEF Ingests, Visits
  <2>2. \A v, n : Bears(v, n) => Bears(v, n)'
    BY <1>1 DEF Bears
  <2>3. Resolved(j)'
    BY <1>1, <1>4, <2>2 DEF Ingests, Resolved
  <2> QED BY <1>3, <2>1, <2>3 DEF Ingests
<1>5. ASSUME NEW v \in Named(vertices, task[j].repo),
             vid' = [vid EXCEPT ![j][task[j].repo] = v],
             todo'[j] = task[j].packages, pc'[j] = "packages"
      PROVE  Ingests(j)'
  <2>0. PICK n \in Names : n = task[j].repo
    BY TaskFields DEF Inv, Typed
  <2>1. v \in DOMAIN vertices /\ vertices[v].name = n /\ v \in Nat \ {0}
    BY <2>0 DEF Named, Inv, Typed, TypedRows, SbomInv, Positive
  <2>2. v \in DOMAIN V(j) /\ V(j)[v].name = n
    BY <1>2, <2>1 DEF V, Merged
  <2>3. Bears(v, n)' /\ \A m : Bears(v, m) => m = n
    <3>1. Bears(v, n) /\ \A m : Bears(v, m) => m = n
      BY <2>2, SeenBears
    <3> QED BY <1>1, <3>1 DEF Bears
  <2>4. \A m \in Names : vid[j][m] = v => m = n
    BY <1>1, <2>1, <2>3 DEF Ingests, Resolved
  <2>5. /\ \A m \in Names : vid'[j][m] # 0 => Bears(vid[j][m], m)'
        /\ \A l, m \in Names : vid'[j][l] = vid'[j][m] => l = m \/ vid'[j][l] = 0
    <3>1. Resolved(j) /\ vid' = [vid EXCEPT ![j][n] = v]
      BY <1>1, <1>5, <2>0 DEF Ingests
    <3>2. NamesStay /\ v \in Nat \ {0} /\ Bears(v, n)'
      BY <1>2, <2>1, <2>3
    <3> QED BY <2>4, <3>1, <3>2, Resolves, Zenon
  <2>6. vid'[j][n] # 0
    BY <1>5, <2>0, <2>1, Remembered DEF Inv
  <2>7. Resolved(j)'
    BY <1>1, <1>5, <2>0, <2>5, <2>6 DEF Resolved, Concerned
  <2>8. Visits(j)'
    BY <1>1, <1>2, <1>5 DEF Visits, Submitted, Ascending
  <2> QED BY <1>3, <2>7, <2>8 DEF Ingests
<1> QED BY <1>1, <1>4, <1>5

(* A new vertex: that of the repository, or of the package it is visiting.  *)
LEMMA InsertVertexIngests ==
  ASSUME Inv, SbomInv, NEW j \in Jobs, Submits(j), InsertVertex(j)
  PROVE  Ingests(j)'
<1>1. PICK v \in Nat : v = lastId + 1
  BY DEF Inv, Typed
<1>2. PICK n \in Names : n = Name(j)
  <2>1. pc[j] = "insertPackage" => todo[j] \in Seq(Names) /\ todo[j] # <<>>
    BY DEF Inv, Typed, Local, Phase
  <2> QED BY <2>1, TaskFields, HeadTail DEF InsertVertex, Name, Inv, Typed
<1> DEFINE row == [is |-> IF pc[j] = "insertRepo" THEN "repo" ELSE "external",
                   name |-> Name(j), purls |-> IF pc[j] = "insertRepo" THEN Published(j) ELSE {},
                   version |-> Version(j)]
<1>3. /\ pc[j] \in {"insertRepo", "insertPackage"} /\ task' = task /\ newE' = newE
      /\ vertices' = vertices /\ task[j].kind = "sbom" /\ Submitted(j) /\ Ingests(j)
  BY DEF InsertVertex, graph, SbomInv, Submits
<1>4. /\ newV'[j] = With(newV[j], v, row) /\ \A i \in Jobs \ {j} : newV'[i] = newV[i]
      /\ vid' = [vid EXCEPT ![j][n] = v]
  BY <1>1, <1>2 DEF InsertVertex, WriteV, Resolve, Inv, Typed
<1>5. row.name = n
  BY <1>2
<1> HIDE DEF row
<1>6. /\ DOMAIN newV'[j] = DOMAIN newV[j] \cup {v} /\ newV'[j][v].name = n
      /\ \A u \in DOMAIN newV[j] \ {v} : newV'[j][u] = newV[j][u]
  BY <1>4, <1>5 DEF With
<1>7. /\ v \notin DOMAIN vertices /\ \A i \in Jobs : v \notin DOMAIN newV[i]
      /\ \A m \in Names : vid[j][m] # v
      /\ v # 0
  BY <1>1 DEF Inv, Ids, Typed, TypedRows
<1>8. Bears(v, n)'
  BY <1>3, <1>4, <1>6, <1>7 DEF Bears
<1>9. NamesStay
  BY StepNames DEF Step
<1>10. /\ \A m \in Names : vid'[j][m] # 0 => Bears(vid[j][m], m)'
       /\ \A l, m \in Names : vid'[j][l] = vid'[j][m] => l = m \/ vid'[j][l] = 0
  <2>1. Resolved(j) /\ \A m \in Names : vid[j][m] = v => m = n
    BY <1>3, <1>7 DEF Ingests
  <2>2. v \in Nat \ {0}
    BY <1>7
  <2> QED BY <1>4, <1>8, <1>9, <2>1, <2>2, Resolves, Zenon
<1>11. vid'[j][n] # 0 /\ \A m \in Names \ {n} : vid'[j][m] = vid[j][m]
  BY <1>4, <1>7, Remembered DEF Inv
<1>12. DOMAIN newE[j] = {}
  BY <1>3 DEF Inv, Local, Written
<1>13. CASE pc[j] = "insertRepo"
  <2>1. pc'[j] = "packages" /\ todo'[j] = task[j].packages /\ n = task[j].repo
    BY <1>2, <1>3, <1>13 DEF InsertVertex, Goto, Name, Inv, Typed
  <2>2. DOMAIN newV[j] = {}
    BY <1>13 DEF Inv, Local, Written
  <2>3. EdgesBehind(j)' /\ Applied(j)'
    BY <1>3, <1>12, <2>1 DEF EdgesBehind, Applied
  <2>4. Resolved(j)'
    BY <1>3, <1>10, <1>11, <2>1 DEF Resolved, Concerned
  <2>5. Visits(j)'
    BY <1>3, <1>6, <2>1, <2>2 DEF Visits, Submitted
  <2> QED BY <2>3, <2>4, <2>5 DEF Ingests
<1>14. CASE pc[j] = "insertPackage"
  <2>1. pc'[j] = "packages" /\ todo'[j] = Tail(todo[j]) /\ n = Head(todo[j])
    BY <1>2, <1>3, <1>14 DEF InsertVertex, Goto, Visited, Name, Inv, Typed
  <2>2. todo[j] \in Seq(Names) /\ todo[j] # <<>> /\ Ascending(todo[j])
    BY <1>3, <1>14 DEF Inv, Typed, Local, Phase, Ingests, Visits
  <2>3. EdgesBehind(j)' /\ Applied(j)'
    BY <1>3, <1>12, <2>1 DEF EdgesBehind, Applied
  <2>4. Resolved(j)'
    <3>1. \A m \in Concerned(j) : m \in Names
      BY TaskFields DEF Concerned, Elements, Inv, Typed
    <3>2. \A m \in Concerned(j) : vid[j][m] # 0 \/ m \in Elements(todo[j])
      BY <1>3, <1>14 DEF Ingests, Resolved, Ended
    <3>3. \A m \in Elements(todo[j]) : m = n \/ m \in Elements(todo'[j])
      BY <2>1, <2>2, QueueShortens
    <3>4. \A m \in Concerned(j) : vid'[j][m] # 0 \/ m \in Elements(todo'[j])
      BY <1>11, <3>1, <3>2, <3>3
    <3>5. Concerned(j)' = Concerned(j)
      BY <1>3 DEF Concerned
    <3> QED BY <1>10, <3>4, <3>5 DEF Resolved
  <2>5. Visits(j)'
    <3>1. /\ Ascending(Tail(todo[j]))
          /\ \A h \in DOMAIN Tail(todo[j]) : /\ Precedes(n, Tail(todo[j])[h])
                                             /\ \E i \in DOMAIN todo[j] : todo[j][i] = Tail(todo[j])[h]
      BY <2>1, <2>2, QueueShortens
    <3>2. \A h \in DOMAIN todo[j] : todo[j][h] # task[j].repo
      BY <1>3 DEF Ingests, Visits
    <3>3. ASSUME NEW u \in DOMAIN newV[j], NEW h \in DOMAIN Tail(todo[j])
          PROVE  newV[j][u].name = task[j].repo \/ Precedes(newV[j][u].name, Tail(todo[j])[h])
      <4>1. PICK i \in DOMAIN todo[j] : todo[j][i] = Tail(todo[j])[h]
        BY <3>1
      <4> QED BY <1>3, <4>1 DEF Ingests, Visits
    <3>4. ASSUME NEW u \in DOMAIN newV'[j], NEW h \in DOMAIN Tail(todo[j])
          PROVE  newV'[j][u].name = task[j].repo \/ Precedes(newV'[j][u].name, Tail(todo[j])[h])
      BY <1>6, <3>1, <3>3
    <3> QED BY <1>3, <2>1, <3>1, <3>2, <3>4 DEF Visits
  <2> QED BY <2>3, <2>4, <2>5 DEF Ingests
<1> QED BY <1>3, <1>13, <1>14

(* The queue is one shorter, and what it holds is still before it.          *)
LEMMA VisitsOn ==
  ASSUME NEW j \in Jobs, todo[j] \in Seq(Names), todo[j] # <<>>, Visits(j),
         task' = task, todo'[j] = Tail(todo[j]),
         \A u \in DOMAIN newV'[j] :
           \/ u \in DOMAIN newV[j] /\ newV'[j][u].name = newV[j][u].name
           \/ newV'[j][u].name = Head(todo[j])
  PROVE  Visits(j)'
<1>1. /\ Ascending(Tail(todo[j]))
      /\ \A h \in DOMAIN Tail(todo[j]) : /\ Precedes(Head(todo[j]), Tail(todo[j])[h])
                                         /\ \E i \in DOMAIN todo[j] : todo[j][i] = Tail(todo[j])[h]
  BY QueueShortens DEF Visits
<1>2. ASSUME NEW u \in DOMAIN newV[j], NEW h \in DOMAIN Tail(todo[j])
      PROVE  newV[j][u].name = task[j].repo \/ Precedes(newV[j][u].name, Tail(todo[j])[h])
  <2>1. PICK i \in DOMAIN todo[j] : todo[j][i] = Tail(todo[j])[h]
    BY <1>1
  <2> QED BY <2>1 DEF Visits
<1>3. ASSUME NEW u \in DOMAIN newV'[j], NEW h \in DOMAIN Tail(todo[j])
      PROVE  newV'[j][u].name = task[j].repo \/ Precedes(newV'[j][u].name, Tail(todo[j])[h])
  BY <1>1, <1>2
<1>4. \A h \in DOMAIN Tail(todo[j]) : Tail(todo[j])[h] # task[j].repo
  BY <1>1 DEF Visits
<1> QED BY <1>1, <1>3, <1>4 DEF Visits

(* So is what it has yet to resolve.                                        *)
LEMMA ResolvedOn ==
  ASSUME Inv, NEW j \in Jobs, todo[j] # <<>>, Ascending(todo[j]), Resolved(j),
         pc[j] \notin {"repo", "insertRepo"} \cup Ended,
         task' = task, todo'[j] = Tail(todo[j]), NEW n \in Names, n = Head(todo[j]), vid'[j][n] # 0,
         \A m \in Names \ {n} : vid'[j][m] = vid[j][m]
  PROVE  \A m \in Concerned(j)' : vid'[j][m] # 0 \/ m \in Elements(todo'[j])
<1>1. \A m \in Concerned(j) : m \in Names
  BY TaskFields DEF Concerned, Elements, Inv, Typed
<1>2. \A m \in Concerned(j) : vid[j][m] # 0 \/ m \in Elements(todo[j])
  BY DEF Resolved
<1>3. \A m \in Elements(todo[j]) : m = n \/ m \in Elements(todo'[j])
  BY QueueShortens DEF Inv, Typed
<1>4. Concerned(j)' = Concerned(j)
  BY DEF Concerned
<1> QED BY <1>1, <1>2, <1>3, <1>4

LEMMA VisitPackageIngests ==
  ASSUME Inv, SbomInv, NEW j \in Jobs, Submits(j), VisitPackage(j)
  PROVE  Ingests(j)'
<1>1. PICK n \in Names : n = Head(todo[j])
  BY HeadTail DEF VisitPackage, Inv, Typed
<1>2. /\ pc[j] = "packages" /\ todo[j] # <<>> /\ task' = task /\ newE' = newE /\ newV' = newV
      /\ vertices' = vertices /\ task[j].kind = "sbom" /\ Submitted(j) /\ Ingests(j)
      /\ todo[j] \in Seq(Names)
  BY DEF VisitPackage, writes, graph, SbomInv, Submits, Inv, Typed
<1>3. DOMAIN newE[j] = {} /\ NamesStay
  BY <1>2, NothingWritten DEF Inv, Local, Written
<1>4. /\ \/ todo'[j] = Tail(todo[j]) /\ pc'[j] = "packages"
         \/ todo' = todo /\ pc'[j] = "updatePackage"
         \/ todo' = todo /\ pc'[j] = "insertPackage" /\ vid' = vid
      /\ \/ pc'[j] = "insertPackage"
         \/ \E v \in Named(V(j), n) : vid' = [vid EXCEPT ![j][n] = v]
  BY <1>1, <1>2 DEF VisitPackage, PackageFound, Goto, Visited, Resolve, Name, Inv, Typed
<1>5. EdgesBehind(j)' /\ Applied(j)'
  BY <1>2, <1>3, <1>4 DEF EdgesBehind, Applied
<1>6. Visits(j)'
  <2>1. CASE todo' = todo
    BY <1>2, <2>1 DEF Ingests, Visits
  <2>2. CASE todo'[j] = Tail(todo[j])
    BY <1>2, <2>2, VisitsOn DEF Ingests
  <2> QED BY <1>4, <2>1, <2>2
<1>7. CASE pc'[j] = "insertPackage"
  <2>1. \A v, m : Bears(v, m) => Bears(v, m)'
    BY <1>2 DEF Bears
  <2>2. todo' = todo /\ vid' = vid
    BY <1>4, <1>7
  <2>3. Resolved(j)'
    BY <1>2, <1>7, <2>1, <2>2 DEF Ingests, Resolved, Concerned, Ended
  <2> QED BY <1>5, <1>6, <2>3 DEF Ingests
<1>8. ASSUME NEW v \in Named(V(j), n), vid' = [vid EXCEPT ![j][n] = v], pc'[j] # "insertPackage"
      PROVE  Resolved(j)'
  <2>1. v \in DOMAIN V(j) /\ V(j)[v].name = n
    BY DEF Named
  <2>2. v \in Nat \ {0}
    BY <2>1 DEF V, Merged, Inv, TypedRows, SbomInv, Positive
  <2>3. Bears(v, n)' /\ \A m : Bears(v, m) => m = n
    <3>1. Bears(v, n) /\ \A m : Bears(v, m) => m = n
      BY <2>1, SeenBears
    <3> QED BY <1>2, <3>1 DEF Bears
  <2>4. \A m \in Names : vid[j][m] = v => m = n
    BY <1>2, <2>2, <2>3 DEF Ingests, Resolved
  <2>5. Resolved(j)
    BY <1>2 DEF Ingests
  <2>6. /\ \A m \in Names : vid'[j][m] # 0 => Bears(vid[j][m], m)'
        /\ \A l, m \in Names : vid'[j][l] = vid'[j][m] => l = m \/ vid'[j][l] = 0
    BY <1>3, <1>8, <2>2, <2>3, <2>4, <2>5, Resolves, Zenon
  <2>7. vid'[j][n] # 0 /\ \A m \in Names \ {n} : vid'[j][m] = vid[j][m]
    BY <1>8, <2>2, Remembered DEF Inv
  <2>8. \A m \in Concerned(j)' : vid'[j][m] # 0 \/ m \in Elements(todo'[j])
    <3>1. CASE todo' = todo
      <4>1. Concerned(j)' = Concerned(j) /\ \A m \in Concerned(j) : m \in Names
        BY <1>2, TaskFields DEF Concerned, Elements, Inv, Typed
      <4>2. \A m \in Concerned(j) : vid[j][m] # 0 \/ m \in Elements(todo[j])
        BY <1>2 DEF Ingests, Resolved, Ended
      <4> QED BY <2>7, <3>1, <4>1, <4>2
    <3>2. CASE todo'[j] = Tail(todo[j])
      <4>1. pc[j] \notin {"repo", "insertRepo"} \cup Ended /\ Ascending(todo[j])
        BY <1>2 DEF Ended, Ingests, Visits
      <4> QED BY <1>1, <1>2, <2>5, <2>7, <3>2, <4>1, ResolvedOn
    <3> QED BY <1>4, <3>1, <3>2
  <2> QED BY <2>6, <2>8 DEF Resolved
<1> QED BY <1>4, <1>5, <1>6, <1>7, <1>8 DEF Ingests

LEMMA UpdatePackageIngests ==
  ASSUME Inv, SbomInv, NEW j \in Jobs, Submits(j), UpdatePackage(j), ~Fail(j)
  PROVE  Ingests(j)'
<1>1. PICK n \in Names : n = Head(todo[j])
  <2>1. todo[j] \in Seq(Names) /\ todo[j] # <<>>
    BY DEF UpdatePackage, Inv, Typed, Local, Phase
  <2> QED BY <2>1, HeadTail
<1> DEFINE v == vid[j][n]
           row == [V(j)[v] EXCEPT !.is = "external", !.version = Version(j)]
<1>2. /\ pc[j] = "updatePackage" /\ HasChildRow(j, v) /\ task' = task /\ newE' = newE /\ vid' = vid
      /\ vertices' = vertices /\ newV'[j] = With(newV[j], v, row)
      /\ todo'[j] = Tail(todo[j]) /\ pc'[j] = "packages"
      /\ task[j].kind = "sbom" /\ Ingests(j)
      /\ todo[j] \in Seq(Names) /\ todo[j] # <<>>
  BY <1>1 DEF UpdatePackage, WriteV, Goto, Visited, graph, SbomInv, Submits, Inv, Typed, Local, Phase
<1>3. NamesStay /\ DOMAIN newE[j] = {}
  BY <1>2, StepNames DEF Step, Inv, Local, Written
<1>4. v # 0 /\ row.name = n
  <2>1. v \in DOMAIN V(j)
    BY <1>2 DEF HasChildRow
  <2>2. V(j)[v] \in Vertex /\ v # 0
    BY <2>1 DEF V, Merged, Inv, TypedRows, SbomInv, Positive
  <2>3. Bears(v, n)
    BY <1>2, <2>2 DEF Ingests, Resolved
  <2>4. V(j)[v].name = n
    BY <2>1, <2>3, SeenBears
  <2>5. row.name = V(j)[v].name
    BY <2>2 DEF Vertex, Repo, ExternalRepo, Deleted
  <2> QED BY <2>2, <2>4, <2>5
<1> HIDE DEF v, row
<1>5. \A u \in DOMAIN newV'[j] : \/ u \in DOMAIN newV[j] /\ newV'[j][u].name = newV[j][u].name
                                 \/ newV'[j][u].name = Head(todo[j])
  BY <1>1, <1>2, <1>4 DEF With
<1>6. Visits(j)'
  BY <1>2, <1>5, VisitsOn DEF Ingests
<1>7. EdgesBehind(j)' /\ Applied(j)'
  BY <1>2, <1>3 DEF EdgesBehind, Applied
<1>8. Resolved(j)'
  <2>1. \A m \in Names : vid[j][m] \in Nat /\ vid[j][m] <= lastId
    BY DEF Inv, Typed, Ids
  <2>2. ASSUME NEW m \in Names, NEW u \in Nat, vid[j][m] = u, u # 0 PROVE Bears(u, m)'
    BY <1>2, <1>3, <2>1, <2>2, BearsStays DEF Ingests, Resolved
  <2>3. \A m \in Names : vid[j][m] # 0 => Bears(vid[j][m], m)'
    BY <1>2, <2>1, <2>2
  <2>4. vid'[j][n] # 0
    BY <1>2, <1>4 DEF v
  <2>5. \A m \in Concerned(j)' : vid'[j][m] # 0 \/ m \in Elements(todo'[j])
    <3>1. pc[j] \notin {"repo", "insertRepo"} \cup Ended /\ Ascending(todo[j]) /\ Resolved(j)
      BY <1>2 DEF Ended, Ingests, Visits
    <3> QED BY <1>1, <1>2, <2>4, <3>1, ResolvedOn
  <2> QED BY <1>2, <2>3, <2>5 DEF Ingests, Resolved
<1> QED BY <1>6, <1>7, <1>8 DEF Ingests

LEMMA ResolvedKept ==
  ASSUME Inv, NamesStay, NEW j \in Jobs, Resolved(j), task' = task, vid'[j] = vid[j],
         \/ pc'[j] \in {"repo", "insertRepo"} \cup Ended
         \/ pc[j] \notin {"repo", "insertRepo"} \cup Ended /\ todo'[j] = todo[j]
  PROVE  Resolved(j)'
<1>1. \A m \in Names : vid[j][m] \in Nat /\ vid[j][m] <= lastId
  BY DEF Inv, Typed, Ids
<1>2. ASSUME NEW m \in Names, NEW u \in Nat, vid[j][m] = u, u # 0 PROVE Bears(u, m)'
  BY <1>1, <1>2, BearsStays DEF Resolved
<1>3. \A m \in Names : vid[j][m] # 0 => Bears(vid[j][m], m)'
  BY <1>1, <1>2
<1>4. Concerned(j)' = Concerned(j)
  BY DEF Concerned
<1> QED BY <1>3, <1>4 DEF Resolved

(* The end of a transaction.                                                *)
LEMMA EndIngests ==
  ASSUME Inv, SbomInv, NamesStay, NEW j \in Jobs, Submits(j), task' = task, pc'[j] \in Ended,
         DOMAIN newV'[j] = {}, DOMAIN newE'[j] = {}, todo'[j] = todo[j], vid'[j] = vid[j]
  PROVE  Ingests(j)'
<1>1. Ingests(j)
  BY DEF SbomInv
<1>2. Visits(j)'
  BY <1>1 DEF Ingests, Visits
<1>3. EdgesBehind(j)' /\ Applied(j)'
  BY DEF EdgesBehind, Applied, Ended
<1>4. Resolved(j)'
  BY <1>1, ResolvedKept DEF Ingests
<1> QED BY <1>2, <1>3, <1>4 DEF Ingests

LEMMA FailIngests ==
  ASSUME Inv, SbomInv, NEW j \in Jobs, Submits(j), Fail(j)
  PROVE  Ingests(j)'
<1>1. /\ task' = task /\ pc'[j] = "failed" /\ DOMAIN newV'[j] = {} /\ DOMAIN newE'[j] = {}
      /\ todo' = todo /\ vid' = vid
  BY NoRows DEF Fail, Goto, Inv, Typed
<1> QED BY <1>1, FailNames, EndIngests DEF Ended

LEMMA CommitIngests ==
  ASSUME Inv, SbomInv, NEW j \in Jobs, Submits(j), Commit(j)
  PROVE  Ingests(j)'
<1>1. task[j].kind = "sbom" /\ pc[j] # "commit"
  BY DEF Submits, Inv, Local, Phase
<1>2. /\ task' = task /\ pc'[j] = "done" /\ DOMAIN newV'[j] = {} /\ DOMAIN newE'[j] = {}
      /\ todo'[j] = todo[j] /\ vid' = vid
  BY <1>1, NoRows DEF Commit, Goto, Inv, Typed
<1> QED BY <1>2, StepNames, EndIngests DEF Step, Ended

(* A statement starts.                                                      *)
LEMMA StatementIngests ==
  ASSUME Inv, SbomInv, NEW j \in Jobs, Submits(j), UNCHANGED <<task, graph, todo, vid, writes>>,
         pc'[j] \in {"delete", "root", "nested"}, pc[j] \in {"packages", "delete", "root"},
         EdgesBehind(j)', Applied(j)'
  PROVE  Ingests(j)'
<1>1. NamesStay /\ newV' = newV
  BY NothingWritten DEF graph, writes
<1>2. Ingests(j)
  BY DEF SbomInv
<1>3. Resolved(j)'
  BY <1>1, <1>2, ResolvedKept DEF Ingests, Ended
<1>4. Visits(j)'
  BY <1>1, <1>2 DEF Ingests, Visits
<1> QED BY <1>3, <1>4 DEF Ingests

LEMMA SamePlan ==
  ASSUME NEW j \in Jobs, task' = task, vid' = vid
  PROVE  /\ Source(j)' = Source(j) /\ RootEdges(j)' = RootEdges(j)
         /\ NestedEdges(j)' = NestedEdges(j) /\ Planned(j)' = Planned(j)
<1>1. Source(j)' = Source(j) /\ Planned(j)' = Planned(j)
  BY DEF Source, Planned, Ends, Plan
<1> QED BY <1>1 DEF RootEdges, NestedEdges

LEMMA DeleteRootEdgesIngests ==
  ASSUME Inv, SbomInv, NEW j \in Jobs, Submits(j), DeleteRootEdges(j)
  PROVE  Ingests(j)'
<1>1. /\ pc[j] = "packages" /\ pc'[j] = "delete" /\ todo[j] = <<>> /\ task[j].kind = "sbom"
      /\ UNCHANGED <<task, graph, todo, vid, writes>> /\ newE' = newE
  BY DEF DeleteRootEdges, Goto, writes, Inv, Typed
<1>2. DOMAIN newE[j] = {}
  BY <1>1 DEF Inv, Local, Written
<1> QED BY <1>1, <1>2, StatementIngests DEF EdgesBehind, Applied

LEMMA InsertRootEdgesIngests ==
  ASSUME Inv, SbomInv, NEW j \in Jobs, Submits(j), InsertRootEdges(j)
  PROVE  Ingests(j)'
<1>1. /\ pc[j] = "delete" /\ pc'[j] = "root" /\ rows'[j] = RootEdges(j) /\ newE' = newE
      /\ UNCHANGED <<task, graph, todo, vid, writes>> /\ Ingests(j)
  BY DEF InsertRootEdges, Goto, writes, Inv, Typed, SbomInv
<1>2. Source(j)' = Source(j) /\ RootEdges(j)' = RootEdges(j)
  BY <1>1, SamePlan
<1>3. EdgesBehind(j)'
  BY <1>1, <1>2 DEF Ingests, EdgesBehind
<1>4. Applied(j)'
  BY <1>1, <1>2 DEF Ingests, Applied
<1> QED BY <1>1, <1>3, <1>4, StatementIngests

LEMMA UpsertNestedEdgesIngests ==
  ASSUME Inv, SbomInv, NEW j \in Jobs, Submits(j), UpsertNestedEdges(j)
  PROVE  Ingests(j)'
<1>1. /\ pc[j] = "root" /\ pc'[j] = "nested" /\ rows[j] = {} /\ rows'[j] = NestedEdges(j)
      /\ newE' = newE /\ UNCHANGED <<task, graph, todo, vid, writes>> /\ Ingests(j)
  BY DEF UpsertNestedEdges, Goto, writes, Inv, Typed, SbomInv
<1>2. /\ Source(j)' = Source(j) /\ NestedEdges(j)' = NestedEdges(j) /\ Planned(j)' = Planned(j)
  BY <1>1, SamePlan
<1>3. EdgesBehind(j)'
  BY <1>1, <1>2 DEF Ingests, EdgesBehind
<1>4. Applied(j)'
  <2>1. \A k \in RootEdges(j) : IsVerified(j, k)
    BY <1>1 DEF Ingests, Applied
  <2>2. \A k \in Planned(j) \ NestedEdges(j) : k \in RootEdges(j)
    BY DEF NestedEdges, RootEdges
  <2> QED BY <1>1, <1>2, <2>1, <2>2 DEF Ingests, Applied, IsVerified
<1> QED BY <1>1, <1>3, <1>4, StatementIngests

(* A statement goes on.                                                     *)
LEMMA PassIngests ==
  ASSUME Inv, SbomInv, NEW j \in Jobs, Submits(j), NEW k \in Nat \X Nat, Pass(j, k),
         pc[j] \in {"delete", "root", "nested"}, EdgesBehind(j)', Applied(j)'
  PROVE  Ingests(j)'
<1>1. /\ task' = task /\ vid' = vid /\ newV' = newV /\ vertices' = vertices
      /\ pc'[j] = pc[j] /\ todo'[j] = todo[j]
  BY RowPassed DEF Statements, graph
<1>2. NamesStay /\ Ingests(j)
  BY <1>1, NothingWritten DEF SbomInv
<1>3. Resolved(j)'
  BY <1>1, <1>2, ResolvedKept DEF Ingests, Ended
<1>4. Visits(j)'
  BY <1>1, <1>2 DEF Ingests, Visits
<1> QED BY <1>3, <1>4 DEF Ingests

LEMMA DeleteRowIngests ==
  ASSUME Inv, SbomInv, NEW j \in Jobs, Submits(j), DeleteRow(j)
  PROVE  Ingests(j)'
<1> DEFINE k == NextRow(j)
           gone == [is |-> "gone"]
<1>1. /\ pc[j] = "delete" /\ rows[j] # {} /\ Pass(j, k) /\ newE'[j] = With(newE[j], k, gone)
      /\ pc[j] \in Statements /\ Ingests(j)
  BY DEF DeleteRow, WriteE, Statements, Submits, SbomInv, Inv, Typed, Local, Phase
<1>2. k \in Nat \X Nat /\ k[1] = Source(j)
  BY <1>1, NextRowVisited DEF Inv, Local, RowsFit
<1> HIDE DEF k, gone
<1>3. task' = task /\ vid' = vid /\ pc'[j] = "delete" /\ todo'[j] = todo[j]
  BY <1>1, <1>2, RowPassed
<1>4. Source(j)' = Source(j)
  BY <1>3, SamePlan
<1>5. EdgesBehind(j)'
  BY <1>1, <1>2, <1>4 DEF Ingests, EdgesBehind, With
<1>6. Applied(j)'
  BY <1>1, <1>3 DEF Ingests, Applied
<1> QED BY <1>1, <1>2, <1>5, <1>6, PassIngests

(* Nested edges are visited in the order of their keys.                     *)
LEMMA NextRowFirst ==
  ASSUME Inv, NEW j \in Jobs, pc[j] # "root", rows[j] # {}
  PROVE  \A l \in rows[j] : Before(NextRow(j), l)
<1>1. \E k \in rows[j] : \A l \in rows[j] : Before(k, l)
  BY LeastKey DEF Inv, Typed
<1>2. \E k \in rows[j] : \A l \in rows[j] :
        IF pc[j] = "root" THEN Position(j, k) <= Position(j, l) ELSE Before(k, l)
  BY <1>1
<1>3. \A l \in rows[j] : IF pc[j] = "root" THEN Position(j, NextRow(j)) <= Position(j, l)
                         ELSE Before(NextRow(j), l)
  BY <1>2 DEF NextRow
<1> QED BY <1>3

LEMMA WriteRowIngests ==
  ASSUME Inv, SbomInv, NEW j \in Jobs, Submits(j), WriteRow(j), ~Fail(j)
  PROVE  Ingests(j)'
<1>0. PICK k \in Nat \X Nat : k = NextRow(j)
  BY NextRowVisited DEF WriteRow
<1> DEFINE row == Upserted(j, k)
<1>1. /\ pc[j] \in {"root", "nested"} /\ rows[j] # {} /\ Pass(j, k)
      /\ newE'[j] = With(newE[j], k, row) /\ row.is = "verified_sbom"
      /\ pc[j] \in Statements /\ Ingests(j)
  BY <1>0 DEF WriteRow, WriteE, Statements, Submits, SbomInv, Inv, Typed, Local, Phase, Upserted
<1>2. /\ k \in Nat \X Nat /\ k \in rows[j]
      /\ pc[j] = "nested" => \A l \in rows[j] : Before(k, l)
  BY <1>0, <1>1, NextRowVisited, NextRowFirst
<1> HIDE DEF row
<1>3. /\ task' = task /\ vid' = vid /\ pc'[j] = pc[j] /\ todo'[j] = todo[j]
      /\ rows'[j] = rows[j] \ {k}
  BY <1>1, <1>2, RowPassed
<1>4. /\ Source(j)' = Source(j) /\ RootEdges(j)' = RootEdges(j)
      /\ NestedEdges(j)' = NestedEdges(j) /\ Planned(j)' = Planned(j)
  BY <1>3, SamePlan
<1>5. pc[j] = "root" => k[1] = Source(j)
  BY <1>2 DEF Inv, Local, RowsFit, RootEdges
<1>6. /\ DOMAIN newE'[j] = DOMAIN newE[j] \cup {k} /\ newE'[j][k].is = "verified_sbom"
      /\ \A l \in DOMAIN newE[j] \ {k} : newE'[j][l] = newE[j][l]
  <2>1. /\ DOMAIN With(newE[j], k, row) = DOMAIN newE[j] \cup {k}
        /\ With(newE[j], k, row)[k] = row
        /\ \A l \in DOMAIN newE[j] \ {k} : With(newE[j], k, row)[l] = newE[j][l]
    BY DEF With
  <2> QED BY <1>1, <2>1
<1>7. EdgesBehind(j)'
  <2>1. \A l \in DOMAIN newE[j] : l[1] = Source(j) \/ (pc[j] = "nested" /\ \A m \in rows[j] : Before(l, m) /\ l # m)
    BY <1>1 DEF Ingests, EdgesBehind
  <2>2. k[1] = Source(j) \/ (pc[j] = "nested" /\ \A m \in rows'[j] : Before(k, m) /\ k # m)
    BY <1>1, <1>2, <1>3, <1>5
  <2> QED BY <1>3, <1>4, <1>6, <2>1, <2>2 DEF EdgesBehind
<1>8. Applied(j)'
  <2>1. \A l : IsVerified(j, l) => IsVerified(j, l)'
    BY <1>6 DEF IsVerified
  <2>2. IsVerified(j, k)'
    BY <1>6, <1>2 DEF IsVerified
  <2> QED BY <1>1, <1>3, <1>4, <2>1, <2>2 DEF Ingests, Applied
<1> QED BY <1>1, <1>2, <1>7, <1>8, PassIngests

LEMMA StepIngests ==
  ASSUME Inv, SbomInv, NEW j \in Jobs, Submits(j), Step(j)
  PROVE  Ingests(j)'
<1>1. task[j].kind = "sbom" /\ pc[j] \notin {"promote", "updateRepo", "commit", "absorb", "absorbing", "deleteExternal"}
  BY DEF Submits, Inv, Local, Phase
<1>2. CASE Fail(j)
  BY <1>2, FailIngests
<1>3. CASE ~Fail(j)
  <2>1. ~UpsertRepo(j) /\ ~Promote(j) /\ ~UpdateRepo(j) /\ ~LookupExternal(j) /\ ~NextStatement(j)
        /\ ~MoveRow(j) /\ ~DeleteStatement(j) /\ ~DeleteExternal(j) /\ ~EndCrawl(j)
        /\ ~InsertVertexRaises(j)
    BY <1>1, <1>3 DEF UpsertRepo, Promote, UpdateRepo, LookupExternal, NextStatement, MoveRow, Moves,
       DeleteStatement, DeleteExternal, EndCrawl, InsertVertexRaises
  <2> QED BY <1>3, <2>1, FindRepoIngests, InsertVertexIngests, VisitPackageIngests,
       UpdatePackageIngests, DeleteRootEdgesIngests, InsertRootEdgesIngests,
       UpsertNestedEdgesIngests, DeleteRowIngests, WriteRowIngests, CommitIngests DEF Step
<1> QED BY <1>2, <1>3

LEMMA NextIngests == Inv /\ SbomInv /\ [Next]_vars => SbomInv'
<1> SUFFICES ASSUME Inv, SbomInv, [Next]_vars PROVE SbomInv'
  OBVIOUS
<1>1. ASSUME NEW j \in Jobs, Frame(j), NamesStay, Submits(j) => Ingests(j)'
      PROVE  SbomInv'
  <2>1. Positive'
    BY <1>1, PositiveStays DEF SbomInv
  <2>2. task' = task
    BY <1>1 DEF Frame
  <2>3. ASSUME NEW i \in Jobs \ {j}, Submits(i) PROVE Submitted(i)' /\ Ingests(i)'
    BY <1>1, <2>3, OthersIngest DEF SbomInv
  <2>4. Submitted(j) => Submitted(j)'
    BY <2>2 DEF Submitted, Plan, Concerned
  <2>5. \A i \in Jobs : Submits(i)' <=> Submits(i)
    BY <2>2 DEF Submits
  <2> QED BY <1>1, <2>1, <2>3, <2>4, <2>5 DEF SbomInv
<1>2. ASSUME NEW j \in Jobs, Step(j) PROVE SbomInv'
  BY <1>1, <1>2, StepFrames, StepNames, StepIngests
<1>3. ASSUME NEW j \in Jobs, ResolveDeadlock(j) PROVE SbomInv'
  BY <1>1, <1>3, FailFrames, FailNames, FailIngests DEF ResolveDeadlock
<1>4. CASE UNCHANGED vars
  <2>1. /\ task' = task /\ vertices' = vertices /\ edges' = edges /\ pc' = pc /\ todo' = todo
        /\ rows' = rows /\ vid' = vid /\ newV' = newV /\ newE' = newE
    BY <1>4 DEF vars, graph, writes
  <2>2. CASE Jobs = {}
    BY <2>1, <2>2 DEF SbomInv, Positive
  <2>3. CASE Jobs # {}
    <3>1. PICK j \in Jobs : TRUE
      BY <2>3
    <3>2. Frame(j) /\ NamesStay
      BY <2>1, NothingWritten DEF Frame
    <3>3. ASSUME Submits(j), Ingests(j) PROVE Ingests(j)'
      <4>1. \A v, m : Bears(v, m) => Bears(v, m)'
        BY <2>1 DEF Bears
      <4>2. Resolved(j)' /\ Visits(j)'
        BY <2>1, <3>3, <4>1 DEF Ingests, Resolved, Visits, Concerned
      <4>3. EdgesBehind(j)' /\ Applied(j)'
        <5>1. /\ Source(j)' = Source(j) /\ RootEdges(j)' = RootEdges(j)
              /\ NestedEdges(j)' = NestedEdges(j) /\ Planned(j)' = Planned(j)
          BY <2>1, SamePlan
        <5> QED BY <2>1, <3>3, <5>1 DEF Ingests, EdgesBehind, Applied, IsVerified
      <4> QED BY <4>2, <4>3 DEF Ingests
    <3> QED BY <1>1, <3>2, <3>3 DEF SbomInv
  <2> QED BY <2>2, <2>3
<1> QED BY <1>2, <1>3, <1>4 DEF Next

-----------------------------------------------------------------------------
(* Whom SBOM jobs wait for.                                                 *)

(* A bounded set of keys has a greatest one, and one of names a last one.   *)
LEMMA GreatestKey ==
  ASSUME NEW n \in Nat, NEW K, K \subseteq (0..n) \X (0..n), K # {}
  PROVE  \E k \in K : \A l \in K : Before(l, k)
<1> DEFINE firsts == {k[1] : k \in K}
<1>1. PICK a \in firsts : \A b \in firsts : b <= a
  <2>1. firsts \subseteq 0..n /\ firsts # {}
    OBVIOUS
  <2> HIDE DEF firsts
  <2> QED BY <2>1, GreatestElement
<1> DEFINE seconds == {k[2] : k \in {l \in K : l[1] = a}}
<1>2. PICK c \in seconds : \A d \in seconds : d <= c
  <2>1. seconds \subseteq 0..n /\ seconds # {}
    OBVIOUS
  <2> HIDE DEF seconds
  <2> QED BY <2>1, GreatestElement
<1>3. PICK k \in K : k[1] = a /\ k[2] = c
  OBVIOUS
<1>4. ASSUME NEW l \in K PROVE Before(l, k)
  <2>1. k[1] \in 0..n /\ l[1] \in 0..n /\ k[2] \in 0..n /\ l[2] \in 0..n
    BY <1>3
  <2>2. l[1] <= k[1] /\ (l[1] = k[1] => l[2] <= k[2])
    BY <1>1, <1>2, <1>3
  <2> QED BY <2>1, <2>2 DEF Before
<1> QED BY <1>3, <1>4

LEMMA LastName ==
  ASSUME NEW N, N \subseteq Names, N # {}
  PROVE  \E m \in N : \A n \in N : ~Precedes(m, n)
<1> DEFINE ranks == {r \in DOMAIN Order : Order[r] \in N}
<1>1. /\ Order \in Seq(Names) /\ Names \subseteq Elements(Order)
      /\ \A i, h \in DOMAIN Order : Order[i] = Order[h] => i = h
  BY GraphConstants
<1>2. Len(Order) \in Nat /\ DOMAIN Order = 1..Len(Order)
  BY <1>1
<1>3. PICK r \in ranks : \A h \in ranks : h <= r
  <2>1. ranks \subseteq 0..Len(Order) /\ ranks # {}
    BY <1>1, <1>2 DEF Elements
  <2> HIDE DEF ranks
  <2> QED BY <1>2, <2>1, GreatestElement
<1>4. ASSUME NEW n \in N, Precedes(Order[r], n) PROVE FALSE
  <2>1. PICK i, h \in DOMAIN Order : i < h /\ Order[i] = Order[r] /\ Order[h] = n
    BY <1>4 DEF Precedes
  <2>2. i = r /\ h \in ranks
    BY <1>1, <1>3, <2>1
  <2> QED BY <1>2, <1>3, <2>1, <2>2
<1> QED BY <1>3, <1>4

(* Jobs that wait for each other in a circle, none around a row of a        *)
(* submitting repository.                                                   *)
NoRoots(S) ==
  \A i, j \in S : i \in Holders(j) =>
    IF pc[j] \in Statements THEN NextRow(j)[1] # Source(i) ELSE Name(j) # task[i].repo

LEMMA WaitsForNested ==
  ASSUME Inv, SbomInv, NEW i \in Jobs, NEW j \in Jobs, Submits(i), Submits(j),
         i \in Holders(j), pc[j] \in Statements, NextRow(j)[1] # Source(i)
  PROVE  /\ rows[j] # {} /\ pc[i] = "nested"
         /\ \A l \in rows[i] : Before(NextRow(j), l) /\ NextRow(j) # l
<1>1. ~Moves(j)
  BY DEF Moves, Submits, Inv, Local, Phase
<1>2. Touched(j) \cap DOMAIN newE[i] # {} \/ \E v \in Refers(j) : v \in DOMAIN newV[i] /\ newV[i][v].is = "gone"
  BY DEF Holders, Statements
<1>3. \A v \in DOMAIN newV[i] : newV[i][v].is # "gone"
  BY DEF Submits, Inv, Local, Phase, Written
<1>4. rows[j] # {} /\ NextRow(j) \in DOMAIN newE[i]
  BY <1>1, <1>2, <1>3 DEF Touched
<1>5. EdgesBehind(i)
  BY DEF SbomInv, Ingests
<1> QED BY <1>4, <1>5 DEF EdgesBehind

LEMMA WaitsForLater ==
  ASSUME Inv, SbomInv, NEW i \in Jobs, NEW j \in Jobs, Submits(i), Submits(j),
         i \in Holders(j), pc[j] \notin Statements, pc[i] \notin Statements, Holders(i) # {},
         Name(j) # task[i].repo
  PROVE  Name(i) \in Names /\ Precedes(Name(j), Name(i))
<1>1. \A h \in Jobs : Submits(h) => pc[h] \notin {"promote", "updateRepo", "deleteExternal"}
  BY DEF Submits, Inv, Local, Phase
<1>2. /\ pc[i] \in {"insertRepo", "insertPackage", "updatePackage"}
      /\ pc[j] \in {"insertRepo", "insertPackage", "updatePackage"}
  BY <1>1 DEF Holders
<1>3. PICK v \in DOMAIN newV[i] : newV[i][v].name = Name(j)
  <2>1. CASE pc[j] \in {"insertRepo", "insertPackage"}
    BY <2>1 DEF Holders, Statements
  <2>2. CASE pc[j] = "updatePackage"
    <3>1. vid[j][Name(j)] \in DOMAIN newV[i]
      BY <2>2 DEF Holders, Statements
    <3>2. vid[j][Name(j)] # 0
      BY <3>1 DEF SbomInv, Positive
    <3>3. Name(j) = Head(todo[j]) /\ todo[j] \in Seq(Names) /\ todo[j] # <<>>
      BY <2>2 DEF Name, Inv, Typed, Local, Phase
    <3>4. Name(j) \in Names
      BY <3>3
    <3>5. Bears(vid[j][Name(j)], Name(j))
      BY <3>2, <3>4 DEF SbomInv, Ingests, Resolved
    <3> QED BY <3>1, <3>5 DEF Bears
  <2> QED BY <1>2, <2>1, <2>2
<1>4. \A h \in DOMAIN todo[i] : Precedes(Name(j), todo[i][h])
  <2>1. Visits(i)
    BY DEF SbomInv, Ingests
  <2> QED BY <1>3, <2>1 DEF Visits
<1>5. pc[i] # "insertRepo"
  BY <1>3 DEF Inv, Local, Written
<1>6. Name(i) = Head(todo[i]) /\ todo[i] \in Seq(Names) /\ todo[i] # <<>>
  BY <1>2, <1>5 DEF Name, Inv, Typed, Local, Phase
<1>7. 1 \in DOMAIN todo[i] /\ Head(todo[i]) = todo[i][1] /\ Head(todo[i]) \in Names
  BY <1>6, HeadTail
<1> QED BY <1>4, <1>6, <1>7

LEMMA OneIsARoot ==
  ASSUME Inv, SbomInv, NEW S \in SUBSET Jobs, Deadlocked(S), \A j \in S : Submits(j)
  PROVE  ~NoRoots(S)
<1> SUFFICES ASSUME NoRoots(S) PROVE FALSE
  OBVIOUS
<1>1. S # {} /\ \A j \in S : \E i \in S : i \in Holders(j)
  BY DEF Deadlocked
<1>2. CASE \E j \in S : pc[j] \in Statements
  <2> DEFINE nested == {i \in S : pc[i] = "nested"}
             keys == {NextRow(i) : i \in nested}
  <2>1. ASSUME NEW j \in S, pc[j] \in Statements
        PROVE  /\ rows[j] # {}
               /\ \E i \in nested : \A l \in rows[i] : Before(NextRow(j), l) /\ NextRow(j) # l
    <3>1. PICK i \in S : i \in Holders(j)
      BY <1>1
    <3>2. NextRow(j)[1] # Source(i)
      BY <2>1, <3>1 DEF NoRoots
    <3> QED BY <2>1, <3>1, <3>2, WaitsForNested
  <2>2. \A i \in nested : i \in S /\ pc[i] \in Statements
    BY DEF Statements
  <2>3. \A i \in nested : rows[i] # {}
    BY <2>1, <2>2
  <2>4. ASSUME NEW i \in nested
        PROVE  NextRow(i) \in rows[i] /\ NextRow(i) \in (0..lastId) \X (0..lastId)
    <3>1. NextRow(i) \in rows[i] /\ i \in Jobs /\ pc[i] = "nested"
      BY <2>3, NextRowVisited
    <3>2. rows[i] \subseteq NestedEdges(i)
      BY <3>1 DEF SbomInv, Ingests, Applied
    <3>3. PICK q \in Plan(i) : NextRow(i) = Ends(i, q)
      BY <3>1, <3>2 DEF NestedEdges, Planned
    <3>4. q[2] \in Names /\ q[3] \in Names
      <4>1. q[2] \in Concerned(i) /\ q[3] \in Concerned(i)
        BY <3>1 DEF SbomInv, Submitted
      <4>2. \A m \in Concerned(i) : m \in Names
        BY <3>1, TaskFields DEF Concerned, Elements, Inv, Typed
      <4> QED BY <4>1, <4>2
    <3>5. \A m \in Names : vid[i][m] \in 0..lastId
      BY <3>1 DEF Inv, Typed, Ids
    <3> QED BY <3>1, <3>3, <3>4, <3>5 DEF Ends
  <2>5. keys # {} /\ keys \subseteq (0..lastId) \X (0..lastId)
    BY <1>2, <2>1, <2>4
  <2>6. ASSUME NEW k \in keys PROVE \E l \in keys : Before(k, l) /\ k # l
    <3>1. PICK j \in nested : k = NextRow(j)
      OBVIOUS
    <3>2. PICK i \in nested : \A l \in rows[i] : Before(k, l) /\ k # l
      BY <2>1, <2>2, <3>1
    <3> QED BY <2>4, <3>2
  <2>7. PICK k \in keys : \A l \in keys : Before(l, k)
    <3>1. lastId \in Nat
      BY DEF Inv, Typed
    <3> HIDE DEF keys
    <3> QED BY <2>5, <3>1, GreatestKey
  <2>8. PICK l \in keys : Before(k, l) /\ k # l
    BY <2>6
  <2>9. Before(l, k) /\ k \in (0..lastId) \X (0..lastId) /\ l \in (0..lastId) \X (0..lastId)
    BY <2>5, <2>7
  <2> HIDE DEF keys
  <2> QED BY <2>8, <2>9 DEF Before
<1>3. CASE \A j \in S : pc[j] \notin Statements
  <2> DEFINE names == {Name(j) : j \in {i \in S : Name(i) \in Names}}
  <2>1. ASSUME NEW j \in S
        PROVE  \E i \in S : Name(i) \in Names /\ Precedes(Name(j), Name(i))
    <3>1. PICK i \in S : i \in Holders(j)
      BY <1>1
    <3>2. Holders(i) # {} /\ Name(j) # task[i].repo
      BY <1>1, <1>3, <3>1 DEF NoRoots
    <3> QED BY <1>3, <3>1, <3>2, WaitsForLater
  <2>2. names \subseteq Names /\ names # {} /\ \A m \in names : \E n \in names : Precedes(m, n)
    BY <1>1, <2>1
  <2> HIDE DEF names
  <2> QED BY <2>2, LastName
<1> QED BY <1>2, <1>3

(* Documents take rows in one order, so that SBOM jobs, however many and    *)
(* whatever else runs, wait for each other in a circle only around a row of *)
(* a submitting repository (_upsert_sbom_vertices,                          *)
(* _upsert_depends_on_edges).                                               *)
THEOREM OnlyRootsCanDeadlock == Spec => []OnlyRootsDeadlock
<1>1. Inv /\ SbomInv => OnlyRootsDeadlock
  BY OneIsARoot DEF OnlyRootsDeadlock, NoRoots, Submits
<1>2. Init => Inv /\ SbomInv
  BY InitInv, InitIngests
<1>3. (Inv /\ SbomInv) /\ [Next]_vars => (Inv /\ SbomInv)'
  BY NextInv, NextIngests
<1> QED BY <1>1, <1>2, <1>3, PTL DEF Spec

-----------------------------------------------------------------------------
(* What SBOM jobs commit.                                                   *)

(* A declared pair was planned, so visited, so verified; both its ends bear *)
(* the names they were resolved from.                                       *)
LEMMA CommitApplies ==
  ASSUME Inv, SbomInv, NEW j \in Jobs, Submits(j), Commit(j), pc[j] = "nested",
         NEW p \in task[j].declared
  PROVE  \E k \in DOMAIN edges' :
           /\ {k[1], k[2]} \subseteq DOMAIN vertices'
           /\ vertices'[k[1]].name = p[1] /\ vertices'[k[2]].name = p[2]
           /\ edges'[k].is = "verified_sbom"
<1>1. /\ vertices' = V(j) /\ edges' = E(j) /\ rows[j] = {} /\ Submitted(j) /\ Ingests(j)
  BY DEF Commit, Committing, SbomInv
<1>2. PICK q \in Plan(j) : q[2] = p[1] /\ q[3] = p[2] /\ p[1] # p[2]
  BY <1>1 DEF Submitted
<1>3. p[1] \in Concerned(j) /\ p[2] \in Concerned(j) /\ Concerned(j) \subseteq Names
  <2>1. p[1] \in Concerned(j) /\ p[2] \in Concerned(j)
    BY <1>1, <1>2 DEF Submitted
  <2>2. Concerned(j) \subseteq Names
    BY TaskFields DEF Concerned, Elements, Inv, Typed
  <2> QED BY <2>1, <2>2
<1>4. todo[j] = <<>> /\ Elements(todo[j]) = {}
  BY <1>1 DEF Ingests, Applied, Elements
<1>5. vid[j][p[1]] # 0 /\ vid[j][p[2]] # 0 /\ vid[j][p[1]] # vid[j][p[2]]
  BY <1>1, <1>2, <1>3, <1>4 DEF Ingests, Resolved, Ended
<1> DEFINE k == <<vid[j][p[1]], vid[j][p[2]]>>
<1>6. k \in Planned(j)
  <2>1. Ends(j, q) = k
    BY <1>2 DEF Ends
  <2>2. Ends(j, q)[1] # Ends(j, q)[2]
    BY <1>5, <2>1
  <2> HIDE DEF k
  <2> QED BY <2>1, <2>2 DEF Planned
<1>7. k \in DOMAIN newE[j] /\ newE[j][k].is = "verified_sbom"
  <2> HIDE DEF k
  <2> QED BY <1>1, <1>6 DEF Ingests, Applied, IsVerified
<1>8. k \in DOMAIN E(j) /\ E(j)[k].is = "verified_sbom"
  <2> HIDE DEF k
  <2> QED BY <1>7 DEF E, Merged
<1>9. vid[j][p[1]] \in DOMAIN V(j) /\ vid[j][p[2]] \in DOMAIN V(j)
  <2>1. k[1] \in DOMAIN V(j) /\ k[2] \in DOMAIN V(j)
    <3> HIDE DEF k
    <3> QED BY <1>8 DEF Inv, Tables, ForeignKeys
  <2> QED BY <2>1
<1>10. Bears(vid[j][p[1]], p[1]) /\ Bears(vid[j][p[2]], p[2])
  BY <1>1, <1>3, <1>5 DEF Ingests, Resolved
<1>11. V(j)[vid[j][p[1]]].name = p[1] /\ V(j)[vid[j][p[2]]].name = p[2]
  BY <1>9, <1>10, SeenBears
<1>12. k[1] = vid[j][p[1]] /\ k[2] = vid[j][p[2]]
  OBVIOUS
<1> HIDE DEF k
<1> QED BY <1>1, <1>8, <1>9, <1>11, <1>12

(* Every edge that the submitted document declares is in the graph, between *)
(* the vertices of its names and verified, when the job commits, though it  *)
(* reads the artifact that another submission of equal hash may have        *)
(* written and though crawls promote and absorb what they can meanwhile     *)
(* (parse_sbom_and_persist_graph, store_artifact).                          *)
THEOREM DeclaredIsApplied == Spec => SbomIsApplied
<1> DEFINE Applies(j) ==
             pc[j] = "nested" /\ pc'[j] = "done" =>
               \A p \in task[j].declared : \E k \in DOMAIN edges' :
                 /\ {k[1], k[2]} \subseteq DOMAIN vertices'
                 /\ vertices'[k[1]].name = p[1] /\ vertices'[k[2]].name = p[2]
                 /\ edges'[k].is = "verified_sbom"
<1>1. Inv /\ SbomInv /\ [Next]_vars => \A j \in Jobs : Applies(j)
  <2> SUFFICES ASSUME Inv, SbomInv, [Next]_vars, NEW j \in Jobs, pc[j] = "nested", pc'[j] = "done"
               PROVE  Applies(j)
    OBVIOUS
  <2>1. Submits(j)
    BY DEF Submits, Inv, Local, Phase
  <2>2. Commit(j)
    <3>1. ASSUME NEW i \in Jobs, Fail(i) PROVE FALSE
      BY <3>1 DEF Fail, Goto, Inv, Typed
    <3>2. ~UNCHANGED vars
      BY DEF vars
    <3>3. PICK i \in Jobs : Step(i)
      BY <3>1, <3>2 DEF Next, ResolveDeadlock
    <3>4. i = j
      BY <3>3, StepFrames DEF Frame
    <3>5. CASE WriteRow(j)
      <4>1. Pass(j, NextRow(j))
        BY <3>1, <3>5 DEF WriteRow
      <4> QED BY <4>1 DEF Pass
    <3> QED BY <3>1, <3>3, <3>4, <3>5 DEF Step, FindRepo, UpsertRepo, InsertVertex, InsertVertexRaises,
         Promote, UpdateRepo, VisitPackage, UpdatePackage, DeleteRootEdges, InsertRootEdges,
         UpsertNestedEdges, DeleteRow, LookupExternal, NextStatement, MoveRow, Moves,
         DeleteStatement, DeleteExternal, EndCrawl
  <2> QED BY <2>1, <2>2, CommitApplies
<1>2. Init => Inv /\ SbomInv
  BY InitInv, InitIngests
<1>3. (Inv /\ SbomInv) /\ [Next]_vars => (Inv /\ SbomInv)'
  BY NextInv, NextIngests
<1>4. (Inv /\ SbomInv) /\ [Next]_vars => \A j \in Jobs : Applies(j)
  BY <1>1
<1> QED BY <1>2, <1>3, <1>4, PTL DEF Spec, SbomIsApplied

-----------------------------------------------------------------------------
(* Absorptions.                                                             *)

(* The edge l of the external vertex, as an edge of the Repo.               *)
End(j, v) == IF v = Ext(j) THEN Source(j) ELSE v
Contracted(j, l) == <<End(j, l[1]), End(j, l[2])>>
Loop(k) == k[1] = k[2]

(* An SBOM job removes the edges of its repository.                         *)
Removes(i, k) == Submits(i) /\ pc[i] \notin {"repo", "insertRepo"} /\ k[1] = Source(i)
Kept(j, l) ==
  LET k == Contracted(j, l)
  IN Loop(k) \/ k \in DOMAIN E(j) \/ \E i \in Jobs : Removes(i, k)

(* The edges a statement of an absorption has yet to visit.                 *)
Scanned(j) ==
  pc[j] = "absorbing" => \A l \in rows[j] :
    /\ stmt[j] \in {3, 4} => l[2] = Ext(j)
    /\ stmt[j] \in {5, 6} => l[1] = Ext(j)
    /\ stmt[j] \notin {4, 6} => Kept(j, l)

(* The edges it has written: those of the external vertex are gone, but for *)
(* ones between the two, and others are what these became.                  *)
Between(j) == {<<Source(j), Source(j)>>, <<Ext(j), Source(j)>>, <<Source(j), Ext(j)>>}
Taken(j) ==
  \A k \in DOMAIN newE[j] :
    \/ /\ newE[j][k].is = "gone" /\ Ext(j) \in {k[1], k[2]}
       /\ k \in DOMAIN edges => Kept(j, k)
    \/ /\ newE[j][k].is # "gone"
       /\ \/ k \in Between(j)
          \/ ~Loop(k) /\ \E l \in DOMAIN edges \cap DOMAIN newE[j] :
               newE[j][l].is = "gone" /\ Contracted(j, l) = k

Takes(j) ==
  /\ Absorbing(j) => Ext(j) # Source(j) /\ Taken(j)
  /\ pc[j] = "commit" /\ stmt[j] # 0 => DOMAIN newV[j] \subseteq {Ext(j)}
  /\ Scanned(j)
  /\ task[j].kind = "deps" => \A k \in DOMAIN newE[j] : newE[j][k].is # "gone"

AbsorbInv == \A j \in Jobs : Takes(j)

LEMMA InitTakes == Init => AbsorbInv
<1> SUFFICES ASSUME Init, NEW j \in Jobs PROVE Takes(j)
  BY DEF AbsorbInv
<1>1. DOMAIN newE[j] = {} /\ pc[j] = "repo"
  BY NoRows DEF Init
<1> QED BY <1>1 DEF Takes, Absorbing, Scanned

(* What is contracted has no end at the external vertex.                    *)
LEMMA ContractedEnds ==
  ASSUME NEW j \in Jobs, Ext(j) # Source(j), NEW l
  PROVE  /\ Contracted(j, l)[1] # Ext(j) /\ Contracted(j, l)[2] # Ext(j)
         /\ Contracted(j, l)[1] = End(j, l[1]) /\ Contracted(j, l)[2] = End(j, l[2])
BY DEF Contracted, End

(* What SBOM jobs removed, they are known to remove for good.               *)
LEMMA RemoversStay ==
  ASSUME Inv, SbomInv, [Next]_vars, NEW i \in Jobs, NEW k, Removes(i, k)
  PROVE  Removes(i, k)'
<1>1. Submits(i) /\ pc[i] \notin {"repo", "insertRepo"} /\ task[i].kind = "sbom"
  BY DEF Removes, Submits
<1>2. ASSUME NEW j \in Jobs \ {i}, Frame(j) PROVE Removes(i, k)'
  BY <1>2 DEF Frame, Removes, Submits, Source
<1>3. ASSUME Fail(i) PROVE Removes(i, k)'
  BY <1>3 DEF Fail, Goto, Removes, Submits, Source, Inv, Typed
<1>4. ASSUME Step(i) PROVE Removes(i, k)'
  <2>1. task' = task
    BY <1>4, StepFrames DEF Frame
  <2>2. pc'[i] \notin {"repo", "insertRepo"} /\ (vid'[i] = vid[i] \/ VisitPackage(i) \/ InsertVertex(i))
    BY <1>1, <1>3, <1>4 DEF Step, FindRepo, UpsertRepo, InsertVertex, InsertVertexRaises,
         Promote, UpdateRepo, VisitPackage, PackageFound, UpdatePackage, DeleteRootEdges, InsertRootEdges,
         UpsertNestedEdges, DeleteRow, WriteRow, LookupExternal, NextStatement, MoveRow,
         DeleteStatement, DeleteExternal, Commit, EndCrawl, Pass, Goto, Fail, Inv, Typed, Local, Phase
  <2>3. CASE VisitPackage(i) \/ InsertVertex(i)
    <3>1. todo[i] \in Seq(Names) /\ todo[i] # <<>> /\ Visits(i) /\ Name(i) = Head(todo[i])
      BY <1>1, <2>3 DEF VisitPackage, InsertVertex, Inv, Typed, Local, Phase, SbomInv, Ingests, Name
    <3>2. Name(i) # task[i].repo /\ Name(i) \in Names
      BY <3>1, HeadTail DEF Visits
    <3>3. vid' = vid \/ \E v : vid' = [vid EXCEPT ![i][Name(i)] = v]
      BY <2>3 DEF VisitPackage, PackageFound, InsertVertex, Resolve
    <3>4. vid'[i][task[i].repo] = vid[i][task[i].repo]
      BY <3>2, <3>3, TaskFields DEF Inv, Typed
    <3> QED BY <1>1, <2>1, <2>2, <3>4 DEF Removes, Submits, Source
  <2> QED BY <1>1, <2>1, <2>2, <2>3 DEF Removes, Submits, Source
<1>5. CASE UNCHANGED vars
  BY <1>5 DEF vars, Removes, Submits, Source
<1>6. ASSUME NEW j \in Jobs, Step(j) \/ ResolveDeadlock(j) PROVE Removes(i, k)'
  BY <1>2, <1>3, <1>4, <1>6, StepFrames, FailFrames DEF ResolveDeadlock
<1> QED BY <1>5, <1>6 DEF Next

(* An edge that an absorption dropped stays excused, while what it became   *)
(* does.                                                                    *)
LEMMA KeptStays ==
  ASSUME Inv, SbomInv, [Next]_vars, NEW j \in Jobs, NEW l, Kept(j, l),
         Ext(j)' = Ext(j), Source(j)' = Source(j), NEW k, k = Contracted(j, l),
         k \in DOMAIN E(j) => (k \in DOMAIN E(j)') \/ \E i \in Jobs : Removes(i, k)
  PROVE  Kept(j, l)'
<1>1. (Contracted(j, l))' = k
  BY DEF Contracted, End
<1>2. Loop(k) \/ k \in DOMAIN E(j) \/ \E i \in Jobs : Removes(i, k)
  BY DEF Kept
<1>3. (\E i \in Jobs : Removes(i, k)) => \E i \in Jobs : Removes(i, k)'
  BY RemoversStay
<1> QED BY <1>1, <1>2, <1>3 DEF Kept

(* What the statements select.                                              *)
LEMMA SelectsKept ==
  ASSUME NEW j \in Jobs, pc[j] = "absorbing", NEW s \in 1..6, NEW k, Selects(j, s, k)
  PROVE  /\ s \in {3, 4} => k[2] = Ext(j)
         /\ s \in {5, 6} => k[1] = Ext(j)
         /\ s \notin {4, 6} => Kept(j, k)
<1>1. Ext(j) = vid[j][Name(j)]
  BY DEF Name, Ext
<1>2. CASE s \in {1, 2}
  <2>1. k = <<Source(j), Ext(j)>> \/ k = <<Ext(j), Source(j)>>
    <3>1. CASE s = 1
      BY <1>1, <3>1 DEF Selects
    <3>2. CASE s = 2
      BY <1>1, <3>2 DEF Selects
    <3> QED BY <1>2, <3>1, <3>2
  <2>2. Loop(Contracted(j, k))
    BY <2>1 DEF Loop, Contracted, End
  <2> QED BY <1>2, <2>2 DEF Kept
<1>3. CASE s = 3
  <2>1. k[2] = Ext(j) /\ <<k[1], Source(j)>> \in DOMAIN E(j)
    BY <1>1, <1>3 DEF Selects
  <2>2. Loop(Contracted(j, k)) \/ Contracted(j, k) = <<k[1], Source(j)>>
    BY <2>1 DEF Loop, Contracted, End
  <2> QED BY <1>3, <2>1, <2>2 DEF Kept
<1>4. CASE s = 5
  <2>1. k[1] = Ext(j) /\ <<Source(j), k[2]>> \in DOMAIN E(j)
    BY <1>1, <1>4 DEF Selects
  <2>2. Loop(Contracted(j, k)) \/ Contracted(j, k) = <<Source(j), k[2]>>
    BY <2>1 DEF Loop, Contracted, End
  <2> QED BY <1>4, <2>1, <2>2 DEF Kept
<1>5. CASE s = 4
  BY <1>1, <1>5 DEF Selects
<1>6. CASE s = 6
  BY <1>1, <1>6 DEF Selects
<1>7. s \in {1, 2} \/ s = 3 \/ s = 4 \/ s = 5 \/ s = 6
  OBVIOUS
<1> QED BY <1>2, <1>3, <1>4, <1>5, <1>6, <1>7

(* An edge of the external vertex that the transaction wrote itself becomes *)
(* a loop.                                                                  *)
LEMMA WrittenBetween ==
  ASSUME NEW j \in Jobs, Ext(j) # Source(j), Taken(j), NEW k \in DOMAIN newE[j],
         newE[j][k].is # "gone", Ext(j) \in {k[1], k[2]}
  PROVE  Loop(Contracted(j, k))
<1>1. k \in Between(j)
  BY ContractedEnds DEF Taken
<1> QED BY <1>1 DEF Between, Loop, Contracted, End

-----------------------------------------------------------------------------
(* What the other jobs do.                                                  *)

Rest(j) ==
  /\ edges' = edges
  /\ \A i \in Jobs \ {j} : stmt'[i] = stmt[i] /\ rows'[i] = rows[i]

LEMMA FailRest == ASSUME Inv, NEW j \in Jobs, Fail(j) PROVE Rest(j)
BY DEF Fail, Rest, Inv, Typed, graph

LEMMA StepRest == ASSUME Inv, NEW j \in Jobs, Step(j), ~Commit(j) PROVE Rest(j)
<1>1. Typed
  BY DEF Inv
<1>2. \A k : Pass(j, k) => Rest(j)
  BY <1>1 DEF Pass, Rest, Typed, graph
<1>3. CASE FindRepo(j) \/ UpsertRepo(j) \/ InsertVertex(j) \/ VisitPackage(j)
  BY <1>1, <1>3 DEF FindRepo, UpsertRepo, InsertVertex, VisitPackage, PackageFound, Rest, Typed, graph
<1>4. CASE InsertVertexRaises(j) \/ Promote(j) \/ UpdateRepo(j) \/ UpdatePackage(j)
  BY <1>1, <1>4, FailRest DEF InsertVertexRaises, Promote, UpdateRepo, UpdatePackage, Rest, Typed, graph
<1>5. CASE DeleteRootEdges(j) \/ InsertRootEdges(j) \/ UpsertNestedEdges(j)
  BY <1>1, <1>5 DEF DeleteRootEdges, InsertRootEdges, UpsertNestedEdges, Rest, Typed, graph
<1>6. CASE DeleteRow(j) \/ WriteRow(j) \/ MoveRow(j)
  BY <1>2, <1>6, FailRest DEF DeleteRow, WriteRow, MoveRow
<1>7. CASE LookupExternal(j) \/ NextStatement(j) \/ DeleteStatement(j) \/ EndCrawl(j)
  BY <1>1, <1>7 DEF LookupExternal, NextStatement, DeleteStatement, EndCrawl, Rest, Typed, graph
<1>8. CASE DeleteExternal(j)
  BY <1>1, <1>8, FailRest DEF DeleteExternal, Rest, graph
<1> QED BY <1>3, <1>4, <1>5, <1>6, <1>7, <1>8 DEF Step

LEMMA OthersTake ==
  ASSUME Inv, SbomInv, AbsorbInv, [Next]_vars, NEW j \in Jobs, Frame(j), Rest(j), NEW i \in Jobs \ {j}
  PROVE  Takes(i)'
<1>1. /\ task' = task /\ edges' = edges /\ pc'[i] = pc[i] /\ todo'[i] = todo[i] /\ vid'[i] = vid[i]
      /\ newV'[i] = newV[i] /\ newE'[i] = newE[i] /\ stmt'[i] = stmt[i] /\ rows'[i] = rows[i]
      /\ Takes(i)
  BY DEF Frame, Rest, AbsorbInv
<1>2. /\ Source(i)' = Source(i) /\ Ext(i)' = Ext(i) /\ E(i)' = E(i) /\ Between(i)' = Between(i)
      /\ Absorbing(i)' = Absorbing(i)
  BY <1>1 DEF Source, Ext, E, Between, Absorbing
<1>3. ASSUME NEW l, Kept(i, l) PROVE Kept(i, l)'
  <2>1. PICK k : k = Contracted(i, l)
    OBVIOUS
  <2> QED BY <1>2, <1>3, <2>1, KeptStays
<1>4. \A l : (Contracted(i, l))' = Contracted(i, l)
  BY <1>2 DEF Contracted, End
<1>5. Absorbing(i) => Taken(i)'
  BY <1>1, <1>2, <1>3, <1>4 DEF Takes, Taken
<1>6. Scanned(i)'
  BY <1>1, <1>2, <1>3 DEF Takes, Scanned
<1> QED BY <1>1, <1>2, <1>5, <1>6 DEF Takes

(* What was to be kept is, when another job commits: what it deletes, it    *)
(* either removes as an SBOM job, or absorbs with an end of the edge.       *)
LEMMA KeptBeyondCommit ==
  ASSUME Inv, SbomInv, AbsorbInv, [Next]_vars, NEW i \in Jobs, NEW j \in Jobs \ {i}, Commit(i),
         Absorbing(j), NEW l, Kept(j, l), Loop(Contracted(j, l)) \/ l \in DOMAIN E(i)
  PROVE  Kept(j, l)'
<1>1. /\ edges' = E(i) /\ newE'[j] = newE[j] /\ Source(j)' = Source(j) /\ Ext(j)' = Ext(j)
      /\ Committing(i)
  BY DEF Commit, Inv, Typed, Source, Ext, Goto
<1>2. PICK k : k = Contracted(j, l)
  OBVIOUS
<1>3. ASSUME k \in DOMAIN E(j), ~Loop(k)
      PROVE  (k \in DOMAIN E(j)') \/ \E h \in Jobs : Removes(h, k)
  <2>1. CASE k \in DOMAIN newE[j] \/ k \in DOMAIN E(i)
    <3>1. k \in DOMAIN newE[j] => newE[j][k].is # "gone"
      BY <1>3, InMerged DEF E
    <3> QED BY <1>1, <2>1, <3>1, InMerged DEF E
  <2>2. CASE k \notin DOMAIN newE[j] /\ k \notin DOMAIN E(i)
    <3>1. k \in DOMAIN edges
      BY <1>3, <2>2, InMerged DEF E
    <3>2. k \in DOMAIN newE[i] /\ newE[i][k].is = "gone"
      BY <2>2, <3>1, InMerged DEF E
    <3>3. task[i].kind \in {"sbom", "deps", "repo"} /\ task[i].kind # "deps"
      BY <3>2, TaskFields DEF Inv, Typed, AbsorbInv, Takes
    <3>4. CASE task[i].kind = "sbom"
      <4>1. k[1] = Source(i) /\ pc[i] \notin {"repo", "insertRepo"}
        BY <1>1, <3>2, <3>4 DEF Committing, Inv, Local, Weakened
      <4> QED BY <3>4, <4>1 DEF Removes, Submits
    <3>5. CASE task[i].kind = "repo"
      <4>1. pc[i] = "commit" /\ stmt[i] # 0
        BY <1>1, <3>2, <3>5 DEF Committing, Inv, Local, Phase, Written
      <4>2. Ext(i) \in {k[1], k[2]}
        BY <3>1, <3>2, <4>1 DEF Inv, Local, Weakened, Absorbing
      <4>3. \/ Ext(i) \in DOMAIN newV[i] /\ newV[i][Ext(i)].is = "gone"
            \/ Ext(i) \notin DOMAIN vertices /\ Ext(i) \notin DOMAIN newV[i]
        BY <4>1 DEF Inv, Absorbed
      <4>4. Ext(i) \notin DOMAIN V(i)
        BY <4>3, InMerged DEF V
      <4>5. l \in DOMAIN E(i)
        BY <1>2, <1>3
      <4>6. Ext(i) # l[1] /\ Ext(i) # l[2]
        BY <4>4, <4>5 DEF Inv, Tables, ForeignKeys
      <4>7. Ext(i) = Source(j)
        BY <1>2, <4>2, <4>6 DEF Contracted, End
      <4>8. Source(j) \in DOMAIN vertices /\ vertices[Source(j)].is = "repo"
        BY DEF Inv, Local, SourceIsRepo
      <4>9. Source(j) \in DOMAIN newV[i] => newV[i][Source(j)].is = "repo"
        BY <4>8 DEF Inv, Tables, KeepsRepos
      <4> QED BY <4>3, <4>7, <4>8, <4>9
    <3> QED BY <3>3, <3>4, <3>5
  <2> QED BY <2>1, <2>2
<1>4. CASE Loop(k)
  <2>1. (Contracted(j, l))' = k
    BY <1>1, <1>2 DEF Contracted, End
  <2> QED BY <1>4, <2>1 DEF Kept
<1>5. CASE ~Loop(k)
  BY <1>1, <1>2, <1>3, <1>5, KeptStays
<1> QED BY <1>4, <1>5

LEMMA CommitTakes ==
  ASSUME Inv, SbomInv, AbsorbInv, [Next]_vars, NEW i \in Jobs, NEW j \in Jobs \ {i}, Commit(i)
  PROVE  Takes(j)'
<1>1. /\ edges' = E(i) /\ task' = task /\ pc'[j] = pc[j] /\ todo'[j] = todo[j] /\ vid'[j] = vid[j]
      /\ newV'[j] = newV[j] /\ newE'[j] = newE[j] /\ stmt'[j] = stmt[j] /\ Takes(j)
      /\ rows'[j] = IF pc[j] \in {"delete", "absorbing"}
                    THEN (rows[j] \ Dropped(i)) \cup Followed(j, i) ELSE rows[j]
  BY DEF Commit, Inv, Typed, Goto, AbsorbInv
<1>2. /\ Source(j)' = Source(j) /\ Ext(j)' = Ext(j) /\ Between(j)' = Between(j)
      /\ Absorbing(j)' = Absorbing(j) /\ \A l : (Contracted(j, l))' = Contracted(j, l)
  BY <1>1 DEF Source, Ext, Between, Absorbing, Contracted, End
<1>3. \A k \in DOMAIN newE[j] : k \notin DOMAIN newE[i]
  BY DEF Inv, Tables, RowLocks
<1>4. \A k \in DOMAIN newE[j] : k \in DOMAIN edges <=> k \in DOMAIN E(i)
  BY <1>3, InMerged DEF E
<1>5. Absorbing(j) => Taken(j)'
  <2> SUFFICES ASSUME Absorbing(j) PROVE Taken(j)'
    OBVIOUS
  <2>1. Taken(j)
    BY <1>1 DEF Takes
  <2>2. ASSUME NEW k \in DOMAIN newE[j], newE[j][k].is = "gone"
        PROVE  Ext(j) \in {k[1], k[2]} /\ (k \in DOMAIN E(i) => Kept(j, k)')
    BY <1>4, <2>1, <2>2, KeptBeyondCommit DEF Taken
  <2>3. ASSUME NEW k \in DOMAIN newE[j], newE[j][k].is # "gone", k \notin Between(j)
        PROVE  ~Loop(k) /\ \E l \in DOMAIN E(i) \cap DOMAIN newE[j] :
                 newE[j][l].is = "gone" /\ Contracted(j, l) = k
    BY <1>4, <2>1, <2>3 DEF Taken
  <2> QED BY <1>1, <1>2, <2>2, <2>3 DEF Taken
<1>6. Scanned(j)'
  <2> SUFFICES ASSUME pc[j] = "absorbing", NEW l \in rows'[j]
               PROVE  /\ stmt[j] \in {3, 4} => l[2] = Ext(j)
                      /\ stmt[j] \in {5, 6} => l[1] = Ext(j)
                      /\ stmt[j] \notin {4, 6} => Kept(j, l)'
    BY <1>1, <1>2 DEF Scanned
  <2>1. Absorbing(j)
    BY DEF Absorbing
  <2>2. CASE l \in rows[j] /\ l \notin Dropped(i)
    <3>1. /\ stmt[j] \in {3, 4} => l[2] = Ext(j)
          /\ stmt[j] \in {5, 6} => l[1] = Ext(j)
          /\ stmt[j] \notin {4, 6} => Kept(j, l)
      BY <1>1, <2>2 DEF Takes, Scanned
    <3>2. l \in DOMAIN E(j) /\ Ext(j) \in {l[1], l[2]}
      BY <2>2 DEF Inv, Local, RowsFit
    <3>3. Loop(Contracted(j, l)) \/ l \in DOMAIN E(i)
      <4>1. CASE l \in DOMAIN newE[j]
        <5>1. newE[j][l].is # "gone"
          BY <3>2, <4>1, InMerged DEF E
        <5> QED BY <1>1, <2>1, <3>2, <4>1, <5>1, WrittenBetween DEF Takes
      <4>2. CASE l \notin DOMAIN newE[j]
        <5>1. l \in DOMAIN edges
          BY <3>2, <4>2, InMerged DEF E
        <5> QED BY <2>2, <5>1, InMerged DEF E, Dropped
      <4> QED BY <4>1, <4>2
    <3> QED BY <2>1, <3>1, <3>3, KeptBeyondCommit
  <2>3. CASE l \in Followed(j, i)
    <3>1. /\ l \in DOMAIN newE[i] /\ newE[i][l].is # "gone" /\ Selects(j, stmt[j], l)
          /\ \E h \in rows[j] : TRUE
      BY <2>3 DEF Followed
    <3>2. stmt[j] \in 1..6
      BY <3>1 DEF Inv, Local, RowsFit, Typed
    <3>3. l \in DOMAIN E(i)
      BY <3>1, InMerged DEF E
    <3>4. /\ stmt[j] \in {3, 4} => l[2] = Ext(j)
          /\ stmt[j] \in {5, 6} => l[1] = Ext(j)
          /\ stmt[j] \notin {4, 6} => Kept(j, l)
      BY <3>1, <3>2, SelectsKept
    <3> QED BY <2>1, <3>3, <3>4, KeptBeyondCommit
  <2> QED BY <1>1, <2>2, <2>3
<1> QED BY <1>1, <1>2, <1>5, <1>6 DEF Takes

-----------------------------------------------------------------------------
(* The steps of the job itself.                                             *)

LEMMA NotAbsorbing ==
  ASSUME AbsorbInv, NEW j \in Jobs, task' = task, newE'[j] = newE[j] \/ DOMAIN newE'[j] = {},
         pc'[j] \notin {"absorbing", "deleteExternal"}, pc'[j] = "commit" => stmt'[j] = 0
  PROVE  Takes(j)'
BY DEF Takes, Absorbing, Scanned, AbsorbInv

LEMMA FailTakes == ASSUME Inv, AbsorbInv, NEW j \in Jobs, Fail(j) PROVE Takes(j)'
<1>1. task' = task /\ DOMAIN newE'[j] = {} /\ pc'[j] = "failed"
  BY NoRows DEF Fail, Goto, Inv, Typed
<1> QED BY <1>1, NotAbsorbing

(* Steps that write no edge, and none of an absorption.                     *)
LEMMA VertexStepTakes ==
  ASSUME Inv, AbsorbInv, NEW j \in Jobs,
         \/ FindRepo(j) \/ UpsertRepo(j) \/ InsertVertex(j) \/ InsertVertexRaises(j)
         \/ Promote(j) \/ UpdateRepo(j) \/ VisitPackage(j) \/ UpdatePackage(j)
         \/ DeleteRootEdges(j) \/ InsertRootEdges(j) \/ UpsertNestedEdges(j) \/ EndCrawl(j)
  PROVE  Takes(j)'
<1>1. CASE Fail(j)
  BY <1>1, FailTakes
<1>2. CASE ~Fail(j)
  <2>1. task' = task /\ newE' = newE /\ stmt' = stmt
    BY <1>2 DEF FindRepo, UpsertRepo, InsertVertex, InsertVertexRaises, Promote, UpdateRepo,
       VisitPackage, UpdatePackage, DeleteRootEdges, InsertRootEdges, UpsertNestedEdges, EndCrawl,
       writes
  <2>2. CASE FindRepo(j) \/ UpsertRepo(j) \/ VisitPackage(j) \/ EndCrawl(j)
             \/ DeleteRootEdges(j) \/ InsertRootEdges(j) \/ UpsertNestedEdges(j)
    <3>1. pc'[j] \notin {"absorbing", "deleteExternal", "commit"}
      BY <2>2 DEF FindRepo, UpsertRepo, VisitPackage, PackageFound, EndCrawl, DeleteRootEdges,
         InsertRootEdges, UpsertNestedEdges, Goto, Inv, Typed
    <3> QED BY <2>1, <3>1, NotAbsorbing
  <2>3. CASE InsertVertex(j) \/ Promote(j) \/ UpdateRepo(j) \/ UpdatePackage(j)
    <3>1. /\ pc'[j] \notin {"absorbing", "deleteExternal"}
          /\ pc'[j] = "commit" => pc[j] \in {"insertRepo", "promote", "updateRepo"}
      BY <1>2, <2>3 DEF InsertVertex, Promote, UpdateRepo, UpdatePackage, Goto, Inv, Typed
    <3>2. pc'[j] = "commit" => stmt'[j] = 0
      BY <2>1, <3>1 DEF Inv, Local, Phase
    <3> QED BY <2>1, <3>1, <3>2, NotAbsorbing
  <2>4. ~InsertVertexRaises(j)
    BY <1>2 DEF InsertVertexRaises
  <2> QED BY <2>2, <2>3, <2>4
<1> QED BY <1>1, <1>2

LEMMA WriteRowTakes ==
  ASSUME Inv, AbsorbInv, NEW j \in Jobs, WriteRow(j)
  PROVE  Takes(j)'
<1>1. CASE Fail(j)
  BY <1>1, FailTakes
<1>2. CASE ~Fail(j)
  <2>1. PICK k, row : /\ k = NextRow(j) /\ row = Upserted(j, k)
                      /\ newE' = [newE EXCEPT ![j] = With(@, k, row)] /\ Pass(j, k)
    BY <1>2 DEF WriteRow, WriteE
  <2>2. /\ task' = task /\ pc[j] \in {"root", "nested", "edge"}
        /\ pc'[j] \in {"root", "nested", "packages"}
    BY <2>1 DEF WriteRow, Pass, Goto, Inv, Typed
  <2>3. newE'[j] = With(newE[j], k, row) /\ row.is # "gone"
    BY <2>1 DEF Inv, Typed, Upserted
  <2>4. \A l \in DOMAIN newE'[j] : newE'[j][l] = row \/ (l \in DOMAIN newE[j] /\ newE'[j][l] = newE[j][l])
    BY <2>3 DEF With
  <2>5. task[j].kind = "deps" => \A l \in DOMAIN newE'[j] : newE'[j][l].is # "gone"
    BY <2>3, <2>4 DEF AbsorbInv, Takes
  <2> QED BY <2>2, <2>5 DEF Takes, Absorbing, Scanned
<1> QED BY <1>1, <1>2

LEMMA LookupExternalTakes ==
  ASSUME Inv, AbsorbInv, NEW j \in Jobs, LookupExternal(j)
  PROVE  Takes(j)'
<1>1. /\ pc[j] = "absorb" /\ todo[j] # <<>> /\ todo[j] \in Seq(Names) /\ Name(j) = Head(todo[j])
      /\ UNCHANGED <<task, graph, rows, writes>>
  BY DEF LookupExternal, Inv, Typed, Name
<1>2. /\ DOMAIN newE[j] = {} /\ rows[j] = {}
      /\ Source(j) \in DOMAIN vertices /\ vertices[Source(j)].is = "repo" /\ task[j].kind = "repo"
  BY <1>1 DEF Inv, Local, Phase, Written, RowsFit, SourceIsRepo
<1>3. task' = task /\ newE' = newE /\ rows' = rows
  BY <1>1 DEF writes
<1>4. CASE pc' = pc
  BY <1>1, <1>3, <1>4, NotAbsorbing
<1>5. CASE pc' # pc
  <2>1. PICK v \in DOMAIN vertices : /\ vertices[v].is = "external" /\ vid' = [vid EXCEPT ![j][Head(todo[j])] = v]
                                     /\ stmt' = [stmt EXCEPT ![j] = 0] /\ pc' = [pc EXCEPT ![j] = "absorbing"]
                                     /\ todo' = todo
    BY <1>1, <1>5 DEF LookupExternal, Resolve, Goto, Named
  <2>2. Head(todo[j]) \in Names /\ task[j].repo \in Names /\ Head(todo[j]) # task[j].repo
    <3>1. Head(todo[j]) \in Names /\ 1 \in DOMAIN todo[j] /\ Head(todo[j]) = todo[j][1]
      BY <1>1, HeadTail
    <3> QED BY <1>2, <3>1, TaskFields DEF Inv, Typed, Local, NotItself
  <2>3. v \in Nat
    BY DEF Inv, TypedRows
  <2>4. vid'[j][Head(todo[j])] = v /\ vid'[j][task[j].repo] = vid[j][task[j].repo]
    BY <2>1, <2>2, <2>3, Remembered DEF Inv
  <2>5. Ext(j)' = v /\ Source(j)' = Source(j)
    BY <1>3, <2>1, <2>4 DEF Ext, Source
  <2>6. Ext(j)' # Source(j)' /\ pc'[j] = "absorbing" /\ stmt'[j] = 0 /\ DOMAIN newE'[j] = {} /\ rows'[j] = {}
    BY <1>2, <1>3, <2>1, <2>5 DEF Inv, Typed
  <2> QED BY <2>6 DEF Takes, Taken, Scanned
<1> QED BY <1>4, <1>5

(* The edges written are what they were.                                    *)
LEMMA AbsorptionGoesOn ==
  ASSUME Inv, SbomInv, AbsorbInv, [Next]_vars, NEW j \in Jobs, Absorbing(j),
         UNCHANGED <<task, edges, todo, vid, newE>>
  PROVE  /\ (Ext(j) # Source(j) /\ Taken(j))'
         /\ task[j].kind = "repo" /\ task'[j] = task[j]
         /\ \A l : Kept(j, l) => Kept(j, l)'
         /\ Ext(j)' = Ext(j) /\ Source(j)' = Source(j)
<1>1. /\ Source(j)' = Source(j) /\ Ext(j)' = Ext(j) /\ E(j)' = E(j) /\ Between(j)' = Between(j)
      /\ \A l : (Contracted(j, l))' = Contracted(j, l)
  BY DEF Source, Ext, E, Between, Contracted, End
<1>2. ASSUME NEW l, Kept(j, l) PROVE Kept(j, l)'
  <2>1. PICK k : k = Contracted(j, l)
    OBVIOUS
  <2> QED BY <1>1, <1>2, <2>1, KeptStays
<1>3. Ext(j) # Source(j) /\ Taken(j)
  BY DEF AbsorbInv, Takes
<1>4. Taken(j)'
  BY <1>1, <1>2, <1>3 DEF Taken
<1>5. task[j].kind = "repo"
  BY DEF Inv, Local, Phase, Absorbing
<1> QED BY <1>1, <1>2, <1>3, <1>4, <1>5

LEMMA NextStatementTakes ==
  ASSUME Inv, SbomInv, AbsorbInv, [Next]_vars, NEW j \in Jobs, NextStatement(j)
  PROVE  Takes(j)'
<1>1. /\ pc[j] = "absorbing" /\ stmt[j] < 6 /\ stmt[j] \in 0..6 /\ Absorbing(j)
      /\ UNCHANGED <<task, edges, todo, vid, newE, pc>>
  BY DEF NextStatement, Inv, Typed, graph, writes, Absorbing
<1>2. stmt'[j] = stmt[j] + 1 /\ stmt'[j] \in 1..6
  BY <1>1 DEF NextStatement, Inv, Typed
<1>3. PICK s \in 1..6 : s = stmt'[j]
  BY <1>2
<1>4. rows'[j] = {k \in DOMAIN E(j) : Selects(j, s, k)}
  BY <1>3 DEF NextStatement, Inv, Typed
<1>5. /\ (Ext(j) # Source(j) /\ Taken(j))' /\ task[j].kind = "repo" /\ task'[j] = task[j]
      /\ \A l : Kept(j, l) => Kept(j, l)'
      /\ Ext(j)' = Ext(j)
  BY <1>1, AbsorptionGoesOn
<1>6. Scanned(j)'
  <2>1. ASSUME NEW l \in rows'[j]
        PROVE  /\ s \in {3, 4} => l[2] = Ext(j)
               /\ s \in {5, 6} => l[1] = Ext(j)
               /\ s \notin {4, 6} => Kept(j, l)
    BY <1>1, <1>4, SelectsKept
  <2> QED BY <1>3, <1>5, <2>1 DEF Scanned
<1> QED BY <1>1, <1>5, <1>6 DEF Takes

LEMMA DeleteStatementTakes ==
  ASSUME Inv, SbomInv, AbsorbInv, [Next]_vars, NEW j \in Jobs, DeleteStatement(j)
  PROVE  Takes(j)'
<1>1. /\ Absorbing(j) /\ pc'[j] = "deleteExternal" /\ UNCHANGED <<task, edges, todo, vid, newE>>
  BY DEF DeleteStatement, Goto, Inv, Typed, graph, writes, Absorbing
<1>2. (Ext(j) # Source(j) /\ Taken(j))' /\ task[j].kind = "repo" /\ task'[j] = task[j]
  BY <1>1, AbsorptionGoesOn
<1> QED BY <1>1, <1>2 DEF Takes, Scanned

LEMMA DeleteExternalTakes ==
  ASSUME Inv, SbomInv, AbsorbInv, [Next]_vars, NEW j \in Jobs, DeleteExternal(j)
  PROVE  Takes(j)'
<1>1. CASE Fail(j)
  BY <1>1, FailTakes
<1>2. CASE ~Fail(j)
  <2>1. /\ pc[j] = "deleteExternal" /\ Absorbing(j) /\ pc'[j] = "commit"
        /\ UNCHANGED <<task, edges, todo, vid, newE>>
    BY <1>2 DEF DeleteExternal, Goto, Inv, Typed, graph, Absorbing
  <2>2. DOMAIN newV[j] = {} /\ Ext(j) = vid[j][Name(j)]
    BY <2>1 DEF Inv, Local, Written, Ext, Name
  <2>3. /\ (Ext(j) # Source(j) /\ Taken(j))' /\ task[j].kind = "repo" /\ task'[j] = task[j]
        /\ Ext(j)' = Ext(j)
    BY <2>1, AbsorptionGoesOn
  <2>4. newV' = newV \/ \E row : WriteV(j, Ext(j), row)
    BY <1>2, <2>2 DEF DeleteExternal
  <2>5. DOMAIN newV'[j] \subseteq {Ext(j)}
    BY <2>2, <2>4 DEF WriteV, With, Inv, Typed
  <2> QED BY <2>1, <2>3, <2>5 DEF Takes, Scanned
<1> QED BY <1>1, <1>2

LEMMA OwnCommitTakes ==
  ASSUME Inv, AbsorbInv, NEW j \in Jobs, Commit(j)
  PROVE  Takes(j)'
<1>1. task' = task /\ DOMAIN newE'[j] = {} /\ pc'[j] \in {"absorb", "done"}
  BY NoRows DEF Commit, Goto, Inv, Typed
<1> QED BY <1>1, NotAbsorbing

(* A row of the external vertex goes.                                       *)
LEMMA DeleteRowTakes ==
  ASSUME Inv, SbomInv, AbsorbInv, [Next]_vars, NEW j \in Jobs, DeleteRow(j)
  PROVE  Takes(j)'
<1>1. PICK k : /\ k = NextRow(j) /\ k \in rows[j] /\ newE' = [newE EXCEPT ![j] = With(@, k, [is |-> "gone"])]
               /\ Pass(j, k)
  BY NextRowVisited DEF DeleteRow, WriteE
<1>2. pc[j] = "delete" \/ (pc[j] = "absorbing" /\ stmt[j] \notin {4, 6})
  BY DEF DeleteRow, Moves
<1>3. /\ task' = task /\ edges' = edges /\ pc' = pc /\ todo' = todo /\ vid' = vid /\ stmt' = stmt
      /\ rows'[j] = rows[j] \ {k}
  BY <1>1, <1>2 DEF Pass, graph, Inv, Typed
<1>4. CASE pc[j] = "delete"
  <2>1. task[j].kind = "sbom"
    BY <1>4 DEF Inv, Local, Phase
  <2> QED BY <1>3, <1>4, <2>1 DEF Takes, Absorbing, Scanned
<1>5. CASE pc[j] = "absorbing" /\ stmt[j] \notin {4, 6}
  <2>1. /\ Absorbing(j) /\ task[j].kind = "repo" /\ Ext(j) # Source(j) /\ Taken(j)
        /\ Ext(j) \in {k[1], k[2]} /\ Kept(j, k) /\ k \in DOMAIN E(j)
    BY <1>1, <1>5 DEF Inv, Local, Phase, RowsFit, AbsorbInv, Takes, Scanned, Absorbing
  <2>2. /\ Source(j)' = Source(j) /\ Ext(j)' = Ext(j) /\ Between(j)' = Between(j)
        /\ \A l : (Contracted(j, l))' = Contracted(j, l)
    BY <1>3 DEF Source, Ext, Between, Contracted, End
  <2>3. /\ DOMAIN newE'[j] = DOMAIN newE[j] \cup {k} /\ newE'[j][k].is = "gone"
        /\ \A l \in DOMAIN newE[j] \ {k} : newE'[j][l] = newE[j][l]
    BY <1>1 DEF With, Inv, Typed
  <2>4. \A l : l # k /\ l \in DOMAIN E(j) => l \in DOMAIN E(j)'
    BY <1>3, <2>3, InMerged DEF E
  <2>5. ASSUME NEW l, Kept(j, l) PROVE Kept(j, l)'
    <3>1. PICK c : c = Contracted(j, l)
      OBVIOUS
    <3>2. c # k
      BY <2>1, <3>1, ContractedEnds
    <3> QED BY <2>2, <2>4, <2>5, <3>1, <3>2, KeptStays
  <2>6. Taken(j)'
    <3>1. ASSUME NEW l \in DOMAIN newE'[j], newE'[j][l].is = "gone"
          PROVE  Ext(j) \in {l[1], l[2]} /\ (l \in DOMAIN edges => Kept(j, l)')
      BY <2>1, <2>3, <2>5, <3>1 DEF Taken
    <3>2. ASSUME NEW l \in DOMAIN newE'[j], newE'[j][l].is # "gone", l \notin Between(j)
          PROVE  ~Loop(l) /\ \E m \in DOMAIN edges \cap DOMAIN newE'[j] :
                   newE'[j][m].is = "gone" /\ Contracted(j, m) = l
      <4>1. l \in DOMAIN newE[j] /\ newE[j][l].is # "gone"
        BY <2>3, <3>2
      <4>2. PICK m \in DOMAIN edges \cap DOMAIN newE[j] :
                   newE[j][m].is = "gone" /\ Contracted(j, m) = l /\ ~Loop(l)
        BY <2>1, <3>2, <4>1 DEF Taken
      <4> QED BY <2>3, <4>2
    <3> QED BY <1>3, <2>2, <3>1, <3>2 DEF Taken
  <2>7. Scanned(j)'
    <3>1. ASSUME NEW l \in rows[j]
          PROVE  /\ stmt[j] \in {3, 4} => l[2] = Ext(j)
                 /\ stmt[j] \in {5, 6} => l[1] = Ext(j)
                 /\ stmt[j] \notin {4, 6} => Kept(j, l)
      BY <1>5 DEF AbsorbInv, Takes, Scanned
    <3> QED BY <1>3, <1>5, <2>2, <2>5, <3>1 DEF Scanned
  <2> QED BY <1>3, <1>5, <2>1, <2>2, <2>6, <2>7 DEF Takes
<1> QED BY <1>2, <1>4, <1>5

(* A row of the external vertex becomes one of the Repo.                    *)
LEMMA MoveRowTakes ==
  ASSUME Inv, SbomInv, AbsorbInv, [Next]_vars, NEW j \in Jobs, MoveRow(j)
  PROVE  Takes(j)'
<1>1. CASE Fail(j)
  BY <1>1, FailTakes
<1>2. CASE ~Fail(j)
  <2>1. PICK k, to, row :
          /\ k = NextRow(j) /\ k \in rows[j] /\ to = Moved(j, k) /\ row = E(j)[k] /\ to \notin DOMAIN E(j)
          /\ newE' = [newE EXCEPT ![j] = With(With(@, k, [is |-> "gone"]), to, row)] /\ Pass(j, k)
    BY <1>2, NextRowVisited DEF MoveRow
  <2>2. pc[j] = "absorbing" /\ stmt[j] \in {4, 6}
    BY DEF MoveRow, Moves
  <2>3. /\ task' = task /\ edges' = edges /\ pc' = pc /\ todo' = todo /\ vid' = vid /\ stmt' = stmt
        /\ rows'[j] = rows[j] \ {k}
    BY <2>1, <2>2 DEF Pass, graph, Inv, Typed
  <2>4. /\ Absorbing(j) /\ task[j].kind = "repo" /\ Ext(j) # Source(j) /\ Taken(j)
        /\ stmt[j] = 4 => k[2] = Ext(j)
        /\ stmt[j] = 6 => k[1] = Ext(j)
        /\ k \in DOMAIN E(j)
    BY <2>1, <2>2 DEF Inv, Local, Phase, RowsFit, AbsorbInv, Takes, Scanned, Absorbing
  <2>5. to # k
    BY <2>1, <2>4
  <2>6. /\ Source(j)' = Source(j) /\ Ext(j)' = Ext(j) /\ Between(j)' = Between(j)
        /\ \A l : (Contracted(j, l))' = Contracted(j, l)
    BY <2>3 DEF Source, Ext, Between, Contracted, End
  <2>7. /\ DOMAIN newE'[j] = DOMAIN newE[j] \cup {k, to} /\ newE'[j][k].is = "gone" /\ newE'[j][to] = row
        /\ \A l \in DOMAIN newE[j] \ {k, to} : newE'[j][l] = newE[j][l]
    BY <2>1, <2>5 DEF With, Inv, Typed
  <2>8. row.is # "gone"
    BY <2>1, <2>4 DEF E, Merged, Inv, TypedRows
  <2>9. \A l : l # k /\ l \in DOMAIN E(j) => l \in DOMAIN E(j)'
    <3>1. \A l : l # k /\ l \in DOMAIN E(j) => l # to
      BY <2>1
    <3> QED BY <2>3, <2>7, <3>1, InMerged DEF E
  <2>10. ASSUME NEW l, Kept(j, l) PROVE Kept(j, l)'
    <3>1. PICK c : c = Contracted(j, l)
      OBVIOUS
    <3>2. c # k
      BY <2>2, <2>4, <3>1, ContractedEnds
    <3> QED BY <2>6, <2>9, <2>10, <3>1, <3>2, KeptStays
  <2>11. \/ Loop(Contracted(j, k)) /\ to \in Between(j)
         \/ ~Loop(Contracted(j, k)) /\ to = Contracted(j, k)
    <3>1. to = IF stmt[j] = 4 THEN <<k[1], Source(j)>> ELSE <<Source(j), k[2]>>
      BY <2>1 DEF Moved
    <3>2. CASE stmt[j] = 4
      BY <2>4, <3>1, <3>2 DEF Loop, Contracted, End, Between
    <3>3. CASE stmt[j] = 6
      BY <2>4, <3>1, <3>3 DEF Loop, Contracted, End, Between
    <3> QED BY <2>2, <3>2, <3>3
  <2>12. k \in DOMAIN edges \/ Loop(Contracted(j, k))
    <3>1. CASE k \in DOMAIN newE[j]
      <4>1. newE[j][k].is # "gone" /\ Ext(j) \in {k[1], k[2]}
        BY <2>2, <2>4, <3>1, InMerged DEF E
      <4> QED BY <2>4, <3>1, <4>1, WrittenBetween
    <3>2. CASE k \notin DOMAIN newE[j]
      BY <2>4, <3>2, InMerged DEF E
    <3> QED BY <3>1, <3>2
  <2>13. Kept(j, k)'
    <3>1. to \in DOMAIN E(j)'
      BY <2>7, <2>8, InMerged DEF E
    <3> QED BY <2>6, <2>11, <3>1 DEF Kept
  <2>14. Taken(j)'
    <3>1. ASSUME NEW l \in DOMAIN newE'[j], newE'[j][l].is = "gone"
          PROVE  Ext(j) \in {l[1], l[2]} /\ (l \in DOMAIN edges => Kept(j, l)')
      <4>1. CASE l = k
        BY <2>2, <2>4, <2>13, <4>1
      <4>2. CASE l # k
        <5>1. l \in DOMAIN newE[j] /\ newE[j][l].is = "gone"
          BY <2>7, <2>8, <3>1, <4>2
        <5> QED BY <2>4, <2>10, <5>1 DEF Taken
      <4> QED BY <4>1, <4>2
    <3>2. ASSUME NEW l \in DOMAIN newE'[j], newE'[j][l].is # "gone", l \notin Between(j)
          PROVE  ~Loop(l) /\ \E m \in DOMAIN edges \cap DOMAIN newE'[j] :
                   newE'[j][m].is = "gone" /\ Contracted(j, m) = l
      <4>1. CASE l = to
        <5>1. ~Loop(l) /\ Contracted(j, k) = l /\ k \in DOMAIN edges
          BY <2>11, <2>12, <3>2, <4>1
        <5> QED BY <2>7, <5>1
      <4>2. CASE l # to
        <5>1. l \in DOMAIN newE[j] /\ newE[j][l].is # "gone"
          BY <2>7, <3>2, <4>2
        <5>2. PICK m \in DOMAIN edges \cap DOMAIN newE[j] :
                     newE[j][m].is = "gone" /\ Contracted(j, m) = l /\ ~Loop(l)
          BY <2>4, <3>2, <5>1 DEF Taken
        <5>3. m # to
          <6> SUFFICES ASSUME m = to PROVE FALSE
            OBVIOUS
          <6>1. Ext(j) \in {to[1], to[2]}
            BY <2>4, <5>2 DEF Taken
          <6>2. to \in Between(j)
            BY <2>4, <2>11, <6>1, ContractedEnds
          <6>3. Loop(Contracted(j, to))
            BY <6>1, <6>2 DEF Between, Loop, Contracted, End
          <6> QED BY <5>2, <6>3
        <5> QED BY <2>7, <5>2, <5>3
      <4> QED BY <4>1, <4>2
    <3> QED BY <2>3, <2>6, <3>1, <3>2 DEF Taken
  <2>15. Scanned(j)'
    <3>1. ASSUME NEW l \in rows[j]
          PROVE  /\ stmt[j] \in {3, 4} => l[2] = Ext(j)
                 /\ stmt[j] \in {5, 6} => l[1] = Ext(j)
      BY <2>2 DEF AbsorbInv, Takes, Scanned
    <3>2. stmt'[j] \in {4, 6} /\ \A l \in rows'[j] : l \in rows[j]
      BY <2>2, <2>3
    <3> QED BY <2>3, <2>6, <3>1, <3>2 DEF Scanned
  <2> QED BY <2>2, <2>3, <2>4, <2>6, <2>14, <2>15 DEF Takes
<1> QED BY <1>1, <1>2

LEMMA NextTakes == Inv /\ SbomInv /\ AbsorbInv /\ [Next]_vars => AbsorbInv'
<1> SUFFICES ASSUME Inv, SbomInv, AbsorbInv, [Next]_vars PROVE AbsorbInv'
  OBVIOUS
<1>1. ASSUME NEW j \in Jobs, Step(j) PROVE AbsorbInv'
  <2>1. Takes(j)'
    BY <1>1, VertexStepTakes, WriteRowTakes, LookupExternalTakes, NextStatementTakes,
       DeleteStatementTakes, DeleteExternalTakes, OwnCommitTakes, DeleteRowTakes, MoveRowTakes DEF Step
  <2>2. ASSUME NEW i \in Jobs \ {j} PROVE Takes(i)'
    BY <1>1, StepFrames, StepRest, OthersTake, CommitTakes
  <2> QED BY <2>1, <2>2 DEF AbsorbInv
<1>2. ASSUME NEW j \in Jobs, ResolveDeadlock(j) PROVE AbsorbInv'
  <2>1. Fail(j)
    BY <1>2 DEF ResolveDeadlock
  <2> QED BY <2>1, FailTakes, FailFrames, FailRest, OthersTake DEF AbsorbInv
<1>3. CASE UNCHANGED vars
  <2>1. \A j \in Jobs : Frame(j) /\ Rest(j)
    BY <1>3 DEF vars, graph, writes, Frame, Rest
  <2>2. ASSUME NEW j \in Jobs PROVE Takes(j)'
    <3>1. /\ task' = task /\ edges' = edges /\ pc' = pc /\ todo' = todo /\ vid' = vid
          /\ newV' = newV /\ newE' = newE /\ stmt' = stmt /\ rows' = rows /\ Takes(j)
      BY <1>3 DEF vars, graph, writes, AbsorbInv
    <3>2. CASE Absorbing(j)
      <4>1. /\ (Ext(j) # Source(j) /\ Taken(j))' /\ task[j].kind = "repo"
            /\ \A l : Kept(j, l) => Kept(j, l)'
            /\ Ext(j)' = Ext(j)
        BY <3>1, <3>2, AbsorptionGoesOn
      <4>2. Scanned(j)'
        BY <3>1, <4>1 DEF Takes, Scanned
      <4> QED BY <3>1, <4>1, <4>2 DEF Takes
    <3>3. CASE ~Absorbing(j)
      BY <3>1, <3>3 DEF Takes, Absorbing, Scanned
    <3> QED BY <3>2, <3>3
  <2> QED BY <2>2 DEF AbsorbInv
<1> QED BY <1>1, <1>2, <1>3 DEF Next

-----------------------------------------------------------------------------
(* What an absorption commits.                                              *)

(* A deleted vertex was the external one of an absorption.                  *)
LEMMA OnlyAbsorptionsDelete ==
  ASSUME Inv, AbsorbInv, NEW j \in Jobs, Commit(j), NEW v \in DOMAIN vertices, v \notin DOMAIN vertices'
  PROVE  /\ pc[j] = "commit" /\ stmt[j] # 0 /\ Absorbing(j) /\ pc'[j] = "absorb"
         /\ v = Ext(j) /\ vertices[v].is = "external" /\ v \notin DOMAIN V(j)
         /\ vertices' = V(j) /\ edges' = E(j)
<1>1. vertices' = V(j) /\ edges' = E(j) /\ Committing(j)
  BY DEF Commit
<1>2. v \in DOMAIN newV[j] /\ newV[j][v].is = "gone"
  BY <1>1, InMerged DEF V
<1>3. pc[j] = "commit" /\ stmt[j] # 0
  BY <1>2 DEF Inv, Local, Written
<1>4. v = Ext(j)
  BY <1>2, <1>3 DEF AbsorbInv, Takes
<1>5. vertices[v].is = "external"
  <2>1. vertices[v].is # "repo" /\ vertices[v].is # "gone" /\ vertices[v] \in Vertex
    BY <1>2 DEF Inv, Tables, KeepsRepos, TypedRows
  <2> QED BY <2>1 DEF Vertex, Repo, ExternalRepo, Deleted
<1>6. pc'[j] = "absorb"
  BY <1>3 DEF Commit, Goto, Inv, Typed, Local, Phase
<1> QED BY <1>1, <1>3, <1>4, <1>5, <1>6 DEF Absorbing

(* Contracting is taking over.                                              *)
LEMMA ContractedIsTakenOver ==
  ASSUME NEW j \in Jobs, NEW k
  PROVE  k \in TakenOver(Ext(j), Source(j)) <=>
           ~Loop(k) /\ \E l \in DOMAIN edges : k = Contracted(j, l)
<1>1. \A l : Contracted(j, l)[1] = End(j, l[1]) /\ Contracted(j, l)[2] = End(j, l[2])
  BY DEF Contracted
<1>2. TakenOver(Ext(j), Source(j)) = {Contracted(j, l) : l \in {m \in DOMAIN edges : End(j, m[1]) # End(j, m[2])}}
  BY DEF TakenOver, Contracted, End
<1> QED BY <1>1, <1>2 DEF Loop

(* Of the edges it takes over, those that are lost are removed by an SBOM   *)
(* job.                                                                     *)
LEMMA LostAreRemoved ==
  ASSUME Inv, AbsorbInv, NEW j \in Jobs, Absorbing(j), Ext(j) \notin DOMAIN V(j),
         NEW k \in TakenOver(Ext(j), Source(j)), k \notin DOMAIN E(j)
  PROVE  k \notin DOMAIN edges /\ \E i \in Jobs : task[i].kind = "sbom" /\ k[1] = Source(i)
<1>1. PICK l \in DOMAIN edges : k = Contracted(j, l) /\ ~Loop(k)
  BY ContractedIsTakenOver
<1>2. Ext(j) # Source(j) /\ Taken(j)
  BY DEF AbsorbInv, Takes
<1>3. k \notin DOMAIN edges
  <2> SUFFICES ASSUME k \in DOMAIN edges PROVE FALSE
    OBVIOUS
  <2>1. k \in DOMAIN newE[j]
    BY InMerged DEF E
  <2>2. Ext(j) \in {k[1], k[2]}
    BY <2>1 DEF Inv, Local, Weakened
  <2> QED BY <1>1, <1>2, <2>2, ContractedEnds
<1>4. Ext(j) \in {l[1], l[2]}
  <2> SUFFICES ASSUME Ext(j) \notin {l[1], l[2]} PROVE FALSE
    OBVIOUS
  <2>1. l \in Nat \X Nat
    BY DEF Inv, TypedRows
  <2>2. k = l
    BY <1>1, <2>1 DEF Contracted, End
  <2> QED BY <1>3, <2>2
<1>5. l \notin DOMAIN E(j)
  BY <1>4 DEF Inv, Tables, ForeignKeys
<1>6. l \in DOMAIN newE[j] /\ newE[j][l].is = "gone"
  BY <1>5, InMerged DEF E
<1>7. Kept(j, l)
  BY <1>2, <1>6 DEF Taken
<1> QED BY <1>1, <1>3, <1>7 DEF Kept, Removes, Submits

(* Of the edges that are new, each is taken over, but for a loop.           *)
LEMMA GainedAreTakenOver ==
  ASSUME Inv, AbsorbInv, NEW j \in Jobs, Absorbing(j), Ext(j) \notin DOMAIN V(j),
         NEW k \in DOMAIN E(j), k \notin DOMAIN edges
  PROVE  k \in TakenOver(Ext(j), Source(j)) \/ k = <<Source(j), Source(j)>>
<1>1. k \in DOMAIN newE[j] /\ newE[j][k].is # "gone"
  BY InMerged DEF E
<1>2. Taken(j)
  BY DEF AbsorbInv, Takes
<1>3. Ext(j) \notin {k[1], k[2]}
  BY DEF Inv, Tables, ForeignKeys
<1>4. CASE k \in Between(j)
  BY <1>3, <1>4 DEF Between
<1>5. CASE k \notin Between(j)
  <2>1. ~Loop(k) /\ \E l \in DOMAIN edges : Contracted(j, l) = k
    BY <1>1, <1>2, <1>5 DEF Taken
  <2> QED BY <2>1, ContractedIsTakenOver
<1> QED BY <1>4, <1>5

(* An absorption contracts the external vertex into its Repo: it takes over *)
(* the edges, gains no other but for a loop, and loses none that is not     *)
(* removed by an SBOM job meanwhile, whatever else commits between its      *)
(* statements (absorb_external_repo).                                       *)
THEOREM AbsorptionsContract == Spec => AbsorptionContracts
<1> DEFINE Fits(ext, j) ==
       LET own == Source(j)
           lost == TakenOver(ext, own) \ DOMAIN edges'
           gained == DOMAIN edges' \ (TakenOver(ext, own) \cup DOMAIN edges)
       IN /\ Absorbs(j) /\ vertices[ext].is = "external" /\ vertices'[own].is = "repo"
          /\ gained \subseteq {<<own, own>>}
          /\ lost \cap DOMAIN edges = {}
          /\ \A k \in lost : \E i \in Jobs : task[i].kind = "sbom" /\ k[1] = Source(i)
<1>1. Inv /\ SbomInv /\ AbsorbInv /\ [Next]_vars =>
        \A ext \in DOMAIN vertices \ DOMAIN vertices' : \E j \in Jobs : Fits(ext, j)
  <2> SUFFICES ASSUME Inv, AbsorbInv, [Next]_vars, NEW ext \in DOMAIN vertices, ext \notin DOMAIN vertices'
               PROVE  \E j \in Jobs : Fits(ext, j)
    OBVIOUS
  <2>1. PICK j \in Jobs : Commit(j)
    BY OnlyCommits DEF graph
  <2>2. /\ pc[j] = "commit" /\ Absorbing(j) /\ pc'[j] = "absorb"
        /\ ext = Ext(j) /\ vertices[ext].is = "external" /\ Ext(j) \notin DOMAIN V(j)
        /\ vertices' = V(j) /\ edges' = E(j)
    BY <2>1, OnlyAbsorptionsDelete
  <2>3. Absorbs(j)
    BY <2>2 DEF Absorbs
  <2>4. vertices'[Source(j)].is = "repo"
    <3>1. Source(j) \in DOMAIN vertices /\ vertices[Source(j)].is = "repo"
      BY <2>2 DEF Inv, Local, SourceIsRepo
    <3> QED BY <2>1, <3>1, Committed DEF Inv, Commit
  <2>5. \A k \in TakenOver(ext, Source(j)) \ DOMAIN edges' :
          k \notin DOMAIN edges /\ \E i \in Jobs : task[i].kind = "sbom" /\ k[1] = Source(i)
    BY <2>2, LostAreRemoved
  <2>6. \A k \in DOMAIN edges' \ DOMAIN edges :
          k \in TakenOver(ext, Source(j)) \/ k = <<Source(j), Source(j)>>
    BY <2>2, GainedAreTakenOver
  <2> QED BY <2>2, <2>3, <2>4, <2>5, <2>6
<1>2. Init => Inv /\ SbomInv /\ AbsorbInv
  BY InitInv, InitIngests, InitTakes
<1>3. Inv /\ SbomInv /\ AbsorbInv /\ [Next]_vars => (Inv /\ SbomInv /\ AbsorbInv)'
  BY NextInv, NextIngests, NextTakes
<1> QED BY <1>1, <1>2, <1>3, PTL DEF Spec, AbsorptionContracts

===============================================================================
