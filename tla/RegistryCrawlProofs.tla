------------------------- MODULE RegistryCrawlProofs -------------------------
(***************************************************************************)
(* What holds of the registry crawls under any jobs, slots, repositories   *)
(* and packages, whichever requests and commits fail.                      *)
(***************************************************************************)
EXTENDS RegistryCrawl, ListProofs

-----------------------------------------------------------------------------
(* What the clients answer are lists.                                       *)

LEMMA ListFacts ==
  ASSUME NEW list, IsList(list)
  PROVE  /\ list \in Seq(ToSet(list)) /\ Len(list) \in Nat /\ DOMAIN list = 1..Len(list)
         /\ \A i \in DOMAIN list : list[i] \in ToSet(list)
BY DEF IsList, ToSet

(* The requirements that are kept, row by row.                              *)
LEMMA KeptChain ==
  ASSUME NEW system, NEW rows, IsList(rows), NEW names, \A i \in DOMAIN rows : rows[i].name \in names
  PROVE  \E g \in [0..Len(rows) -> Seq(names)] :
           /\ g[0] = <<>> /\ g[Len(rows)] = Kept(system, rows)
           /\ \A k \in 1..Len(rows) : g[k] = IF rows[k].kind \in Dropped[system] THEN g[k - 1] ELSE Append(g[k - 1], rows[k].name)
<1> DEFINE op(d, x) == IF x.kind \in Dropped[system] THEN d ELSE Append(d, x.name)
           n == Len(rows)
           D == Seq(names)
           step == [x \in D \X (1..n) |-> op(x[1], rows[x[2]])]
           P(h) == h = [s \in SUBSET DOMAIN rows |->
                          IF s = {} THEN <<>> ELSE op(h[s \ {Max(s)}], rows[Max(s)])]
           h == CHOOSE x : P(x)
           empty == <<>>
<1>1. n \in Nat /\ DOMAIN rows = 1..n
  BY ListFacts
<1>2. \A d \in D, i \in 1..n : op(d, rows[i]) \in D
  BY <1>1
<1>3. Kept(system, rows) = h[1..n]
  BY <1>1 DEF FoldLeft, MapThenFoldSet, Kept
<1>4. empty \in D
  OBVIOUS
<1> HIDE DEF op, D, empty
<1>5. IsStep(step, D, 1..n) /\ \A d \in D, i \in 1..n : step[<<d, i>>] = op(d, rows[i])
  BY <1>2 DEF IsStep
<1> HIDE DEF step, n
<1>6. /\ IsPick(LastOf(n), 1..n) /\ IsFiniteSet(1..n)
      /\ \A s \in SUBSET (1..n) : LastOf(n)[s] = Max(s) /\ (s # {} => Max(s) \in 1..n)
  BY <1>1, LastIsPicked, MaxOfNumbers
<1>7. PICK f : IsFoldOf(f, D, empty, 1..n, step, LastOf(n))
  BY <1>4, <1>5, <1>6, SubsetFoldExists
<1>8. P(f)
  <2>1. ASSUME NEW s \in SUBSET (1..n)
        PROVE  f[s] = IF s = {} THEN empty ELSE op(f[s \ {Max(s)}], rows[Max(s)])
    <3>1. s # {} => f[s \ {Max(s)}] \in D
      BY <1>7 DEF IsFoldOf
    <3> QED BY <1>5, <1>6, <1>7, <3>1 DEF IsFoldOf
  <2>2. f = [s \in SUBSET (1..n) |-> f[s]]
    BY <1>7 DEF IsFoldOf
  <2>3. f = [s \in SUBSET (1..n) |-> IF s = {} THEN empty ELSE op(f[s \ {Max(s)}], rows[Max(s)])]
    BY <2>1, <2>2, Zenon
  <2> QED BY <1>1, <2>3 DEF empty
<1>9. P(h)
  <2> HIDE DEF P
  <2> QED BY <1>8
<1> HIDE DEF h
<1>10. \A s \in SUBSET (1..n) : h[s] = IF s = {} THEN empty ELSE op(h[s \ {Max(s)}], rows[Max(s)])
  BY <1>1, <1>9, Zenon DEF empty
<1> HIDE DEF P
<1>11. Folds(h, D, empty, 1..n, step, LastOf(n))
  <2>1. h[{}] = empty
    BY <1>10
  <2>2. ASSUME NEW s \in SUBSET (1..n), s # {}, h[s \ {Max(s)}] \in D
        PROVE  h[s] = step[<<h[s \ {Max(s)}], Max(s)>>]
    BY <1>5, <1>6, <1>10, <2>2
  <2> QED BY <1>6, <2>1, <2>2 DEF Folds
<1>12. PICK g : IsChain(g, D, empty, n, step) /\ g[n] = h[1..n]
  BY <1>1, <1>4, <1>5, <1>11, FoldIsChain
<1>13. ASSUME NEW k \in 1..n PROVE g[k] = op(g[k - 1], rows[k])
  <2>1. k - 1 \in 0..n /\ g[k - 1] \in D
    BY <1>1, <1>12 DEF IsChain
  <2> QED BY <1>5, <1>12, <2>1 DEF IsChain
<1> QED BY <1>3, <1>12, <1>13 DEF IsChain, empty, op, D, n

(* The pages that are joined, page by page.                                 *)
LEMMA JoinedChain ==
  ASSUME NEW pages, IsList(pages), NEW rows, \A i \in DOMAIN pages : pages[i] \in Seq(rows)
  PROVE  \E g \in [0..Len(pages) -> Seq(rows)] :
           /\ g[0] = <<>> /\ g[Len(pages)] = Joined(pages)
           /\ \A k \in 1..Len(pages) : g[k] = g[k - 1] \o pages[k]
<1> DEFINE op(d, x) == d \o x
           n == Len(pages)
           D == Seq(rows)
           step == [x \in D \X (1..n) |-> op(x[1], pages[x[2]])]
           P(h) == h = [s \in SUBSET DOMAIN pages |->
                          IF s = {} THEN <<>> ELSE op(h[s \ {Max(s)}], pages[Max(s)])]
           h == CHOOSE x : P(x)
           empty == <<>>
<1>1. n \in Nat /\ DOMAIN pages = 1..n
  BY ListFacts
<1>2. \A d \in D, i \in 1..n : op(d, pages[i]) \in D
  BY <1>1
<1>3. Joined(pages) = h[1..n]
  BY <1>1 DEF FoldLeft, MapThenFoldSet, Joined
<1>4. empty \in D
  OBVIOUS
<1> HIDE DEF op, D, empty
<1>5. IsStep(step, D, 1..n) /\ \A d \in D, i \in 1..n : step[<<d, i>>] = op(d, pages[i])
  BY <1>2 DEF IsStep
<1> HIDE DEF step, n
<1>6. /\ IsPick(LastOf(n), 1..n) /\ IsFiniteSet(1..n)
      /\ \A s \in SUBSET (1..n) : LastOf(n)[s] = Max(s) /\ (s # {} => Max(s) \in 1..n)
  BY <1>1, LastIsPicked, MaxOfNumbers
<1>7. PICK f : IsFoldOf(f, D, empty, 1..n, step, LastOf(n))
  BY <1>4, <1>5, <1>6, SubsetFoldExists
<1>8. P(f)
  <2>1. ASSUME NEW s \in SUBSET (1..n)
        PROVE  f[s] = IF s = {} THEN empty ELSE op(f[s \ {Max(s)}], pages[Max(s)])
    <3>1. s # {} => f[s \ {Max(s)}] \in D
      BY <1>7 DEF IsFoldOf
    <3> QED BY <1>5, <1>6, <1>7, <3>1 DEF IsFoldOf
  <2>2. f = [s \in SUBSET (1..n) |-> f[s]]
    BY <1>7 DEF IsFoldOf
  <2>3. f = [s \in SUBSET (1..n) |-> IF s = {} THEN empty ELSE op(f[s \ {Max(s)}], pages[Max(s)])]
    BY <2>1, <2>2, Zenon
  <2> QED BY <1>1, <2>3 DEF empty
<1>9. P(h)
  <2> HIDE DEF P
  <2> QED BY <1>8
<1> HIDE DEF h
<1>10. \A s \in SUBSET (1..n) : h[s] = IF s = {} THEN empty ELSE op(h[s \ {Max(s)}], pages[Max(s)])
  BY <1>1, <1>9, Zenon DEF empty
<1> HIDE DEF P
<1>11. Folds(h, D, empty, 1..n, step, LastOf(n))
  <2>1. h[{}] = empty
    BY <1>10
  <2>2. ASSUME NEW s \in SUBSET (1..n), s # {}, h[s \ {Max(s)}] \in D
        PROVE  h[s] = step[<<h[s \ {Max(s)}], Max(s)>>]
    BY <1>5, <1>6, <1>10, <2>2
  <2> QED BY <1>6, <2>1, <2>2 DEF Folds
<1>12. PICK g : IsChain(g, D, empty, n, step) /\ g[n] = h[1..n]
  BY <1>1, <1>4, <1>5, <1>11, FoldIsChain
<1>13. ASSUME NEW k \in 1..n PROVE g[k] = op(g[k - 1], pages[k])
  <2>1. k - 1 \in 0..n /\ g[k - 1] \in D
    BY <1>1, <1>12 DEF IsChain
  <2> QED BY <1>5, <1>12, <2>1 DEF IsChain
<1> QED BY <1>3, <1>12, <1>13 DEF IsChain, empty, op, D, n

(* The crates that depend on a crate, row by row.                           *)
LEMMA CratesChain ==
  ASSUME NEW p, NEW rows, IsList(rows), NEW names, \A i \in DOMAIN rows : rows[i].name \in names
  PROVE  \E g \in [0..Len(rows) -> Seq(names)] :
           /\ g[0] = <<>> /\ g[Len(rows)] = RuntimeCrates(p, rows)
           /\ \A k \in 1..Len(rows) : g[k] = IF rows[k].kind = "runtime" /\ rows[k].name \notin ToSet(g[k - 1]) \cup {p} THEN Append(g[k - 1], rows[k].name) ELSE g[k - 1]
<1> DEFINE op(d, x) == IF x.kind = "runtime" /\ x.name \notin ToSet(d) \cup {p} THEN Append(d, x.name) ELSE d
           n == Len(rows)
           D == Seq(names)
           step == [x \in D \X (1..n) |-> op(x[1], rows[x[2]])]
           P(h) == h = [s \in SUBSET DOMAIN rows |->
                          IF s = {} THEN <<>> ELSE op(h[s \ {Max(s)}], rows[Max(s)])]
           h == CHOOSE x : P(x)
           empty == <<>>
<1>1. n \in Nat /\ DOMAIN rows = 1..n
  BY ListFacts
<1>2. \A d \in D, i \in 1..n : op(d, rows[i]) \in D
  BY <1>1
<1>3. RuntimeCrates(p, rows) = h[1..n]
  BY <1>1 DEF FoldLeft, MapThenFoldSet, RuntimeCrates
<1>4. empty \in D
  OBVIOUS
<1> HIDE DEF op, D, empty
<1>5. IsStep(step, D, 1..n) /\ \A d \in D, i \in 1..n : step[<<d, i>>] = op(d, rows[i])
  BY <1>2 DEF IsStep
<1> HIDE DEF step, n
<1>6. /\ IsPick(LastOf(n), 1..n) /\ IsFiniteSet(1..n)
      /\ \A s \in SUBSET (1..n) : LastOf(n)[s] = Max(s) /\ (s # {} => Max(s) \in 1..n)
  BY <1>1, LastIsPicked, MaxOfNumbers
<1>7. PICK f : IsFoldOf(f, D, empty, 1..n, step, LastOf(n))
  BY <1>4, <1>5, <1>6, SubsetFoldExists
<1>8. P(f)
  <2>1. ASSUME NEW s \in SUBSET (1..n)
        PROVE  f[s] = IF s = {} THEN empty ELSE op(f[s \ {Max(s)}], rows[Max(s)])
    <3>1. s # {} => f[s \ {Max(s)}] \in D
      BY <1>7 DEF IsFoldOf
    <3> QED BY <1>5, <1>6, <1>7, <3>1 DEF IsFoldOf
  <2>2. f = [s \in SUBSET (1..n) |-> f[s]]
    BY <1>7 DEF IsFoldOf
  <2>3. f = [s \in SUBSET (1..n) |-> IF s = {} THEN empty ELSE op(f[s \ {Max(s)}], rows[Max(s)])]
    BY <2>1, <2>2, Zenon
  <2> QED BY <1>1, <2>3 DEF empty
<1>9. P(h)
  <2> HIDE DEF P
  <2> QED BY <1>8
<1> HIDE DEF h
<1>10. \A s \in SUBSET (1..n) : h[s] = IF s = {} THEN empty ELSE op(h[s \ {Max(s)}], rows[Max(s)])
  BY <1>1, <1>9, Zenon DEF empty
<1> HIDE DEF P
<1>11. Folds(h, D, empty, 1..n, step, LastOf(n))
  <2>1. h[{}] = empty
    BY <1>10
  <2>2. ASSUME NEW s \in SUBSET (1..n), s # {}, h[s \ {Max(s)}] \in D
        PROVE  h[s] = step[<<h[s \ {Max(s)}], Max(s)>>]
    BY <1>5, <1>6, <1>10, <2>2
  <2> QED BY <1>6, <2>1, <2>2 DEF Folds
<1>12. PICK g : IsChain(g, D, empty, n, step) /\ g[n] = h[1..n]
  BY <1>1, <1>4, <1>5, <1>11, FoldIsChain
<1>13. ASSUME NEW k \in 1..n PROVE g[k] = op(g[k - 1], rows[k])
  <2>1. k - 1 \in 0..n /\ g[k - 1] \in D
    BY <1>1, <1>12 DEF IsChain
  <2> QED BY <1>5, <1>12, <2>1 DEF IsChain
<1> QED BY <1>3, <1>12, <1>13 DEF IsChain, empty, op, D, n

LEMMA KeptNames ==
  ASSUME NEW system, NEW rows, IsList(rows)
  PROVE  Kept(system, rows) \in Seq(ToSet(Kept(system, rows)))
<1> DEFINE names == {rows[i].name : i \in DOMAIN rows}
<1>1. \A i \in DOMAIN rows : rows[i].name \in names
  OBVIOUS
<1> HIDE DEF names
<1>2. Len(rows) \in Nat
  BY ListFacts
<1>3. Kept(system, rows) \in Seq(names)
  BY <1>1, <1>2, KeptChain
<1> QED BY <1>3 DEF ToSet

LEMMA RequirementsAreLists ==
  ASSUME NEW p \in Packages, NEW version
  PROVE  RequirementsOf(p, version) \in Seq(ToSet(RequirementsOf(p, version)))
<1> DEFINE versions == Published[p].versions
           selected == {i \in DOMAIN versions : versions[i].version = version}
<1>1. IsPublication(Published[p])
  BY ClientConstants DEF ClientConstants
<1>2. CASE selected = {}
  <2>1. RequirementsOf(p, version) = <<>>
    BY <1>2 DEF RequirementsOf
  <2> QED BY <2>1 DEF ToSet
<1>3. CASE selected # {}
  <2>1. DOMAIN versions = 1..Len(versions) /\ Len(versions) \in Nat
    BY <1>1, ListFacts DEF IsPublication
  <2>2. Min(selected) \in DOMAIN versions
    BY <1>3, <2>1, MinOfNumbers
  <2>3. IsList(versions[Min(selected)].requires)
    BY <1>1, <2>2 DEF IsPublication, AreRows
  <2>4. RequirementsOf(p, version) = Kept(System(p), versions[Min(selected)].requires)
    BY <1>3 DEF RequirementsOf
  <2> QED BY <2>3, <2>4, KeptNames
<1> QED BY <1>2, <1>3

(* npm's answer is that of another crawler but for its address.             *)
LEMMA NpmIsCrawled ==
  ASSUME NEW p, NEW missing, NEW result
  PROVE  \E selected :
           LET npm == ParseNpm(p, missing, result) IN
           /\ npm.requires = RequirementsOf(p, selected) /\ ~npm.raised
           /\ npm.downloads = Downloads30d(p, result)
           /\ npm.releases = SortedReleasesDesc(NpmReleases(p, missing))
<1>1. ASSUME NEW version, NEW selected, NEW list, NEW count, NEW url
      PROVE  LET npm == [Crawled(p, version, selected, list, count) EXCEPT !.url = url] IN
             /\ npm.requires = RequirementsOf(p, selected) /\ ~npm.raised
             /\ npm.downloads = count /\ npm.releases = list
  BY DEF Crawled
<1> HIDE DEF Crawled
<1>2. QED BY <1>1 DEF ParseNpm

LEMMA PackagesAnswerLists ==
  ASSUME NEW p \in Packages, NEW crawled \in PackageAnswers[p], ~crawled.raised
  PROVE  crawled.requires \in Seq(ToSet(crawled.requires))
<1>1. \/ \E first, second \in Results : crawled = FetchPackage(p, first, second)
      \/ System(p) = "NPM" /\ \E missing \in SUBSET NpmFields, second \in Results :
                                 crawled = FetchNpmWithout(p, missing, second)
  BY DEF PackageAnswers, PartialAnswers
<1>2. System(p) \in Systems
  BY ClientConstants DEF ClientConstants, IsPublication, System
<1>3. Raised.raised
  BY DEF Raised
<1>4. \E version : crawled.requires = RequirementsOf(p, version)
  <2>1. ASSUME NEW version, NEW selected, NEW rels, NEW total
        PROVE  Crawled(p, version, selected, rels, total).requires = RequirementsOf(p, selected)
    BY DEF Crawled
  <2>9. \A missing, second : \E version : ParseNpm(p, missing, second).requires = RequirementsOf(p, version)
    BY NpmIsCrawled
  <2> HIDE DEF Crawled, RequirementsOf
  <2>2. CASE System(p) = "CARGO"
    BY <1>1, <1>3, <2>1, <2>2 DEF FetchPackage, FetchCrate, ParseCrate
  <2>3. CASE System(p) = "NPM"
    BY <1>1, <1>3, <2>3, <2>9 DEF FetchPackage, FetchNpm, FetchNpmWithout, FetchCounted
  <2>4. CASE System(p) = "COMPOSER"
    BY <1>1, <1>3, <2>1, <2>4 DEF FetchPackage, FetchPackagist, FetchCounted, ParsePackagist
  <2>5. CASE System(p) = "DART"
    BY <1>1, <1>3, <2>1, <2>5 DEF FetchPackage, FetchPubDev, FetchCounted, ParsePubDev
  <2>6. CASE System(p) = "PYPI"
    BY <1>1, <1>3, <2>1, <2>6 DEF FetchPackage, FetchPyPI, FetchCounted, ParsePyPI
  <2> QED BY <1>2, <2>2, <2>3, <2>4, <2>5, <2>6 DEF Systems
<1> QED BY <1>4, RequirementsAreLists

-----------------------------------------------------------------------------
(* What the first pages list.                                               *)
LEMMA PagesAre ==
  ASSUME NEW p \in Packages
  PROVE  LET pages == Published[p].dependents IN
         /\ IsList(pages) /\ Len(pages) \in Nat \ {0} /\ DOMAIN pages = 1..Len(pages)
         /\ \A i \in DOMAIN pages : IsList(pages[i])
<1>1. IsPublication(Published[p])
  BY ClientConstants DEF ClientConstants
<1> QED BY <1>1, ListFacts DEF IsPublication, AreRows, IsList

LEMMA ListedIs ==
  ASSUME NEW p \in Packages, NEW n \in 0..Len(Published[p].dependents)
  PROVE  /\ IsList(Listed(p, n))
         /\ ToSet(Listed(p, n)) = UNION {ToSet(Published[p].dependents[i]) : i \in 1..n}
<1> DEFINE pages == Published[p].dependents
           first == SubSeq(pages, 1, n)
           rows == UNION {ToSet(pages[i]) : i \in DOMAIN pages}
<1>1. IsList(pages) /\ Len(pages) \in Nat /\ DOMAIN pages = 1..Len(pages) /\ \A i \in DOMAIN pages : IsList(pages[i])
  BY PagesAre
<1>2. pages \in Seq(ToSet(pages))
  BY <1>1 DEF IsList
<1>3. \A i \in DOMAIN pages : pages[i] \in Seq(rows)
  <2> SUFFICES ASSUME NEW i \in DOMAIN pages PROVE pages[i] \in Seq(rows)
    OBVIOUS
  <2>1. pages[i] \in Seq(ToSet(pages[i])) /\ ToSet(pages[i]) \subseteq rows
    BY <1>1 DEF IsList
  <2> HIDE DEF rows, pages
  <2> QED BY <2>1
<1> HIDE DEF rows
<1>4. Len(first) = n /\ DOMAIN first = 1..n /\ first \in Seq(ToSet(pages)) /\ \A i \in 1..n : first[i] = pages[i]
  <2>1. n \in Nat /\ n <= Len(pages)
    BY <1>1
  <2> HIDE DEF pages
  <2>2. Len(first) = n /\ DOMAIN first = 1..n /\ \A i \in 1..n : first[i] = pages[i]
    BY <1>1, <1>2, <2>1
  <2>3. \A i \in 1..n : first[i] \in ToSet(pages)
    BY <1>1, <2>1, <2>2 DEF ToSet
  <2>4. first = [i \in 1..n |-> first[i]]
    BY <1>1, <1>2, <2>1
  <2>5. first \in Seq(ToSet(pages))
    BY <2>1, <2>2, <2>3, <2>4
  <2> QED BY <2>2, <2>5
<1>5. IsList(first)
  <2> HIDE DEF first
  <2>1. \A i \in 1..n : first[i] \in ToSet(first)
    BY <1>4 DEF ToSet
  <2> QED BY <1>4, <2>1 DEF IsList
<1>6. \A i \in DOMAIN first : first[i] \in Seq(rows)
  BY <1>1, <1>3, <1>4
<1>7. Listed(p, n) = Joined(first)
  BY DEF Listed
<1> HIDE DEF first, pages
<1>8. PICK g \in [0..Len(first) -> Seq(rows)] :
        /\ g[0] = <<>> /\ g[Len(first)] = Joined(first)
        /\ \A k \in 1..Len(first) : g[k] = g[k - 1] \o first[k]
  BY <1>5, <1>6, JoinedChain
<1> DEFINE Upto == {k \in Nat : k <= n => ToSet(g[k]) = UNION {ToSet(pages[i]) : i \in 1..k}}
<1>9. 0 \in Upto
  <2>1. ToSet(g[0]) = {} /\ 1..0 = {}
    BY <1>8 DEF ToSet
  <2>2. UNION {ToSet(pages[i]) : i \in {}} = {}
    OBVIOUS
  <2> QED BY <2>1, <2>2
<1>10. ASSUME NEW k \in Nat, k \in Upto PROVE k + 1 \in Upto
  <2>1. CASE k + 1 <= n
    <3>1. k + 1 \in 1..n /\ k \in 0..n /\ (k + 1) - 1 = k
      BY <2>1
    <3>2. g[k + 1] = g[k] \o pages[k + 1] /\ g[k] \in Seq(rows) /\ pages[k + 1] \in Seq(rows)
      BY <1>4, <1>6, <1>8, <3>1
    <3>3. ToSet(g[k + 1]) = ToSet(g[k]) \cup ToSet(pages[k + 1])
      BY <3>2, JoinedSet
    <3>4. ToSet(g[k]) = UNION {ToSet(pages[i]) : i \in 1..k}
      BY <1>10, <3>1
    <3>5. 1..(k + 1) = (1..k) \cup {k + 1}
      OBVIOUS
    <3> QED BY <3>3, <3>4, <3>5
  <2> QED BY <2>1
<1>11. n \in Upto
  <2>1. Nat \subseteq Upto
    <3> HIDE DEF Upto
    <3> QED BY <1>9, <1>10, Induction
  <2> QED BY <2>1
<1>12. g[n] \in Seq(rows) /\ Listed(p, n) = g[n]
  <2>1. Len(first) = n /\ n \in 0..n
    BY <1>4
  <2> QED BY <1>7, <1>8, <2>1
<1>13. IsList(Listed(p, n))
  BY <1>12 DEF IsList, ToSet
<1> QED BY <1>11, <1>12, <1>13 DEF pages

LEMMA ListedTogether ==
  ASSUME NEW p \in Packages, NEW n \in 0..Len(Published[p].dependents)
  PROVE  /\ IsList(Listed(p, n))
         /\ \A i \in DOMAIN Listed(p, n) : Listed(p, n)[i].name \in Dependents(p)
<1> DEFINE m == Len(Published[p].dependents)
<1>1. m \in Nat
  BY PagesAre
<1>2. m \in 0..m /\ 1..n \subseteq 1..m
  BY <1>1
<1>3. ToSet(Listed(p, n)) \subseteq ToSet(Listed(p, m))
  BY <1>2, ListedIs
<1>4. Dependents(p) = {Listed(p, m)[i].name : i \in DOMAIN Listed(p, m)}
  BY DEF Dependents, NamesIn, ToSet
<1>5. \A d \in ToSet(Listed(p, m)) : d.name \in Dependents(p)
  BY <1>4 DEF ToSet
<1>6. \A i \in DOMAIN Listed(p, n) : Listed(p, n)[i] \in ToSet(Listed(p, m))
  BY <1>3 DEF ToSet
<1> QED BY <1>5, <1>6, ListedIs

(* The names of what is listed, and of the crates among them.               *)
LEMMA PackagedNames ==
  ASSUME NEW p \in Packages, NEW n \in 0..Len(Published[p].dependents)
  PROVE  Packaged(p, n) \in Seq(Dependents(p))
<1> DEFINE rows == Listed(p, n)
<1>1. DOMAIN rows = 1..Len(rows) /\ Len(rows) \in Nat /\ \A i \in DOMAIN rows : rows[i].name \in Dependents(p)
  BY ListedTogether, ListFacts
<1>2. Packaged(p, n) = [i \in 1..Len(rows) |-> rows[i].name]
  BY <1>1 DEF Packaged, NamesIn
<1> HIDE DEF rows
<1> QED BY <1>1, <1>2

LEMMA CratesNames ==
  ASSUME NEW p \in Packages, NEW n \in 0..Len(Published[p].dependents)
  PROVE  Crates(p, n) \in Seq(Dependents(p))
<1> DEFINE rows == Listed(p, n)
           names == Dependents(p)
<1>1. IsList(rows) /\ Len(rows) \in Nat /\ \A i \in DOMAIN rows : rows[i].name \in names
  BY ListedTogether, ListFacts
<1>2. Crates(p, n) = RuntimeCrates(p, rows)
  BY DEF Crates
<1> HIDE DEF rows, names
<1>3. RuntimeCrates(p, rows) \in Seq(names)
  BY <1>1, CratesChain
<1> QED BY <1>2, <1>3 DEF names

LEMMA PagesAvailable ==
  ASSUME NEW p \in Packages
  PROVE  Available(p) \in 1..Len(Published[p].dependents)
<1>1. Len(Published[p].dependents) \in Nat \ {0} /\ MaxPages \in Nat \ {0}
  BY PagesAre, ClientConstants DEF ClientConstants
<1> QED BY <1>1, SmallerOf DEF Available

LEMMA PagesAsked ==
  ASSUME NEW p \in Packages, NEW names
  PROVE  PagesNeeded(p, names) \in 1..Len(Published[p].dependents)
<1> DEFINE enough == {n \in 1..Available(p) : Len(names[n]) >= MaxDependents}
<1>1. Available(p) \in 1..Len(Published[p].dependents) /\ Len(Published[p].dependents) \in Nat
  BY PagesAvailable, PagesAre
<1>2. enough # {} => Min(enough) \in enough
  <2>1. Available(p) \in Nat /\ enough \in SUBSET (1..Available(p))
    BY <1>1
  <2> HIDE DEF enough
  <2> QED BY <2>1, MinOfNumbers
<1>3. PagesNeeded(p, names) = IF enough = {} THEN Available(p) ELSE Min(enough)
  BY DEF PagesNeeded
<1> QED BY <1>1, <1>2, <1>3

LEMMA FirstFailing ==
  ASSUME NEW asked \in Nat, NEW answers, Failing(answers, asked) # {}
  PROVE  Min(Failing(answers, asked)) \in 1..asked
BY MinOfNumbers DEF Failing

LEMMA FirstNames ==
  ASSUME NEW S, NEW names \in Seq(S), NEW n \in 0..Len(names)
  PROVE  SubSeq(names, 1, n) \in Seq(S)
OBVIOUS

LEMMA DependentsAnswerLists ==
  ASSUME NEW p \in Packages, NEW answer \in DependentsAnswers[p], ~answer.raised
  PROVE  answer.names \in Seq(Dependents(p))
<1>1. PICK answers \in [1..MaxPages -> Results] : answer = FetchDependents(p, answers)
  BY DEF DependentsAnswers
<1>2. Raised.raised
  BY DEF Raised
<1>3. \A names : Fetched(names).names = names
  BY DEF Fetched
<1> DEFINE last == Len(Published[p].dependents)
<1>4. last \in Nat \ {0} /\ 1 \in 0..last
  BY PagesAre
<1> HIDE DEF last
<1>5. \A n \in 0..last : Packaged(p, n) \in Seq(Dependents(p)) /\ Crates(p, n) \in Seq(Dependents(p))
  BY PackagedNames, CratesNames DEF last
<1> DEFINE read(asked) == IF Failing(answers, asked) = {} THEN asked ELSE Min(Failing(answers, asked)) - 1
<1>6. \A asked \in 1..last : read(asked) \in 0..last
  <2> SUFFICES ASSUME NEW asked \in 1..last PROVE read(asked) \in 0..last
    OBVIOUS
  <2>1. asked \in Nat /\ asked \in 0..last
    BY <1>4
  <2>2. Failing(answers, asked) # {} => Min(Failing(answers, asked)) \in 1..asked
    BY <2>1, FirstFailing
  <2> QED BY <1>4, <2>1, <2>2
<1>7. CASE System(p) = "CARGO"
  <2> DEFINE asked == PagesNeeded(p, [n \in 1..Available(p) |-> Crates(p, n)])
             k == read(asked)
             names == Crates(p, k)
             n == Min({Len(names), MaxDependents})
  <2>1. asked \in 1..last
    BY PagesAsked DEF last
  <2>2. k \in 0..last
    <3> HIDE DEF asked, read
    <3> QED BY <1>6, <2>1
  <2>3. names \in Seq(Dependents(p))
    BY <1>5, <2>2
  <2>4. n \in 0..Len(names)
    <3>1. Len(names) \in Nat /\ MaxDependents \in Nat
      BY <2>3, ClientConstants DEF ClientConstants
    <3> HIDE DEF names
    <3> QED BY <3>1, SmallerOf
  <2>5. answer = Fetched(SubSeq(names, 1, n))
    BY <1>1, <1>2, <1>7 DEF FetchDependents, FetchCrateDependents
  <2> HIDE DEF names, n
  <2> QED BY <1>3, <2>3, <2>4, <2>5, FirstNames
<1>8. CASE System(p) = "DART"
  <2> DEFINE asked == PagesNeeded(p, [n \in 1..Available(p) |-> Packaged(p, n)])
             k == read(asked)
  <2>1. asked \in 1..last
    BY PagesAsked DEF last
  <2>2. k \in 0..last
    <3> HIDE DEF asked, read
    <3> QED BY <1>6, <2>1
  <2>3. answer = Fetched(Packaged(p, k))
    BY <1>1, <1>2, <1>8 DEF FetchDependents, FetchPubDevDependents
  <2> HIDE DEF k, read, asked
  <2> QED BY <1>3, <1>5, <2>2, <2>3
<1>9. CASE System(p) = "COMPOSER"
  <2>1. answer \in {Fetched(Packaged(p, 1)), Fetched(<<>>)}
    BY <1>1, <1>2, <1>9 DEF FetchDependents, FetchPackagistDependents
  <2>2. <<>> \in Seq(Dependents(p))
    OBVIOUS
  <2> QED BY <1>3, <1>4, <1>5, <2>1, <2>2
<1>10. CASE System(p) \notin {"CARGO", "DART", "COMPOSER"}
  <2>1. answer = Fetched(<<>>)
    BY <1>1, <1>10 DEF FetchDependents
  <2>2. <<>> \in Seq(Dependents(p))
    OBVIOUS
  <2> QED BY <1>3, <2>1, <2>2
<1> QED BY <1>7, <1>8, <1>9, <1>10

(* Answers are lists, and dependents are named only if they are listed.     *)
AnswersAreLists ==
  \A p \in Packages :
    /\ \A crawled \in PackageAnswers[p] : ~crawled.raised => crawled.requires \in Seq(ToSet(crawled.requires))
    /\ \A answer \in DependentsAnswers[p] : ~answer.raised => answer.names \in Seq(Dependents(p))

LEMMA AnswersLists == AnswersAreLists
BY PackagesAnswerLists, DependentsAnswerLists DEF AnswersAreLists

-----------------------------------------------------------------------------
(* The state of the slots.                                                  *)

Pcs == {"fetch", "load", "flush", "visit", "insert", "dependents", "commit"}

(* The fields of a slot, as far as its job has got.                         *)
Shaped(s) ==
  Busy(s) =>
    /\ {"pc", "job", "at", "done"} \subseteq DOMAIN slots[s]
    /\ slots[s].pc \in Pcs
    /\ slots[s].job \in DOMAIN Jobs /\ slots[s].at \in DOMAIN Jobs[slots[s].job]
    /\ slots[s].done \in Nat
    /\ slots[s].pc # "fetch" =>
         /\ "crawled" \in DOMAIN slots[s]
         /\ slots[s].crawled \in PackageAnswers[Package(s)] /\ ~slots[s].crawled.raised
    /\ Open(s) =>
         /\ {"repo", "downloads", "releases", "writes", "new", "links"} \subseteq DOMAIN slots[s]
         /\ slots[s].repo \in Repos
    /\ Open(s) /\ slots[s].pc # "flush" => {"rest", "asked"} \subseteq DOMAIN slots[s]

(* Each job in progress is on one slot, until the worker ends.              *)
Held ==
  /\ \A s \in Slots : Busy(s) => stage = "working" /\ jobs[slots[s].job] = "doing"
  /\ \A s, t \in Slots : Busy(s) /\ Busy(t) /\ slots[s].job = slots[t].job => s = t

Typed ==
  /\ slots = [s \in Slots |-> slots[s]] /\ jobs = [j \in DOMAIN Jobs |-> jobs[j]]
  /\ DOMAIN downloads = Repos /\ DOMAIN counted = Repos
  /\ faults \in Nat
  /\ \A s \in Slots : Shaped(s)
  /\ Held

LEMMA GoSlot ==
  ASSUME Typed, NEW s \in Slots, NEW fields, Go(s, fields)
  PROVE  /\ slots' = [t \in Slots |-> slots'[t]]
         /\ \A t \in Slots \ {s} : slots'[t] = slots[t]
         /\ DOMAIN slots'[s] = DOMAIN fields \cup DOMAIN slots[s]
         /\ \A x \in DOMAIN fields : slots'[s][x] = fields[x]
         /\ \A x \in DOMAIN slots[s] \ DOMAIN fields : slots'[s][x] = slots[s][x]
<1>1. /\ slots' = [t \in Slots |-> slots'[t]]
      /\ \A t \in Slots \ {s} : slots'[t] = slots[t]
      /\ slots'[s] = Over(fields, slots[s])
  BY DEF Typed, Go
<1> QED BY <1>1 DEF Over

(* A step of one slot that keeps its job, or frees the slot.                *)
LEMMA OneSlotMoves ==
  ASSUME Typed, NEW s \in Slots, Busy(s),
         slots' = [t \in Slots |-> slots'[t]], \A t \in Slots \ {s} : slots'[t] = slots[t],
         DOMAIN downloads' = Repos, DOMAIN counted' = Repos,
         faults' \in Nat, UNCHANGED stage,
         Busy(s)' => Shaped(s)' /\ slots'[s].job = slots[s].job /\ UNCHANGED jobs,
         ~Busy(s)' => \E v : jobs' = [jobs EXCEPT ![slots[s].job] = v]
  PROVE  Typed'
<1>1. \A t \in Slots \ {s} : Shaped(t)' /\ Busy(t)' = Busy(t)
  BY DEF Typed, Shaped, Busy, Open, Package
<1>2. Shaped(s)'
  BY DEF Shaped
<1>3. jobs' = [j \in DOMAIN Jobs |-> jobs'[j]]
  BY DEF Typed
<1>4. ASSUME NEW t \in Slots \ {s}, Busy(t)
      PROVE  slots[t].job # slots[s].job /\ jobs'[slots[t].job] = jobs[slots[t].job]
  <2>1. slots[t].job # slots[s].job /\ slots[t].job \in DOMAIN Jobs
    BY <1>4 DEF Typed, Held, Shaped
  <2>2. UNCHANGED jobs \/ \E v : jobs' = [jobs EXCEPT ![slots[s].job] = v]
    OBVIOUS
  <2> QED BY <2>1, <2>2 DEF Typed
<1>5. Held'
  <2>1. \A t \in Slots : Busy(t)' => stage' = "working" /\ jobs'[slots'[t].job] = "doing"
    BY <1>1, <1>4 DEF Typed, Held
  <2>2. \A t, u \in Slots : Busy(t)' /\ Busy(u)' /\ slots'[t].job = slots'[u].job => t = u
    BY <1>1, <1>4 DEF Typed, Held
  <2> QED BY <2>1, <2>2 DEF Held
<1> QED BY <1>1, <1>2, <1>3, <1>5 DEF Typed

(* A package ends, and with the last one its job.                           *)
LEMMA PackageEnds ==
  ASSUME Typed, NEW s \in Slots, Busy(s), NEW done \in Nat, NextPackage(s, done)
  PROVE  /\ slots' = [t \in Slots |-> slots'[t]]
         /\ \A t \in Slots \ {s} : slots'[t] = slots[t]
         /\ Busy(s)' => /\ Shaped(s)' /\ slots'[s].job = slots[s].job /\ UNCHANGED jobs
                        /\ slots'[s].pc = "fetch" /\ slots'[s].done = done
         /\ ~Busy(s)' => jobs' = [jobs EXCEPT ![slots[s].job] = IF done = 0 THEN "failed" ELSE "succeeded"]
         /\ ~Open(s)'
<1> DEFINE j == slots[s].job
           next == [pc |-> "fetch", job |-> j, at |-> slots[s].at + 1, done |-> done]
<1>1. j \in DOMAIN Jobs /\ slots[s].at \in DOMAIN Jobs[j] /\ Jobs[j] \in Seq(Packages)
  BY CrawlConstants DEF Typed, Shaped
<1>2. CASE slots[s].at < Len(Jobs[j])
  <2>1. slots' = [slots EXCEPT ![s] = next] /\ UNCHANGED jobs
    BY <1>2 DEF NextPackage
  <2>2. slots[s].at + 1 \in DOMAIN Jobs[j]
    BY <1>1, <1>2
  <2>3. slots'[s] = next
    BY <2>1 DEF Typed
  <2>4. Shaped(s)' /\ ~Open(s)'
    BY <1>1, <2>2, <2>3 DEF Shaped, Open, Busy, Pcs
  <2>5. Busy(s)'
    BY <2>3 DEF Busy
  <2> QED BY <2>1, <2>3, <2>4, <2>5 DEF Typed
<1>3. CASE ~(slots[s].at < Len(Jobs[j]))
  <2>1. /\ slots' = [slots EXCEPT ![s] = Idle]
        /\ jobs' = [jobs EXCEPT ![j] = IF done = 0 THEN "failed" ELSE "succeeded"]
    BY <1>3 DEF NextPackage
  <2>2. slots'[s] = Idle
    BY <2>1 DEF Typed
  <2>3. ~Busy(s)' /\ ~Open(s)'
    BY <2>2 DEF Busy, Open, Idle
  <2> QED BY <2>1, <2>3 DEF Typed
<1> QED BY <1>2, <1>3

LEMMA InitTyped == Init => Typed
<1> SUFFICES ASSUME Init PROVE Typed
  OBVIOUS
<1>1. \A s \in Slots : ~Busy(s)
  BY DEF Init, Busy, Idle
<1>2. /\ slots = [s \in Slots |-> slots[s]] /\ jobs = [j \in DOMAIN Jobs |-> jobs[j]]
      /\ DOMAIN downloads = Repos /\ DOMAIN counted = Repos /\ faults = 0
  BY CrawlConstants DEF Init, CrawlConstants
<1> QED BY <1>1, <1>2 DEF Typed, Held, Shaped

LEMMA PackageFails ==
  ASSUME Typed, NEW s \in Slots, Busy(s), FailPackage(s), UNCHANGED stage, faults' \in Nat
  PROVE  Typed'
<1>1. slots[s].done \in Nat /\ NextPackage(s, slots[s].done) /\ UNCHANGED <<downloads, counted>>
  BY DEF Typed, Shaped, FailPackage, graph, history
<1>2. DOMAIN downloads' = Repos /\ DOMAIN counted' = Repos
  BY <1>1 DEF Typed
<1> QED BY <1>1, <1>2, PackageEnds, OneSlotMoves

(* A step that only takes a slot further.                                   *)
LEMMA SlotGoes ==
  ASSUME Typed, NEW s \in Slots, Busy(s), NEW fields, Go(s, fields),
         "job" \notin DOMAIN fields, Busy(s)', Shaped(s)',
         UNCHANGED <<stage, jobs, downloads, counted>>, faults' \in Nat
  PROVE  Typed'
<1>1. slots'[s].job = slots[s].job
  BY GoSlot DEF Typed, Shaped
<1>2. DOMAIN downloads' = Repos /\ DOMAIN counted' = Repos
  BY DEF Typed
<1> QED BY <1>1, <1>2, GoSlot, OneSlotMoves

LEMMA Faulty == ASSUME Typed, Fault \/ UNCHANGED faults PROVE faults' \in Nat
BY DEF Typed, Fault

LEMMA FetchTyped == ASSUME Typed, NEW s \in Slots, Fetch(s) PROVE Typed'
<1>1. PICK j \in DOMAIN Jobs :
        /\ stage = "working" /\ ~Busy(s) /\ jobs[j] = "todo"
        /\ jobs' = [jobs EXCEPT ![j] = "doing"]
        /\ slots' = [slots EXCEPT ![s] = [pc |-> "fetch", job |-> j, at |-> 1, done |-> 0]]
        /\ UNCHANGED <<stage, downloads, counted, faults>>
  BY DEF Fetch, graph, history
<1>2. slots'[s] = [pc |-> "fetch", job |-> j, at |-> 1, done |-> 0]
  BY <1>1 DEF Typed
<1>3. \A t \in Slots \ {s} : slots'[t] = slots[t]
  BY <1>1 DEF Typed
<1>4. 1 \in DOMAIN Jobs[j]
  BY CrawlConstants DEF CrawlConstants
<1>5. Shaped(s)' /\ Busy(s)'
  BY <1>1, <1>2, <1>4 DEF Shaped, Busy, Open, Pcs
<1>6. \A t \in Slots \ {s} : Shaped(t)' /\ Busy(t)' = Busy(t)
  BY <1>3 DEF Typed, Shaped, Busy, Open, Package
<1>7. \A t \in Slots \ {s} : Busy(t) => slots[t].job # j /\ jobs'[slots[t].job] = "doing"
  BY <1>1 DEF Typed, Held, Shaped
<1>8. Held'
  <2>1. \A t \in Slots : Busy(t)' => stage' = "working" /\ jobs'[slots'[t].job] = "doing"
    BY <1>1, <1>2, <1>3, <1>6, <1>7 DEF Typed, Held
  <2>2. \A t, u \in Slots : Busy(t)' /\ Busy(u)' /\ slots'[t].job = slots'[u].job => t = u
    BY <1>2, <1>3, <1>6, <1>7 DEF Typed, Held
  <2> QED BY <2>1, <2>2 DEF Held
<1> QED BY <1>1, <1>5, <1>6, <1>8 DEF Typed

LEMMA FetchPackageTyped == ASSUME Typed, NEW s \in Slots, FetchPackageOf(s) PROVE Typed'
<1>1. PICK crawled \in PackageAnswers[Package(s)] :
        /\ slots[s].pc = "fetch" /\ UNCHANGED stage
        /\ IF crawled = FetchPackage(Package(s), "ok", "ok") THEN UNCHANGED faults ELSE Fault
        /\ IF crawled.raised THEN FailPackage(s)
           ELSE Go(s, [pc |-> "load", crawled |-> crawled]) /\ UNCHANGED <<jobs, graph, history>>
  BY DEF FetchPackageOf
<1>2. Busy(s) /\ faults' \in Nat
  BY <1>1, Faulty DEF Busy
<1>3. CASE crawled.raised
  BY <1>1, <1>2, <1>3, PackageFails
<1>4. CASE ~crawled.raised
  <2> DEFINE fields == [pc |-> "load", crawled |-> crawled]
  <2>1. Go(s, fields) /\ UNCHANGED <<jobs, downloads, counted>>
    BY <1>1, <1>4 DEF graph, history
  <2>2. DOMAIN fields = {"pc", "crawled"} /\ fields["pc"] = "load" /\ fields["crawled"] = crawled
    OBVIOUS
  <2> HIDE DEF fields
  <2>3. /\ {"pc", "job", "at", "done", "crawled"} \subseteq DOMAIN slots'[s]
        /\ slots'[s].pc = "load" /\ slots'[s].crawled = crawled
        /\ slots'[s].job = slots[s].job /\ slots'[s].at = slots[s].at /\ slots'[s].done = slots[s].done
    BY <1>2, <2>1, <2>2, GoSlot DEF Typed, Shaped
  <2>4. Busy(s)' /\ Shaped(s)'
    BY <1>1, <1>2, <1>4, <2>3 DEF Typed, Shaped, Busy, Open, Pcs, Package
  <2> QED BY <1>1, <1>2, <2>1, <2>2, <2>4, SlotGoes
<1> QED BY <1>3, <1>4

-----------------------------------------------------------------------------
(* What each step does to its slot.                                         *)

(* A slot goes on with its package.                                         *)
Continues(s) ==
  /\ slots' = [t \in Slots |-> slots'[t]] /\ \A t \in Slots \ {s} : slots'[t] = slots[t]
  /\ {"pc", "job", "at", "done", "crawled"} \subseteq DOMAIN slots'[s]
  /\ slots'[s].job = slots[s].job /\ slots'[s].at = slots[s].at /\ slots'[s].done = slots[s].done
  /\ slots'[s].crawled = slots[s].crawled
  /\ UNCHANGED <<stage, jobs, downloads, releases, externals, edges, adoption, scores, processed, counted, overlapped>>

(* It goes on with its transaction.                                         *)
Columns == {"repo", "downloads", "releases", "writes", "new", "links"}
SameRow(s) ==
  /\ Columns \cup {"rest", "asked"} \subseteq DOMAIN slots'[s]
  /\ slots'[s].repo = slots[s].repo /\ slots'[s].downloads = slots[s].downloads
  /\ slots'[s].releases = slots[s].releases /\ slots'[s].writes = slots[s].writes

LEMMA SamePackage == ASSUME NEW s, Continues(s) PROVE Package(s)' = Package(s)
BY DEF Continues, Package

LEMMA LoadStep ==
  ASSUME Typed, NEW s \in Slots, LoadSourceRepo(s), ~FailPackage(s)
  PROVE  \E r \in Repos :
           /\ Continues(s) /\ Columns \subseteq DOMAIN slots'[s]
           /\ slots'[s].pc = "flush" /\ slots'[s].repo = r /\ slots'[s].downloads = downloads[r]
           /\ slots'[s].releases = releases[r]
           /\ slots'[s].new = {} /\ slots'[s].links = {}
<1>1. PICK r \in SourceRepos(s) :
        /\ Go(s, [pc |-> "flush", repo |-> r, downloads |-> downloads[r], releases |-> releases[r],
                  writes |-> {}, new |-> {}, links |-> {}])
        /\ UNCHANGED <<jobs, graph, history>>
  BY DEF LoadSourceRepo
<1>2. r \in Repos /\ slots[s].pc = "load" /\ Busy(s) /\ UNCHANGED <<stage, metrics>>
  BY DEF SourceRepos, FindRepoByReleasePurl, LoadSourceRepo, Busy
<1> DEFINE fields == [pc |-> "flush", repo |-> r, downloads |-> downloads[r], releases |-> releases[r],
                      writes |-> {}, new |-> {}, links |-> {}]
<1>3. /\ DOMAIN fields = {"pc"} \cup Columns
      /\ fields["pc"] = "flush" /\ fields["repo"] = r /\ fields["downloads"] = downloads[r] /\ fields["releases"] = releases[r]
      /\ fields["new"] = {} /\ fields["links"] = {}
  BY DEF Columns
<1>4. Go(s, fields)
  BY <1>1
<1> HIDE DEF fields
<1>5. {"pc", "job", "at", "done", "crawled"} \subseteq DOMAIN slots[s]
  BY <1>2 DEF Typed, Shaped
<1>6. Continues(s)
  BY <1>1, <1>2, <1>3, <1>4, <1>5, GoSlot DEF Continues, Columns, graph, metrics, history
<1>7. /\ Columns \subseteq DOMAIN slots'[s]
      /\ slots'[s].pc = "flush" /\ slots'[s].repo = r /\ slots'[s].downloads = downloads[r]
      /\ slots'[s].releases = releases[r]
      /\ slots'[s].new = {} /\ slots'[s].links = {}
  BY <1>3, <1>4, GoSlot DEF Columns
<1> QED BY <1>2, <1>6, <1>7

LEMMA FlushStep ==
  ASSUME Typed, NEW s \in Slots, FlushSourceRepo(s)
  PROVE  /\ Continues(s) /\ Columns \cup {"rest", "asked"} \subseteq DOMAIN slots'[s]
         /\ slots'[s].pc = "visit" /\ slots'[s].repo = slots[s].repo
         /\ slots'[s].downloads = MergeDownload(slots[s].downloads, Package(s), slots[s].crawled.downloads)
         /\ slots'[s].releases = MergeReleases(slots[s].releases, PackageReleases(Package(s), slots[s].crawled))
         /\ "downloads" \notin slots'[s].writes => slots'[s].downloads = slots[s].downloads
         /\ slots'[s].new = slots[s].new /\ slots'[s].links = slots[s].links /\ slots'[s].asked = FALSE
         /\ slots'[s].rest = LinksTo(slots[s].repo, slots[s].crawled.requires)
<1> DEFINE changed == {c \in {"downloads", "releases"} : Row(s)[c] # slots[s][c]}
           next == [pc |-> "visit", writes |-> changed, asked |-> FALSE,
                    rest |-> LinksTo(slots[s].repo, slots[s].crawled.requires)]
           fields == Over(Row(s), next)
<1>1. Go(s, fields) /\ slots[s].pc = "flush" /\ UNCHANGED <<stage, jobs, graph, metrics, history>>
  BY DEF FlushSourceRepo
<1>2. Busy(s) /\ Open(s)
  BY <1>1 DEF Busy, Open
<1>3. {"pc", "job", "at", "done", "crawled"} \cup Columns \subseteq DOMAIN slots[s]
  BY <1>1, <1>2 DEF Typed, Shaped, Columns
<1>4. /\ DOMAIN Row(s) = {"downloads", "releases"}
      /\ Row(s)["downloads"] = MergeDownload(slots[s].downloads, Package(s), slots[s].crawled.downloads)
      /\ Row(s)["releases"] = MergeReleases(slots[s].releases, PackageReleases(Package(s), slots[s].crawled))
  BY DEF Row
<1>5. /\ DOMAIN next = {"pc", "writes", "asked", "rest"} /\ next["pc"] = "visit" /\ next["writes"] = changed
      /\ next["asked"] = FALSE /\ next["rest"] = LinksTo(slots[s].repo, slots[s].crawled.requires)
  OBVIOUS
<1>6. "downloads" \notin changed => Row(s)["downloads"] = slots[s].downloads
  OBVIOUS
<1> HIDE DEF changed, next
<1>7. /\ DOMAIN fields = {"downloads", "releases", "pc", "writes", "asked", "rest"}
      /\ fields["downloads"] = Row(s)["downloads"] /\ fields["releases"] = Row(s)["releases"]
      /\ fields["pc"] = "visit" /\ fields["writes"] = changed
      /\ fields["asked"] = FALSE /\ fields["rest"] = LinksTo(slots[s].repo, slots[s].crawled.requires)
  BY <1>4, <1>5 DEF Over
<1> HIDE DEF fields
<1>8. Continues(s)
  BY <1>1, <1>3, <1>7, GoSlot DEF Continues, graph, metrics, history
<1>9. /\ Columns \cup {"rest", "asked"} \subseteq DOMAIN slots'[s]
      /\ slots'[s].pc = "visit" /\ slots'[s].repo = slots[s].repo
      /\ slots'[s].downloads = Row(s)["downloads"] /\ slots'[s].writes = changed
      /\ slots'[s].releases = Row(s)["releases"]
      /\ slots'[s].new = slots[s].new /\ slots'[s].links = slots[s].links /\ slots'[s].asked = FALSE
      /\ slots'[s].rest = LinksTo(slots[s].repo, slots[s].crawled.requires)
  BY <1>1, <1>3, <1>7, GoSlot DEF Columns
<1> QED BY <1>4, <1>6, <1>8, <1>9

(* An edge is linked, and what is left to visit is one less.                *)
LinksNext(s) ==
  /\ slots'[s].links = slots[s].links \cup {Head(slots[s].rest).edge}
  /\ slots'[s].rest = Tail(slots[s].rest) /\ slots'[s].asked = slots[s].asked

LEMMA VisitStep ==
  ASSUME Typed, NEW s \in Slots, VisitPackage(s)
  PROVE  /\ Continues(s) /\ SameRow(s) /\ slots'[s].new = slots[s].new
         /\ \/ /\ slots'[s].pc = "visit" /\ slots[s].rest # <<>> /\ LinksNext(s)
            \/ /\ slots'[s].pc = "insert" /\ slots[s].rest # <<>>
               /\ slots'[s].links = slots[s].links /\ slots'[s].rest = slots[s].rest
               /\ slots'[s].asked = slots[s].asked
            \/ /\ slots'[s].pc = IF slots[s].asked THEN "commit" ELSE "dependents"
               /\ slots[s].rest = <<>>
               /\ slots'[s].links = slots[s].links /\ slots'[s].rest = slots[s].rest
               /\ slots'[s].asked = slots[s].asked
<1>1. slots[s].pc = "visit" /\ UNCHANGED <<stage, jobs, graph, metrics, faults, history>>
  BY DEF VisitPackage
<1>2. Busy(s) /\ Open(s)
  BY <1>1 DEF Busy, Open
<1>3. {"pc", "job", "at", "done", "crawled", "rest", "asked"} \cup Columns \subseteq DOMAIN slots[s]
  BY <1>1, <1>2 DEF Typed, Shaped, Columns
<1>4. \/ slots[s].rest # <<>> /\ Go(s, Linked(s))
      \/ slots[s].rest # <<>> /\ Go(s, [pc |-> "insert"])
      \/ slots[s].rest = <<>> /\ Go(s, [pc |-> IF slots[s].asked THEN "commit" ELSE "dependents"])
  BY DEF VisitPackage
<1>5. ASSUME slots[s].rest # <<>>, Go(s, Linked(s))
      PROVE  /\ Continues(s) /\ SameRow(s) /\ slots'[s].new = slots[s].new
             /\ slots'[s].pc = "visit" /\ LinksNext(s)
  <2> DEFINE fields == Linked(s)
  <2>1. /\ DOMAIN fields = {"pc", "links", "rest"} /\ fields["pc"] = "visit"
        /\ fields["links"] = slots[s].links \cup {Head(slots[s].rest).edge}
        /\ fields["rest"] = Tail(slots[s].rest)
    BY DEF Linked
  <2>3. Go(s, fields)
    BY <1>5
  <2> HIDE DEF fields
  <2>2. /\ DOMAIN slots'[s] = {"pc", "links", "rest"} \cup DOMAIN slots[s]
        /\ slots' = [t \in Slots |-> slots'[t]] /\ \A t \in Slots \ {s} : slots'[t] = slots[t]
        /\ \A x \in DOMAIN slots[s] \ {"pc", "links", "rest"} : slots'[s][x] = slots[s][x]
        /\ slots'[s].pc = fields["pc"] /\ slots'[s].links = fields["links"] /\ slots'[s].rest = fields["rest"]
    <3>1. DOMAIN fields = {"pc", "links", "rest"}
      BY <2>1
    <3> QED BY <2>3, <3>1, GoSlot
  <2>4. LinksNext(s)
    BY <1>3, <2>1, <2>2 DEF LinksNext
  <2> QED BY <1>1, <1>3, <2>1, <2>2, <2>4 DEF Continues, SameRow, Columns, graph, metrics, history
<1>6. ASSUME NEW pc, Go(s, [pc |-> pc])
      PROVE  /\ Continues(s) /\ SameRow(s) /\ slots'[s].new = slots[s].new /\ slots'[s].pc = pc
             /\ slots'[s].links = slots[s].links /\ slots'[s].rest = slots[s].rest
             /\ slots'[s].asked = slots[s].asked
  <2> DEFINE fields == [pc |-> pc]
  <2>1. Go(s, fields) /\ DOMAIN fields = {"pc"} /\ fields["pc"] = pc
    BY <1>6
  <2> HIDE DEF fields
  <2>2. /\ DOMAIN slots'[s] = {"pc"} \cup DOMAIN slots[s]
        /\ slots' = [t \in Slots |-> slots'[t]] /\ \A t \in Slots \ {s} : slots'[t] = slots[t]
        /\ \A x \in DOMAIN slots[s] \ {"pc"} : slots'[s][x] = slots[s][x]
        /\ slots'[s].pc = pc
    BY <2>1, GoSlot
  <2> QED BY <1>1, <1>3, <2>2 DEF Continues, SameRow, Columns, graph, metrics, history
<1> QED BY <1>4, <1>5, <1>6

LEMMA InsertStep ==
  ASSUME Typed, NEW s \in Slots, InsertPackage(s), ~FailPackage(s)
  PROVE  /\ Continues(s) /\ SameRow(s) /\ slots'[s].pc = "visit" /\ LinksNext(s)
         /\ slots'[s].new = slots[s].new \cup {Head(slots[s].rest).name}
<1> DEFINE inserted == [new |-> slots[s].new \cup {Name(s)}]
           fields == Over(inserted, Linked(s))
<1>1. Go(s, fields) /\ slots[s].pc = "insert" /\ UNCHANGED <<stage, jobs, graph, metrics, history>>
  BY DEF InsertPackage
<1>2. Busy(s) /\ Open(s)
  BY <1>1 DEF Busy, Open
<1>3. {"pc", "job", "at", "done", "crawled", "rest", "asked"} \cup Columns \subseteq DOMAIN slots[s]
  BY <1>1, <1>2 DEF Typed, Shaped, Columns
<1>4. DOMAIN inserted = {"new"} /\ inserted["new"] = slots[s].new \cup {Head(slots[s].rest).name}
  BY DEF Name
<1>5. /\ DOMAIN Linked(s) = {"pc", "links", "rest"} /\ Linked(s)["pc"] = "visit"
      /\ Linked(s)["links"] = slots[s].links \cup {Head(slots[s].rest).edge}
      /\ Linked(s)["rest"] = Tail(slots[s].rest)
  BY DEF Linked
<1> HIDE DEF inserted
<1>6. /\ DOMAIN fields = {"new", "pc", "links", "rest"} /\ fields["pc"] = "visit"
      /\ fields["new"] = slots[s].new \cup {Head(slots[s].rest).name}
      /\ fields["links"] = slots[s].links \cup {Head(slots[s].rest).edge}
      /\ fields["rest"] = Tail(slots[s].rest)
  BY <1>4, <1>5 DEF Over
<1> HIDE DEF fields
<1>7. /\ DOMAIN slots'[s] = {"new", "pc", "links", "rest"} \cup DOMAIN slots[s]
      /\ slots' = [t \in Slots |-> slots'[t]] /\ \A t \in Slots \ {s} : slots'[t] = slots[t]
      /\ \A x \in DOMAIN slots[s] \ {"new", "pc", "links", "rest"} : slots'[s][x] = slots[s][x]
      /\ slots'[s].pc = fields["pc"] /\ slots'[s].new = fields["new"]
      /\ slots'[s].links = fields["links"] /\ slots'[s].rest = fields["rest"]
  <2>1. DOMAIN fields = {"new", "pc", "links", "rest"}
    BY <1>6
  <2> QED BY <1>1, <2>1, GoSlot
<1>8. LinksNext(s)
  BY <1>3, <1>6, <1>7 DEF LinksNext
<1> QED BY <1>1, <1>3, <1>6, <1>7, <1>8 DEF Continues, SameRow, Columns, graph, metrics, history

LEMMA DependentsStep ==
  ASSUME Typed, NEW s \in Slots, FetchDependentsOf(s), ~FailPackage(s)
  PROVE  \E answer \in DependentsAnswers[Package(s)] :
           /\ ~answer.raised /\ Continues(s) /\ SameRow(s) /\ slots'[s].pc = "visit"
           /\ slots'[s].new = slots[s].new /\ slots'[s].links = slots[s].links
           /\ slots'[s].asked = TRUE /\ slots'[s].rest = LinksFrom(slots[s].repo, answer.names)
<1>1. PICK answer \in DependentsAnswers[Package(s)] :
        /\ ~answer.raised
        /\ Go(s, [pc |-> "visit", asked |-> TRUE, rest |-> LinksFrom(slots[s].repo, answer.names)])
        /\ UNCHANGED <<jobs, graph, history>>
  BY DEF FetchDependentsOf
<1> DEFINE fields == [pc |-> "visit", asked |-> TRUE, rest |-> LinksFrom(slots[s].repo, answer.names)]
<1>2. slots[s].pc = "dependents" /\ Busy(s) /\ Open(s) /\ UNCHANGED <<stage, metrics>>
  BY DEF FetchDependentsOf, Busy, Open
<1>3. {"pc", "job", "at", "done", "crawled", "rest", "asked"} \cup Columns \subseteq DOMAIN slots[s]
  BY <1>2 DEF Typed, Shaped, Columns
<1>4. /\ Go(s, fields) /\ DOMAIN fields = {"pc", "asked", "rest"} /\ fields["pc"] = "visit"
      /\ fields["asked"] = TRUE /\ fields["rest"] = LinksFrom(slots[s].repo, answer.names)
  BY <1>1
<1> HIDE DEF fields
<1>5. /\ DOMAIN slots'[s] = {"pc", "asked", "rest"} \cup DOMAIN slots[s]
      /\ slots' = [t \in Slots |-> slots'[t]] /\ \A t \in Slots \ {s} : slots'[t] = slots[t]
      /\ \A x \in DOMAIN slots[s] \ {"pc", "asked", "rest"} : slots'[s][x] = slots[s][x]
      /\ slots'[s].pc = "visit" /\ slots'[s].asked = TRUE
      /\ slots'[s].rest = LinksFrom(slots[s].repo, answer.names)
  BY <1>4, GoSlot
<1>6. Continues(s) /\ SameRow(s) /\ slots'[s].new = slots[s].new /\ slots'[s].links = slots[s].links
  BY <1>1, <1>2, <1>3, <1>5 DEF Continues, SameRow, Columns, graph, metrics, history
<1> QED BY <1>1, <1>5, <1>6

(* Types after a step of a package.                                         *)
LEMMA Continued ==
  ASSUME Typed, NEW s \in Slots, Busy(s), slots[s].pc # "fetch", Continues(s),
         slots'[s].pc \in Pcs \ {"fetch", "load"}, faults' \in Nat,
         Columns \subseteq DOMAIN slots'[s], slots'[s].repo \in Repos,
         slots'[s].pc # "flush" => {"rest", "asked"} \subseteq DOMAIN slots'[s]
  PROVE  Typed'
<1>1. Busy(s)'
  BY DEF Busy, Pcs
<1>2. Package(s)' = Package(s)
  BY SamePackage
<1>3. Shaped(s)'
  BY <1>2 DEF Typed, Shaped, Continues, Columns, Open, Busy, Pcs
<1>4. DOMAIN downloads' = Repos /\ DOMAIN counted' = Repos
  BY DEF Typed, Continues
<1> QED BY <1>1, <1>3, <1>4, OneSlotMoves DEF Continues

(* A committed package: its columns, vertices and edges, and the histories. *)
LEMMA CommitStep ==
  ASSUME Typed, NEW s \in Slots, Commit(s), ~(FailPackage(s) /\ Fault)
  PROVE  LET r == slots[s].repo
             n == slots[s].crawled.downloads
         IN /\ downloads' = Written(s, "downloads", downloads)
            /\ releases' = Written(s, "releases", releases)
            /\ counted' = IF n = None THEN counted
                          ELSE [counted EXCEPT ![r] = MergeDownload(counted[r], Package(s), n)]
            /\ externals' = externals \cup slots[s].new /\ edges' = edges \cup slots[s].links
            /\ processed' = processed \cup
                 {<<Package(s), r, ToSet(slots[s].crawled.requires), slots[s].job>>}
            /\ overlapped' = IF \E t \in Slots \ {s} : Open(t) /\ slots[t].repo = r
                             THEN overlapped \cup {r} ELSE overlapped
            /\ NextPackage(s, slots[s].done + 1)
            /\ UNCHANGED <<stage, adoption, scores, faults>>
BY DEF Commit, metrics, MergeDownload

LEMMA CommitTyped ==
  ASSUME Typed, NEW s \in Slots, Commit(s)
  PROVE  Typed'
<1>1. slots[s].pc = "commit" /\ Busy(s) /\ UNCHANGED stage
  BY DEF Commit, Busy
<1>2. CASE FailPackage(s) /\ Fault
  BY <1>1, <1>2, Faulty, PackageFails
<1>3. CASE ~(FailPackage(s) /\ Fault)
  <2>1. slots[s].done + 1 \in Nat /\ NextPackage(s, slots[s].done + 1)
    BY <1>1, <1>3, CommitStep DEF Typed, Shaped
  <2>2. DOMAIN downloads' = Repos /\ DOMAIN counted' = Repos /\ faults' \in Nat
    BY <1>3, CommitStep DEF Typed, Written
  <2> QED BY <1>1, <2>1, <2>2, PackageEnds, OneSlotMoves
<1> QED BY <1>2, <1>3

LEMMA EndWorkTyped ==
  ASSUME Typed, EndWork
  PROVE  Typed' /\ \A s \in Slots : ~Busy(s)'
<1>1. /\ UNCHANGED <<downloads, counted>> /\ jobs' = [j \in DOMAIN Jobs |-> jobs'[j]]
  BY DEF EndWork, graph, history
<1>2. CASE (\A j \in DOMAIN Jobs : jobs[j] \notin {"todo", "doing"}) /\ UNCHANGED <<slots, faults>>
  <2>1. \A s \in Slots : ~Busy(s)
    BY <1>2 DEF Typed, Held, Shaped
  <2>2. \A s \in Slots : ~Busy(s)'
    BY <1>2, <2>1 DEF Busy
  <2> QED BY <1>1, <1>2, <2>2 DEF Typed, Held, Shaped
<1>3. CASE Fault /\ slots' = [s \in Slots |-> Idle]
  <2>1. \A s \in Slots : ~Busy(s)'
    BY <1>3 DEF Busy, Idle
  <2> QED BY <1>1, <1>3, <2>1, Faulty DEF Typed, Held, Shaped
<1> QED BY <1>2, <1>3 DEF EndWork

LEMMA StepTyped ==
  ASSUME Typed, NEW s \in Slots,
         \/ LoadSourceRepo(s) \/ FlushSourceRepo(s) \/ VisitPackage(s)
         \/ InsertPackage(s) \/ ResolveDeadlock(s) \/ FetchDependentsOf(s)
  PROVE  Typed'
<1>1. Busy(s) /\ slots[s].pc # "fetch" /\ UNCHANGED stage /\ faults' \in Nat
  <2>1. Fault \/ UNCHANGED faults
    BY DEF LoadSourceRepo, FlushSourceRepo, VisitPackage, InsertPackage, ResolveDeadlock,
           FetchDependentsOf
  <2>2. slots[s].pc \in {"load", "flush", "visit", "insert", "dependents"} /\ UNCHANGED stage
    BY DEF LoadSourceRepo, FlushSourceRepo, VisitPackage, InsertPackage, ResolveDeadlock,
           FetchDependentsOf, MayWait, Waits
  <2> QED BY <2>1, <2>2, Faulty DEF Busy
<1>2. CASE FailPackage(s)
  BY <1>1, <1>2, PackageFails
<1>3. CASE LoadSourceRepo(s) /\ ~FailPackage(s)
  BY <1>1, <1>3, LoadStep, Continued DEF Pcs
<1>4. CASE FlushSourceRepo(s)
  <2>1. slots[s].repo \in Repos
    BY <1>1, <1>4 DEF FlushSourceRepo, Typed, Shaped, Open
  <2> QED BY <1>1, <1>4, <2>1, FlushStep, Continued DEF Pcs
<1>5. CASE VisitPackage(s)
  <2>1. slots[s].repo \in Repos
    BY <1>1, <1>5 DEF VisitPackage, Typed, Shaped, Open
  <2> QED BY <1>1, <1>5, <2>1, VisitStep, Continued DEF Pcs, SameRow
<1>6. CASE InsertPackage(s) /\ ~FailPackage(s)
  <2>1. slots[s].repo \in Repos
    BY <1>1, <1>6 DEF InsertPackage, Typed, Shaped, Open
  <2> QED BY <1>1, <1>6, <2>1, InsertStep, Continued DEF Pcs, SameRow
<1>7. CASE FetchDependentsOf(s) /\ ~FailPackage(s)
  <2>1. slots[s].repo \in Repos
    BY <1>1, <1>7 DEF FetchDependentsOf, Typed, Shaped, Open
  <2> QED BY <1>1, <1>7, <2>1, DependentsStep, Continued DEF Pcs, SameRow
<1> QED BY <1>2, <1>3, <1>4, <1>5, <1>6, <1>7 DEF ResolveDeadlock

LEMMA NextTyped == Typed /\ [Next]_vars => Typed'
<1> SUFFICES ASSUME Typed, [Next]_vars PROVE Typed'
  OBVIOUS
<1>1. CASE UNCHANGED vars
  BY <1>1 DEF vars, graph, history, Typed, Shaped, Held, Busy, Open, Package
<1>2. ASSUME NEW s \in Slots, Fetch(s) \/ FetchPackageOf(s) \/ Commit(s) PROVE Typed'
  BY <1>2, FetchTyped, FetchPackageTyped, CommitTyped
<1>3. CASE EndWork
  BY <1>3, EndWorkTyped
<1>4. CASE MaterializeCriticality \/ MaterializeAdoption
  <2>1. \A s \in Slots : ~Busy(s) /\ ~Busy(s)'
    BY <1>4 DEF MaterializeCriticality, MaterializeAdoption, Typed, Held, Busy
  <2>2. UNCHANGED <<jobs, slots, downloads, counted, faults>>
    BY <1>4 DEF MaterializeCriticality, MaterializeAdoption, graph, history
  <2> QED BY <2>1, <2>2 DEF Typed, Held, Shaped
<1> QED BY <1>1, <1>2, <1>3, <1>4, StepTyped DEF Next

-----------------------------------------------------------------------------
(* Which counts a repository has.                                           *)

(* What a transaction loaded is still committed when it writes, unless      *)
(* another one wrote the same repository meanwhile.                         *)
Current(s) ==
  Open(s) /\ slots[s].repo \notin overlapped =>
    LET stored == downloads[slots[s].repo]
    IN IF slots[s].pc = "flush" THEN slots[s].downloads = stored
       ELSE /\ slots[s].downloads = MergeDownload(stored, Package(s), slots[s].crawled.downloads)
            /\ "downloads" \notin slots[s].writes => slots[s].downloads = stored

CountsInv ==
  /\ \A s \in Slots : Current(s)
  /\ \A r \in Repos \ overlapped : downloads[r] = counted[r]
  /\ stage = "over" => \A r \in Repos : adoption[r] = AggregateRepoDownloads(downloads[r])

LEMMA InitCounts == Init => CountsInv
<1> SUFFICES ASSUME Init PROVE CountsInv
  OBVIOUS
<1>1. \A s \in Slots : ~Open(s)
  BY DEF Init, Open, Idle
<1> QED BY <1>1 DEF Init, CountsInv, Current

(* A step that commits nothing.                                             *)
LEMMA CountsKept ==
  ASSUME CountsInv, NEW s \in Slots, \A t \in Slots \ {s} : slots'[t] = slots[t],
         UNCHANGED <<stage, downloads, counted, adoption, overlapped>>, Current(s)'
  PROVE  CountsInv'
<1>1. \A t \in Slots \ {s} : Current(t)'
  BY DEF CountsInv, Current, Open, Package
<1> QED BY <1>1 DEF CountsInv

LEMMA FailCounts ==
  ASSUME Typed, CountsInv, NEW s \in Slots, Busy(s), FailPackage(s), UNCHANGED <<stage, adoption>>
  PROVE  CountsInv'
<1>1. slots[s].done \in Nat /\ NextPackage(s, slots[s].done) /\ UNCHANGED <<downloads, counted, overlapped>>
  BY DEF Typed, Shaped, FailPackage, graph, history
<1>2. Current(s)'
  BY <1>1, PackageEnds DEF Current
<1> QED BY <1>1, <1>2, PackageEnds, CountsKept

LEMMA CommitCounts ==
  ASSUME Typed, CountsInv, NEW s \in Slots, Commit(s), ~(FailPackage(s) /\ Fault)
  PROVE  CountsInv'
<1> DEFINE r == slots[s].repo
           n == slots[s].crawled.downloads
           merged == MergeDownload(downloads[r], Package(s), n)
<1>1. slots[s].pc = "commit" /\ Busy(s) /\ Open(s)
  BY DEF Commit, Busy, Open
<1>2. r \in Repos /\ slots[s].done + 1 \in Nat /\ stage = "working"
  BY <1>1 DEF Typed, Shaped, Held
<1>3. /\ slots' = [t \in Slots |-> slots'[t]] /\ \A t \in Slots \ {s} : slots'[t] = slots[t]
      /\ ~Open(s)'
  BY <1>1, <1>2, CommitStep, PackageEnds
<1>4. /\ downloads' = Written(s, "downloads", downloads)
      /\ counted' = IF n = None THEN counted
                    ELSE [counted EXCEPT ![r] = MergeDownload(counted[r], Package(s), n)]
      /\ overlapped' = IF \E t \in Slots \ {s} : Open(t) /\ slots[t].repo = r
                       THEN overlapped \cup {r} ELSE overlapped
      /\ UNCHANGED stage
  BY CommitStep
<1>5. \A q \in Repos \ {r} : downloads'[q] = downloads[q] /\ counted'[q] = counted[q]
  BY <1>2, <1>4 DEF Written, Typed
<1>6. r \notin overlapped => downloads'[r] = merged
  BY <1>1, <1>2, <1>4 DEF CountsInv, Current, Written, Typed
<1>7. r \notin overlapped => counted'[r] = merged
  <2>1. r \notin overlapped => downloads[r] = counted[r]
    BY <1>2 DEF CountsInv
  <2>2. n = None => MergeDownload(counted[r], Package(s), n) = counted[r]
    BY DEF MergeDownload
  <2> QED BY <1>2, <1>4, <2>1, <2>2 DEF Typed
<1>8. \A q \in Repos \ overlapped' : downloads'[q] = counted'[q]
  BY <1>4, <1>5, <1>6, <1>7 DEF CountsInv
<1>9. ASSUME NEW t \in Slots, t # s PROVE Current(t)'
  <2>1. CASE Open(t) /\ slots[t].repo = r
    <3>1. r \in overlapped' /\ slots'[t].repo = r
      BY <1>3, <1>4, <1>9, <2>1
    <3> QED BY <3>1 DEF Current
  <2>2. CASE ~Open(t)
    BY <1>3, <1>9, <2>2 DEF Current, Open
  <2>3. CASE Open(t) /\ slots[t].repo # r
    <3>1. slots[t].repo \in Repos
      BY <2>3 DEF Typed, Shaped, Open, Busy
    <3>2. downloads'[slots[t].repo] = downloads[slots[t].repo] /\ slots'[t] = slots[t]
      BY <1>3, <1>5, <1>9, <2>3, <3>1
    <3>3. slots[t].repo \notin overlapped' => slots[t].repo \notin overlapped
      BY <1>4
    <3> QED BY <3>2, <3>3 DEF CountsInv, Current, Open, Package
  <2> QED BY <2>1, <2>2, <2>3
<1>10. Current(s)'
  BY <1>3 DEF Current
<1> QED BY <1>2, <1>4, <1>8, <1>9, <1>10 DEF CountsInv

LEMMA SlotCounts ==
  ASSUME Typed, CountsInv, NEW s \in Slots,
         \/ FetchPackageOf(s) \/ LoadSourceRepo(s) \/ FlushSourceRepo(s) \/ VisitPackage(s)
         \/ InsertPackage(s) \/ ResolveDeadlock(s) \/ FetchDependentsOf(s) \/ Commit(s)
  PROVE  CountsInv'
<1>1. Busy(s)
  BY DEF FetchPackageOf, LoadSourceRepo, FlushSourceRepo, VisitPackage, InsertPackage,
         ResolveDeadlock, FetchDependentsOf, Commit, MayWait, Waits, Busy
<1>2. CASE FailPackage(s)
  <2>1. UNCHANGED <<stage, adoption>>
    BY DEF FetchPackageOf, LoadSourceRepo, FlushSourceRepo, VisitPackage, InsertPackage,
           ResolveDeadlock, FetchDependentsOf, Commit, metrics
  <2> QED BY <1>1, <1>2, <2>1, FailCounts
<1>3. CASE Commit(s) /\ ~FailPackage(s)
  BY <1>3, CommitCounts
<1>4. CASE FetchPackageOf(s) /\ ~FailPackage(s)
  <2>1. PICK crawled : Go(s, [pc |-> "load", crawled |-> crawled]) /\ UNCHANGED <<graph, history>>
    BY <1>4 DEF FetchPackageOf
  <2> DEFINE fields == [pc |-> "load", crawled |-> crawled]
  <2>2. Go(s, fields) /\ "pc" \in DOMAIN fields /\ fields["pc"] = "load"
    BY <2>1
  <2> HIDE DEF fields
  <2>3. slots'[s].pc = "load" /\ \A t \in Slots \ {s} : slots'[t] = slots[t]
    BY <2>2, GoSlot
  <2>4. Current(s)'
    BY <2>3 DEF Current, Open
  <2>5. UNCHANGED <<stage, downloads, counted, adoption, overlapped>>
    BY <1>4, <2>1 DEF FetchPackageOf, graph, history, metrics
  <2> QED BY <2>3, <2>4, <2>5, CountsKept
<1>5. CASE LoadSourceRepo(s) /\ ~FailPackage(s)
  <2>1. Continues(s) /\ slots'[s].pc = "flush" /\ slots'[s].downloads = downloads[slots'[s].repo]
    BY <1>5, LoadStep
  <2>2. Current(s)'
    BY <2>1 DEF Current, Continues
  <2> QED BY <2>1, <2>2, CountsKept DEF Continues
<1>6. CASE FlushSourceRepo(s)
  <2>1. /\ Continues(s) /\ slots'[s].pc = "visit" /\ slots'[s].repo = slots[s].repo
        /\ slots'[s].downloads = MergeDownload(slots[s].downloads, Package(s), slots[s].crawled.downloads)
        /\ "downloads" \notin slots'[s].writes => slots'[s].downloads = slots[s].downloads
    BY <1>6, FlushStep
  <2>2. slots[s].pc = "flush" /\ Open(s)
    BY <1>6 DEF FlushSourceRepo, Open
  <2>3. Package(s)' = Package(s)
    BY <2>1, SamePackage
  <2>4. Current(s)'
    BY <2>1, <2>2, <2>3 DEF CountsInv, Current, Continues
  <2> QED BY <2>1, <2>4, CountsKept DEF Continues
<1>7. CASE (VisitPackage(s) \/ InsertPackage(s) \/ FetchDependentsOf(s)) /\ ~FailPackage(s)
  <2>1. /\ Continues(s) /\ SameRow(s) /\ slots'[s].pc # "flush" 
    BY <1>7, VisitStep, InsertStep, DependentsStep
  <2>2. slots[s].pc # "flush" /\ Open(s)
    BY <1>7 DEF VisitPackage, InsertPackage, FetchDependentsOf, Open
  <2>3. Package(s)' = Package(s)
    BY <2>1, SamePackage
  <2>4. Current(s)'
    BY <2>1, <2>2, <2>3 DEF CountsInv, Current, Continues, SameRow
  <2> QED BY <2>1, <2>4, CountsKept DEF Continues
<1> QED BY <1>2, <1>3, <1>4, <1>5, <1>6, <1>7 DEF ResolveDeadlock

LEMMA NextCounts == Typed /\ CountsInv /\ [Next]_vars => CountsInv'
<1> SUFFICES ASSUME Typed, CountsInv, [Next]_vars PROVE CountsInv'
  OBVIOUS
<1>1. CASE UNCHANGED vars
  BY <1>1 DEF vars, graph, metrics, history, CountsInv, Current, Open, Package
<1>2. ASSUME NEW s \in Slots, Fetch(s) PROVE CountsInv'
  <2>1. /\ \A t \in Slots \ {s} : slots'[t] = slots[t]
        /\ slots'[s].pc = "fetch" /\ UNCHANGED <<stage, downloads, counted, adoption, overlapped>>
    BY <1>2 DEF Fetch, Typed, graph, metrics, history
  <2>2. Current(s)'
    BY <2>1 DEF Current, Open
  <2> QED BY <2>1, <2>2, CountsKept
<1>3. CASE EndWork
  <2>1. \A s \in Slots : ~Open(s)'
    BY <1>3, EndWorkTyped DEF Open, Busy
  <2>2. UNCHANGED <<downloads, counted, overlapped>> /\ stage' = "criticality"
    BY <1>3 DEF EndWork, graph, history
  <2> QED BY <2>1, <2>2 DEF CountsInv, Current
<1>4. CASE MaterializeCriticality
  <2>1. UNCHANGED <<slots, downloads, counted, adoption, overlapped>> /\ stage' = "adoption"
    BY <1>4 DEF MaterializeCriticality, graph, history
  <2> QED BY <2>1 DEF CountsInv, Current, Open, Package
<1>5. CASE MaterializeAdoption
  <2>1. /\ UNCHANGED <<slots, downloads, counted, overlapped>>
        /\ adoption' = [r \in Repos |-> AggregateRepoDownloads(downloads[r])]
    BY <1>5 DEF MaterializeAdoption, graph, history
  <2> QED BY <2>1 DEF CountsInv, Current, Open, Package
<1> QED BY <1>1, <1>2, <1>3, <1>4, <1>5, SlotCounts DEF Next

(* Whatever jobs, registries and repositories, the adoption of a repository *)
(* sums every count that was committed for it, unless two transactions had  *)
(* it open at once (_process_package, materialize_adoption_scores).         *)
THEOREM AdoptionSummed == Spec => []AdoptionIsWhole
<1>1. CountsInv => AdoptionIsWhole
  BY DEF CountsInv, AdoptionIsWhole
<1> QED BY <1>1, InitTyped, NextTyped, InitCounts, NextCounts, PTL DEF Spec

-----------------------------------------------------------------------------
(* What a package writes.                                                   *)

(* The edges a package may have that was answered to require names, with    *)
(* the packages they bring with them.                                       *)
Links(p, names, r) ==
  {[name |-> n, edge |-> <<r, n>>] : n \in names} \cup {[name |-> n, edge |-> <<n, r>>] : n \in Dependents(p)}
Declared(p, names, r) == {<<r, n>> : n \in names} \cup DependentOn(p, r)
Required(s) == ToSet(slots[s].crawled.requires)
RequiredEdges(s) == {<<slots[s].repo, n>> : n \in Required(s)}
Planned(s) == {slots[s].rest[i].edge : i \in DOMAIN slots[s].rest}

(* What a transaction has linked and has still to visit.                    *)
Fits(s) ==
  Open(s) =>
    /\ slots[s].links \subseteq Declared(Package(s), Required(s), slots[s].repo)
    /\ \A v \in slots[s].new : \E e \in slots[s].links : v \in {e[1], e[2]}
    /\ slots[s].pc # "flush" =>
         /\ slots[s].rest \in Seq(Links(Package(s), Required(s), slots[s].repo))
         /\ slots[s].pc = "insert" => slots[s].rest # <<>>
         /\ RequiredEdges(s) \subseteq slots[s].links \cup Planned(s)
         /\ slots[s].asked \/ slots[s].pc \in {"dependents", "commit"} =>
              RequiredEdges(s) \subseteq slots[s].links
Best(s) ==
  faults = 0 /\ Busy(s) /\ slots[s].pc # "fetch" =>
    slots[s].crawled = FetchPackage(Package(s), "ok", "ok")

(* A job counts the packages it has processed.                              *)
Tallied(s) == Busy(s) => (slots[s].done = 0 <=> \A x \in processed : x[4] # slots[s].job)

WrittenInv ==
  /\ ProcessedIsWritten
  /\ \A s \in Slots : Fits(s) /\ Best(s) /\ Tallied(s)
  /\ \A j \in DOMAIN Jobs : jobs[j] \in {"none", "todo"} => \A x \in processed : x[4] # j

LEMMA InitWritten == Init => WrittenInv
<1> SUFFICES ASSUME Init PROVE WrittenInv
  OBVIOUS
<1>1. \A s \in Slots : ~Open(s) /\ ~Busy(s)
  BY DEF Init, Open, Busy, Idle
<1>2. \A j \in DOMAIN Jobs : jobs[j] \in {"none", "todo"}
  BY DEF Init
<1>3. ProcessedIsWritten
  BY <1>2 DEF Init, ProcessedIsWritten
<1> QED BY <1>1, <1>3 DEF Init, WrittenInv, Fits, Best, Tallied

LEMMA FaultsGrow == ASSUME Typed, Fault \/ UNCHANGED faults PROVE faults' = 0 => faults = 0
BY DEF Typed, Fault

(* The other slots, when nothing is committed for their jobs.               *)
LEMMA OthersWritten ==
  ASSUME WrittenInv, NEW s \in Slots, NEW t \in Slots \ {s}, slots'[t] = slots[t],
         faults' = 0 => faults = 0,
         Busy(t) => \A x \in processed' \ processed : x[4] # slots[t].job,
         processed \subseteq processed'
  PROVE  Fits(t)' /\ Best(t)' /\ Tallied(t)'
<1>1. Busy(t)' = Busy(t) /\ Open(t)' = Open(t) /\ Package(t)' = Package(t)
  BY DEF Busy, Open, Package
<1>2. Fits(t)'
  <2>1. Fits(t)
    BY DEF WrittenInv
  <2> QED BY <2>1 DEF Fits, RequiredEdges, Required, Planned, Open, Package
<1>3. Best(t)'
  BY <1>1 DEF WrittenInv, Best
<1>4. Tallied(t)'
  BY <1>1 DEF WrittenInv, Tallied
<1> QED BY <1>2, <1>3, <1>4

(* A step within a package.                                                 *)
LEMMA ContinueWritten ==
  ASSUME Typed, WrittenInv, NEW s \in Slots, Busy(s), slots[s].pc # "fetch",
         Continues(s), slots'[s].pc # "fetch", Fault \/ UNCHANGED faults, Fits(s)'
  PROVE  WrittenInv'
<1>1. faults' = 0 => faults = 0
  BY FaultsGrow
<1>2. stage = "working" /\ stage' = "working"
  BY DEF Typed, Held, Continues
<1>3. ProcessedIsWritten'
  BY <1>1, <1>2 DEF WrittenInv, ProcessedIsWritten, Killed, Continues
<1>4. \A t \in Slots \ {s} : Fits(t)' /\ Best(t)' /\ Tallied(t)'
  BY <1>1, OthersWritten DEF Continues
<1>5. Package(s)' = Package(s)
  BY SamePackage
<1>6. Best(s)' /\ Tallied(s)'
  BY <1>1, <1>5 DEF WrittenInv, Best, Tallied, Continues
<1> QED BY <1>3, <1>4, <1>6 DEF WrittenInv, Continues

(* The job of a slot that ends a package, with done of them processed.      *)
LEMMA EndWritten ==
  ASSUME Typed, WrittenInv, NEW s \in Slots, Busy(s), NEW done \in Nat, NextPackage(s, done),
         Fault \/ UNCHANGED faults, UNCHANGED stage,
         processed \subseteq processed', \A x \in processed' \ processed : x[4] = slots[s].job,
         done = 0 <=> \A x \in processed' : x[4] # slots[s].job,
         /\ edges' \subseteq Stored.edges \cup UNION {AnsweredFor(x) \cup DependentOn(x[1], x[2]) : x \in processed'}
         /\ \A x \in processed' : AnsweredFor(x) \subseteq edges'
         /\ faults' = 0 => \A x \in processed' : RequiredBy(x[1], x[2]) \subseteq edges'
         /\ \A v \in externals' \ Stored.externals : \E e \in edges' : v \in {e[1], e[2]}
  PROVE  WrittenInv'
<1>1. faults' = 0 => faults = 0
  BY FaultsGrow
<1>2. stage = "working" /\ stage' = "working" /\ slots[s].job \in DOMAIN Jobs /\ jobs[slots[s].job] = "doing"
  BY DEF Typed, Held, Shaped
<1>3. /\ \A t \in Slots \ {s} : slots'[t] = slots[t]
      /\ Busy(s)' => slots'[s].pc = "fetch" /\ slots'[s].job = slots[s].job /\ slots'[s].done = done /\ UNCHANGED jobs
      /\ ~Busy(s)' => jobs' = [jobs EXCEPT ![slots[s].job] = IF done = 0 THEN "failed" ELSE "succeeded"]
      /\ ~Open(s)'
  BY PackageEnds
<1>4. ASSUME NEW t \in Slots \ {s} PROVE Fits(t)' /\ Best(t)' /\ Tallied(t)'
  <2>1. Busy(t) => slots[t].job # slots[s].job
    BY DEF Typed, Held
  <2> QED BY <1>1, <1>3, <2>1, OthersWritten
<1>5. Fits(s)' /\ Best(s)' /\ Tallied(s)'
  BY <1>3 DEF Fits, Best, Tallied
<1>6. \A j \in DOMAIN Jobs \ {slots[s].job} : jobs'[j] = jobs[j]
  BY <1>3 DEF Typed
<1>7. jobs'[slots[s].job] \in {"doing", IF done = 0 THEN "failed" ELSE "succeeded"}
  BY <1>2, <1>3 DEF Typed
<1>8. \A j \in DOMAIN Jobs \ {slots[s].job} :
        (\A x \in processed' : x[4] # j) <=> (\A x \in processed : x[4] # j)
  OBVIOUS
<1>9. \A j \in DOMAIN Jobs : /\ jobs'[j] = "succeeded" => \E x \in processed' : x[4] = j
                             /\ jobs'[j] = "failed" => \A x \in processed' : x[4] # j
                             /\ jobs'[j] \in {"none", "todo"} => \A x \in processed' : x[4] # j
  BY <1>2, <1>6, <1>7, <1>8 DEF WrittenInv, ProcessedIsWritten, Killed
<1>10. ProcessedIsWritten'
  BY <1>9 DEF ProcessedIsWritten
<1> QED BY <1>4, <1>5, <1>9, <1>10 DEF WrittenInv

LEMMA FailWritten ==
  ASSUME Typed, WrittenInv, NEW s \in Slots, Busy(s), FailPackage(s),
         Fault \/ UNCHANGED faults, UNCHANGED stage
  PROVE  WrittenInv'
<1>1. slots[s].done \in Nat /\ NextPackage(s, slots[s].done) /\ UNCHANGED <<edges, externals, processed>>
  BY DEF Typed, Shaped, FailPackage, graph, history
<1>2. slots[s].done = 0 <=> \A x \in processed' : x[4] # slots[s].job
  BY <1>1 DEF WrittenInv, Tallied
<1>3. faults' = 0 => faults = 0
  BY FaultsGrow
<1>4. /\ edges' \subseteq Stored.edges \cup UNION {AnsweredFor(x) \cup DependentOn(x[1], x[2]) : x \in processed'}
      /\ \A x \in processed' : AnsweredFor(x) \subseteq edges'
      /\ faults' = 0 => \A x \in processed' : RequiredBy(x[1], x[2]) \subseteq edges'
      /\ \A v \in externals' \ Stored.externals : \E e \in edges' : v \in {e[1], e[2]}
  BY <1>1, <1>3 DEF WrittenInv, ProcessedIsWritten
<1> HIDE DEF WrittenInv
<1> QED BY <1>1, <1>2, <1>4, EndWritten

LEMMA CommitWritten ==
  ASSUME Typed, WrittenInv, NEW s \in Slots, Commit(s), ~(FailPackage(s) /\ Fault)
  PROVE  WrittenInv'
<1> DEFINE p == Package(s)
           r == slots[s].repo
           new == <<p, r, ToSet(slots[s].crawled.requires), slots[s].job>>
<1>1. slots[s].pc = "commit" /\ Busy(s) /\ Open(s)
  BY DEF Commit, Busy, Open
<1>2. slots[s].done \in Nat
  BY <1>1 DEF Typed, Shaped
<1>3. /\ externals' = externals \cup slots[s].new /\ edges' = edges \cup slots[s].links
      /\ processed' = processed \cup {new}
      /\ NextPackage(s, slots[s].done + 1) /\ UNCHANGED <<stage, faults>>
  BY CommitStep
<1>4. /\ slots[s].links \subseteq Declared(p, Required(s), r)
      /\ \A v \in slots[s].new : \E e \in slots[s].links : v \in {e[1], e[2]}
      /\ RequiredEdges(s) \subseteq slots[s].links
  BY <1>1 DEF WrittenInv, Fits
<1>5. new[1] = p /\ new[2] = r /\ new[3] = ToSet(slots[s].crawled.requires) /\ new[4] = slots[s].job
  OBVIOUS
<1>6. AnsweredFor(new) \subseteq slots[s].links
  BY <1>4, <1>5 DEF RequiredEdges, Required, AnsweredFor
<1>7. faults = 0 => RequiredBy(p, r) \subseteq slots[s].links
  <2>1. faults = 0 => slots[s].crawled = FetchPackage(p, "ok", "ok")
    BY <1>1 DEF WrittenInv, Best
  <2> QED BY <1>4, <2>1 DEF RequiredEdges, Required, RequiredBy
<1>8. Declared(p, Required(s), r) = AnsweredFor(new) \cup DependentOn(new[1], new[2])
  BY <1>5 DEF Declared, Required, AnsweredFor
<1> HIDE DEF p, r, new
<1>9. edges' \subseteq Stored.edges \cup UNION {AnsweredFor(x) \cup DependentOn(x[1], x[2]) : x \in processed'}
  <2>1. edges \subseteq Stored.edges \cup UNION {AnsweredFor(x) \cup DependentOn(x[1], x[2]) : x \in processed}
    BY DEF WrittenInv, ProcessedIsWritten
  <2>2. slots[s].links \subseteq AnsweredFor(new) \cup DependentOn(new[1], new[2])
    BY <1>4, <1>8
  <2> QED BY <1>3, <2>1, <2>2
<1>10. \A x \in processed' : AnsweredFor(x) \subseteq edges'
  BY <1>3, <1>6 DEF WrittenInv, ProcessedIsWritten
<1>11. faults' = 0 => \A x \in processed' : RequiredBy(x[1], x[2]) \subseteq edges'
  BY <1>3, <1>5, <1>7 DEF WrittenInv, ProcessedIsWritten
<1>12. \A v \in externals' \ Stored.externals : \E e \in edges' : v \in {e[1], e[2]}
  BY <1>3, <1>4 DEF WrittenInv, ProcessedIsWritten
<1>13. \A x \in processed' \ processed : x[4] = slots[s].job
  BY <1>3, <1>5
<1>14. slots[s].done + 1 \in Nat
       /\ (slots[s].done + 1 = 0 <=> \A x \in processed' : x[4] # slots[s].job)
  BY <1>2, <1>3, <1>5
<1> QED BY <1>1, <1>3, <1>9, <1>10, <1>11, <1>12, <1>13, <1>14, EndWritten

LEMMA Unlinked ==
  ASSUME NEW S, NEW q \in Seq(S), q # <<>>
  PROVE  /\ Head(q) \in S /\ Tail(q) \in Seq(S)
         /\ \A i \in DOMAIN q : q[i] = Head(q) \/ \E k \in DOMAIN Tail(q) : Tail(q)[k] = q[i]
<1>1. Head(q) \in S /\ Tail(q) \in Seq(S)
  OBVIOUS
<1>2. ASSUME NEW i \in DOMAIN q, i # 1 PROVE \E k \in DOMAIN Tail(q) : Tail(q)[k] = q[i]
  <2>1. i - 1 \in DOMAIN Tail(q) /\ Tail(q)[i - 1] = q[i]
    BY <1>2
  <2> QED BY <2>1
<1> QED BY <1>1, <1>2

(* A link that was visited joins the edges.                                 *)
LEMMA LinkedFits ==
  ASSUME NEW s \in Slots, Open(s), Fits(s), slots[s].pc # "flush", slots[s].pc # "commit",
         slots[s].pc # "dependents", slots[s].rest # <<>>,
         Continues(s), SameRow(s), slots'[s].pc = "visit", LinksNext(s),
         \/ slots'[s].new = slots[s].new
         \/ slots'[s].new = slots[s].new \cup {Head(slots[s].rest).name}
  PROVE  Fits(s)'
<1> DEFINE p == Package(s)
           r == slots[s].repo
           q == slots[s].rest
           m == Required(s)
           link == Head(slots[s].rest)
<1>1. q \in Seq(Links(p, m, r)) /\ q # <<>>
  BY DEF Fits
<1>2. link \in Links(p, m, r) /\ Tail(q) \in Seq(Links(p, m, r))
  BY <1>1, Unlinked
<1>3. link.edge \in Declared(p, m, r) /\ link.name \in {link.edge[1], link.edge[2]}
  BY <1>2 DEF Links, Declared, DependentOn
<1>4. Package(s)' = p
  BY SamePackage
<1>5. /\ slots'[s].repo = r /\ slots'[s].rest = Tail(q) /\ slots'[s].crawled = slots[s].crawled
      /\ slots'[s].links = slots[s].links \cup {link.edge} /\ slots'[s].asked = slots[s].asked
  BY DEF Continues, SameRow, LinksNext
<1>6. Planned(s) \subseteq {link.edge} \cup Planned(s)'
  <2> SUFFICES ASSUME NEW i \in DOMAIN q PROVE q[i].edge \in {link.edge} \cup Planned(s)'
    BY DEF Planned
  <2>1. q[i] = link \/ \E k \in DOMAIN Tail(q) : Tail(q)[k] = q[i]
    BY <1>1, Unlinked
  <2>2. Planned(s)' = {Tail(q)[k].edge : k \in DOMAIN Tail(q)}
    BY <1>5 DEF Planned
  <2> QED BY <2>1, <2>2
<1>7. RequiredEdges(s)' = RequiredEdges(s) /\ Required(s)' = m
  BY <1>5 DEF RequiredEdges, Required
<1>8. slots'[s].links \subseteq Declared(p, m, r)
  BY <1>3, <1>5 DEF Fits
<1>9. \A v \in slots'[s].new : \E e \in slots'[s].links : v \in {e[1], e[2]}
  BY <1>3, <1>5 DEF Fits
<1>10. RequiredEdges(s) \subseteq slots'[s].links \cup Planned(s)'
  BY <1>5, <1>6 DEF Fits
<1>11. slots[s].asked => RequiredEdges(s) \subseteq slots'[s].links
  BY <1>5 DEF Fits
<1> HIDE DEF p, r, m
<1> QED BY <1>2, <1>4, <1>5, <1>7, <1>8, <1>9, <1>10, <1>11 DEF Fits

LEMMA FlushFits ==
  ASSUME Typed, NEW s \in Slots, Fits(s), FlushSourceRepo(s)
  PROVE  Fits(s)'
<1> DEFINE p == Package(s)
           r == slots[s].repo
           names == slots[s].crawled.requires
           m == Required(s)
<1>1. slots[s].pc = "flush" /\ Busy(s) /\ Open(s)
  BY DEF FlushSourceRepo, Busy, Open
<1>2. /\ Continues(s) /\ slots'[s].pc = "visit" /\ slots'[s].repo = r
      /\ slots'[s].new = slots[s].new /\ slots'[s].links = slots[s].links /\ slots'[s].asked = FALSE
      /\ slots'[s].rest = LinksTo(r, names)
  BY FlushStep
<1>3. p \in Packages
  BY <1>1, CrawlConstants DEF CrawlConstants, Typed, Shaped, Package
<1>4. slots[s].crawled \in PackageAnswers[p] /\ ~slots[s].crawled.raised
  BY <1>1 DEF Typed, Shaped
<1>5. names \in Seq(ToSet(names))
  BY <1>3, <1>4, AnswersLists DEF AnswersAreLists
<1>6. m = ToSet(names) /\ Required(s)' = m
  BY <1>2 DEF Required, Continues
<1>7. LinksTo(r, names) \in Seq(Links(p, m, r))
  <2>1. DOMAIN names = 1..Len(names) /\ Len(names) \in Nat
    BY <1>5
  <2>2. \A i \in DOMAIN names : [name |-> names[i], edge |-> <<r, names[i]>>] \in Links(p, m, r)
    BY <1>6 DEF Links, ToSet
  <2> QED BY <2>1, <2>2 DEF LinksTo
<1>8. RequiredEdges(s)' = {<<r, n>> : n \in ToSet(names)}
  BY <1>2, <1>6 DEF RequiredEdges
<1>9. Planned(s)' = {<<r, names[i]>> : i \in DOMAIN names}
  BY <1>2 DEF Planned, LinksTo
<1>10. RequiredEdges(s)' \subseteq Planned(s)'
  BY <1>8, <1>9 DEF ToSet
<1>11. Package(s)' = p
  BY <1>2, SamePackage
<1>12. /\ slots[s].links \subseteq Declared(p, m, r)
       /\ \A v \in slots[s].new : \E e \in slots[s].links : v \in {e[1], e[2]}
  BY <1>1 DEF Fits
<1> HIDE DEF p, r, names, m
<1> QED BY <1>2, <1>6, <1>7, <1>10, <1>11, <1>12 DEF Fits

LEMMA DependentsFit ==
  ASSUME Typed, NEW s \in Slots, Fits(s), FetchDependentsOf(s), ~FailPackage(s)
  PROVE  Fits(s)'
<1> DEFINE p == Package(s)
           r == slots[s].repo
           m == Required(s)
<1>1. slots[s].pc = "dependents" /\ Busy(s) /\ Open(s)
  BY DEF FetchDependentsOf, Busy, Open
<1>2. PICK answer \in DependentsAnswers[p] :
        /\ ~answer.raised /\ Continues(s) /\ SameRow(s) /\ slots'[s].pc = "visit"
        /\ slots'[s].new = slots[s].new /\ slots'[s].links = slots[s].links
        /\ slots'[s].asked = TRUE /\ slots'[s].rest = LinksFrom(r, answer.names)
  BY DependentsStep
<1>3. p \in Packages
  BY <1>1, CrawlConstants DEF CrawlConstants, Typed, Shaped, Package
<1> DEFINE names == answer.names
<1>4. names \in Seq(Dependents(p))
  BY <1>2, <1>3, AnswersLists DEF AnswersAreLists
<1>5. LinksFrom(r, names) \in Seq(Links(p, m, r))
  <2>1. DOMAIN names = 1..Len(names) /\ Len(names) \in Nat
    BY <1>4
  <2>2. \A i \in DOMAIN names : names[i] \in Dependents(p)
    BY <1>4
  <2>3. \A i \in DOMAIN names : [name |-> names[i], edge |-> <<names[i], r>>] \in Links(p, m, r)
    BY <2>2 DEF Links
  <2> QED BY <2>1, <2>3 DEF LinksFrom
<1>6. /\ Required(s)' = m
      /\ RequiredEdges(s)' = RequiredEdges(s) /\ RequiredEdges(s) \subseteq slots[s].links
  BY <1>1, <1>2 DEF RequiredEdges, Required, Continues, SameRow, Fits
<1>7. Package(s)' = p
  BY <1>2, SamePackage
<1>8. /\ slots[s].links \subseteq Declared(p, m, r)
      /\ \A v \in slots[s].new : \E e \in slots[s].links : v \in {e[1], e[2]}
  BY <1>1 DEF Fits
<1>9. slots'[s].repo = r
  BY <1>2 DEF SameRow
<1> HIDE DEF p, r, m, names
<1> QED BY <1>2, <1>5, <1>6, <1>7, <1>8, <1>9 DEF Fits, names

(* A step that neither links nor plans anything.                            *)
LEMMA RestFits ==
  ASSUME NEW s \in Slots, Open(s), Fits(s), slots[s].pc # "flush", Continues(s), SameRow(s),
         slots'[s].new = slots[s].new, slots'[s].links = slots[s].links,
         slots'[s].rest = slots[s].rest, slots'[s].asked = slots[s].asked,
         \/ slots[s].rest # <<>> /\ slots'[s].pc = "insert"
         \/ slots[s].rest = <<>> /\ slots'[s].pc = IF slots[s].asked THEN "commit" ELSE "dependents"
  PROVE  Fits(s)'
<1>1. Package(s)' = Package(s) /\ slots'[s].repo = slots[s].repo /\ slots'[s].pc # "flush"
  BY SamePackage DEF SameRow
<1>2. Required(s)' = Required(s) /\ RequiredEdges(s)' = RequiredEdges(s) /\ Planned(s)' = Planned(s)
  BY <1>1 DEF RequiredEdges, Required, Planned, Continues
<1>3. slots[s].rest = <<>> => Planned(s) = {}
  BY DEF Planned
<1>4. /\ slots[s].links \subseteq Declared(Package(s), Required(s), slots[s].repo)
      /\ \A v \in slots[s].new : \E e \in slots[s].links : v \in {e[1], e[2]}
      /\ slots[s].rest \in Seq(Links(Package(s), Required(s), slots[s].repo))
      /\ RequiredEdges(s) \subseteq slots[s].links \cup Planned(s)
      /\ slots[s].asked => RequiredEdges(s) \subseteq slots[s].links
  BY DEF Fits
<1>5. slots'[s].asked \/ slots'[s].pc \in {"dependents", "commit"} => RequiredEdges(s) \subseteq slots[s].links
  BY <1>3, <1>4
<1> QED BY <1>1, <1>2, <1>4, <1>5 DEF Fits

LEMMA FetchPackageWritten ==
  ASSUME Typed, WrittenInv, NEW s \in Slots, FetchPackageOf(s), ~FailPackage(s)
  PROVE  WrittenInv'
<1>1. PICK crawled \in PackageAnswers[Package(s)] :
        /\ slots[s].pc = "fetch" /\ UNCHANGED stage
        /\ IF crawled = FetchPackage(Package(s), "ok", "ok") THEN UNCHANGED faults ELSE Fault
        /\ Go(s, [pc |-> "load", crawled |-> crawled]) /\ UNCHANGED <<jobs, graph, history>>
  BY DEF FetchPackageOf
<1>2. Busy(s) /\ (Fault \/ UNCHANGED faults)
  BY <1>1 DEF Busy
<1> DEFINE fields == [pc |-> "load", crawled |-> crawled]
<1>3. Go(s, fields) /\ UNCHANGED <<jobs, externals, edges, processed>>
  BY <1>1 DEF graph, history
<1>4. DOMAIN fields = {"pc", "crawled"} /\ fields["pc"] = "load" /\ fields["crawled"] = crawled
  OBVIOUS
<1> HIDE DEF fields
<1>5. /\ \A t \in Slots \ {s} : slots'[t] = slots[t]
      /\ slots'[s].pc = "load" /\ slots'[s].crawled = crawled
      /\ slots'[s].job = slots[s].job /\ slots'[s].at = slots[s].at /\ slots'[s].done = slots[s].done
  BY <1>2, <1>3, <1>4, GoSlot DEF Typed, Shaped
<1>6. faults' = 0 => faults = 0
  BY <1>2, FaultsGrow
<1>7. stage = "working" /\ stage' = "working"
  BY <1>1, <1>2 DEF Typed, Held
<1>8. ProcessedIsWritten'
  BY <1>3, <1>6, <1>7 DEF WrittenInv, ProcessedIsWritten, Killed
<1>9. \A t \in Slots \ {s} : Fits(t)' /\ Best(t)' /\ Tallied(t)'
  BY <1>3, <1>5, <1>6, OthersWritten
<1>10. Package(s)' = Package(s)
  BY <1>5 DEF Package
<1>11. faults' = 0 => crawled = FetchPackage(Package(s), "ok", "ok")
  BY <1>1 DEF Fault, Typed
<1>12. Best(s)'
  BY <1>5, <1>10, <1>11 DEF Best
<1>13. Tallied(s) /\ Busy(s)
  BY <1>2 DEF WrittenInv
<1>14. Tallied(s)' /\ Fits(s)'
  BY <1>3, <1>5, <1>13 DEF Tallied, Fits, Open
<1> QED BY <1>3, <1>8, <1>9, <1>12, <1>14 DEF WrittenInv

LEMMA SlotWritten ==
  ASSUME Typed, WrittenInv, NEW s \in Slots,
         \/ FetchPackageOf(s) \/ LoadSourceRepo(s) \/ FlushSourceRepo(s) \/ VisitPackage(s)
         \/ InsertPackage(s) \/ ResolveDeadlock(s) \/ FetchDependentsOf(s) \/ Commit(s)
  PROVE  WrittenInv'
<1>1. Busy(s) /\ UNCHANGED stage /\ (Fault \/ UNCHANGED faults)
  BY DEF FetchPackageOf, LoadSourceRepo, FlushSourceRepo, VisitPackage, InsertPackage,
         ResolveDeadlock, FetchDependentsOf, Commit, MayWait, Waits, Busy
<1>2. Fits(s)
  BY DEF WrittenInv
<1>3. CASE FailPackage(s)
  BY <1>1, <1>3, FailWritten
<1>4. CASE FetchPackageOf(s) /\ ~FailPackage(s)
  BY <1>4, FetchPackageWritten
<1>5. CASE Commit(s) /\ ~FailPackage(s)
  BY <1>5, CommitWritten
<1>6. CASE LoadSourceRepo(s) /\ ~FailPackage(s)
  <2>1. /\ Continues(s) /\ slots'[s].pc = "flush"
        /\ slots'[s].new = {} /\ slots'[s].links = {} /\ slots[s].pc = "load"
    BY <1>6, LoadStep DEF LoadSourceRepo
  <2>2. Fits(s)'
    BY <2>1 DEF Fits
  <2> QED BY <1>1, <2>1, <2>2, ContinueWritten
<1>7. CASE FlushSourceRepo(s)
  <2>1. Continues(s) /\ slots'[s].pc = "visit" /\ slots[s].pc = "flush"
    BY <1>7, FlushStep DEF FlushSourceRepo
  <2>2. Fits(s)'
    BY <1>2, <1>7, FlushFits
  <2> QED BY <1>1, <2>1, <2>2, ContinueWritten
<1>8. CASE VisitPackage(s)
  <2>1. slots[s].pc = "visit" /\ Open(s)
    BY <1>8 DEF VisitPackage, Open
  <2>2. /\ Continues(s) /\ SameRow(s) /\ slots'[s].new = slots[s].new
        /\ slots'[s].pc \in {"visit", "insert", "commit", "dependents"}
    BY <1>8, VisitStep
  <2>3. Fits(s)'
    BY <1>2, <1>8, <2>1, <2>2, VisitStep, LinkedFits, RestFits
  <2> QED BY <1>1, <2>1, <2>2, <2>3, ContinueWritten
<1>9. CASE InsertPackage(s) /\ ~FailPackage(s)
  <2>1. slots[s].pc = "insert" /\ Open(s)
    BY <1>9 DEF InsertPackage, Open
  <2>2. /\ Continues(s) /\ SameRow(s) /\ slots'[s].pc = "visit" /\ LinksNext(s)
        /\ slots'[s].new = slots[s].new \cup {Head(slots[s].rest).name}
    BY <1>9, InsertStep
  <2>3. slots[s].rest # <<>>
    BY <1>2, <2>1 DEF Fits
  <2>4. Fits(s)'
    BY <1>2, <2>1, <2>2, <2>3, LinkedFits
  <2> QED BY <1>1, <2>1, <2>2, <2>4, ContinueWritten
<1>10. CASE FetchDependentsOf(s) /\ ~FailPackage(s)
  <2>1. Continues(s) /\ slots'[s].pc = "visit" /\ slots[s].pc = "dependents"
    BY <1>10, DependentsStep DEF FetchDependentsOf
  <2>2. Fits(s)'
    BY <1>2, <1>10, DependentsFit
  <2> QED BY <1>1, <2>1, <2>2, ContinueWritten
<1> QED BY <1>3, <1>4, <1>5, <1>6, <1>7, <1>8, <1>9, <1>10 DEF ResolveDeadlock

LEMMA FetchWritten == ASSUME Typed, WrittenInv, NEW s \in Slots, Fetch(s) PROVE WrittenInv'
<1>1. PICK j \in DOMAIN Jobs :
        /\ stage = "working" /\ ~Busy(s) /\ jobs[j] = "todo"
        /\ jobs' = [jobs EXCEPT ![j] = "doing"]
        /\ slots' = [slots EXCEPT ![s] = [pc |-> "fetch", job |-> j, at |-> 1, done |-> 0]]
        /\ UNCHANGED <<stage, externals, edges, faults, processed>>
  BY DEF Fetch, graph, history
<1>2. slots'[s] = [pc |-> "fetch", job |-> j, at |-> 1, done |-> 0] /\ \A t \in Slots \ {s} : slots'[t] = slots[t]
  BY <1>1 DEF Typed
<1>3. \A i \in DOMAIN Jobs : jobs'[i] = IF i = j THEN "doing" ELSE jobs[i]
  BY <1>1 DEF Typed
<1>4. ProcessedIsWritten'
  BY <1>1, <1>3 DEF WrittenInv, ProcessedIsWritten, Killed
<1>5. \A t \in Slots \ {s} : Fits(t)' /\ Best(t)' /\ Tallied(t)'
  BY <1>1, <1>2, OthersWritten
<1>6. \A x \in processed' : x[4] # j
  BY <1>1 DEF WrittenInv
<1>7. Fits(s)' /\ Best(s)' /\ Tallied(s)'
  BY <1>2, <1>6 DEF Fits, Best, Tallied, Open
<1>8. \A i \in DOMAIN Jobs : jobs'[i] \in {"none", "todo"} => \A x \in processed' : x[4] # i
  BY <1>1, <1>3 DEF WrittenInv
<1> QED BY <1>4, <1>5, <1>7, <1>8 DEF WrittenInv

(* The worker ends: a killed job has failed, whatever it had processed.     *)
LEMMA EndWorkWritten == ASSUME Typed, WrittenInv, EndWork PROVE WrittenInv'
<1>1. \A s \in Slots : ~Busy(s)'
  BY EndWorkTyped
<1>2. /\ stage = "working" /\ stage' = "criticality"
      /\ \A j \in DOMAIN Jobs : jobs'[j] = IF jobs[j] = "doing" THEN "failed" ELSE jobs[j]
      /\ UNCHANGED <<externals, edges, processed>>
  BY DEF EndWork, graph, history
<1>3. \/ UNCHANGED faults /\ \A j \in DOMAIN Jobs : jobs[j] # "doing"
      \/ faults' > 0
  BY DEF EndWork, Fault, Typed
<1>4. faults' = 0 => faults = 0
  BY FaultsGrow DEF EndWork
<1>5. \A j \in DOMAIN Jobs : jobs'[j] = "failed" /\ ~(stage' # "working" /\ faults' > 0)
                               => \A x \in processed : x[4] # j
  BY <1>2, <1>3 DEF WrittenInv, ProcessedIsWritten, Killed
<1>6. ProcessedIsWritten'
  BY <1>2, <1>4, <1>5 DEF WrittenInv, ProcessedIsWritten, Killed
<1>7. \A s \in Slots : Fits(s)' /\ Best(s)' /\ Tallied(s)'
  BY <1>1 DEF Fits, Best, Tallied, Open, Busy
<1> QED BY <1>2, <1>6, <1>7 DEF WrittenInv

LEMMA NextWritten == Typed /\ WrittenInv /\ [Next]_vars => WrittenInv'
<1> SUFFICES ASSUME Typed, WrittenInv, [Next]_vars PROVE WrittenInv'
  OBVIOUS
<1>1. ASSUME UNCHANGED <<stage, slots, jobs, externals, edges, processed, faults>> PROVE WrittenInv'
  <2>1. ProcessedIsWritten'
    BY <1>1 DEF WrittenInv, ProcessedIsWritten, Killed
  <2>2. \A t \in Slots : Fits(t)' /\ Best(t)' /\ Tallied(t)'
    BY <1>1 DEF WrittenInv, Fits, Best, Tallied, RequiredEdges, Required, Planned, Open, Busy, Package
  <2> QED BY <1>1, <2>1, <2>2 DEF WrittenInv
<1>2. CASE UNCHANGED vars
  BY <1>1, <1>2 DEF vars, graph, history
<1>3. CASE MaterializeCriticality \/ MaterializeAdoption
  <2>1. UNCHANGED <<slots, jobs, externals, edges, processed, faults>> /\ stage # "working" /\ stage' # "working"
    BY <1>3 DEF MaterializeCriticality, MaterializeAdoption, graph, history
  <2>2. ProcessedIsWritten'
    BY <2>1 DEF WrittenInv, ProcessedIsWritten, Killed
  <2>3. \A t \in Slots : Fits(t)' /\ Best(t)' /\ Tallied(t)'
    BY <2>1 DEF WrittenInv, Fits, Best, Tallied, RequiredEdges, Required, Planned, Open, Busy, Package
  <2> QED BY <2>1, <2>2, <2>3 DEF WrittenInv
<1> QED BY <1>2, <1>3, FetchWritten, EndWorkWritten, SlotWritten DEF Next

(* Whatever jobs run at once and fail, the requirements of a package that   *)
(* counts as processed are in the graph, no edge or vertex comes from one   *)
(* that failed, and a job has succeeded just when it processed one          *)
(* (crawl_and_persist, _process_package). The hypothesis is about what the  *)
(* clients parse, not about states: requirements and dependents are lists   *)
(* of names, and a dependent is named only if the registry lists it.        *)
THEOREM ProcessedWritten == Spec => []ProcessedIsWritten
<1>1. WrittenInv => ProcessedIsWritten
  BY DEF WrittenInv
<1>2. Typed /\ WrittenInv /\ [Next]_vars => WrittenInv'
  BY NextWritten
<1> QED BY <1>1, <1>2, InitTyped, NextTyped, InitWritten, PTL DEF Spec

-----------------------------------------------------------------------------
Closed(E, C) == \A e \in E : e[1] \in C => e[2] \in C
Onward(E, S) == S \cup {e[2] : e \in {x \in E : x[1] \in S}}
IsSteps(f, E, S) == f = [n \in Nat |-> IF n = 0 THEN S ELSE Onward(E, f[n - 1])]

LEMMA ReachIsSteps ==
  ASSUME NEW E, NEW S
  PROVE  Reach(E, S) = (CHOOSE f : IsSteps(f, E, S))[Cardinality(E)]
BY DEF Reach, IsSteps, Onward

(* There is such a function: what is reached in n steps is at the end of a  *)
(* walk of n steps, each along an edge or none.                             *)
LEMMA StepsExist ==
  ASSUME NEW E, NEW S
  PROVE  \E f : IsSteps(f, E, S)
<1> DEFINE V == S \cup {e[2] : e \in E}
           Along(u, v) == u = v \/ \E e \in E : e[1] = u /\ e[2] = v
           IsWalk(w, n) == w \in [0..n -> V] /\ w[0] \in S /\ \A i \in 1..n : Along(w[i - 1], w[i])
           WalkEnds(n) == {v \in V : \E w : IsWalk(w, n) /\ w[n] = v}
           f == [n \in Nat |-> WalkEnds(n)]
<1>1. WalkEnds(0) = S
  <2>1. ASSUME NEW v \in S PROVE v \in WalkEnds(0)
    <3> DEFINE w == [i \in 0..0 |-> v]
    <3>1. IsWalk(w, 0) /\ w[0] = v
      OBVIOUS
    <3> QED BY <3>1
  <2> QED BY <2>1
<1>2. ASSUME NEW n \in Nat, n # 0 PROVE WalkEnds(n) = Onward(E, WalkEnds(n - 1))
  <2>1. n - 1 \in Nat /\ 0..(n - 1) \subseteq 0..n /\ n \in 1..n /\ n - 1 \in 0..(n - 1) /\ 0 \in 0..(n - 1)
    BY <1>2
  <2>2. ASSUME NEW v \in WalkEnds(n) PROVE v \in Onward(E, WalkEnds(n - 1))
    <3>1. PICK w : IsWalk(w, n) /\ w[n] = v
      OBVIOUS
    <3> DEFINE u == [i \in 0..(n - 1) |-> w[i]]
    <3>2. u \in [0..(n - 1) -> V] /\ u[0] = w[0] /\ u[n - 1] = w[n - 1]
      BY <2>1, <3>1
    <3>3. \A i \in 1..(n - 1) : i \in 1..n /\ u[i - 1] = w[i - 1] /\ u[i] = w[i]
      BY <2>1
    <3> HIDE DEF u
    <3>4. IsWalk(u, n - 1)
      BY <3>1, <3>2, <3>3
    <3>5. w[n - 1] \in WalkEnds(n - 1)
      BY <2>1, <3>2, <3>4
    <3>6. Along(w[n - 1], v)
      BY <2>1, <3>1
    <3> HIDE DEF WalkEnds
    <3> QED BY <3>5, <3>6 DEF Onward
  <2>3. ASSUME NEW v \in Onward(E, WalkEnds(n - 1)) PROVE v \in WalkEnds(n)
    <3>1. \E u \in WalkEnds(n - 1) : Along(u, v)
      <4> HIDE DEF WalkEnds
      <4> QED BY <2>3 DEF Onward
    <3>2. PICK u \in WalkEnds(n - 1) : Along(u, v)
      BY <3>1
    <3>3. PICK w : IsWalk(w, n - 1) /\ w[n - 1] = u
      OBVIOUS
    <3>4. v \in V
      BY <3>2
    <3> DEFINE x == [i \in 0..n |-> IF i = n THEN v ELSE w[i]]
    <3>5. \A i \in 0..n : i # n => i \in 0..(n - 1)
      BY <2>1
    <3>6. x \in [0..n -> V] /\ x[n] = v
      BY <3>3, <3>4, <3>5
    <3>7. \A i \in 0..(n - 1) : x[i] = w[i]
      BY <2>1
    <3> HIDE DEF x, V
    <3>8. ASSUME NEW i \in 1..n PROVE Along(x[i - 1], x[i])
      <4>1. i - 1 \in 0..(n - 1) /\ x[i - 1] = w[i - 1]
        BY <3>7
      <4>2. CASE i = n
        BY <3>2, <3>3, <3>6, <4>1, <4>2
      <4>3. CASE i # n
        <5>1. i \in 1..(n - 1) /\ x[i] = w[i]
          BY <3>7, <4>3
        <5> QED BY <3>3, <4>1, <5>1
      <4> QED BY <4>2, <4>3
    <3>9. x[0] \in S
      BY <2>1, <3>3, <3>7
    <3> QED BY <3>4, <3>6, <3>8, <3>9
  <2> QED BY <2>2, <2>3
<1>3. \A n \in Nat : WalkEnds(n) = IF n = 0 THEN S ELSE Onward(E, f[n - 1])
  <2> SUFFICES ASSUME NEW n \in Nat PROVE WalkEnds(n) = IF n = 0 THEN S ELSE Onward(E, f[n - 1])
    OBVIOUS
  <2> HIDE DEF WalkEnds
  <2>1. n # 0 => n - 1 \in Nat /\ f[n - 1] = WalkEnds(n - 1)
    OBVIOUS
  <2> HIDE DEF f
  <2> QED BY <1>1, <1>2, <2>1
<1> HIDE DEF WalkEnds
<1>4. f = [n \in Nat |-> IF n = 0 THEN S ELSE Onward(E, f[n - 1])]
  BY <1>3
<1> QED BY <1>4 DEF IsSteps

LEMMA ReachSteps ==
  ASSUME NEW E, NEW S
  PROVE  \E f : /\ f[0] = S /\ \A n \in Nat : f[n + 1] = Onward(E, f[n])
                /\ Reach(E, S) = f[Cardinality(E)]
<1> DEFINE f == CHOOSE g : IsSteps(g, E, S)
<1>1. IsSteps(f, E, S)
  BY StepsExist
<1>2. Reach(E, S) = f[Cardinality(E)]
  BY ReachIsSteps
<1> HIDE DEF f
<1>3. \A n \in Nat : f[n] = IF n = 0 THEN S ELSE Onward(E, f[n - 1])
  BY <1>1, Zenon DEF IsSteps
<1>4. f[0] = S
  BY <1>3
<1>5. ASSUME NEW n \in Nat PROVE f[n + 1] = Onward(E, f[n])
  <2>1. n + 1 \in Nat /\ n + 1 # 0 /\ (n + 1) - 1 = n
    OBVIOUS
  <2> QED BY <1>3, <2>1
<1> QED BY <1>2, <1>4, <1>5

(* As many steps as there are edges suffice: while something is missing,    *)
(* each step arrives at the end of one edge more.                           *)
LEMMA ReachIsClosed ==
  ASSUME NEW E, IsFiniteSet(E), NEW S
  PROVE  S \subseteq Reach(E, S) /\ Closed(E, Reach(E, S))
<1>1. PICK f : /\ f[0] = S /\ \A n \in Nat : f[n + 1] = Onward(E, f[n])
               /\ Reach(E, S) = f[Cardinality(E)]
  BY ReachSteps
<1> DEFINE Arrived(n) == {e \in E : e[2] \in f[n]}
           Enough(n) == S \subseteq f[n] /\ (Closed(E, f[n]) \/ Cardinality(Arrived(n)) >= n)
           Sizes == {n \in Nat : Enough(n)}
<1>2. \A n \in Nat : IsFiniteSet(Arrived(n)) /\ Cardinality(Arrived(n)) \in Nat
  BY FS_Subset, FS_CardinalityType
<1>3. 0 \in Sizes
  <2>1. Cardinality(Arrived(0)) >= 0
    <3> HIDE DEF Arrived
    <3> QED BY <1>2
  <2> HIDE DEF Arrived
  <2> QED BY <1>1, <2>1
<1>4. ASSUME NEW n \in Sizes \cap Nat PROVE n + 1 \in Sizes
  <2>1. f[n + 1] = Onward(E, f[n])
    BY <1>1
  <2>2. S \subseteq f[n + 1] /\ f[n] \subseteq f[n + 1]
    BY <2>1 DEF Onward
  <2>3. CASE Closed(E, f[n])
    <3>1. f[n + 1] = f[n]
      BY <2>1, <2>3 DEF Onward, Closed
    <3> QED BY <2>2, <2>3, <3>1
  <2>4. CASE ~Closed(E, f[n])
    <3>1. PICK e \in E : e[1] \in f[n] /\ e[2] \notin f[n]
      BY <2>4 DEF Closed
    <3>2. e[2] \in f[n + 1]
      BY <2>1, <3>1 DEF Onward
    <3>3. e \in Arrived(n + 1) /\ Arrived(n) \subseteq Arrived(n + 1) \ {e}
      BY <2>2, <3>1, <3>2
    <3>4. Cardinality(Arrived(n)) >= n
      BY <2>4
    <3> HIDE DEF Arrived
    <3>5. IsFiniteSet(Arrived(n + 1)) /\ n + 1 \in Nat
      BY <1>2
    <3>6. /\ IsFiniteSet(Arrived(n + 1) \ {e})
          /\ Cardinality(Arrived(n + 1) \ {e}) = Cardinality(Arrived(n + 1)) - 1
          /\ Cardinality(Arrived(n + 1)) \in Nat /\ Cardinality(Arrived(n + 1) \ {e}) \in Nat
      BY <3>3, <3>5, OneLess
    <3>7. Cardinality(Arrived(n)) <= Cardinality(Arrived(n + 1) \ {e})
      BY <3>3, <3>6, FS_Subset
    <3>8. Cardinality(Arrived(n + 1)) >= n + 1
      BY <1>2, <3>4, <3>6, <3>7
    <3> QED BY <2>2, <3>5, <3>8
  <2> QED BY <2>3, <2>4
<1>5. Nat \subseteq Sizes
  <2> HIDE DEF Sizes
  <2> QED BY <1>3, <1>4, Induction
<1> DEFINE k == Cardinality(E)
<1>6. k \in Nat
  BY FS_CardinalityType
<1>7. Enough(k)
  BY <1>5, <1>6
<1>8. Cardinality(Arrived(k)) >= k => Arrived(k) = E
  <2>1. Arrived(k) \in SUBSET E
    OBVIOUS
  <2> HIDE DEF Arrived
  <2>2. Cardinality(Arrived(k)) <= k /\ (Cardinality(Arrived(k)) = k => Arrived(k) = E)
    BY <2>1, FS_Subset
  <2> QED BY <1>2, <1>6, <2>2
<1> QED BY <1>1, <1>7, <1>8 DEF Closed

(* Nothing else is reached.                                                 *)
LEMMA ReachIsLeast ==
  ASSUME NEW E, IsFiniteSet(E), NEW S, NEW C, S \subseteq C, Closed(E, C)
  PROVE  Reach(E, S) \subseteq C
<1>1. PICK f : /\ f[0] = S /\ \A n \in Nat : f[n + 1] = Onward(E, f[n])
               /\ Reach(E, S) = f[Cardinality(E)]
  BY ReachSteps
<1> DEFINE Within == {n \in Nat : f[n] \subseteq C}
<1>2. 0 \in Within
  BY <1>1
<1>3. ASSUME NEW n \in Within \cap Nat PROVE n + 1 \in Within
  <2>1. f[n + 1] \subseteq C
    BY <1>1 DEF Onward, Closed
  <2> QED BY <2>1
<1>4. Nat \subseteq Within
  <2> HIDE DEF Within
  <2> QED BY <1>2, <1>3, Induction
<1> QED BY <1>1, <1>4, FS_CardinalityType

(* A vertex depends on those in every closed set of vertices it is in.      *)
Depends(V, E, u, v) == \A C \in SUBSET V : Closed(E, C) /\ u \in C => v \in C

DependedOn(V, E, S) == {v \in V : \E u \in S : Depends(V, E, u, v)}

(* What a traversal reaches depends the other way round on where it began.  *)
LEMMA ReachIsDepended ==
  ASSUME NEW V, NEW E, IsFiniteSet(E), \A e \in E : e[1] \in V /\ e[2] \in V, NEW S \in SUBSET V
  PROVE  Reach(E, S) = DependedOn(V, E, S)
<1> DEFINE D == {v \in V : \E u \in S : Depends(V, E, u, v)}
<1>1. S \subseteq D
  BY DEF Depends
<1>2. ASSUME NEW e \in E, e[1] \in D PROVE e[2] \in D
  <2>1. PICK u \in S : Depends(V, E, u, e[1])
    BY <1>2
  <2>2. Depends(V, E, u, e[2])
    BY <1>2, <2>1 DEF Depends, Closed
  <2> QED BY <2>2
<1>3. Reach(E, S) \subseteq D
  <2> HIDE DEF D
  <2>1. Closed(E, D)
    BY <1>2 DEF Closed
  <2> QED BY <1>1, <2>1, ReachIsLeast
<1>4. S \subseteq Reach(E, S) /\ Closed(E, Reach(E, S)) /\ Reach(E, S) \subseteq V
  BY <1>3, ReachIsClosed
<1>5. D \subseteq Reach(E, S)
  BY <1>4 DEF Depends
<1>6. Reach(E, S) = D
  BY <1>3, <1>5
<1> QED BY <1>6 DEF DependedOn

(* The dependents of a vertex among those that a traversal reached.         *)
LEMMA DependentsReached ==
  ASSUME NEW V, NEW E, IsFiniteSet(E), E \subseteq V \X V,
         NEW A \in SUBSET V, Closed(E, A), NEW v \in A
  PROVE  Reach(Reversed(Induced(E, A)), {v}) = {u \in A : Depends(V, E, u, v)}
<1> DEFINE R == Reversed(Induced(E, A))
           U == {u \in A : Depends(V, E, u, v)}
<1>1. \A x \in R : \E e \in E : x[1] = e[2] /\ x[2] = e[1] /\ e[1] \in A /\ e[2] \in A
  BY DEF Reversed, Induced
<1>2. \A e \in E : e[1] \in A /\ e[2] \in A => <<e[2], e[1]>> \in R
  BY DEF Reversed, Induced
<1>3. IsFiniteSet(R)
  <2>1. IsFiniteSet(Induced(E, A))
    BY FS_Subset DEF Induced
  <2> DEFINE f == [e \in Induced(E, A) |-> <<e[2], e[1]>>]
  <2>2. f \in [Induced(E, A) -> R] /\ \A x \in R : \E e \in Induced(E, A) : f[e] = x
    BY DEF Reversed
  <2> HIDE DEF f, R
  <2>3. f \in Surjection(Induced(E, A), R)
    BY <2>2 DEF Surjection
  <2> QED BY <2>1, <2>3, FS_Surjection
<1> HIDE DEF R
<1>4. Reach(R, {v}) \subseteq U
  <2>1. {v} \subseteq U
    BY DEF Depends
  <2>2. ASSUME NEW x \in R, x[1] \in U PROVE x[2] \in U
    <3>1. PICK e \in E : x[1] = e[2] /\ x[2] = e[1] /\ e[1] \in A
      BY <1>1
    <3>2. Depends(V, E, e[2], v)
      BY <2>2, <3>1
    <3>3. Depends(V, E, e[1], v)
      BY <3>2 DEF Depends, Closed
    <3> QED BY <3>1, <3>3
  <2> HIDE DEF U
  <2>3. Closed(R, U)
    BY <2>2 DEF Closed
  <2> QED BY <1>3, <2>1, <2>3, ReachIsLeast
<1>5. v \in Reach(R, {v}) /\ Closed(R, Reach(R, {v}))
  BY <1>3, ReachIsClosed
<1>6. ASSUME NEW u \in U, u \notin Reach(R, {v}) PROVE FALSE
  <2> DEFINE C == A \ Reach(R, {v})
  <2>1. ASSUME NEW e \in E, e[1] \in C PROVE e[2] \in C
    <3>1. e[2] \in A
      BY <2>1 DEF Closed
    <3>2. <<e[2], e[1]>> \in R
      BY <1>2, <2>1, <3>1
    <3>3. e[2] \in Reach(R, {v}) => e[1] \in Reach(R, {v})
      <4>1. <<e[2], e[1]>>[1] = e[2] /\ <<e[2], e[1]>>[2] = e[1]
        OBVIOUS
      <4> QED BY <1>5, <3>2, <4>1 DEF Closed
    <3> QED BY <2>1, <3>1, <3>3
  <2>2. C \in SUBSET V /\ u \in C /\ v \notin C
    BY <1>5, <1>6
  <2> HIDE DEF C
  <2>3. Closed(E, C)
    BY <2>1 DEF Closed
  <2> QED BY <2>2, <2>3 DEF Depends
<1> QED BY <1>4, <1>6 DEF R

-----------------------------------------------------------------------------
(* The graph that the metrics are computed from.                            *)

Names == Stored.externals \cup UNION {NamesOf(p) : p \in Packages}

(* The ends of the edges that a transaction has linked exist, or are        *)
(* inserted with them.                                                      *)
Rooted(s) ==
  Open(s) =>
    /\ IsFiniteSet(slots[s].links)
    /\ slots[s].links \subseteq Vertices(externals \cup slots[s].new) \X Vertices(externals \cup slots[s].new)
    /\ slots[s].new \subseteq Names

GraphInv ==
  /\ IsFiniteSet(edges) /\ edges \subseteq Vertices(externals) \X Vertices(externals)
  /\ externals \subseteq Names
  /\ \A s \in Slots : Rooted(s)

LEMMA InitGraph == Init => GraphInv
<1> SUFFICES ASSUME Init PROVE GraphInv
  OBVIOUS
<1>1. \A s \in Slots : ~Open(s)
  BY DEF Init, Open, Idle
<1>2. externals = Stored.externals /\ edges = Stored.edges
  BY DEF Init
<1> QED BY <1>1, <1>2, StoredConstants DEF StoredConstants, GraphInv, Rooted, Names

(* A step of one slot that commits nothing.                                 *)
LEMMA GraphKept ==
  ASSUME GraphInv, NEW s \in Slots, \A t \in Slots \ {s} : slots'[t] = slots[t],
         UNCHANGED <<externals, edges>>, Rooted(s)'
  PROVE  GraphInv'
<1>1. \A t \in Slots \ {s} : Rooted(t)'
  BY DEF GraphInv, Rooted, Open
<1> QED BY <1>1 DEF GraphInv

LEMMA FailGraph ==
  ASSUME Typed, GraphInv, NEW s \in Slots, Busy(s), FailPackage(s)
  PROVE  GraphInv'
<1>1. slots[s].done \in Nat /\ NextPackage(s, slots[s].done) /\ UNCHANGED <<externals, edges>>
  BY DEF Typed, Shaped, FailPackage, graph
<1>2. Rooted(s)'
  BY <1>1, PackageEnds DEF Rooted
<1> QED BY <1>1, <1>2, PackageEnds, GraphKept

LEMMA CommitGraph ==
  ASSUME Typed, GraphInv, NEW s \in Slots, Commit(s), ~(FailPackage(s) /\ Fault)
  PROVE  GraphInv'
<1>1. slots[s].pc = "commit" /\ Busy(s) /\ Open(s)
  BY DEF Commit, Busy, Open
<1>2. slots[s].done + 1 \in Nat
  BY <1>1 DEF Typed, Shaped
<1>3. /\ externals' = externals \cup slots[s].new /\ edges' = edges \cup slots[s].links
      /\ NextPackage(s, slots[s].done + 1)
  BY CommitStep
<1>4. /\ IsFiniteSet(slots[s].links) /\ slots[s].new \subseteq Names
      /\ slots[s].links \subseteq Vertices(externals') \X Vertices(externals')
  BY <1>1, <1>3 DEF GraphInv, Rooted
<1>5. Vertices(externals) \subseteq Vertices(externals')
  BY <1>3 DEF Vertices
<1>6. IsFiniteSet(edges') /\ edges' \subseteq Vertices(externals') \X Vertices(externals') /\ externals' \subseteq Names
  BY <1>3, <1>4, <1>5, FS_Union DEF GraphInv
<1>7. Rooted(s)' /\ \A t \in Slots \ {s} : slots'[t] = slots[t]
  BY <1>1, <1>2, <1>3, PackageEnds DEF Rooted
<1>8. ASSUME NEW t \in Slots \ {s} PROVE Rooted(t)'
  <2>1. Rooted(t) /\ slots'[t] = slots[t]
    BY <1>7 DEF GraphInv
  <2> DEFINE V == Vertices(externals \cup slots[t].new)
             W == Vertices(externals' \cup slots[t].new)
  <2>2. V \subseteq W
    BY <1>3 DEF Vertices
  <2>3. Open(t)' => /\ IsFiniteSet(slots[t].links) /\ slots[t].links \subseteq V \X V
                    /\ slots[t].new \subseteq Names
    BY <2>1 DEF Rooted, Open
  <2> HIDE DEF V, W
  <2>4. Open(t)' => slots[t].links \subseteq W \X W
    BY <2>2, <2>3
  <2> QED BY <2>1, <2>3, <2>4 DEF Rooted, W
<1> QED BY <1>6, <1>7, <1>8 DEF GraphInv

(* One more edge, whose other end was found or is inserted.                 *)
LEMMA LinkedRoots ==
  ASSUME Typed, NEW s \in Slots, Fits(s), Rooted(s), Open(s), slots[s].pc # "flush",
         slots[s].rest # <<>>, Continues(s), SameRow(s), LinksNext(s),
         slots[s].new \subseteq slots'[s].new,
         slots'[s].new \subseteq slots[s].new \cup {Name(s)},
         Name(s) \in externals \cup slots'[s].new
  PROVE  Rooted(s)'
<1> DEFINE link == Head(slots[s].rest)
           V == Vertices(externals \cup slots'[s].new)
<1>1. link \in Links(Package(s), Required(s), slots[s].repo)
  BY Unlinked DEF Fits
<1>2. slots[s].repo \in Repos /\ Package(s) \in Packages
  BY CrawlConstants DEF CrawlConstants, Typed, Shaped, Package, Open, Busy
<1>3. Name(s) = link.name
  BY DEF Name
<1>4. link.name \in NamesOf(Package(s))
  <2>1. slots[s].crawled \in PackageAnswers[Package(s)] /\ ~slots[s].crawled.raised
    BY DEF Typed, Shaped, Open, Busy
  <2> DEFINE answers == {a \in PackageAnswers[Package(s)] : ~a.raised}
  <2>2. slots[s].crawled \in answers
    BY <2>1
  <2>3. NamesOf(Package(s)) = Dependents(Package(s)) \cup UNION {ToSet(a.requires) : a \in answers}
    BY DEF NamesOf
  <2> HIDE DEF answers
  <2>4. Required(s) \cup Dependents(Package(s)) \subseteq NamesOf(Package(s))
    BY <2>2, <2>3 DEF Required
  <2> QED BY <1>1, <2>4 DEF Links
<1>5. link.name \in Names
  BY <1>2, <1>4 DEF Names
<1>6. link.name \in V /\ slots[s].repo \in V
  BY <1>2, <1>3 DEF Vertices
<1>7. link.edge \in V \X V
  <2>1. \/ link.edge = <<slots[s].repo, link.name>>
        \/ link.edge = <<link.name, slots[s].repo>>
    BY <1>1 DEF Links
  <2>2. \A a, b \in V : <<a, b>> \in V \X V
    OBVIOUS
  <2> HIDE DEF link, V
  <2> QED BY <1>6, <2>1, <2>2
<1>8. Vertices(externals \cup slots[s].new) \subseteq V
  BY DEF Vertices
<1>9. slots'[s].links = slots[s].links \cup {link.edge} /\ UNCHANGED externals
  BY DEF LinksNext, Continues
<1>10. IsFiniteSet(slots'[s].links) /\ slots'[s].links \subseteq V \X V
  <2>1. /\ IsFiniteSet(slots[s].links)
        /\ slots[s].links \subseteq Vertices(externals \cup slots[s].new) \X Vertices(externals \cup slots[s].new)
    BY DEF Rooted
  <2> HIDE DEF link, V
  <2>2. slots[s].links \subseteq V \X V
    BY <1>8, <2>1
  <2> QED BY <1>7, <1>9, <2>1, <2>2, FS_AddElement
<1>11. slots'[s].new \subseteq Names
  BY <1>3, <1>5 DEF Rooted
<1> HIDE DEF link
<1> QED BY <1>9, <1>10, <1>11 DEF Rooted

LEMMA SlotGraph ==
  ASSUME Typed, GraphInv, NEW s \in Slots, Fits(s), 
         \/ FetchPackageOf(s) \/ LoadSourceRepo(s) \/ FlushSourceRepo(s) \/ VisitPackage(s)
         \/ InsertPackage(s) \/ ResolveDeadlock(s) \/ FetchDependentsOf(s) \/ Commit(s)
  PROVE  GraphInv'
<1>1. Busy(s)
  BY DEF FetchPackageOf, LoadSourceRepo, FlushSourceRepo, VisitPackage, InsertPackage,
         ResolveDeadlock, FetchDependentsOf, Commit, MayWait, Waits, Busy
<1>2. Rooted(s)
  BY DEF GraphInv
<1>3. CASE FailPackage(s)
  BY <1>1, <1>3, FailGraph
<1>4. CASE FetchPackageOf(s) /\ ~FailPackage(s)
  <2>1. PICK crawled : Go(s, [pc |-> "load", crawled |-> crawled]) /\ UNCHANGED <<graph, history>>
    BY <1>4 DEF FetchPackageOf
  <2> DEFINE fields == [pc |-> "load", crawled |-> crawled]
  <2>2. Go(s, fields) /\ "pc" \in DOMAIN fields /\ fields["pc"] = "load"
    BY <2>1
  <2> HIDE DEF fields
  <2>3. slots'[s].pc = "load" /\ \A t \in Slots \ {s} : slots'[t] = slots[t]
    BY <2>2, GoSlot
  <2>4. Rooted(s)'
    BY <2>3 DEF Rooted, Open
  <2> QED BY <2>1, <2>3, <2>4, GraphKept DEF graph
<1>5. CASE Commit(s) /\ ~FailPackage(s)
  BY <1>5, CommitGraph
<1>6. CASE LoadSourceRepo(s) /\ ~FailPackage(s)
  <2>1. Continues(s) /\ slots'[s].new = {} /\ slots'[s].links = {}
    BY <1>6, LoadStep
  <2>2. Rooted(s)'
    BY <2>1, FS_EmptySet DEF Rooted
  <2> QED BY <2>1, <2>2, GraphKept DEF Continues
<1>7. CASE FlushSourceRepo(s) \/ (FetchDependentsOf(s) /\ ~FailPackage(s))
  <2>1. Continues(s) /\ slots'[s].new = slots[s].new /\ slots'[s].links = slots[s].links
    BY <1>7, FlushStep, DependentsStep
  <2>2. Open(s)
    BY <1>7 DEF FlushSourceRepo, FetchDependentsOf, Open
  <2>3. Rooted(s)'
    BY <1>2, <2>1, <2>2 DEF Rooted, Continues
  <2> QED BY <2>1, <2>3, GraphKept DEF Continues
<1>8. CASE VisitPackage(s)
  <2>1. Continues(s) /\ SameRow(s) /\ slots'[s].new = slots[s].new
    BY <1>8, VisitStep
  <2>2. Open(s) /\ slots[s].pc = "visit"
    BY <1>8 DEF VisitPackage, Open
  <2>3. CASE slots'[s].links = slots[s].links
    <3>1. Rooted(s)'
      BY <1>2, <2>1, <2>2, <2>3 DEF Rooted, Continues
    <3> QED BY <2>1, <3>1, GraphKept DEF Continues
  <2>4. CASE slots'[s].links # slots[s].links
    <3>1. slots'[s].pc = "visit" /\ slots[s].rest # <<>> /\ LinksNext(s)
      BY <1>8, <2>4, VisitStep
    <3>2. Name(s) \in externals \cup slots[s].new
      <4>1. CASE Go(s, [pc |-> "insert"])
        <5> DEFINE fields == [pc |-> "insert"]
        <5>1. Go(s, fields) /\ DOMAIN fields = {"pc"} /\ fields["pc"] = "insert"
          BY <4>1
        <5> HIDE DEF fields
        <5>2. slots'[s].pc = "insert"
          BY <5>1, GoSlot
        <5> QED BY <3>1, <5>2
      <4> QED BY <1>8, <3>1, <4>1 DEF VisitPackage
    <3>3. Rooted(s)'
      BY <1>2, <2>1, <2>2, <3>1, <3>2, LinkedRoots
    <3> QED BY <2>1, <3>3, GraphKept DEF Continues
  <2> QED BY <2>3, <2>4
<1>9. CASE InsertPackage(s) /\ ~FailPackage(s)
  <2>1. /\ Continues(s) /\ SameRow(s) /\ LinksNext(s)
        /\ slots'[s].new = slots[s].new \cup {Name(s)}
    BY <1>9, InsertStep DEF Name
  <2>2. Open(s) /\ slots[s].pc = "insert"
    BY <1>9 DEF InsertPackage, Open
  <2>3. slots[s].rest # <<>>
    BY <2>2 DEF Fits
  <2>4. Rooted(s)'
    BY <1>2, <2>1, <2>2, <2>3, LinkedRoots
  <2> QED BY <2>1, <2>4, GraphKept DEF Continues
<1> QED BY <1>3, <1>4, <1>5, <1>6, <1>7, <1>8, <1>9 DEF ResolveDeadlock

LEMMA NextGraph == Typed /\ WrittenInv /\ GraphInv /\ [Next]_vars => GraphInv'
<1> SUFFICES ASSUME Typed, WrittenInv, GraphInv, [Next]_vars PROVE GraphInv'
  OBVIOUS
<1>1. ASSUME UNCHANGED <<slots, externals, edges>> PROVE GraphInv'
  BY <1>1 DEF GraphInv, Rooted, Open
<1>2. CASE UNCHANGED vars \/ MaterializeCriticality \/ MaterializeAdoption
  BY <1>1, <1>2 DEF vars, graph, MaterializeCriticality, MaterializeAdoption
<1>3. CASE EndWork
  <2>1. \A s \in Slots : ~Open(s)'
    BY <1>3, EndWorkTyped DEF Open, Busy
  <2>2. UNCHANGED <<externals, edges>>
    BY <1>3 DEF EndWork, graph
  <2> QED BY <2>1, <2>2 DEF GraphInv, Rooted
<1>4. ASSUME NEW s \in Slots, Fetch(s) PROVE GraphInv'
  <2>1. /\ \A t \in Slots \ {s} : slots'[t] = slots[t]
        /\ slots'[s].pc = "fetch" /\ UNCHANGED <<externals, edges>>
    BY <1>4 DEF Fetch, Typed, graph
  <2>2. Rooted(s)'
    BY <2>1 DEF Rooted, Open
  <2> QED BY <2>1, <2>2, GraphKept
<1>5. \A s \in Slots : Fits(s)
  BY DEF WrittenInv
<1> QED BY <1>2, <1>3, <1>4, <1>5, SlotGraph DEF Next

-----------------------------------------------------------------------------
(* Sums of what two maps agree on.                                          *)
SumOf(map, S) == MapThenSumSet(LAMBDA x : map[x], S)
IsSums(sums, map, S) ==
  sums = [s \in SUBSET S |-> IF s = {} THEN 0
                             ELSE map[CHOOSE y \in s : TRUE] + sums[s \ {CHOOSE y \in s : TRUE}]]

LEMMA SumsOfMaps ==
  ASSUME NEW map, NEW S
  PROVE  SumOf(map, S) = (CHOOSE sums : IsSums(sums, map, S))[S]
BY DEF SumOf, MapThenSumSet, MapThenFoldSet, IsSums

LEMMA SameSums ==
  ASSUME NEW S, NEW map, NEW other, \A x \in S : map[x] = other[x]
  PROVE  SumOf(map, S) = SumOf(other, S)
<1>1. ASSUME NEW sums, NEW s \in SUBSET S
      PROVE  (IF s = {} THEN 0 ELSE map[CHOOSE y \in s : TRUE] + sums[s \ {CHOOSE y \in s : TRUE}])
             = (IF s = {} THEN 0 ELSE other[CHOOSE y \in s : TRUE] + sums[s \ {CHOOSE y \in s : TRUE}])
  OBVIOUS
<1>2. \A sums : IsSums(sums, map, S) <=> IsSums(sums, other, S)
  BY <1>1, Zenon DEF IsSums
<1>3. (CHOOSE sums : IsSums(sums, map, S)) = (CHOOSE sums : IsSums(sums, other, S))
  BY <1>2
<1>4. /\ SumOf(map, S) = (CHOOSE sums : IsSums(sums, map, S))[S]
      /\ SumOf(other, S) = (CHOOSE sums : IsSums(sums, other, S))[S]
  BY SumsOfMaps
<1> QED BY <1>3, <1>4

(* The active vertices, as CriticalityCounts has them.                      *)
Leaves == {r \in Repos : Activity(r) \in {"live", "in_dev"} /\ \A v \in Vertices(externals) : <<v, r>> \notin edges}
Active == {v \in Vertices(externals) : \E r \in Leaves : Depends(Vertices(externals), edges, r, v)}

LEMMA GraphNodes ==
  /\ DOMAIN DependencyGraph.node = Vertices(externals) /\ DependencyGraph.edges = edges
  /\ \A v \in Vertices(externals) :
       /\ DependencyGraph.node[v].vertex_type = IF v \in Repos THEN "Repo" ELSE "ExternalRepo"
       /\ v \in Repos => DependencyGraph.node[v].activity_status = Activity(v)
<1> DEFINE f == [r \in Repos |-> [vertex_type |-> "Repo", activity_status |-> Activity(r)]]
           g == [v \in externals |-> [vertex_type |-> "ExternalRepo", activity_status |-> None]]
<1>1. DOMAIN f = Repos /\ DOMAIN g = externals
  OBVIOUS
<1>2. /\ \A r \in Repos : f[r].vertex_type = "Repo" /\ f[r].activity_status = Activity(r)
      /\ \A v \in externals : g[v].vertex_type = "ExternalRepo"
  OBVIOUS
<1>3. DependencyGraph = [node |-> Over(f, g), edges |-> edges]
  BY DEF DependencyGraph
<1> HIDE DEF f, g
<1>4. /\ DOMAIN Over(f, g) = Vertices(externals)
      /\ \A v \in Vertices(externals) : Over(f, g)[v] = IF v \in Repos THEN f[v] ELSE g[v]
  BY <1>1 DEF Over, Vertices
<1>5. DependencyGraph.node = Over(f, g) /\ DependencyGraph.edges = edges
  BY <1>3
<1>6. \A v \in Vertices(externals) : v \in Repos \/ v \in externals
  BY DEF Vertices
<1> QED BY <1>2, <1>4, <1>5, <1>6

LEMMA LeavesAreActive ==
  ASSUME GraphInv
  PROVE  ActiveLeaves(DependencyGraph) = Leaves
<1>1. \A v \in Vertices(externals) : IsActive(DependencyGraph, v) <=> v \in Repos /\ Activity(v) \in {"live", "in_dev"}
  BY GraphNodes DEF IsActive, ActiveLeafStatuses
<1>2. ASSUME NEW r
      PROVE  (\A e \in edges : e[2] # r) <=> (\A v \in Vertices(externals) : <<v, r>> \notin edges)
  <2>1. \A e \in edges : e = <<e[1], e[2]>> /\ e[1] \in Vertices(externals)
    BY DEF GraphInv
  <2> QED BY <2>1
<1>3. Repos \subseteq Vertices(externals)
  BY DEF Vertices
<1> QED BY <1>1, <1>2, <1>3, GraphNodes DEF ActiveLeaves, Leaves

LEMMA ActiveSubgraph ==
  ASSUME GraphInv
  PROVE  /\ ProjectActiveSubgraph(DependencyGraph) = Subgraph(DependencyGraph, Active)
         /\ Active \subseteq Vertices(externals) /\ Closed(edges, Active)
<1>1. \A e \in edges : e[1] \in Vertices(externals) /\ e[2] \in Vertices(externals)
  BY DEF GraphInv
<1>2. Leaves \in SUBSET Vertices(externals) /\ IsFiniteSet(edges)
  BY DEF Leaves, Vertices, GraphInv
<1>3. Reach(edges, Leaves) = Active
  <2> DEFINE V == Vertices(externals)
             S == Leaves
  <2>1. S \in SUBSET V /\ IsFiniteSet(edges) /\ \A e \in edges : e[1] \in V /\ e[2] \in V
    BY <1>1, <1>2
  <2> HIDE DEF V, S
  <2>2. Reach(edges, S) = DependedOn(V, edges, S)
    BY <2>1, ReachIsDepended
  <2> QED BY <2>2 DEF Active, DependedOn, V, S
<1>4. Closed(edges, Active)
  BY <1>2, <1>3, ReachIsClosed
<1> QED BY <1>3, <1>4, LeavesAreActive, GraphNodes DEF ProjectActiveSubgraph, Active

(* What compute_criticality makes of the active subgraph.                   *)
LEMMA CriticalityOfActive ==
  ASSUME GraphInv
  PROVE  LET count == ComputeCriticality(ProjectActiveSubgraph(DependencyGraph))
         IN /\ DOMAIN count = Active
            /\ \A v \in Active :
                 count[v] = Cardinality({u \in Active \ {v} : Depends(Vertices(externals), edges, u, v)})
<1> DEFINE G == Subgraph(DependencyGraph, Active)
           nodes == {v \in DOMAIN G.node : G.node[v].vertex_type \in DepLayer}
<1>1. Active \subseteq Vertices(externals) /\ Closed(edges, Active)
  BY ActiveSubgraph
<1>2. /\ DOMAIN G.node = Active /\ \A v \in Active : G.node[v] = DependencyGraph.node[v]
      /\ G.edges = Induced(edges, Active)
  BY GraphNodes DEF Subgraph
<1>3. nodes = Active
  <2> HIDE DEF G
  <2>1. \A v \in Active : G.node[v].vertex_type \in DepLayer
    BY <1>1, <1>2, GraphNodes DEF DepLayer
  <2> QED BY <1>2, <2>1
<1>4. Induced(G.edges, Active) = Induced(edges, Active)
  <2> HIDE DEF G
  <2> QED BY <1>2 DEF Induced
<1>5. ComputeCriticality(G) = [v \in Active |-> Cardinality(Reach(Reversed(Induced(edges, Active)), {v}) \ {v})]
  BY <1>3, <1>4 DEF ComputeCriticality
<1>6. ASSUME NEW v \in Active
      PROVE  Reach(Reversed(Induced(edges, Active)), {v}) \ {v}
             = {u \in Active \ {v} : Depends(Vertices(externals), edges, u, v)}
  <2>1. IsFiniteSet(edges) /\ edges \subseteq Vertices(externals) \X Vertices(externals)
    BY DEF GraphInv
  <2>2. Reach(Reversed(Induced(edges, Active)), {v}) = {u \in Active : Depends(Vertices(externals), edges, u, v)}
    BY <1>1, <2>1, DependentsReached
  <2> QED BY <2>2
<1>7. ProjectActiveSubgraph(DependencyGraph) = G
  BY ActiveSubgraph
<1> HIDE DEF G
<1> QED BY <1>5, <1>6, <1>7

(* CriticalityCounts, with its local definitions named.                     *)
Counted ==
  /\ \A v \in Vertices(externals) :
       criticality[v] = IF v \in Active
                        THEN Cardinality({u \in Active \ {v} : Depends(Vertices(externals), edges, u, v)}) ELSE 0
  /\ \A p \in Projects : Members(p) # {} => criticality[p] = SumOf(criticality, Members(p))

LEMMA CountedIsCriticality == CriticalityCounts <=> (stage \in {"adoption", "over"} => Counted)
<1> DEFINE V == Repos \cup externals
           closed == {C \in SUBSET V : \A e \in edges : e[1] \in C => e[2] \in C}
           DependsOn(u, v) == \A C \in closed : u \in C => v \in C
           leaves == {r \in Repos : Activity(r) \in {"live", "in_dev"} /\ \A v \in V : <<v, r>> \notin edges}
           isActive == {v \in V : \E r \in leaves : DependsOn(r, v)}
<1>1. V = Vertices(externals)
  BY DEF Vertices
<1>2. \A u, v : DependsOn(u, v) <=> Depends(Vertices(externals), edges, u, v)
  BY <1>1 DEF Depends, Closed
<1>3. leaves = Leaves
  BY <1>1 DEF Leaves
<1> HIDE DEF DependsOn, leaves, V
<1>4. isActive = Active
  BY <1>1, <1>2, <1>3 DEF Active
<1> HIDE DEF isActive
<1>5. \A v : {u \in isActive \ {v} : DependsOn(u, v)}
             = {u \in Active \ {v} : Depends(Vertices(externals), edges, u, v)}
  BY <1>2, <1>4
<1>6. CriticalityCounts <=>
        (stage \in {"adoption", "over"} =>
           /\ \A v \in V : criticality[v] = IF v \in isActive
                             THEN Cardinality({u \in isActive \ {v} : DependsOn(u, v)}) ELSE 0
           /\ \A p \in Projects : Members(p) # {} =>
                criticality[p] = MapThenSumSet(LAMBDA r : criticality[r], Members(p)))
  BY DEF CriticalityCounts, V, isActive, DependsOn, leaves
<1> QED BY <1>1, <1>4, <1>5, <1>6 DEF Counted, SumOf

LEMMA Materialized ==
  ASSUME GraphInv, MaterializeCriticality
  PROVE  Counted'
<1> DEFINE active == ComputeCriticality(ProjectActiveSubgraph(DependencyGraph))
           score == [v \in Repos \cup externals |-> IF v \in DOMAIN active THEN active[v] ELSE 0]
           ofProject == [p \in Projects |->
             IF Members(p) = {} THEN Unknown ELSE MapThenSumSet(LAMBDA r : score[r], Members(p))]
<1>1. criticality' = Over(score, ofProject) /\ UNCHANGED <<edges, externals>>
  BY DEF MaterializeCriticality, graph
<1>2. Active' = Active
  BY <1>1 DEF Active, Leaves
<1>3. DOMAIN score = Vertices(externals) /\ DOMAIN ofProject = Projects
  BY DEF Vertices
<1>4. \A v \in Vertices(externals) : score[v] = IF v \in DOMAIN active THEN active[v] ELSE 0
  BY DEF Vertices
<1>5. \A p \in Projects : Members(p) # {} => ofProject[p] = SumOf(score, Members(p))
  BY DEF SumOf
<1>6. /\ DOMAIN active = Active
      /\ \A v \in Active : active[v] = Cardinality({u \in Active \ {v} : Depends(Vertices(externals), edges, u, v)})
  BY CriticalityOfActive
<1> HIDE DEF active, score, ofProject
<1>7. /\ \A v \in Vertices(externals) : criticality'[v] = score[v]
      /\ \A p \in Projects \ Vertices(externals) : criticality'[p] = ofProject[p]
  BY <1>1, <1>3 DEF Over
<1>8. \A p \in Projects : p \notin Vertices(externals)
  BY StoredConstants DEF StoredConstants, GraphInv, Names, Vertices
<1>9. ASSUME NEW p \in Projects, Members(p) # {}
      PROVE  criticality'[p] = SumOf(criticality', Members(p))
  <2>1. \A r \in Members(p) : score[r] = criticality'[r]
    BY <1>7 DEF Members, Vertices
  <2>2. criticality'[p] = SumOf(score, Members(p))
    BY <1>5, <1>7, <1>8, <1>9
  <2> QED BY <2>1, <2>2, SameSums
<1>10. \A v \in Vertices(externals) :
         criticality'[v] = IF v \in Active
                           THEN Cardinality({u \in Active \ {v} : Depends(Vertices(externals), edges, u, v)}) ELSE 0
  BY <1>4, <1>6, <1>7
<1> QED BY <1>1, <1>2, <1>9, <1>10 DEF Counted

CriticalityInv == stage \in {"adoption", "over"} => Counted

LEMMA NextCriticality ==
  Typed /\ GraphInv /\ CriticalityInv /\ [Next]_vars => CriticalityInv'
<1> SUFFICES ASSUME Typed, GraphInv, CriticalityInv, [Next]_vars PROVE CriticalityInv'
  OBVIOUS
<1>1. ASSUME UNCHANGED <<edges, externals, criticality>>, stage \in {"adoption", "over"} \/ stage' \notin {"adoption", "over"}
      PROVE  CriticalityInv'
  BY <1>1 DEF CriticalityInv, Counted, Active, Leaves
<1>2. CASE UNCHANGED vars
  BY <1>1, <1>2 DEF vars, graph, metrics
<1>3. CASE MaterializeAdoption \/ EndWork
  BY <1>1, <1>3 DEF MaterializeAdoption, EndWork, graph, metrics
<1>4. CASE MaterializeCriticality
  BY <1>4, Materialized DEF CriticalityInv
<1>5. ASSUME NEW s \in Slots,
             \/ Fetch(s) \/ FetchPackageOf(s) \/ LoadSourceRepo(s) \/ FlushSourceRepo(s) \/ VisitPackage(s)
             \/ InsertPackage(s) \/ ResolveDeadlock(s) \/ FetchDependentsOf(s) \/ Commit(s)
      PROVE  CriticalityInv'
  <2>1. stage = "working" /\ UNCHANGED stage
    BY <1>5 DEF Fetch, FetchPackageOf, LoadSourceRepo, FlushSourceRepo, VisitPackage, InsertPackage,
       ResolveDeadlock, FetchDependentsOf, Commit, MayWait, Waits, Typed, Held, Busy
  <2> QED BY <2>1 DEF CriticalityInv
<1> QED BY <1>2, <1>3, <1>4, <1>5 DEF Next

(* compute_criticality and project_active_subgraph, which traverse the graph *)
(* depth first, count for each vertex exactly the active vertices that       *)
(* depend on it, whatever the graph of the crawls: with circles, with edges  *)
(* from dependents, after any failure.                                       *)
THEOREM CriticalityCounted == Spec => []CriticalityCounts
<1>1. Init => CriticalityInv
  BY DEF Init, CriticalityInv
<1>2. CriticalityInv => CriticalityCounts
  BY CountedIsCriticality DEF CriticalityInv
<1>3. Typed /\ WrittenInv /\ [Next]_vars => WrittenInv'
  BY NextWritten
<1> QED BY <1>1, <1>2, <1>3, InitTyped, NextTyped, InitWritten, InitGraph, NextGraph, NextCriticality, PTL DEF Spec

-----------------------------------------------------------------------------
(* Lists of releases.                                                       *)

LEMMA ListIn ==
  ASSUME NEW S, NEW list \in Seq(S)
  PROVE  IsList(list) /\ ToSet(list) \subseteq S
<1>1. DOMAIN list = 1..Len(list) /\ Len(list) \in Nat /\ list = [i \in 1..Len(list) |-> list[i]]
  OBVIOUS
<1>2. \A i \in 1..Len(list) : list[i] \in ToSet(list)
  BY <1>1 DEF ToSet
<1>3. list \in Seq(ToSet(list))
  BY <1>1, <1>2
<1>4. \A i \in DOMAIN list : list[i] \in S
  OBVIOUS
<1> QED BY <1>3, <1>4 DEF IsList, ToSet

(* Lists that mention no release twice.                                     *)
Dictionaries(R) == {d \in Seq(R) : \A i, k \in DOMAIN d : Key(d[i]) = Key(d[k]) => i = k}

LEMMA PutKeepsKeys ==
  ASSUME NEW R, NEW d \in Dictionaries(R), NEW r \in R, NEW replaceable
  PROVE  Put(d, r, replaceable) \in Dictionaries(R)
<1> DEFINE same == {i \in DOMAIN d : Key(d[i]) = Key(r)}
<1>1. d \in Seq(R) /\ DOMAIN d = 1..Len(d) /\ Len(d) \in Nat /\ \A i, k \in DOMAIN d : Key(d[i]) = Key(d[k]) => i = k
  BY DEF Dictionaries
<1>2. CASE same = {}
  <2> DEFINE e == Append(d, r)
  <2>1. Put(d, r, replaceable) = e
    BY <1>2 DEF Put
  <2>2. /\ e \in Seq(R) /\ DOMAIN e = 1..(Len(d) + 1)
        /\ \A i \in DOMAIN d : e[i] = d[i]
        /\ e[Len(d) + 1] = r
    BY <1>1
  <2>3. \A i \in DOMAIN e : i \in DOMAIN d \/ i = Len(d) + 1
    BY <1>1, <2>2
  <2> HIDE DEF e
  <2>4. \A i \in DOMAIN d : Key(d[i]) # Key(r)
    BY <1>2
  <2>5. \A i, k \in DOMAIN e : Key(e[i]) = Key(e[k]) => i = k
    BY <1>1, <2>2, <2>3, <2>4
  <2> QED BY <2>1, <2>2, <2>5 DEF Dictionaries
<1>3. CASE same # {}
  <2> DEFINE e == [i \in DOMAIN d |-> IF i \in same \cap replaceable THEN r ELSE d[i]]
  <2>1. Put(d, r, replaceable) = e
    BY <1>3 DEF Put
  <2>2. DOMAIN e = 1..Len(d) /\ \A i \in 1..Len(d) : e[i] \in R /\ Key(e[i]) = Key(d[i])
    BY <1>1
  <2>3. e \in Seq(R)
    BY <1>1, <2>2
  <2> HIDE DEF e
  <2> QED BY <1>1, <2>1, <2>2, <2>3 DEF Dictionaries
<1> QED BY <1>2, <1>3

LEMMA NothingIsListed == ASSUME NEW R PROVE <<>> \in Dictionaries(R)
BY DEF Dictionaries

(* The stored releases, one by one, and then the incoming ones.             *)
LEMMA DictionaryChain ==
  ASSUME NEW existing, IsList(existing), NEW R, \A i \in DOMAIN existing : existing[i] \in R
  PROVE  \E g \in [0..Len(existing) -> Dictionaries(R)] :
           /\ g[0] = <<>> /\ g[Len(existing)] = Dictionary(existing)
           /\ \A k \in 1..Len(existing) : g[k] = Put(g[k - 1], existing[k], DOMAIN g[k - 1])
<1> DEFINE op(d, x) == Put(d, x, DOMAIN d)
           n == Len(existing)
           D == Dictionaries(R)
           step == [x \in D \X (1..n) |-> op(x[1], existing[x[2]])]
           P(h) == h = [s \in SUBSET DOMAIN existing |->
                          IF s = {} THEN <<>> ELSE op(h[s \ {Max(s)}], existing[Max(s)])]
           h == CHOOSE x : P(x)
           empty == <<>>
<1>1. n \in Nat /\ DOMAIN existing = 1..n
  BY ListFacts
<1>2. \A d \in D, i \in 1..n : op(d, existing[i]) \in D
  BY <1>1, PutKeepsKeys
<1>3. Dictionary(existing) = h[1..n]
  BY <1>1 DEF FoldLeft, MapThenFoldSet, Dictionary
<1>4. empty \in D
  BY NothingIsListed
<1> HIDE DEF op, D, empty
<1>5. IsStep(step, D, 1..n) /\ \A d \in D, i \in 1..n : step[<<d, i>>] = op(d, existing[i])
  BY <1>2 DEF IsStep
<1> HIDE DEF step, n
<1>6. /\ IsPick(LastOf(n), 1..n) /\ IsFiniteSet(1..n)
      /\ \A s \in SUBSET (1..n) : LastOf(n)[s] = Max(s) /\ (s # {} => Max(s) \in 1..n)
  BY <1>1, LastIsPicked, MaxOfNumbers
<1>7. PICK f : IsFoldOf(f, D, empty, 1..n, step, LastOf(n))
  BY <1>4, <1>5, <1>6, SubsetFoldExists
<1>8. P(f)
  <2>1. ASSUME NEW s \in SUBSET (1..n)
        PROVE  f[s] = IF s = {} THEN empty ELSE op(f[s \ {Max(s)}], existing[Max(s)])
    <3>1. s # {} => f[s \ {Max(s)}] \in D
      BY <1>7 DEF IsFoldOf
    <3> QED BY <1>5, <1>6, <1>7, <3>1 DEF IsFoldOf
  <2>2. f = [s \in SUBSET (1..n) |-> f[s]]
    BY <1>7 DEF IsFoldOf
  <2>3. f = [s \in SUBSET (1..n) |-> IF s = {} THEN empty ELSE op(f[s \ {Max(s)}], existing[Max(s)])]
    BY <2>1, <2>2, Zenon
  <2> QED BY <1>1, <2>3 DEF empty
<1>9. P(h)
  <2> HIDE DEF P
  <2> QED BY <1>8
<1> HIDE DEF h
<1>10. \A s \in SUBSET (1..n) : h[s] = IF s = {} THEN empty ELSE op(h[s \ {Max(s)}], existing[Max(s)])
  BY <1>1, <1>9, Zenon DEF empty
<1> HIDE DEF P
<1>11. Folds(h, D, empty, 1..n, step, LastOf(n))
  <2>1. h[{}] = empty
    BY <1>10
  <2>2. ASSUME NEW s \in SUBSET (1..n), s # {}, h[s \ {Max(s)}] \in D
        PROVE  h[s] = step[<<h[s \ {Max(s)}], Max(s)>>]
    BY <1>5, <1>6, <1>10, <2>2
  <2> QED BY <1>6, <2>1, <2>2 DEF Folds
<1>12. PICK g : IsChain(g, D, empty, n, step) /\ g[n] = h[1..n]
  BY <1>1, <1>4, <1>5, <1>11, FoldIsChain
<1>13. ASSUME NEW k \in 1..n PROVE g[k] = op(g[k - 1], existing[k])
  <2>1. k - 1 \in 0..n /\ g[k - 1] \in D
    BY <1>1, <1>12 DEF IsChain
  <2> QED BY <1>5, <1>12, <2>1 DEF IsChain
<1> QED BY <1>3, <1>12, <1>13 DEF IsChain, empty, op, D, n

LEMMA UpdatedChain ==
  ASSUME NEW incoming, IsList(incoming), NEW R, \A i \in DOMAIN incoming : incoming[i] \in R, NEW stored \in Dictionaries(R)
  PROVE  \E g \in [0..Len(incoming) -> Dictionaries(R)] :
           /\ g[0] = stored /\ g[Len(incoming)] = Updated(stored, incoming)
           /\ \A k \in 1..Len(incoming) : g[k] = Put(g[k - 1], incoming[k], {i \in DOMAIN g[k - 1] : g[k - 1][i].date = 0 /\ incoming[k].date # 0})
<1> DEFINE op(d, x) == Put(d, x, {i \in DOMAIN d : d[i].date = 0 /\ x.date # 0})
           n == Len(incoming)
           D == Dictionaries(R)
           step == [x \in D \X (1..n) |-> op(x[1], incoming[x[2]])]
           P(h) == h = [s \in SUBSET DOMAIN incoming |->
                          IF s = {} THEN stored ELSE op(h[s \ {Max(s)}], incoming[Max(s)])]
           h == CHOOSE x : P(x)
           empty == stored
<1>1. n \in Nat /\ DOMAIN incoming = 1..n
  BY ListFacts
<1>2. \A d \in D, i \in 1..n : op(d, incoming[i]) \in D
  BY <1>1, PutKeepsKeys
<1>3. Updated(stored, incoming) = h[1..n]
  BY <1>1 DEF FoldLeft, MapThenFoldSet, Updated
<1>4. empty \in D
  OBVIOUS
<1> HIDE DEF op, D, empty
<1>5. IsStep(step, D, 1..n) /\ \A d \in D, i \in 1..n : step[<<d, i>>] = op(d, incoming[i])
  BY <1>2 DEF IsStep
<1> HIDE DEF step, n
<1>6. /\ IsPick(LastOf(n), 1..n) /\ IsFiniteSet(1..n)
      /\ \A s \in SUBSET (1..n) : LastOf(n)[s] = Max(s) /\ (s # {} => Max(s) \in 1..n)
  BY <1>1, LastIsPicked, MaxOfNumbers
<1>7. PICK f : IsFoldOf(f, D, empty, 1..n, step, LastOf(n))
  BY <1>4, <1>5, <1>6, SubsetFoldExists
<1>8. P(f)
  <2>1. ASSUME NEW s \in SUBSET (1..n)
        PROVE  f[s] = IF s = {} THEN empty ELSE op(f[s \ {Max(s)}], incoming[Max(s)])
    <3>1. s # {} => f[s \ {Max(s)}] \in D
      BY <1>7 DEF IsFoldOf
    <3> QED BY <1>5, <1>6, <1>7, <3>1 DEF IsFoldOf
  <2>2. f = [s \in SUBSET (1..n) |-> f[s]]
    BY <1>7 DEF IsFoldOf
  <2>3. f = [s \in SUBSET (1..n) |-> IF s = {} THEN empty ELSE op(f[s \ {Max(s)}], incoming[Max(s)])]
    BY <2>1, <2>2, Zenon
  <2> QED BY <1>1, <2>3 DEF empty
<1>9. P(h)
  <2> HIDE DEF P
  <2> QED BY <1>8
<1> HIDE DEF h
<1>10. \A s \in SUBSET (1..n) : h[s] = IF s = {} THEN empty ELSE op(h[s \ {Max(s)}], incoming[Max(s)])
  BY <1>1, <1>9, Zenon DEF empty
<1> HIDE DEF P
<1>11. Folds(h, D, empty, 1..n, step, LastOf(n))
  <2>1. h[{}] = empty
    BY <1>10
  <2>2. ASSUME NEW s \in SUBSET (1..n), s # {}, h[s \ {Max(s)}] \in D
        PROVE  h[s] = step[<<h[s \ {Max(s)}], Max(s)>>]
    BY <1>5, <1>6, <1>10, <2>2
  <2> QED BY <1>6, <2>1, <2>2 DEF Folds
<1>12. PICK g : IsChain(g, D, empty, n, step) /\ g[n] = h[1..n]
  BY <1>1, <1>4, <1>5, <1>11, FoldIsChain
<1>13. ASSUME NEW k \in 1..n PROVE g[k] = op(g[k - 1], incoming[k])
  <2>1. k - 1 \in 0..n /\ g[k - 1] \in D
    BY <1>1, <1>12 DEF IsChain
  <2> QED BY <1>5, <1>12, <2>1 DEF IsChain
<1> QED BY <1>3, <1>12, <1>13 DEF IsChain, empty, op, D, n

(* The order of sorted_releases_desc.                                       *)
Before(list, i, j) == list[i].date > list[j].date \/ (list[i].date = list[j].date /\ i < j)
Earlier(list, i) == {j \in DOMAIN list : Before(list, j, i)}

LEMMA RankedPositions ==
  ASSUME NEW list, IsList(list), \A i \in DOMAIN list : list[i].date \in Nat
  PROVE  \A k \in DOMAIN list : \E i \in DOMAIN list : Cardinality(Earlier(list, i)) = k - 1
<1> DEFINE n == Len(list)
           rel == {x \in (1..n) \X (1..n) : Before(list, x[1], x[2])}
<1>1. n \in Nat /\ DOMAIN list = 1..n
  BY ListFacts
<1> HIDE DEF n
<1>2. IsFiniteSet(1..n) /\ Cardinality(1..n) = n
  BY <1>1, FS_Interval
<1>3. \A x, y \in 1..n : <<x, y>> \in rel <=> Before(list, x, y)
  OBVIOUS
<1> HIDE DEF rel
<1>4. /\ \A x, y \in 1..n : x # y => Before(list, x, y) \/ Before(list, y, x)
      /\ \A x, y, z \in 1..n : Before(list, x, y) /\ Before(list, y, z) => Before(list, x, z)
      /\ \A x, y \in 1..n : Before(list, x, y) => ~Before(list, y, x)
  BY <1>1 DEF Before
<1>5. IsOrder(rel, 1..n)
  BY <1>3, <1>4 DEF IsOrder
<1>6. PICK order \in SetToSeqs(1..n) : Sorted(order, rel)
  BY <1>2, <1>5, SortedListExists
<1>7. order \in [1..n -> 1..n] /\ \A x \in 1..n : \E i \in 1..n : order[i] = x
  <2> DEFINE S == 1..n
  <2>1. IsFiniteSet(S) /\ Cardinality(S) = n /\ order \in SetToSeqs(S)
    BY <1>2, <1>6
  <2> HIDE DEF S
  <2>2. order \in [1..n -> S] /\ \A x \in S : \E i \in 1..n : order[i] = x
    BY <2>1, ListOfSet
  <2> QED BY <2>2 DEF S
<1>8. \A i, j \in 1..n : i < j => Before(list, order[i], order[j])
  <2>1. \A i, j \in 1..n : i < j => <<order[i], order[j]>> \in rel
    BY <1>6, <1>7 DEF Sorted
  <2> QED BY <1>3, <1>7, <2>1
<1>9. ASSUME NEW k \in 1..n PROVE Cardinality(Earlier(list, order[k])) = k - 1
  <2> DEFINE first == {order[i] : i \in 1..(k - 1)}
  <2>1. first \subseteq Earlier(list, order[k])
    <3> SUFFICES ASSUME NEW i \in 1..(k - 1) PROVE order[i] \in Earlier(list, order[k])
      OBVIOUS
    <3>1. i \in 1..n /\ i < k
      BY <1>1
    <3>2. order[i] \in 1..n /\ Before(list, order[i], order[k])
      BY <1>7, <1>8, <3>1
    <3> QED BY <1>1, <3>2 DEF Earlier
  <2>2. ASSUME NEW x \in Earlier(list, order[k]) PROVE x \in first
    <3>1. x \in 1..n /\ Before(list, x, order[k])
      BY <1>1 DEF Earlier
    <3>2. PICK i \in 1..n : order[i] = x
      BY <1>7, <3>1
    <3>3. ~(k < i) /\ i # k
      BY <1>4, <1>7, <1>8, <3>1, <3>2
    <3>4. i \in 1..(k - 1)
      BY <1>1, <3>3
    <3> QED BY <3>2, <3>4
  <2>3. k - 1 \in 0..n
    BY <1>1
  <2>4. Cardinality(first) = k - 1
    <3>1. first = {order[i] : i \in 1..(k - 1)}
      OBVIOUS
    <3> HIDE DEF first
    <3> QED BY <1>2, <1>6, <2>3, <3>1, FirstSize
  <2> HIDE DEF first
  <2>5. first = Earlier(list, order[k])
    BY <2>1, <2>2
  <2> QED BY <2>4, <2>5
<1> QED BY <1>1, <1>7, <1>9

LEMMA ReleasesAreSorted ==
  ASSUME NEW list, IsList(list), \A i \in DOMAIN list : list[i].date \in Nat
  PROVE  LET sorted == SortedReleasesDesc(list)
         IN /\ IsList(sorted)
            /\ \A k \in DOMAIN sorted : sorted[k] \in ToSet(list)
            /\ \A i, k \in DOMAIN sorted : i < k => sorted[i].date >= sorted[k].date
            /\ (\A i, k \in DOMAIN list : Key(list[i]) = Key(list[k]) => i = k) =>
                 \A i, k \in DOMAIN sorted : Key(sorted[i]) = Key(sorted[k]) => i = k
<1> DEFINE sorted == SortedReleasesDesc(list)
           n == Len(list)
           at(k) == CHOOSE i \in DOMAIN list : Cardinality(Earlier(list, i)) = k - 1
<1>1. n \in Nat /\ DOMAIN list = 1..n /\ \A i \in 1..n : list[i] \in ToSet(list)
  BY ListFacts
<1>2. sorted = [k \in DOMAIN list |-> list[at(k)]]
  BY DEF SortedReleasesDesc, Earlier, Before
<1>3. ASSUME NEW k \in 1..n
      PROVE  at(k) \in 1..n /\ Cardinality(Earlier(list, at(k))) = k - 1
  BY <1>1, RankedPositions
<1> HIDE DEF n, sorted, at
<1>4. \A i, k \in 1..n : at(i) = at(k) => i = k
  BY <1>1, <1>3
<1>5. ASSUME NEW i \in 1..n, NEW k \in 1..n, i < k
      PROVE  Before(list, at(i), at(k))
  <2> DEFINE a == at(i)
             b == at(k)
  <2>1. a \in 1..n /\ b \in 1..n /\ a # b /\ Cardinality(Earlier(list, a)) = i - 1 /\ Cardinality(Earlier(list, b)) = k - 1
    BY <1>1, <1>3, <1>4, <1>5
  <2> HIDE DEF a, b
  <2> SUFFICES ASSUME ~Before(list, a, b) PROVE FALSE
    BY DEF a, b
  <2>2. Before(list, b, a)
    BY <1>1, <2>1 DEF Before
  <2>3. \A x \in 1..n : Before(list, x, b) => Before(list, x, a)
    BY <1>1, <2>1, <2>2 DEF Before
  <2>4. Earlier(list, b) \subseteq Earlier(list, a)
    BY <1>1, <2>3 DEF Earlier
  <2>5. IsFiniteSet(Earlier(list, a))
    <3>1. Earlier(list, a) \subseteq 1..n
      BY <1>1 DEF Earlier
    <3> QED BY <1>1, <3>1, FS_Interval, FS_Subset
  <2>6. Cardinality(Earlier(list, b)) <= Cardinality(Earlier(list, a))
    BY <2>4, <2>5, FS_Subset
  <2> QED BY <1>1, <1>5, <2>1, <2>6
<1>6. DOMAIN sorted = 1..n /\ \A k \in 1..n : sorted[k] = list[at(k)] /\ sorted[k] \in ToSet(list)
  BY <1>1, <1>2, <1>3
<1>7. sorted = [k \in 1..n |-> sorted[k]]
  BY <1>1, <1>2
<1>8. sorted \in Seq(ToSet(list))
  BY <1>1, <1>6, <1>7
<1>9. IsList(sorted)
  BY <1>8, ListIn
<1>10. \A i, k \in 1..n : i < k => sorted[i].date >= sorted[k].date
  <2> SUFFICES ASSUME NEW i \in 1..n, NEW k \in 1..n, i < k PROVE sorted[i].date >= sorted[k].date
    OBVIOUS
  <2>1. Before(list, at(i), at(k))
    BY <1>5
  <2>2. list[at(i)].date \in Nat /\ list[at(k)].date \in Nat
    BY <1>1, <1>3
  <2>3. list[at(i)].date >= list[at(k)].date
    BY <2>1, <2>2 DEF Before
  <2> QED BY <1>6, <2>3
<1>11. (\A i, k \in DOMAIN list : Key(list[i]) = Key(list[k]) => i = k) =>
         \A i, k \in 1..n : Key(sorted[i]) = Key(sorted[k]) => i = k
  BY <1>1, <1>3, <1>4, <1>6
<1> QED BY <1>6, <1>9, <1>10, <1>11 DEF sorted

(* What merge_releases returns, of lists in any order, is sorted and        *)
(* mentions no release twice.                                               *)
Dated(list) == IsList(list) /\ \A i \in DOMAIN list : list[i].date \in Nat

LEMMA MergedOnce ==
  ASSUME NEW existing, Dated(existing), NEW incoming, Dated(incoming)
  PROVE  SortedOnce(MergeReleases(existing, incoming))
<1> DEFINE R == ToSet(existing) \cup ToSet(incoming)
           stored == Dictionary(existing)
           merged == Updated(stored, incoming)
<1>1. /\ IsList(existing) /\ IsList(incoming) /\ Len(existing) \in Nat /\ Len(incoming) \in Nat
      /\ \A i \in DOMAIN existing : existing[i] \in R
      /\ \A i \in DOMAIN incoming : incoming[i] \in R
      /\ \A r \in R : r.date \in Nat
  BY ListFacts DEF Dated, ToSet
<1> HIDE DEF R
<1>2. stored \in Dictionaries(R)
  BY <1>1, DictionaryChain
<1> HIDE DEF stored
<1>3. merged \in Dictionaries(R)
  <2>1. PICK g \in [0..Len(incoming) -> Dictionaries(R)] : g[Len(incoming)] = Updated(stored, incoming)
    BY <1>1, <1>2, UpdatedChain
  <2>2. Len(incoming) \in 0..Len(incoming)
    BY <1>1
  <2> QED BY <2>1, <2>2
<1> HIDE DEF merged
<1>4. /\ merged \in Seq(R) /\ \A i, k \in DOMAIN merged : Key(merged[i]) = Key(merged[k]) => i = k
      /\ \A i \in DOMAIN merged : merged[i] \in R
  BY <1>3 DEF Dictionaries
<1>5. IsList(merged) /\ ToSet(merged) \subseteq R
  BY <1>4, ListIn
<1>6. \A i \in DOMAIN merged : merged[i].date \in Nat
  BY <1>1, <1>4
<1> DEFINE sorted == SortedReleasesDesc(merged)
<1>7. /\ IsList(sorted) /\ \A k \in DOMAIN sorted : sorted[k] \in ToSet(merged)
      /\ \A i, k \in DOMAIN sorted : i < k => sorted[i].date >= sorted[k].date
      /\ \A i, k \in DOMAIN sorted : Key(sorted[i]) = Key(sorted[k]) => i = k
  BY <1>4, <1>5, <1>6, ReleasesAreSorted
<1>8. MergeReleases(existing, incoming) = sorted
  BY DEF MergeReleases, merged, stored
<1> HIDE DEF sorted
<1>9. \A k \in DOMAIN sorted : sorted[k].date \in Nat
  BY <1>1, <1>5, <1>7
<1> QED BY <1>7, <1>8, <1>9 DEF SortedOnce

(* The releases that have a version.                                        *)
LEMMA VersionedIsList ==
  ASSUME NEW rows, IsList(rows), NEW R, \A i \in DOMAIN rows : rows[i] \in R
  PROVE  Versioned(rows) \in Seq(R)
<1> DEFINE op(d, x) == IF x.version = NoVersion THEN d ELSE Append(d, x)
           n == Len(rows)
           D == Seq(R)
           step == [x \in D \X (1..n) |-> op(x[1], rows[x[2]])]
           P(h) == h = [s \in SUBSET DOMAIN rows |->
                          IF s = {} THEN <<>> ELSE op(h[s \ {Max(s)}], rows[Max(s)])]
           h == CHOOSE x : P(x)
           empty == <<>>
<1>1. n \in Nat /\ DOMAIN rows = 1..n
  BY ListFacts
<1>2. \A d \in D, i \in 1..n : op(d, rows[i]) \in D
  BY <1>1
<1>3. Versioned(rows) = h[1..n]
  BY <1>1 DEF FoldLeft, MapThenFoldSet, Versioned
<1>4. empty \in D
  OBVIOUS
<1> HIDE DEF op, D, empty
<1>5. IsStep(step, D, 1..n) /\ \A d \in D, i \in 1..n : step[<<d, i>>] = op(d, rows[i])
  BY <1>2 DEF IsStep
<1> HIDE DEF step, n
<1>6. /\ IsPick(LastOf(n), 1..n) /\ IsFiniteSet(1..n)
      /\ \A s \in SUBSET (1..n) : LastOf(n)[s] = Max(s) /\ (s # {} => Max(s) \in 1..n)
  BY <1>1, LastIsPicked, MaxOfNumbers
<1>7. PICK f : IsFoldOf(f, D, empty, 1..n, step, LastOf(n))
  BY <1>4, <1>5, <1>6, SubsetFoldExists
<1>8. P(f)
  <2>1. ASSUME NEW s \in SUBSET (1..n)
        PROVE  f[s] = IF s = {} THEN empty ELSE op(f[s \ {Max(s)}], rows[Max(s)])
    <3>1. s # {} => f[s \ {Max(s)}] \in D
      BY <1>7 DEF IsFoldOf
    <3> QED BY <1>5, <1>6, <1>7, <3>1 DEF IsFoldOf
  <2>2. f = [s \in SUBSET (1..n) |-> f[s]]
    BY <1>7 DEF IsFoldOf
  <2>3. f = [s \in SUBSET (1..n) |-> IF s = {} THEN empty ELSE op(f[s \ {Max(s)}], rows[Max(s)])]
    BY <2>1, <2>2, Zenon
  <2> QED BY <1>1, <2>3 DEF empty
<1>9. P(h)
  <2> HIDE DEF P
  <2> QED BY <1>8
<1> HIDE DEF h
<1>10. \A s \in SUBSET (1..n) : h[s] = IF s = {} THEN empty ELSE op(h[s \ {Max(s)}], rows[Max(s)])
  BY <1>1, <1>9, Zenon DEF empty
<1> HIDE DEF P
<1>11. Folds(h, D, empty, 1..n, step, LastOf(n))
  <2>1. h[{}] = empty
    BY <1>10
  <2>2. ASSUME NEW s \in SUBSET (1..n), s # {}, h[s \ {Max(s)}] \in D
        PROVE  h[s] = step[<<h[s \ {Max(s)}], Max(s)>>]
    BY <1>5, <1>6, <1>10, <2>2
  <2> QED BY <1>6, <2>1, <2>2 DEF Folds
<1>12. PICK g : IsChain(g, D, empty, n, step) /\ g[n] = h[1..n]
  BY <1>1, <1>4, <1>5, <1>11, FoldIsChain
<1> QED BY <1>1, <1>3, <1>12 DEF IsChain, D

LEMMA VersionedDated ==
  ASSUME NEW list, Dated(list)
  PROVE  Dated(Versioned(list))
<1>1. IsList(list) /\ \A i \in DOMAIN list : list[i].date \in Nat
  BY DEF Dated
<1>2. Versioned(list) \in Seq(ToSet(list))
  BY <1>1, VersionedIsList DEF ToSet
<1>3. IsList(Versioned(list)) /\ ToSet(Versioned(list)) \subseteq ToSet(list)
  BY <1>2, ListIn
<1>4. \A i \in DOMAIN Versioned(list) : Versioned(list)[i].date \in Nat
  BY <1>1, <1>3 DEF ToSet
<1> QED BY <1>3, <1>4 DEF Dated

(* The releases and the count that a package is answered with.              *)
LEMMA SortedDated ==
  ASSUME NEW list, Dated(list)
  PROVE  Dated(SortedReleasesDesc(list))
<1> DEFINE sorted == SortedReleasesDesc(list)
<1>1. IsList(list) /\ \A i \in DOMAIN list : list[i].date \in Nat
  BY DEF Dated
<1>2. IsList(sorted) /\ \A k \in DOMAIN sorted : sorted[k] \in ToSet(list)
  BY <1>1, ReleasesAreSorted
<1> HIDE DEF sorted
<1>3. \A k \in DOMAIN sorted : sorted[k].date \in Nat
  BY <1>1, <1>2 DEF ToSet
<1> QED BY <1>2, <1>3 DEF Dated, sorted

LEMMA ReleasesAnswered ==
  ASSUME NEW p \in Packages
  PROVE  /\ Dated(ReleasesOf(p)) /\ Dated(SortedReleasesDesc(ReleasesOf(p)))
         /\ Dated(Versioned(ReleasesOf(p))) /\ \A missing : Dated(NpmReleases(p, missing))
<1> DEFINE versions == Published[p].versions
           list == ReleasesOf(p)
<1>1. IsList(versions) /\ \A i \in DOMAIN versions : versions[i].date \in Nat
  BY ClientConstants DEF ClientConstants, IsPublication
<1>2. Len(versions) \in Nat /\ DOMAIN versions = 1..Len(versions)
  BY <1>1, ListFacts
<1>3. list = [i \in 1..Len(versions) |-> Release(p, versions[i].version, versions[i].date)]
  BY <1>2 DEF ReleasesOf
<1> HIDE DEF versions
<1>4. DOMAIN list = 1..Len(versions) /\ \A i \in DOMAIN list : list[i].date \in Nat /\ list[i] \in ToSet(list)
  BY <1>1, <1>2, <1>3 DEF Release, ToSet
<1> HIDE DEF list
<1>5. list \in Seq(ToSet(list))
  <2>1. list = [i \in 1..Len(versions) |-> list[i]]
    BY <1>3, <1>4 DEF list
  <2> QED BY <1>2, <1>4, <2>1
<1>6. IsList(list)
  BY <1>5 DEF IsList
<1>7. Dated(list)
  BY <1>4, <1>6 DEF Dated
<1>8. Dated(SortedReleasesDesc(list))
  BY <1>7, SortedDated
<1>9. Dated(Versioned(list))
  BY <1>7, VersionedDated
<1>10. ASSUME NEW missing PROVE Dated(NpmReleases(p, missing))
  <2> DEFINE undated == [i \in DOMAIN list |-> [list[i] EXCEPT !.date = 0]]
  <2>1. Dated(<<>>)
    BY DEF Dated, IsList, ToSet
  <2>2. Dated(undated)
    <3>1. DOMAIN undated = 1..Len(versions) /\ \A i \in DOMAIN undated : undated[i] \in ToSet(undated)
      BY <1>4 DEF ToSet
    <3>2. \A i \in DOMAIN undated : undated[i].date = 0
      BY <1>3, <1>4 DEF Release
    <3> HIDE DEF undated
    <3>3. undated \in Seq(ToSet(undated))
      <4>1. undated = [i \in 1..Len(versions) |-> undated[i]]
        BY <3>1 DEF undated
      <4> QED BY <1>2, <3>1, <4>1
    <3> QED BY <3>2, <3>3 DEF Dated, IsList
  <2>3. NpmReleases(p, missing) \in {<<>>, undated, list}
    BY DEF NpmReleases, list
  <2> HIDE DEF undated, list
  <2> QED BY <1>7, <2>1, <2>2, <2>3
<1> QED BY <1>7, <1>8, <1>9, <1>10 DEF list

-----------------------------------------------------------------------------
(* Sums of counts are counts.                                               *)
AnyOf(S) == [s \in SUBSET S |-> CHOOSE y \in s : TRUE]

LEMMA AnyIsPicked ==
  ASSUME NEW S
  PROVE  IsPick(AnyOf(S), S) /\ \A s \in SUBSET S : AnyOf(S)[s] = CHOOSE y \in s : TRUE
<1>1. \A s \in SUBSET S : AnyOf(S)[s] = CHOOSE y \in s : TRUE
  BY DEF AnyOf
<1>2. ASSUME NEW s \in SUBSET S, s # {} PROVE (CHOOSE y \in s : TRUE) \in s
  BY <1>2
<1> QED BY <1>1, <1>2 DEF IsPick

LEMMA SumIsCount ==
  ASSUME NEW S, IsFiniteSet(S), NEW map, \A x \in S : map[x] \in Nat
  PROVE  SumOf(map, S) \in Nat
<1> DEFINE step == [x \in Nat \X S |-> map[x[2]] + x[1]]
           pick == AnyOf(S)
           sums == CHOOSE f : IsSums(f, map, S)
<1>1. IsStep(step, Nat, S) /\ \A d \in Nat, x \in S : step[<<d, x>>] = map[x] + d
  BY DEF IsStep
<1> HIDE DEF step
<1>2. IsPick(pick, S) /\ \A s \in SUBSET S : pick[s] = CHOOSE y \in s : TRUE
  BY AnyIsPicked
<1> HIDE DEF pick
<1>3. PICK f : IsFoldOf(f, Nat, 0, S, step, pick)
  BY <1>1, <1>2, SubsetFoldExists
<1>4. ASSUME NEW s \in SUBSET S, s # {}
      PROVE  /\ pick[s] \in s /\ s \ {pick[s]} \in SUBSET S
             /\ pick[s] = CHOOSE y \in s : TRUE
  BY <1>2, <1>4 DEF IsPick
<1>5. IsSums(f, map, S)
  <2>1. ASSUME NEW s \in SUBSET S
        PROVE  f[s] = IF s = {} THEN 0
                      ELSE map[CHOOSE y \in s : TRUE] + f[s \ {CHOOSE y \in s : TRUE}]
    <3>1. CASE s = {}
      BY <1>3, <3>1 DEF IsFoldOf
    <3>2. CASE s # {}
      <4>1. f[s] = step[<<f[s \ {pick[s]}], pick[s]>>] /\ f[s \ {pick[s]}] \in Nat
        BY <1>3, <1>4, <3>2 DEF IsFoldOf
      <4>2. f[s] = map[pick[s]] + f[s \ {pick[s]}]
        BY <1>1, <1>4, <3>2, <4>1
      <4> QED BY <1>4, <3>2, <4>2
    <3> QED BY <3>1, <3>2
  <2>2. f = [s \in SUBSET S |-> f[s]]
    BY <1>3 DEF IsFoldOf
  <2> QED BY <2>1, <2>2, Zenon DEF IsSums
<1>6. IsSums(sums, map, S)
  BY <1>5
<1> HIDE DEF sums
<1>7. ASSUME NEW s \in SUBSET S
      PROVE  sums[s] = IF s = {} THEN 0
                       ELSE map[CHOOSE y \in s : TRUE] + sums[s \ {CHOOSE y \in s : TRUE}]
  BY <1>6, Zenon DEF IsSums
<1>8. Folds(sums, Nat, 0, S, step, pick)
  <2>1. sums[{}] = 0
    BY <1>7
  <2>2. ASSUME NEW s \in SUBSET S, s # {}, sums[s \ {pick[s]}] \in Nat
        PROVE  sums[s] = step[<<sums[s \ {pick[s]}], pick[s]>>]
    <3>1. sums[s] = map[pick[s]] + sums[s \ {pick[s]}]
      BY <1>4, <1>7, <2>2
    <3> QED BY <1>1, <1>4, <2>2, <3>1
  <2> QED BY <2>1, <2>2 DEF Folds
<1>9. \A s \in SUBSET S : sums[s] \in Nat
  <2> DEFINE inv == (SUBSET S) \X Nat
  <2>1. Preserves(inv, Nat, 0, S, step)
    BY <1>1 DEF Preserves
  <2> HIDE DEF inv
  <2>2. 0 \in Nat
    OBVIOUS
  <2> QED BY <1>1, <1>2, <1>8, <2>1, <2>2, FoldKeeps
<1>10. SumOf(map, S) = sums[S]
  BY SumsOfMaps DEF sums
<1> QED BY <1>9, <1>10

-----------------------------------------------------------------------------
(* Means of percentiles are percentiles.                                    *)
Percents == 0..10000

LEMMA IntervalMember == \A n \in Nat : \A c : c \in 0..n <=> c \in Nat /\ c <= n
OBVIOUS

LEMMA PercentFacts == \A c : c \in Percents <=> c \in Nat /\ c <= 10000
<1> DEFINE n == 10000
<1>1. n \in Nat
  OBVIOUS
<1>2. Percents = 0..n
  BY DEF Percents
<1> HIDE DEF n
<1>3. \A c : c \in 0..n <=> c \in Nat /\ c <= n
  BY <1>1, IntervalMember
<1>4. \A c : c \in Percents <=> c \in Nat /\ c <= n
  BY <1>2, <1>3
<1> QED BY <1>4 DEF n

Fraction == {x \in Nat \X (Nat \ {0}) : x[1] <= 10000 * x[2]}

LEMMA Scaled ==
  ASSUME NEW x \in Nat, NEW y \in Nat, NEW c \in Nat, x <= y
  PROVE  x * c <= y * c /\ x * c \in Nat /\ y * c \in Nat
<1> DEFINE d == y - x
<1>1. d \in Nat /\ y = x + d
  OBVIOUS
<1> HIDE DEF d
<1>2. d * c \in Nat /\ x * c \in Nat
  BY <1>1
<1>3. y * c = x * c + d * c
  BY <1>1
<1> QED BY <1>2, <1>3

LEMMA Rounded ==
  ASSUME NEW x \in Fraction
  PROVE  RoundHalfUp(x) \in Percents
<1>1. PICK a \in Nat, b \in Nat \ {0} : x = <<a, b>> /\ a <= 10000 * b
  BY DEF Fraction
<1> DEFINE q == (2 * a + b) \div (2 * b)
<1>2. q \in Nat /\ (2 * b) * q <= 2 * a + b
  BY <1>1
<1>3. (2 * b) * q <= 20001 * b
  BY <1>1, <1>2
<1>4. RoundHalfUp(x) = q
  BY <1>1 DEF RoundHalfUp
<1> HIDE DEF q
<1>5. q <= 10000
  <2> SUFFICES ASSUME 10001 <= q PROVE FALSE
    BY <1>2
  <2>1. 10001 * (2 * b) <= q * (2 * b)
    BY <1>1, <1>2, Scaled
  <2> QED BY <1>1, <1>2, <1>3, <2>1
<1> QED BY <1>2, <1>4, <1>5, PercentFacts

LEMMA PlusBound ==
  ASSUME NEW x \in Fraction, NEW d \in Nat \X (Nat \ {0}), NEW m \in Nat, d[1] <= (10000 * m) * d[2]
  PROVE  Plus(x, d) \in Nat \X (Nat \ {0}) /\ Plus(x, d)[1] <= (10000 * (m + 1)) * Plus(x, d)[2]
<1>1. PICK a \in Nat, b \in Nat \ {0} : x = <<a, b>> /\ a <= 10000 * b
  BY DEF Fraction
<1>2. PICK e \in Nat, c \in Nat \ {0} : d = <<e, c>> /\ e <= (10000 * m) * c
  OBVIOUS
<1>3. a * c <= (10000 * b) * c /\ a * c \in Nat
  BY <1>1, <1>2, Scaled
<1>4. e * b <= ((10000 * m) * c) * b /\ e * b \in Nat
  <2>1. (10000 * m) * c \in Nat
    BY <1>2
  <2> QED BY <1>1, <1>2, <2>1, Scaled
<1>5. b * c \in Nat \ {0}
  BY <1>1, <1>2
<1>6. (10000 * b) * c + ((10000 * m) * c) * b = (10000 * (m + 1)) * (b * c)
  BY <1>1, <1>2
<1>7. a * c + e * b <= (10000 * (m + 1)) * (b * c)
  BY <1>1, <1>2, <1>3, <1>4, <1>5, <1>6
<1>8. Plus(x, d) = <<a * c + e * b, b * c>>
  BY <1>1, <1>2 DEF Plus
<1> QED BY <1>3, <1>4, <1>5, <1>7, <1>8

IsSum(sums, fractions) ==
  sums = [s \in SUBSET DOMAIN fractions |->
            IF s = {} THEN <<0, 1>>
            ELSE Plus(fractions[CHOOSE y \in s : TRUE], sums[s \ {CHOOSE y \in s : TRUE}])]

LEMMA SumOfFractions ==
  ASSUME NEW fractions
  PROVE  FoldFunction(Plus, <<0, 1>>, fractions) = (CHOOSE sums : IsSum(sums, fractions))[DOMAIN fractions]
BY DEF FoldFunction, FoldFunctionOnSet, MapThenFoldSet, IsSum

LEMMA MeanIsScore ==
  ASSUME NEW S, IsFiniteSet(S), S # {}, NEW fractions \in [S -> Fraction]
  PROVE  Mean(fractions) \in Percents
<1> DEFINE D == Nat \X (Nat \ {0})
           zero == <<0, 1>>
           step == [x \in D \X S |-> Plus(fractions[x[2]], x[1])]
           pick == AnyOf(S)
           sums == CHOOSE f : IsSum(f, fractions)
           inv == {x \in (SUBSET S) \X D : x[2][1] <= (10000 * Cardinality(x[1])) * x[2][2]}
<1>1. zero \in D /\ \A x \in S : fractions[x] \in Fraction
  OBVIOUS
<1>2. \A s \in SUBSET S : IsFiniteSet(s) /\ Cardinality(s) \in Nat /\ (Cardinality(s) = 0 <=> s = {})
  BY SizesOfSubsets
<1>3. ASSUME NEW d \in D, NEW x \in S PROVE Plus(fractions[x], d) \in D
  <2>1. fractions[x] \in D
    BY <1>1 DEF Fraction
  <2>2. PICK a \in Nat, b \in Nat \ {0}, e \in Nat, c \in Nat \ {0} : fractions[x] = <<a, b>> /\ d = <<e, c>>
    BY <2>1
  <2>3. Plus(fractions[x], d) = <<a * c + e * b, b * c>>
    BY <2>2 DEF Plus
  <2>4. a * c + e * b \in Nat /\ b * c \in Nat \ {0}
    BY <2>2
  <2> QED BY <2>3, <2>4
<1> HIDE DEF D, zero
<1>4. IsStep(step, D, S) /\ \A d \in D, x \in S : step[<<d, x>>] = Plus(fractions[x], d)
  BY <1>3 DEF IsStep
<1> HIDE DEF step
<1>5. IsPick(pick, S) /\ \A s \in SUBSET S : pick[s] = CHOOSE y \in s : TRUE
  BY AnyIsPicked
<1> HIDE DEF pick
<1>6. PICK f : IsFoldOf(f, D, zero, S, step, pick)
  BY <1>1, <1>4, <1>5, SubsetFoldExists
<1>7. ASSUME NEW s \in SUBSET S, s # {}
      PROVE  /\ pick[s] \in s /\ pick[s] \in S /\ s \ {pick[s]} \in SUBSET S
             /\ pick[s] = CHOOSE y \in s : TRUE
  BY <1>5, <1>7 DEF IsPick
<1>8. IsSum(f, fractions)
  <2>1. ASSUME NEW s \in SUBSET S
        PROVE  f[s] = IF s = {} THEN zero
                      ELSE Plus(fractions[CHOOSE y \in s : TRUE], f[s \ {CHOOSE y \in s : TRUE}])
    <3>1. CASE s = {}
      BY <1>6, <3>1 DEF IsFoldOf
    <3>2. CASE s # {}
      <4>1. f[s] = step[<<f[s \ {pick[s]}], pick[s]>>] /\ f[s \ {pick[s]}] \in D
        BY <1>6, <1>7, <3>2 DEF IsFoldOf
      <4>2. f[s] = Plus(fractions[pick[s]], f[s \ {pick[s]}])
        BY <1>4, <1>7, <3>2, <4>1
      <4> QED BY <1>7, <3>2, <4>2
    <3> QED BY <3>1, <3>2
  <2>2. f = [s \in SUBSET S |-> f[s]]
    BY <1>6 DEF IsFoldOf
  <2>3. DOMAIN fractions = S
    OBVIOUS
  <2> QED BY <2>1, <2>2, <2>3, Zenon DEF IsSum, zero
<1>9. IsSum(sums, fractions)
  BY <1>8
<1> HIDE DEF sums
<1>10. ASSUME NEW s \in SUBSET S
       PROVE  sums[s] = IF s = {} THEN zero
                        ELSE Plus(fractions[CHOOSE y \in s : TRUE], sums[s \ {CHOOSE y \in s : TRUE}])
  <2>1. DOMAIN fractions = S
    OBVIOUS
  <2> QED BY <1>9, <2>1, Zenon DEF IsSum, zero
<1>11. Folds(sums, D, zero, S, step, pick)
  <2>1. sums[{}] = zero
    BY <1>10
  <2>2. ASSUME NEW s \in SUBSET S, s # {}, sums[s \ {pick[s]}] \in D
        PROVE  sums[s] = step[<<sums[s \ {pick[s]}], pick[s]>>]
    <3>1. sums[s] = Plus(fractions[pick[s]], sums[s \ {pick[s]}])
      BY <1>7, <1>10, <2>2
    <3> QED BY <1>4, <1>7, <2>2, <3>1
  <2> QED BY <2>1, <2>2 DEF Folds
<1>12. Preserves(inv, D, zero, S, step)
  <2>1. <<{}, zero>> \in inv
    BY <1>1, FS_EmptySet DEF zero
  <2>2. ASSUME NEW s \in SUBSET S, NEW x \in S, NEW d \in D, x \notin s, <<s, d>> \in inv
        PROVE  <<s \cup {x}, step[<<d, x>>]>> \in inv
    <3> DEFINE m == Cardinality(s)
               t == s \cup {x}
               next == Plus(fractions[x], d)
    <3>1. m \in Nat /\ Cardinality(t) = m + 1 /\ t \in SUBSET S
      BY <1>2, <2>2, FS_AddElement
    <3>2. d[1] <= (10000 * m) * d[2]
      BY <2>2
    <3> HIDE DEF m
    <3>3. next \in D /\ next[1] <= (10000 * (m + 1)) * next[2]
      BY <1>1, <3>1, <3>2, PlusBound DEF D
    <3>4. step[<<d, x>>] = next
      BY <1>4
    <3> HIDE DEF next, t
    <3> QED BY <3>1, <3>3, <3>4 DEF t
  <2> QED BY <2>1, <2>2 DEF Preserves
<1>13. sums[S] \in D /\ <<S, sums[S]>> \in inv
  <2> HIDE DEF inv
  <2> QED BY <1>1, <1>4, <1>5, <1>11, <1>12, FoldKeeps
<1>14. PICK a \in Nat, b \in Nat \ {0} : sums[S] = <<a, b>>
  BY <1>13 DEF D
<1> DEFINE n == Cardinality(S)
<1>15. n \in Nat \ {0}
  BY <1>2
<1>16. a <= (10000 * n) * b
  BY <1>13, <1>14
<1>17. FoldFunction(Plus, <<0, 1>>, fractions) = sums[S]
  <2>1. DOMAIN fractions = S
    OBVIOUS
  <2> QED BY <2>1, SumOfFractions DEF sums
<1> DEFINE mean == <<a, b * n>>
<1>18. Mean(fractions) = RoundHalfUp(mean)
  <2>1. DOMAIN fractions = S
    OBVIOUS
  <2> QED BY <1>14, <1>17, <2>1 DEF Mean
<1> HIDE DEF n
<1>19. mean \in Fraction
  <2>1. b * n \in Nat \ {0} /\ a <= 10000 * (b * n)
    BY <1>14, <1>15, <1>16
  <2> QED BY <1>14, <2>1 DEF Fraction
<1> HIDE DEF mean
<1> QED BY <1>18, <1>19, Rounded

-----------------------------------------------------------------------------
(* The scores of repositories and projects.                                 *)
LEMMA RankIsFraction ==
  ASSUME NEW signal, IsFiniteSet(DOMAIN signal), NEW x \in DOMAIN signal, signal[x] # Unknown
  PROVE  PercentileRank(signal, x) \in Fraction
<1> DEFINE pool == {y \in DOMAIN signal : signal[y] # Unknown}
           lower == {y \in pool : signal[y] < signal[x]}
<1>1. IsFiniteSet(pool) /\ pool # {} /\ lower \subseteq pool
  BY FS_Subset
<1> HIDE DEF pool
<1>2. Cardinality(lower) \in Nat /\ Cardinality(pool) \in Nat \ {0} /\ Cardinality(lower) <= Cardinality(pool)
  BY <1>1, SizesOfSubsets
<1>3. PercentileRank(signal, x) = <<10000 * Cardinality(lower), Cardinality(pool)>>
  BY DEF PercentileRank, pool
<1> HIDE DEF lower
<1> QED BY <1>2, <1>3 DEF Fraction

LEMMA CompositesAreScores ==
  ASSUME NEW signals, NEW n \in Nat \ {0}, DOMAIN signals = 1..n, NEW R, IsFiniteSet(R),
         \A i \in 1..n : DOMAIN signals[i] = R
  PROVE  /\ DOMAIN RepoComposites(signals) = {x \in R : \E i \in 1..n : signals[i][x] # Unknown}
         /\ \A x \in DOMAIN RepoComposites(signals) : RepoComposites(signals)[x] \in Percents
<1> DEFINE Has(r) == {i \in 1..n : signals[i][r] # Unknown}
           Ranks(r) == [i \in Has(r) |-> PercentileRank(signals[i], r)]
<1>1. RepoComposites(signals) = [x \in {y \in R : Has(y) # {}} |-> Mean(Ranks(x))]
  <2>1. DOMAIN signals[1] = R
    OBVIOUS
  <2> QED BY <2>1 DEF RepoComposites
<1>2. ASSUME NEW x \in R, Has(x) # {} PROVE Mean(Ranks(x)) \in Percents
  <2>1. IsFiniteSet(Has(x))
    <3>1. IsFiniteSet(1..n) /\ Has(x) \subseteq 1..n
      BY FS_Interval
    <3> QED BY <3>1, FS_Subset
  <2>2. \A i \in Has(x) : PercentileRank(signals[i], x) \in Fraction
    BY RankIsFraction
  <2>3. Ranks(x) \in [Has(x) -> Fraction]
    BY <2>2
  <2> DEFINE S == Has(x)
             ranks == Ranks(x)
  <2>4. IsFiniteSet(S) /\ S # {} /\ ranks \in [S -> Fraction]
    BY <1>2, <2>1, <2>3
  <2> HIDE DEF S, ranks
  <2>5. Mean(ranks) \in Percents
    BY <2>4, MeanIsScore
  <2> QED BY <2>5 DEF ranks
<1>3. \A x \in R : Has(x) # {} <=> \E i \in 1..n : signals[i][x] # Unknown
  OBVIOUS
<1> DEFINE scored == {y \in R : Has(y) # {}}
<1>4. RepoComposites(signals) = [x \in scored |-> Mean(Ranks(x))] /\ \A x \in scored : Mean(Ranks(x)) \in Percents
  BY <1>1, <1>2
<1>5. scored = {x \in R : \E i \in 1..n : signals[i][x] # Unknown}
  BY <1>3
<1> HIDE DEF scored, Ranks
<1> QED BY <1>4, <1>5

LEMMA ProjectIsScored ==
  ASSUME NEW composites, \A x \in DOMAIN composites : composites[x] \in Percents,
         NEW members, IsFiniteSet(members), Unknown \notin Nat
  PROVE  /\ ProjectScore(composites, members) \in Scores
         /\ ProjectScore(composites, members) = Unknown <=> members \cap DOMAIN composites = {}
<1> DEFINE scored == members \cap DOMAIN composites
           fractions == [x \in scored |-> <<composites[x], 1>>]
<1>1. CASE scored = {}
  BY <1>1 DEF ProjectScore, Scores
<1>2. CASE scored # {}
  <2>1. IsFiniteSet(scored)
    BY FS_Subset
  <2>2. fractions \in [scored -> Fraction]
    <3>1. \A x \in scored : <<composites[x], 1>> \in Fraction
      <4> SUFFICES ASSUME NEW x \in scored PROVE <<composites[x], 1>> \in Fraction
        OBVIOUS
      <4>1. composites[x] \in Percents
        OBVIOUS
      <4>2. composites[x] \in Nat /\ composites[x] <= 10000
        BY <4>1, PercentFacts
      <4> QED BY <4>2 DEF Fraction
    <3> QED BY <3>1
  <2>3. ProjectScore(composites, members) = Mean(fractions)
    BY <1>2 DEF ProjectScore
  <2>4. scored = members \cap DOMAIN composites
    OBVIOUS
  <2> HIDE DEF scored, fractions
  <2>5. Mean(fractions) \in Percents
    BY <1>2, <2>1, <2>2, MeanIsScore
  <2>6. ProjectScore(composites, members) # Unknown
    <3>1. \A c \in Percents : c # Unknown
      BY PercentFacts
    <3> QED BY <2>3, <2>5, <3>1
  <2>7. ProjectScore(composites, members) \in Scores
    BY <2>3, <2>5 DEF Scores, Percents
  <2>8. members \cap DOMAIN composites # {}
    BY <1>2, <2>4
  <2> QED BY <2>6, <2>7, <2>8
<1> QED BY <1>1, <1>2

LEMMA DownloadsAreSummed ==
  ASSUME NEW map, Counts(map)
  PROVE  AggregateRepoDownloads(map) \in Nat \cup {Unknown}
<1>1. AggregateRepoDownloads(map) = IF DOMAIN map = {} THEN Unknown ELSE SumOf(map, DOMAIN map)
  BY DEF AggregateRepoDownloads, SumOf
<1>2. SumOf(map, DOMAIN map) \in Nat
  BY SumIsCount DEF Counts
<1> QED BY <1>1, <1>2

-----------------------------------------------------------------------------
(* The types of what is stored and computed.                                *)

(* Whatever requests fail, an answer holds a count and dated releases.      *)
LEMMA AnswersAreDated ==
  ASSUME NEW p \in Packages, NEW crawled \in PackageAnswers[p], ~crawled.raised
  PROVE  crawled.downloads \in Nat \cup {None} /\ Dated(crawled.releases)
<1>1. \/ \E first, second \in Results : crawled = FetchPackage(p, first, second)
      \/ System(p) = "NPM" /\ \E missing \in SUBSET NpmFields, second \in Results :
                                 crawled = FetchNpmWithout(p, missing, second)
  BY DEF PackageAnswers, PartialAnswers
<1>2. IsPublication(Published[p]) /\ System(p) \in Systems
  BY ClientConstants DEF ClientConstants, IsPublication, System
<1>3. Raised.raised
  BY DEF Raised
<1> DEFINE counts == {None, Published[p].downloads, Published[p].downloads \div 3}
           count == IF Published[p].downloads = None THEN None ELSE Published[p].downloads \div 3
           answered(x) == x.downloads \in {None, count, Published[p].downloads} /\ Dated(x.releases)
<1>4. answered(crawled)
  <2>1. ASSUME NEW version, NEW selected, NEW list, NEW downloaded
        PROVE  /\ Crawled(p, version, selected, list, downloaded).downloads = downloaded
               /\ Crawled(p, version, selected, list, downloaded).releases = list
    BY DEF Crawled
  <2>2. \A result : Downloads30d(p, result) \in {None, Published[p].downloads}
    BY DEF Downloads30d
  <2>3. \A selected : answered(ParseCrate(p, selected))
    BY <2>1, ReleasesAnswered DEF ParseCrate
  <2>4. \A result : /\ answered(ParsePackagist(p, result)) /\ answered(ParsePubDev(p, result))
                    /\ answered(ParsePyPI(p, result))
    BY <2>1, <2>2, ReleasesAnswered DEF ParsePackagist, ParsePubDev, ParsePyPI
  <2>10. ASSUME NEW missing, NEW result PROVE answered(ParseNpm(p, missing, result))
    <3>1. /\ ParseNpm(p, missing, result).downloads = Downloads30d(p, result)
          /\ ParseNpm(p, missing, result).releases = SortedReleasesDesc(NpmReleases(p, missing))
      BY NpmIsCrawled
    <3>2. Dated(SortedReleasesDesc(NpmReleases(p, missing)))
      BY ReleasesAnswered, SortedDated
    <3> QED BY <2>2, <3>1, <3>2
  <2> HIDE DEF answered
  <2>5. CASE System(p) = "CARGO"
    BY <1>1, <1>3, <2>3, <2>5 DEF FetchPackage, FetchCrate
  <2>6. CASE System(p) = "NPM"
    BY <1>1, <1>3, <2>6, <2>10 DEF FetchPackage, FetchNpm, FetchNpmWithout, FetchCounted
  <2>7. CASE System(p) = "COMPOSER"
    BY <1>1, <1>3, <2>4, <2>7 DEF FetchPackage, FetchPackagist, FetchCounted
  <2>8. CASE System(p) = "DART"
    BY <1>1, <1>3, <2>4, <2>8 DEF FetchPackage, FetchPubDev, FetchCounted
  <2>9. CASE System(p) = "PYPI"
    BY <1>1, <1>3, <2>4, <2>9 DEF FetchPackage, FetchPyPI, FetchCounted
  <2> QED BY <1>2, <2>5, <2>6, <2>7, <2>8, <2>9 DEF Systems
<1>5. crawled.downloads \in Nat \cup {None}
  <2>1. Published[p].downloads \in Nat \cup {None}
    BY <1>2 DEF IsPublication
  <2>2. count \in Nat \cup {None}
    BY <2>1
  <2> QED BY <1>4, <2>1, <2>2
<1> QED BY <1>4, <1>5

(* What the flush writes of a loaded row.                                   *)
LEMMA RowsAreMerged ==
  ASSUME NEW p \in Packages, NEW crawled \in PackageAnswers[p], ~crawled.raised,
         NEW map, Counts(map), NEW list, SortedOnce(list)
  PROVE  /\ Counts(MergeDownload(map, p, crawled.downloads))
         /\ SortedOnce(MergeReleases(list, PackageReleases(p, crawled)))
<1>1. crawled.downloads \in Nat \cup {None} /\ Dated(crawled.releases)
  BY AnswersAreDated
<1>2. Counts(MergeDownload(map, p, crawled.downloads))
  <2>1. CASE crawled.downloads = None
    BY <2>1 DEF MergeDownload
  <2>2. CASE crawled.downloads # None
    <3> DEFINE n == crawled.downloads
               new == [q \in {p} |-> n]
               merged == Over(new, map)
    <3>1. n \in Nat
      BY <1>1, <2>2
    <3> HIDE DEF n
    <3>2. DOMAIN new = {p} /\ new[p] = n
      OBVIOUS
    <3> HIDE DEF new
    <3>3. /\ DOMAIN merged = {p} \cup DOMAIN map
          /\ \A q \in DOMAIN merged : merged[q] = IF q = p THEN n ELSE map[q]
      BY <3>2 DEF Over
    <3>4. MergeDownload(map, p, n) = merged
      BY <2>2 DEF MergeDownload, new, n
    <3> HIDE DEF merged
    <3>5. IsFiniteSet(DOMAIN merged)
      BY <3>3, FS_AddElement DEF Counts
    <3>6. Counts(merged)
      BY <3>1, <3>3, <3>5 DEF Counts
    <3> QED BY <3>4, <3>6 DEF n
  <2> QED BY <2>1, <2>2
<1>3. Dated(PackageReleases(p, crawled))
  <2>1. CASE \E i \in DOMAIN crawled.releases : crawled.releases[i].purl = p
    BY <1>1, <2>1 DEF PackageReleases
  <2>2. CASE ~\E i \in DOMAIN crawled.releases : crawled.releases[i].purl = p
    <3> DEFINE latest == Release(p, crawled.latest, 0)
               found == crawled.releases
               all == <<latest>> \o found
               R == {latest} \cup ToSet(found)
    <3>1. PackageReleases(p, crawled) = all
      BY <2>2 DEF PackageReleases
    <3>2. latest.date = 0
      BY DEF Release
    <3>3. found \in Seq(ToSet(found)) /\ \A i \in DOMAIN found : found[i].date \in Nat
      BY <1>1 DEF Dated, IsList
    <3>4. \A r \in R : r.date \in Nat
      BY <3>2, <3>3 DEF ToSet
    <3> HIDE DEF latest, found
    <3>5. found \in Seq(R) /\ <<latest>> \in Seq(R)
      <4>1. ToSet(found) \subseteq R /\ latest \in R
        OBVIOUS
      <4> HIDE DEF R
      <4> QED BY <3>3, <4>1
    <3> HIDE DEF R
    <3>6. all \in Seq(R)
      BY <3>5
    <3>7. \A i \in DOMAIN all : all[i] \in R
      BY <3>6
    <3> HIDE DEF all
    <3>8. IsList(all)
      BY <3>6, ListIn
    <3> QED BY <3>1, <3>4, <3>7, <3>8 DEF Dated
  <2> QED BY <2>1, <2>2
<1>4. Dated(list)
  BY DEF Dated, SortedOnce
<1> QED BY <1>2, <1>3, <1>4, MergedOnce

(* The columns of a transaction have the types of the tables.               *)
RowTyped(s) == Open(s) => Counts(slots[s].downloads) /\ SortedOnce(slots[s].releases)
RowsInv ==
  /\ DOMAIN releases = Repos
  /\ \A r \in Repos : Counts(downloads[r]) /\ SortedOnce(releases[r])
  /\ \A s \in Slots : RowTyped(s)

LEMMA InitRows == Init => RowsInv
<1> SUFFICES ASSUME Init PROVE RowsInv
  OBVIOUS
<1>1. \A s \in Slots : ~Open(s)
  BY DEF Init, Open, Idle
<1>2. downloads = Stored.downloads /\ releases = Stored.releases
  BY DEF Init
<1> QED BY <1>1, <1>2, StoredConstants DEF StoredConstants, RowsInv, RowTyped

LEMMA RowsKept ==
  ASSUME RowsInv, NEW s \in Slots, \A t \in Slots \ {s} : slots'[t] = slots[t],
         UNCHANGED <<downloads, releases>>, RowTyped(s)'
  PROVE  RowsInv'
<1>1. \A t \in Slots \ {s} : RowTyped(t)'
  BY DEF RowsInv, RowTyped, Open
<1> QED BY <1>1 DEF RowsInv

LEMMA SlotRows ==
  ASSUME Typed, RowsInv, NEW s \in Slots,
         \/ FetchPackageOf(s) \/ LoadSourceRepo(s) \/ FlushSourceRepo(s) \/ VisitPackage(s)
         \/ InsertPackage(s) \/ ResolveDeadlock(s) \/ FetchDependentsOf(s) \/ Commit(s)
  PROVE  RowsInv'
<1>1. Busy(s) /\ RowTyped(s)
  BY DEF FetchPackageOf, LoadSourceRepo, FlushSourceRepo, VisitPackage, InsertPackage,
         ResolveDeadlock, FetchDependentsOf, Commit, MayWait, Waits, Busy, RowsInv
<1>2. CASE FailPackage(s)
  <2>1. slots[s].done \in Nat /\ NextPackage(s, slots[s].done) /\ UNCHANGED <<downloads, releases>>
    BY <1>1, <1>2 DEF Typed, Shaped, FailPackage, graph
  <2>2. ~Open(s)' /\ \A t \in Slots \ {s} : slots'[t] = slots[t]
    BY <1>1, <2>1, PackageEnds
  <2>3. RowTyped(s)'
    BY <2>2 DEF RowTyped
  <2> QED BY <2>1, <2>2, <2>3, RowsKept
<1>3. CASE FetchPackageOf(s) /\ ~FailPackage(s)
  <2>1. PICK crawled : Go(s, [pc |-> "load", crawled |-> crawled]) /\ UNCHANGED graph
    BY <1>3 DEF FetchPackageOf
  <2> DEFINE fields == [pc |-> "load", crawled |-> crawled]
  <2>2. Go(s, fields) /\ "pc" \in DOMAIN fields /\ fields["pc"] = "load"
    BY <2>1
  <2> HIDE DEF fields
  <2>3. slots'[s].pc = "load" /\ \A t \in Slots \ {s} : slots'[t] = slots[t]
    BY <2>2, GoSlot
  <2>4. RowTyped(s)'
    BY <2>3 DEF RowTyped, Open
  <2> QED BY <2>1, <2>3, <2>4, RowsKept DEF graph
<1>4. CASE LoadSourceRepo(s) /\ ~FailPackage(s)
  <2>1. PICK r \in Repos : Continues(s) /\ slots'[s].downloads = downloads[r] /\ slots'[s].releases = releases[r]
    BY <1>4, LoadStep
  <2>2. RowTyped(s)'
    BY <2>1 DEF RowTyped, RowsInv
  <2> QED BY <2>1, <2>2, RowsKept DEF Continues
<1>5. CASE FlushSourceRepo(s)
  <2> DEFINE p == Package(s)
             crawled == slots[s].crawled
  <2>1. Open(s) /\ slots[s].pc = "flush"
    BY <1>5 DEF FlushSourceRepo, Open
  <2>2. p \in Packages /\ crawled \in PackageAnswers[p] /\ ~crawled.raised
    BY <1>1, <2>1, CrawlConstants DEF CrawlConstants, Typed, Shaped, Package
  <2>3. Counts(slots[s].downloads) /\ SortedOnce(slots[s].releases)
    BY <1>1, <2>1 DEF RowTyped
  <2>4. /\ Counts(MergeDownload(slots[s].downloads, p, crawled.downloads))
        /\ SortedOnce(MergeReleases(slots[s].releases, PackageReleases(p, crawled)))
    BY <2>2, <2>3, RowsAreMerged
  <2>5. RowTyped(s)' /\ Continues(s)
    BY <1>5, <2>4, FlushStep DEF RowTyped
  <2> QED BY <2>5, RowsKept DEF Continues
<1>6. CASE VisitPackage(s) \/ ((InsertPackage(s) \/ FetchDependentsOf(s)) /\ ~FailPackage(s))
  <2>1. Continues(s) /\ SameRow(s)
    BY <1>6, VisitStep, InsertStep, DependentsStep
  <2>2. Open(s)
    BY <1>6 DEF VisitPackage, InsertPackage, FetchDependentsOf, Open
  <2>3. RowTyped(s)'
    BY <1>1, <2>1, <2>2 DEF RowTyped, SameRow
  <2> QED BY <2>1, <2>3, RowsKept DEF Continues
<1>7. CASE Commit(s) /\ ~FailPackage(s)
  <2>1. slots[s].pc = "commit" /\ Open(s)
    BY <1>7 DEF Commit, Open
  <2>2. slots[s].done + 1 \in Nat
    BY <1>1 DEF Typed, Shaped
  <2>3. /\ downloads' = Written(s, "downloads", downloads) /\ releases' = Written(s, "releases", releases)
        /\ NextPackage(s, slots[s].done + 1)
    BY <1>7, CommitStep
  <2>4. ~Open(s)' /\ \A t \in Slots \ {s} : slots'[t] = slots[t]
    BY <1>1, <2>2, <2>3, PackageEnds
  <2>5. \A t \in Slots : RowTyped(t)'
    BY <2>4 DEF RowsInv, RowTyped, Open
  <2>6. Counts(slots[s].downloads) /\ SortedOnce(slots[s].releases)
    BY <1>1, <2>1 DEF RowTyped
  <2>7. DOMAIN releases' = Repos /\ \A r \in Repos : Counts(downloads'[r])
    BY <2>3, <2>6 DEF Written, Typed, RowsInv
  <2>8. \A r \in Repos : SortedOnce(releases'[r])
    BY <2>3, <2>6 DEF Written, RowsInv
  <2> QED BY <2>5, <2>7, <2>8 DEF RowsInv
<1> QED BY <1>2, <1>3, <1>4, <1>5, <1>6, <1>7 DEF ResolveDeadlock

LEMMA NextRows == Typed /\ RowsInv /\ [Next]_vars => RowsInv'
<1> SUFFICES ASSUME Typed, RowsInv, [Next]_vars PROVE RowsInv'
  OBVIOUS
<1>1. CASE UNCHANGED vars \/ MaterializeCriticality \/ MaterializeAdoption
  <2>1. UNCHANGED <<slots, downloads, releases>>
    BY <1>1 DEF vars, graph, MaterializeCriticality, MaterializeAdoption
  <2> QED BY <2>1 DEF RowsInv, RowTyped, Open
<1>2. CASE EndWork
  <2>1. \A s \in Slots : ~Open(s)'
    BY <1>2, EndWorkTyped DEF Open, Busy
  <2>2. UNCHANGED <<downloads, releases>>
    BY <1>2 DEF EndWork, graph
  <2> QED BY <2>1, <2>2 DEF RowsInv, RowTyped
<1>3. ASSUME NEW s \in Slots, Fetch(s) PROVE RowsInv'
  <2>1. /\ \A t \in Slots \ {s} : slots'[t] = slots[t]
        /\ slots'[s].pc = "fetch" /\ UNCHANGED <<downloads, releases>>
    BY <1>3 DEF Fetch, Typed, graph
  <2>2. RowTyped(s)'
    BY <2>1 DEF RowTyped, Open
  <2> QED BY <2>1, <2>2, RowsKept
<1> QED BY <1>1, <1>2, <1>3, SlotRows DEF Next

(* The scores, once computed.                                               *)
Scored ==
  \A p \in Projects :
    scores[p] = Unknown <=> \A r \in Members(p) : adoption[r] = Unknown /\ {Stars[r], Forks[r]} = {Unknown}
ScoresInv ==
  /\ stage \in {"working", "criticality", "adoption", "over"}
  /\ jobs \in [DOMAIN Jobs -> {"none", "todo", "doing", "succeeded", "failed"}]
  /\ adoption \in [Repos -> Nat \cup {Unknown}]
  /\ scores \in [Projects -> Scores]
  /\ stage = "over" => Scored
  /\ faults \in 0..Faults

(* A project has a score exactly if one of its repositories has a signal.   *)
LEMMA AdoptionIsScored ==
  ASSUME RowsInv, DOMAIN downloads = Repos, MaterializeAdoption
  PROVE  /\ adoption' \in [Repos -> Nat \cup {Unknown}] /\ scores' \in [Projects -> Scores] /\ Scored'
<1> DEFINE total == [r \in Repos |-> AggregateRepoDownloads(downloads[r])]
           signals == <<total, Stars, Forks>>
           composites == RepoComposites(signals)
<1>1. adoption' = total /\ scores' = [p \in Projects |-> ProjectScore(composites, Members(p))]
  BY DEF MaterializeAdoption
<1>2. total \in [Repos -> Nat \cup {Unknown}]
  <2>1. \A r \in Repos : AggregateRepoDownloads(downloads[r]) \in Nat \cup {Unknown}
    BY DownloadsAreSummed DEF RowsInv
  <2> QED BY <2>1
<1> HIDE DEF total
<1>3. /\ DOMAIN signals = 1..3 /\ signals[1] = total /\ signals[2] = Stars /\ signals[3] = Forks
      /\ \A i \in 1..3 : DOMAIN signals[i] = Repos
  <2>1. DOMAIN total = Repos /\ DOMAIN Stars = Repos /\ DOMAIN Forks = Repos
    BY <1>2, SignalConstants DEF SignalConstants
  <2>2. \A i \in 1..3 : i = 1 \/ i = 2 \/ i = 3
    OBVIOUS
  <2> QED BY <2>1, <2>2
<1>4. IsFiniteSet(Repos) /\ Unknown \notin Nat
  BY SignalConstants DEF SignalConstants
<1> HIDE DEF signals
<1>5. /\ DOMAIN composites = {r \in Repos : \E i \in 1..3 : signals[i][r] # Unknown}
      /\ \A r \in DOMAIN composites : composites[r] \in Percents
  <2>1. 3 \in Nat \ {0}
    OBVIOUS
  <2> QED BY <1>3, <1>4, <2>1, CompositesAreScores
<1> HIDE DEF composites
<1>6. ASSUME NEW p \in Projects
      PROVE  /\ ProjectScore(composites, Members(p)) \in Scores
             /\ ProjectScore(composites, Members(p)) = Unknown <=> Members(p) \cap DOMAIN composites = {}
  <2>1. IsFiniteSet(Members(p))
    BY <1>4, FS_Subset DEF Members
  <2> QED BY <1>4, <1>5, <2>1, ProjectIsScored
<1>7. scores' \in [Projects -> Scores]
  BY <1>1, <1>6
<1>8. ASSUME NEW r \in Repos
      PROVE  r \notin DOMAIN composites <=> adoption'[r] = Unknown /\ {Stars[r], Forks[r]} = {Unknown}
  <2>1. r \notin DOMAIN composites <=> \A i \in 1..3 : signals[i][r] = Unknown
    BY <1>5
  <2>2. \A i \in 1..3 : i = 1 \/ i = 2 \/ i = 3
    OBVIOUS
  <2>3. 1 \in 1..3 /\ 2 \in 1..3 /\ 3 \in 1..3
    OBVIOUS
  <2>4. r \notin DOMAIN composites <=> total[r] = Unknown /\ Stars[r] = Unknown /\ Forks[r] = Unknown
    BY <1>3, <2>1, <2>2, <2>3
  <2> QED BY <1>1, <2>4
<1>9. ASSUME NEW p \in Projects
      PROVE  scores'[p] = Unknown <=>
               \A r \in Members(p) : adoption'[r] = Unknown /\ {Stars[r], Forks[r]} = {Unknown}
  <2>1. scores'[p] = Unknown <=> Members(p) \cap DOMAIN composites = {}
    BY <1>1, <1>6
  <2>2. Members(p) \subseteq Repos
    BY DEF Members
  <2>3. Members(p) \cap DOMAIN composites = {} <=> \A r \in Members(p) : r \notin DOMAIN composites
    OBVIOUS
  <2> QED BY <1>8, <2>1, <2>2, <2>3
<1> QED BY <1>1, <1>2, <1>7, <1>9 DEF Scored, Members

LEMMA InitScores == Init => ScoresInv
<1> SUFFICES ASSUME Init PROVE ScoresInv
  OBVIOUS
<1>1. PICK selected \in Selections : jobs = [j \in DOMAIN Jobs |-> IF j \in selected THEN "todo" ELSE "none"]
  BY DEF Init
<1>2. scores \in [Projects -> Scores] /\ Faults \in Nat
  BY StoredConstants, CrawlConstants DEF StoredConstants, CrawlConstants, Init
<1>3. stage = "working" /\ adoption = [r \in Repos |-> Unknown] /\ faults = 0
  BY DEF Init
<1> QED BY <1>1, <1>2, <1>3 DEF ScoresInv

LEMMA FaultBound ==
  ASSUME faults \in 0..Faults, Fault \/ UNCHANGED faults
  PROVE  faults' \in 0..Faults
BY CrawlConstants DEF CrawlConstants, Fault

LEMMA PackageJobs ==
  ASSUME ScoresInv, NEW s \in Slots, NEW done, NextPackage(s, done)
  PROVE  jobs' \in [DOMAIN Jobs -> {"none", "todo", "doing", "succeeded", "failed"}]
<1>1. \/ UNCHANGED jobs
      \/ jobs' = [jobs EXCEPT ![slots[s].job] = IF done = 0 THEN "failed" ELSE "succeeded"]
  BY DEF NextPackage
<1> QED BY <1>1 DEF ScoresInv

LEMMA SlotScores ==
  ASSUME Typed, ScoresInv, NEW s \in Slots,
         \/ Fetch(s) \/ FetchPackageOf(s) \/ LoadSourceRepo(s) \/ FlushSourceRepo(s) \/ VisitPackage(s)
         \/ InsertPackage(s) \/ ResolveDeadlock(s) \/ FetchDependentsOf(s) \/ Commit(s)
  PROVE  ScoresInv'
<1>1. stage = "working" /\ UNCHANGED <<stage, adoption, scores>>
  BY DEF Fetch, FetchPackageOf, LoadSourceRepo, FlushSourceRepo, VisitPackage, InsertPackage,
     ResolveDeadlock, FetchDependentsOf, Commit, MayWait, Waits, Typed, Held, Busy, metrics
<1>2. Fault \/ UNCHANGED faults
  BY DEF Fetch, FetchPackageOf, LoadSourceRepo, FlushSourceRepo, VisitPackage, InsertPackage,
     ResolveDeadlock, FetchDependentsOf, Commit
<1>3. faults' \in 0..Faults
  BY <1>2, FaultBound DEF ScoresInv
<1>4. \/ UNCHANGED jobs \/ \E done : NextPackage(s, done)
      \/ \E j \in DOMAIN Jobs : jobs' = [jobs EXCEPT ![j] = "doing"]
  BY DEF Fetch, FetchPackageOf, LoadSourceRepo, FlushSourceRepo, VisitPackage, InsertPackage,
     ResolveDeadlock, FetchDependentsOf, Commit, FailPackage
<1>5. jobs' \in [DOMAIN Jobs -> {"none", "todo", "doing", "succeeded", "failed"}]
  BY <1>4, PackageJobs DEF ScoresInv
<1> QED BY <1>1, <1>3, <1>5 DEF ScoresInv

LEMMA NextScores == Typed /\ RowsInv /\ ScoresInv /\ [Next]_vars => ScoresInv'
<1> SUFFICES ASSUME Typed, RowsInv, ScoresInv, [Next]_vars PROVE ScoresInv'
  OBVIOUS
<1>1. CASE UNCHANGED vars
  BY <1>1 DEF vars, metrics, ScoresInv, Scored, Members
<1>2. CASE EndWork
  <2>1. Fault \/ UNCHANGED faults
    BY <1>2 DEF EndWork
  <2>2. stage' = "criticality" /\ UNCHANGED <<adoption, scores>>
    BY <1>2 DEF EndWork, metrics
  <2>3. jobs' = [j \in DOMAIN Jobs |-> IF jobs[j] = "doing" THEN "failed" ELSE jobs[j]]
    BY <1>2 DEF EndWork
  <2>4. jobs' \in [DOMAIN Jobs -> {"none", "todo", "doing", "succeeded", "failed"}]
    BY <2>3 DEF ScoresInv
  <2> QED BY <2>1, <2>2, <2>4, FaultBound DEF ScoresInv
<1>3. CASE MaterializeCriticality
  BY <1>3 DEF MaterializeCriticality, ScoresInv
<1>4. CASE MaterializeAdoption
  <2>1. adoption' \in [Repos -> Nat \cup {Unknown}] /\ scores' \in [Projects -> Scores] /\ Scored'
    BY <1>4, AdoptionIsScored DEF Typed
  <2>2. stage' = "over" /\ UNCHANGED <<jobs, faults>>
    BY <1>4 DEF MaterializeAdoption
  <2> QED BY <2>1, <2>2 DEF ScoresInv
<1> QED BY <1>1, <1>2, <1>3, <1>4, SlotScores DEF Next

(* Whatever interleaves and fails, the stored counts and releases are what   *)
(* merge_releases and the counts make of valid answers (releases sorted, each *)
(* once, with two transactions on one row too), no edge lacks an end, scores *)
(* stay within a hundred percent, and a project has a score exactly if one   *)
(* of its repositories has a signal.                                         *)
THEOREM RegistryTyped == Spec => []TypeOK
<1>1. Typed /\ GraphInv /\ RowsInv /\ ScoresInv => TypeOK
  <2> SUFFICES ASSUME Typed, GraphInv, RowsInv, ScoresInv PROVE TypeOK
    OBVIOUS
  <2>1. \A s \in Slots : Busy(s) => slots[s].at \in DOMAIN Jobs[slots[s].job]
    BY DEF Typed, Shaped
  <2>2. \A e \in edges : {e[1], e[2]} \subseteq Repos \cup externals
    BY DEF GraphInv, Vertices
  <2> QED BY <2>1, <2>2 DEF TypeOK, RowsInv, ScoresInv, Scored
<1>2. Typed /\ WrittenInv /\ [Next]_vars => WrittenInv'
  BY NextWritten
<1> QED BY <1>1, <1>2, InitTyped, NextTyped, InitWritten, InitGraph, NextGraph, InitRows, NextRows,
           InitScores, NextScores, PTL DEF Spec
===============================================================================
