-------------------------- MODULE MCGithubDependents --------------------------
(***************************************************************************)
(* Instances of GithubDependents for TLC.                                  *)
(***************************************************************************)
EXTENDS GithubDependents

CONSTANTS s1, d1, d2, p1, p2, p3

(* All attempts crawl one repository. *)
OneSource == [a \in Attempts |-> s1]

Row(d) == [repo |-> d, readable |-> TRUE]
Hidden(d) == [repo |-> d, readable |-> FALSE]
RowChoices == {<<>>, <<Row(d1)>>, <<Row(d2), Row(s1), Row(d1)>>, <<Row(s1)>>, <<Hidden(d1)>>, <<Row(d1), Hidden(d2)>>}

Listing(repos, counted, pages) == [repos |-> repos, packages |-> counted, pages |-> pages]
Alone(rows, refusals) == <<[rows |-> rows, next |-> NoPage, link |-> FALSE, refusals |-> refusals]>>

(* Listings of up to three pages, with cursors that cannot be read or lead  *)
(* back to the first page.                                                  *)
PageSeqs(n) ==
  {[i \in 1..n |-> [rows |-> rows[i], refusals |-> <<>>, link |-> i < n,
                    next |-> IF i = n THEN NoPage ELSE next[i]]] :
     rows \in [1..n -> RowChoices],
     next \in {f \in [1..(n - 1) -> {1, 2, 3, NoPage}] : \A i \in 1..(n - 1) : f[i] \in {1, i + 1, NoPage}}}

(* A count of no repositories is right.                                     *)
ListingsOf(pageSeqs) ==
  {Listing(repos, counted, pages) : repos \in {2, Unreadable}, counted \in {0, Unreadable}, pages \in pageSeqs}
  \cup {Listing(0, 0, pages) : pages \in {s \in pageSeqs : \A i \in DOMAIN s : s[i].rows = <<>>}}

Site(menu, listings) == [source |-> s1, button |-> menu # <<>>, menu |-> menu, listings |-> listings]
Single(listing) == Site(<<>>, NoPackage :> listing)
Base == NoPackage :> Listing(2, 0, Alone(<<>>, <<>>))

Waits == {<<>>, <<30>>, <<30, 30>>, <<30, 30, 30>>, <<90>>, <<Unreadable>>}
SmallListings == ListingsOf(PageSeqs(1))
AllSites ==
  {Single(listing) : listing \in ListingsOf(PageSeqs(1) \cup PageSeqs(2) \cup PageSeqs(3))}
  \cup {Single(Listing(2, 0, Alone(<<Row(d1)>>, waits))) : waits \in Waits}
  \cup {[Single(Listing(2, 0, Alone(<<Row(d1)>>, <<>>))) EXCEPT !.button = TRUE]}
  \cup {Site(<<p1, p2>>, p1 :> first @@ p2 :> second @@ Base) : first, second \in SmallListings}
  \cup {Site(<<p1, p2, p3>>, p1 :> listing @@ p2 :> listing @@ p3 :> listing @@ Base) : listing \in SmallListings}

(* The walks of the attempts: d1 through p1, d2 through one of three        *)
(* packages, d2 through p1 with a count that does not parse.                *)
Empty == Listing(0, 0, Alone(<<>>, <<>>))
One(d, counted) == Listing(1, counted, Alone(<<Row(d)>>, <<>>))
CrawledSites == {Site(<<p1>>, p1 :> One(d1, 0) @@ Base),
                 Site(<<p2, p1, p3>>, p2 :> One(d2, 0) @@ p1 :> Empty @@ p3 :> Empty @@ Base),
                 Site(<<p1>>, p1 :> One(d2, Unreadable) @@ Base)}
Walks ==
  {[seen |-> {d1}, packages |-> d1 :> {p1} @@ d2 :> {}, listing |-> TRUE, counts |-> TRUE],
   [seen |-> {d2}, packages |-> d1 :> {} @@ d2 :> {p2}, listing |-> FALSE, counts |-> FALSE],
   [seen |-> {d2}, packages |-> d1 :> {} @@ d2 :> {p1}, listing |-> TRUE, counts |-> FALSE]}

ASSUME WalksAreCollected ==
  /\ \A site \in CrawledSites : ~CollectSnapshot(site).raised
  /\ Walks = {LET built == Build(CollectSnapshot(site))
                  found == built.dependents
              IN [seen |-> DOMAIN found, listing |-> built.listing_complete, counts |-> built.counts_complete,
                  packages |-> [d \in Dependents |-> IF d \in DOMAIN found THEN found[d] ELSE {}]] :
                site \in CrawledSites}
=============================================================================
