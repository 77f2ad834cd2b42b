---------------------------- MODULE DependentsWalk ----------------------------
(***************************************************************************)
(* The walk over the pages on which GitHub lists the dependents of a       *)
(* repository (collect_snapshot of crawlers/github_dependents.py): which   *)
(* dependents it collects, and whether it may call its listing complete.   *)
(*                                                                         *)
(* A site is [source, button, menu, listings]: whether a package selector  *)
(* is shown, the packages its menu names, and the listing of each, that of *)
(* NoPackage being the page without a selection.  A listing is             *)
(* [repos, packages, pages]; a page [rows, next, link, refusals] names the *)
(* page its cursor leads to, tells whether a Next link is shown and how    *)
(* long the 403 answers before it asked to wait.  HTML that does not parse *)
(* is Unreadable; a menu parses as a whole.                                *)
(***************************************************************************)
EXTENDS Naturals, Sequences, FiniteSets, SequencesExt, FiniteSetsExt, TLC

CONSTANTS
  Sites,
  PagesCap, EntryCap, PackagesCap,
  RatelimitRetries,   \* MAX_RATELIMIT_RETRIES
  RatelimitWait,      \* MAX_RATELIMIT_WAIT_SECONDS
  NoPackage, NoPage, Unreadable

ASSUME WalkConstants ==
  {PagesCap, EntryCap, PackagesCap, RatelimitRetries} \subseteq Nat \ {0} /\ NoPage \notin Nat

Pages(site, p) == site.listings[p].pages
Repos(site, p) == site.listings[p].repos

(* The packages of a site, and the dependents any of their pages displays.  *)
Listings(site) == IF site.menu = <<>> THEN {NoPackage} ELSE ToSet(site.menu)
Displayed(site) ==
  LET pages == UNION {ToSet(Pages(site, p)) : p \in Listings(site)}
  IN {row.repo : row \in UNION {ToSet(page.rows) : page \in pages}} \ {site.source}

(* Where a Next link is shown another page follows; its cursor leads there, *)
(* or back.  A count of no repositories is right.                           *)
IsList(list) == list \in Seq(ToSet(list))
ListingFits(listing) ==
  LET n == Len(listing.pages)
  IN /\ IsList(listing.pages) /\ n > 0
     /\ listing.repos \in Nat \cup {Unreadable}
     /\ \A i \in 1..n :
          LET page == listing.pages[i]
          IN /\ IsList(page.rows)
             /\ page.link = (i < n)
             /\ page.next \in {NoPage} \cup {j \in 1..n : j <= i + 1}
             /\ listing.repos = 0 => page.rows = <<>>
SiteFits(site) == IsList(site.menu) /\ \A p \in Listings(site) : ListingFits(site.listings[p])

ASSUME SitesFit == \A site \in Sites : SiteFits(site)

(* The totals of a listing; the rows of a page that parse.                  *)
Counts(site, p) == {Repos(site, p), site.listings[p].packages}
Entries(page) == {i \in DOMAIN page.rows : page.rows[i].readable}
Named(page, positions) == {page.rows[i].repo : i \in positions}

(* A 403 that names a wait within the budget.                               *)
Waited(wait) == wait # Unreadable /\ wait <= RatelimitWait

(* _fetch_page: the refusals that are waited for.                           *)
Answered(page) ==
  Len(page.refusals) <= RatelimitRetries /\ \A i \in DOMAIN page.refusals : Waited(page.refusals[i])

(* _SnapshotBuilder: a walk, with what its listing and its counts amount to *)
(* so far, and the snapshot it makes.                                       *)
NewBuilder(complete, counted, refused) ==
  [found |-> <<>>, listing |-> complete, counts |-> counted, raised |-> refused,
   at |-> 1, cursors |-> {}, over |-> FALSE]
Build(w) ==
  [dependents |-> w.found, listing_complete |-> w.listing, counts_complete |-> w.counts]

(* add_dependent, of those that the rows of a page name.                    *)
AddDependents(found, ds, p) ==
  [d \in DOMAIN found \cup ds |->
     (IF d \in DOMAIN found THEN found[d] ELSE {}) \cup (IF d \in ds THEN {p} \ {NoPackage} ELSE {})]

AtCap(found) == Cardinality(DOMAIN found) >= EntryCap

(* The rows up to the one that meets the cap; rows of the source are        *)
(* passed over.                                                             *)
Consumed(source, page, found) ==
  LET Names(k) == DOMAIN found \cup (Named(page, {j \in Entries(page) : j <= k}) \ {source})
      stops == {i \in Entries(page) : page.rows[i].repo # source /\ Cardinality(Names(i - 1)) >= EntryCap}
  IN {i \in Entries(page) : \A j \in stops : i < j}

(* Mutant: a page without a cursor is the last one. *)
TruncatedByCursor(page, allConsumed, found, cursors, i) ==
  IF AtCap(found) THEN ~allConsumed \/ page.next # NoPage
  ELSE page.next # NoPage /\ (page.next \in cursors \/ i = PagesCap)

(* Whether the walk stops at page i, the last row consumed or not, before   *)
(* the end of the listing.                                                  *)
Truncated(page, allConsumed, found, cursors, i) ==
  CASE AtCap(found) -> ~allConsumed \/ page.next # NoPage \/ page.link
    [] ~AtCap(found) /\ page.next = NoPage -> page.link
    [] OTHER -> page.next \in cursors \/ i = PagesCap

(* An iteration of the loop of _walk_listing.                               *)
VisitPage(site, p, w, i) ==
  LET page == Pages(site, p)[w.at]
      rows == Entries(page)
      consumed == Consumed(site.source, page, w.found)
      found == AddDependents(w.found, Named(page, consumed) \ {site.source}, p)
      truncated == Truncated(page, consumed = rows, found, w.cursors, i)
  IN IF ~Answered(page) \/ (rows = {} /\ page.rows # <<>>) THEN [w EXCEPT !.raised = TRUE, !.over = TRUE]
     ELSE IF page.rows = <<>> THEN [w EXCEPT !.listing = @ /\ i = 1 /\ Repos(site, p) = 0, !.over = TRUE]
     ELSE [w EXCEPT !.found = found, !.listing = @ /\ rows = DOMAIN page.rows /\ ~truncated,
                    !.over = truncated \/ page.next = NoPage \/ AtCap(found),
                    !.at = page.next, !.cursors = @ \cup {page.next}]

WalkListing(site, p, walk) ==
  FoldLeft(LAMBDA w, i : IF w.over THEN w ELSE VisitPage(site, p, w, i),
           [walk EXCEPT !.at = 1, !.cursors = {}, !.over = walk.raised], [i \in 1..PagesCap |-> i])

(* sorted by total, the largest first; it is stable.                        *)
LargestFirst(site, ids) ==
  LET Total(i) == IF Repos(site, ids[i]) = Unreadable THEN 0 ELSE Repos(site, ids[i])
      before == {x \in (DOMAIN ids) \X (DOMAIN ids) :
                   Total(x[1]) > Total(x[2]) \/ (Total(x[1]) = Total(x[2]) /\ x[1] < x[2])}
      order == CHOOSE list \in SetToSeqs(DOMAIN ids) :
                 \A i, j \in DOMAIN ids : i < j => <<list[i], list[j]>> \in before
  IN [k \in DOMAIN ids |-> ids[order[k]]]

(* The packages whose listings are walked: the first ones of the menu.      *)
Scanned(site) == IF site.menu = <<>> THEN <<NoPackage>>
                 ELSE SubSeq(site.menu, 1, Min({Len(site.menu), PackagesCap}))

(* The walk raises DependentsPageLayoutError, or what a request raises.     *)
CollectSnapshot(site) ==
  LET scanned == Scanned(site)
      ordered == LargestFirst(site, scanned)
      whole == Len(site.menu) <= PackagesCap
      unreadable == \/ site.button /\ site.menu = <<>>
                    \/ ~Answered(Pages(site, NoPackage)[1])
                    \/ \E p \in ToSet(scanned) : Counts(site, p) = {Unreadable} \/ ~Answered(Pages(site, p)[1])
      counted == \A p \in ToSet(scanned) : Unreadable \notin Counts(site, p)
      Visit(w, k) ==
        IF AtCap(w.found)
        THEN [w EXCEPT !.listing = @ /\ \A j \in k..Len(ordered) : Repos(site, ordered[j]) = 0]
        ELSE WalkListing(site, ordered[k], w)
  IN FoldLeft(Visit, NewBuilder(whole, whole /\ counted, unreadable), [k \in DOMAIN ordered |-> k])
-------------------------------------------------------------------------------
(* A site whose pages all parse and fit under the caps.                     *)
Plain(site) ==
  /\ Len(site.menu) <= PackagesCap /\ Cardinality(Displayed(site)) < EntryCap
  /\ \A p \in Listings(site) :
       /\ Len(Pages(site, p)) <= PagesCap
       /\ Pages(site, p)[1].rows = <<>> => Repos(site, p) = 0
       /\ \A i \in DOMAIN Pages(site, p) :
            LET page == Pages(site, p)[i]
            IN /\ page.next = IF i < Len(Pages(site, p)) THEN i + 1 ELSE NoPage
               /\ \A j \in DOMAIN page.rows : page.rows[j].readable
               /\ i > 1 => page.rows # <<>>

(* Sites of which a walk says more or less than it saw.                     *)
Misjudged ==
  {site \in Sites :
     LET walk == CollectSnapshot(site)
     IN /\ ~walk.raised
        /\ \/ walk.listing /\ ~(Displayed(site) \subseteq DOMAIN walk.found)
           \/ Plain(site) /\ ~walk.listing}

===============================================================================
