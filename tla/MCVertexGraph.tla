---------------------------- MODULE MCVertexGraph ----------------------------
(***************************************************************************)
(* Instances of VertexGraph for TLC.                                       *)
(***************************************************************************)
EXTENDS VertexGraph, TLC

CONSTANTS j1, j2, j3, r1, r2, p1, p2, p3, v0, v1, v2

Sorted == <<p1, p2, p3, r1, r2>>

Vert(is, name, version, purls) ==
  [is |-> is, name |-> name, version |-> version, purls |-> purls]
(* A payload that lists the named packages at a version, an SPDX id being   *)
(* the canonical id of the package; p3 is known by name only.              *)
Package(n, v) ==
  [id |-> n, name |-> "P3", version |-> v,
   refs |-> IF n = p3 THEN <<[type |-> "cpe", base |-> p1]>> ELSE <<[type |-> "purl", base |-> n]>>]
Link(from, type, to) == [from |-> from, type |-> type, to |-> to]
Payload(form, stamp, packages, version, links) ==
  [form |-> form,
   doc |-> [valid |-> TRUE, name |-> "repo", stamp |-> stamp,
            packages |-> [i \in DOMAIN packages |-> Package(packages[i], version)],
            relationships |-> links]]
DependsOn(pairs) == [i \in DOMAIN pairs |-> Link(pairs[i][1], "DEPENDS_ON", pairs[i][2])]
Garbage == [form |-> "garbage", doc |-> [valid |-> FALSE]]
LowerCase == "P3" :> p3

Sbom(repo, payload) == [kind |-> "sbom", repo |-> repo, payload |-> payload]
Deps(repo, version, requirements) ==
  [kind |-> "deps", repo |-> repo, packages |-> requirements,
   versions |-> [n \in Names |-> IF n = repo THEN NoVersion ELSE version]]
Crawl(repo, version, packages) ==
  [kind |-> "repo", repo |-> repo, packages |-> packages,
   versions |-> [n \in Names |-> IF n = repo THEN version ELSE NoVersion]]

Shadow == [is |-> "inferred_shadow"]
Verified == [is |-> "verified_sbom"]

(* Documents that share packages and list each other's repository, of two   *)
(* repositories that are known or new; r2 submits twice, the second time a  *)
(* flat document.  The first document was stored again by a submission that *)
(* ordered it otherwise; one with the packages of the second is not its     *)
(* equal.                                                                   *)
Submitted == (1 :> Vert("repo", r1, v0, {})) @@ (2 :> Vert("repo", r2, v0, {}))
             @@ (3 :> Vert("external", p1, v0, {})) @@ (4 :> Vert("external", p2, v0, {}))
New == (1 :> Vert("external", p1, v0, {})) @@ (2 :> Vert("external", p2, v0, {}))
Described == <<Link(Document, "DESCRIBES", "root"), Link(p1, "CONTAINS", p2),
               Link("root", "DEPENDS_ON", NoAssertion), Link("root", "DEPENDS_ON", "nowhere")>>
Links1 == DependsOn(<<<<"root", p2>>, <<r1, p1>>, <<p2, p1>>, <<p1, p2>>, <<r2, p1>>>>) \o Described
Links2 == DependsOn(<<<<p2, p1>>, <<r2, p1>>, <<r1, p2>>>>)
First(form, stamp, order, links) == Payload(form, stamp, order, v1, links)
Document1 == First("bare", 1, <<r1, p2, p1, r2>>, Links1)
Again1 == First("envelope", 2, <<p1, p2, r1, r2>>, [i \in DOMAIN Links1 |-> Links1[Len(Links1) + 1 - i]])
Document2 == Payload("envelope", 3, <<p1, r1, p2>>, v2, Links2)
Other2 == Payload("envelope", 4, <<p1, r1, p2>>, v2, Tail(Links2))
Document3 == Payload("bare", 5, <<p2, p1, p3>>, v1, <<>>)
Sboms == (j1 :> Sbom(r1, Document1)) @@ (j2 :> Sbom(r2, Document2)) @@ (j3 :> Sbom(r2, Document3))
Puts == <<Document1, Document2, Garbage, Document3, Again1, Other2>>

(* r2 is known as a dependency only, as a Repo, or not at all, and is       *)
(* crawled with its packages, while r1 submits a document and its           *)
(* requirements are crawled.                                                *)
Rest == (1 :> Vert("repo", r1, v0, {}))
        @@ (3 :> Vert("external", p1, v0, {})) @@ (4 :> Vert("external", p2, v0, {}))
Dependency == Rest @@ (2 :> Vert("external", r2, v2, {}))
Repository == Rest @@ (2 :> Vert("repo", r2, v0, {p3}))
Mixed == <<3, 4>> :> Verified
Targeted == Mixed @@ (<<1, 3>> :> Verified) @@ (<<1, 2>> :> Shadow) @@ (<<3, 2>> :> Shadow)
Writers == (j1 :> Sbom(r1, Payload("bare", 1, <<r1, p2, r2, p1>>, v0,
                                  DependsOn(<<<<r1, p2>>, <<p2, p1>>>>))))
           @@ (j2 :> Crawl(r2, v1, <<p1, p3>>))
           @@ (j3 :> Deps(r1, v1, <<p3, p1>>))

(* r1 submits a document without r2 and its package p1, whose requirement   *)
(* is being recorded, while r2 is crawled with p1.                          *)
Removal == (j1 :> Sbom(r1, Payload("bare", 1, <<r1, p2>>, v0, DependsOn(<<<<r1, p2>>>>))))
           @@ (j2 :> Crawl(r2, v1, <<p1>>)) @@ (j3 :> Deps(r1, v1, <<p1>>))

Scenario(asked, puts, found, linked) ==
  [asked |-> asked, puts |-> puts, filebase |-> puts = <<>>, vertices |-> found, edges |-> linked]
Shared ==
  {Scenario(Sboms, Puts, Submitted, <<3, 4>> :> Shadow), Scenario(Sboms, Puts, New, <<1, 2>> :> Shadow),
   Scenario(Writers, <<>>, Dependency, Targeted), Scenario(Writers, <<>>, Repository, Targeted),
   Scenario(Writers, <<>>, Rest, Mixed),
   Scenario(Removal, <<>>, Rest @@ (2 :> Vert("repo", r2, v0, {})), <<1, 2>> :> Shadow)}

(* r1 submits a document that lists its own package while it is crawled.    *)
Own == Payload("bare", 1, <<r1, p1>>, v0, DependsOn(<<<<r1, p1>>>>))
OwnPackage == (j1 :> Sbom(r1, Own)) @@ (j2 :> Crawl(r1, v1, <<p1>>))
Monorepo ==
  {Scenario(OwnPackage, <<>>, (1 :> Vert("repo", r1, v0, {})) @@ (2 :> Vert("external", p1, v0, {})), <<>>)}
==============================================================================
