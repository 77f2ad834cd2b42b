--------------------------- MODULE MCPackageCrawl ---------------------------
(***************************************************************************)
(* Instances of PackageCrawl for TLC.                                      *)
(***************************************************************************)
EXTENDS PackageCrawl

CONSTANTS s1, s2, d1, d2, g1, A, B, E, o1, o2, r1, r2, r3, Malformed

(* A is listed twice and has applications in two pools, the later one with  *)
(* a link to r1; B is an application without a record, patched by an        *)
(* override to one repository; E is a project without a crawl.              *)
Social(name, value) == [name |-> name, value |-> value]
Record(id, link, category) ==
  [id |-> id, category |-> category, integration |-> "Mainnet",
   socials |-> <<Social("Website", Invalid), Social("GitHub", None), Social("GitHub", link)>>]
App(id, code) == [project |-> id, code |-> code, tranche |-> 100]
Projects == <<Record(A, Invalid, "Wallets"), Record(A, <<o1, None>>, "SDKs"),
              Record(E, <<o1, None>>, "Education & Community")>>
Rounds == <<<<App(A, <<o2, None>>), App(B, None)>>, <<App(A, <<o1, r1>>), App(B, Invalid)>>>>
Patches == <<B :> [owner |-> o1, repos |-> <<r2>>]>>
Publics == o1 :> {r1, r2} @@ o2 :> {r3}

a == <<"NPM", "a">>
b == <<"NPM", "b">>
c == <<"NPM", "c">>
d == <<"NUGET", "d">>
x == <<"NPM", "x">>
y == <<"NPM", "y">>

(* r1 publishes a, r2 has a manifest of b, r3 publishes c and d, of which    *)
(* its newest release leaves d out.                                         *)
MappedRows == r1 :> <<a, a>> @@ r2 :> <<>> @@ r3 :> <<c, d>>
Manifest(package, text) ==
  [system |-> package[1], name |-> package[2], text |-> text, parseable |-> TRUE, skipped |-> FALSE]
ManifestRows == r1 :> <<>> @@ r3 :> <<>>
                @@ r2 :> <<Manifest(b, "named"), Manifest(x, "unpublished")>>

V(version, default, date) == [version |-> version, default |-> default, date |-> date]
Row(package, kind) == [name |-> package[2], kind |-> kind]
VersionRows == a :> <<V("1", TRUE, 1), V("2", FALSE, 2)>> @@ b :> <<V("1", TRUE, 1), V("2", TRUE, 3)>>
               @@ c :> <<V("1", TRUE, 2)>> @@ d :> <<V("1", FALSE, 1)>>
Acyclic == a :> ("1" :> <<Row(b, "runtime"), Row(x, "runtime"), Row(y, "dev")>>
                 @@ "2" :> <<Row(y, "runtime")>>)
           @@ b :> ("2" :> <<Row(c, "runtime"), Row(x, "runtime")>>) @@ c :> <<>> @@ d :> <<>>
(* Of the registries only that of c answers, with two packages that other   *)
(* repositories release: a, which its crawl absorbs, and b, which none does *)
(* because its purl is encoded.                                             *)
OneListed == c :> {a, b}
ScopedB == {b}
OneByOne == {{A, E}, {B}}
QueueOfSlot == s1 :> "opengrants" @@ s2 :> "opengrants" @@ d1 :> "package-deps"
               @@ d2 :> "package-deps" @@ g1 :> "registry-crawl"

ASSUME InstanceSupposes == NamesAreBare
=============================================================================
