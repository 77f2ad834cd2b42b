---------------------------- MODULE MCRegistryCrawl ----------------------------
(***************************************************************************)
(* Instances of RegistryCrawl for TLC.                                     *)
(***************************************************************************)
EXTENDS RegistryCrawl, TLC

CONSTANTS r1, r2, r3, r4, r5, P, Q, O, D, c1, c2, n1, d1, p1, m1, y1, x, y, z, s1, s2, Elsewhere

Needs(names) == [i \in DOMAIN names |-> [name |-> names[i], kind |-> "runtime"]]
Dev(name) == <<[name |-> name, kind |-> "dev"]>>

V1 == <<"semver", 1>>
V2 == <<"semver", 2>>
Trunk == <<"other", 3>>
Version(v, date, requires) == [version |-> v, date |-> date, requires |-> requires]

(* r1 publishes a crate and an npm package, r2 a crate and a Dart package    *)
(* whose home page is no repository.  The crates require two packages in     *)
(* opposite orders.  Two PHP packages: one of r2, one of nobody's.  r3       *)
(* publishes a Python package.  r4 belongs to no project, r5 to an abandoned *)
(* one; both depend on z.                                                    *)
Registry ==
     c1 :> [system |-> "CARGO", urls |-> <<r1, Elsewhere>>, latest |-> V2, downloads |-> 7,
            versions |-> <<Version(V1, 1, <<>>), Version(V2, 2, Needs(<<x, y>>) \o Dev(z))>>,
            dependents |-> <<Needs(<<c2>>) \o Dev(y), Needs(<<c2, z>>)>>]
  @@ c2 :> [system |-> "CARGO", urls |-> <<NoUrl, r2>>, latest |-> V1, downloads |-> 3,
            versions |-> <<Version(V1, 1, Needs(<<y, x>>))>>, dependents |-> <<<<>>>>]
  @@ n1 :> [system |-> "NPM", urls |-> <<r1, r1>>, latest |-> V1, downloads |-> 2,
            versions |-> <<Version(V1, 1, Needs(<<x>>)), Version(Trunk, 2, <<>>)>>,
            dependents |-> <<<<>>>>]
  @@ d1 :> [system |-> "DART", urls |-> <<Elsewhere, r2>>, latest |-> V1, downloads |-> None,
            versions |-> <<Version(V1, 0, <<>>), Version(NoVersion, 0, <<>>)>>,
            dependents |-> <<Needs(<<z>>), Needs(<<y, x>>)>>]
  @@ m1 :> [system |-> "COMPOSER", urls |-> <<r2>>, latest |-> V1, downloads |-> 4,
            versions |-> <<Version(Trunk, 3, Dev(x)), Version(V2, 2, Needs(<<z>>))>>, dependents |-> <<Needs(<<x>>)>>]
  @@ p1 :> [system |-> "COMPOSER", urls |-> <<NoUrl>>, latest |-> V1, downloads |-> 4,
            versions |-> <<>>, dependents |-> <<<<>>>>]
  @@ y1 :> [system |-> "PYPI", urls |-> <<NoUrl, r3>>, latest |-> V2, downloads |-> 5,
            versions |-> <<Version(V1, 1, Needs(<<z>>)), Version(V2, 2, Needs(<<y>>) \o <<[name |-> x, kind |-> "extra"]>>)>>,
            dependents |-> <<<<>>>>]

Work == 1 :> <<c1>> @@ 2 :> <<n1>> @@ 3 :> <<c2>> @@ 4 :> <<d1>> @@ 5 :> <<p1, m1>> @@ 6 :> <<y1>>
Bootstraps == {{1, 2, 3}, {1, 4}, {2, 5}, {3, 5}, {4, 5}, {4, 6}, {2, 3, 6}}
Before ==
  [downloads |-> r1 :> (c1 :> 1) @@ r2 :> <<>> @@ r3 :> <<>> @@ r4 :> <<>> @@ r5 :> <<>>,
   releases |-> r1 :> <<Release(c1, V1, 0)>> @@ r2 :> <<Release(d1, V1, 1)>> @@ r3 :> <<>> @@ r4 :> <<>> @@ r5 :> <<>>,
   externals |-> {z}, edges |-> {<<r3, r2>>, <<r3, z>>, <<r4, z>>, <<r5, z>>},
   scores |-> P :> Unknown @@ Q :> Unknown @@ O :> 5000 @@ D :> Unknown]
Owners == r1 :> P @@ r2 :> Q @@ r3 :> P @@ r4 :> None @@ r5 :> D
Statuses == P :> "live" @@ Q :> "in_dev" @@ O :> "live" @@ D :> "discontinued"

Popularity == r1 :> Unknown @@ r2 :> 1 @@ r3 :> 2 @@ r4 :> 2 @@ r5 :> Unknown
Copies == r1 :> Unknown @@ r2 :> 3 @@ r3 :> Unknown @@ r4 :> Unknown @@ r5 :> Unknown
===============================================================================
