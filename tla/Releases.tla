------------------------------- MODULE Releases -------------------------------
(***************************************************************************)
(* Lists of releases (db_models/release.py).  Dates are numbers, 0 is the  *)
(* empty string; versions are what their spelling resembles and a number.  *)
(***************************************************************************)
EXTENDS Naturals, Sequences, SequencesExt

CONSTANT NewestWindow   \* the releases preferred_latest_version looks at

IsList(list) == list \in Seq(ToSet(list))

NoVersion == <<"empty", 0>>
Release(purl, version, date) == [purl |-> purl, version |-> version, date |-> date]
Key(release) == <<release.purl, release.version>>

(* sorted is stable: the k-th is the one that k - 1 come before.            *)
SortedReleasesDesc(releases) ==
  LET Before(i, j) == \/ releases[i].date > releases[j].date
                      \/ releases[i].date = releases[j].date /\ i < j
      At(k) == CHOOSE i \in DOMAIN releases : Cardinality({j \in DOMAIN releases : Before(j, i)}) = k - 1
  IN [k \in DOMAIN releases |-> releases[At(k)]]

(* A dictionary in the order of its insertions.                             *)
Put(dict, release, replaceable) ==
  LET same == {i \in DOMAIN dict : Key(dict[i]) = Key(release)}
  IN IF same = {} THEN Append(dict, release)
     ELSE [i \in DOMAIN dict |-> IF i \in same \cap replaceable THEN release ELSE dict[i]]

(* The last of the stored ones stays, a date replaces a missing one.         *)
Dictionary(existing) == FoldLeft(LAMBDA d, r : Put(d, r, DOMAIN d), <<>>, existing)
Updated(stored, incoming) ==
  LET Undated(d, r) == {i \in DOMAIN d : d[i].date = 0 /\ r.date # 0}
  IN FoldLeft(LAMBDA d, r : Put(d, r, Undated(d, r)), stored, incoming)

(* Mutant: releases that are known already are listed twice. *)
Concatenated(existing, incoming) == SortedReleasesDesc(existing \o incoming)
MergeReleases(existing, incoming) ==
  SortedReleasesDesc(Updated(Dictionary(existing), incoming))

PreferredLatestVersion(releases) ==
  LET window == {i \in DOMAIN releases : i <= NewestWindow}
      First(kinds) == {i \in window : /\ releases[i].version[1] \in kinds
                                      /\ \A j \in window : releases[j].version[1] \in kinds => i <= j}
      preferred == IF First({"semver"}) # {} THEN First({"semver"})
                   ELSE IF First({"commit"}) # {} THEN First({"commit"})
                   ELSE First({"other"})
  IN IF preferred = {} THEN NoVersion ELSE releases[CHOOSE i \in preferred : TRUE].version
===============================================================================
