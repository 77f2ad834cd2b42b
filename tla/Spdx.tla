--------------------------------- MODULE Spdx ---------------------------------
(***************************************************************************)
(* SPDX documents as the ingestion reads them (ingestion/spdx.py), the     *)
(* artifacts they are kept in (storage/artifacts.py) and what the graph    *)
(* takes from them (ingestion/persist.py).                                 *)
(*                                                                         *)
(* A payload is [form, doc]: a bare document, one in GitHub's envelope or  *)
(* garbage that is no JSON object.  doc holds the fields the code reads,   *)
(* "stamp" for those that change with every submission, and "valid" for    *)
(* the verdict of spdx-tools.                                              *)
(***************************************************************************)
EXTENDS Naturals, Sequences, FiniteSets

CONSTANTS
  Lower,        \* str.lower of a package name
  NoVersion,    \* the empty string
  NoAssertion,  \* NOASSERTION, NONE or absent
  Document      \* the id SPDXRef-DOCUMENT

Elements(seq) == {seq[i] : i \in DOMAIN seq}

(* The items of seq in the order of a stable sort by key: which is the n-th *)
(* one of its key.                                                          *)
ByKey(seq, key(_)) ==
  {<<Cardinality({h \in DOMAIN seq : h <= i /\ key(seq[h]) = key(seq[i])}), seq[i]>> : i \in DOMAIN seq}

(* _decode_unwrapped_sbom: the envelope is stripped.                        *)
Unwrapped(raw) == [raw EXCEPT !.form = IF @ = "envelope" THEN "bare" ELSE @]
Valid(raw) == raw.form # "garbage" /\ raw.doc.valid

(* Mutant: relationships are left out of the hash. *)
HashOfPackages(raw) ==
  IF "packages" \notin DOMAIN raw.doc THEN raw
  ELSE [name |-> raw.doc.name, packages |-> ByKey(raw.doc.packages, LAMBDA p : p.id)]

(* What the semantic hash tells apart: neither the order of packages and    *)
(* relationships, nor the envelope, nor the stamp.                          *)
SemanticHash(raw) ==
  IF "packages" \notin DOMAIN raw.doc THEN raw
  ELSE [name |-> raw.doc.name,
        packages |-> ByKey(raw.doc.packages, LAMBDA p : p.id),
        relationships |-> ByKey(raw.doc.relationships, LAMBDA r : <<r.from, r.to, r.type>>)]

(* The hash under which a payload is stored, the raw one if it is invalid.  *)
ContentHash(raw) == IF Valid(raw) THEN SemanticHash(raw) ELSE raw

(* _extract_dependency_relationships, by their places in the document, and  *)
(* _extract_root_spdx_ids.                                                  *)
Dependencies(doc) ==
  {i \in DOMAIN doc.relationships :
     doc.relationships[i].type = "DEPENDS_ON" /\ doc.relationships[i].to # NoAssertion}
Roots(doc) ==
  {r.to : r \in {s \in Elements(doc.relationships) :
                   s.type = "DESCRIBES" /\ s.from = Document /\ s.to # NoAssertion}}

-----------------------------------------------------------------------------
(* Artifacts: puts is the sequence of payloads stored so far.               *)

(* store_artifact and read_artifact: the object store is addressed by       *)
(* content; the local path is the content hash, and a later payload with    *)
(* the same hash replaces the file.                                         *)
Artifact(puts, raw, filebase) ==
  IF filebase THEN Unwrapped(raw)
  ELSE LET same == {i \in DOMAIN puts : ContentHash(puts[i]) = ContentHash(raw)}
       IN Unwrapped(puts[CHOOSE i \in same : \A h \in same : h <= i])

-----------------------------------------------------------------------------
(* Names and versions of packages.                                          *)

(* _purl_from_external_refs: the first package URL.                         *)
Purls(pkg) == SelectSeq(pkg.refs, LAMBDA r : r.type = "purl")

(* canonical_id_for_spdx_package: the package URL without its version, else *)
(* the lower-cased name.                                                    *)
CanonicalId(pkg) == IF Purls(pkg) = <<>> THEN Lower[pkg.name] ELSE Head(Purls(pkg)).base

VersionOf(pkg) == IF pkg.version = NoAssertion THEN NoVersion ELSE pkg.version

(* _upsert_sbom_vertices: the roots and the packages that bear its name are *)
(* the submitting repository; of packages with one canonical id the last    *)
(* one gives the version.                                                   *)
NameOf(repo, doc, id) ==
  IF id \in Roots(doc) THEN repo
  ELSE CanonicalId(CHOOSE p \in Elements(doc.packages) : p.id = id)
Known(doc) == Roots(doc) \cup {p.id : p \in Elements(doc.packages)}

Listed(doc) == [i \in DOMAIN doc.packages |-> CanonicalId(doc.packages[i])]
LatestVersion(repo, doc, n) ==
  LET bearing == {i \in DOMAIN doc.packages : n # repo /\ Listed(doc)[i] = n}
  IN IF bearing = {} THEN NoVersion
     ELSE VersionOf(doc.packages[CHOOSE i \in bearing : \A h \in bearing : h <= i])

(* The dependencies between elements that have a vertex, as _plan_sbom_edges*)
(* resolves them: <<place, in, out>>.                                       *)
Relations(repo, doc) ==
  LET at(i) == doc.relationships[i]
  IN {<<i, NameOf(repo, doc, at(i).from), NameOf(repo, doc, at(i).to)>> :
        i \in {n \in Dependencies(doc) : {at(n).from, at(n).to} \subseteq Known(doc)}}

(* A document without any dependency relationship is a flat list.           *)
Flat(doc) == Dependencies(doc) = {}

(* What a document declares of repo: pairs of canonical ids.                *)
Declared(repo, doc) ==
  {p \in (IF Flat(doc) THEN {repo} \X Elements(Listed(doc))
          ELSE {<<r[2], r[3]>> : r \in Relations(repo, doc)}) : p[1] # p[2]}
=============================================================================
