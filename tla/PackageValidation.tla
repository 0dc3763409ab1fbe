------------------------- MODULE PackageValidation -------------------------
(* The verdict on a package of evidence: a directory with evidence.json,       *)
(* evidence_manifest.json, a marker and the files of the manifest. A package   *)
(* is                                                                          *)
(*   place     where the directory lies: "inside", "outside", "link"           *)
(*   evidence, manifest                                                        *)
(*             the two documents, see below                                    *)
(*   marker    whether .evidence-ready is there                                *)
(*   disk      the other files, as functions from paths to their kind, size    *)
(*             and sum                                                         *)
(* A document has a form ("absent", "broken", "json"), the violation of its    *)
(* schema (None if there is none), the key it claims (package and revision),   *)
(* the other fields both must share, the manifest sum it claims, its status    *)
(* and its privacy check. evidence has also level, items, reasons (of a manual *)
(* review) and rejections; manifest has its files, in their order, and its own  *)
(* sum.                                                                        *)
EXTENDS Naturals, Sequences, SequencesExt

CONSTANT None

Report(bad, code) == IF bad THEN {code} ELSE {}

Boundary(p) == Report(p.place # "inside", "PATH_TRAVERSAL")

\* A rejected package passes; a marker is needed for a ready one and for no other.
PublicationGate(p) ==
  LET statuses == {d.status : d \in {e \in {p.evidence, p.manifest} : e.form = "json"}}
  IN  Report(p.evidence.form = "absent", "EVIDENCE_MISSING")
      \cup Report(p.manifest.form = "absent", "MANIFEST_MISSING")
      \cup Report("broken" \in {p.evidence.form, p.manifest.form}, "INVALID_JSON")
      \cup Report("staging" \in statuses, "PACKAGE_NOT_READY")
      \cup Report("ready" \in statuses /\ ~p.marker, "PACKAGE_NOT_READY")
      \cup Report(p.marker /\ statuses # {} /\ "ready" \notin statuses, "PACKAGE_NOT_READY")

\* _check_level_and_rejection, among the other rules of the models.
SchemaReport(p) ==
  LET e == p.evidence
  IN  Report(e.schema # None, e.schema) \cup Report(p.manifest.schema # None, p.manifest.schema)
      \cup Report(e.level = "sufficient" /\ e.items = {}, "SCHEMA_INVALID")
      \cup Report((e.status = "rejected") # (e.rejections # {}), "SCHEMA_INVALID")

CrossFile(p) ==
  LET e == p.evidence
      m == p.manifest
  IN  Report(\/ e.key # m.key \/ e.shared # m.shared
             \/ e.claimed # m.claimed \/ e.status # m.status
             \/ e.privacy # m.privacy, "CROSS_FILE_MISMATCH")

ManifestHash(p) == Report(p.manifest.sum # p.evidence.claimed, "HASH_MISMATCH")

\* Only a plain file under one name can be told from another.
Plain(file) == file.kind = "plain"

FileIntegrity(p, f) ==
  IF f.path \notin DOMAIN p.disk THEN {"FILE_MISSING"}
  ELSE IF ~Plain(p.disk[f.path]) THEN {"UNSUPPORTED_FILE_ROLE"}
  ELSE Report(p.disk[f.path].size # f.size, "FILE_SIZE_MISMATCH")
       \cup Report(p.disk[f.path].sum # f.sum, "HASH_MISMATCH")

Files(p) == ToSet(p.manifest.files)

Unregistered(p) ==
  LET others == DOMAIN p.disk \ {f.path : f \in Files(p)}
  IN  {IF Plain(p.disk[o]) THEN "UNREGISTERED_PACKAGE_FILE" ELSE "UNSUPPORTED_FILE_ROLE" :
       o \in others}

\* What the model may be shown comes from files it may be shown: the first of the
\* manifest with each of the names, which are not required to differ.
Named(p, id) == {n \in DOMAIN p.manifest.files : p.manifest.files[n].id = id}

\* Mutant of Unapproved: only whether the file exists is checked.
UnapprovedMissing(p, item) == \E id \in item.sources : Named(p, id) = {}
Unapproved(p, item) ==
  \E id \in item.sources : ~\E n \in Named(p, id) :
    p.manifest.files[n].input /\ \A m \in Named(p, id) : n <= m

PrivacyGate(p) ==
  LET e == p.evidence.privacy
  IN  Report(e.status # "passed" \/ p.manifest.privacy.status # "passed",
             "PRIVACY_CHECK_FAILED")
      \cup Report(e.identity \/ e.raw, "PRIVACY_CHECK_FAILED")
      \cup Report(\E f \in Files(p) : f.input /\ f.privacy # "passed",
                  "PRIVACY_CHECK_FAILED")
      \cup Report(\E i \in p.evidence.items : i.input /\ Unapproved(p, i),
                  "UNAPPROVED_MODEL_INPUT")

EvidenceLevel(p) ==
  Report(p.evidence.level = "sufficient" /\ p.evidence.reasons # {}, "SCHEMA_INVALID")

\* A stage is entered only if the one before has nothing to report; once both
\* documents have been read all the checks of the contents are made.
Issues(p) ==
  IF Boundary(p) # {} THEN Boundary(p)
  ELSE IF PublicationGate(p) # {} THEN PublicationGate(p)
  ELSE IF SchemaReport(p) # {} THEN SchemaReport(p)
  ELSE CrossFile(p) \cup ManifestHash(p)
       \cup (UNION {FileIntegrity(p, f) : f \in Files(p)})
       \cup Unregistered(p) \cup PrivacyGate(p) \cup EvidenceLevel(p)

\* An issue of any kind forbids both the registration and the use by a model.
Passes(p) == Issues(p) = {}

----------------------------------------------------------------------------

\* What the models of the documents let through, and what is on a disk: a
\* document that could be read has one of three states.
Formed(p) ==
  /\ \A d \in {p.evidence, p.manifest} :
       /\ d.form \in {"absent", "broken", "json"}
       /\ d.form = "json" => d.status \in {"staging", "ready", "rejected"}
  /\ p.marker \in BOOLEAN
  /\ p.evidence.privacy.identity \in BOOLEAN /\ p.evidence.privacy.raw \in BOOLEAN
  /\ \A f \in Files(p) : f.input \in BOOLEAN
  /\ \A i \in p.evidence.items : i.input \in BOOLEAN
  /\ \A path \in DOMAIN p.disk :
       LET file == p.disk[path]
       IN  file = [kind |-> file.kind, size |-> file.size, sum |-> file.sum]

\* What a package is to be, said of the directory as a whole: both documents agree
\* and are published, the files are those of the manifest, byte for byte, and
\* nothing private is in them.
Sound(p) ==
  /\ p.place = "inside"
  /\ \A d \in {p.evidence, p.manifest} :
       d.form = "json" /\ d.schema = None /\ d.status \in {"ready", "rejected"}
       /\ d.claimed = p.manifest.sum /\ d.privacy.status = "passed"
  /\ p.evidence.key = p.manifest.key
  /\ p.marker <=> p.evidence.status = "ready"
  /\ p.evidence.status = p.manifest.status
  /\ DOMAIN p.disk = {f.path : f \in Files(p)}
  /\ \A f \in Files(p) :
       /\ p.disk[f.path] = [kind |-> "plain", size |-> f.size, sum |-> f.sum]
       /\ f.input => f.privacy = "passed"
  /\ ~p.evidence.privacy.identity /\ ~p.evidence.privacy.raw
  /\ \A i \in p.evidence.items : i.input =>
       \A id \in i.sources : \E f \in Files(p) :
         f.id = id /\ f.input /\ f.privacy = "passed"
=============================================================================
