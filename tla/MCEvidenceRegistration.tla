----------------------- MODULE MCEvidenceRegistration -----------------------
EXTENDS EvidenceRegistration

CONSTANTS k1, k2, s1, s2, v1, v2, c1, c2

Passed == [status |-> "passed", identity |-> FALSE, raw |-> FALSE]

Document(key, sum) ==
  [form |-> "json", schema |-> None, key |-> key, shared |-> "same", claimed |-> sum,
   status |-> "ready", privacy |-> Passed]

Plans == [id |-> "f1", path |-> "plan", size |-> 1, sum |-> "a", input |-> TRUE, privacy |-> "passed"]
Notes == [id |-> "f2", path |-> "notes", size |-> 1, sum |-> "b", input |-> FALSE, privacy |-> "passed"]

File(f) == [kind |-> "plain", size |-> f.size, sum |-> f.sum]

\* A package of two files, one of which a model may be shown.
Package(key, sum) ==
  [place |-> "inside", marker |-> TRUE,
   evidence |-> [items |-> {[input |-> TRUE, sources |-> {"f1"}], [input |-> FALSE, sources |-> {"f2"}]},
                 level |-> "sufficient", reasons |-> {}, rejections |-> {}] @@ Document(key, sum),
   manifest |-> [files |-> <<Plans, Notes>>, sum |-> sum] @@ Document(key, sum),
   disk |-> ("plan" :> File(Plans)) @@ ("notes" :> File(Notes))]

P == Package(k1, s1)

\* Packages of the same name and manifest each of which one thing is wrong with.
Faulty ==
  {[P EXCEPT !.place = "outside"], [P EXCEPT !.marker = FALSE],
   [P EXCEPT !.evidence.form = "absent"], [P EXCEPT !.manifest.form = "broken"],
   [P EXCEPT !.evidence.schema = "SCHEMA_INVALID"], [P EXCEPT !.manifest.status = "staging"],
   [P EXCEPT !.evidence.shared = "other"], [P EXCEPT !.manifest.key = k2],
   [P EXCEPT !.evidence.claimed = s2], [P EXCEPT !.manifest.sum = s2],
   [P EXCEPT !.disk = "plan" :> File(Plans)],
   [P EXCEPT !.disk["plan"].kind = "link"], [P EXCEPT !.disk["plan"].sum = "c"],
   [P EXCEPT !.disk["notes"].size = 2], [P EXCEPT !.disk = @ @@ "more" :> File(Notes)],
   [P EXCEPT !.evidence.privacy.raw = TRUE, !.manifest.privacy.raw = TRUE],
   [P EXCEPT !.manifest.files[1].privacy = "failed"], [P EXCEPT !.manifest.files[2].id = "f1", !.manifest.files[1].input = FALSE],
   [P EXCEPT !.evidence.items = {[input |-> TRUE, sources |-> {"f1", "f2"}]}],
   [P EXCEPT !.evidence.items = {[input |-> TRUE, sources |-> {"f3"}]}],
   [P EXCEPT !.evidence.reasons = {"blurred"}]}

\* One name under two manifests, and a rejected package.
Good ==
  {P, Package(k1, s2),
   [Package(k2, s2) EXCEPT !.marker = FALSE, !.evidence.status = "rejected",
      !.evidence.rejections = {"blank"}, !.manifest.status = "rejected"]}

MCPackages == Faulty \cup Good

MCVersions == {v1, v2}
MCCallers == {c1, c2}
Symmetry == Permutations(MCCallers) \cup Permutations(MCVersions)
=============================================================================
