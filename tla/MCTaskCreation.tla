--------------------------- MODULE MCTaskCreation ---------------------------
(* TaskCreation for TLC: two calls at a time over two revisions of a package.   *)
EXTENDS TaskCreation, TLC

TwoRevisions == {<<"evidence_pkg_001", n>> : n \in {1, 2}}
MCFindings == {"limited", "manual_only"}

Symmetry == Permutations(Callers)
=============================================================================
