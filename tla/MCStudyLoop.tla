---------------------------- MODULE MCStudyLoop ----------------------------
(* Small instances of StudyLoop for TLC. *)
EXTENDS StudyLoop, TLC

CONSTANTS k1, k2, c1, c2

\* Chunks and command slots are interchangeable in the safety properties.
Symmetry == Permutations({k1, k2}) \union Permutations({c1, c2})
=============================================================================
