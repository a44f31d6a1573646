-------------------------- MODULE MCMemoriaReview --------------------------
(* Small instances of MemoriaReview for TLC. *)
EXTENDS MemoriaReview, TLC

CONSTANTS c1, c2

\* Command slots are interchangeable; cards are not, their ids are ordered.
Symmetry == Permutations({c1, c2})
=============================================================================
