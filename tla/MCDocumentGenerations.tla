----------------------- MODULE MCDocumentGenerations -----------------------
(* Small instances of DocumentGenerations for TLC. *)
EXTENDS DocumentGenerations, TLC

Symmetry == Permutations(Stores) \cup Permutations(Sources) \cup Permutations(Contents)
=============================================================================
