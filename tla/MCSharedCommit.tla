--------------------------- MODULE MCSharedCommit ---------------------------
(* Small instances of SharedCommit for TLC. *)
EXTENDS SharedCommit, TLC

Symmetry == Permutations(Txns) \union Permutations(Keys)
=============================================================================
