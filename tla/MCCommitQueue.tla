---------------------------- MODULE MCCommitQueue ----------------------------
(* Callers of module CommitQueue as model values. *)
EXTENDS CommitQueue

CONSTANTS c1, c2, c3
=============================================================================
