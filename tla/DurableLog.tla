------------------------------ MODULE DurableLog ------------------------------
(***************************************************************************)
(* What EveDB promises of its transaction log, with no files in sight.     *)
(*                                                                         *)
(* A write is acknowledged as a whole.  When the handle stops (a crash, or *)
(* an I/O error that poisons it), everything acknowledged survives; of the *)
(* group that was being written, some prefix survives, decided when the    *)
(* database is opened again and never revised.                             *)
(***************************************************************************)
EXTENDS Naturals, Sequences, SequencesExt

VARIABLES
    log,       \* committed transactions, in commit order
    pending,   \* the group being written
    up         \* the handle accepts operations

vars == <<log, pending, up>>

Init == log = <<>> /\ pending = <<>> /\ up = TRUE

Write ==
    /\ up /\ pending = <<>>
    /\ pending' \in Seq(Nat) \ {<<>>}
    /\ ToSet(pending') \intersect ToSet(log) = {}
    /\ UNCHANGED <<log, up>>

Acknowledge ==
    /\ up /\ pending # <<>>
    /\ log' = log \o pending
    /\ pending' = <<>>
    /\ UNCHANGED up

Stop == up /\ up' = FALSE /\ UNCHANGED <<log, pending>>

Reopen ==
    /\ ~up /\ up' = TRUE
    /\ \E n \in 0..Len(pending) : log' = log \o SubSeq(pending, 1, n)
    /\ pending' = <<>>

Next == Write \/ Acknowledge \/ Stop \/ Reopen

Spec == Init /\ [][Next]_vars
=============================================================================
