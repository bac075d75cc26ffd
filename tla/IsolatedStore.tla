---------------------------- MODULE IsolatedStore ----------------------------
(***************************************************************************)
(* What a shared database promises its transactions, with no sequence      *)
(* numbers, pins, revision table, groups or checkpoints in sight.          *)
(*                                                                         *)
(* A transaction works on the state that was visible when it began.  It    *)
(* commits only if nobody changed what it overwrites since, and then adds  *)
(* to the current state.  Several commits may become visible together, and *)
(* a commit is acknowledged only when it is visible.  Once the database    *)
(* has stopped, nothing is committed or made visible.                      *)
(***************************************************************************)
CONSTANTS Txns, Keys

VARIABLES
    status,     \* what became of each transaction
    view,       \* the state it began with
    writes,     \* the entities it has changed
    tables,     \* whether it has changed the table catalog
    data,       \* the state with every committed transaction
    visible,    \* the state new transactions begin with
    stopped     \* an uncertain outcome ended all commits

vars == <<status, view, writes, tables, data, visible, stopped>>

Empty == [writers |-> [k \in Keys |-> {}], catalog |-> {}]

Init ==
    /\ status = [t \in Txns |-> "idle"]
    /\ view = [t \in Txns |-> Empty]
    /\ writes = [t \in Txns |-> {}]
    /\ tables = [t \in Txns |-> FALSE]
    /\ data = Empty
    /\ visible = Empty
    /\ stopped = FALSE

Become(S, what) == status' = [t \in Txns |-> IF t \in S THEN what ELSE status[t]]

In(what) == {t \in Txns : status[t] = what}

Begin(t) ==
    /\ status[t] = "idle" /\ ~stopped
    /\ Become({t}, "open")
    /\ view' = [view EXCEPT ![t] = visible]
    /\ UNCHANGED <<writes, tables, data, visible, stopped>>

Write(t, k) ==
    /\ status[t] = "open" /\ ~stopped
    /\ writes' = [writes EXCEPT ![t] = @ \union {k}]
    /\ UNCHANGED <<status, view, tables, data, visible, stopped>>

Alter(t) ==
    /\ status[t] = "open" /\ ~stopped
    /\ tables' = [tables EXCEPT ![t] = TRUE]
    /\ UNCHANGED <<status, view, writes, data, visible, stopped>>

(* The current state still has what the transaction saw of everything it   *)
(* overwrites; the catalog every transaction reads.                        *)
Undisturbed(t) ==
    /\ \A k \in writes[t] : view[t].writers[k] = data.writers[k]
    /\ view[t].catalog = data.catalog

Commit(t) ==
    /\ status[t] = "open" /\ ~stopped
    /\ Undisturbed(t)
    /\ data' = [writers |-> [k \in Keys |-> data.writers[k] \union
                                            IF k \in writes[t] THEN {t} ELSE {}],
                catalog |-> data.catalog \union IF tables[t] THEN {t} ELSE {}]
    /\ Become({t}, "committed")
    /\ UNCHANGED <<view, writes, tables, visible, stopped>>

Reveal ==
    /\ ~stopped
    /\ visible' = data
    /\ UNCHANGED <<status, view, writes, tables, data, stopped>>

IsVisible(t) ==
    /\ \A k \in writes[t] : t \in visible.writers[k]
    /\ tables[t] => t \in visible.catalog

(* Commits are acknowledged, or a transaction that changed nothing.        *)
Acknowledge ==
    /\ \/ \E t \in In("open") :
             writes[t] = {} /\ ~tables[t] /\ Become({t}, "acknowledged")
       \/ /\ \A t \in In("committed") : IsVisible(t)
          /\ Become(In("committed"), "acknowledged")
    /\ UNCHANGED <<view, writes, tables, data, visible, stopped>>

(* Transactions end without effect: dropped, late, refused, in conflict, or *)
(* lost with the handle, which may stop at the same moment.                *)
Fail ==
    /\ \E S \in SUBSET In("open") : Become(S, "failed")
    /\ stopped' \in {stopped, TRUE}
    /\ UNCHANGED <<view, writes, tables, data, visible>>

Next ==
    \/ \E t \in Txns : Begin(t) \/ (\E k \in Keys : Write(t, k)) \/ Alter(t) \/ Commit(t)
    \/ Reveal \/ Acknowledge \/ Fail

Spec == Init /\ [][Next]_vars
==============================================================================
