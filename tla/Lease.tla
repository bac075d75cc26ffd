--------------------------------- MODULE Lease ---------------------------------
(***************************************************************************)
(* Leases on snapshots and transactions: the mutex around the value, the   *)
(* deadlines, the reaper that takes back what callers forgot, and the      *)
(* permits that admission counts until the last reference is gone.         *)
(*                                                                         *)
(* Clocks are timers that run down: `left` to the lease's deadline, `idle` *)
(* to its idle limit, `work` to the limit of the running operation.  A     *)
(* snapshot has no idle limit and its operations run with a reference of   *)
(* their own; a transaction's operations hold the lease's mutex.           *)
(***************************************************************************)
EXTENDS Naturals, FiniteSets

CONSTANTS
    Handles,           \* snapshots and transactions callers open
    Txns,              \* those of them that are transactions
    MaxSnapshots,      \* limits.max_snapshots
    MaxTransactions,   \* limits.max_transactions
    Lifetime,          \* timeouts.snapshot and timeouts.transaction
    IdleLimit,         \* timeouts.idle_transaction
    OperationLimit     \* timeouts.operation

ASSUME LeaseAssumption ==
    /\ IsFiniteSet(Handles) /\ Txns \subseteq Handles
    /\ MaxSnapshots \in Nat \ {0} /\ MaxTransactions \in Nat \ {0}
    /\ Lifetime \in Nat \ {0} /\ IdleLimit \in Nat \ {0} /\ OperationLimit \in Nat \ {0}

VARIABLES
    owned,       \* handles a caller has and has not dropped
    value,       \* leases whose value is there
    busy,        \* transactions whose mutex a running operation holds
    reading,     \* snapshots an operation reads through a reference of its own
    prepared,    \* transactions whose value a commit took
    entries,     \* Reaper.entries
    left, idle, work,
    snapshots,   \* ResourceUsage.snapshots
    transactions \* ResourceUsage.transactions

timers == <<left, idle, work>>
usage == <<snapshots, transactions>>
vars == <<owned, value, busy, reading, prepared, entries, timers, usage>>

-----------------------------------------------------------------------------
Init ==
    /\ owned = {} /\ value = {} /\ busy = {} /\ reading = {} /\ prepared = {} /\ entries = {}
    /\ left = [h \in Handles |-> 0]
    /\ idle = [h \in Handles |-> 0]
    /\ work = [h \in Handles |-> 0]
    /\ snapshots = 0
    /\ transactions = 0

(* LeaseState.expired.                                                     *)
Expired(h) == left[h] = 0 \/ (h \in Txns /\ idle[h] = 0)

(* Permit's drop, when the last references to some states go.              *)
Free(gone) ==
    /\ snapshots' = snapshots - Cardinality(gone)
    /\ transactions' = transactions - Cardinality(gone \intersect Txns)

(* Leases give up their value; a reading operation still has its own.      *)
GiveUp(gone) ==
    /\ value' = value \ gone
    /\ Free(gone \ reading)

(* Resources.snapshot and, for a transaction, Resources.transaction.       *)
Admit(h) ==
    /\ snapshots < MaxSnapshots
    /\ h \in Txns => transactions < MaxTransactions
    /\ snapshots' = snapshots + 1
    /\ transactions' = IF h \in Txns THEN transactions + 1 ELSE transactions

(* Reader.pin and Transaction.shared: permits, then the lease, registered  *)
(* with the reaper, which forgets dropped ones.                            *)
Open(h) ==
    /\ h \notin owned
    /\ Admit(h)
    /\ owned' = owned \union {h}
    /\ value' = value \union {h}
    /\ entries' = (entries \intersect owned) \union {h}
    /\ left' = [left EXCEPT ![h] = Lifetime]
    /\ idle' = [idle EXCEPT ![h] = IF h \in Txns THEN IdleLimit ELSE 0]
    /\ UNCHANGED <<busy, reading, prepared, work>>

(* LeaseState.with on an expired lease.                                    *)
CallTooLate(h) ==
    /\ h \in value \ busy
    /\ Expired(h)
    /\ GiveUp({h})
    /\ UNCHANGED <<owned, busy, reading, prepared, entries, timers>>

(* A snapshot's operation copies the reference and leaves the mutex; how   *)
(* late it ends only changes what it answers.                              *)
BeginRead(h) ==
    /\ h \in value \ (Txns \union reading)
    /\ ~Expired(h)
    /\ reading' = reading \union {h}
    /\ work' = [work EXCEPT ![h] = OperationLimit]
    /\ UNCHANGED <<owned, value, busy, prepared, entries, left, idle, usage>>

EndRead(h) ==
    /\ h \in reading
    /\ reading' = reading \ {h}
    /\ work' = [work EXCEPT ![h] = 0]
    /\ IF h \in value THEN UNCHANGED usage ELSE Free({h})
    /\ UNCHANGED <<owned, value, busy, prepared, entries, left, idle>>

(* A transaction's operation runs inside the mutex ...                     *)
BeginWork(h) ==
    /\ h \in (value \intersect Txns) \ busy
    /\ ~Expired(h)
    /\ busy' = busy \union {h}
    /\ work' = [work EXCEPT ![h] = OperationLimit]
    /\ UNCHANGED <<owned, value, reading, prepared, entries, left, idle, usage>>

(* ... and one that ends too late loses the transaction.                   *)
EndWork(h) ==
    /\ h \in busy
    /\ busy' = busy \ {h}
    /\ work' = [work EXCEPT ![h] = 0]
    /\ IF left[h] = 0 \/ work[h] = 0
       THEN /\ GiveUp({h})
            /\ UNCHANGED idle
       ELSE /\ idle' = [idle EXCEPT ![h] = IdleLimit]
            /\ UNCHANGED <<value, usage>>
    /\ UNCHANGED <<owned, reading, prepared, entries, left>>

(* LeaseState.take by a commit; the batch then holds pin and permits.      *)
Take(h) ==
    /\ h \in (value \intersect Txns) \ busy
    /\ ~Expired(h)
    /\ value' = value \ {h}
    /\ prepared' = prepared \union {h}
    /\ UNCHANGED <<owned, busy, reading, entries, timers, usage>>

(* The commit ends, with whatever result, and with it the handle.          *)
Resolve(h) ==
    /\ h \in prepared
    /\ prepared' = prepared \ {h}
    /\ owned' = owned \ {h}
    /\ Free({h})
    /\ UNCHANGED <<value, busy, reading, entries, timers>>

(* The last handle is dropped: the value goes at once, even while the      *)
(* reaper holds a reference to the lease.                                  *)
Drop(h) ==
    /\ h \in owned \ (busy \union reading \union prepared)
    /\ owned' = owned \ {h}
    /\ GiveUp({h} \intersect value)
    /\ UNCHANGED <<busy, reading, prepared, entries, timers>>

(* Mutants of Due: the mutex is not asked for, and a transaction whose     *)
(* deadline passed is left to its idle limit.                              *)
DueBusyToo == {h \in entries \intersect value : Expired(h)}
DueIdleOnly == {h \in (entries \intersect value \intersect Txns) \ busy : idle[h] = 0}

(* Leases whose mutex is free and whose time has come.                     *)
Due == {h \in (entries \intersect value) \ busy : Expired(h)}

(* Reaper.sweep: expire on every entry, dropped leases are forgotten.      *)
Sweep ==
    /\ GiveUp(Due)
    /\ entries' = entries \intersect owned
    /\ UNCHANGED <<owned, busy, reading, prepared, timers>>

Tick ==
    LET run(timer) == [h \in Handles |-> IF timer[h] = 0 THEN 0 ELSE timer[h] - 1]
    IN
    /\ left' = run(left)
    /\ idle' = run(idle)
    /\ work' = run(work)
    /\ UNCHANGED <<owned, value, busy, reading, prepared, entries, usage>>

Next ==
    \/ \E h \in Handles : \/ Open(h) \/ CallTooLate(h) \/ BeginRead(h) \/ EndRead(h)
                          \/ BeginWork(h) \/ EndWork(h) \/ Take(h) \/ Resolve(h)
                          \/ Drop(h)
    \/ Sweep
    \/ Tick

Spec == Init /\ [][Next]_vars

-----------------------------------------------------------------------------
(* Who can still reach a state: its lease, an operation inside the lease,  *)
(* an operation with a reference, a commit.                                *)
Held == value \union busy \union reading \union prepared

(* Admission counts exactly the states still in use: a permit is not lost  *)
(* and not given back under an operation that uses the state, whether the  *)
(* lease was dropped, taken, outlived or revoked (Permit's drop, expire).  *)
UsageIsExact ==
    /\ snapshots = Cardinality(Held)
    /\ transactions = Cardinality(Held \intersect Txns)

(* A state held past its deadline is let go, though its caller never       *)
(* returns: admission at its limit opens again (Reaper, Timeouts.snapshot  *)
(* and Timeouts.transaction).                                              *)
AbandonedStatesGo ==
    \A h \in Handles : (h \in Held /\ left[h] = 0) ~> (h \notin Held)
===============================================================================
