----------------------------- MODULE SharedCommit -----------------------------
(***************************************************************************)
(* Snapshot transactions over one shared EveDB: pinning a committed view,  *)
(* staging, first-committer-wins validation against the revision table,    *)
(* the group's WAL flush, publication, and the pruning of the revision     *)
(* table when a checkpoint is installed.                                   *)
(*                                                                         *)
(* Data are abstracted to who wrote them: an entity's stored history is    *)
(* the set of transactions whose operations it contains, and so is the     *)
(* table catalog.  The FIFO order of the commit queue, its limits and the  *)
(* hand-over of leadership are the subject of module CommitQueue; here a   *)
(* leader may claim any group of waiting transactions in any order.        *)
(***************************************************************************)
EXTENDS Integers, FiniteSets

CONSTANTS
    Txns,          \* transaction handles; each is used once
    Keys,          \* (table, entity) pairs
    CatalogTxns,   \* the transactions that may create, rename or alter a table
    MaxWal         \* max_uncheckpointed_wal_bytes, in frames

ASSUME CatalogTxnsAssumption == CatalogTxns \subseteq Txns
ASSUME MaxWalAssumption == MaxWal \in Nat

VARIABLES
    phase,            \* where each transaction's state lives (see Phases)
    base,             \* Staging.base.lsn, the pinned commit sequence
    snap,             \* the pinned view
    keys,             \* keys of Prepared.staged
    ddl,              \* the batch holds a table operation
    late,             \* its commit deadline has passed
    rank,             \* its position among the accepted batches of its group
    outcome,          \* what commit() returns
    seq,              \* the commit sequence given at publication, 0 if none
    lsn, store,       \* Coordinator.database.state
    published,        \* ReaderShared.current
    revisions,        \* Coordinator.revisions, 0 where there is no entry
    catalogRevision,  \* Coordinator.catalog_revision
    coord,            \* what the group leader is doing
    accepted,         \* length of the leader's vector of accepted batches
    building,         \* Database.checkpoint_tail.is_some()
    captured,         \* lsn of the state the running checkpoint job froze
    rootLsn,          \* lsn of the installed root
    poisoned          \* ReadState.poisoned

txVars == <<phase, base, snap, keys, ddl, late, rank, outcome, seq>>
dbVars == <<lsn, store, published, revisions, catalogRevision, poisoned>>
jobVars == <<building, captured, rootLsn>>
vars == <<txVars, dbVars, coord, accepted, jobVars>>

-----------------------------------------------------------------------------
(* "pinning" holds the read guard of ReaderShared.current and is not yet in
   the pin registry; "open" stages; "queued" waits in the commit queue;
   "claimed" and "accepted" belong to the leader's group; "resolved" has an
   outcome that is not yet delivered.                                       *)
Phases == {"idle", "pinning", "open", "queued", "claimed", "accepted",
           "resolved", "done"}

Outcomes == {"none", "ok", "aborted", "expired", "conflict", "limit", "io",
             "unknown", "recovery"}

CoordStates == {"free", "validating", "syncing", "publishing", "recording",
                "finishing"}

View == [writers : [Keys -> SUBSET Txns], catalog : SUBSET Txns]

(* The commit mutex is released before the results are handed out. *)
CoordinatorFree == coord \in {"free", "finishing"}

(* A pin is registered from Reader::pin until the Staging or Prepared value
   that carries it is dropped.                                              *)
LivePins == {t \in Txns : phase[t] \in {"open", "queued", "claimed", "accepted"}}

(* Mutant: the pin is registered after the read lock is released. *)
NoReadGuardTaken == TRUE

(* Publication takes the write lock of ReaderShared.current. *)
NoReadGuard == \A t \in Txns : phase[t] # "pinning"

Init ==
    /\ phase = [t \in Txns |-> "idle"]
    /\ base = [t \in Txns |-> 0]
    /\ snap = [t \in Txns |-> [writers |-> [k \in Keys |-> {}], catalog |-> {}]]
    /\ keys = [t \in Txns |-> {}]
    /\ ddl = [t \in Txns |-> FALSE]
    /\ late = [t \in Txns |-> FALSE]
    /\ rank = [t \in Txns |-> 0]
    /\ outcome = [t \in Txns |-> "none"]
    /\ seq = [t \in Txns |-> 0]
    /\ lsn = 0
    /\ store = [writers |-> [k \in Keys |-> {}], catalog |-> {}]
    /\ published = [lsn |-> 0, view |-> [writers |-> [k \in Keys |-> {}],
                                         catalog |-> {}]]
    /\ revisions = [k \in Keys |-> 0]
    /\ catalogRevision = 0
    /\ coord = "free"
    /\ accepted = 0
    /\ building = FALSE
    /\ captured = 0
    /\ rootLsn = 0
    /\ poisoned = FALSE

-----------------------------------------------------------------------------
(* Transactions. *)

(* Reader::pin reads the published state under its read lock ... *)
PinRead(t) ==
    /\ phase[t] = "idle"
    /\ ~poisoned
    /\ phase' = [phase EXCEPT ![t] = "pinning"]
    /\ base' = [base EXCEPT ![t] = published.lsn]
    /\ snap' = [snap EXCEPT ![t] = published.view]
    /\ UNCHANGED <<keys, ddl, late, rank, outcome, seq, dbVars, coord,
                   accepted, jobVars>>

(* ... and registers the pin before it releases that lock. *)
PinRegister(t) ==
    /\ phase[t] = "pinning"
    /\ phase' = [phase EXCEPT ![t] = "open"]
    /\ UNCHANGED <<base, snap, keys, ddl, late, rank, outcome, seq, dbVars,
                   coord, accepted, jobVars>>

(* Leaves the transaction without a pin and with a result for its caller.  *)
Resolve(t, to, result) ==
    /\ phase' = [phase EXCEPT ![t] = to]
    /\ outcome' = [outcome EXCEPT ![t] = result]

(* create, apply, delete, retain_last and snapshot all stage the entity.   *)
Stage(t, k) ==
    /\ phase[t] = "open"
    /\ ~poisoned /\ ~late[t]
    /\ k \notin keys[t]
    /\ keys' = [keys EXCEPT ![t] = @ \union {k}]
    /\ UNCHANGED <<phase, base, snap, ddl, late, rank, outcome, seq, dbVars,
                   coord, accepted, jobVars>>

(* create_table, rename_table and alter_table replace the staged catalog.  *)
StageTable(t) ==
    /\ phase[t] = "open"
    /\ t \in CatalogTxns
    /\ ~poisoned /\ ~late[t] /\ ~ddl[t]
    /\ ddl' = [ddl EXCEPT ![t] = TRUE]
    /\ UNCHANGED <<phase, base, snap, keys, late, rank, outcome, seq, dbVars,
                   coord, accepted, jobVars>>

(* Admission fails, an operation fails, the caller drops the handle or the
   reaper revokes the lease: the staged writes and the pin go.             *)
Drop(t) ==
    /\ phase[t] \in {"pinning", "open"}
    /\ Resolve(t, "done", "aborted")
    /\ UNCHANGED <<base, snap, keys, ddl, late, rank, seq, dbVars, coord,
                   accepted, jobVars>>

DeadlinePasses(t) ==
    /\ phase[t] \in {"open", "queued", "claimed", "accepted"}
    /\ ~late[t]
    /\ late' = [late EXCEPT ![t] = TRUE]
    /\ UNCHANGED <<phase, base, snap, keys, ddl, rank, outcome, seq, dbVars,
                   coord, accepted, jobVars>>

IsEmpty(t) == keys[t] = {} /\ ~ddl[t]

(* Transaction::commit up to the queue: lease, readiness, the empty batch and
   the queue's limits are tested in this order.                             *)
Commit(t) ==
    /\ phase[t] = "open"
    /\ \/ late[t] /\ Resolve(t, "done", "expired")
       \/ ~late[t] /\ poisoned /\ Resolve(t, "done", "recovery")
       \/ ~late[t] /\ ~poisoned /\ IsEmpty(t) /\ Resolve(t, "done", "ok")
       \/ ~late[t] /\ ~poisoned /\ ~IsEmpty(t) /\ Resolve(t, "queued", "none")
       \/ ~late[t] /\ ~poisoned /\ ~IsEmpty(t) /\ Resolve(t, "done", "limit")
    /\ UNCHANGED <<base, snap, keys, ddl, late, rank, seq, dbVars, coord,
                   accepted, jobVars>>

(* A caller whose deadline passed withdraws a request no leader claimed.   *)
Cancel(t) ==
    /\ phase[t] = "queued" /\ late[t]
    /\ Resolve(t, "done", "expired")
    /\ UNCHANGED <<base, snap, keys, ddl, late, rank, seq, dbVars, coord,
                   accepted, jobVars>>

-----------------------------------------------------------------------------
(* The group leader: SharedDatabase::run_group and Prepared::commit_group. *)

Claim ==
    /\ coord = "free"
    /\ \E group \in SUBSET {t \in Txns : phase[t] = "queued"} :
          /\ group # {}
          /\ phase' = [t \in Txns |-> IF t \in group THEN "claimed" ELSE phase[t]]
    /\ coord' = "validating"
    /\ accepted' = 0
    /\ UNCHANGED <<base, snap, keys, ddl, late, rank, outcome, seq, dbVars, jobVars>>

Group == {t \in Txns : phase[t] = "accepted"}

(* Mutant: a table change of the group is not compared. *)
InGroupConflictKeysOnly(t) == \E u \in Group : keys[u] \intersect keys[t] # {}

(* Keys and catalog changes of the batches accepted before in this group
   conflict as if they had the largest sequence.                            *)
InGroupConflict(t) ==
    \E u \in Group : ddl[u] \/ keys[u] \intersect keys[t] # {}

(* Mutant: a revision equal to the pinned sequence conflicts. *)
RevisionConflictAtBase(t) ==
    \/ catalogRevision > base[t]
    \/ \E k \in keys[t] : revisions[k] >= base[t]

RevisionConflict(t) ==
    \/ catalogRevision > base[t]
    \/ \E k \in keys[t] : revisions[k] > base[t]

Conflicts(t) == InGroupConflict(t) \/ RevisionConflict(t)

(* The early returns of validation, in their order. *)
Verdict(t) ==
    IF poisoned THEN "recovery"
    ELSE IF late[t] THEN "expired"
    ELSE IF Conflicts(t) THEN "conflict"
    ELSE "accept"

Reject(t) ==
    /\ coord = "validating" /\ phase[t] = "claimed"
    /\ Verdict(t) # "accept"
    /\ Resolve(t, "resolved", Verdict(t))
    /\ UNCHANGED <<base, snap, keys, ddl, late, rank, seq, dbVars, coord,
                   accepted, jobVars>>

Accept(t) ==
    /\ coord = "validating" /\ phase[t] = "claimed"
    /\ Verdict(t) = "accept"
    /\ phase' = [phase EXCEPT ![t] = "accepted"]
    /\ rank' = [rank EXCEPT ![t] = accepted]
    /\ accepted' = accepted + 1
    /\ UNCHANGED <<base, snap, keys, ddl, late, outcome, seq, dbVars, coord,
                   jobVars>>

AllValidated == \A t \in Txns : phase[t] # "claimed"

ResolveAll(group, result) ==
    /\ phase' = [t \in Txns |-> IF t \in group THEN "resolved" ELSE phase[t]]
    /\ outcome' = [t \in Txns |-> IF t \in group THEN result ELSE outcome[t]]

(* The batches whose deadline passed since validation leave one by one; the
   loop of commit_group ends once it saw every remaining batch on time.     *)
ExpireInGroup(t) ==
    /\ coord = "validating" /\ AllValidated
    /\ t \in Group /\ late[t]
    /\ Resolve(t, "resolved", "expired")
    /\ UNCHANGED <<base, snap, keys, ddl, late, rank, seq, dbVars, coord,
                   accepted, jobVars>>

OnTime == \A t \in Group : ~late[t]

OverWalLimit == (lsn - rootLsn) + Cardinality(Group) > MaxWal

(* No byte was written yet: rebinding a history to the current root failed,
   or the group's frames exceed the WAL limit, or no batch is left.         *)
RefuseGroup ==
    /\ coord = "validating" /\ AllValidated
    /\ \/ ResolveAll(Group, "io")
       \/ OnTime /\ OverWalLimit /\ ResolveAll(Group, "limit")
       \/ Group = {} /\ UNCHANGED <<phase, outcome>>
    /\ coord' = "recording"
    /\ UNCHANGED <<base, snap, keys, ddl, late, rank, seq, dbVars, accepted, jobVars>>

StartWrite ==
    /\ coord = "validating" /\ AllValidated
    /\ Group # {} /\ OnTime /\ ~OverWalLimit
    /\ coord' = "syncing"
    /\ UNCHANGED <<txVars, dbVars, accepted, jobVars>>

(* The group's frames are written and synchronized once, or the handle is
   poisoned and no outcome of the group is known.                           *)
SyncGroup ==
    /\ coord = "syncing"
    /\ coord' = "publishing"
    /\ UNCHANGED <<txVars, dbVars, accepted, jobVars>>

(* Mutant: the failed group is published although its outcome is unknown.  *)
SyncFailsPublishes ==
    /\ coord = "syncing"
    /\ poisoned' = TRUE
    /\ coord' = "publishing"
    /\ UNCHANGED <<txVars, lsn, store, published, revisions, catalogRevision,
                   accepted, jobVars>>

SyncFails ==
    /\ coord = "syncing"
    /\ poisoned' = TRUE
    /\ ResolveAll(Group, "unknown")
    /\ coord' = "recording"
    /\ UNCHANGED <<base, snap, keys, ddl, late, rank, seq, lsn, store, published,
                   revisions, catalogRevision, accepted, jobVars>>

(* What a batch stages: its pinned view with its own operations added. *)
StagedWriters(t, k) == snap[t].writers[k] \union {t}
StagedCatalog(t) == snap[t].catalog \union (IF ddl[t] THEN {t} ELSE {})

NextInGroup(t) == t \in Group /\ \A u \in Group : rank[t] <= rank[u]

(* Mutant: the readers' view is updated in place instead of copied. *)
PublishStateInPlace(t) ==
    /\ coord = "publishing" /\ NextInGroup(t)
    /\ lsn' = lsn + 1
    /\ seq' = [seq EXCEPT ![t] = lsn + 1]
    /\ store' = [writers |-> [k \in Keys |-> IF k \in keys[t] THEN StagedWriters(t, k)
                                                              ELSE store.writers[k]],
                 catalog |-> StagedCatalog(t)]
    /\ published' = [published EXCEPT !.view = store']
    /\ Resolve(t, "resolved", "ok")
    /\ UNCHANGED <<base, snap, keys, ddl, late, rank, revisions,
                   catalogRevision, poisoned, coord, accepted, jobVars>>

(* publish_state overwrites every staged entity and the whole catalog, then
   drops the batch with its pin.                                            *)
PublishState(t) ==
    /\ coord = "publishing" /\ NextInGroup(t)
    /\ lsn' = lsn + 1
    /\ seq' = [seq EXCEPT ![t] = lsn + 1]
    /\ store' = [writers |-> [k \in Keys |-> IF k \in keys[t] THEN StagedWriters(t, k)
                                                              ELSE store.writers[k]],
                 catalog |-> StagedCatalog(t)]
    /\ Resolve(t, "resolved", "ok")
    /\ UNCHANGED <<base, snap, keys, ddl, late, rank, published, revisions,
                   catalogRevision, poisoned, coord, accepted, jobVars>>

(* Mutant: results are handed out without publishing the new state. *)
PublishReadersSkipped ==
    /\ coord = "publishing" /\ Group = {}
    /\ coord' = "recording"
    /\ UNCHANGED <<txVars, dbVars, accepted, jobVars>>

(* Readers see the whole group at once. *)
PublishReaders ==
    /\ coord = "publishing" /\ Group = {}
    /\ NoReadGuard
    /\ published' = [lsn |-> lsn, view |-> store]
    /\ coord' = "recording"
    /\ UNCHANGED <<txVars, lsn, store, revisions, catalogRevision, poisoned,
                   accepted, jobVars>>

Committed(t) == seq[t] # 0
JustCommitted == {t \in Txns : phase[t] = "resolved" /\ Committed(t)}

(* Revisions are recorded under the commit mutex, after publication. *)
RecordRevisions ==
    /\ coord = "recording"
    /\ revisions' = [k \in Keys |->
          IF \E t \in JustCommitted : k \in keys[t]
          THEN seq[CHOOSE t \in JustCommitted : k \in keys[t]] ELSE revisions[k]]
    /\ catalogRevision' =
          IF \E t \in JustCommitted : ddl[t]
          THEN seq[CHOOSE t \in JustCommitted : ddl[t]] ELSE catalogRevision
    /\ coord' = "finishing"
    /\ UNCHANGED <<txVars, lsn, store, published, poisoned, accepted, jobVars>>

(* Queue::finish hands the results out and ends the leadership. *)
Finish ==
    /\ coord = "finishing"
    /\ phase' = [t \in Txns |-> IF phase[t] = "resolved" THEN "done" ELSE phase[t]]
    /\ coord' = "free"
    /\ UNCHANGED <<base, snap, keys, ddl, late, rank, outcome, seq, dbVars,
                   accepted, jobVars>>

-----------------------------------------------------------------------------
(* The maintenance job, under the commit mutex at both ends. *)

(* Mutant: the frozen frontier excludes the last commit. *)
FrontierShort == lsn - 1

Frontier == lsn

CaptureCheckpoint ==
    /\ CoordinatorFree /\ ~poisoned /\ ~building
    /\ \/ building' = TRUE /\ captured' = Frontier /\ UNCHANGED poisoned
       \/ poisoned' = TRUE /\ UNCHANGED <<building, captured>>
    /\ UNCHANGED <<txVars, lsn, store, published, revisions, catalogRevision,
                   coord, accepted, rootLsn>>

AbandonCheckpoint ==
    /\ CoordinatorFree /\ building
    /\ building' = FALSE
    /\ UNCHANGED <<txVars, dbVars, coord, accepted, captured, rootLsn>>

(* Mutant: pruning up to the current sequence, whatever is pinned. *)
StillNeededUnpinned(revision) == revision > lsn

(* prune_revisions keeps a revision above the oldest pinned sequence, which is
   the current sequence when nothing is pinned.                             *)
StillNeeded(revision) ==
    IF LivePins = {} THEN revision > lsn
                     ELSE \E t \in LivePins : revision > base[t]

InstallCheckpoint ==
    /\ CoordinatorFree /\ building /\ ~poisoned
    /\ NoReadGuard
    /\ building' = FALSE
    /\ rootLsn' = captured
    /\ published' = [lsn |-> lsn, view |-> store]
    /\ revisions' = [k \in Keys |-> IF StillNeeded(revisions[k]) THEN revisions[k] ELSE 0]
    /\ UNCHANGED <<txVars, lsn, store, catalogRevision, poisoned, coord,
                   accepted, captured>>

InstallFails ==
    /\ CoordinatorFree /\ building /\ ~poisoned
    /\ poisoned' = TRUE
    /\ UNCHANGED <<txVars, lsn, store, published, revisions, catalogRevision,
                   coord, accepted, jobVars>>

-----------------------------------------------------------------------------
TxnStep(t) ==
    \/ PinRead(t) \/ PinRegister(t)
    \/ (\E k \in Keys : Stage(t, k)) \/ StageTable(t)
    \/ Drop(t) \/ DeadlinePasses(t) \/ Commit(t) \/ Cancel(t)

LeaderStep ==
    \/ Claim
    \/ \E t \in Txns : Reject(t) \/ Accept(t) \/ ExpireInGroup(t) \/ PublishState(t)
    \/ RefuseGroup \/ StartWrite \/ SyncGroup \/ SyncFails
    \/ PublishReaders \/ RecordRevisions \/ Finish

MaintenanceStep ==
    CaptureCheckpoint \/ AbandonCheckpoint \/ InstallCheckpoint \/ InstallFails

Next == (\E t \in Txns : TxnStep(t)) \/ LeaderStep \/ MaintenanceStep

Spec == Init /\ [][Next]_vars

-----------------------------------------------------------------------------
(* Type correctness of the coordinator, the readers' view and the
   transactions.                                                            *)
TypeOK ==
    /\ phase \in [Txns -> Phases]
    /\ base \in [Txns -> Nat]
    /\ snap \in [Txns -> View]
    /\ keys \in [Txns -> SUBSET Keys]
    /\ ddl \in [Txns -> BOOLEAN]
    /\ late \in [Txns -> BOOLEAN]
    /\ rank \in [Txns -> Nat]
    /\ outcome \in [Txns -> Outcomes]
    /\ seq \in [Txns -> Nat]
    /\ lsn \in Nat
    /\ store \in View
    /\ published \in [lsn : Nat, view : View]
    /\ revisions \in [Keys -> Nat]
    /\ catalogRevision \in Nat
    /\ coord \in CoordStates
    /\ accepted \in Nat
    /\ building \in BOOLEAN
    /\ captured \in Nat
    /\ rootLsn \in Nat
    /\ poisoned \in BOOLEAN

WritersUpTo(n, k) == {t \in Txns : Committed(t) /\ seq[t] <= n /\ k \in keys[t]}
CatalogUpTo(n) == {t \in Txns : Committed(t) /\ seq[t] <= n /\ ddl[t]}
IsPrefix(view, n) ==
    /\ \A k \in Keys : view.writers[k] = WritersUpTo(n, k)
    /\ view.catalog = CatalogUpTo(n)

(* No lost update: although publish_state overwrites whole entities and the
   whole catalog with what was staged on an older view, the state always
   contains exactly the writes of every committed transaction.             *)
NoLostUpdate == IsPrefix(store, lsn)

(* What readers see, and what each transaction pinned, is the state after some
   prefix of the commit sequence: a view mixes no two points in time.      *)
ViewsArePrefixes ==
    /\ IsPrefix(published.view, published.lsn)
    /\ \A t \in Txns : phase[t] # "idle" => IsPrefix(snap[t], base[t])

(* First committer wins: of two committed transactions that touch one entity,
   or the first of which changed the catalog, the second one had pinned a
   view that already contained the first.                                  *)
FirstCommitterWins ==
    \A t, u \in Txns :
        /\ Committed(t) /\ Committed(u) /\ seq[t] < seq[u]
        /\ ddl[t] \/ keys[t] \intersect keys[u] # {}
        => seq[t] <= base[u]

(* Once commit() has returned a sequence, every later pin contains that
   transaction.                                                             *)
AcknowledgedIsVisible ==
    \A t \in Txns : phase[t] = "done" /\ Committed(t) => seq[t] <= published.lsn

(* Pruning keeps what validation may still ask for: as long as a transaction
   older than a commit can be validated, that commit is in the revision
   table.                                                                   *)
RecordedInTable(t) ==
    Committed(t) /\ ~(phase[t] = "resolved" /\ coord \in {"publishing", "recording"})

RevisionsCoverPins ==
    \A t, u \in Txns :
        /\ RecordedInTable(u)
        /\ phase[t] \in {"pinning", "open", "queued", "claimed", "accepted"}
        /\ base[t] < seq[u]
        => /\ \A k \in keys[u] : revisions[k] >= seq[u]
           /\ ddl[u] => catalogRevision >= seq[u]

(* A conflict is reported only when an overlapping transaction committed after
   the pin or was accepted into the same group.                             *)
ConflictIsReal ==
    [][\A t \in Txns :
         outcome'[t] = "conflict" /\ outcome[t] # "conflict" =>
           \E u \in Txns \ {t} :
              /\ ddl[u] \/ keys[u] \intersect keys[t] # {}
              /\ (Committed(u) /\ seq[u] > base[t]) \/ phase[u] = "accepted"]_vars

(* After an uncertain I/O outcome nothing is committed or published through
   this handle any more.                                                    *)
PoisonStopsCommits ==
    [][poisoned => UNCHANGED <<lsn, store, published>>]_vars

(* The shared database is snapshot isolated: pins, the revision table, groups,
   publication and checkpoints implement a store in which a commit goes through
   only if the current state still has what the transaction saw of everything
   it overwrites, whole groups become visible, acknowledged commits are visible
   and nothing changes once the handle is poisoned.                         *)
Status == [t \in Txns |->
    IF phase[t] = "idle" THEN "idle"
    ELSE IF phase[t] \notin {"resolved", "done"} THEN "open"
    ELSE IF Committed(t) /\ phase[t] = "resolved" THEN "committed"
    ELSE IF outcome[t] = "ok" THEN "acknowledged" ELSE "failed"]
Isolated == INSTANCE IsolatedStore WITH
    status <- Status, view <- snap, writes <- keys, tables <- ddl,
    data <- store, visible <- published.view, stopped <- poisoned
IsIsolated == Isolated!Spec
=============================================================================
