----------------------------- MODULE EntityHistory -----------------------------
(***************************************************************************)
(* One entity's history: the versions a transaction stages, what a commit  *)
(* publishes, what a checkpoint writes, and how a version is rebuilt from  *)
(* memory and disk together.                                               *)
(*                                                                         *)
(* An entity state is its version, its tombstone and, for each field, the  *)
(* version that assigned it, so a lost, repeated or misplaced event shows. *)
(* Histories are functions from versions: `events` and `snapshots` of a    *)
(* record or of a checkpoint image.  At most one transaction over the      *)
(* entity is open at a time (SharedCommit shows that of two, one commits); *)
(* other entities' commits only advance the transaction sequence.          *)
(***************************************************************************)
EXTENDS Integers, Sequences, FiniteSets, Functions, FiniteSetsExt, SequencesExt

CONSTANTS
    Fields,           \* the entity's fields
    Counts,           \* numbers of events a retain operation keeps
    Intervals,        \* values of options.snapshot_interval, 0 for never
    Retentions,       \* values of options.retain_events, Unlimited for none
    MaxVersion,       \* bound: entity versions
    MaxLsn,           \* bound: committed transactions
    MaxGen,           \* bound: checkpoint generations
    MaxOps,           \* bound: operations a transaction is asked for
    Unlimited         \* retain_events is not set

ASSUME HistoryAssumption == /\ Counts \subseteq Nat /\ Intervals \subseteq Nat
                            /\ Retentions \subseteq Nat \union {Unlimited}

VARIABLES
    roots,      \* the two newest checkpoint manifests, the newer one last
    overlay,    \* the entity's record in ReadState.overlay
    tail,       \* its record in Database.checkpoint_tail
    job,        \* the captured state of the running checkpoint
    lsn,        \* ReadState.lsn
    staged,     \* the open transaction over the entity
    wal,        \* the log: the operations of each transaction over the entity
    options,    \* snapshot_interval and retain_events
    truth,      \* observer: each committed version as it was staged, and its commit
    kept        \* observer: the oldest version retention still promises

vars == <<roots, overlay, tail, job, lsn, staged, wal, options, truth, kept>>

-----------------------------------------------------------------------------
(* Entities, events and records (model.rs).                                *)

Corrupt == [version |-> -1]
Unavailable == [version |-> -2]

(* No record, no root, no job.                                             *)
Absent == [gen |-> -1, current |-> Corrupt]

(* Event: what a version changes and the transaction that committed it.    *)
Event(transaction, kind, field) ==
    [transaction |-> transaction, kind |-> kind, field |-> field]

Created == [version |-> 0, deleted |-> FALSE, fields |-> [f \in Fields |-> 0]]

ApplyEvent(state, version, event) ==
    IF state.deleted \/ version # state.version + 1 THEN Corrupt
    ELSE [version |-> version,
          deleted |-> event.kind = "delete",
          fields  |-> IF event.kind = "delete" THEN state.fields
                      ELSE [state.fields EXCEPT ![event.field] = version]]

(* The events of `events` after a state, up to a version, applied in turn; *)
(* a missing one leaves a gap the next or the last check finds.            *)
Replay(state, events, last) ==
    LET at[v \in state.version .. last] ==
            IF v = state.version THEN state
            ELSE IF v \notin DOMAIN events \/ at[v - 1] = Corrupt THEN Corrupt
            ELSE ApplyEvent(at[v - 1], v, events[v])
    IN  IF last < state.version THEN Corrupt ELSE at[last]

(* The newest snapshot no later than a version, unless the state is newer. *)
FromSnapshot(state, snapshots, version) ==
    LET usable == {v \in DOMAIN snapshots : state.version <= v /\ v <= version}
    IN  IF usable = {} THEN state ELSE snapshots[Max(usable)]

From(history, first) == Restrict(history, {v \in DOMAIN history : v >= first})

(* The entries of two histories, the first one's where both have one.      *)
Over(history, other) ==
    [v \in DOMAIN history \union DOMAIN other |->
        IF v \in DOMAIN history THEN history[v] ELSE other[v]]

With(history, version, value) == Over([v \in {version} |-> value], history)

-----------------------------------------------------------------------------
(* A checkpoint image (snapshot.rs, Root): generation, sequence number and *)
(* what it holds of the entity.                                            *)

RootAdvance(root, state, version, snapshots) ==
    LET start == IF snapshots THEN FromSnapshot(state, root.entity.snapshots, version)
                 ELSE state
        replayed == {v \in DOMAIN root.entity.events : start.version < v /\ v <= version}
    IN  IF start.version = version THEN start
        ELSE IF \E v \in replayed : root.entity.events[v].transaction > root.lsn
        THEN Corrupt
        ELSE Replay(start, root.entity.events, version)

RootAt(root, version, snapshots) ==
    LET image == root.entity IN
    IF version \notin image.base.version .. image.current.version THEN Unavailable
    ELSE IF snapshots /\ version = image.current.version THEN image.current
    ELSE RootAdvance(root, image.base, version, snapshots)

(* A record read through the root: its history stays on disk.              *)
RootEntity(root) ==
    IF root.entity = Absent THEN Absent
    ELSE [current |-> root.entity.current, base |-> root.entity.base,
          events |-> << >>, committed |-> << >>, snapshots |-> << >>, disk |-> root]

-----------------------------------------------------------------------------
(* EntityData: `events` are the transaction's own, `committed` and         *)
(* `snapshots` the published ones in memory, `disk` the root that holds    *)
(* everything up to the version `through`.                                 *)

Through(data) == data.disk.entity.current.version

InMemory(data) == Over(data.committed, data.events)

At(data, version, snapshots) ==
    LET start == IF snapshots THEN FromSnapshot(data.base, data.snapshots, version)
                 ELSE data.base
        read  == IF data.disk = Absent \/ start.version >= Min({version, Through(data)})
                 THEN start
                 ELSE IF snapshots /\ version >= Through(data)
                 THEN data.disk.entity.current
                 ELSE RootAdvance(data.disk, start, Min({version, Through(data)}), snapshots)
    IN  IF version \notin data.base.version .. data.current.version THEN Unavailable
        ELSE IF snapshots /\ version = data.current.version THEN data.current
        ELSE IF read = Corrupt THEN Corrupt
        ELSE Replay(read, InMemory(data), version)

(* The events of a range of versions, the disk's first.  A version both    *)
(* hold would be visited twice.                                            *)
InOrder(versions) ==
    CHOOSE s \in [1 .. Cardinality(versions) -> versions] :
        \A i, j \in DOMAIN s : i < j => s[i] < s[j]

Walk(events, first, last) ==
    LET versions == InOrder({v \in DOMAIN events : first <= v /\ v <= last})
    IN  [i \in DOMAIN versions |-> [version |-> versions[i], event |-> events[versions[i]]]]

Visit(data, first, last) ==
    LET disk == IF data.disk = Absent THEN << >>
                ELSE Walk(data.disk.entity.events, first, Min({last, Through(data)}))
    IN  disk \o Walk(data.committed, first, last) \o Walk(data.events, first, last)

Retain(data, count) ==
    LET version == Max({0, data.current.version - count}) IN
    IF version <= data.base.version THEN data
    ELSE [data EXCEPT !.base = At(data, version, TRUE),
                      !.events = From(@, version + 1),
                      !.committed = From(@, version + 1),
                      !.snapshots = From(@, version)]

Snapshot(data) ==
    [data EXCEPT !.snapshots = With(@, data.current.version, data.current)]

Change(data, kind, field, transaction) ==
    LET version == data.current.version + 1
        event == Event(transaction, kind, field)
    IN  [data EXCEPT !.current = ApplyEvent(@, version, event),
                     !.events = With(@, version, event)]

New == [current |-> Created, base |-> Created, events |-> << >>, committed |-> << >>,
        snapshots |-> << >>, disk |-> Absent]

(* Events of the transaction become published ones.                        *)
Seal(data) == [data EXCEPT !.committed = Over(data.events, @), !.events = << >>]

-----------------------------------------------------------------------------
(* Operations of a transaction (database.rs, execute).                     *)

Op(kind, arg) == [kind |-> kind, arg |-> arg]
CreateOp == Op("create", 0)
SnapshotOp == Op("snapshot", 0)
Requests == {CreateOp, SnapshotOp, Op("delete", 0)}
            \union {Op("apply", f) : f \in Fields}
            \union {Op("retain", n) : n \in Counts}

(* A refused operation aborts the transaction, as Abort does.              *)
Accepts(data, op) ==
    IF op.kind = "create" THEN data = Absent
    ELSE /\ data # Absent
         /\ op.kind \in {"apply", "delete"} => ~data.current.deleted

(* base is the transaction's view: new events are stamped as if it         *)
(* committed next.                                                         *)
Execute(data, op, base) ==
    CASE op.kind = "create"   -> New
      [] op.kind = "apply"    -> Change(data, "apply", op.arg, base + 1)
      [] op.kind = "delete"   -> Change(data, "delete", Absent, base + 1)
      [] op.kind = "retain"   -> Retain(data, op.arg)
      [] op.kind = "snapshot" -> Snapshot(data)

(* What apply and delete add to the transaction afterwards.                *)
Maintain(data, op) ==
    IF op.kind \notin {"apply", "delete"} THEN << >>
    ELSE (IF options.interval # 0 /\ data.current.version % options.interval = 0
          THEN <<SnapshotOp>> ELSE << >>)
         \o (IF options.retain # Unlimited THEN <<Op("retain", options.retain)>> ELSE << >>)

Run(data, ops, base) ==
    LET after[i \in 0 .. Len(ops)] ==
            IF i = 0 THEN data ELSE Execute(after[i - 1], ops[i], base)
    IN  after[Len(ops)]

-----------------------------------------------------------------------------
(* The database.                                                           *)

Root == roots[Len(roots)]

Load == IF overlay = Absent THEN RootEntity(Root) ELSE overlay

NoTransaction == [open |-> FALSE]

(* initialize writes an empty first checkpoint.                            *)
EmptyRoot == [gen |-> 0, lsn |-> 0, entity |-> Absent]

Init ==
    /\ roots = <<EmptyRoot>>
    /\ overlay = Absent
    /\ tail = Absent
    /\ job = Absent
    /\ lsn = 0
    /\ staged = NoTransaction
    /\ wal = << >>
    /\ options \in [interval : Intervals, retain : Retentions]
    /\ truth = << >>
    /\ kept = 0

Begin ==
    /\ ~staged.open
    /\ lsn < MaxLsn
    /\ staged' = [open |-> TRUE, data |-> Absent, base |-> lsn, gen |-> Root.gen,
                  view |-> Load, ops |-> << >>, asked |-> 0, truth |-> truth, kept |-> kept]
    /\ UNCHANGED <<roots, overlay, tail, job, lsn, wal, options, truth, kept>>

(* The first operation loads the record from the transaction's own view.   *)
Request(op) ==
    LET loaded == IF staged.data = Absent THEN staged.view ELSE staged.data
        first  == Execute(loaded, op, staged.base)
        more   == Maintain(first, op)
        data   == Run(first, more, staged.base)
        version == data.current.version
        retains == {o \in ToSet(<<op>> \o more) : o.kind = "retain"}
    IN
    /\ staged.open
    /\ staged.asked < MaxOps
    /\ Accepts(loaded, op)
    /\ op.kind \in {"apply", "delete"} => loaded.current.version < MaxVersion
    /\ staged' = [staged EXCEPT
          !.data = data,
          !.ops = @ \o <<op>> \o more,
          !.asked = @ + 1,
          !.truth = IF op.kind \in {"create", "apply", "delete"}
                    THEN With(@, version, [entity |-> data.current, commit |-> 0]) ELSE @,
          !.kept = Max({@} \union {version - o.arg : o \in retains})]
    /\ UNCHANGED <<roots, overlay, tail, job, lsn, wal, options, truth, kept>>

Abort ==
    /\ staged.open
    /\ staged' = NoTransaction
    /\ UNCHANGED <<roots, overlay, tail, job, lsn, wal, options, truth, kept>>

(* A checkpoint was installed since the view or the record's history was   *)
(* taken, and it holds the entity.                                         *)
MovedHistory(data, gen) ==
    /\ gen # Root.gen \/ (data.disk # Absent /\ data.disk.gen # Root.gen)
    /\ Root.entity # Absent

(* Mutants of Rebind: everything in memory is dropped, or nothing.         *)
RebindDropsMemory(data, gen) ==
    IF MovedHistory(data, gen)
    THEN [data EXCEPT !.committed = << >>, !.disk = Root,
                      !.snapshots = From(@, Root.entity.current.version)]
    ELSE data
RebindKeepsMemory(data, gen) ==
    IF MovedHistory(data, gen) THEN [data EXCEPT !.disk = Root] ELSE data

(* A checkpoint since the view was taken moved the history: keep in memory *)
(* what the new root does not hold, and read the rest from it.             *)
Rebind(data, gen) ==
    IF MovedHistory(data, gen)
    THEN LET through == Root.entity.current.version IN
         [data EXCEPT !.committed = From(@, through + 1),
                      !.snapshots = From(@, through),
                      !.disk = Root]
    ELSE data

(* Mutant of Restamp: the number given when staging stays.                 *)
RestampNot(data, base, commit) == data

(* Events staged under the view's number take the one the commit got.      *)
Restamp(data, base, commit) ==
    [data EXCEPT !.events = [v \in DOMAIN @ |->
        IF @[v].transaction > base THEN [@[v] EXCEPT !.transaction = commit] ELSE @[v]]]

Commit ==
    LET data == Seal(Restamp(Rebind(staged.data, staged.gen), staged.base, lsn + 1))
        commits(v) == v \in DOMAIN truth /\ truth[v].commit # 0
    IN
    /\ staged.open
    /\ staged.ops # << >>
    /\ lsn < MaxLsn
    /\ lsn' = lsn + 1
    /\ overlay' = data
    /\ tail' = IF job = Absent THEN tail ELSE data
    /\ wal' = With(wal, lsn + 1, staged.ops)
    /\ truth' = [v \in DOMAIN staged.truth |->
          IF commits(v) THEN truth[v] ELSE [staged.truth[v] EXCEPT !.commit = lsn + 1]]
    /\ kept' = staged.kept
    /\ staged' = NoTransaction
    /\ UNCHANGED <<roots, job, options>>

(* A transaction over other entities commits.                              *)
OtherCommit ==
    /\ lsn < MaxLsn
    /\ lsn' = lsn + 1
    /\ UNCHANGED <<roots, overlay, tail, job, staged, wal, options, truth, kept>>

-----------------------------------------------------------------------------
(* Checkpoints.                                                            *)

Capture ==
    /\ job = Absent
    /\ Root.gen < MaxGen
    /\ job' = [gen |-> Root.gen + 1, lsn |-> lsn, data |-> overlay]
    /\ tail' = Absent
    /\ UNCHANGED <<roots, overlay, lsn, staged, wal, options, truth, kept>>

(* The old root's history copied from `base` on, without what memory       *)
(* overrides.                                                              *)
CopiedSnapshots(data) ==
    IF data.disk = Absent THEN << >>
    ELSE Restrict(data.disk.entity.snapshots,
                  {v \in DOMAIN data.disk.entity.snapshots :
                      /\ data.base.version <= v /\ v <= Through(data)
                      /\ v \notin DOMAIN data.snapshots})
CopiedEvents(data) ==
    IF data.disk = Absent THEN << >>
    ELSE Restrict(data.disk.entity.events,
                  {v \in DOMAIN data.disk.entity.events :
                      data.base.version < v /\ v <= Through(data)})

(* TableWriter.append: what the new files hold of the captured record.     *)
Written(data) ==
    [current |-> data.current, base |-> data.base,
     snapshots |-> Over(From(data.snapshots, data.base.version), CopiedSnapshots(data)),
     events |-> Over(From(data.committed, data.base.version + 1), CopiedEvents(data))]

(* Index keys are appended in strict order: what is copied comes first.    *)
Precede(first, second) == \A v \in DOMAIN first, w \in DOMAIN second : v < w
Writable(data) ==
    /\ Precede(CopiedSnapshots(data), From(data.snapshots, data.base.version))
    /\ Precede(CopiedEvents(data), From(data.committed, data.base.version + 1))

Install ==
    /\ job # Absent
    /\ job.data # Absent => Writable(job.data)
    /\ roots' = <<Root, [gen |-> job.gen, lsn |-> job.lsn,
                         entity |-> IF job.data = Absent THEN Root.entity
                                    ELSE Written(job.data)]>>
    /\ overlay' = tail
    /\ tail' = Absent
    /\ job' = Absent
    /\ wal' = From(wal, Root.lsn + 1)
    /\ UNCHANGED <<lsn, staged, options, truth, kept>>

(* A build that failed: the next checkpoint starts from everything again.  *)
Abandon ==
    /\ job # Absent
    /\ job' = Absent
    /\ tail' = Absent
    /\ UNCHANGED <<roots, overlay, lsn, staged, wal, options, truth, kept>>

(* The handle is gone, by a close or a crash, and the next open starts     *)
(* from the newest manifest that verifies and runs the log after it.       *)
Replayed(root, log) ==
    LET after[n \in root.lsn .. lsn] ==
            IF n = root.lsn THEN RootEntity(root)
            ELSE IF n \in DOMAIN log THEN Seal(Run(after[n - 1], log[n], n - 1))
            ELSE after[n - 1]
    IN  after[lsn]

Reopen(keep) ==
    LET root == roots[keep]
        log == From(wal, root.lsn + 1)
    IN
    /\ keep \in DOMAIN roots
    /\ roots' = SubSeq(roots, 1, keep)
    /\ overlay' = IF DOMAIN log = {} THEN Absent ELSE Replayed(root, log)
    /\ tail' = Absent
    /\ job' = Absent
    /\ staged' = NoTransaction
    /\ UNCHANGED <<lsn, wal, options, truth, kept>>

Next ==
    \/ Begin
    \/ \E op \in Requests : Request(op)
    \/ Abort
    \/ Commit
    \/ OtherCommit
    \/ Capture
    \/ Install
    \/ Abandon
    \/ \E keep \in 1 .. 2 : Reopen(keep)

Spec == Init /\ [][Next]_vars

-----------------------------------------------------------------------------
(* What is readable: the published record and the transaction's own.       *)

ReadsBack(read(_, _), first, versions) ==
    \A v \in DOMAIN versions, snapshots \in BOOLEAN :
        read(v, snapshots) = IF v < first THEN Unavailable ELSE versions[v].entity

(* Every retained version reads as it was staged, from snapshots and by    *)
(* replay, wherever the history lies: transaction, overlay or disk, before *)
(* and after checkpoints, rebinding and recovery; no version is lost       *)
(* before retention allows it and none is readable after                   *)
(* (ReadState.get_at_version and replay_to_version).                       *)
EveryVersionReads ==
    /\ CASE overlay # Absent ->
              ReadsBack(LAMBDA v, s : At(overlay, v, s), kept, truth)
         [] overlay = Absent /\ Root.entity # Absent ->
              ReadsBack(LAMBDA v, s : RootAt(Root, v, s), kept, truth)
         [] OTHER -> truth = << >>
    /\ staged.open /\ staged.data # Absent =>
          ReadsBack(LAMBDA v, s : At(staged.data, v, s), staged.kept, staged.truth)

(* A walk over the retained events meets each one once, in order, with the *)
(* sequence number of the transaction that committed it                    *)
(* (ReadState.visit_events behind the history cursor).                     *)
EventsAreWhole ==
    LET data == Load IN
    data # Absent =>
        LET walk == Visit(data, kept + 1, data.current.version) IN
        /\ [i \in DOMAIN walk |-> walk[i].version]
               = [i \in 1 .. data.current.version - kept |-> kept + i]
        /\ \A i \in DOMAIN walk :
               walk[i].event.transaction = truth[walk[i].version].commit

(* The running checkpoint can write what it captured, with keys in order,  *)
(* and an installed one holds all of it: memory never holds a version the  *)
(* disk root it is bound to holds too (TableWriter.append, whose error     *)
(* would fail every later checkpoint).                                     *)
CheckpointIsWritable ==
    /\ job # Absent /\ job.data # Absent => Writable(job.data)
    /\ overlay # Absent => Writable(overlay)
===============================================================================
