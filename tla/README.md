# A verification project for EveDB

EveDB is an embedded, versioned entity store: a transaction stages whole entity
histories on a pinned view, commits go through one write-ahead log, and
checkpoints move what the log says into immutable files that several manifests
may share. This directory holds TLA+ models of the parts where order,
concurrency and failure decide correctness, the TLC runs that check them on
small instances, and TLAPS proofs of their main theorems for every instance.

Source paths below are relative to `src/src/evedb-core/src/`.

## 1. Inventory

| Component | State | Operations | Interacts with | Hard behaviour | What makes it correct |
|---|---|---|---|---|---|
| Shared transactions (`shared.rs`, `database.rs`) | `Coordinator`: database, `revisions`, `catalog_revision`; per transaction a pin and staged entities | pin, stage, commit, drop; leader: validate, flush, publish, record revisions | queue, readers, maintenance (all under the commit mutex) | whole entities and the whole catalog are overwritten with what was staged on an older view; revisions are pruned while transactions are open | no lost update; views are prefixes of the commit order; first committer wins; only real conflicts |
| Commit queue (`commit_queue.rs`, `shared.rs:350-531`) | `waiting`, `running`, `count`, `bytes`; per request its batch and result | submit, cancel, claim, finish; leadership guard | commit mutex, deadlines | cancel races claim; a leader panics or gives up; the mutex is poisoned | counters exact; a claimed request is answered; expired means not committed; every call returns |
| WAL, checkpoints, recovery (`database.rs`, `storage/frame.rs`) | segments, catalogs, files; `ReadState`, `wal_bytes`, `next_generation` | write and sync a group, rotate, build, install, clean up, open | collection decides which files a manifest keeps | crash, I/O error or damage between any two steps | acknowledged transactions survive, in order; recovery succeeds; counters and generation numbers survive too |
| Maintenance (`shared.rs:223-349`, `499-510`) | `running`, `error`, checkpoint tail | automatic, background and explicit jobs; wait | commit mutex at both ends of a job | lost triggers, failed jobs, races for the flag | one job; no orphaned tail; failures are reported; a due WAL drains |
| Collection (`database.rs:498-542`, `681-840`; `snapshot.rs`) | manifest: generations, occupancy, where each entity is | plan, build, install, abandon | commits during a build | counters kept without reading files, partial drains over several checkpoints, a format limit of 256 slots | counters exact; no locator into a dropped generation; copying and manifest size bounded |
| Readers and pins (`reader.rs`) | published state, weak registry of pins | pin, publish, read, clean up | commits, checkpoints | a pin taken while a group or checkpoint is published; files removed one after another under a reader | a pin protects its revisions and every file its state can open |
| Leases and reaper (`deadline.rs`), permits (`resources.rs`) | value, last access, deadlines; counters of permits | with, take, expire, sweep, drop | transactions, snapshots, cursors | expiry against a running operation, callers that never come back | never revoked under an operation; permits exact; abandoned states go |
| Entity history (`model.rs`, `database.rs:1437-1489`, `snapshot.rs`) | base, events, snapshots, disk source | apply, delete, retain, snapshot, seal, rebind, write, read | checkpoints, recovery | a history staged over one checkpoint and committed over another | any version reads the same through every representation |
| Cursor (`cursor.rs`) | position, clone of a snapshot | open, next batch, cancel, drop | leases | limits, cancellation and expiry between batches | every event of the range once, in order |
| Overlay and ordered map (`overlay.rs`, `ordered_map.rs`) | AVL tree, count of bound disk roots | insert, remove, get, floor, range, retain | commits, cleanup | rebalancing, counts kept incrementally | agree with a set; counts cover the roots in use |
| Partitions and B+tree (`partitions.rs`, `storage/index.rs`) | partitions of ids, trees in immutable files, slot translations | build, lookup, floor, scan, carry | collection renumbers slots | boundaries of pages and partitions, a partition carried through several manifests | agree with the set of stored entities |
| Memory reservations (`memory.rs`) | byte counters | grow, release | everything | release on every path | not modelled |
| Pages, heap, pager (`storage/`), codec, checksums, errors, command line, examples | immutable pages and a cache of them | encode, decode, print | - | - | byte formats and I/O: not modelled |

The hazards in `PROJECT.json` list, line by line, what is hard to test here and
which property would catch it.

## 2. Modules

| Module | Models | State and actions in the code |
|---|---|---|
| `SharedCommit` | shared transactions, group commit, revision table, pins | variables are the fields of `Coordinator`, `ReaderShared` and `Staging`; `Claim` ... `Finish` are the parts of `run_group` and `commit_group`, `CaptureCheckpoint`/`InstallCheckpoint` the two ends of `perform_maintenance` |
| `IsolatedStore` | the promise `SharedCommit` implements | transactions with the state they began with, the state of all commits, the visible state; no sequences, pins, revisions, groups or checkpoints |
| `CommitQueue` | the queue in front of the commit mutex | `Submit`, `Cancel`, `ClaimGroup`, `FinishQueue` are the functions of `Queue`; `Lead`, `TryLock`, `GiveUp`, `Panic`, `LeadershipDrop` are `commit`, `run_group` and the `Leadership` guard |
| `WalRecovery` | one directory on disk, the handle that writes it, recovery | `WriteGroup`/`SyncGroup` (`commit_group`), `ReserveGeneration` ... `FinishRotation` (`prepare_checkpoint`), `Build`, `StartInstall`/`FinishInstall`, `CleanupStep`, `Open` (`open_with_options`) |
| `DurableLog` | the promise `WalRecovery` implements | a log, a group being written, up or down; no files |
| `Maintenance` | who starts maintenance and what a failure does | one action per critical section of `checkpoint_background`, `maintain`, `wait_for_maintenance` and the end of `run_group` |
| `Collection` | the collection plan and the manifest it leads to | `Whole`, `Partial`, `Forced` are the two loops of `collection_plan`, `Rewritten` and `DeadAfter` the pass of `CheckpointJob::build`, `Reopen` a handle with other options |
| `EntityHistory` | one entity from staging to disk and back | `Request` is `Transaction`'s operations on a record, `Commit` the rebinding and sealing of `commit_group`, `Capture`/`Install`/`Abandon` a checkpoint, `Written` is `TableWriter::append`, `At` and `RootAt` the readers, `Reopen` recovery by replay |
| `Reclamation` | pins, overlay root counts and cleanup | `PinRead`/`PinRegister` the two halves of `Reader::pin`, `Stage`/`Prepare`/`Commit` what binds a record to a disk root, `Capture` ... `Install` a checkpoint, `Decide`/`RemoveFile` `Cleanup::run` |
| `Lease` | leases, the reaper, permits | `BeginWork`/`EndWork`, `BeginRead`/`EndRead`, `Take`, `Drop`, `Sweep` are the methods of `LeaseState`, `Lease` and `Reaper`; `Admit` and `Free` the permits of `Resources` |
| `HistoryCursor` | cursors over leased snapshots; extends `Lease` | `History`, `Cancel`, `BeginBatch`/`EndBatch` (`next_batch`), `Close`; every step is a step of `Lease` or leaves it alone (`ImplementsLease`) |
| `OrderedMap` | the persistent AVL map | operators named as the functions: `insert`, `remove`, `floor`, `range`, `retain_from` |
| `IndexTree` | one index file of bulk-built B+trees | `Write` is `IndexWriter`, `decode` the validity of a page, `lookup_at`, `floor_at`, `scan_at` the descents |
| `Directory` | overlay over partitioned index; composes the last two | `Commit` fills the map, `Checkpoint` carries, drains or rebuilds partitions and renumbers slots |
| `MCSharedCommit`, `MCCommitQueue`, `MCMaintenance`, `MCEntityHistory`, `MCHistoryCursor` | nothing | model values, small histories and symmetry |
| `SharedCommitProofs`, `CommitQueueProofs`, `WalRecoveryProofs`, `BackgroundProofs` (leases, cursors and maintenance), `ReclamationProofs`, `CollectionProofs`, `EntityHistoryProofs`, `DirectoryProofs` | nothing | theorems |

Three modules are abstract specifications others are checked and proved to implement:
`IsolatedStore` (by `SharedCommit`), `DurableLog` (by `WalRecovery`) and `Lease` (by
`HistoryCursor`).

### Abstractions

* `SharedCommit` represents an entity's history, and the catalog, by the set of
  transactions whose operations it contains. Overwriting an entity is replacing
  that set, so a lost update is a missing member. The order of the queue is left
  to `CommitQueue`: a leader may claim any group in any order, which includes
  FIFO. Admission limits and failing operations are one action, `Drop`.
* `CommitQueue` has the commit as one step (`Work`) that may commit any subset of
  the group, because `SharedCommit` decides which. A caller submits one request, so
  the bytes of a sequence of requests are a sum over the set of them.
* `WalRecovery` represents a root by the transactions it contains and the
  generations whose files it names. A frame is complete or absent and an
  incomplete tail is a flag; what frame checksums detect is assumed detected.
  A stop keeps a prefix of the bytes being written, plus any subset of the
  unlinks of a cleanup. Damage at rest affects one generation's files, by the
  constant `Damage`. Replay is stated by places in segments: the frames it meets are
  those above the root, in the order of segments and positions.
* `Maintenance` counts the WAL in small units of bytes. A group has any size up to
  `MaxGroup` and is written as a whole or refused; a handle is opened with any WAL up
  to `RecoveredWal`, which may exceed the limit. `Collection` sums the per-table
  counters, identifies slots with generations and carries a partition as its
  entities.
* `EntityHistory` gives each field the version that assigned it, so that a lost,
  repeated or misplaced event shows in a state. One transaction over the entity
  is open at a time (`SharedCommit` shows that of two only one commits); commits
  of other entities only advance the sequence. Histories are functions from
  versions. The variables `truth` and `kept` record what was committed and what
  retention allows to forget; no action reads them to decide anything.
* `Reclamation` has one file per generation. A commit publishes in one step,
  which waits for pins that hold the read lock. Which generations a manifest
  keeps is any choice `Build` can make from those the captured root lists, because
  `Collection` decides which. A handle lets go at any time; `Lease` says when.
* `Lease` counts time down: `left`, `idle` and `work` are what remains until a
  limit, and reaching zero is being late. A snapshot's operations run on a
  reference of their own, a transaction's hold the lease's mutex.
* `HistoryCursor` reads events that are versions with a size. A batch is the
  longest prefix of the rest the limits admit, because `visit_events` stops at the
  first event that does not fit. A failed read is possible at any time.
* In `Directory` an index value is a generation slot; the page and position in the
  heap are left out. `OrderedMap` and `IndexTree` are pure. The recursion of the code
  on subtrees, pages and positions is a recursive function on them: in `OrderedMap`
  on `links(t)`, every link of the tree.
* `lsn > root.lsn`, the second condition of `maintenance_due`, follows from a
  nonzero byte count (`WalFramesExact`) and is not repeated in `Maintenance`.

## 3. Runs

| Run | Instance | States | Shows |
|---|---|---|---|
| `shared_commit` | 3 transactions, 1 entity and the catalog, WAL of 2 frames, symmetry | 2.4 million | lost updates, mixed views, missed or invented conflicts, early acknowledgement and pruning under a pin are impossible, and the whole implements `IsolatedStore` |
| `wal_recovery` | 3 transactions in groups of up to 2, 3 generations, WAL limit 2 | 1.5 million | every crash point recovers, and the directory implements `DurableLog` |
| `wal_shared_damage` | 1 transaction, 2 generations, any file damaged | violation | finding 1 |
| `commit_queue` | 3 callers, sizes 1 and 2, queue of 2 requests or 3 bytes, groups of 2 requests or 2 bytes | 320 thousand | exact counters, answered requests, and liveness |
| `maintenance` | 2 leaders, 1 API caller, groups of 1 to 3 bytes, due at 2, limit 3, opened with up to 4 | 130 thousand | one job, no orphaned tail, reported failures, and liveness |
| `maintenance_retry` | 2 leaders, no API caller | violation | finding 2 |
| `collection` | 3 entities, 5 generations, 4 slots, budget of 2 or 4 generations, cap 0 or 1 | 559 thousand | exact occupancy, no dangling locator, bounded copying and manifests, the format's slot limit kept by force |
| `collection_ratio` | ratio one quarter | violation | finding 3 |
| `entity_history` | 1 entity of 2 fields, versions to 3, 3 transactions of 2 requests, 2 checkpoints, retention of 1 event or none, a snapshot every second version, symmetry | 1.5 million | every retained version reads back by snapshot and by replay, every event is walked once, every checkpoint can be written |
| `reclamation` | 2 entities (1 stored at open), 2 handles, 2 checkpoints | 1.6 million | no file somebody may still open is removed |
| `lease_cursor` | 1 snapshot with cursors, 2 transactions, 2 and 1 permits, 4 histories, batches of 2 events or 3 bytes | 258 thousand | permits exact, cursors return whole ranges, abandoned states go |
| `directory` | ids 0 to 3 in 2 partitions, pages of 1 and 2 entries, 3 checkpoints | 13 thousand | map and index agree with the stored set |

### Why the bounds are enough

* A conflict needs two transactions, and the interesting case of pruning needs a
  third whose pin keeps or does not keep a revision. The catalog is a second
  object beside the entity, so views can mix. A WAL of two frames makes the limit
  refuse groups, and lets a checkpoint make room again.
* Due at 2 and full at 3, a WAL is due before it is full, and a group of 3 is refused
  over a WAL of 1 that is not due; opened with 4, it is above the limit. Two leaders
  let one lose its start to the other's job.
* Three generations give a current checkpoint, a retained one and a crashed or
  abandoned third. Groups of two have a proper prefix that may survive.
* Three callers give a leader, a claimed follower and one that is still waiting;
  the queue is full with two.
* Two writers race for a trigger; the caller races for the flag and waits.
* Three entities over five generations in four slots: a partial drain leaves
  entities behind, commits touch both kinds, and the slot limit binds as well as
  the budget of two generations.
* Three versions with retention of one event give a base, a retained event and one
  beyond; a transaction open across one installed checkpoint and into a second is
  rebound twice.
* Cleanup needs a third root before it removes anything, because the previous
  checkpoint is kept. Two handles give a pin that keeps a root and a commit that
  binds a record to another.
* A second transaction waits for the only transaction permit, and a snapshot
  competes with both for the second snapshot permit. Histories of no event, of
  small ones and of one larger than a batch reach every end of a cursor.
* Three ids of one partition with one entry per leaf and two per branch need two
  levels of branches; the fourth id starts the second partition. Three checkpoints
  renumber a carried partition twice.

Deadlock checking is off where the instance ends by design: each handle or caller
is used once, transaction and generation numbers are bounded, and a poisoned or
closed database may stop. It is on in the other runs; `directory` ends in a
stuttering step when its generations are used up.

### Fairness

* `CommitQueue`: time passes for every caller (`DeadlinePasses`; `Transaction::commit`
  always computes a finite `commit_queue` deadline), every waiting caller is
  scheduled (its condition wait times out after at most 10 ms), every leader
  makes progress when it can, and nobody keeps the commit mutex for ever. All of
  it is weak fairness. No fairness is assumed for acquiring the mutex, which
  the leader only polls: maintenance may win every time.
* `Maintenance`: weak fairness of the job thread, and of the writers, i.e. clients
  keep trying to commit. Without the latter a due WAL of an idle database need
  not drain, and does not have to. Callers of the maintenance API are not fair.
  `DueWalDrains` is about a WAL of at least `checkpoint_bytes`. Nothing relates that
  option to `max_uncheckpointed_wal_bytes`: with a smaller limit, or for a group larger
  than what the limit leaves, groups are refused while nothing is due and no error is
  recorded, until an explicit checkpoint (as in the test of WAL admission in
  `shared_tests.rs`). Nor is a large group promised room while smaller ones take it.
* `HistoryCursor`: time passes and the reaper's thread sweeps, a running operation
  ends (its reads are bounded by its deadline), and the commit queue answers
  (`EveryCommitReturns`). Nothing is assumed of callers between their calls: a
  handle may be kept and a cursor never asked again.

## 4. What is proved

`SharedCommitProofs` proves, for every set of transactions, keys and catalog
transactions and every WAL limit: `TypeCorrect`, `NoUpdateIsLost`,
`SnapshotIsolation` (first committer wins), `ViewsAreConsistent`, `PruningIsSafe`,
`AcknowledgedCommitsAreVisible`, `PoisonIsFinal`, `ConflictsAreReal` and
`ImplementsIsolatedStore`.

None of these is inductive alone. The invariant `IInv` adds to the types

* `PhaseInv`: what each phase of a transaction implies about its sequence and
  about the leader (a claimed transaction exists only while a leader validates);
* `SequenceInv`: the published view is the current state except while a group is
  being published, no snapshot is newer than it, and the sequences of the group
  being recorded are above every one already in the revision table;
* `GroupInv`: batches accepted into one group do not overlap, none follows one
  that changes the catalog, and no revision above their pinned sequence touches
  their keys;
* `RevisionsCoverPins`: the table still holds every revision a live transaction
  could be refused for.

The argument: when a batch is published, `GroupInv` says that no commit after its
pin touched its keys or the catalog, neither earlier ones nor those of its own
group; so what it staged on the old view is what the current state holds plus its
own operations (`NoLostUpdate`). `GroupInv` is established by validation, which
asks the revision table, and is right because of `RevisionsCoverPins`;
`RevisionsCoverPins` survives pruning because the pin is registered before the
read lock is released and lives in the batch until it is published.
`PoisonIsFinal` needs one more fact: a poisoned handle is never between the sync
and the publication. `ConflictsAreReal` (a transaction is only refused for a commit,
or an accepted batch of its own group, that really touched its keys or the catalog)
needs `RevisionsAreReal`: every revision in the table is the sequence of a committed
transaction that wrote the key.

`ImplementsIsolatedStore` is the refinement of `IsolatedStore`, where a transaction
commits only if the current state still has what it saw of everything it overwrites
and of the catalog, adds its own writes to that state, becomes visible later, together
with others, and is acknowledged only when visible. A transaction is open there from its pin until
its leader resolves it; `PublishState` is the commit, `PublishReaders` the moment of
visibility, `Finish` the acknowledgement of a group, and every failure, alone, of a
group or of the handle, is `Fail`. The commit is the hard step: the code compares
sequence numbers against a pruned table and overwrites whole entities, the abstract
store compares contents and adds. `GroupInv` gives equal contents, because both
views are the commits up to a sequence (`ViewsArePrefixes`, `NoLostUpdate`) and no
commit between them touched the keys; then overwriting is adding. Acknowledged commits
are visible because the view is published before the results are handed out, and
`CommitsSucceed` says that whoever has a sequence is told so. Installing a checkpoint
publishes what was already visible.

`CommitQueueProofs` proves, for any callers, sizes and limits: `QueueTypes`,
`CountersAreExact`, `ClaimedAreLed` and `ExpiredIsNotWritten`. The invariant adds

* `RequestInv`: where a request is, is what its fields say. It has its batch exactly
  while it waits; without batch and result it is claimed; nobody answers it before;
* `WrittenInv`: what is in the WAL was never, and is not about to be, called off;
* `LeaderInv`: one leader while `running` is set, and a claimed group only after a
  claim.

The race of `cancel` with `claim` is decided by who takes the batch, which is what
`RequestInv` says; a group is only written from claimed requests. The proof met one
state no comment mentions: the request of a leader that panics before it has claimed
its own group waits on without a caller, and a later leader commits it.
The byte counter is a sum over sets of requests, which the first section of the
module develops from the definition of the fold.

`WalRecoveryProofs` proves, for any numbers of transactions, groups, generations,
crashes and recoveries: `RecoveryTypes`, `RecoveryNeverRefuses`,
`AcknowledgedIsHeld`, `FramesAreCounted`, `ReservedIsUnused`, and `PromiseIsKept`,
the refinement of `DurableLog` step by step. All of them assume that damage at rest,
if any, is to the newest checkpoint's own files (`Damage # "any"`): finding 1 is the
counterexample without it. The invariant says

* `DiskInv`: which segments, catalogs and files exist, and that their generations are
  below the next one;
* `LogInv`: the log is in the frames, in the order of segments and positions; every
  root on disk stands for a prefix of it and cuts it between two segments, so the
  transactions above a root are exactly those of its own and later segments;
* `BaseInv`: recovery finds the current root or, once that is damaged, the root
  before it, which heads the current root's segment and whose later transactions are
  all still there;
* `JobInv`, `CleanupInv`, `PendingInv`: what each stage of a checkpoint, a running
  cleanup and an unfinished write have left on disk.

The argument: whatever prefix of a pending write survives is a group's prefix, which
continues the log, or a header or root frame that repeats what the log already says;
so the survivors are frames of one log. The newest root that verifies is the current
one or the retained one, both cover the log, and because every root cuts the log
between segments the frames replayed above it number the rest without a gap. Cleanup
removes nothing the retained root needs.

`BackgroundProofs` proves of `Maintenance`, for any threads and limits: `TypeCorrect` (the WAL
counter does not underflow although installation subtracts what was captured
earlier, and only a WAL the handle was opened with lies above the limit), `OneJobAtATime`, `NoOrphanedTail` and `FailuresAreReported`. Its
invariant adds `FrontierInv` (the captured frontier is at most the counter while a
job builds, abandons or installs), `StageInv` (a thread has a stage exactly while it
has a job) and `OutcomeInv` (only a job that ends has failed; the last outcome is
the one about to be recorded, or a failure that is on record).

`ReclamationProofs` proves, for any entities, handles and number of checkpoints,
`CleanupIsSafe`. Its invariant adds to the types

* `StateInv`: every root the published state uses is safe (its manifest stays, its
  files exist and the running cleanup keeps them), its overlay counts are exact, and
  its records are bound to no root but the current and the previous one;
* `HandleInv`: the same of every live handle's state, except that its roots may be
  older; a pin that is not registered yet has the published state;
* `TailInv`, `JobInv`: what a commit during a build is bound to, and that the build
  lists only files that exist and drops no entity.

The argument: a commit rebinds its record whenever the current root holds the
entity, and the current root holds every entity that any older state has on disk
(`Holds`), so a published overlay only ever needs the current root and the one
before, which is the baseline cleanup keeps. Older roots are needed by registered
pins, and their counts, exact through every `insert`, name them. A pin caught
between taking the state and registering has the published state and so needs no
more than the baseline. Manifests in use are never overwritten because their
generations are below the one being built.

`CollectionProofs` proves, for any numbers and options, `CountersAreExact`,
`LocatorsAlwaysResolve`, `CollectionTypeCorrect`, `ManifestsFit` and the action
properties `BudgetsHold` and `CopiesAreBounded`. The invariant adds that generations of the manifest are older than the one being built and that a
running job's plan is within the manifest. For the slots, the generations that stay
have distinct places in the queue, all among the last `MaxSlots - 2`; this needs
that the order of the queue is total, which the tie-break by number gives. For the
budgets (`BudgetInv`), the sums of live entities the plan computes are numbers of
located entities, because the counters are exact. Without a cap the copy budget never
ends the plan, so the first generation it leaves is one at which the generation budget
holds, and everything before that one is collected. With a cap the generations taken
whole are the first of the queue, at most one is taken in part and it comes next, and
its quota is what the budget has left; the pass moves the first entities by id, no
more of them than the quota.

`BackgroundProofs` also proves that `HistoryCursor` implements `Lease` and, for any handles,
limits and timeouts, that permits are exact in both. The invariant `HoldersInv`
divides the holders: values and operations belong to handles not yet dropped, a
transaction's operation is inside its lease, a commit has taken the value away.
`RangesAreRead` proves `CursorReadsItsRange` for any histories, ranges and limits:
the batches of a cursor, concatenated, are the versions from its first to its next
one, which is beyond the last exactly when it is done. Each batch continues them
because `Admitted` starts at the next version and never passes the last.

`EntityHistoryProofs` proves, for any fields, snapshot interval and retention and any
number of versions, transactions, checkpoints and reopenings: `VersionsReadBack`,
`EventsAreWalkedOnce` and `CheckpointsAreWritable`. The first part of the module says
what a piece of state stands for, given the states of the versions:

* `Image`: a root holds the versions `k` to `t`, with their events, the numbers of
  their commits, and some of their states as snapshots;
* `Rec`: a record holds the versions `k` to `t`; those up to `p` are read from a root
  that starts no later than `k`, the published events in memory are exactly those
  after `k` and `p` and up to `m`, and the transaction's own are those after `m`;
* `Path`: a sequence of operations leads from one pair of current and oldest kept
  version to another, whatever record it is run on.

Each operator of the model has a lemma on these: `RecordReads` (every split between
memory, snapshots and disk gives the same state), `StepStands` and `RunStands` (an
operation leads as `Path` says), `BoundStands` (rebinding to a newer root), `RestampStands`,
`SealStands`, `WrittenImage` (what a checkpoint writes is an image again),
`ReplayedStands` (recovery). The inductive invariant `HistoryInv` then says that there
are functions `T` and `K` from sequence numbers to the current and the oldest kept
version such that every root, the overlay, the tail and the captured record stand for
the versions at their sequence number, every log entry is a path from the number
before to its own, and a number without a log entry after the older root changes
nothing. The argument for recovery: `Path` is about versions and not about records,
so the operations a transaction ran on a record bound to one root lead a record
rebuilt from another root to the same versions. For rebinding: the record's own disk
is never newer than the current root, so what rebinding drops from memory the new
root holds. `HistoryInv` quantifies over functions, so TLC does not evaluate it; it
checks what follows from it.

Assumptions are the named `ASSUME`s of the modules: limits are naturals, threads
of the two kinds are distinct, sets of entities and handles are finite,
`checkpoint_bytes` is at most the WAL limit, retention counts and snapshot intervals
are naturals, and a generation budget is at least two
and at most the slot limit. TLC evaluates them in every run.

`DirectoryProofs` proves of the ordered map, for AVL trees of every size and any
integer keys: `InsertActs`, `JoinActs`, `RemoveActs`, `RetainActs`, `GetFinds`,
`FloorFinds` and `RangeReturns`. `AVL(t)` says of every node of the tree that its
stored height is right, that its subtrees differ in height by one at most, and that
their keys are on their sides; `Pairs(t)` are the entries. `Rebalance` is the core:
over two AVL trees whose heights differ by two at most, `balance` gives an AVL tree of
the same entries, in the four cases of which grandchild is the tall one
(`RotateRight`, `RotateTwiceRight` and their mirror images). `insert` and `join` meet
its condition because an insertion makes a subtree at most one level higher and a join
is at most one level higher than the higher tree, which is also why `remove` and
`retain_from`, which join subtrees of any heights, end balanced. For `range` the
invariant `Ranging` says what the stack stands for: each node on it for itself and its
right subtree, all of them above what was returned; each call takes a node of the tree
off it for good. `OverlayMapAgrees` then proves `MapAgrees` from `OverlayInv`: the
overlay is an AVL tree of exactly the touched entities.

Recursive definitions (the folds of the community modules, `Replay`, `Run`, the operations of `OrderedMap`) are unfolded by hand: a
lemma shows that the function they choose exists, another that two such functions
agree, both from a least counterexample, which the library's facts on well-founded
orders provide (`LeastNatural`, `SmallestSet`). For `OrderedMap` this is done once
(`ComputedExists`, `ValueIs`) for every step that asks only for links lower than its own.

Only model-checked: the liveness properties (fairness and ENABLED are outside the
prover) and `DirectoryAgrees`, which joins the bulk-built trees of `IndexTree` with the
partitions and slots of every earlier checkpoint.

## 5. Findings

1. `wal_shared_damage`: the newest root that verifies is selected, even one whose
   segments were already removed. With no transaction frame left after two
   checkpoints in a row, damage to a shared file opens an empty database although
   `docs/storage.md` says corruption is reported.
2. `maintenance_retry`: the error that is to stop automatic retries is read in
   another critical section than the one that starts the job.
3. `collection_ratio`: the comment on `compact_live_ratio` describes the superseded
   share, the code and `docs/storage.md` the live share.

## 6. What is not modelled, and the plan

Not modelled on purpose:

* byte formats, checksums, error texts, the command line, benchmarks;
* the pager's cache: pages are immutable, so what it returns does not depend on
  what it evicts, and its bound is one comparison under its mutex;
* byte reservations (`memory.rs`): sums of estimated sizes given back when an owner
  is dropped. Permits, whose release races with expiry, are in `Lease`;
* the loop of `HistoryCursor::events`, which only lowers the byte limit from one
  `next_batch` to the next;
* sector reordering by the storage device, and a crash inside `initialize` (no data
  exists yet);
* a panic of the maintenance thread: `Maintenance` has its errors as results.

Next:

`DirectoryAgrees` for every size: that a descent in a tree `Write` built ends in the
leaf of its key, and that the slots of a carried partition name the generations its
entries were written to.
