------------------------------ MODULE Reclamation ------------------------------
(***************************************************************************)
(* Which files a checkpoint's cleanup deletes while snapshots and          *)
(* transactions still read older states: the list of pins, the             *)
(* overlay's count of the disk roots its records are bound to, rebinding   *)
(* at commit, and the removal of one file after another.                   *)
(*                                                                         *)
(* A generation's files are one file with the generation's number.  What a *)
(* manifest lists and which entities it holds is `manifest`, by generation; *)
(* it never changes once installed, so a root is its generation.  What the *)
(* coordinator's mutex hides (database state changed, readers not yet      *)
(* told) is one step, which waits for pins that hold the read lock.        *)
(* A transaction writes one entity; two of them write a shared overlay.    *)
(* When a handle lets go of its state is Lease's subject: here, at any     *)
(* time its caller, an operation or the reaper may.                        *)
(***************************************************************************)
EXTENDS Integers, FiniteSets

CONSTANTS
    Keys,          \* entities
    Stored,        \* those of them the database holds when it is opened
    Handles,       \* snapshots and transactions that callers hold
    NoKey,         \* a handle that staged nothing
    MaxGen         \* bound: checkpoint generations

ASSUME KeysAssumption == /\ IsFiniteSet(Keys) /\ NoKey \notin Keys
                         /\ Stored \subseteq Keys
ASSUME GenAssumption == MaxGen \in Nat

VARIABLES
    disk,       \* files that exist, by generation
    manifest,   \* installed manifests: files listed and entities held
    state,      \* ReaderShared.current and Database.state: root and overlay
    previous,   \* the root before it, kept as the recovery baseline
    tail,       \* Database.checkpoint_tail
    job,        \* the maintenance job: building, built or cleaning up
    nextGen,    \* Database.next_generation
    handle      \* what each caller holds

vars == <<disk, manifest, state, previous, tail, job, nextGen, handle>>

-----------------------------------------------------------------------------
Gens == 0 .. MaxGen

(* An overlay entry is the root its history lies in, NoDisk for a record   *)
(* that is all in memory, Out for an entity the overlay does not hold.     *)
NoDisk == -1
Out == -2
Bindings == Gens \union {NoDisk, Out}

Manifests == [files : SUBSET Gens, keys : SUBSET Keys]
Overlays == [entries : [Keys -> Bindings], owners : [Gens -> Nat]]
States == [root : Gens, overlay : Overlays]

EmptyOverlay == [entries |-> [k \in Keys |-> Out], owners |-> [g \in Gens |-> 0]]
EmptyState == [root |-> 0, overlay |-> EmptyOverlay]

(* The disk root a record counts for, NoDisk if none.                      *)
OwnedRoot(binding) == IF binding \in Gens THEN binding ELSE NoDisk

(* Mutant of OverlayInsert: the root the replaced record had is forgotten. *)
OverlayInsertForgets(o, k, binding) ==
    [entries |-> [o.entries EXCEPT ![k] = binding],
     owners |-> [g \in Gens |->
        IF g = o.entries[k] THEN 0
        ELSE IF g = binding THEN o.owners[g] + 1 ELSE o.owners[g]]]

(* Overlay.insert: each root is listed once with the number of records     *)
(* bound to it.                                                            *)
OverlayInsert(o, k, binding) ==
    LET old == OwnedRoot(o.entries[k])
        new == OwnedRoot(binding)
    IN  [entries |-> [o.entries EXCEPT ![k] = binding],
         owners |-> IF old = new THEN o.owners
                    ELSE [g \in Gens |-> CASE g = old -> o.owners[g] - 1
                                           [] g = new -> o.owners[g] + 1
                                           [] OTHER -> o.owners[g]]]

(* ReadState.file_sizes: the root's files and those of the overlay's roots. *)
Files(s) ==
    manifest[s.root].files
    \union UNION {manifest[g].files : g \in {x \in Gens : s.overlay.owners[x] > 0}}

(* What reads through a state open: the root's files and, for each record, *)
(* those of the root its history lies in.                                  *)
Needed(s) ==
    manifest[s.root].files
    \union UNION {manifest[g].files : g \in {x \in Gens :
                     \E k \in Keys : s.overlay.entries[k] = x}}

(* ReadState.load: the record of the overlay, else the root's if it has    *)
(* one.                                                                    *)
Load(s, k) ==
    CASE s.overlay.entries[k] # Out -> s.overlay.entries[k]
      [] k \in manifest[s.root].keys -> s.root
      [] OTHER -> NoDisk

-----------------------------------------------------------------------------
NoJob == [phase |-> "none", gen |-> 0, state |-> EmptyState,
          built |-> [files |-> {}, keys |-> {}], keep |-> {}]
NoHandle == [phase |-> "idle", state |-> EmptyState, key |-> NoKey, bound |-> NoDisk]

Jobs == [phase : {"none", "building", "built", "installed", "removing"}, gen : Gens,
         state : States, built : Manifests, keep : SUBSET Gens]
HandleStates == [phase : {"idle", "pinning", "held", "prepared"}, state : States,
                 key : Keys \union {NoKey}, bound : Gens \union {NoDisk}]

(* A database just opened on its checkpoint, generation 0, with no         *)
(* transaction in the log.                                                 *)
Init ==
    /\ disk = {0}
    /\ manifest = [g \in Gens |-> IF g = 0 THEN [files |-> {0}, keys |-> Stored]
                                  ELSE [files |-> {}, keys |-> {}]]
    /\ state = EmptyState
    /\ previous = 0
    /\ tail = EmptyOverlay
    /\ job = NoJob
    /\ nextGen = 1
    /\ handle = [h \in Handles |-> NoHandle]

(* Handles whose SnapshotData exists, and those of them the list of pins   *)
(* names.                                                                  *)
Live == {h \in Handles : handle[h].phase # "idle"}
Pinning == {h \in Handles : handle[h].phase = "pinning"}
Registered == Live \ Pinning

-----------------------------------------------------------------------------
(* Pins.                                                                   *)

(* Reader.pin under the read lock: the state is taken ...                  *)
PinRead(h) ==
    /\ handle[h].phase = "idle"
    /\ handle' = [handle EXCEPT ![h] = [NoHandle EXCEPT !.phase = "pinning", !.state = state]]
    /\ UNCHANGED <<disk, manifest, state, previous, tail, job, nextGen>>

(* ... and the pin is listed before the lock is given back.                *)
PinRegister(h) ==
    /\ handle[h].phase = "pinning"
    /\ handle' = [handle EXCEPT ![h].phase = "held"]
    /\ UNCHANGED <<disk, manifest, state, previous, tail, job, nextGen>>

(* The last reference to a handle's SnapshotData goes: dropped, expired,   *)
(* or a commit refused for a conflict, a timeout or an I/O error.          *)
Release(h) ==
    /\ handle[h].phase \in {"held", "prepared"}
    /\ handle' = [handle EXCEPT ![h] = NoHandle]
    /\ UNCHANGED <<disk, manifest, state, previous, tail, job, nextGen>>

(* Staging: a transaction's operation loads and changes its entity.        *)
Stage(h, k) ==
    /\ handle[h].phase = "held"
    /\ handle[h].key = NoKey
    /\ handle' = [handle EXCEPT ![h].key = k, ![h].bound = Load(handle[h].state, k)]
    /\ UNCHANGED <<disk, manifest, state, previous, tail, job, nextGen>>

-----------------------------------------------------------------------------
(* Commits.                                                                *)

(* Transaction.commit takes the data out of its lease, pin included, and   *)
(* queues it.                                                              *)
Prepare(h) ==
    /\ handle[h].phase = "held"
    /\ handle[h].key # NoKey
    /\ handle' = [handle EXCEPT ![h].phase = "prepared"]
    /\ UNCHANGED <<disk, manifest, state, previous, tail, job, nextGen>>

(* A checkpoint moved the history since: the record is bound to the root   *)
(* that holds it now.                                                      *)
Rebound(h) ==
    LET bound == handle[h].bound
        moved == \/ handle[h].state.root # state.root
                 \/ bound \in Gens /\ bound # state.root
    IN  IF moved /\ handle[h].key \in manifest[state.root].keys THEN state.root ELSE bound

(* commit_group and publish_state, to the published read state.            *)
Commit(h) ==
    /\ handle[h].phase = "prepared"
    /\ Pinning = {}
    /\ state' = [state EXCEPT !.overlay = OverlayInsert(@, handle[h].key, Rebound(h))]
    /\ tail' = IF job.phase \in {"building", "built"}
               THEN OverlayInsert(tail, handle[h].key, Rebound(h)) ELSE tail
    /\ handle' = [handle EXCEPT ![h] = NoHandle]
    /\ UNCHANGED <<disk, manifest, previous, job, nextGen>>

-----------------------------------------------------------------------------
(* Maintenance: one job at a time, cleanup included.                       *)

Capture ==
    /\ job.phase = "none"
    /\ nextGen <= MaxGen
    /\ job' = [NoJob EXCEPT !.phase = "building", !.gen = nextGen, !.state = state]
    /\ nextGen' = nextGen + 1
    /\ tail' = EmptyOverlay
    /\ UNCHANGED <<disk, manifest, state, previous, handle>>

(* The new manifest lists the new file and, of the files the captured      *)
(* state reads, those still holding a record or an event.                  *)
Build(kept) ==
    LET held == manifest[job.state.root].keys
                \union {k \in Keys : job.state.overlay.entries[k] # Out}
    IN
    /\ job.phase = "building"
    /\ kept \subseteq Needed(job.state)
    /\ disk' = disk \union {job.gen}
    /\ job' = [job EXCEPT !.phase = "built",
                          !.built = [files |-> kept \union {job.gen}, keys |-> held]]
    /\ UNCHANGED <<manifest, state, previous, tail, nextGen, handle>>

(* A build that fails may have written its file.                           *)
Abandon(written) ==
    /\ job.phase = "building"
    /\ disk' = IF written THEN disk \union {job.gen} ELSE disk
    /\ job' = NoJob
    /\ tail' = EmptyOverlay
    /\ UNCHANGED <<manifest, state, previous, nextGen, handle>>

Install ==
    /\ job.phase = "built"
    /\ Pinning = {}
    /\ manifest' = [manifest EXCEPT ![job.gen] = job.built]
    /\ state' = [root |-> job.gen, overlay |-> tail]
    /\ previous' = state.root
    /\ tail' = EmptyOverlay
    /\ job' = [NoJob EXCEPT !.phase = "installed", !.state = state']
    /\ UNCHANGED <<disk, nextGen, handle>>

(* Cleanup.run: what the installed state, the recovery baseline and the    *)
(* pins registered by now list.                                            *)
KeepSet ==
    manifest[previous].files \union Files(job.state)
        \union UNION {Files(handle[h].state) : h \in Registered}

Decide ==
    /\ job.phase = "installed"
    /\ job' = [NoJob EXCEPT !.phase = "removing", !.keep = KeepSet]
    /\ UNCHANGED <<disk, manifest, state, previous, tail, nextGen, handle>>

(* prune removes the files not kept, one after another ...                 *)
RemoveFile(f) ==
    /\ job.phase = "removing"
    /\ f \in disk \ job.keep
    /\ disk' = disk \ {f}
    /\ UNCHANGED <<manifest, state, previous, tail, job, nextGen, handle>>

(* ... until none is left, or one could not be removed.                    *)
CleanupEnds ==
    /\ job.phase = "removing"
    /\ job' = NoJob
    /\ UNCHANGED <<disk, manifest, state, previous, tail, nextGen, handle>>

(* The process ends and the database is opened again: replay binds the     *)
(* records of the log to the root that holds them.  Handles and the job    *)
(* are gone, files no manifest lists stay.                         *)
Reopen ==
    LET bound(k) == CASE state.overlay.entries[k] = Out -> Out
                      [] k \in manifest[state.root].keys -> state.root
                      [] OTHER -> NoDisk
    IN
    /\ state' = [state EXCEPT !.overlay =
          [entries |-> [k \in Keys |-> bound(k)],
           owners |-> [g \in Gens |-> Cardinality({k \in Keys : bound(k) = g})]]]
    /\ tail' = EmptyOverlay
    /\ job' = NoJob
    /\ handle' = [h \in Handles |-> NoHandle]
    /\ UNCHANGED <<disk, manifest, previous, nextGen>>

Next ==
    \/ \E h \in Handles : \/ PinRead(h) \/ PinRegister(h) \/ Release(h)
                          \/ Prepare(h) \/ Commit(h)
                          \/ \E k \in Keys : Stage(h, k)
    \/ Capture
    \/ \E kept \in SUBSET Gens : Build(kept)
    \/ \E written \in BOOLEAN : Abandon(written)
    \/ Install
    \/ Decide
    \/ \E f \in Gens : RemoveFile(f)
    \/ CleanupEnds
    \/ Reopen

Spec == Init /\ [][Next]_vars

-----------------------------------------------------------------------------
TypeOK ==
    /\ disk \subseteq Gens
    /\ manifest \in [Gens -> Manifests]
    /\ state \in States
    /\ previous \in Gens
    /\ tail \in Overlays
    /\ job \in Jobs
    /\ nextGen \in 1 .. MaxGen + 1
    /\ handle \in [Handles -> HandleStates]

(* Every file that the published state, a live snapshot or transaction, or *)
(* the running build may open exists, and so do those of the recovery      *)
(* baseline, whatever cleanup removes meanwhile (Cleanup.run decides from  *)
(* the pins of one moment).                                                *)
ReadableFilesExist ==
    /\ Needed(state) \subseteq disk
    /\ manifest[previous].files \subseteq disk
    /\ \A h \in Live : Needed(handle[h].state) \subseteq disk
    /\ \A h \in Live : handle[h].bound \in Gens => manifest[handle[h].bound].files \subseteq disk
    /\ job.phase \in {"building", "built"} => Needed(job.state) \subseteq disk
===============================================================================
