----------------------------- MODULE WalRecovery -----------------------------
(***************************************************************************)
(* The durable side of one EveDB directory: WAL segments, checkpoint roots *)
(* and the files they name, the steps of a checkpoint, a crash between any *)
(* two of them, and recovery.                                              *)
(*                                                                         *)
(* A root is the logical content it stands for (the ids of the             *)
(* transactions it contains) with the generations whose files hold it.     *)
(* Frames are complete or absent; an incomplete tail is a flag of its      *)
(* segment.  A stop leaves any prefix of the bytes being written.          *)
(***************************************************************************)
EXTENDS Integers, Sequences, FiniteSets, SequencesExt, FiniteSetsExt

CONSTANTS
    MaxTx,      \* bound: transactions ever issued
    MaxGen,     \* bound: generations ever reserved after generation 0
    MaxGroup,   \* group_commit.max_transactions
    MaxWal,     \* max_uncheckpointed_wal_bytes, in frames
    Damage      \* which checkpoint files may be damaged at rest:
                \* "none", "newest" (what the newest root wrote) or "any"

ASSUME BoundsAssumption == /\ MaxTx \in Nat /\ MaxGen \in Nat /\ MaxWal \in Nat
                           /\ MaxGroup \in Nat \ {0}
ASSUME DamageAssumption == Damage \in {"none", "newest", "any"}

VARIABLES
    segments,   \* WAL segments that exist
    wal,        \* complete, synchronized frames of each segment
    torn,       \* segments that end in an incomplete frame
    catalogs,   \* generations with a catalog file
    files,      \* generations with data files
    damaged,    \* generations whose data files fail their checksum
    pending,    \* frames written to a segment and not yet synchronized
    status,     \* "up", "poisoned", "down" or "corrupt" (open failed)
    applied,    \* ReadState: ids of the committed transactions, in order
    root,       \* ReadState.root
    active,     \* the segment commits go to
    nextGen,    \* Database.next_generation
    job,        \* the checkpoint being made
    cleanup,    \* the Cleanup of the last installed checkpoint
    walFrames,  \* Database.wal_bytes, in frames
    nextId,     \* observer: identity of the next transaction
    acked       \* observer: transactions whose commit returned a sequence

disk == <<segments, wal, torn, catalogs, files, damaged>>
memory == <<status, applied, root, active, nextGen, walFrames>>
vars == <<disk, pending, memory, job, cleanup, nextId, acked>>

-----------------------------------------------------------------------------
Gens == 0..(MaxGen + 1)

TxFrame(n, id) == [kind |-> "tx", lsn |-> n, id |-> id]
RootFrame(r) == [kind |-> "root", lsn |-> r.lsn, root |-> r]

EmptyRoot == [gen |-> 0, lsn |-> 0, log |-> <<>>, files |-> {}]

NoWrite == [seg |-> 0, frames |-> <<>>]
NoJob == [stage |-> "none"]
NoCleanup == [stage |-> "none"]

lsn == Len(applied)

(* Database::initialize has run and the first open succeeded. *)
Init ==
    /\ segments = {0}
    /\ wal = [g \in Gens |-> IF g = 0 THEN <<RootFrame(EmptyRoot)>> ELSE <<>>]
    /\ torn = {}
    /\ catalogs = {0}
    /\ files = {}
    /\ damaged = {}
    /\ pending = NoWrite
    /\ status = "up"
    /\ applied = <<>>
    /\ root = EmptyRoot
    /\ active = 0
    /\ nextGen = 1
    /\ job = NoJob
    /\ cleanup = NoCleanup
    /\ walFrames = 0
    /\ nextId = 1
    /\ acked = {}

(* Nobody holds the commit mutex across a write: the handle is usable and no
   frame is half way to the disk.                                           *)
Ready == status = "up" /\ pending = NoWrite

-----------------------------------------------------------------------------
(* Commits. *)

WriteGroup(n) ==
    /\ Ready /\ job.stage # "rotating"
    /\ nextId + n - 1 <= MaxTx
    /\ walFrames + n <= MaxWal
    /\ pending' = [seg |-> active,
                   frames |-> [i \in 1..n |-> TxFrame(lsn + i, nextId + i - 1)]]
    /\ nextId' = nextId + n
    /\ UNCHANGED <<disk, memory, job, cleanup, acked>>

Ids(frames) == [i \in 1..Len(frames) |-> frames[i].id]

WritingGroup == pending # NoWrite /\ pending.frames[1].kind = "tx"

SyncGroup ==
    /\ status = "up" /\ WritingGroup
    /\ wal' = [wal EXCEPT ![pending.seg] = @ \o pending.frames]
    /\ applied' = applied \o Ids(pending.frames)
    /\ acked' = acked \union ToSet(Ids(pending.frames))
    /\ walFrames' = walFrames + Len(pending.frames)
    /\ pending' = NoWrite
    /\ UNCHANGED <<segments, torn, catalogs, files, damaged, status, root, active,
                   nextGen, job, cleanup, nextId>>

(* An I/O error in a commit, a rotation or the publication of a root. *)
WriteFails ==
    /\ status = "up" /\ pending # NoWrite
    /\ status' = "poisoned"
    /\ UNCHANGED <<disk, pending, applied, root, active, nextGen, walFrames, job,
                   cleanup, nextId, acked>>

-----------------------------------------------------------------------------
(* A checkpoint: prepare_checkpoint, build, install_checkpoint, cleanup.   *)

(* Reserves the generation and creates its catalog file, or fails to. *)
ReserveGeneration ==
    /\ Ready /\ job = NoJob /\ cleanup = NoCleanup
    /\ nextGen <= MaxGen
    /\ nextGen' = nextGen + 1
    /\ \/ /\ catalogs' = catalogs \union {nextGen}
          /\ job' = [stage |-> "rotating", gen |-> nextGen]
       \/ UNCHANGED <<catalogs, job>>
    /\ UNCHANGED <<segments, wal, torn, files, damaged, pending, status, applied,
                   root, active, walFrames, cleanup, nextId, acked>>

(* Creates the new segment and writes its header, the current root; a segment
   that cannot be created ends the attempt and leaves the handle usable.    *)
StartRotation ==
    /\ Ready /\ job.stage = "rotating"
    /\ \/ /\ segments' = segments \union {job.gen}
          /\ pending' = [seg |-> job.gen, frames |-> <<RootFrame(root)>>]
          /\ UNCHANGED job
       \/ job' = NoJob /\ UNCHANGED <<segments, pending>>
    /\ UNCHANGED <<wal, torn, catalogs, files, damaged, memory, cleanup, nextId, acked>>

(* Only now does the handle write to the new segment; the state is frozen. *)
FinishRotation ==
    /\ status = "up" /\ pending # NoWrite /\ job.stage = "rotating"
    /\ wal' = [wal EXCEPT ![job.gen] = pending.frames]
    /\ active' = job.gen
    /\ job' = [stage |-> "building", gen |-> job.gen, log |-> applied,
               frontier |-> walFrames]
    /\ pending' = NoWrite
    /\ UNCHANGED <<segments, torn, catalogs, files, damaged, status, applied, root,
                   nextGen, walFrames, cleanup, nextId, acked>>

(* The new manifest keeps the files of the generations it does not collect; every
   table of the catalog gets files of the new generation, and a catalog is
   empty only before the first transaction.                                 *)
NewRoot(kept) ==
    [gen |-> job.gen, lsn |-> Len(job.log), log |-> job.log,
     files |-> kept \union (IF job.log = <<>> THEN {} ELSE {job.gen})]

Build ==
    /\ status = "up" /\ job.stage = "building"
    /\ \E kept \in SUBSET root.files :
          /\ job' = [stage |-> "built", root |-> NewRoot(kept), frontier |-> job.frontier]
          /\ files' = files \union (NewRoot(kept).files \ kept)
    /\ UNCHANGED <<segments, wal, torn, catalogs, damaged, pending, memory, cleanup,
                   nextId, acked>>

(* A failed build may leave files of its generation; the tail is dropped.  *)
AbandonCheckpoint ==
    /\ status = "up" /\ job.stage = "building"
    /\ files' \in {files, files \union {job.gen}}
    /\ job' = NoJob
    /\ UNCHANGED <<segments, wal, torn, catalogs, damaged, pending, memory, cleanup,
                   nextId, acked>>

StartInstall ==
    /\ Ready /\ job.stage = "built"
    /\ pending' = [seg |-> active, frames |-> <<RootFrame(job.root)>>]
    /\ UNCHANGED <<disk, memory, job, cleanup, nextId, acked>>

(* Mutants: the frames of the commits made during the build are forgotten; the
   difference is taken the other way round.                                 *)
FramesAfterInstallZero == 0
FramesAfterInstallSwapped == job.frontier - walFrames

FramesAfterInstall == walFrames - job.frontier

FinishInstall ==
    /\ status = "up" /\ pending # NoWrite /\ job.stage = "built" /\ ~WritingGroup
    /\ wal' = [wal EXCEPT ![pending.seg] = @ \o pending.frames]
    /\ root' = job.root
    /\ walFrames' = FramesAfterInstall
    /\ cleanup' = [stage |-> "running", previous |-> root, current |-> job.root]
    /\ job' = NoJob
    /\ pending' = NoWrite
    /\ UNCHANGED <<segments, torn, catalogs, files, damaged, status, applied, active,
                   nextGen, nextId, acked>>

(* Mutant: segments older than the new root go, instead of the previous one. *)
ObsoleteSegmentsEager == {s \in segments : s < cleanup.current.gen}

ObsoleteSegments == {s \in segments : s < cleanup.previous.gen}

ObsoleteCatalogs == catalogs \ {cleanup.previous.gen, cleanup.current.gen}

(* Mutant: only the new manifest is kept. *)
ObsoleteFilesCurrentOnly == files \ cleanup.current.files

ObsoleteFiles == files \ (cleanup.previous.files \union cleanup.current.files)

(* Cleanup::run outside the commit mutex, one unlink at a time.  No directory
   is synchronized before the end, so a crash keeps any subset.            *)
CleanupStep ==
    /\ status = "up" /\ cleanup.stage = "running"
    /\ \/ /\ \E s \in ObsoleteSegments : /\ segments' = segments \ {s}
                                         /\ wal' = [wal EXCEPT ![s] = <<>>]
                                         /\ torn' = torn \ {s}
          /\ UNCHANGED <<catalogs, files, damaged>>
       \/ /\ \E g \in ObsoleteCatalogs : catalogs' = catalogs \ {g}
          /\ UNCHANGED <<segments, wal, torn, files, damaged>>
       \/ /\ \E f \in ObsoleteFiles : files' = files \ {f} /\ damaged' = damaged \ {f}
          /\ UNCHANGED <<segments, wal, torn, catalogs>>
    /\ UNCHANGED <<pending, memory, job, cleanup, nextId, acked>>

(* Complete, or given up after an error: the checkpoint is installed anyway. *)
CleanupEnds ==
    /\ status = "up" /\ cleanup.stage = "running"
    /\ cleanup' = NoCleanup
    /\ UNCHANGED <<disk, pending, memory, job, nextId, acked>>

-----------------------------------------------------------------------------
(* Stop, damage and recovery. *)

(* The process ends; what it was writing stays undecided until open. *)
Crash ==
    /\ status \in {"up", "poisoned"}
    /\ status' = "down"
    /\ job' = NoJob /\ cleanup' = NoCleanup
    /\ UNCHANGED <<disk, pending, applied, root, active, nextGen, walFrames, nextId, acked>>

(* The complete frames of the directory, by segment and position. *)
Places(w) == UNION {{s} \X DOMAIN w[s] : s \in segments}
FrameAt(w, p) == w[p[1]][p[2]]
Precedes(p, q) == p[1] < q[1] \/ (p[1] = q[1] /\ p[2] < q[2])

RootPlaces(w) == {p \in Places(w) : FrameAt(w, p).kind = "root"}
RootsIn(w) == {FrameAt(w, p).root : p \in RootPlaces(w)}

NewestRoot(roots) == CHOOSE r \in roots : \A q \in roots : q.gen <= r.gen

DamageFile ==
    /\ status = "down"
    /\ damaged = {}
    /\ \E f \in files :
          /\ \/ Damage = "any"
             \/ Damage = "newest" /\ f = NewestRoot(RootsIn(wal)).gen
          /\ damaged' = {f}
    /\ UNCHANGED <<segments, wal, torn, catalogs, files, pending, memory, job,
                   cleanup, nextId, acked>>

(* Root::verify reads every file the manifest names. *)
Verifies(r) == r.files \subseteq files \ damaged

(* The segments with a complete frame, and the last one of them. *)
WithFrames(w) == {s \in segments : w[s] # <<>>}
ActiveSegment(w) == Max(WithFrames(w))

(* Mutant: replay starts with the segment after the root's generation. *)
ReplayedSegmentsLater(w, r) ==
    {s \in WithFrames(w) : r.gen < s /\ s <= ActiveSegment(w)}

(* The segments replayed over a root.  The commits made while the root was built
   are in the segment of its own generation.                                *)
ReplayedSegments(w, r) ==
    {s \in WithFrames(w) : r.gen <= s /\ s <= ActiveSegment(w)}

(* Where the transaction frames above the root are. *)
Replay(w, r) ==
    LET read == ReplayedSegments(w, r)
    IN  {p \in Places(w) : /\ p[1] \in read
                           /\ FrameAt(w, p).kind = "tx" /\ FrameAt(w, p).lsn > r.lsn}

(* A frame continues the root and the frames before it, without a gap or a
   duplicate.                                                               *)
StrictSequence(w, r) ==
    LET read == Replay(w, r)
    IN  \A p \in read :
            FrameAt(w, p).lsn = r.lsn + Cardinality({q \in read : Precedes(q, p)}) + 1

(* The transactions replayed, in their order. *)
ReplayedIds(w, r) ==
    LET read == Replay(w, r)
    IN  [n \in 1..Cardinality(read) |->
            FrameAt(w, CHOOSE p \in read : FrameAt(w, p).lsn = r.lsn + n).id]

(* Every other replayed segment ends with a complete frame. *)
SealedComplete(w, t, r) == \A s \in ReplayedSegments(w, r) \ {ActiveSegment(w)} : s \notin t

(* Every segment starts with a root and holds none of a later generation. *)
HeadersPresent(w) ==
    /\ \A s \in WithFrames(w) : w[s][1].kind = "root"
    /\ \A p \in RootPlaces(w) : FrameAt(w, p).root.gen <= p[1]

Fails(w, t) ==
    /\ status' = "corrupt"
    /\ wal' = w /\ torn' = t
    /\ UNCHANGED <<segments, catalogs, files, damaged, applied, root, active, nextGen,
                   walFrames>>

(* Mutant: the generation continues after the newest segment. *)
NextGenerationBySegment == Max(segments) + 1

NextGeneration == Max(catalogs \union segments) + 1

Recovers(w, t, r) ==
    /\ status' = "up"
    /\ applied' = r.log \o ReplayedIds(w, r)
    /\ root' = r
    /\ active' = ActiveSegment(w)
    /\ nextGen' = NextGeneration
    /\ walFrames' = Cardinality(Replay(w, r))
    /\ wal' = w
    /\ torn' = t \ {ActiveSegment(w)}
    /\ UNCHANGED <<segments, catalogs, files, damaged>>

(* open_with_options on the bytes that survived. *)
Open ==
    /\ status = "down"
    /\ \E n \in 0..Len(pending.frames) : \E tail \in BOOLEAN :
          LET survived == SubSeq(pending.frames, 1, n)
              w == [wal EXCEPT ![pending.seg] = @ \o survived]
              t == IF tail THEN torn \union {pending.seg} ELSE torn
              usable == {r \in RootsIn(w) : Verifies(r)}
              r == NewestRoot(usable)
          IN  /\ tail => n < Len(pending.frames)
              /\ IF /\ HeadersPresent(w)
                    /\ usable # {}
                    /\ StrictSequence(w, r)
                    /\ SealedComplete(w, t, r)
                 THEN Recovers(w, t, r)
                 ELSE Fails(w, t)
    /\ pending' = NoWrite
    /\ UNCHANGED <<job, cleanup, nextId, acked>>

-----------------------------------------------------------------------------
Next ==
    \/ \E n \in 1..MaxGroup : WriteGroup(n)
    \/ SyncGroup \/ WriteFails
    \/ ReserveGeneration \/ StartRotation \/ FinishRotation
    \/ Build \/ AbandonCheckpoint \/ StartInstall \/ FinishInstall
    \/ CleanupStep \/ CleanupEnds
    \/ Crash \/ DamageFile \/ Open

Spec == Init /\ [][Next]_vars

-----------------------------------------------------------------------------
Root == [gen : 0..MaxGen, lsn : 0..MaxTx, log : Seq(1..MaxTx), files : SUBSET (0..MaxGen)]

(* Types of the directory and of the handle. *)
TypeOK ==
    /\ segments \subseteq 0..MaxGen /\ torn \subseteq segments
    /\ catalogs \subseteq 0..MaxGen
    /\ files \subseteq 0..MaxGen /\ damaged \subseteq files
    /\ DOMAIN wal = Gens
    /\ status \in {"up", "poisoned", "down", "corrupt"}
    /\ applied \in Seq(1..MaxTx)
    /\ root \in Root
    /\ active \in segments
    /\ nextGen \in 1..(MaxGen + 1)
    /\ walFrames \in 0..MaxTx
    /\ nextId \in 1..(MaxTx + 1)
    /\ acked \subseteq 1..MaxTx

(* Recovery never refuses a directory after a crash at any step, nor after
   damage to a file that only the newest checkpoint wrote.                  *)
RecoverySucceeds == status # "corrupt"

(* Every database that opens holds every acknowledged transaction: damage is
   repaired from the retained checkpoint or reported, never passed over.    *)
OpenHoldsAcknowledged == status = "up" => acked \subseteq ToSet(applied)

(* The frame count that bounds the WAL and triggers maintenance is exact across
   rotation, installation, abandonment, recovery and fallback.              *)
WalFramesExact == status = "up" => walFrames = lsn - root.lsn

(* A reserved generation names nothing that exists, so create_new succeeds and
   no file of an abandoned or crashed build is taken for a new one.         *)
GenerationIsFresh ==
    status = "up" => nextGen \notin catalogs \union segments \union files

(* The abstract log: acknowledged transactions survive in order, and of a group
   being written when the handle stops exactly a prefix survives.          *)
PendingIds == IF WritingGroup THEN Ids(pending.frames) ELSE <<>>
Promise == INSTANCE DurableLog WITH log <- applied, pending <- PendingIds,
                                    up <- status = "up"
KeepsPromise == Promise!Spec
=============================================================================
