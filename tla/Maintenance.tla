----------------------------- MODULE Maintenance -----------------------------
(***************************************************************************)
(* Who starts the maintenance of a shared database, and what happens when  *)
(* a job fails: automatic jobs started by the leader of a commit group,    *)
(* checkpoint_background, explicit checkpoint/compact (maintain) and       *)
(* wait_for_maintenance share one running flag, one remembered error and   *)
(* the commit mutex at both ends of a job.                                 *)
(*                                                                         *)
(* A job belongs to the thread that started it.  What it writes is the     *)
(* subject of module WalRecovery; here it moves the WAL frontier or fails. *)
(***************************************************************************)
EXTENDS Integers

CONSTANTS
    Writers,           \* threads that lead commit groups
    Callers,           \* threads that call the maintenance API
    CheckpointBytes,   \* options.checkpoint_bytes
    MaxWal,            \* max_uncheckpointed_wal_bytes
    MaxGroup,          \* bytes of the largest commit group
    RecoveredWal       \* bytes of the largest WAL a handle is opened with

ASSUME ThreadsAssumption == Writers \intersect Callers = {}

(* The program relates none of the sizes to another. *)
ASSUME SizesAssumption == /\ CheckpointBytes \in Nat \ {0} /\ MaxWal \in Nat \ {0}
                          /\ MaxGroup \in Nat \ {0} /\ RecoveredWal \in Nat

VARIABLES
    pc,         \* what each thread is doing
    told,       \* what wait_for_maintenance returned last to each caller
    running,    \* MaintenanceState.running
    error,      \* MaintenanceState.error.is_some()
    jobs,       \* the job of each thread
    wal,        \* Database.wal_bytes
    tail,       \* Database.checkpoint_tail.is_some()
    poisoned,   \* ReadState.poisoned
    lastFailed  \* observer: the last job whose outcome is decided failed

state == <<running, error>>
database == <<wal, tail, poisoned>>
jobsVars == <<pc, told, state, jobs, database, lastFailed>>

-----------------------------------------------------------------------------
Threads == Writers \union Callers
NoJob == [stage |-> "none", background |-> FALSE, frontier |-> 0, failed |-> FALSE]
Stages == {"none", "capture", "build", "abandon", "install", "cleanup", "again",
           "record", "release"}

JobsInit ==
    /\ pc = [t \in Threads |-> "idle"]
    /\ told = [c \in Callers |-> FALSE]
    /\ running = FALSE
    /\ error = FALSE
    /\ jobs = [t \in Threads |-> NoJob]
    /\ wal \in 0..RecoveredWal
    /\ tail = FALSE
    /\ poisoned = FALSE
    /\ lastFailed = FALSE

(* Database::maintenance_due, given the bytes beyond the frontier. *)
MaintenanceDue(n) == n >= CheckpointBytes

Go(t, to) == pc' = [pc EXCEPT ![t] = to]

-----------------------------------------------------------------------------
(* The end of run_group, which every group reaches, refused ones too. *)

(* Mutant: the limit is checked before the group is added. *)
GroupFitsByWalAlone(bytes) == wal <= MaxWal

(* All frames of a group are written, or none. *)
GroupFits(bytes) == wal + bytes <= MaxWal

(* Mutant: only a group that was written looks whether maintenance is due. *)
LeadGroupWritten(w) ==
    /\ pc[w] = "idle"
    /\ \/ \E bytes \in 1..MaxGroup :
             /\ ~poisoned /\ GroupFits(bytes)
             /\ wal' = wal + bytes /\ UNCHANGED poisoned
             /\ Go(w, IF MaintenanceDue(wal') THEN "triggering" ELSE "idle")
       \/ \E bytes \in 1..MaxGroup :
             ~poisoned /\ GroupFits(bytes) /\ poisoned' = TRUE /\ UNCHANGED <<wal, pc>>
       \/ UNCHANGED <<wal, poisoned, pc>>
    /\ UNCHANGED <<told, state, jobs, tail, lastFailed>>

(* A group is written, poisons the handle, or is refused (conflict, deadline,
   WAL limit, poisoned handle).                                             *)
LeadGroup(w) ==
    /\ pc[w] = "idle"
    /\ \/ \E bytes \in 1..MaxGroup :
             /\ ~poisoned /\ GroupFits(bytes)
             /\ \/ wal' = wal + bytes /\ UNCHANGED poisoned
                \/ poisoned' = TRUE /\ UNCHANGED wal
       \/ UNCHANGED <<wal, poisoned>>
    /\ Go(w, IF MaintenanceDue(wal') THEN "triggering" ELSE "idle")
    /\ UNCHANGED <<told, state, jobs, tail, lastFailed>>

(* The remembered error is read in one critical section ... *)
CheckError(w) ==
    /\ pc[w] = "triggering"
    /\ Go(w, IF error THEN "idle" ELSE "starting")
    /\ UNCHANGED <<told, state, jobs, database, lastFailed>>

NewJob(background) ==
    [stage |-> "capture", background |-> background, frontier |-> 0, failed |-> FALSE]

(* checkpoint_background under the mutex of running. *)
Spawn(t) ==
    \/ running /\ UNCHANGED <<running, jobs>>
    \/ /\ ~running
       /\ running' = TRUE
       /\ jobs' = [jobs EXCEPT ![t] = NewJob(TRUE)]

(* ... and the automatic job is started in another one. *)
StartAutomatic(w) ==
    /\ pc[w] = "starting"
    /\ Spawn(w)
    /\ Go(w, "idle")
    /\ UNCHANGED <<told, error, database, lastFailed>>

(* The thread cannot be created; run_group remembers that afterwards. *)
SpawnFails(w) ==
    /\ pc[w] = "starting" /\ ~running
    /\ Go(w, "spawnFailed")
    /\ UNCHANGED <<told, state, jobs, database, lastFailed>>

RecordSpawnError(w) ==
    /\ pc[w] = "spawnFailed"
    /\ error' = TRUE
    /\ Go(w, "idle")
    /\ UNCHANGED <<told, running, jobs, database, lastFailed>>

-----------------------------------------------------------------------------
(* The maintenance API. *)

CheckpointBackground(c) ==
    /\ pc[c] = "idle"
    /\ Spawn(c)
    /\ UNCHANGED <<pc, told, error, database, lastFailed>>

Maintain(c) ==
    /\ pc[c] = "idle"
    /\ Go(c, "queuing")
    /\ UNCHANGED <<told, state, jobs, database, lastFailed>>

(* Mutant: woken once, maintain does not look at the flag again. *)
NotRunningIgnored == TRUE

NotRunning == ~running

MaintainStarts(c) ==
    /\ pc[c] = "queuing" /\ NotRunning
    /\ running' = TRUE
    /\ jobs' = [jobs EXCEPT ![c] = NewJob(FALSE)]
    /\ Go(c, "maintaining")
    /\ UNCHANGED <<told, error, database, lastFailed>>

WaitForMaintenance(c) ==
    /\ pc[c] = "idle"
    /\ Go(c, "waiting")
    /\ UNCHANGED <<told, state, jobs, database, lastFailed>>

(* The error is read while the mutex of running is still held. *)
WaitReturns(c) ==
    /\ pc[c] = "waiting" /\ ~running
    /\ told' = [told EXCEPT ![c] = error]
    /\ Go(c, "idle")
    /\ UNCHANGED <<state, jobs, database, lastFailed>>

-----------------------------------------------------------------------------
(* A job: perform_maintenance, repeated by a background job while it is due. *)

Stage(t) == jobs[t].stage
Advance(t, to) == jobs' = [jobs EXCEPT ![t] = [@ EXCEPT !.stage = to]]

(* The outcome of a job is decided before it is recorded. *)
JobFails(t) ==
    /\ jobs' = [jobs EXCEPT ![t] = [@ EXCEPT !.stage = "record", !.failed = TRUE]]
    /\ lastFailed' = TRUE

JobSucceeds(t) == Advance(t, "record") /\ lastFailed' = FALSE

(* capture_checkpoint: refused, a file cannot be created, the rotation fails and
   poisons the handle, or the state is frozen.                              *)
Capture(t) ==
    /\ Stage(t) = "capture"
    /\ \/ (poisoned \/ tail) /\ JobFails(t) /\ UNCHANGED <<tail, poisoned>>
       \/ ~poisoned /\ ~tail /\ JobFails(t) /\ poisoned' \in BOOLEAN /\ UNCHANGED tail
       \/ /\ ~poisoned /\ ~tail
          /\ tail' = TRUE
          /\ jobs' = [jobs EXCEPT ![t] = [@ EXCEPT !.stage = "build", !.frontier = wal]]
          /\ UNCHANGED <<poisoned, lastFailed>>
    /\ UNCHANGED <<pc, told, state, wal>>

(* Mutant: a failed build keeps the tail it captured. *)
BuildKeepsTail(t) ==
    /\ Stage(t) = "build"
    /\ \/ Advance(t, "install") /\ UNCHANGED lastFailed
       \/ JobFails(t)
    /\ UNCHANGED <<pc, told, state, database>>

Build(t) ==
    /\ Stage(t) = "build"
    /\ \/ Advance(t, "install")
       \/ Advance(t, "abandon")
    /\ UNCHANGED <<pc, told, state, database, lastFailed>>

AbandonCheckpoint(t) ==
    /\ Stage(t) = "abandon"
    /\ tail' = FALSE
    /\ JobFails(t)
    /\ UNCHANGED <<pc, told, state, wal, poisoned>>

InstallCheckpoint(t) ==
    /\ Stage(t) = "install"
    /\ \/ poisoned /\ JobFails(t) /\ UNCHANGED database
       \/ ~poisoned /\ JobFails(t) /\ poisoned' = TRUE /\ UNCHANGED <<wal, tail>>
       \/ /\ ~poisoned
          /\ wal' = wal - jobs[t].frontier
          /\ tail' = FALSE
          /\ Advance(t, "cleanup")
          /\ UNCHANGED <<poisoned, lastFailed>>
    /\ UNCHANGED <<pc, told, state>>

Cleanup(t) ==
    /\ Stage(t) = "cleanup"
    /\ \/ JobFails(t)
       \/ jobs[t].background /\ Advance(t, "again") /\ UNCHANGED lastFailed
       \/ ~jobs[t].background /\ JobSucceeds(t)
    /\ UNCHANGED <<pc, told, state, database>>

Again(t) ==
    /\ Stage(t) = "again"
    /\ \/ MaintenanceDue(wal) /\ Advance(t, "capture") /\ UNCHANGED lastFailed
       \/ ~MaintenanceDue(wal) /\ JobSucceeds(t)
    /\ UNCHANGED <<pc, told, state, database>>

(* The result replaces the remembered error ... *)
Record(t) ==
    /\ Stage(t) = "record"
    /\ error' = jobs[t].failed
    /\ Advance(t, "release")
    /\ UNCHANGED <<pc, told, running, database, lastFailed>>

(* ... and MaintenanceGuard::drop lets the next job start. *)
Release(t) ==
    /\ Stage(t) = "release"
    /\ running' = FALSE
    /\ jobs' = [jobs EXCEPT ![t] = NoJob]
    /\ pc' = [pc EXCEPT ![t] = IF @ = "maintaining" THEN "idle" ELSE @]
    /\ UNCHANGED <<told, error, database, lastFailed>>

(* Mutant: the flag is cleared before the result is remembered. *)
EndJobReleasesFirst(t) ==
    \/ /\ Stage(t) = "record"
       /\ running' = FALSE
       /\ Advance(t, "release")
       /\ UNCHANGED <<pc, told, error, database, lastFailed>>
    \/ /\ Stage(t) = "release"
       /\ error' = jobs[t].failed
       /\ jobs' = [jobs EXCEPT ![t] = NoJob]
       /\ pc' = [pc EXCEPT ![t] = IF @ = "maintaining" THEN "idle" ELSE @]
       /\ UNCHANGED <<told, running, database, lastFailed>>

EndJob(t) == Record(t) \/ Release(t)

-----------------------------------------------------------------------------
WriterStep(w) ==
    LeadGroup(w) \/ CheckError(w) \/ StartAutomatic(w) \/ SpawnFails(w) \/ RecordSpawnError(w)

CallerStep(c) ==
    \/ CheckpointBackground(c) \/ Maintain(c) \/ MaintainStarts(c)
    \/ WaitForMaintenance(c) \/ WaitReturns(c)

JobStep(t) ==
    \/ Capture(t) \/ Build(t) \/ AbandonCheckpoint(t) \/ InstallCheckpoint(t)
    \/ Cleanup(t) \/ Again(t) \/ EndJob(t)

JobsNext ==
    \/ \E w \in Writers : WriterStep(w)
    \/ \E c \in Callers : CallerStep(c)
    \/ \E t \in Threads : JobStep(t)

(* Jobs make progress, and some application keeps trying to commit.  Nobody is
   obliged to call the maintenance API.                                     *)
Fairness ==
    /\ \A w \in Writers : WF_jobsVars(WriterStep(w))
    /\ \A t \in Threads : WF_jobsVars(JobStep(t))

JobsSpec == JobsInit /\ [][JobsNext]_jobsVars /\ Fairness

-----------------------------------------------------------------------------
(* Commits stop at the limit; only a recovered WAL may be larger. *)
WalSizes == 0..MaxWal \union 0..RecoveredWal

(* Types of the maintenance state and of the jobs. *)
TypeOK ==
    /\ pc \in [Threads -> {"idle", "triggering", "starting", "spawnFailed", "queuing",
                           "maintaining", "waiting"}]
    /\ told \in [Callers -> BOOLEAN]
    /\ running \in BOOLEAN /\ error \in BOOLEAN
    /\ jobs \in [Threads -> [stage : Stages, background : BOOLEAN,
                             frontier : WalSizes, failed : BOOLEAN]]
    /\ wal \in WalSizes
    /\ tail \in BOOLEAN /\ poisoned \in BOOLEAN /\ lastFailed \in BOOLEAN

(* At most one shared maintenance job runs, whoever started it, and the flag says
   whether one does.                                                        *)
OneJob ==
    /\ \A s, t \in Threads : jobs[s] # NoJob /\ jobs[t] # NoJob => s = t
    /\ running <=> \E t \in Threads : jobs[t] # NoJob

(* The tail overlay belongs to a live job: on a usable handle no ended job leaves
   a tail behind that would refuse every later checkpoint.                  *)
TailHasAJob ==
    tail /\ ~poisoned => \E t \in Threads : Stage(t) \in {"build", "abandon", "install"}

(* wait_for_maintenance never reports success after a job that failed: while it
   waits, the failure is decided, recorded and only then is the flag cleared. *)
WaitReportsFailure ==
    [][\A c \in Callers : pc[c] = "waiting" /\ pc'[c] = "idle" /\ lastFailed
                          => told'[c]]_jobsVars

(* A WAL that stays due on a handle with no failure on record is drained again and
   again: although a trigger can be lost (a job that just looked for the last time
   answers "already running"), refused groups look again.  Nothing is promised of a
   WAL below checkpoint_bytes, be a group refused at the limit or not.      *)
DueWalDrains ==
    <>[](MaintenanceDue(wal) /\ ~error /\ ~poisoned) => []<><<wal' < wal>>_jobsVars

(* "A failed automatic job stops automatic retries until explicit maintenance
   succeeds": no automatic job starts while the failure of a job is on record. *)
NoRetryAfterFailure ==
    [][\A w \in Writers : jobs[w] = NoJob /\ jobs'[w] # NoJob
                          => ~(error /\ lastFailed)]_jobsVars
=============================================================================
