----------------------------- MODULE CommitQueue -----------------------------
(***************************************************************************)
(* The queue in front of the commit mutex: callers of SharedDatabase::     *)
(* commit submit a request, one of them becomes the leader, claims a group *)
(* from the front of the queue and answers it; a caller whose deadline     *)
(* passes withdraws its request unless a leader already claimed it.        *)
(*                                                                         *)
(* The commit itself is one step here (module SharedCommit has its parts); *)
(* a panic in it, and a coordinator mutex that a panic left poisoned, are  *)
(* steps of their own.  A caller submits one nonempty request.             *)
(***************************************************************************)
EXTENDS Integers, Sequences, FiniteSets, SequencesExt, FiniteSetsExt

CONSTANTS
    Callers,           \* threads that call commit, once each
    Sizes,             \* encoded sizes a request may have
    MaxQueued,         \* limits.max_queued_commits
    MaxQueuedBytes,    \* limits.max_queued_commit_bytes
    MaxTransactions,   \* group_commit.max_transactions
    MaxBytes           \* group_commit.max_bytes

ASSUME SizesAssumption == Sizes \subseteq Nat \ {0}
ASSUME QueueLimitsAssumption == MaxQueued \in Nat /\ MaxQueuedBytes \in Nat
ASSUME GroupBoundsAssumption == MaxTransactions \in Nat \ {0} /\ MaxBytes \in Nat \ {0}

VARIABLES
    pc,          \* where each caller is
    late,        \* its deadline has passed
    size,        \* Request.bytes
    batch,       \* Request.batch.is_some()
    result,      \* Request.result
    answer,      \* what commit() returned
    waiting,     \* State.waiting
    running,     \* State.running
    count,       \* State.count
    bytes,       \* State.bytes
    stage,       \* what the leader is doing
    tickets,     \* the claimed requests of the leader's group
    mutex,       \* who holds the coordinator mutex
    poisoned,    \* a panic poisoned that mutex
    written      \* observer: requests whose batch reached the WAL

requests == <<size, batch, result>>
queue == <<waiting, running, count, bytes>>
leader == <<stage, tickets, mutex, poisoned, written>>
vars == <<pc, late, requests, answer, queue, leader>>

-----------------------------------------------------------------------------
Results == {"none", "ok", "refused", "limit", "expired", "recovery", "panic"}

Init ==
    /\ pc = [c \in Callers |-> "idle"]
    /\ late = [c \in Callers |-> FALSE]
    /\ size = [c \in Callers |-> 0]
    /\ batch = [c \in Callers |-> FALSE]
    /\ result = [c \in Callers |-> "none"]
    /\ answer = [c \in Callers |-> "none"]
    /\ waiting = <<>>
    /\ running = FALSE
    /\ count = 0
    /\ bytes = 0
    /\ stage = "none"
    /\ tickets = <<>>
    /\ mutex = "free"
    /\ poisoned = FALSE
    /\ written = {}

(* The bytes of the requests in s, each of which is there once. *)
Total(s) == MapThenSumSet(LAMBDA c : size[c], ToSet(s))

DeadlinePasses(c) ==
    /\ ~late[c] /\ pc[c] # "returned"
    /\ late' = [late EXCEPT ![c] = TRUE]
    /\ UNCHANGED <<pc, requests, answer, queue, leader>>

Return(c, value) ==
    /\ pc' = [pc EXCEPT ![c] = "returned"]
    /\ answer' = [answer EXCEPT ![c] = value]

-----------------------------------------------------------------------------
(* Callers. *)

(* Mutant: the byte limit is tested without the new request. *)
FitsQueueBefore(n) == count + 1 <= MaxQueued /\ bytes <= MaxQueuedBytes

FitsQueue(n) == count + 1 <= MaxQueued /\ bytes + n <= MaxQueuedBytes

Submit(c) ==
    /\ pc[c] = "idle" /\ ~late[c]
    /\ \E n \in Sizes :
          /\ FitsQueue(n)
          /\ size' = [size EXCEPT ![c] = n]
          /\ bytes' = bytes + n
    /\ batch' = [batch EXCEPT ![c] = TRUE]
    /\ count' = count + 1
    /\ waiting' = Append(waiting, c)
    /\ pc' = [pc EXCEPT ![c] = "waiting"]
    /\ UNCHANGED <<late, result, answer, running, leader>>

(* The deadline or a limit of the queue turns the request away. *)
TurnAway(c) ==
    /\ pc[c] = "idle"
    /\ \/ late[c] /\ Return(c, "expired")
       \/ ~late[c] /\ (\E n \in Sizes : ~FitsQueue(n)) /\ Return(c, "limit")
    /\ UNCHANGED <<late, requests, queue, leader>>

(* The caller takes its result out of the request. *)
TakeResult(c) ==
    /\ pc[c] = "waiting" /\ result[c] # "none"
    /\ result' = [result EXCEPT ![c] = "none"]
    /\ Return(c, result[c])
    /\ UNCHANGED <<late, size, batch, queue, leader>>

(* Queue::cancel, under the queue mutex; a request is queued at most once. *)
Cancel(c) ==
    /\ pc[c] = "waiting" /\ result[c] = "none"
    /\ late[c] /\ batch[c]
    /\ batch' = [batch EXCEPT ![c] = FALSE]
    /\ waiting' = RemoveFirst(waiting, c)
    /\ count' = count - 1
    /\ bytes' = bytes - size[c]
    /\ result' = [result EXCEPT ![c] = "expired"]
    /\ UNCHANGED <<pc, late, size, answer, running, leader>>

(* Nobody leads: this caller does. *)
Lead(c) ==
    /\ pc[c] = "waiting" /\ result[c] = "none"
    /\ ~(late[c] /\ batch[c])
    /\ ~running
    /\ running' = TRUE
    /\ pc' = [pc EXCEPT ![c] = "leading"]
    /\ stage' = "locking"
    /\ UNCHANGED <<late, requests, answer, waiting, count, bytes, tickets, mutex,
                   poisoned, written>>

-----------------------------------------------------------------------------
(* The leader: SharedDatabase::run_group and Leadership. *)

(* Queue::finish: answers the given requests and ends the leadership. *)
FinishQueue(group, value) ==
    /\ result' = [c \in Callers |-> IF c \in ToSet(group) THEN value[c] ELSE result[c]]
    /\ count' = count - Len(group)
    /\ bytes' = bytes - Total(group)
    /\ running' = FALSE
    /\ stage' = "none"
    /\ tickets' = <<>>

(* Mutant: the early return forgets to hand the leadership back. *)
GiveUpKeepsRunning(c) ==
    /\ pc[c] = "leading" /\ stage = "locking" /\ late[c]
    /\ stage' = "none"
    /\ pc' = [pc EXCEPT ![c] = "waiting"]
    /\ UNCHANGED <<late, requests, answer, queue, tickets, mutex, poisoned, written>>

(* The leader's own deadline passed before it got the mutex. *)
GiveUp(c) ==
    /\ pc[c] = "leading" /\ stage = "locking" /\ late[c]
    /\ FinishQueue(<<>>, result)
    /\ pc' = [pc EXCEPT ![c] = "waiting"]
    /\ UNCHANGED <<late, size, batch, answer, waiting, mutex, poisoned, written>>

TryLock(c) ==
    /\ pc[c] = "leading" /\ stage = "locking" /\ ~late[c]
    /\ mutex = "free" /\ ~poisoned
    /\ mutex' = "leader"
    /\ stage' = "gathering"
    /\ UNCHANGED <<pc, late, requests, answer, queue, tickets, poisoned, written>>

(* The first n requests fit one group; a single request always does. *)
FitsGroup(n) ==
    \/ n = 1
    \/ n <= MaxTransactions /\ Total(SubSeq(waiting, 1, n)) <= MaxBytes

ClaimSize == IF waiting = <<>> THEN 0
             ELSE Max({n \in 1..Len(waiting) : \A m \in 1..n : FitsGroup(m)})

(* Mutant: a claimed request keeps its batch. *)
ClaimGroupCopies ==
    /\ tickets' = SubSeq(waiting, 1, ClaimSize)
    /\ waiting' = SubSeq(waiting, ClaimSize + 1, Len(waiting))
    /\ UNCHANGED batch

(* Queue::claim, under the queue mutex: the batches leave their requests.  *)
ClaimGroup ==
    /\ tickets' = SubSeq(waiting, 1, ClaimSize)
    /\ waiting' = SubSeq(waiting, ClaimSize + 1, Len(waiting))
    /\ batch' = [c \in Callers |-> batch[c] /\ c \notin ToSet(tickets')]

(* Any time until the gathering delay is over. *)
Claim(c) ==
    /\ pc[c] = "leading" /\ stage = "gathering"
    /\ ClaimGroup
    /\ stage' = "working"
    /\ UNCHANGED <<pc, late, size, result, answer, running, count, bytes, mutex,
                   poisoned, written>>

(* The mutex is poisoned: the group is claimed only to be refused. *)
ClaimPoisoned(c) ==
    /\ pc[c] = "leading" /\ stage = "locking" /\ ~late[c]
    /\ poisoned
    /\ ClaimGroup
    /\ stage' = "failing"
    /\ UNCHANGED <<pc, late, size, result, answer, running, count, bytes, mutex,
                   poisoned, written>>

(* Validation and commit_group decide every request of the group; the commit
   mutex is released before the results are handed out.                     *)
Work(c) ==
    /\ pc[c] = "leading" /\ stage = "working"
    /\ \E accepted \in SUBSET ToSet(tickets) : written' = written \union accepted
    /\ mutex' = "free"
    /\ stage' = "finishing"
    /\ UNCHANGED <<pc, late, requests, answer, queue, tickets, poisoned>>

Finish(c) ==
    /\ pc[c] = "leading" /\ stage = "finishing"
    /\ FinishQueue(tickets, [d \in Callers |-> IF d \in written THEN "ok" ELSE "refused"])
    /\ pc' = [pc EXCEPT ![c] = "waiting"]
    /\ UNCHANGED <<late, size, batch, answer, waiting, mutex, poisoned, written>>

(* Mutant: the guard is already disarmed, nothing is answered or handed back. *)
PanicDisarmed(c) ==
    /\ pc[c] = "leading" /\ stage = "working"
    /\ mutex' = "free" /\ poisoned' = TRUE
    /\ stage' = "none" /\ tickets' = <<>>
    /\ running' = FALSE
    /\ Return(c, "panic")
    /\ UNCHANGED <<late, requests, waiting, count, bytes, written>>

(* A panic in the writer: the unwinding drops the mutex guard, which poisons the
   mutex, and then the Leadership guard.  The group may be in the WAL.      *)
Panic(c) ==
    /\ pc[c] = "leading" /\ stage = "working"
    /\ \E accepted \in SUBSET ToSet(tickets) : written' = written \union accepted
    /\ mutex' = "free" /\ poisoned' = TRUE
    /\ stage' = "failing"
    /\ Return(c, "panic")
    /\ UNCHANGED <<late, requests, queue, tickets>>

(* Mutant: leadership is handed back without an answer to the group. *)
LeadershipDropSilent ==
    /\ stage = "failing"
    /\ FinishQueue(<<>>, result)
    /\ pc' = [c \in Callers |-> IF pc[c] = "leading" THEN "waiting" ELSE pc[c]]
    /\ UNCHANGED <<late, size, batch, answer, waiting, mutex, poisoned, written>>

(* Leadership::drop answers every claimed request with NeedsRecovery. *)
LeadershipDrop ==
    /\ stage = "failing"
    /\ FinishQueue(tickets, [d \in Callers |-> "recovery"])
    /\ pc' = [c \in Callers |-> IF pc[c] = "leading" THEN "waiting" ELSE pc[c]]
    /\ UNCHANGED <<late, size, batch, answer, waiting, mutex, poisoned, written>>

-----------------------------------------------------------------------------
(* Maintenance takes the same mutex to capture, install or abandon. *)

MaintenanceLock ==
    /\ mutex = "free" /\ ~poisoned
    /\ mutex' = "maintenance"
    /\ UNCHANGED <<pc, late, requests, answer, queue, stage, tickets, poisoned, written>>

MaintenanceUnlock ==
    /\ mutex = "maintenance"
    /\ mutex' = "free"
    /\ poisoned' \in BOOLEAN
    /\ UNCHANGED <<pc, late, requests, answer, queue, stage, tickets, written>>

-----------------------------------------------------------------------------
CallerStep(c) == Submit(c) \/ TurnAway(c) \/ TakeResult(c) \/ Cancel(c) \/ Lead(c)

LeaderStep(c) ==
    \/ GiveUp(c) \/ TryLock(c) \/ Claim(c) \/ ClaimPoisoned(c)
    \/ Work(c) \/ Panic(c) \/ Finish(c)

Next ==
    \/ \E c \in Callers : DeadlinePasses(c) \/ CallerStep(c) \/ LeaderStep(c)
    \/ LeadershipDrop \/ MaintenanceLock \/ MaintenanceUnlock

(* Threads are scheduled, time passes, and nobody keeps the mutex for ever.  No
   caller is promised the mutex: maintenance may win it every time.         *)
Fairness ==
    /\ \A c \in Callers : /\ WF_vars(DeadlinePasses(c))
                          /\ WF_vars(TakeResult(c) \/ Cancel(c) \/ Lead(c))
                          /\ WF_vars(LeaderStep(c))
    /\ WF_vars(LeadershipDrop)
    /\ WF_vars(MaintenanceUnlock)

Spec == Init /\ [][Next]_vars /\ Fairness

-----------------------------------------------------------------------------
(* Types of the queue, of the requests and of the leader. *)
TypeOK ==
    /\ pc \in [Callers -> {"idle", "waiting", "leading", "returned"}]
    /\ late \in [Callers -> BOOLEAN]
    /\ size \in [Callers -> Sizes \union {0}]
    /\ batch \in [Callers -> BOOLEAN]
    /\ result \in [Callers -> Results]
    /\ answer \in [Callers -> Results]
    /\ waiting \in Seq(Callers) /\ IsInjective(waiting)
    /\ running \in BOOLEAN
    /\ count \in 0..MaxQueued
    /\ bytes \in 0..MaxQueuedBytes
    /\ stage \in {"none", "locking", "gathering", "working", "finishing", "failing"}
    /\ tickets \in Seq(Callers) /\ IsInjective(tickets)
    /\ mutex \in {"free", "leader", "maintenance"}
    /\ poisoned \in BOOLEAN
    /\ written \subseteq Callers

(* The counters that admit requests are exact: they count the waiting and the
   claimed requests, through claims, cancellations, refusals and panics, so
   the capacity of the queue is neither exceeded nor lost.                  *)
CapacityIsExact ==
    /\ count = Len(waiting) + Len(tickets)
    /\ bytes = Total(waiting) + Total(tickets)

(* A request without a batch and without an answer belongs to a leader that will
   answer it: "claimed callers must never wait forever".                    *)
ClaimedHaveALeader ==
    \A c \in Callers :
        pc[c] \in {"waiting", "leading"} /\ ~batch[c] /\ result[c] = "none"
        => running /\ c \in ToSet(tickets)

(* A caller told that its deadline passed, or that the queue was full, has
   committed nothing: cancellation and claim exclude each other.            *)
ExpiredNeverCommits ==
    \A c \in Callers :
        (answer[c] \in {"expired", "limit"} \/ result[c] = "expired") => c \notin written

(* Every call of commit returns, also after a panic or a poisoned mutex and
   when maintenance keeps the mutex busy.                                   *)
EveryCommitReturns == \A c \in Callers : pc[c] = "waiting" ~> pc[c] = "returned"

(* Leadership is always handed back: no early return leaves the queue without
   anyone who may lead it.                                                  *)
LeadershipIsHandedBack == running ~> ~running
=============================================================================
