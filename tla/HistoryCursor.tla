----------------------------- MODULE HistoryCursor -----------------------------
(***************************************************************************)
(* History cursors over leased snapshots: a cursor reads the events of one *)
(* entity batch by batch, each batch a snapshot operation with a deadline, *)
(* and keeps a clone of the snapshot until it completes, fails or is       *)
(* dropped.  The caller may keep its own handle or, as Reader.history does, *)
(* leave the cursor the only one.                                          *)
(*                                                                         *)
(* The pinned view cannot change, so its events are the versions from 1 on *)
(* with a size each, event slot included.  A snapshot serves one operation *)
(* at a time, its caller's or its cursor's.                                *)
(***************************************************************************)
EXTENDS Lease, Sequences, FiniteSetsExt, SequencesExt

CONSTANTS
    Histories,   \* entities to read: the decoded bytes of each retained event
    MaxEvents,   \* options.max_events, capped by the database's limit
    MaxBytes     \* options.max_bytes, capped by the database's limit

ASSUME CursorAssumption ==
    /\ \A sizes \in Histories : sizes \in Seq(Nat \ {0})
    /\ MaxEvents \in Nat \ {0} /\ MaxBytes \in Nat \ {0}

VARIABLES
    callers,    \* leases whose caller still has a handle of its own
    cursor      \* the cursor of each snapshot, if it has one

cursorVars == <<callers, cursor>>

-----------------------------------------------------------------------------
Snapshots == Handles \ Txns

Idle == [phase |-> "none", clone |-> FALSE, sizes |-> <<>>, next |-> 0, first |-> 0,
         last |-> 0, reading |-> FALSE, cancelled |-> FALSE, batches |-> <<>>]

CursorInit ==
    /\ Init
    /\ callers = {}
    /\ cursor = [h \in Snapshots |-> Idle]

HasClone(h) == h \in Snapshots /\ cursor[h].clone

-----------------------------------------------------------------------------
(* The lease's own steps.                                                  *)

OpenHandle(h) ==
    /\ Open(h)
    /\ callers' = callers \union {h}
    /\ cursor' = IF h \in Snapshots THEN [cursor EXCEPT ![h] = Idle] ELSE cursor

(* A caller drops its handle; the last one ends the lease.                 *)
DropHandle(h) ==
    /\ h \in callers
    /\ h \in reading => cursor[h].reading
    /\ callers' = callers \ {h}
    /\ IF HasClone(h) THEN UNCHANGED vars ELSE Drop(h)
    /\ UNCHANGED cursor

ResolveCommit(h) ==
    /\ Resolve(h)
    /\ callers' = callers \ {h}
    /\ UNCHANGED cursor

EndCallerRead(h) ==
    /\ ~cursor[h].reading
    /\ EndRead(h)
    /\ UNCHANGED cursorVars

LeaseStep ==
    \/ Sweep
    \/ Tick
    \/ \E h \in Handles : \/ CallTooLate(h) \/ BeginWork(h) \/ EndWork(h) \/ Take(h)
                          \/ h \in callers /\ BeginRead(h)

-----------------------------------------------------------------------------
(* The cursor.                                                             *)

(* Ranges a caller may ask for: all, or explicit bounds that are retained. *)
Asked(sizes, first, last) ==
    \/ first = 1 /\ last = Len(sizes)
    \/ 1 <= first /\ first <= last /\ last <= Len(sizes)

(* ReadSnapshot.history, or Reader.history, whose own handle is gone when  *)
(* it returns.  A cursor over no events is done and takes no clone.        *)
History(h, sizes, first, last, keep) ==
    /\ h \in (value \intersect callers) \ reading
    /\ ~Expired(h)
    /\ ~HasClone(h)
    /\ cursor' = [cursor EXCEPT ![h] =
          [Idle EXCEPT !.phase = IF sizes = <<>> THEN "done" ELSE "open",
                       !.clone = sizes # <<>>,
                       !.sizes = sizes, !.next = first, !.first = first, !.last = last]]
    /\ callers' = IF keep THEN callers ELSE callers \ {h}
    /\ IF keep \/ sizes # <<>> THEN UNCHANGED vars ELSE Drop(h)

(* CancellationToken.cancel, by anyone at any time.                        *)
Cancel(h) ==
    /\ cursor[h].phase = "open"
    /\ cursor' = [cursor EXCEPT ![h].cancelled = TRUE]
    /\ UNCHANGED <<callers, vars>>

(* next_batch refused before it reads: cancelled, or the lease is over.    *)
RefuseBatch(h) ==
    /\ cursor[h].phase = "open" /\ ~cursor[h].reading
    /\ h \notin reading
    /\ \/ cursor[h].cancelled /\ UNCHANGED vars
       \/ ~cursor[h].cancelled /\ h \notin value /\ UNCHANGED vars
       \/ ~cursor[h].cancelled /\ CallTooLate(h)
    /\ cursor' = [cursor EXCEPT ![h].phase = "failed"]
    /\ UNCHANGED callers

BeginBatch(h) ==
    /\ cursor[h].phase = "open" /\ ~cursor[h].cancelled
    /\ BeginRead(h)
    /\ cursor' = [cursor EXCEPT ![h].reading = TRUE]
    /\ UNCHANGED callers

(* Numbers of events the limits admit from the next one on.                *)
Bytes(c, n) == MapThenSumSet(LAMBDA v : c.sizes[v], c.next .. c.next + n - 1)
Admitted(c) == {n \in 1 .. c.last - c.next + 1 : n <= MaxEvents /\ Bytes(c, n) <= MaxBytes}

(* Mutant of Ends: a batch below the limit on events is the last one.      *)
EndsShort(c, n) == c.next + n > c.last \/ n < MaxEvents

(* The batch of n events holds the last version asked for.                 *)
Ends(c, n) == c.next + n > c.last

(* visit_events went over the batch in time: its events are returned, and  *)
(* the cursor is ready for the rest, or done.                              *)
Return(h) ==
    LET c == cursor[h]
        n == Max(Admitted(c))
    IN  /\ ~c.cancelled /\ left[h] > 0 /\ work[h] > 0 /\ Admitted(c) # {}
        /\ cursor' = [cursor EXCEPT ![h] =
              [c EXCEPT !.reading = FALSE,
                        !.batches = Append(@, [i \in 1 .. n |-> c.next + i - 1]),
                        !.next = @ + n,
                        !.phase = IF Ends(c, n) THEN "done" ELSE "open"]]

(* Cancelled, too late, the next event alone too large; or, at any time, a *)
(* read that fails or finds no memory left for its result.                 *)
Fail(h) == cursor' = [cursor EXCEPT ![h].phase = "failed", ![h].reading = FALSE]

EndBatch(h) ==
    /\ cursor[h].reading
    /\ EndRead(h)
    /\ Return(h) \/ Fail(h)
    /\ UNCHANGED callers

(* next_batch lets go of the clone after an error or the last event, and so *)
(* does the drop of a cursor; the last handle ends the lease.              *)
Close(h) ==
    /\ HasClone(h) /\ ~cursor[h].reading /\ h \notin reading
    /\ cursor' = [cursor EXCEPT ![h].clone = FALSE,
                                ![h].phase = IF @ = "open" THEN "failed" ELSE @]
    /\ IF h \in callers THEN UNCHANGED vars ELSE Drop(h)
    /\ UNCHANGED callers

CursorNext ==
    \/ LeaseStep /\ UNCHANGED cursorVars
    \/ \E h \in Handles : OpenHandle(h) \/ DropHandle(h) \/ ResolveCommit(h)
    \/ \E h \in Snapshots :
          \/ EndCallerRead(h) \/ Cancel(h) \/ RefuseBatch(h) \/ BeginBatch(h) \/ EndBatch(h)
          \/ Close(h)
          \/ \E keep \in BOOLEAN, sizes \in Histories :
                \E first \in 1 .. Len(sizes) + 1, last \in 0 .. Len(sizes) :
                   Asked(sizes, first, last) /\ History(h, sizes, first, last, keep)

(* Time passes, the reaper sweeps, operations end and the commit queue     *)
(* answers.  Nothing is asked of callers between their calls: nobody has to *)
(* come back for the next batch.                                           *)
CursorFairness ==
    /\ WF_<<vars, cursorVars>>(Tick /\ UNCHANGED cursorVars)
    /\ WF_<<vars, cursorVars>>(Sweep /\ UNCHANGED cursorVars)
    /\ \A h \in Snapshots : WF_<<vars, cursorVars>>(EndCallerRead(h) \/ EndBatch(h))
    /\ \A h \in Txns : /\ WF_<<vars, cursorVars>>(EndWork(h) /\ UNCHANGED cursorVars)
                       /\ WF_<<vars, cursorVars>>(ResolveCommit(h))

CursorSpec == CursorInit /\ [][CursorNext]_<<vars, cursorVars>> /\ CursorFairness

-----------------------------------------------------------------------------
(* Cursors use a lease only as its operations allow: each of their steps is *)
(* one of the lease's or leaves it alone, so what Lease promises holds here. *)
ImplementsLease == Spec

(* What a cursor returned so far is the range it was asked for, from its   *)
(* first version on, every event once and in order; every batch is within  *)
(* the limits and not empty, and a cursor is done only at the range's end  *)
(* (HistoryCursor.next_batch, across cancellations and expiry).            *)
CursorReadsItsRange ==
    \A h \in Snapshots :
        LET c == cursor[h] IN
        /\ FlattenSeq(c.batches) = [i \in 1 .. c.next - c.first |-> c.first + i - 1]
        /\ \A i \in DOMAIN c.batches :
              /\ Len(c.batches[i]) \in 1 .. MaxEvents
              /\ MapThenSumSet(LAMBDA v : c.sizes[v], ToSet(c.batches[i])) <= MaxBytes
        /\ c.phase = "done" => c.next = c.last + 1
=============================================================================
