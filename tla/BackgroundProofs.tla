--------------------------- MODULE BackgroundProofs ---------------------------
(***************************************************************************)
(* The two background activities of a database, the reaper's leases and    *)
(* the maintenance jobs.                                                   *)
(*                                                                         *)
(* Leases and cursors for any handles, limits, histories and timeouts: a   *)
(* cursor takes only steps of the lease it reads through, and permits      *)
(* count exactly the states in use.                                        *)
(*                                                                         *)
(* Maintenance for any number of threads and any WAL limit: one job at a   *)
(* time, no orphaned tail, no WAL counter below zero, and no failure that  *)
(* wait_for_maintenance passes over.                                       *)
(***************************************************************************)
EXTENDS HistoryCursor, Maintenance, FiniteSetTheorems, SequenceTheorems,
        WellFoundedInduction, TLAPS

(* Every state of a lease has one kind of holder that may use it: values   *)
(* and operations belong to a live handle, a transaction's operation is    *)
(* inside its lease, and a commit has taken the value away.                *)
HoldersInv ==
    /\ owned \subseteq Handles
    /\ value \subseteq owned
    /\ reading \subseteq owned \ Txns
    /\ prepared \subseteq (owned \intersect Txns) \ value
    /\ busy \subseteq value \intersect Txns

LeaseInv == HoldersInv /\ UsageIsExact

(* Before any handle is opened nothing is held.                            *)
LEMMA HoldersInitially == Init => HoldersInv
  BY DEF Init, HoldersInv

(* No step of the lease breaks the division of holders.                    *)
LEMMA HoldersKept ==
  ASSUME HoldersInv, [Next]_vars
  PROVE  HoldersInv'
<1> USE DEF HoldersInv
<1>1. CASE UNCHANGED vars
  BY <1>1 DEF vars, timers, usage
<1>2. ASSUME NEW h \in Handles, Open(h) PROVE HoldersInv'
  BY <1>2 DEF Open, Admit
<1>3. ASSUME NEW h \in Handles, CallTooLate(h) PROVE HoldersInv'
  BY <1>3 DEF CallTooLate, GiveUp
<1>4. ASSUME NEW h \in Handles, BeginRead(h) PROVE HoldersInv'
  BY <1>4 DEF BeginRead
<1>5. ASSUME NEW h \in Handles, EndRead(h) PROVE HoldersInv'
  BY <1>5 DEF EndRead
<1>6. ASSUME NEW h \in Handles, BeginWork(h) PROVE HoldersInv'
  BY <1>6 DEF BeginWork
<1>7. ASSUME NEW h \in Handles, EndWork(h) PROVE HoldersInv'
  BY <1>7 DEF EndWork, GiveUp
<1>8. ASSUME NEW h \in Handles, Take(h) PROVE HoldersInv'
  BY <1>8 DEF Take
<1>9. ASSUME NEW h \in Handles, Resolve(h) PROVE HoldersInv'
  BY <1>9 DEF Resolve
<1>10. ASSUME NEW h \in Handles, Drop(h) PROVE HoldersInv'
  BY <1>10 DEF Drop, GiveUp
<1>11. CASE Sweep
  BY <1>11 DEF Sweep, GiveUp, Due
<1>12. CASE Tick
  BY <1>12 DEF Tick
<1> QED
  BY <1>1, <1>2, <1>3, <1>4, <1>5, <1>6, <1>7, <1>8, <1>9, <1>10, <1>11, <1>12 DEF Next

-----------------------------------------------------------------------------
(* Counting the states in use.                                             *)

(* A finite set without some of its members has that many fewer.           *)
LEMMA CardinalityWithout ==
  ASSUME NEW S, IsFiniteSet(S), NEW D \in SUBSET S
  PROVE  Cardinality(S \ D) = Cardinality(S) - Cardinality(D)
<1>1. Cardinality(S \ D) = Cardinality(S) - Cardinality(S \intersect D)
  BY FS_Difference
<1>2. S \intersect D = D
  OBVIOUS
<1> QED
  BY <1>1, <1>2

(* The states in use are finitely many, those of transactions too.         *)
LEMMA HeldIsFinite ==
  ASSUME HoldersInv
  PROVE  IsFiniteSet(Held) /\ IsFiniteSet(Held \intersect Txns)
<1>1. Held \subseteq Handles /\ Held \intersect Txns \subseteq Handles
  BY DEF HoldersInv, Held
<1> QED
  BY <1>1, LeaseAssumption, FS_Subset

(* A step after which the same states are in use and counted.              *)
LEMMA SameUsage ==
  ASSUME UsageIsExact, Held' = Held, UNCHANGED usage
  PROVE  UsageIsExact'
  BY DEF UsageIsExact, usage

(* Permits given back for just the states that go keep the count exact.    *)
LEMMA FreedUsage ==
  ASSUME HoldersInv, UsageIsExact, NEW gone \in SUBSET Held, Free(gone), Held' = Held \ gone
  PROVE  UsageIsExact'
<1>1. Cardinality(Held \ gone) = Cardinality(Held) - Cardinality(gone)
  BY HeldIsFinite, CardinalityWithout
<1>2. (Held \intersect Txns) \ (gone \intersect Txns) = (Held \ gone) \intersect Txns
  OBVIOUS
<1>3. Cardinality((Held \intersect Txns) \ (gone \intersect Txns))
         = Cardinality(Held \intersect Txns) - Cardinality(gone \intersect Txns)
  BY HeldIsFinite, CardinalityWithout
<1> QED
  BY <1>1, <1>2, <1>3 DEF UsageIsExact, Free

(* No step of the lease loses a permit or gives one back too early.        *)
LEMMA UsageKept ==
  ASSUME HoldersInv, UsageIsExact, [Next]_vars
  PROVE  UsageIsExact'
<1>1. CASE UNCHANGED vars
  <2>1. Held' = Held /\ UNCHANGED usage
    BY <1>1 DEF vars, Held
  <2> QED
    BY <2>1, SameUsage
<1>2. ASSUME NEW h \in Handles, Open(h) PROVE UsageIsExact'
  <2>1. h \notin Held /\ Held' = Held \union {h}
    BY <1>2 DEF Open, Held, HoldersInv
  <2>2. Cardinality(Held') = Cardinality(Held) + 1
    BY <2>1, HeldIsFinite, FS_AddElement
  <2>3. CASE h \in Txns
    <3>1. Held' \intersect Txns = (Held \intersect Txns) \union {h}
      BY <2>1, <2>3
    <3>2. Cardinality(Held' \intersect Txns) = Cardinality(Held \intersect Txns) + 1
      BY <2>1, <3>1, HeldIsFinite, FS_AddElement
    <3> QED
      BY <1>2, <2>2, <2>3, <3>2 DEF Open, Admit, UsageIsExact
  <2>4. CASE h \notin Txns
    <3>1. Held' \intersect Txns = Held \intersect Txns
      BY <2>1, <2>4
    <3> QED
      BY <1>2, <2>2, <2>4, <3>1 DEF Open, Admit, UsageIsExact
  <2> QED
    BY <2>3, <2>4
<1>3. ASSUME NEW h \in Handles, CallTooLate(h) PROVE UsageIsExact'
  <2>1. /\ {h} \ reading \in SUBSET Held
        /\ Free({h} \ reading)
        /\ Held' = Held \ ({h} \ reading)
    BY <1>3 DEF CallTooLate, GiveUp, Held, HoldersInv
  <2> QED
    BY <2>1, FreedUsage
<1>4. ASSUME NEW h \in Handles, BeginRead(h) PROVE UsageIsExact'
  <2>1. Held' = Held /\ UNCHANGED usage
    BY <1>4 DEF BeginRead, Held
  <2> QED
    BY <2>1, SameUsage
<1>5. ASSUME NEW h \in Handles, EndRead(h) PROVE UsageIsExact'
  <2>1. CASE h \in value
    <3>1. Held' = Held /\ UNCHANGED usage
      BY <1>5, <2>1 DEF EndRead, Held
    <3> QED
      BY <3>1, SameUsage
  <2>2. CASE h \notin value
    <3>1. {h} \in SUBSET Held /\ Free({h}) /\ Held' = Held \ {h}
      BY <1>5, <2>2 DEF EndRead, Held, HoldersInv
    <3> QED
      BY <3>1, FreedUsage
  <2> QED
    BY <2>1, <2>2
<1>6. ASSUME NEW h \in Handles, BeginWork(h) PROVE UsageIsExact'
  <2>1. Held' = Held /\ UNCHANGED usage
    BY <1>6 DEF BeginWork, Held
  <2> QED
    BY <2>1, SameUsage
<1>7. ASSUME NEW h \in Handles, EndWork(h) PROVE UsageIsExact'
  <2>1. CASE left[h] = 0 \/ work[h] = 0
    <3>1. /\ {h} \ reading \in SUBSET Held
          /\ Free({h} \ reading)
          /\ Held' = Held \ ({h} \ reading)
      BY <1>7, <2>1 DEF EndWork, GiveUp, Held, HoldersInv
    <3> QED
      BY <3>1, FreedUsage
  <2>2. CASE ~(left[h] = 0 \/ work[h] = 0)
    <3>1. Held' = Held /\ UNCHANGED usage
      BY <1>7, <2>2 DEF EndWork, Held, HoldersInv
    <3> QED
      BY <3>1, SameUsage
  <2> QED
    BY <2>1, <2>2
<1>8. ASSUME NEW h \in Handles, Take(h) PROVE UsageIsExact'
  <2>1. Held' = Held /\ UNCHANGED usage
    BY <1>8 DEF Take, Held
  <2> QED
    BY <2>1, SameUsage
<1>9. ASSUME NEW h \in Handles, Resolve(h) PROVE UsageIsExact'
  <2>1. {h} \in SUBSET Held /\ Free({h}) /\ Held' = Held \ {h}
    BY <1>9 DEF Resolve, Held, HoldersInv
  <2> QED
    BY <2>1, FreedUsage
<1>10. ASSUME NEW h \in Handles, Drop(h) PROVE UsageIsExact'
  <2> DEFINE gone == ({h} \intersect value) \ reading
  <2>1. gone \in SUBSET Held /\ Free(gone) /\ Held' = Held \ gone
    BY <1>10 DEF Drop, GiveUp, Held
  <2> QED
    BY <2>1, FreedUsage
<1>11. CASE Sweep
  <2>1. /\ Due \ reading \in SUBSET Held
        /\ Free(Due \ reading)
        /\ Held' = Held \ (Due \ reading)
    BY <1>11 DEF Sweep, GiveUp, Due, Held, HoldersInv
  <2> QED
    BY <2>1, FreedUsage
<1>12. CASE Tick
  <2>1. Held' = Held /\ UNCHANGED usage
    BY <1>12 DEF Tick, Held
  <2> QED
    BY <2>1, SameUsage
<1> QED
  BY <1>1, <1>2, <1>3, <1>4, <1>5, <1>6, <1>7, <1>8, <1>9, <1>10, <1>11, <1>12 DEF Next

(* Whatever happens to leases, admission counts exactly the states in use. *)
THEOREM LeaseUsageIsExact == Spec => []UsageIsExact
<1>1. Init => LeaseInv
  <2> SUFFICES ASSUME Init PROVE LeaseInv
    OBVIOUS
  <2>1. Held = {} /\ Held \intersect Txns = {}
    BY DEF Init, Held
  <2>2. UsageIsExact
    BY <2>1, FS_EmptySet DEF Init, UsageIsExact
  <2> QED
    BY <2>2, HoldersInitially DEF LeaseInv
<1>2. LeaseInv /\ [Next]_vars => LeaseInv'
  BY HoldersKept, UsageKept DEF LeaseInv
<1>3. LeaseInv => UsageIsExact
  BY DEF LeaseInv
<1> QED
  BY <1>1, <1>2, <1>3, PTL DEF Spec

-----------------------------------------------------------------------------
(* Cursors.                                                                *)

(* Each step of the cursors, callers and the reaper is one of the lease.   *)
LEMMA CursorStep ==
  ASSUME [CursorNext]_<<vars, cursorVars>>
  PROVE  [Next]_vars
<1>1. CASE UNCHANGED <<vars, cursorVars>>
  BY <1>1
<1>2. CASE LeaseStep /\ UNCHANGED cursorVars
  BY <1>2 DEF LeaseStep, Next
<1>3. ASSUME NEW h \in Handles, OpenHandle(h) \/ DropHandle(h) \/ ResolveCommit(h)
      PROVE  [Next]_vars
  BY <1>3 DEF OpenHandle, DropHandle, ResolveCommit, Next
<1>4. ASSUME NEW h \in Snapshots,
             EndCallerRead(h) \/ Cancel(h) \/ RefuseBatch(h) \/ BeginBatch(h)
                \/ EndBatch(h) \/ Close(h)
      PROVE  [Next]_vars
  BY <1>4 DEF Snapshots, EndCallerRead, Cancel, RefuseBatch, BeginBatch, EndBatch, Close, Next
<1>5. ASSUME NEW h \in Snapshots, NEW keep \in BOOLEAN, NEW sizes, NEW first, NEW last,
             History(h, sizes, first, last, keep)
      PROVE  [Next]_vars
  BY <1>5 DEF Snapshots, History, Next
<1> QED
  BY <1>1, <1>2, <1>3, <1>4, <1>5 DEF CursorNext

(* Cursors implement Lease: opening, batches, cancellation, failures and   *)
(* the release of the clone use a lease only as its operations allow.      *)
THEOREM CursorsImplementLease == CursorSpec => ImplementsLease
<1>1. CursorInit => Init
  BY DEF CursorInit
<1>2. [CursorNext]_<<vars, cursorVars>> => [Next]_vars
  BY CursorStep
<1> QED
  BY <1>1, <1>2, PTL DEF CursorSpec, ImplementsLease, Spec

(* With cursors that outlive their caller's handle, fail, are cancelled or *)
(* never asked again, the permits still count exactly the states in use.   *)
THEOREM CursorUsageIsExact == CursorSpec => []UsageIsExact
  BY CursorsImplementLease, LeaseUsageIsExact, PTL DEF ImplementsLease

-----------------------------------------------------------------------------
(* Batches put together.                                                   *)

(* A function from i to the first i batches in one sequence.               *)
FlatStep(f, s, i) == IF i = 1 THEN s[i] ELSE f[i - 1] \o s[i]
FlatOver(f, s) == f = [i \in 1..Len(s) |-> FlatStep(f, s, i)]

(* Every nonempty set of natural numbers has a least element.              *)
LEMMA LeastNatural ==
  ASSUME NEW T, T \subseteq Nat, T # {}
  PROVE  \E x \in T : \A y \in T : x <= y
<1> DEFINE R == {ss \in Nat \X Nat : ss[1] < ss[2]}
<1>1. IsWellFoundedOn(R, Nat)
  BY NatLessThanWellFounded DEF OpToRel
<1>2. PICK x \in T : \A y \in T : ~ (<<y, x>> \in R)
  <2> HIDE DEF R
  <2> QED
    BY <1>1, WFMin
<1>3. ASSUME NEW y \in T PROVE x <= y
  <2>1. x \in Nat /\ y \in Nat
    OBVIOUS
  <2>2. ASSUME y < x PROVE <<y, x>> \in R
    BY <2>1, <2>2
  <2> QED
    BY <1>2, <2>1, <2>2
<1> QED
  BY <1>3

LEMMA FlattenIsChosen ==
  ASSUME NEW s, Len(s) # 0
  PROVE  FlattenSeq(s) = (CHOOSE f : FlatOver(f, s))[Len(s)]
  BY Zenon DEF FlattenSeq, FlatOver, FlatStep

(* The recursion has a solution: one that is right below n is extended to n. *)
LEMMA FlattenExists ==
  ASSUME NEW s, Len(s) \in Nat
  PROVE  \E f : FlatOver(f, s)
<1> DEFINE D == 1..Len(s)
           Right(f, n) == \A i \in D : i < n => f[i] = FlatStep(f, s, i)
           Missing == {n \in Nat : ~ \E f : f = [i \in D |-> f[i]] /\ Right(f, n)}
<1>1. Missing = {}
  <2>1. SUFFICES ASSUME Missing # {} PROVE FALSE
    OBVIOUS
  <2>2. PICK n \in Missing : \A m \in Missing : n <= m
    BY <2>1, LeastNatural
  <2>3. CASE n = 0
    <3> DEFINE f == [i \in D |-> 0]
    <3>1. Right(f, 0)
      OBVIOUS
    <3>2. f = [i \in D |-> f[i]]
      OBVIOUS
    <3> HIDE DEF f, Right
    <3> QED
      BY <2>2, <2>3, <3>1, <3>2
  <2>4. CASE n # 0
    <3>1. n - 1 \in Nat /\ n - 1 \notin Missing
      <4>1. n - 1 \in Nat /\ ~(n <= n - 1)
        BY <2>4
      <4> QED
        BY <2>2, <4>1
    <3>2. PICK f : f = [i \in D |-> f[i]] /\ Right(f, n - 1)
      <4> HIDE DEF Right
      <4> QED
        BY <3>1
    <3> DEFINE g == [i \in D |-> IF i = n - 1 THEN FlatStep(f, s, i) ELSE f[i]]
    <3>3. ASSUME NEW i \in D, i < n PROVE FlatStep(g, s, i) = FlatStep(f, s, i)
      <4>1. CASE i = 1
        BY <4>1 DEF FlatStep
      <4>2. CASE i # 1
        <5>1. i - 1 \in D /\ i - 1 # n - 1
          BY <3>3, <4>2
        <5>2. g[i - 1] = f[i - 1]
          BY <5>1
        <5> HIDE DEF g
        <5> QED
          BY <4>2, <5>2 DEF FlatStep
      <4> QED
        BY <4>1, <4>2
    <3>4. Right(g, n)
      <4>1. SUFFICES ASSUME NEW i \in D, i < n PROVE g[i] = FlatStep(g, s, i)
        OBVIOUS
      <4>2. CASE i = n - 1
        BY <3>3, <4>1, <4>2
      <4>3. CASE i # n - 1
        <5>1. i < n - 1
          BY <4>1, <4>3
        <5>2. f[i] = FlatStep(f, s, i) /\ g[i] = f[i]
          BY <3>2, <4>3, <5>1
        <5> QED
          BY <3>3, <4>1, <5>2
      <4> QED
        BY <4>2, <4>3
    <3>5. g = [i \in D |-> g[i]]
      OBVIOUS
    <3> HIDE DEF g, Right
    <3> QED
      BY <2>2, <3>4, <3>5
  <2> QED
    BY <2>3, <2>4
<1>2. PICK f : f = [i \in D |-> f[i]] /\ Right(f, Len(s) + 1)
  <2> HIDE DEF Right
  <2> QED
    BY <1>1
<1>3. ASSUME NEW i \in D PROVE f[i] = FlatStep(f, s, i)
  BY <1>2
<1>4. [i \in D |-> f[i]] = [i \in D |-> FlatStep(f, s, i)]
  BY <1>3
<1>5. f = [i \in D |-> f[i]]
  BY <1>2
<1>6. f = [i \in D |-> FlatStep(f, s, i)]
  BY <1>4, <1>5, Zenon
<1> QED
  BY <1>6, Zenon DEF FlatOver

LEMMA FlattenHasFunction ==
  ASSUME NEW s, Len(s) \in Nat \ {0}
  PROVE  \E f : /\ FlattenSeq(s) = f[Len(s)]
                /\ \A i \in 1..Len(s) : f[i] = FlatStep(f, s, i)
<1> DEFINE f == CHOOSE f : FlatOver(f, s)
<1>1. FlatOver(f, s)
  BY FlattenExists, Zenon
<1>2. FlattenSeq(s) = f[Len(s)]
  BY FlattenIsChosen
<1> HIDE DEF f
<1>3. ASSUME NEW i \in 1..Len(s) PROVE f[i] = FlatStep(f, s, i)
  <2> DEFINE g == [j \in 1..Len(s) |-> FlatStep(f, s, j)]
  <2>1. f = g
    BY <1>1, Zenon DEF FlatOver
  <2>2. g[i] = FlatStep(f, s, i)
    OBVIOUS
  <2> QED
    BY <2>1, <2>2, Zenon
<1> QED
  BY <1>2, <1>3, Zenon

(* One more batch goes to the end.                                         *)
LEMMA FlattenAppends ==
  ASSUME NEW S, NEW s \in Seq(Seq(S)), NEW b \in Seq(S)
  PROVE  FlattenSeq(Append(s, b)) = FlattenSeq(s) \o b
<1>1. PICK t : t = Append(s, b)
  OBVIOUS
<1>2. PICK n \in Nat : n = Len(s)
  BY LenProperties
<1>3. Len(t) = n + 1 /\ t[n + 1] = b /\ \A i \in 1..n : t[i] = s[i]
  BY <1>1, <1>2
<1>4. PICK f : /\ FlattenSeq(t) = f[Len(t)]
               /\ \A i \in 1..Len(t) : f[i] = FlatStep(f, t, i)
  <2>1. Len(t) \in Nat \ {0}
    BY <1>3
  <2> QED
    BY <2>1, FlattenHasFunction
<1>5. FlattenSeq(t) = FlatStep(f, t, n + 1)
  BY <1>3, <1>4
<1>6. CASE n = 0
  <2>1. FlattenSeq(s) = s /\ s = <<>>
    BY <1>2, <1>6, EmptySeq DEF FlattenSeq
  <2>2. FlattenSeq(t) = b
    BY <1>3, <1>5, <1>6 DEF FlatStep
  <2>3. <<>> \o b = b
    BY ConcatEmptySeq
  <2> QED
    BY <1>1, <2>1, <2>2, <2>3
<1>7. CASE n # 0
  <2>1. PICK g : /\ FlattenSeq(s) = g[Len(s)]
                 /\ \A i \in 1..Len(s) : g[i] = FlatStep(g, s, i)
    BY <1>2, <1>7, FlattenHasFunction
  <2>2. ASSUME NEW i \in 1..n PROVE f[i] = g[i]
    <3> DEFINE Bad == {j \in 1..n : f[j] # g[j]}
    <3>1. SUFFICES ASSUME Bad # {} PROVE FALSE
      BY <2>2
    <3>2. PICK j \in Bad : \A k \in Bad : j <= k
      <4>1. Bad \subseteq Nat
        OBVIOUS
      <4> HIDE DEF Bad
      <4> QED
        BY <3>1, <4>1, LeastNatural
    <3>3. j \in 1..n
      OBVIOUS
    <3>4. f[j] = FlatStep(f, t, j) /\ g[j] = FlatStep(g, s, j) /\ t[j] = s[j]
      BY <1>2, <1>3, <1>4, <2>1, <3>3
    <3>5. CASE j = 1
      BY <3>2, <3>4, <3>5 DEF FlatStep
    <3>6. CASE j # 1
      <4>1. j - 1 \in 1..n /\ ~(j <= j - 1)
        BY <3>3, <3>6
      <4>2. j - 1 \notin Bad
        BY <3>2, <4>1
      <4>3. f[j - 1] = g[j - 1]
        BY <4>1, <4>2
      <4> QED
        BY <3>2, <3>4, <3>6, <4>3 DEF FlatStep
    <3> QED
      BY <3>5, <3>6
  <2>3. n \in 1..n /\ n + 1 # 1 /\ (n + 1) - 1 = n
    BY <1>7
  <2>4. FlatStep(f, t, n + 1) = f[n] \o b
    BY <1>3, <2>3 DEF FlatStep
  <2>5. f[n] = FlattenSeq(s)
    BY <1>2, <2>1, <2>2, <2>3
  <2> QED
    BY <1>1, <1>5, <2>4, <2>5
<1> QED
  BY <1>6, <1>7

-----------------------------------------------------------------------------
(* What a cursor returns.                                                  *)

CursorType ==
  [phase : {"none", "open", "done", "failed"}, clone : BOOLEAN, sizes : Seq(Nat \ {0}),
   next : Nat, first : Nat, last : Nat, reading : BOOLEAN, cancelled : BOOLEAN,
   batches : Seq(Seq(Nat))]

Weight(sizes, S) == MapThenSumSet(LAMBDA v : sizes[v], S)

(* The batches of a cursor are its range up to the next version.  A batch  *)
(* is read only while the cursor is open, and the next version is never    *)
(* beyond the end of the range, so the last batch ends exactly there.      *)
Consecutive(first, next) == [i \in 1 .. next - first |-> first + i - 1]
WithinLimits(sizes, b) == Len(b) \in 1 .. MaxEvents /\ Weight(sizes, ToSet(b)) <= MaxBytes
ReadsOn(c) ==
  /\ c \in CursorType
  /\ c.first <= c.next /\ c.next <= c.last + 1
  /\ c.reading => c.phase = "open"
  /\ c.phase = "done" => c.next = c.last + 1
  /\ FlattenSeq(c.batches) = Consecutive(c.first, c.next)
  /\ \A i \in 1 .. Len(c.batches) : WithinLimits(c.sizes, c.batches[i])

CursorInv == /\ cursor \in [Snapshots -> CursorType]
             /\ \A h \in Snapshots : ReadsOn(cursor[h])

(* A cursor that keeps its range, its place and its batches.               *)
LEMMA StillReadsOn ==
  ASSUME NEW c, ReadsOn(c), NEW d \in CursorType,
         d.sizes = c.sizes, d.next = c.next, d.first = c.first, d.last = c.last,
         d.batches = c.batches,
         d.reading => d.phase = "open",
         d.phase = "done" => c.phase = "done"
  PROVE  ReadsOn(d)
  BY DEF ReadsOn

(* A cursor that has returned nothing is at the start of its range.        *)
LEMMA StartsReading ==
  ASSUME NEW c \in CursorType, c.batches = <<>>, c.next = c.first, c.first <= c.last + 1,
         ~c.reading, c.phase = "done" => c.next = c.last + 1
  PROVE  ReadsOn(c)
<1>1. FlattenSeq(<<>>) = <<>>
  BY DEF FlattenSeq
<1>2. c.next \in Nat /\ c.first \in Nat /\ c.last \in Nat
  BY DEF CursorType
<1>3. Consecutive(c.first, c.next) = <<>>
  <2>1. 1 .. c.next - c.first = {}
    BY <1>2
  <2> QED
    BY <2>1 DEF Consecutive
<1>4. Len(c.batches) = 0
  OBVIOUS
<1>5. FlattenSeq(c.batches) = Consecutive(c.first, c.next)
  BY <1>1, <1>3
<1>6. \A i \in 1 .. Len(c.batches) : WithinLimits(c.sizes, c.batches[i])
  BY <1>4
<1> QED
  BY <1>2, <1>5, <1>6 DEF ReadsOn

(* A range continued.                                                      *)
LEMMA RangeContinues ==
  ASSUME NEW first \in Nat, NEW next \in Nat, first <= next, NEW n \in Nat
  PROVE  Consecutive(first, next) \o [i \in 1 .. n |-> next + i - 1] = Consecutive(first, next + n)
<1>1. PICK m \in Nat : m = next - first
  OBVIOUS
<1>2. PICK a, b, r : /\ a = [i \in 1 .. m |-> first + i - 1]
                     /\ b = [i \in 1 .. n |-> next + i - 1]
                     /\ r = [i \in 1 .. m + n |-> first + i - 1]
  OBVIOUS
<1>3. Consecutive(first, next) = a
  BY <1>1, <1>2 DEF Consecutive
<1>4. Consecutive(first, next + n) = r
  <2>1. (next + n) - first = m + n
    BY <1>1
  <2> QED
    BY <1>2, <2>1 DEF Consecutive
<1>5. a \in Seq(Int) /\ Len(a) = m
  BY <1>2
<1>6. b \in Seq(Int) /\ Len(b) = n
  BY <1>2
<1>7. r \in Seq(Int) /\ Len(r) = m + n
  BY <1>2
<1>8. /\ a \o b \in Seq(Int) /\ Len(a \o b) = Len(a) + Len(b)
      /\ \A i \in 1 .. Len(a) + Len(b) :
            (a \o b)[i] = IF i <= Len(a) THEN a[i] ELSE b[i - Len(a)]
  BY <1>5, <1>6, ConcatProperties
<1>9. ASSUME NEW i \in 1 .. m + n PROVE (a \o b)[i] = r[i]
  <2>1. (a \o b)[i] = IF i <= m THEN a[i] ELSE b[i - m]
    BY <1>5, <1>6, <1>8
  <2>2. r[i] = first + i - 1
    BY <1>2
  <2>3. CASE i <= m
    <3>1. a[i] = first + i - 1
      BY <1>2, <2>3
    <3> QED
      BY <2>1, <2>2, <2>3, <3>1
  <2>4. CASE ~(i <= m)
    <3>1. i - m \in 1 .. n
      BY <2>4
    <3>2. b[i - m] = next + (i - m) - 1
      BY <1>2, <3>1
    <3>3. next + (i - m) - 1 = first + i - 1
      BY <1>1
    <3> QED
      BY <2>1, <2>2, <2>4, <3>2, <3>3
  <2> QED
    BY <2>3, <2>4
<1>10. a \o b = r
  <2>1. Len(a \o b) = Len(r) /\ Len(r) = m + n
    BY <1>5, <1>6, <1>7, <1>8
  <2>2. \A i \in 1 .. Len(a \o b) : (a \o b)[i] = r[i]
    BY <1>9, <2>1
  <2> QED
    BY <1>7, <1>8, <2>1, <2>2, SeqEqual
<1> QED
  BY <1>2, <1>3, <1>4, <1>10

(* The largest batch the limits admit is one of them.                      *)
LEMMA LargestIsAdmitted ==
  ASSUME NEW k \in Int, NEW T, T \subseteq 1 .. k, T # {}
  PROVE  Max(T) \in T
<1> DEFINE U == {k - n : n \in T}
<1>1. U \subseteq Nat /\ U # {}
  <2>1. ASSUME NEW n \in T PROVE k - n \in Nat
    <3>1. n \in 1 .. k
      OBVIOUS
    <3> QED
      BY <3>1
  <2> QED
    BY <2>1
<1>2. PICK u \in U : \A y \in U : u <= y
  <2> HIDE DEF U
  <2> QED
    BY <1>1, LeastNatural
<1>3. PICK n \in T : u = k - n
  BY <1>2
<1>4. ASSUME NEW y \in T PROVE n >= y
  <2>1. k - y \in U
    OBVIOUS
  <2>2. k - n <= k - y
    BY <1>2, <1>3, <2>1
  <2>3. n \in Int /\ y \in Int
    OBVIOUS
  <2> QED
    BY <2>2, <2>3
<1> QED
  BY <1>4 DEF Max

(* The versions of a batch are the next ones, and none beyond the last.    *)
LEMMA BatchArithmetic ==
  ASSUME NEW first \in Nat, NEW next \in Nat, NEW last \in Nat, NEW n \in Nat,
         first <= next, n <= last - next + 1
  PROVE  /\ first <= next + n /\ next + n <= last + 1
         /\ next + n > last => next + n = last + 1
         /\ \A v \in next .. next + n - 1 :
               v - next + 1 \in 1 .. n /\ next + (v - next + 1) - 1 = v
         /\ \A i \in 1 .. n : next + i - 1 \in next .. next + n - 1
  OBVIOUS

(* A batch that was read in time continues the range.                      *)
LEMMA BatchReadsOn ==
  ASSUME NEW c, ReadsOn(c), NEW n \in Admitted(c),
         NEW b, b = [i \in 1 .. n |-> c.next + i - 1],
         NEW t, t = Append(c.batches, b),
         NEW d \in CursorType, d.batches = t, d.next = c.next + n, ~d.reading,
         d.sizes = c.sizes, d.first = c.first, d.last = c.last,
         d.phase = "done" => Ends(c, n)
  PROVE  ReadsOn(d)
<1>1. /\ c \in CursorType /\ c.next \in Nat /\ c.first \in Nat /\ c.last \in Nat
      /\ c.batches \in Seq(Seq(Nat))
  BY DEF ReadsOn, CursorType
<1>2. b = [i \in 1 .. n |-> c.next + i - 1]
  OBVIOUS
<1>3. n \in Nat /\ n \in 1 .. MaxEvents /\ n <= c.last - c.next + 1 /\ Bytes(c, n) <= MaxBytes
  BY <1>1, CursorAssumption DEF Admitted
<1>4. b \in Seq(Nat) /\ Len(b) = n /\ DOMAIN b = 1 .. n
  <2>1. \A i \in 1 .. n : c.next + i - 1 \in Nat
    BY <1>1, <1>3
  <2> QED
    BY <1>2, <1>3, <2>1
<1>5. t = Append(c.batches, b)
  OBVIOUS
<1>6. /\ t \in Seq(Seq(Nat)) /\ Len(t) = Len(c.batches) + 1
      /\ \A i \in 1 .. Len(c.batches) : t[i] = c.batches[i]
      /\ t[Len(c.batches) + 1] = b
      /\ Len(c.batches) \in Nat
  BY <1>1, <1>4, <1>5
<1>7. /\ c.first <= c.next + n /\ c.next + n <= c.last + 1
      /\ c.next + n > c.last => c.next + n = c.last + 1
      /\ \A v \in c.next .. c.next + n - 1 :
            v - c.next + 1 \in 1 .. n /\ c.next + (v - c.next + 1) - 1 = v
      /\ \A i \in 1 .. n : c.next + i - 1 \in c.next .. c.next + n - 1
  <2>1. c.first <= c.next
    BY DEF ReadsOn
  <2> QED
    BY <1>1, <1>3, <2>1, BatchArithmetic
<1>8. FlattenSeq(t) = Consecutive(c.first, c.next + n)
  <2>1. FlattenSeq(t) = FlattenSeq(c.batches) \o b
    BY <1>1, <1>4, <1>5, FlattenAppends
  <2>2. FlattenSeq(c.batches) = Consecutive(c.first, c.next) /\ c.first <= c.next
    BY DEF ReadsOn
  <2>3. Consecutive(c.first, c.next) \o b = Consecutive(c.first, c.next + n)
    <3>1. Consecutive(c.first, c.next) \o [i \in 1 .. n |-> c.next + i - 1]
             = Consecutive(c.first, c.next + n)
      BY <1>1, <1>3, <2>2, RangeContinues, Zenon
    <3> QED
      BY <1>2, <3>1, Zenon
  <2> QED
    BY <2>1, <2>2, <2>3
<1>9. WithinLimits(c.sizes, b)
  <2>1. ToSet(b) = c.next .. c.next + n - 1
    <3>1. ASSUME NEW v \in ToSet(b) PROVE v \in c.next .. c.next + n - 1
      <4>1. PICK i \in 1 .. n : v = b[i]
        BY <1>4 DEF ToSet
      <4>2. v = c.next + i - 1
        BY <1>2, <4>1
      <4> QED
        BY <1>7, <4>1, <4>2
    <3>2. ASSUME NEW v \in c.next .. c.next + n - 1 PROVE v \in ToSet(b)
      <4>1. PICK i : i \in 1 .. n /\ c.next + i - 1 = v
        BY <1>7
      <4>2. b[i] = v
        BY <1>2, <4>1
      <4> QED
        BY <1>4, <4>1, <4>2 DEF ToSet
    <3> QED
      BY <3>1, <3>2
  <2>2. Bytes(c, n) = Weight(c.sizes, c.next .. c.next + n - 1)
    BY Zenon DEF Bytes, Weight
  <2> QED
    BY <1>3, <1>4, <2>1, <2>2 DEF WithinLimits
<1>10. ASSUME NEW i \in 1 .. Len(t) PROVE WithinLimits(c.sizes, t[i])
  <2>1. i \in 1 .. Len(c.batches) \/ i = Len(c.batches) + 1
    BY <1>6
  <2>2. CASE i \in 1 .. Len(c.batches)
    BY <1>6, <2>2 DEF ReadsOn
  <2>3. CASE i = Len(c.batches) + 1
    BY <1>6, <1>9, <2>3
  <2> QED
    BY <2>1, <2>2, <2>3
<1>11. d.first <= d.next /\ d.next <= d.last + 1
  BY <1>7
<1>12. d.phase = "done" => d.next = d.last + 1
  BY <1>7 DEF Ends
<1>13. FlattenSeq(d.batches) = Consecutive(d.first, d.next)
  BY <1>8
<1>14. \A i \in 1 .. Len(d.batches) : WithinLimits(d.sizes, d.batches[i])
  BY <1>10
<1> QED
  BY <1>11, <1>12, <1>13, <1>14 DEF ReadsOn

(* Every step leaves each cursor at a place its batches led to.            *)
LEMMA CursorKept ==
  ASSUME CursorInv, [CursorNext]_<<vars, cursorVars>>
  PROVE  CursorInv'
<1>1. ASSUME NEW h \in Snapshots, NEW d, ReadsOn(d), cursor' = [cursor EXCEPT ![h] = d]
      PROVE  CursorInv'
  BY <1>1 DEF CursorInv, ReadsOn
<1>2. CASE UNCHANGED cursor
  BY <1>2 DEF CursorInv
<1>3. ReadsOn(Idle)
  <2>1. Idle \in CursorType
    BY DEF Idle, CursorType
  <2> QED
    BY <2>1, StartsReading DEF Idle
<1>4. ASSUME NEW h \in Handles, OpenHandle(h) PROVE CursorInv'
  BY <1>1, <1>2, <1>3, <1>4 DEF OpenHandle
<1>5. ASSUME NEW h \in Snapshots, NEW sizes \in Histories, NEW keep \in BOOLEAN,
             NEW first \in 1 .. Len(sizes) + 1, NEW last \in 0 .. Len(sizes),
             Asked(sizes, first, last), History(h, sizes, first, last, keep)
      PROVE  CursorInv'
  <2>1. PICK d : d = [Idle EXCEPT !.phase = IF sizes = <<>> THEN "done" ELSE "open",
                                  !.clone = sizes # <<>>,
                                  !.sizes = sizes, !.next = first, !.first = first,
                                  !.last = last]
    OBVIOUS
  <2>2. sizes \in Seq(Nat \ {0}) /\ Len(sizes) \in Nat /\ first \in Nat /\ last \in Nat
    BY CursorAssumption
  <2>3. d \in CursorType /\ d.batches = <<>> /\ d.next = first /\ d.first = first /\ d.last = last
        /\ ~d.reading /\ d.phase = IF sizes = <<>> THEN "done" ELSE "open"
    <3>1. PICK p \in {"none", "open", "done", "failed"}, k \in BOOLEAN :
             p = (IF sizes = <<>> THEN "done" ELSE "open") /\ k = (sizes # <<>>)
      OBVIOUS
    <3>2. PICK e \in Seq(Seq(Nat)) : e = <<>>
      BY EmptySeq, Zenon
    <3>3. d = [phase |-> p, clone |-> k, sizes |-> sizes, next |-> first, first |-> first,
               last |-> last, reading |-> FALSE, cancelled |-> FALSE, batches |-> e]
      BY <2>1, <3>1, <3>2 DEF Idle
    <3>4. d \in CursorType
      BY <2>2, <3>1, <3>2, <3>3 DEF CursorType
    <3> QED
      BY <3>1, <3>2, <3>3, <3>4
  <2>4. first <= last + 1 /\ (sizes = <<>> => first = last + 1)
    BY <1>5, <2>2 DEF Asked
  <2>5. ReadsOn(d)
    BY <2>3, <2>4, StartsReading
  <2>6. cursor' = [cursor EXCEPT ![h] = d]
    BY <1>5, <2>1 DEF History
  <2> QED
    BY <1>1, <2>5, <2>6
<1>6. ASSUME NEW h \in Snapshots, NEW d \in CursorType, cursor' = [cursor EXCEPT ![h] = d],
             d.sizes = cursor[h].sizes, d.next = cursor[h].next, d.first = cursor[h].first,
             d.last = cursor[h].last, d.batches = cursor[h].batches,
             d.reading => d.phase = "open", d.phase = "done" => cursor[h].phase = "done"
      PROVE  CursorInv'
  <2>1. ReadsOn(cursor[h])
    BY DEF CursorInv
  <2>2. ReadsOn(d)
    BY <1>6, <2>1, StillReadsOn
  <2> QED
    BY <1>1, <1>6, <2>2
<1>7. ASSUME NEW h \in Snapshots PROVE cursor[h] \in CursorType /\ ReadsOn(cursor[h])
  BY DEF CursorInv
<1>8. ASSUME NEW h \in Snapshots, Cancel(h) PROVE CursorInv'
  <2>1. PICK d : d = [cursor[h] EXCEPT !.cancelled = TRUE]
    OBVIOUS
  <2>2. cursor' = [cursor EXCEPT ![h] = d]
    BY <1>8, <2>1 DEF Cancel
  <2> QED
    BY <1>6, <1>7, <2>1, <2>2 DEF CursorType, ReadsOn
<1>9. ASSUME NEW h \in Snapshots, RefuseBatch(h) PROVE CursorInv'
  <2>1. PICK d : d = [cursor[h] EXCEPT !.phase = "failed"]
    OBVIOUS
  <2>2. cursor' = [cursor EXCEPT ![h] = d] /\ ~cursor[h].reading
    BY <1>9, <2>1 DEF RefuseBatch
  <2> QED
    BY <1>6, <1>7, <2>1, <2>2 DEF CursorType, ReadsOn
<1>10. ASSUME NEW h \in Snapshots, BeginBatch(h) PROVE CursorInv'
  <2>1. PICK d : d = [cursor[h] EXCEPT !.reading = TRUE]
    OBVIOUS
  <2>2. cursor' = [cursor EXCEPT ![h] = d] /\ cursor[h].phase = "open"
    BY <1>10, <2>1 DEF BeginBatch
  <2> QED
    BY <1>6, <1>7, <2>1, <2>2 DEF CursorType, ReadsOn
<1>11. ASSUME NEW h \in Snapshots, Fail(h) PROVE CursorInv'
  <2>1. PICK d : d = [cursor[h] EXCEPT !.phase = "failed", !.reading = FALSE]
    OBVIOUS
  <2>2. cursor' = [cursor EXCEPT ![h] = d]
    BY <1>7, <1>11, <2>1 DEF Fail, CursorInv
  <2> QED
    BY <1>6, <1>7, <2>1, <2>2 DEF CursorType, ReadsOn
<1>12. ASSUME NEW h \in Snapshots, Return(h) PROVE CursorInv'
  <2>1. PICK c : c = cursor[h] /\ ReadsOn(c) /\ c \in CursorType
    BY <1>7
  <2>2. PICK n : n = Max(Admitted(c))
    OBVIOUS
  <2>3. n \in Admitted(c)
    <3>1. Admitted(c) \subseteq 1 .. c.last - c.next + 1 /\ Admitted(c) # {}
      BY <1>12, <2>1 DEF Admitted, Return
    <3>2. c.last - c.next + 1 \in Int
      BY <2>1 DEF CursorType
    <3> QED
      BY <2>2, <3>1, <3>2, LargestIsAdmitted
  <2>4. PICK b, t, p : /\ b = [i \in 1 .. n |-> c.next + i - 1]
                       /\ t = Append(c.batches, b)
                       /\ p = IF Ends(c, n) THEN "done" ELSE "open"
    OBVIOUS
  <2>5. PICK d : d = [c EXCEPT !.reading = FALSE, !.batches = t, !.next = c.next + n, !.phase = p]
    OBVIOUS
  <2>6. cursor' = [cursor EXCEPT ![h] = d]
    BY <1>12, <2>1, <2>2, <2>4, <2>5, Zenon DEF Return
  <2>7. c.next \in Nat /\ n \in Nat /\ c.batches \in Seq(Seq(Nat))
    BY <2>1, <2>3, CursorAssumption DEF CursorType, Admitted
  <2>8. t \in Seq(Seq(Nat)) /\ c.next + n \in Nat /\ p \in {"none", "open", "done", "failed"}
    <3>1. \A i \in 1 .. n : c.next + i - 1 \in Nat
      BY <2>7
    <3>2. b \in Seq(Nat)
      BY <2>4, <2>7, <3>1
    <3> QED
      BY <2>4, <2>7, <3>2
  <2>9. PICK m \in Nat : m = c.next + n
    BY <2>8
  <2>10. d = [c EXCEPT !.reading = FALSE, !.batches = t, !.next = m, !.phase = p]
    BY <2>5, <2>9
  <2>11. /\ d \in CursorType
         /\ d.phase = p /\ d.next = m /\ d.batches = t /\ ~d.reading
         /\ d.sizes = c.sizes /\ d.first = c.first /\ d.last = c.last
    <3>1. c \in CursorType /\ t \in Seq(Seq(Nat)) /\ p \in {"none", "open", "done", "failed"}
      BY <2>1, <2>8
    <3> QED
      BY <2>10, <3>1 DEF CursorType
  <2>12. d.phase = "done" => Ends(c, n)
    BY <2>4, <2>11
  <2>13. ReadsOn(d)
    BY <2>1, <2>3, <2>4, <2>9, <2>11, <2>12, BatchReadsOn
  <2> QED
    BY <1>1, <2>6, <2>13
<1>13. ASSUME NEW h \in Snapshots, Close(h) PROVE CursorInv'
  <2>1. PICK d : d = [cursor[h] EXCEPT !.clone = FALSE,
                                       !.phase = IF @ = "open" THEN "failed" ELSE @]
    OBVIOUS
  <2>2. cursor' = [cursor EXCEPT ![h] = d] /\ ~cursor[h].reading
    BY <1>7, <1>13, <2>1 DEF Close, CursorInv
  <2> QED
    BY <1>6, <1>7, <2>1, <2>2 DEF CursorType, ReadsOn
<1>14. ASSUME NEW h \in Handles, DropHandle(h) \/ ResolveCommit(h) PROVE CursorInv'
  BY <1>2, <1>14 DEF DropHandle, ResolveCommit
<1>15. ASSUME NEW h \in Snapshots, EndCallerRead(h) PROVE CursorInv'
  BY <1>2, <1>15 DEF EndCallerRead, cursorVars
<1>16. CASE UNCHANGED cursorVars
  BY <1>2, <1>16 DEF cursorVars
<1> QED
  BY <1>4, <1>5, <1>8, <1>9, <1>10, <1>11, <1>12, <1>13, <1>14, <1>15, <1>16
     DEF CursorNext, EndBatch

(* What a cursor has returned is its range from the first version on, every *)
(* event once and in order, in batches within the limits, whatever cancels, *)
(* expires or fails it between batches; and it is done only at the end.    *)
THEOREM RangesAreRead == CursorSpec => []CursorReadsItsRange
<1>1. CursorInit => CursorInv
  <2>1. Idle \in CursorType
    BY DEF Idle, CursorType
  <2>2. ReadsOn(Idle)
    BY <2>1, StartsReading DEF Idle
  <2> QED
    BY <2>1, <2>2 DEF CursorInit, CursorInv
<1>2. CursorInv /\ [CursorNext]_<<vars, cursorVars>> => CursorInv'
  BY CursorKept
<1>3. CursorInv => CursorReadsItsRange
  <2> DEFINE Reads(c) ==
                        /\ FlattenSeq(c.batches) = [i \in 1 .. c.next - c.first |-> c.first + i - 1]
                        /\ \A i \in DOMAIN c.batches :
                              /\ Len(c.batches[i]) \in 1 .. MaxEvents
                              /\ MapThenSumSet(LAMBDA v : c.sizes[v], ToSet(c.batches[i])) <= MaxBytes
                        /\ c.phase = "done" => c.next = c.last + 1
  <2>1. SUFFICES ASSUME CursorInv, NEW h \in Snapshots PROVE Reads(cursor[h])
    BY Zenon DEF CursorReadsItsRange
  <2>2. ReadsOn(cursor[h])
    BY <2>1 DEF CursorInv
  <2> SUFFICES ASSUME NEW c, ReadsOn(c) PROVE Reads(c)
    BY <2>2
  <2>3. DOMAIN c.batches = 1 .. Len(c.batches)
    BY LenProperties DEF ReadsOn, CursorType
  <2>4. ASSUME NEW i \in DOMAIN c.batches
        PROVE  /\ Len(c.batches[i]) \in 1 .. MaxEvents
               /\ MapThenSumSet(LAMBDA v : c.sizes[v], ToSet(c.batches[i])) <= MaxBytes
    BY <2>3 DEF ReadsOn, WithinLimits, Weight
  <2>5. FlattenSeq(c.batches) = [i \in 1 .. c.next - c.first |-> c.first + i - 1]
    BY DEF ReadsOn, Consecutive
  <2>6. c.phase = "done" => c.next = c.last + 1
    BY DEF ReadsOn
  <2> QED
    BY <2>4, <2>5, <2>6, Zenon
<1> QED
  BY <1>1, <1>2, <1>3, PTL DEF CursorSpec

-----------------------------------------------------------------------------
(* Maintenance. *)

JobType == [stage : Stages, background : BOOLEAN, frontier : WalSizes, failed : BOOLEAN]

(* Between capture and installation the WAL holds at least the captured bytes. *)
FrontierInv ==
    \A t \in Threads : Stage(t) \in {"build", "abandon", "install"}
                       => jobs[t].frontier <= wal

(* A thread without a job is not in the middle of one, and conversely. *)
StageInv == \A t \in Threads : Stage(t) = "none" <=> jobs[t] = NoJob

(* Only a job that ends has failed; the last outcome is the one about to be recorded,
   or a failure that is on record.                                          *)
OutcomeInv ==
    /\ \A t \in Threads : jobs[t].failed => Stage(t) \in {"record", "release"}
    /\ \A t \in Threads : Stage(t) = "record" => jobs[t].failed = lastFailed
    /\ lastFailed => error \/ \E t \in Threads : Stage(t) = "record"

IInv == TypeOK /\ OneJob /\ TailHasAJob /\ FrontierInv /\ StageInv /\ OutcomeInv

(* A WAL may have any size up to the limit or the size it was opened with. *)
LEMMA Sizes ==
    /\ \A n \in WalSizes : n \in Nat /\ n \in Int
    /\ \A n \in 0..RecoveredWal : n \in WalSizes
    /\ \A n \in WalSizes, d \in Nat : d <= n => n - d \in WalSizes
    /\ \A n \in WalSizes, d \in Nat : n + d <= MaxWal => n + d \in WalSizes
  BY SizesAssumption DEF WalSizes

(* A job just started or ended has the type of a job. *)
LEMMA JobTypes ==
    /\ NoJob \in JobType
    /\ \A b \in BOOLEAN : NewJob(b) \in JobType /\ NewJob(b) # NoJob
  <1>1. 0 \in WalSizes
    BY SizesAssumption DEF WalSizes
  <1>2. NoJob \in JobType
    BY <1>1 DEF JobType, NoJob, Stages
  <1>3. ASSUME NEW b \in BOOLEAN PROVE NewJob(b) \in JobType /\ NewJob(b) # NoJob
    <2>2. NewJob(b) \in JobType
      BY <1>1 DEF JobType, Stages, NewJob
    <2>3. NewJob(b).stage # NoJob.stage
      BY DEF NoJob, NewJob
    <2> QED
      BY <2>2, <2>3
  <1> QED
    BY <1>2, <1>3

(* Init establishes the invariant: no job, no tail, any recovered WAL. *)
LEMMA InitIInv == JobsInit => IInv
  <1> SUFFICES ASSUME JobsInit PROVE IInv
    OBVIOUS
  <1>0. jobs \in [Threads -> JobType]
    BY JobTypes DEF JobsInit
  <1>1. TypeOK
    <2>1. told \in [Callers -> BOOLEAN] /\ running \in BOOLEAN /\ error \in BOOLEAN
      BY Zenon DEF JobsInit
    <2>2. tail \in BOOLEAN /\ poisoned \in BOOLEAN /\ lastFailed \in BOOLEAN
      BY DEF JobsInit
    <2>3. wal \in WalSizes
      BY Sizes DEF JobsInit
    <2> QED
      BY <1>0, <2>1, <2>2, <2>3 DEF JobsInit, TypeOK, JobType
  <1> QED
    BY <1>1 DEF JobsInit, IInv, OneJob, TailHasAJob, FrontierInv, StageInv, OutcomeInv, Stage, NoJob

(* The steps that touch neither a job nor the flag keep the invariant: a group is
   led, the error is read or set, a caller starts or ends to wait.           *)
LEMMA QuietSteps ==
    ASSUME IInv, UNCHANGED <<running, jobs, tail>>,
           pc' \in [Threads -> {"idle", "triggering", "starting", "spawnFailed", "queuing",
                                "maintaining", "waiting"}],
           told' \in [Callers -> BOOLEAN],
           wal' \in WalSizes, wal <= wal', poisoned' \in BOOLEAN, poisoned => poisoned',
           error' \in BOOLEAN, error => error', UNCHANGED lastFailed
    PROVE  IInv'
  <1>1. TypeOK'
    BY DEF IInv, TypeOK
  <1>2. OneJob' /\ StageInv' /\ OutcomeInv'
    BY DEF IInv, OneJob, StageInv, OutcomeInv, Stage
  <1>3. TailHasAJob'
    BY DEF IInv, TypeOK, TailHasAJob, Stage
  <1>4. FrontierInv'
    <2> SUFFICES ASSUME NEW t \in Threads,
                        jobs[t].stage \in {"build", "abandon", "install"}
                 PROVE  jobs[t].frontier <= wal'
      BY DEF FrontierInv, Stage
    <2>1. jobs[t].frontier <= wal
      BY DEF IInv, FrontierInv, Stage
    <2>2. jobs[t].frontier \in Int /\ wal \in Int /\ wal' \in Int
      <3>1. jobs[t].frontier \in WalSizes /\ wal \in WalSizes
        BY DEF IInv, TypeOK
      <3> QED
        BY <3>1, Sizes
    <2> QED
      BY <2>1, <2>2
  <1> QED
    BY <1>1, <1>2, <1>3, <1>4 DEF IInv

(* A job starts only when the flag is down, so when there is no other one. *)
LEMMA StartSteps ==
    ASSUME IInv, NEW t \in Threads, NEW b \in BOOLEAN,
           ~running, running' = TRUE, jobs' = [jobs EXCEPT ![t] = NewJob(b)],
           pc' \in [Threads -> {"idle", "triggering", "starting", "spawnFailed", "queuing",
                                "maintaining", "waiting"}],
           UNCHANGED <<told, error, database, lastFailed>>
    PROVE  IInv'
  <1>0. /\ jobs \in [Threads -> JobType]
        /\ jobs' \in [Threads -> JobType]
        /\ jobs'[t] = NewJob(b)
        /\ \A s \in Threads \ {t} : jobs'[s] = jobs[s]
    BY JobTypes DEF IInv, TypeOK, JobType
  <1>1. \A s \in Threads : jobs[s] = NoJob
    BY DEF IInv, OneJob
  <1>2. TypeOK'
    BY <1>0 DEF IInv, TypeOK, JobType, database
  <1>3. OneJob'
    BY <1>0, <1>1, JobTypes DEF OneJob
  <1>4. ~(tail /\ ~poisoned)
    BY <1>1 DEF IInv, TailHasAJob, Stage, NoJob
  <1>5. TailHasAJob'
    BY <1>4 DEF TailHasAJob, database
  <1>6. StageInv' /\ FrontierInv'
    <2>1. jobs'[t].stage = "capture" /\ jobs'[t] # NoJob
      BY <1>0, JobTypes DEF NewJob
    <2>2. \A s \in Threads \ {t} : jobs'[s] = NoJob /\ jobs'[s].stage = "none"
      BY <1>0, <1>1 DEF NoJob
    <2> QED
      BY <2>1, <2>2 DEF StageInv, FrontierInv, Stage
  <1>7. OutcomeInv'
    <2>1. lastFailed => error
      BY <1>1 DEF IInv, OutcomeInv, Stage, NoJob
    <2>2. jobs'[t].stage = "capture" /\ jobs'[t].failed = FALSE
      BY <1>0 DEF NewJob
    <2>3. \A s \in Threads \ {t} : jobs'[s].stage = "none" /\ jobs'[s].failed = FALSE
      BY <1>0, <1>1 DEF NoJob
    <2> QED
      BY <2>1, <2>2, <2>3 DEF OutcomeInv, Stage
  <1> QED
    BY <1>2, <1>3, <1>5, <1>6, <1>7 DEF IInv

Building == {"build", "abandon", "install"}

(* A tail on a usable handle belongs to the only job there is. *)
LEMMA TailIsMine ==
    ASSUME IInv, NEW t \in Threads, Stage(t) # "none", tail, ~poisoned
    PROVE  Stage(t) \in Building
  <1>1. PICK s \in Threads : Stage(s) \in Building
    BY DEF IInv, TailHasAJob, Building
  <1>2. jobs[s] # NoJob /\ jobs[t] # NoJob
    BY <1>1 DEF IInv, StageInv, Building
  <1> QED
    BY <1>1, <1>2 DEF IInv, OneJob

(* What a step of a job must respect: its frontier stays below the WAL, it owns
   the tail, and a failure it announces is on record.                       *)
LEMMA JobMoves ==
    ASSUME IInv, NEW t \in Threads, NEW j \in JobType, Stage(t) # "none",
           j.stage # "none", jobs' = [jobs EXCEPT ![t] = j],
           UNCHANGED <<pc, told, running>>,
           error' \in BOOLEAN, lastFailed' \in BOOLEAN,
           j.failed => j.stage \in {"record", "release"},
           j.stage = "record" => j.failed = lastFailed',
           lastFailed' => error' \/ j.stage = "record",
           wal' \in WalSizes, tail' \in BOOLEAN, poisoned' \in BOOLEAN,
           tail' /\ ~poisoned' => j.stage \in Building,
           j.stage \in Building => j.frontier <= wal'
    PROVE  IInv'
  <1>0. /\ jobs' \in [Threads -> JobType]
        /\ jobs'[t] = j
        /\ \A s \in Threads \ {t} : jobs'[s] = jobs[s]
    BY DEF IInv, TypeOK, JobType
  <1>1. jobs[t] # NoJob /\ \A s \in Threads \ {t} : jobs[s] = NoJob
    BY DEF IInv, OneJob, StageInv
  <1>2. j # NoJob
    BY DEF NoJob
  <1>3. \A s \in Threads \ {t} : jobs'[s] = NoJob /\ jobs'[s].stage = "none"
    BY <1>0, <1>1 DEF NoJob
  <1>4. TypeOK'
    BY <1>0 DEF IInv, TypeOK, JobType
  <1>5. OneJob'
    BY <1>0, <1>1, <1>2, <1>3 DEF IInv, OneJob
  <1>6. TailHasAJob' /\ FrontierInv' /\ StageInv'
    BY <1>0, <1>2, <1>3 DEF TailHasAJob, FrontierInv, StageInv, Stage, Building
  <1>7. OutcomeInv'
    BY <1>0, <1>3 DEF OutcomeInv, Stage, NoJob
  <1> QED
    BY <1>4, <1>5, <1>6, <1>7 DEF IInv

(* A job that fails, or moves to a named stage, keeps the type of a job.   *)
LEMMA JobUpdates ==
    ASSUME IInv, NEW t \in Threads
    PROVE  /\ [jobs[t] EXCEPT !.stage = "record", !.failed = TRUE] \in JobType
           /\ [jobs[t] EXCEPT !.stage = "build", !.frontier = wal] \in JobType
           /\ \A to \in Stages : [jobs[t] EXCEPT !.stage = to] \in JobType
  <1>1. jobs[t] \in JobType
    BY DEF IInv, TypeOK, JobType
  <1> QED
    BY <1>1 DEF IInv, TypeOK, JobType, Stages

(* The threads that lead groups and the callers that do not start a job change no
   job; the others start one while there is none.                           *)
LEMMA ThreadSteps ==
    ASSUME IInv, NEW t \in Threads
    PROVE  /\ t \in Writers /\ WriterStep(t) => IInv'
           /\ t \in Callers /\ CallerStep(t) => IInv'
  <1>0. ASSUME NEW to \in {"idle", "triggering", "starting", "spawnFailed", "queuing",
                           "maintaining", "waiting"},
               Go(t, to)
        PROVE  pc' \in [Threads -> {"idle", "triggering", "starting", "spawnFailed",
                                    "queuing", "maintaining", "waiting"}]
    BY <1>0 DEF IInv, TypeOK, Go
  <1>12. wal \in WalSizes /\ wal <= wal
    BY Sizes DEF IInv, TypeOK
  <1>1. ASSUME LeadGroup(t) PROVE IInv'
    <2>1. wal' \in WalSizes /\ wal <= wal'
      <3>1. wal \in WalSizes /\ wal \in Nat
        BY Sizes DEF IInv, TypeOK
      <3>2. CASE UNCHANGED wal
        BY <3>1, <3>2
      <3>3. ASSUME NEW bytes \in 1..MaxGroup, GroupFits(bytes), wal' = wal + bytes
            PROVE  wal' \in WalSizes /\ wal <= wal'
        BY <3>1, <3>3, Sizes DEF GroupFits
      <3> QED
        BY <1>1, <3>2, <3>3 DEF LeadGroup
    <2>2. poisoned' \in BOOLEAN /\ (poisoned => poisoned')
      <3>1. poisoned' = poisoned \/ poisoned' = TRUE
        BY <1>1 DEF LeadGroup
      <3>2. poisoned \in BOOLEAN
        BY DEF IInv, TypeOK
      <3>3. CASE poisoned' = poisoned
        BY <3>2, <3>3
      <3>4. CASE poisoned' = TRUE
        BY <3>4
      <3> QED
        BY <3>1, <3>3, <3>4
    <2>3. pc' \in [Threads -> {"idle", "triggering", "starting", "spawnFailed",
                               "queuing", "maintaining", "waiting"}]
      BY <1>1, <1>0 DEF LeadGroup
    <2> QED
      BY <1>1, <2>1, <2>2, <2>3, QuietSteps DEF LeadGroup, IInv, TypeOK, state
  <1>2. ASSUME CheckError(t) PROVE IInv'
    BY <1>2, <1>0, <1>12, QuietSteps DEF CheckError, IInv, TypeOK, state, database
  <1>3. ASSUME SpawnFails(t) PROVE IInv'
    BY <1>3, <1>0, <1>12, QuietSteps DEF SpawnFails, IInv, TypeOK, state, database
  <1>4. ASSUME RecordSpawnError(t) PROVE IInv'
    BY <1>4, <1>0, <1>12, QuietSteps DEF RecordSpawnError, IInv, TypeOK, state, database
  <1>5. ASSUME StartAutomatic(t) PROVE IInv'
    <2>1. CASE running
      BY <1>5, <2>1, <1>0, <1>12, QuietSteps DEF StartAutomatic, Spawn, IInv, TypeOK, database
    <2>2. CASE ~running
      BY <1>5, <2>2, <1>0, StartSteps DEF StartAutomatic, Spawn, database
    <2> QED
      BY <2>1, <2>2
  <1>6. ASSUME CheckpointBackground(t) PROVE IInv'
    <2>0. pc' \in [Threads -> {"idle", "triggering", "starting", "spawnFailed",
                               "queuing", "maintaining", "waiting"}]
      BY <1>6 DEF CheckpointBackground, IInv, TypeOK
    <2>1. CASE running
      BY <1>6, <2>0, <2>1, <1>12, QuietSteps
      DEF CheckpointBackground, Spawn, IInv, TypeOK, database
    <2>2. CASE ~running
      BY <1>6, <2>0, <2>2, StartSteps DEF CheckpointBackground, Spawn, database
    <2> QED
      BY <2>1, <2>2
  <1>7. ASSUME Maintain(t) PROVE IInv'
    BY <1>7, <1>0, <1>12, QuietSteps DEF Maintain, IInv, TypeOK, state, database
  <1>8. ASSUME MaintainStarts(t) PROVE IInv'
    BY <1>8, <1>0, StartSteps DEF MaintainStarts, NotRunning, database
  <1>9. ASSUME WaitForMaintenance(t) PROVE IInv'
    BY <1>9, <1>0, <1>12, QuietSteps DEF WaitForMaintenance, IInv, TypeOK, state, database
  <1>10. ASSUME WaitReturns(t) PROVE IInv'
    <2>1. told' \in [Callers -> BOOLEAN]
      BY <1>10 DEF WaitReturns, IInv, TypeOK
    <2> QED
      BY <1>10, <2>1, <1>0, <1>12, QuietSteps DEF WaitReturns, IInv, TypeOK, state, database
  <1> QED
    BY <1>1, <1>2, <1>3, <1>4, <1>5, <1>6, <1>7, <1>8, <1>9, <1>10
    DEF WriterStep, CallerStep

(* Every step of a job keeps the invariant. *)
LEMMA JobSteps ==
    ASSUME IInv, NEW t \in Threads, JobStep(t)
    PROVE  IInv'
  <1> DEFINE failed == [jobs[t] EXCEPT !.stage = "record", !.failed = TRUE]
             moved(to) == [jobs[t] EXCEPT !.stage = to]
             captured == [jobs[t] EXCEPT !.stage = "build", !.frontier = wal]
  <1>0. /\ jobs[t] \in JobType
        /\ wal \in WalSizes /\ wal \in Int
        /\ error \in BOOLEAN /\ lastFailed \in BOOLEAN
        /\ tail \in BOOLEAN /\ poisoned \in BOOLEAN
    BY Sizes DEF IInv, TypeOK, JobType
  <1>1. /\ failed \in JobType /\ failed.stage = "record" /\ failed.failed = TRUE
        /\ captured \in JobType /\ captured.stage = "build" /\ captured.frontier = wal
        /\ captured.failed = jobs[t].failed
        /\ \A to \in Stages : /\ moved(to) \in JobType /\ moved(to).stage = to
                              /\ moved(to).frontier = jobs[t].frontier
                              /\ moved(to).failed = jobs[t].failed
    BY <1>0, JobUpdates DEF JobType
  <1>2. Stage(t) \in Building => jobs[t].frontier <= wal
    BY DEF IInv, FrontierInv, Building
  <1>3. "record" \notin Building /\ "cleanup" \notin Building
    BY DEF Building
  <1>4. ASSUME Stage(t) \notin Building \union {"none"} PROVE ~(tail /\ ~poisoned)
    BY <1>4, TailIsMine
  <1>12. ASSUME Stage(t) \notin {"none", "record"}
         PROVE  /\ lastFailed => error
                /\ jobs[t].failed => Stage(t) = "release"
    <2>1. \A s \in Threads : Stage(s) = "record" => FALSE
      <3> SUFFICES ASSUME NEW s \in Threads, Stage(s) = "record" PROVE FALSE
        OBVIOUS
      <3>1. jobs[s] # NoJob /\ jobs[t] # NoJob
        BY <1>12 DEF IInv, StageInv
      <3> QED
        BY <3>1, <1>12 DEF IInv, OneJob
    <2> QED
      BY <1>12, <2>1 DEF IInv, OutcomeInv
  <1> HIDE DEF failed, moved, captured
  <1>5. CASE Capture(t)
    <2>1. Stage(t) = "capture" /\ UNCHANGED <<pc, told, running, error, wal>>
      BY <1>5 DEF Capture, state
    <2>2. ~(tail /\ ~poisoned)
      BY <1>4, <2>1 DEF Building
    <2>3. CASE /\ jobs' = [jobs EXCEPT ![t] = failed] /\ lastFailed' = TRUE
               /\ tail' = tail /\ poisoned' = poisoned
      BY <2>1, <2>2, <2>3, <1>0, <1>1, <1>3, JobMoves
    <2>4. CASE /\ ~poisoned /\ ~tail /\ jobs' = [jobs EXCEPT ![t] = failed]
               /\ lastFailed' = TRUE /\ poisoned' \in BOOLEAN /\ tail' = tail
      BY <2>1, <2>4, <1>0, <1>1, <1>3, JobMoves
    <2>5. CASE /\ tail' = TRUE /\ jobs' = [jobs EXCEPT ![t] = captured]
               /\ poisoned' = poisoned /\ lastFailed' = lastFailed
      <3>1. captured.stage \in Building /\ captured.frontier <= wal'
        BY <1>0, <1>1, <2>1 DEF Building
      <3>2. (lastFailed => error) /\ ~captured.failed
        BY <1>1, <1>12, <2>1
      <3> QED
        BY <2>1, <2>5, <3>1, <3>2, <1>0, <1>1, JobMoves
    <2> QED
      BY <1>5, <2>3, <2>4, <2>5 DEF Capture, JobFails, failed, captured
  <1>6. CASE Build(t)
    <2>1. /\ Stage(t) = "build"
          /\ UNCHANGED <<pc, told, running, error, wal, tail, poisoned, lastFailed>>
      BY <1>6 DEF Build, state, database
    <2>2. PICK to \in {"install", "abandon"} : jobs' = [jobs EXCEPT ![t] = moved(to)]
      BY <1>6 DEF Build, Advance, moved
    <2>3. to \in Stages /\ to \in Building /\ Stage(t) \in Building
      BY <2>1 DEF Stages, Building
    <2>4. (lastFailed => error) /\ ~jobs[t].failed
      BY <1>12, <2>1
    <2> QED
      BY <2>1, <2>2, <2>3, <2>4, <1>0, <1>1, <1>2, JobMoves
  <1>7. CASE AbandonCheckpoint(t)
    <2>1. /\ Stage(t) = "abandon" /\ tail' = FALSE
          /\ UNCHANGED <<pc, told, running, error, wal, poisoned>>
      BY <1>7 DEF AbandonCheckpoint, state
    <2>2. jobs' = [jobs EXCEPT ![t] = failed] /\ lastFailed' = TRUE
      BY <1>7 DEF AbandonCheckpoint, JobFails, failed
    <2> QED
      BY <2>1, <2>2, <1>0, <1>1, <1>3, JobMoves
  <1>8. CASE InstallCheckpoint(t)
    <2>1. Stage(t) = "install" /\ UNCHANGED <<pc, told, running, error>>
      BY <1>8 DEF InstallCheckpoint, state
    <2>2. CASE /\ jobs' = [jobs EXCEPT ![t] = failed] /\ poisoned' = TRUE
               /\ lastFailed' = TRUE /\ wal' = wal /\ tail' = tail
      BY <2>1, <2>2, <1>0, <1>1, <1>3, JobMoves
    <2>3. CASE /\ wal' = wal - jobs[t].frontier /\ tail' = FALSE /\ poisoned' = poisoned
               /\ jobs' = [jobs EXCEPT ![t] = moved("cleanup")] /\ lastFailed' = lastFailed
      <3>1. wal' \in WalSizes
        <4>1. jobs[t].frontier \in Nat /\ jobs[t].frontier <= wal
          BY <2>1, <1>0, <1>2, Sizes DEF JobType, Building
        <4> QED
          BY <2>3, <4>1, <1>0, Sizes
      <3>2. "cleanup" \in Stages
        BY DEF Stages
      <3>3. (lastFailed => error) /\ ~jobs[t].failed
        BY <1>12, <2>1
      <3> QED
        BY <2>1, <2>3, <3>1, <3>2, <3>3, <1>0, <1>1, <1>3, JobMoves
    <2>4. poisoned => poisoned = TRUE
      BY <1>0
    <2> QED
      BY <1>8, <2>2, <2>3, <2>4
      DEF InstallCheckpoint, JobFails, Advance, failed, moved, database
  <1>9. ASSUME Cleanup(t) \/ Again(t) PROVE IInv'
    <2>1. /\ Stage(t) \in {"cleanup", "again"}
          /\ UNCHANGED <<pc, told, running, error, wal, tail, poisoned>>
      BY <1>9 DEF Cleanup, Again, state, database
    <2>2. ~(tail /\ ~poisoned) /\ (lastFailed => error) /\ ~jobs[t].failed
      BY <1>4, <1>12, <2>1 DEF Building
    <2>3. CASE jobs' = [jobs EXCEPT ![t] = failed] /\ lastFailed' = TRUE
      BY <2>1, <2>2, <2>3, <1>0, <1>1, <1>3, JobMoves
    <2>4. ASSUME NEW to \in {"again", "capture"},
                 jobs' = [jobs EXCEPT ![t] = moved(to)], lastFailed' = lastFailed
          PROVE  IInv'
      <3>1. to \in Stages /\ to \notin Building
        BY DEF Stages, Building
      <3> QED
        BY <2>1, <2>2, <2>4, <3>1, <1>0, <1>1, JobMoves
    <2>5. CASE jobs' = [jobs EXCEPT ![t] = moved("record")] /\ lastFailed' = FALSE
      <3>1. "record" \in Stages
        BY DEF Stages
      <3>2. jobs[t].failed = FALSE
        BY <1>0, <2>2 DEF JobType
      <3> QED
        BY <2>1, <2>2, <2>5, <3>1, <3>2, <1>0, <1>1, <1>3, JobMoves
    <2> QED
      BY <1>9, <2>3, <2>4, <2>5
      DEF Cleanup, Again, JobFails, JobSucceeds, Advance, failed, moved
  <1>10. CASE Record(t)
    <2>1. /\ Stage(t) = "record" /\ error' = jobs[t].failed
          /\ UNCHANGED <<pc, told, running, wal, tail, poisoned, lastFailed>>
      BY <1>10 DEF Record, database
    <2>2. jobs' = [jobs EXCEPT ![t] = moved("release")]
      BY <1>10 DEF Record, Advance, moved
    <2>3. "release" \in Stages /\ "release" \notin Building /\ ~(tail /\ ~poisoned)
      BY <1>4, <2>1 DEF Stages, Building
    <2>4. jobs[t].failed \in BOOLEAN /\ jobs[t].failed = lastFailed
      BY <1>0, <2>1 DEF JobType, IInv, OutcomeInv
    <2> QED
      BY <2>1, <2>2, <2>3, <2>4, <1>0, <1>1, JobMoves
  <1>11. CASE Release(t)
    <2>1. /\ Stage(t) = "release" /\ running' = FALSE /\ jobs' = [jobs EXCEPT ![t] = NoJob]
          /\ pc' = [pc EXCEPT ![t] = IF @ = "maintaining" THEN "idle" ELSE @]
          /\ UNCHANGED <<told, error, wal, tail, poisoned, lastFailed>>
      BY <1>11 DEF Release, database
    <2>6. lastFailed => error
      BY <1>12, <2>1
    <2>2. ~(tail /\ ~poisoned)
      BY <1>4, <2>1 DEF Building
    <2>3. \A s \in Threads : /\ jobs'[s] = NoJob /\ jobs'[s].stage = "none"
                             /\ jobs'[s].failed = FALSE
      <3>1. jobs[t] # NoJob /\ \A s \in Threads \ {t} : jobs[s] = NoJob
        BY <2>1 DEF IInv, OneJob, StageInv
      <3>2. \A s \in Threads : jobs'[s] = NoJob
        BY <2>1, <3>1 DEF IInv, TypeOK
      <3> QED
        BY <3>2 DEF NoJob
    <2>4. jobs' \in [Threads -> JobType]
      BY <2>1, JobTypes DEF IInv, TypeOK, JobType
    <2>5. TypeOK'
      BY <2>1, <2>4 DEF IInv, TypeOK, JobType
    <2>7. OutcomeInv'
      BY <2>1, <2>3, <2>6 DEF OutcomeInv, Stage
    <2> QED
      BY <2>1, <2>2, <2>3, <2>5, <2>7
      DEF IInv, OneJob, TailHasAJob, FrontierInv, StageInv, Stage
  <1> QED
    BY <1>5, <1>6, <1>7, <1>8, <1>9, <1>10, <1>11 DEF JobStep, EndJob

(* The invariant is inductive. *)
LEMMA NextIInv == IInv /\ [JobsNext]_jobsVars => IInv'
  <1> SUFFICES ASSUME IInv, [JobsNext]_jobsVars PROVE IInv'
    OBVIOUS
  <1>1. CASE UNCHANGED jobsVars
    BY <1>1 DEF jobsVars, state, database, IInv, TypeOK, OneJob, TailHasAJob, FrontierInv,
                StageInv, OutcomeInv, Stage
  <1>2. CASE JobsNext
    BY <1>2, ThreadSteps, JobSteps DEF JobsNext, Threads
  <1> QED
    BY <1>1, <1>2

(* The inductive invariant holds in every reachable state. *)
THEOREM InductiveInvariant == JobsSpec => []IInv
  BY InitIInv, NextIInv, PTL DEF JobsSpec

(* Type correctness; in particular the WAL counter does not fall below zero, although
   it is reduced by what was captured earlier, and commits do not move it past the
   limit: above it lies only a WAL the handle was opened with.              *)
THEOREM TypeCorrect == JobsSpec => []TypeOK
  <1>1. IInv => TypeOK
    BY DEF IInv
  <1> QED
    BY <1>1, InductiveInvariant, PTL

(* One maintenance job at a time, for any number of writers and callers.   *)
THEOREM OneJobAtATime == JobsSpec => []OneJob
  <1>1. IInv => OneJob
    BY DEF IInv
  <1> QED
    BY <1>1, InductiveInvariant, PTL

(* No ended job leaves a tail behind on a usable handle. *)
THEOREM NoOrphanedTail == JobsSpec => []TailHasAJob
  <1>1. IInv => TailHasAJob
    BY DEF IInv
  <1> QED
    BY <1>1, InductiveInvariant, PTL

(* wait_for_maintenance never reports success after a job that failed. *)
THEOREM FailuresAreReported == JobsSpec => WaitReportsFailure
  <1>1. IInv /\ [JobsNext]_jobsVars =>
          [\A c \in Callers : pc[c] = "waiting" /\ pc'[c] = "idle" /\ lastFailed
                              => told'[c]]_jobsVars
    <2> SUFFICES ASSUME IInv, JobsNext, NEW c \in Callers,
                        pc[c] = "waiting", pc'[c] = "idle", lastFailed
                 PROVE  told'[c]
      BY DEF jobsVars
    <2>1. c \in Threads /\ told \in [Callers -> BOOLEAN]
          /\ pc \in [Threads -> {"idle", "triggering", "starting", "spawnFailed", "queuing",
                                 "maintaining", "waiting"}]
      BY DEF IInv, TypeOK, Threads
    <2>5. ~running => error
      <3>1. ~running => \A t \in Threads : Stage(t) = "none"
        BY DEF IInv, OneJob, StageInv
      <3> QED
        BY <3>1 DEF IInv, OutcomeInv
    <2>2. ASSUME NEW w \in Writers, WriterStep(w) PROVE FALSE
      <3>1. w \in Threads /\ w # c
        BY ThreadsAssumption DEF Threads
      <3>2. PICK to : pc' = [pc EXCEPT ![w] = to]
        BY <2>2 DEF WriterStep, LeadGroup, CheckError, StartAutomatic, SpawnFails,
                    RecordSpawnError, Go
      <3> QED
        BY <2>1, <3>1, <3>2
    <2>3. ASSUME NEW t \in Threads, JobStep(t) PROVE FALSE
      <3>1. pc'[c] = "waiting"
        BY <2>1, <2>3 DEF JobStep, Capture, Build, AbandonCheckpoint, InstallCheckpoint,
                          Cleanup, Again, EndJob, Record, Release
      <3> QED
        BY <3>1
    <2>4. ASSUME NEW d \in Callers, CallerStep(d) PROVE told'[c]
      <3>0. d \in Threads
        BY DEF Threads
      <3>1. CASE WaitReturns(d)
        <4>1. d = c
          BY <2>1, <3>0, <3>1 DEF WaitReturns, Go
        <4> QED
          BY <2>1, <2>5, <3>1, <4>1 DEF WaitReturns
      <3>2. CASE CheckpointBackground(d) \/ Maintain(d) \/ MaintainStarts(d)
                 \/ WaitForMaintenance(d)
        <4>1. pc'[c] # "idle"
          BY <2>1, <3>0, <3>2 DEF CheckpointBackground, Maintain, MaintainStarts,
                                  WaitForMaintenance, Go
        <4> QED
          BY <4>1
      <3> QED
        BY <2>4, <3>1, <3>2 DEF CallerStep
    <2> QED
      BY <2>2, <2>3, <2>4 DEF JobsNext
  <1> QED
    BY <1>1, InductiveInvariant, PTL DEF JobsSpec, WaitReportsFailure
=============================================================================
