-------------------------- MODULE EntityHistoryProofs --------------------------
(***************************************************************************)
(* One entity's history, proved for any fields, versions, transactions,    *)
(* options and checkpoints: every retained version reads as it was staged, *)
(* the retained events are walked once each, and a checkpoint can always   *)
(* write what it captured.                                                 *)
(*                                                                         *)
(* The predicates of the first part say which versions a record or a root  *)
(* stands for.  They take the states of the versions, S, as an argument:   *)
(* those committed, or those a transaction staged on top of them.          *)
(***************************************************************************)
EXTENDS EntityHistory, FiniteSetTheorems, SequenceTheorems, WellFoundedInduction, TLAPS

Events == [transaction : Nat, kind : {"apply", "delete"}, field : Fields \union {Absent}]

(* The versions up to t have states.                                       *)
Told(S, t) == \A v \in 0 .. t : S[v].entity.version = v

(* The event leads from the version before to this one.                    *)
EventFor(e, S, v) == e \in Events /\ S[v].entity = ApplyEvent(S[v - 1].entity, v, e)

SnapshotsAre(snapshots, S, first, last) ==
  \A v \in DOMAIN snapshots : v \in first .. last /\ snapshots[v] = S[v].entity

(* A root holds the versions k to t, all committed when it was captured.   *)
Image(r, S, t, k) ==
  /\ r.lsn \in Nat
  /\ r.entity.current = S[t].entity /\ r.entity.base = S[k].entity
  /\ \A v : v \in DOMAIN r.entity.events <=> v \in k + 1 .. t
  /\ \A v \in k + 1 .. t : /\ EventFor(r.entity.events[v], S, v)
                           /\ r.entity.events[v].transaction = S[v].commit
                           /\ S[v].commit <= r.lsn
  /\ SnapshotsAre(r.entity.snapshots, S, k, t)

-----------------------------------------------------------------------------
(* Least counterexamples, and the largest of a bounded set.                *)

LEMMA LeastNatural ==
  ASSUME NEW T, T \subseteq Nat, T # {}
  PROVE  \E x \in T : \A y \in T : x <= y
<1> DEFINE R == {ss \in Nat \X Nat : ss[1] < ss[2]}
<1>1. IsWellFoundedOn(R, Nat)
  BY NatLessThanWellFounded DEF OpToRel
<1>2. PICK x \in T : \A y \in T : ~ (<<y, x>> \in R)
  <2> HIDE DEF R
  <2> QED
    BY <1>1, WFMin
<1>3. ASSUME NEW y \in T PROVE x <= y
  <2>1. x \in Nat /\ y \in Nat
    OBVIOUS
  <2>2. ASSUME y < x PROVE <<y, x>> \in R
    BY <2>1, <2>2
  <2> QED
    BY <1>2, <2>1, <2>2
<1> QED
  BY <1>3

LEMMA LargestIsThere ==
  ASSUME NEW n \in Int, NEW T, T \subseteq Int, \A y \in T : y <= n, T # {}
  PROVE  Max(T) \in T
<1> DEFINE U == {n - y : y \in T}
<1>1. U \subseteq Nat /\ U # {}
  <2>1. ASSUME NEW y \in T PROVE n - y \in Nat
    <3>1. y \in Int /\ y <= n
      OBVIOUS
    <3> QED
      BY <3>1
  <2> QED
    BY <2>1
<1>2. PICK u \in U : \A y \in U : u <= y
  <2> HIDE DEF U
  <2> QED
    BY <1>1, LeastNatural
<1>3. PICK x \in T : u = n - x
  BY <1>2
<1>4. ASSUME NEW y \in T PROVE x >= y
  <2>1. n - y \in U
    OBVIOUS
  <2>2. n - x <= n - y
    BY <1>2, <1>3, <2>1
  <2>3. x \in Int /\ y \in Int
    OBVIOUS
  <2> QED
    BY <2>2, <2>3
<1> QED
  BY <1>4 DEF Max

-----------------------------------------------------------------------------
(* Reading a version.                                                      *)

(* What an event does to a state does not depend on its transaction.       *)
LEMMA ApplySame ==
  ASSUME NEW e, NEW f, e.kind = f.kind, e.field = f.field, NEW state, NEW v
  PROVE  ApplyEvent(state, v, e) = ApplyEvent(state, v, f)
  BY DEF ApplyEvent

ReplayStep(f, state, events, v) ==
  IF v = state.version THEN state
  ELSE IF v \notin DOMAIN events \/ f[v - 1] = Corrupt THEN Corrupt
  ELSE ApplyEvent(f[v - 1], v, events[v])
ReplayOver(f, state, events, last) ==
  f = [v \in state.version .. last |-> ReplayStep(f, state, events, v)]

LEMMA ReplayIsChosen ==
  ASSUME NEW state, NEW events, NEW last, ~(last < state.version)
  PROVE  Replay(state, events, last) = (CHOOSE f : ReplayOver(f, state, events, last))[last]
  BY Zenon DEF Replay, ReplayOver, ReplayStep

(* Replaying the events between two versions leads from one to the other.  *)
LEMMA Replays ==
  ASSUME NEW S, NEW u \in Nat, NEW last \in Nat, u <= last, NEW events, Told(S, last),
         \A v \in u + 1 .. last : v \in DOMAIN events /\ EventFor(events[v], S, v)
  PROVE  Replay(S[u].entity, events, last) = S[last].entity
<1> DEFINE at == [v \in u .. last |-> S[v].entity]
<1>1. PICK state : state = S[u].entity
  OBVIOUS
<1>2. state.version = u
  BY <1>1 DEF Told
<1>3. ASSUME NEW v \in u .. last PROVE S[v].entity.version = v /\ S[v].entity # Corrupt
  <2>1. S[v].entity.version = v /\ v \in Nat
    BY DEF Told
  <2> QED
    BY <2>1 DEF Corrupt
<1>4. ASSUME NEW f, NEW v \in u .. last, v # u => f[v - 1] = S[v - 1].entity
      PROVE  ReplayStep(f, state, events, v) = S[v].entity
  <2>1. CASE v = u
    BY <1>1, <1>2, <2>1 DEF ReplayStep
  <2>2. CASE v # u
    <3>1. v \in u + 1 .. last /\ v - 1 \in u .. last
      BY <2>2
    <3>2. v \in DOMAIN events /\ S[v].entity = ApplyEvent(S[v - 1].entity, v, events[v])
      BY <3>1 DEF EventFor
    <3>3. f[v - 1] = S[v - 1].entity /\ f[v - 1] # Corrupt
      BY <1>3, <1>4, <2>2, <3>1
    <3> QED
      BY <1>2, <2>2, <3>2, <3>3 DEF ReplayStep
  <2> QED
    BY <2>1, <2>2
<1>5. ReplayOver(at, state, events, last)
  <2>1. ASSUME NEW v \in u .. last PROVE S[v].entity = ReplayStep(at, state, events, v)
    <3>1. v # u => at[v - 1] = S[v - 1].entity
      OBVIOUS
    <3> HIDE DEF at
    <3> QED
      BY <1>4, <3>1
  <2>2. at = [v \in u .. last |-> ReplayStep(at, state, events, v)]
    <3>1. [v \in u .. last |-> S[v].entity] = [v \in u .. last |-> ReplayStep(at, state, events, v)]
      <4> HIDE DEF at
      <4> QED
        BY <2>1
    <3> QED
      BY <3>1, Zenon
  <2> QED
    BY <1>2, <2>2, Zenon DEF ReplayOver
<1>6. PICK f : f = CHOOSE g : ReplayOver(g, state, events, last)
  OBVIOUS
<1>7. ReplayOver(f, state, events, last)
  <2> HIDE DEF at
  <2> QED
    BY <1>5, <1>6
<1>8. ASSUME NEW v \in u .. last PROVE f[v] = ReplayStep(f, state, events, v)
  <2> DEFINE g == [w \in u .. last |-> ReplayStep(f, state, events, w)]
  <2>1. f = g
    BY <1>2, <1>7, Zenon DEF ReplayOver
  <2>2. g[v] = ReplayStep(f, state, events, v)
    OBVIOUS
  <2> QED
    BY <2>1, <2>2, Zenon
<1> DEFINE Bad == {v \in u .. last : f[v] # S[v].entity}
<1>9. Bad = {}
  <2>1. SUFFICES ASSUME Bad # {} PROVE FALSE
    OBVIOUS
  <2>2. Bad \subseteq Nat
    OBVIOUS
  <2>3. PICK v \in Bad : \A w \in Bad : v <= w
    <3> HIDE DEF Bad
    <3> QED
      BY <2>1, <2>2, LeastNatural
  <2>4. v \in u .. last /\ f[v] # S[v].entity
    OBVIOUS
  <2>5. ASSUME v # u PROVE f[v - 1] = S[v - 1].entity
    <3>1. v - 1 \in u .. last /\ ~(v <= v - 1)
      BY <2>4, <2>5
    <3> QED
      BY <2>3, <3>1
  <2> QED
    BY <1>4, <1>8, <2>4, <2>5
<1>10. f[last] = S[last].entity
  BY <1>9
<1>11. ~(last < state.version)
  BY <1>2
<1>12. Replay(state, events, last) = f[last]
  BY <1>6, <1>11, ReplayIsChosen
<1> QED
  BY <1>1, <1>10, <1>12

(* A start no later than the version asked for.                            *)
LEMMA StartsFromSnapshot ==
  ASSUME NEW S, NEW u \in Nat, NEW v \in Nat, u <= v, Told(S, v),
         NEW snapshots, NEW first \in Int, NEW last \in Int, SnapshotsAre(snapshots, S, first, last)
  PROVE  \E w \in u .. v : FromSnapshot(S[u].entity, snapshots, v) = S[w].entity
<1>1. PICK usable : usable = {w \in DOMAIN snapshots : u <= w /\ w <= v}
  OBVIOUS
<1>2. S[u].entity.version = u
  BY DEF Told
<1>3. FromSnapshot(S[u].entity, snapshots, v)
         = IF usable = {} THEN S[u].entity ELSE snapshots[Max(usable)]
  BY <1>1, <1>2 DEF FromSnapshot
<1>4. CASE usable = {}
  BY <1>3, <1>4
<1>5. CASE usable # {}
  <2>1. ASSUME NEW w \in usable PROVE w \in Int /\ w <= v /\ w \in u .. v /\ snapshots[w] = S[w].entity
    BY <1>1 DEF SnapshotsAre
  <2>2. usable \subseteq Int /\ \A w \in usable : w <= v
    BY <2>1
  <2>3. Max(usable) \in usable
    <3>1. v \in Int
      OBVIOUS
    <3> QED
      BY <1>5, <2>2, <3>1, LargestIsThere, Zenon
  <2> QED
    BY <1>3, <1>5, <2>1, <2>3
<1> QED
  BY <1>4, <1>5

LEMMA LargerOfTwo ==
  ASSUME NEW a \in Int, NEW b \in Int
  PROVE  Max({a, b}) = IF a < b THEN b ELSE a
  BY DEF Max

LEMMA SmallerOfTwo ==
  ASSUME NEW a \in Int, NEW b \in Int
  PROVE  Min({a, b}) = IF a < b THEN a ELSE b
  BY DEF Min

(* A root leads from a version it holds to a later one.                    *)
LEMMA RootAdvances ==
  ASSUME NEW S, NEW t \in Nat, NEW k \in Nat, NEW r, Told(S, t), Image(r, S, t, k),
         NEW u \in k .. t, NEW v \in u .. t, NEW snapshots \in BOOLEAN
  PROVE  RootAdvance(r, S[u].entity, v, snapshots) = S[v].entity
<1>1. u \in Nat /\ v \in Nat /\ u <= v /\ Told(S, v)
  BY DEF Told
<1>2. PICK start : start = IF snapshots THEN FromSnapshot(S[u].entity, r.entity.snapshots, v)
                           ELSE S[u].entity
  OBVIOUS
<1>3. \E w \in u .. v : start = S[w].entity
  <2>1. SnapshotsAre(r.entity.snapshots, S, k, t)
    BY DEF Image
  <2>2. \E w \in u .. v : FromSnapshot(S[u].entity, r.entity.snapshots, v) = S[w].entity
    <3>1. k \in Int /\ t \in Int
      OBVIOUS
    <3> QED
      BY <1>1, <2>1, <3>1, StartsFromSnapshot
  <2> QED
    BY <1>1, <1>2, <2>2
<1>4. PICK w \in u .. v : start = S[w].entity
  BY <1>3
<1>5. start.version = w /\ w \in Nat /\ w <= v
  BY <1>1, <1>4 DEF Told
<1>6. ASSUME NEW i \in w + 1 .. v
      PROVE  i \in DOMAIN r.entity.events /\ EventFor(r.entity.events[i], S, i)
  <2>1. i \in k + 1 .. t
    BY <1>5
  <2> QED
    BY <2>1 DEF Image
<1>7. Replay(S[w].entity, r.entity.events, v) = S[v].entity
  BY <1>1, <1>5, <1>6, Replays
<1>8. ASSUME NEW i \in DOMAIN r.entity.events PROVE ~(r.entity.events[i].transaction > r.lsn)
  <2>1. i \in k + 1 .. t
    BY DEF Image
  <2>2. r.entity.events[i].transaction <= r.lsn
    BY <2>1 DEF Image
  <2>3. r.entity.events[i].transaction \in Nat
    BY <2>1 DEF Image, EventFor, Events
  <2>4. r.lsn \in Nat
    BY DEF Image
  <2> QED
    BY <2>2, <2>3, <2>4
<1>9. RootAdvance(r, S[u].entity, v, snapshots)
         = IF start.version = v THEN start ELSE Replay(start, r.entity.events, v)
  BY <1>2, <1>8, Zenon DEF RootAdvance
<1> QED
  BY <1>4, <1>5, <1>7, <1>9

LEMMA RootReads ==
  ASSUME NEW S, NEW t \in Nat, NEW k \in 0 .. t, NEW r, Told(S, t), Image(r, S, t, k),
         NEW v \in 0 .. t, NEW snapshots \in BOOLEAN
  PROVE  RootAt(r, v, snapshots) = IF v < k THEN Unavailable ELSE S[v].entity
<1>1. r.entity.base = S[k].entity /\ r.entity.current = S[t].entity
  BY DEF Image
<1>2. r.entity.base.version = k /\ r.entity.current.version = t
  BY <1>1 DEF Told
<1>3. CASE v < k
  <2>1. v \notin k .. t
    BY <1>3
  <2> QED
    BY <1>2, <1>3, <2>1 DEF RootAt
<1>4. CASE ~(v < k)
  <2>1. v \in k .. t /\ k \in Nat /\ k \in k .. t
    BY <1>4
  <2>2. RootAdvance(r, r.entity.base, v, snapshots) = S[v].entity
    BY <1>1, <2>1, RootAdvances
  <2> QED
    BY <1>1, <1>2, <1>4, <2>1, <2>2 DEF RootAt
<1> QED
  BY <1>3, <1>4

-----------------------------------------------------------------------------
(* What a record stands for.                                               *)

Later(a, b) == IF a < b THEN b ELSE a

Covers(events, S, first, last) ==
  /\ \A v : v \in DOMAIN events <=> v \in first .. last
  /\ \A v \in first .. last : EventFor(events[v], S, v)

Stamped(events, S, first, last) ==
  \A v \in first .. last : events[v].transaction = S[v].commit

IsRecord(d) ==
  DOMAIN d = {"current", "base", "events", "committed", "snapshots", "disk"}

(* The disk holds the versions up to p and starts no later than k.         *)
DiskHolds(r, S, p, k) ==
  IF p < 0 THEN r = Absent
  ELSE r.gen \in Nat /\ \E q \in 0 .. k : q <= p /\ Image(r, S, p, q)

Ordered(t, k, m, p) == t \in Nat /\ k \in 0 .. t /\ m \in -1 .. t /\ p \in -1 .. m

(* A record of the versions k to t: those up to p are on disk, those up to *)
(* m published, the later ones staged by a transaction that stamps x.      *)
Rec(d, S, t, k, m, x, p) ==
  /\ Ordered(t, k, m, p) /\ Told(S, t) /\ IsRecord(d)
  /\ d.current = S[t].entity /\ d.base = S[k].entity
  /\ DiskHolds(d.disk, S, p, k)
  /\ Covers(d.committed, S, Later(k, p) + 1, m)
  /\ Stamped(d.committed, S, Later(k, p) + 1, m)
  /\ Covers(d.events, S, Later(k, m) + 1, t)
  /\ \A v \in Later(k, m) + 1 .. t : d.events[v].transaction = x
  /\ SnapshotsAre(d.snapshots, S, Later(k, p), t)

LEMMA RecordExists ==
  ASSUME NEW S, NEW t \in Nat, Told(S, t), NEW d, d.current = S[t].entity
  PROVE  d # Absent
<1>1. d.current.version = t
  BY DEF Told
<1>2. Absent.current.version = -1
  BY DEF Absent, Corrupt
<1> QED
  BY <1>1, <1>2

(* Memory leads from a version at or after the disk's to any later one.    *)
LEMMA MemoryReplays ==
  ASSUME NEW S, NEW t, NEW k, NEW m, NEW x, NEW p, NEW d, Rec(d, S, t, k, m, x, p),
         NEW u \in k .. t, NEW v \in u .. t, u >= p \/ u = v
  PROVE  Replay(S[u].entity, InMemory(d), v) = S[v].entity
<1>1. Ordered(t, k, m, p) /\ Told(S, t)
  BY DEF Rec
<1>2. u \in Nat /\ v \in Nat /\ u <= v /\ Told(S, v)
  BY <1>1 DEF Told, Ordered
<1>3. ASSUME NEW i \in u + 1 .. v
      PROVE  i \in DOMAIN InMemory(d) /\ EventFor(InMemory(d)[i], S, i)
  <2>1. i \in Int /\ i > k /\ i > p /\ i <= t
    BY <1>1, <1>2 DEF Ordered
  <2>2. CASE i <= m
    <3>1. i \in Later(k, p) + 1 .. m
      BY <1>1, <2>1, <2>2 DEF Ordered, Later
    <3>2. i \in DOMAIN d.committed /\ EventFor(d.committed[i], S, i)
      BY <3>1 DEF Rec, Covers
    <3> QED
      BY <3>2 DEF InMemory, Over
  <2>3. CASE ~(i <= m)
    <3>1. i \in Later(k, m) + 1 .. t /\ i \notin Later(k, p) + 1 .. m
      BY <1>1, <2>1, <2>3 DEF Ordered, Later
    <3>2. i \in DOMAIN d.events /\ EventFor(d.events[i], S, i)
      BY <3>1 DEF Rec, Covers
    <3>3. i \notin DOMAIN d.committed
      BY <3>1 DEF Rec, Covers
    <3> QED
      BY <3>2, <3>3 DEF InMemory, Over
  <2> QED
    BY <2>2, <2>3
<1> QED
  BY <1>2, <1>3, Replays

(* A record reads every version it stands for, and no earlier one.         *)
LEMMA RecordReads ==
  ASSUME NEW S, NEW t, NEW k, NEW m, NEW x, NEW p, NEW d, Rec(d, S, t, k, m, x, p),
         NEW v \in 0 .. t, NEW snapshots \in BOOLEAN
  PROVE  At(d, v, snapshots) = IF v < k THEN Unavailable ELSE S[v].entity
<1>1. Ordered(t, k, m, p) /\ Told(S, t)
  BY DEF Rec
<1>2. d.current = S[t].entity /\ d.base = S[k].entity
  BY DEF Rec
<1>3. t \in Nat /\ k \in 0 .. t /\ d.base.version = k /\ d.current.version = t
  BY <1>1, <1>2 DEF Told, Ordered
<1>4. CASE v < k
  <2>1. v \notin k .. t
    BY <1>3, <1>4
  <2> QED
    BY <1>3, <1>4, <2>1 DEF At
<1>5. CASE ~(v < k)
  <2>1. k \in Nat /\ v \in Nat /\ k <= v /\ v \in k .. t /\ p \in Int
    BY <1>1, <1>3, <1>5 DEF Ordered
  <2>2. PICK start : start = IF snapshots THEN FromSnapshot(d.base, d.snapshots, v) ELSE d.base
    OBVIOUS
  <2>3. \E w \in k .. v : start = S[w].entity
    <3>1. SnapshotsAre(d.snapshots, S, Later(k, p), t) /\ Later(k, p) \in Int /\ t \in Int
      BY <1>3, <2>1 DEF Rec, Later
    <3>2. Told(S, v)
      BY <1>1, <1>3 DEF Told
    <3>3. \E w \in k .. v : FromSnapshot(S[k].entity, d.snapshots, v) = S[w].entity
      BY <2>1, <3>1, <3>2, StartsFromSnapshot
    <3> QED
      BY <1>2, <2>1, <2>2, <3>3
  <2>4. PICK w \in k .. v : start = S[w].entity
    BY <2>3
  <2>5. start.version = w /\ w \in Nat /\ w \in k .. t /\ v \in w .. t
    BY <1>1, <1>3, <2>1, <2>4 DEF Told
  <2> DEFINE least == Min({v, Through(d)})
             reach == IF d.disk = Absent \/ start.version >= least THEN start
                      ELSE IF snapshots /\ v >= Through(d) THEN d.disk.entity.current
                      ELSE RootAdvance(d.disk, start, least, snapshots)
  <2>6. \E u \in k .. v : reach = S[u].entity /\ (u >= p \/ u = v)
    <3>1. CASE p < 0
      <4>1. d.disk = Absent
        BY <3>1 DEF Rec, DiskHolds
      <4>2. reach = start
        BY <4>1
      <4> QED
        BY <2>1, <2>4, <2>5, <3>1, <4>2
    <3>2. CASE ~(p < 0)
      <4>1. PICK q \in 0 .. k : q <= p /\ Image(d.disk, S, p, q)
        BY <3>2 DEF Rec, DiskHolds
      <4>2. d.disk.gen \in Nat /\ p \in Nat /\ p <= t
        BY <1>1, <3>2 DEF Rec, DiskHolds, Ordered
      <4>3. d.disk # Absent
        BY <4>2 DEF Absent
      <4>4. d.disk.entity.current = S[p].entity /\ Through(d) = p
        BY <1>1, <1>3, <4>1, <4>2 DEF Image, Told, Through
      <4>5. least = IF v < p THEN v ELSE p
        BY <2>1, <4>4, SmallerOfTwo
      <4>6. CASE w >= least
        <5>1. reach = start
          BY <2>5, <4>3, <4>6
        <5> QED
          BY <2>1, <2>4, <2>5, <4>5, <4>6, <5>1
      <4>7. CASE ~(w >= least) /\ snapshots /\ v >= p
        <5>1. reach = S[p].entity
          BY <2>5, <4>3, <4>4, <4>7
        <5>2. p \in k .. v
          BY <2>1, <2>5, <4>2, <4>5, <4>7
        <5> QED
          BY <5>1, <5>2
      <4>8. CASE ~(w >= least) /\ ~(snapshots /\ v >= p)
        <5>1. reach = RootAdvance(d.disk, start, least, snapshots)
          BY <2>5, <4>3, <4>4, <4>8
        <5>2. w \in q .. p /\ least \in w .. p /\ least \in k .. v /\ q \in Nat /\ (least >= p \/ least = v)
          BY <2>1, <2>5, <4>2, <4>5, <4>8
        <5>3. Told(S, p)
          BY <1>1, <1>3, <4>2 DEF Told
        <5>4. RootAdvance(d.disk, S[w].entity, least, snapshots) = S[least].entity
          <6> HIDE DEF least, reach
          <6> QED
            BY <4>1, <4>2, <5>2, <5>3, RootAdvances
        <5> QED
          BY <2>4, <5>1, <5>2, <5>4
      <4> QED
        BY <4>6, <4>7, <4>8
    <3> QED
      BY <3>1, <3>2
  <2>7. PICK u \in k .. v : reach = S[u].entity /\ (u >= p \/ u = v)
    BY <2>6
  <2>8. u \in k .. t /\ v \in u .. t /\ u \in Nat /\ u <= t
    BY <1>3, <2>1
  <2>9. reach # Corrupt
    <3>1. S[u].entity.version = u
      BY <1>1, <2>8 DEF Told
    <3> QED
      BY <2>7, <2>8, <3>1 DEF Corrupt
  <2>10. Replay(S[u].entity, InMemory(d), v) = S[v].entity
    BY <2>7, <2>8, MemoryReplays
  <2>11. Replay(reach, InMemory(d), v) = S[v].entity
    BY <2>7, <2>10
  <2> QED
    <3>1. CASE snapshots /\ v = t
      BY <1>2, <1>3, <1>5, <2>1, <3>1 DEF At
    <3>2. CASE ~(snapshots /\ v = t)
      <4>1. At(d, v, snapshots) = IF v \notin d.base.version .. d.current.version
                                  THEN Unavailable
                                  ELSE IF snapshots /\ v = d.current.version THEN d.current
                                  ELSE IF reach = Corrupt THEN Corrupt
                                  ELSE Replay(reach, InMemory(d), v)
        BY <2>2, Zenon DEF At
      <4>2. v \in d.base.version .. d.current.version
        BY <1>3, <2>1
      <4>3. ~(snapshots /\ v = d.current.version)
        BY <1>3, <3>2
      <4> HIDE DEF reach
      <4>4. At(d, v, snapshots) = Replay(reach, InMemory(d), v)
        BY <2>9, <4>1, <4>2, <4>3
      <4> QED
        BY <1>5, <2>11, <4>4
    <3> QED
      BY <3>1, <3>2
<1> QED
  BY <1>4, <1>5

-----------------------------------------------------------------------------
(* Operations.  OpLeads says what an operation does to the versions t and  *)
(* k, whatever the record that stands for them.                            *)

OpLeads(op, S, t, k, u, j) ==
  \/ /\ op.kind = "create" /\ t = -1 /\ k = 0 /\ u = 0 /\ j = 0
     /\ S[0].entity = Created
  \/ /\ op.kind = "apply" /\ t \in Nat /\ u = t + 1 /\ j = k /\ op.arg \in Fields
     /\ EventFor(Event(0, "apply", op.arg), S, u)
  \/ /\ op.kind = "delete" /\ t \in Nat /\ u = t + 1 /\ j = k
     /\ EventFor(Event(0, "delete", Absent), S, u)
  \/ /\ op.kind = "retain" /\ t \in Nat /\ u = t /\ op.arg \in Nat
     /\ j = Later(k, t - op.arg)
  \/ op.kind = "snapshot" /\ t \in Nat /\ u = t /\ j = k

(* Nothing, or a record whose disk holds no version after n.               *)
Stands(d, S, t, k, m, x, n) ==
  IF t < 0 THEN d = Absent /\ t = -1 /\ k = 0 /\ m = -1
  ELSE \E p \in -1 .. n : Rec(d, S, t, k, m, x, p)

LEMMA NewStands ==
  ASSUME NEW S, Told(S, 0), S[0].entity = Created, NEW x
  PROVE  Rec(New, S, 0, 0, -1, x, -1)
<1>1. Ordered(0, 0, -1, -1)
  BY DEF Ordered
<1>2. IsRecord(New) /\ New.current = Created /\ New.base = Created /\ New.disk = Absent
  BY DEF IsRecord, New
<1>3. DOMAIN New.events = {} /\ DOMAIN New.committed = {} /\ DOMAIN New.snapshots = {}
  BY DEF New
<1>4. Later(0, -1) + 1 = 1 /\ Later(0, -1) = 0
  BY DEF Later
<1>5. Covers(New.committed, S, 1, -1) /\ Covers(New.events, S, 1, 0)
      /\ SnapshotsAre(New.snapshots, S, 0, 0) /\ Stamped(New.committed, S, 1, -1)
  BY <1>3 DEF Covers, SnapshotsAre, Stamped
<1> QED
  BY <1>1, <1>2, <1>4, <1>5 DEF Rec, DiskHolds

LEMMA ChangeStands ==
  ASSUME NEW S, NEW t, NEW k, NEW m, NEW x \in Nat, NEW p, NEW d, Rec(d, S, t, k, m, x, p),
         Told(S, t + 1), NEW kind, NEW field, EventFor(Event(0, kind, field), S, t + 1)
  PROVE  Rec(Change(d, kind, field, x), S, t + 1, k, m, x, p)
<1>1. Ordered(t, k, m, p) /\ Told(S, t) /\ IsRecord(d) /\ d.current = S[t].entity
  BY DEF Rec
<1>2. d.current.version = t /\ t \in Nat
  BY <1>1 DEF Told, Ordered
<1>3. PICK e : e = Event(x, kind, field)
  OBVIOUS
<1>4. EventFor(e, S, t + 1) /\ e.transaction = x
  <2>1. PICK f : f = Event(0, kind, field)
    OBVIOUS
  <2>2. f.kind = e.kind /\ f.field = e.field /\ e.transaction = x
    BY <1>3, <2>1 DEF Event
  <2>3. f \in Events
    BY <2>1 DEF EventFor
  <2>4. e \in Events
    BY <1>3, <2>1, <2>3 DEF Events, Event
  <2>5. S[t + 1].entity = ApplyEvent(S[(t + 1) - 1].entity, t + 1, f)
    BY <2>1 DEF EventFor
  <2>6. ApplyEvent(S[(t + 1) - 1].entity, t + 1, f) = ApplyEvent(S[(t + 1) - 1].entity, t + 1, e)
    BY <2>2, ApplySame
  <2> QED
    BY <2>2, <2>4, <2>5, <2>6 DEF EventFor
<1>5. S[t + 1].entity = ApplyEvent(S[t].entity, t + 1, e)
  <2>1. (t + 1) - 1 = t
    BY <1>2
  <2> QED
    BY <1>4, <2>1 DEF EventFor
<1>6. PICK c : c = Change(d, kind, field, x)
  OBVIOUS
<1>7. /\ IsRecord(c) /\ c.current = S[t + 1].entity /\ c.base = d.base /\ c.disk = d.disk
      /\ c.committed = d.committed /\ c.snapshots = d.snapshots
      /\ c.events = With(d.events, t + 1, e)
  BY <1>1, <1>2, <1>3, <1>5, <1>6 DEF Change, IsRecord
<1>8. Ordered(t + 1, k, m, p)
  BY <1>1 DEF Ordered
<1>9. \A v : v \in DOMAIN d.events <=> v \in Later(k, m) + 1 .. t
  BY DEF Rec, Covers
<1>10. \A v : v \in DOMAIN c.events <=> v \in Later(k, m) + 1 .. t + 1
  <2>1. DOMAIN c.events = {t + 1} \union DOMAIN d.events
    BY <1>7 DEF With, Over
  <2>2. \A v : v \in Later(k, m) + 1 .. t + 1 <=> v = t + 1 \/ v \in Later(k, m) + 1 .. t
    BY <1>1 DEF Ordered, Later
  <2> QED
    BY <1>9, <2>1, <2>2
<1>11. ASSUME NEW v \in Later(k, m) + 1 .. t + 1
       PROVE  EventFor(c.events[v], S, v) /\ c.events[v].transaction = x
  <2>1. CASE v = t + 1
    <3>1. c.events[v] = e
      BY <1>7, <2>1 DEF With, Over
    <3> QED
      BY <1>4, <2>1, <3>1
  <2>2. CASE v # t + 1
    <3>1. v \in Later(k, m) + 1 .. t
      BY <1>1, <2>2 DEF Ordered, Later
    <3>2. c.events[v] = d.events[v]
      BY <1>7, <1>9, <2>2, <3>1 DEF With, Over
    <3> QED
      BY <3>1, <3>2 DEF Rec, Covers
  <2> QED
    BY <2>1, <2>2
<1>12. Covers(c.events, S, Later(k, m) + 1, t + 1)
  BY <1>10, <1>11 DEF Covers
<1>13. SnapshotsAre(d.snapshots, S, Later(k, p), t + 1)
  <2>1. \A v : v \in Later(k, p) .. t => v \in Later(k, p) .. t + 1
    BY <1>1 DEF Ordered, Later
  <2> QED
    BY <2>1 DEF Rec, SnapshotsAre
<1>14. Rec(c, S, t + 1, k, m, x, p)
  BY <1>7, <1>8, <1>11, <1>12, <1>13 DEF Rec
<1> QED
  BY <1>6, <1>14

LEMMA SnapshotStands ==
  ASSUME NEW S, NEW t, NEW k, NEW m, NEW x, NEW p, NEW d, Rec(d, S, t, k, m, x, p)
  PROVE  Rec(Snapshot(d), S, t, k, m, x, p)
<1>1. Ordered(t, k, m, p) /\ Told(S, t) /\ IsRecord(d) /\ d.current = S[t].entity
  BY DEF Rec
<1>2. d.current.version = t
  BY <1>1 DEF Told, Ordered
<1>3. PICK c : c = Snapshot(d)
  OBVIOUS
<1>4. /\ IsRecord(c) /\ c.current = d.current /\ c.base = d.base /\ c.disk = d.disk
      /\ c.committed = d.committed /\ c.events = d.events
      /\ c.snapshots = With(d.snapshots, t, d.current)
  BY <1>1, <1>2, <1>3 DEF Snapshot, IsRecord
<1>5. SnapshotsAre(c.snapshots, S, Later(k, p), t)
  <2>1. t \in Later(k, p) .. t
    BY <1>1 DEF Ordered, Later
  <2>2. SnapshotsAre(d.snapshots, S, Later(k, p), t)
    BY DEF Rec
  <2> QED
    BY <1>1, <1>4, <2>1, <2>2 DEF SnapshotsAre, With, Over
<1>6. Rec(c, S, t, k, m, x, p)
  BY <1>4, <1>5 DEF Rec
<1> QED
  BY <1>3, <1>6

LEMMA CoversFrom ==
  ASSUME NEW S, NEW first \in Int, NEW last \in Int, NEW events, Covers(events, S, first, last),
         NEW next \in Int, next >= first
  PROVE  /\ Covers(From(events, next), S, next, last)
         /\ \A v \in next .. last : v \in first .. last /\ From(events, next)[v] = events[v]
<1>1. \A v : v \in next .. last <=> v \in first .. last /\ v >= next
  OBVIOUS
<1>2. DOMAIN From(events, next) = {v \in DOMAIN events : v >= next}
  BY DEF From, Restrict
<1>3. \A v : v \in DOMAIN From(events, next) <=> v \in next .. last
  BY <1>1, <1>2 DEF Covers
<1>4. \A v \in next .. last : From(events, next)[v] = events[v]
  BY <1>1 DEF From, Restrict, Covers
<1> QED
  BY <1>1, <1>3, <1>4 DEF Covers

LEMMA RetainStands ==
  ASSUME NEW S, NEW t, NEW k, NEW m, NEW x, NEW p, NEW d, Rec(d, S, t, k, m, x, p),
         NEW count \in Nat
  PROVE  Rec(Retain(d, count), S, t, Later(k, t - count), m, x, p)
<1>1. Ordered(t, k, m, p) /\ Told(S, t) /\ IsRecord(d) /\ d.current = S[t].entity
      /\ d.base = S[k].entity
  BY DEF Rec
<1>2. d.current.version = t /\ d.base.version = k /\ t \in Nat /\ k \in Nat /\ k <= t
      /\ m \in Int /\ p \in Int /\ p <= m
  BY <1>1 DEF Told, Ordered
<1>3. PICK j : j = Later(0, t - count)
  OBVIOUS
<1>4. Max({0, d.current.version - count}) = j /\ j \in 0 .. t
  BY <1>2, <1>3, LargerOfTwo DEF Later
<1>5. PICK c : c = Retain(d, count)
  OBVIOUS
<1>6. CASE j <= k
  <2>1. c = d
    BY <1>2, <1>4, <1>5, <1>6 DEF Retain
  <2>2. Later(k, t - count) = k
    BY <1>2, <1>3, <1>6 DEF Later
  <2> QED
    BY <1>5, <2>1, <2>2
<1>7. CASE ~(j <= k)
  <2>1. Later(k, t - count) = j
    BY <1>2, <1>3, <1>7 DEF Later
  <2>2. At(d, j, TRUE) = S[j].entity
    <3>1. At(d, j, TRUE) = IF j < k THEN Unavailable ELSE S[j].entity
      <4>1. \A s \in BOOLEAN : At(d, j, s) = IF j < k THEN Unavailable ELSE S[j].entity
        BY <1>4, RecordReads
      <4> QED
        BY <4>1, Zenon
    <3>2. ~(j < k)
      BY <1>2, <1>4, <1>7
    <3> QED
      BY <3>1, <3>2, Zenon
  <2>3. /\ IsRecord(c) /\ c.current = d.current /\ c.base = S[j].entity /\ c.disk = d.disk
        /\ c.committed = From(d.committed, j + 1) /\ c.events = From(d.events, j + 1)
        /\ c.snapshots = From(d.snapshots, j)
    BY <1>1, <1>2, <1>4, <1>5, <1>7, <2>2 DEF Retain, IsRecord
  <2>4. Ordered(t, j, m, p)
    BY <1>1, <1>4 DEF Ordered
  <2>5. DiskHolds(d.disk, S, p, j)
    <3>1. \A q : q \in 0 .. k => q \in 0 .. j
      BY <1>2, <1>4, <1>7
    <3> QED
      BY <3>1 DEF Rec, DiskHolds
  <2>6. /\ Covers(c.committed, S, Later(j, p) + 1, m) /\ Stamped(c.committed, S, Later(j, p) + 1, m)
    <3>1. Covers(d.committed, S, Later(k, p) + 1, m) /\ Stamped(d.committed, S, Later(k, p) + 1, m)
      BY DEF Rec
    <3>2. CASE j >= p
      <4>1. Later(j, p) = j /\ j + 1 >= Later(k, p) + 1 /\ j + 1 \in Int /\ Later(k, p) + 1 \in Int
        BY <1>2, <1>4, <1>7, <3>2 DEF Later
      <4>2. /\ Covers(From(d.committed, j + 1), S, j + 1, m)
            /\ \A v \in j + 1 .. m : /\ v \in Later(k, p) + 1 .. m
                                     /\ From(d.committed, j + 1)[v] = d.committed[v]
        BY <1>2, <3>1, <4>1, CoversFrom
      <4> QED
        BY <2>3, <3>1, <4>1, <4>2 DEF Stamped
    <3>3. CASE ~(j >= p)
      <4>1. Later(j, p) = p /\ Later(k, p) = p
        BY <1>2, <1>4, <1>7, <3>3 DEF Later
      <4>2. \A v : v \in p + 1 .. m => v >= j + 1
        BY <1>2, <1>4, <3>3
      <4>3. \A v : v \in DOMAIN c.committed <=> v \in p + 1 .. m
        BY <2>3, <3>1, <4>1, <4>2 DEF From, Restrict, Covers
      <4>4. \A v \in p + 1 .. m : c.committed[v] = d.committed[v]
        BY <2>3, <3>1, <4>1, <4>2 DEF From, Restrict, Covers
      <4> QED
        BY <3>1, <4>1, <4>3, <4>4 DEF Covers, Stamped
    <3> QED
      BY <3>2, <3>3
  <2>7. /\ Covers(c.events, S, Later(j, m) + 1, t)
        /\ \A v \in Later(j, m) + 1 .. t : c.events[v].transaction = x
    <3>1. /\ Covers(d.events, S, Later(k, m) + 1, t)
          /\ \A v \in Later(k, m) + 1 .. t : d.events[v].transaction = x
      BY DEF Rec
    <3>2. CASE j >= m
      <4>1. Later(j, m) = j /\ j + 1 >= Later(k, m) + 1 /\ j + 1 \in Int /\ Later(k, m) + 1 \in Int
        BY <1>2, <1>4, <1>7, <3>2 DEF Later
      <4>2. /\ Covers(From(d.events, j + 1), S, j + 1, t)
            /\ \A v \in j + 1 .. t : /\ v \in Later(k, m) + 1 .. t
                                     /\ From(d.events, j + 1)[v] = d.events[v]
        BY <1>2, <3>1, <4>1, CoversFrom
      <4> QED
        BY <2>3, <3>1, <4>1, <4>2
    <3>3. CASE ~(j >= m)
      <4>1. Later(j, m) = m /\ Later(k, m) = m
        BY <1>2, <1>4, <1>7, <3>3 DEF Later
      <4>2. \A v : v \in m + 1 .. t => v >= j + 1
        BY <1>2, <1>4, <3>3
      <4>3. \A v : v \in DOMAIN c.events <=> v \in m + 1 .. t
        BY <2>3, <3>1, <4>1, <4>2 DEF From, Restrict, Covers
      <4>4. \A v \in m + 1 .. t : c.events[v] = d.events[v]
        BY <2>3, <3>1, <4>1, <4>2 DEF From, Restrict, Covers
      <4> QED
        BY <3>1, <4>1, <4>3, <4>4 DEF Covers
    <3> QED
      BY <3>2, <3>3
  <2>8. SnapshotsAre(c.snapshots, S, Later(j, p), t)
    <3>1. \A v : v \in Later(k, p) .. t /\ v >= j => v \in Later(j, p) .. t
      BY <1>2, <1>4, <1>7 DEF Later
    <3>2. SnapshotsAre(d.snapshots, S, Later(k, p), t)
      BY DEF Rec
    <3> QED
      BY <2>3, <3>1, <3>2 DEF SnapshotsAre, From, Restrict
  <2>9. Rec(c, S, t, j, m, x, p)
    BY <1>1, <2>3, <2>4, <2>5, <2>6, <2>7, <2>8 DEF Rec
  <2> QED
    BY <1>5, <2>1, <2>9
<1> QED
  BY <1>6, <1>7

LEMMA StepStands ==
  ASSUME NEW S, NEW t \in Int, NEW k, NEW m, NEW b \in Nat, NEW n \in Int, n >= -1, NEW d,
         Stands(d, S, t, k, m, b + 1, n), NEW op, NEW u, NEW j, OpLeads(op, S, t, k, u, j),
         Told(S, u)
  PROVE  Stands(Execute(d, op, b), S, u, j, m, b + 1, n)
<1>1. CASE op.kind = "create"
  <2>1. t = -1 /\ u = 0 /\ j = 0 /\ S[0].entity = Created /\ m = -1
    BY <1>1 DEF OpLeads, Stands
  <2>2. Rec(New, S, 0, 0, -1, b + 1, -1)
    BY <2>1, NewStands
  <2>3. Execute(d, op, b) = New
    BY <1>1 DEF Execute
  <2>4. -1 \in -1 .. n
    OBVIOUS
  <2> QED
    BY <2>1, <2>2, <2>3, <2>4 DEF Stands
<1>2. CASE op.kind # "create"
  <2>1. t \in Nat /\ u \in Nat
    BY <1>2 DEF OpLeads
  <2>2. PICK p \in -1 .. n : Rec(d, S, t, k, m, b + 1, p)
    BY <2>1 DEF Stands
  <2>3. Rec(Execute(d, op, b), S, u, j, m, b + 1, p)
    <3>1. CASE op.kind = "apply"
      <4>1. EventFor(Event(0, "apply", op.arg), S, t + 1) /\ u = t + 1 /\ j = k
        BY <3>1 DEF OpLeads
      <4>2. Rec(Change(d, "apply", op.arg, b + 1), S, t + 1, k, m, b + 1, p)
        BY <2>2, <4>1, ChangeStands
      <4>3. Execute(d, op, b) = Change(d, "apply", op.arg, b + 1)
        BY <3>1 DEF Execute
      <4> QED
        BY <4>1, <4>2, <4>3
    <3>2. CASE op.kind = "delete"
      <4>1. EventFor(Event(0, "delete", Absent), S, t + 1) /\ u = t + 1 /\ j = k
        BY <3>2 DEF OpLeads
      <4>2. Rec(Change(d, "delete", Absent, b + 1), S, t + 1, k, m, b + 1, p)
        BY <2>2, <4>1, ChangeStands
      <4>3. Execute(d, op, b) = Change(d, "delete", Absent, b + 1)
        BY <3>2 DEF Execute
      <4> QED
        BY <4>1, <4>2, <4>3
    <3>3. CASE op.kind = "retain"
      <4>1. u = t /\ j = Later(k, t - op.arg) /\ op.arg \in Nat
        BY <3>3 DEF OpLeads
      <4>2. Rec(Retain(d, op.arg), S, t, Later(k, t - op.arg), m, b + 1, p)
        BY <2>2, <4>1, RetainStands
      <4>3. Execute(d, op, b) = Retain(d, op.arg)
        BY <3>3 DEF Execute
      <4> QED
        BY <4>1, <4>2, <4>3
    <3>4. CASE op.kind = "snapshot"
      <4>1. u = t /\ j = k
        BY <3>4 DEF OpLeads
      <4>2. Rec(Snapshot(d), S, t, k, m, b + 1, p)
        BY <2>2, SnapshotStands
      <4>3. Execute(d, op, b) = Snapshot(d)
        BY <3>4 DEF Execute
      <4> QED
        BY <4>1, <4>2, <4>3
    <3> QED
      BY <1>2, <3>1, <3>2, <3>3, <3>4 DEF OpLeads
  <2>4. ~(u < 0)
    BY <2>1
  <2> QED
    BY <2>3, <2>4 DEF Stands
<1> QED
  BY <1>1, <1>2

(* A sequence of operations leads from one pair of versions to another.    *)
AllOps == Requests \union {Op("retain", n) : n \in Nat}

Steps(ops, S, a, c) ==
  \A i \in 1 .. Len(ops) : OpLeads(ops[i], S, a[i - 1], c[i - 1], a[i], c[i])

Path(ops, S, t, k, u, j) ==
  /\ ops \in Seq(AllOps)
  /\ \E a, c \in [0 .. Len(ops) -> Int] :
        /\ a[0] = t /\ c[0] = k /\ a[Len(ops)] = u /\ c[Len(ops)] = j
        /\ \A i \in 0 .. Len(ops) : t <= a[i] /\ a[i] <= u /\ k <= c[i] /\ c[i] <= j
        /\ Steps(ops, S, a, c)

RunStep(f, data, ops, b, i) == IF i = 0 THEN data ELSE Execute(f[i - 1], ops[i], b)
RunOver(f, data, ops, b) == f = [i \in 0 .. Len(ops) |-> RunStep(f, data, ops, b, i)]

LEMMA RunIsChosen ==
  ASSUME NEW data, NEW ops, NEW b
  PROVE  Run(data, ops, b) = (CHOOSE f : RunOver(f, data, ops, b))[Len(ops)]
  BY Zenon DEF Run, RunOver, RunStep

(* Some function records the states of a run.                              *)
LEMMA RunIsThere ==
  ASSUME NEW data, NEW ops, NEW b, NEW last \in Nat, last = Len(ops)
  PROVE  \E f : RunOver(f, data, ops, b)
<1> DEFINE Upto(g, n) == \A i \in 0 .. n : g[i] = RunStep(g, data, ops, b, i)
           Bad == {n \in 0 .. last : ~ \E g : Upto(g, n)}
<1>1. Bad = {}
  <2>1. SUFFICES ASSUME Bad # {} PROVE FALSE
    OBVIOUS
  <2>2. PICK n \in Bad : \A y \in Bad : n <= y
    <3>1. Bad \subseteq Nat
      OBVIOUS
    <3> HIDE DEF Bad
    <3> QED
      BY <2>1, <3>1, LeastNatural
  <2>3. n \in 0 .. last /\ ~ \E g : Upto(g, n)
    OBVIOUS
  <2>4. n # 0
    <3>1. Upto([i \in 0 .. 0 |-> data], 0)
      BY DEF RunStep
    <3> QED
      BY <2>3, <3>1
  <2>5. n - 1 \in 0 .. last /\ ~(n <= n - 1)
    BY <2>3, <2>4
  <2>6. PICK g : Upto(g, n - 1)
    BY <2>2, <2>5
  <2>7. PICK e : e = Execute(g[n - 1], ops[n], b)
    OBVIOUS
  <2>8. PICK h : h = [i \in 0 .. n |-> IF i = n THEN e ELSE g[i]]
    OBVIOUS
  <2>9. ASSUME NEW i \in 0 .. n PROVE h[i] = RunStep(h, data, ops, b, i)
    <3>1. CASE i = n
      <4>1. h[n] = e /\ h[n - 1] = g[n - 1]
        BY <2>3, <2>4, <2>8
      <4> QED
        BY <2>4, <2>7, <3>1, <4>1 DEF RunStep
    <3>2. CASE i # n
      <4>1. i \in 0 .. n - 1 /\ h[i] = g[i] /\ (i # 0 => h[i - 1] = g[i - 1])
        BY <2>3, <2>8, <3>2
      <4>2. g[i] = RunStep(g, data, ops, b, i)
        BY <2>6, <4>1
      <4> QED
        BY <4>1, <4>2 DEF RunStep
    <3> QED
      BY <3>1, <3>2
  <2> QED
    BY <2>3, <2>9
<1>2. PICK g : Upto(g, last)
  <2>1. last \in 0 .. last
    OBVIOUS
  <2> QED
    BY <1>1, <2>1
<1>3. PICK h : h = [i \in 0 .. last |-> g[i]]
  OBVIOUS
<1>4. ASSUME NEW i \in 0 .. last PROVE g[i] = RunStep(h, data, ops, b, i)
  <2>1. g[i] = RunStep(g, data, ops, b, i)
    BY <1>2
  <2>2. i # 0 => h[i - 1] = g[i - 1]
    BY <1>3
  <2> QED
    BY <2>1, <2>2 DEF RunStep
<1>5. [i \in 0 .. last |-> g[i]] = [i \in 0 .. last |-> RunStep(h, data, ops, b, i)]
  BY <1>4
<1>6. RunOver(h, data, ops, b)
  BY <1>3, <1>5, Zenon DEF RunOver
<1> QED
  BY <1>6

LEMMA RunStands ==
  ASSUME NEW S, NEW t \in Int, NEW k, NEW m, NEW b \in Nat, NEW n \in Int, n >= -1, NEW d,
         Stands(d, S, t, k, m, b + 1, n), NEW ops, NEW u \in Int, NEW j, Path(ops, S, t, k, u, j),
         Told(S, u)
  PROVE  Stands(Run(d, ops, b), S, u, j, m, b + 1, n)
<1>1. PICK last : last = Len(ops)
  OBVIOUS
<1>2. last \in Nat
  BY <1>1 DEF Path
<1>3. PICK a \in [0 .. last -> Int], c \in [0 .. last -> Int] :
        /\ a[0] = t /\ c[0] = k /\ a[last] = u /\ c[last] = j
        /\ \A i \in 0 .. last : a[i] <= u
        /\ \A i \in 1 .. last : OpLeads(ops[i], S, a[i - 1], c[i - 1], a[i], c[i])
  BY <1>1 DEF Path, Steps
<1>4. PICK f : f = CHOOSE g : RunOver(g, d, ops, b)
  OBVIOUS
<1>5. RunOver(f, d, ops, b)
  BY <1>1, <1>2, <1>4, RunIsThere
<1>6. ASSUME NEW i \in 0 .. last PROVE f[i] = RunStep(f, d, ops, b, i)
  <2> DEFINE g == [w \in 0 .. last |-> RunStep(f, d, ops, b, w)]
  <2>1. f = g
    BY <1>1, <1>5, Zenon DEF RunOver
  <2>2. g[i] = RunStep(f, d, ops, b, i)
    OBVIOUS
  <2> QED
    BY <2>1, <2>2, Zenon
<1> DEFINE Bad == {i \in 0 .. last : ~Stands(f[i], S, a[i], c[i], m, b + 1, n)}
<1>7. Bad = {}
  <2>1. SUFFICES ASSUME Bad # {} PROVE FALSE
    OBVIOUS
  <2>2. PICK i \in Bad : \A y \in Bad : i <= y
    <3>1. Bad \subseteq Nat
      OBVIOUS
    <3> HIDE DEF Bad
    <3> QED
      BY <2>1, <3>1, LeastNatural
  <2>3. i \in 0 .. last /\ ~Stands(f[i], S, a[i], c[i], m, b + 1, n)
    OBVIOUS
  <2>4. CASE i = 0
    <3>1. f[0] = d
      BY <1>6, <2>3, <2>4 DEF RunStep
    <3> QED
      BY <1>3, <2>3, <2>4, <3>1
  <2>5. CASE i # 0
    <3>1. i - 1 \in 0 .. last /\ i \in 1 .. last /\ ~(i <= i - 1)
      BY <1>2, <2>3, <2>5
    <3>2. Stands(f[i - 1], S, a[i - 1], c[i - 1], m, b + 1, n)
      BY <2>2, <3>1
    <3>3. OpLeads(ops[i], S, a[i - 1], c[i - 1], a[i], c[i])
      BY <1>3, <3>1
    <3>4. a[i - 1] \in Int /\ a[i] \in Int /\ a[i] <= u
      BY <1>3, <2>3, <3>1
    <3>5. Told(S, a[i])
      BY <3>4 DEF Told
    <3>6. f[i] = Execute(f[i - 1], ops[i], b)
      BY <1>6, <2>3, <2>5 DEF RunStep
    <3>7. Stands(Execute(f[i - 1], ops[i], b), S, a[i], c[i], m, b + 1, n)
      BY <3>2, <3>3, <3>4, <3>5, StepStands
    <3> QED
      BY <2>3, <3>6, <3>7
  <2> QED
    BY <2>4, <2>5
<1>8. Stands(f[last], S, a[last], c[last], m, b + 1, n)
  <2>1. last \in 0 .. last
    BY <1>2
  <2> QED
    BY <1>7, <2>1
<1>9. Run(d, ops, b) = f[last]
  BY <1>1, <1>4, RunIsChosen
<1> QED
  BY <1>3, <1>8, <1>9

-----------------------------------------------------------------------------
(* Commits and checkpoints.                                                *)

(* The states of the versions up to t, and the commits up to m, agree.     *)
Agree(S, R, t, m) ==
  /\ \A v \in 0 .. t : S[v].entity = R[v].entity
  /\ \A v \in 0 .. m : S[v].commit = R[v].commit

LEMMA SameEvent ==
  ASSUME NEW S, NEW R, NEW t \in Int, NEW m, Agree(S, R, t, m), NEW v \in 1 .. t, NEW e,
         EventFor(e, S, v)
  PROVE  EventFor(e, R, v)
<1>1. v - 1 \in 0 .. t /\ v \in 0 .. t
  OBVIOUS
<1>2. S[v].entity = R[v].entity /\ S[v - 1].entity = R[v - 1].entity
  BY <1>1 DEF Agree
<1> QED
  BY <1>2 DEF EventFor

LEMMA SameImage ==
  ASSUME NEW S, NEW R, NEW t \in Nat, NEW m \in Int, Agree(S, R, t, m), NEW p \in Nat, p <= t,
         p <= m, NEW k \in 0 .. p, NEW r, Image(r, S, p, k)
  PROVE  Image(r, R, p, k)
<1>1. p \in 0 .. t /\ k \in 0 .. t
  OBVIOUS
<1>2. r.entity.current = R[p].entity /\ r.entity.base = R[k].entity
  BY <1>1 DEF Image, Agree
<1>3. ASSUME NEW v \in k + 1 .. p
      PROVE  /\ EventFor(r.entity.events[v], R, v)
             /\ r.entity.events[v].transaction = R[v].commit /\ R[v].commit <= r.lsn
  <2>1. v \in 1 .. t /\ v \in 0 .. m
    OBVIOUS
  <2>2. EventFor(r.entity.events[v], S, v) /\ r.entity.events[v].transaction = S[v].commit
        /\ S[v].commit <= r.lsn
    BY DEF Image
  <2>3. S[v].commit = R[v].commit
    BY <2>1 DEF Agree
  <2> QED
    BY <2>1, <2>2, <2>3, SameEvent
<1>4. SnapshotsAre(r.entity.snapshots, R, k, p)
  <2>1. \A v \in k .. p : S[v].entity = R[v].entity
    BY <1>1 DEF Agree
  <2> QED
    BY <2>1 DEF Image, SnapshotsAre
<1> QED
  BY <1>2, <1>3, <1>4 DEF Image

LEMMA SameRecord ==
  ASSUME NEW S, NEW R, NEW t, NEW k, NEW m, NEW x, NEW p, NEW d, Rec(d, S, t, k, m, x, p),
         Agree(S, R, t, m)
  PROVE  Rec(d, R, t, k, m, x, p)
<1>1. Ordered(t, k, m, p) /\ Told(S, t)
  BY DEF Rec
<1>2. t \in Nat /\ k \in Nat /\ k <= t /\ m \in Int /\ p \in Int /\ p <= m /\ m <= t
      /\ -1 <= p
  BY <1>1 DEF Ordered
<1>3. Told(R, t)
  BY <1>1 DEF Told, Agree
<1>4. d.current = R[t].entity /\ d.base = R[k].entity
  <2>1. t \in 0 .. t /\ k \in 0 .. t
    BY <1>2
  <2> QED
    BY <2>1 DEF Rec, Agree
<1>5. DiskHolds(d.disk, R, p, k)
  <2>1. CASE p < 0
    BY <2>1 DEF Rec, DiskHolds
  <2>2. CASE ~(p < 0)
    <3>1. PICK q \in 0 .. k : q <= p /\ Image(d.disk, S, p, q)
      BY <2>2 DEF Rec, DiskHolds
    <3>2. q \in 0 .. p /\ p \in Nat /\ p <= t
      BY <1>2, <2>2, <3>1
    <3>3. Image(d.disk, R, p, q)
      BY <1>2, <3>1, <3>2, SameImage
    <3> QED
      BY <2>2, <3>1, <3>3 DEF Rec, DiskHolds
  <2> QED
    BY <2>1, <2>2
<1>6. Covers(d.committed, R, Later(k, p) + 1, m) /\ Stamped(d.committed, R, Later(k, p) + 1, m)
  <2>1. \A v \in Later(k, p) + 1 .. m : v \in 1 .. t /\ v \in 0 .. m
    BY <1>2 DEF Later
  <2>2. \A v \in Later(k, p) + 1 .. m : EventFor(d.committed[v], S, v)
    BY DEF Rec, Covers
  <2>3. \A v \in Later(k, p) + 1 .. m : EventFor(d.committed[v], R, v)
    BY <1>2, <2>1, <2>2, SameEvent
  <2>4. Stamped(d.committed, R, Later(k, p) + 1, m)
    BY <2>1 DEF Rec, Stamped, Agree
  <2> QED
    BY <2>3, <2>4 DEF Rec, Covers
<1>7. Covers(d.events, R, Later(k, m) + 1, t)
  <2>1. \A v \in Later(k, m) + 1 .. t : v \in 1 .. t
    BY <1>2 DEF Later
  <2>2. \A v \in Later(k, m) + 1 .. t : EventFor(d.events[v], S, v)
    BY DEF Rec, Covers
  <2>3. \A v \in Later(k, m) + 1 .. t : EventFor(d.events[v], R, v)
    BY <1>2, <2>1, <2>2, SameEvent
  <2> QED
    BY <2>3 DEF Rec, Covers
<1>8. SnapshotsAre(d.snapshots, R, Later(k, p), t)
  <2>1. \A v \in Later(k, p) .. t : v \in 0 .. t
    BY <1>2 DEF Later
  <2> QED
    BY <2>1 DEF Rec, SnapshotsAre, Agree
<1> QED
  BY <1>1, <1>3, <1>4, <1>5, <1>6, <1>7, <1>8 DEF Rec

(* Binding a record to a newer root: what the root holds leaves memory.    *)
Bound(d, r) ==
  [d EXCEPT !.committed = From(@, r.entity.current.version + 1),
            !.snapshots = From(@, r.entity.current.version),
            !.disk = r]

LEMMA BoundStands ==
  ASSUME NEW S, NEW t, NEW k, NEW m, NEW x, NEW p, NEW d, Rec(d, S, t, k, m, x, p),
         NEW r, r.gen \in Nat, NEW o \in Nat, p <= o, o <= m, NEW q \in 0 .. k, q <= o,
         Image(r, S, o, q)
  PROVE  Rec(Bound(d, r), S, t, k, m, x, o)
<1>1. Ordered(t, k, m, p) /\ Told(S, t) /\ IsRecord(d)
  BY DEF Rec
<1>2. t \in Nat /\ k \in Nat /\ k <= t /\ m \in Int /\ p \in Int /\ p <= m /\ m <= t
      /\ -1 <= p
  BY <1>1 DEF Ordered
<1>3. r.entity.current.version = o
  BY <1>1, <1>2 DEF Image, Told
<1>4. PICK c : c = Bound(d, r)
  OBVIOUS
<1>5. /\ IsRecord(c) /\ c.current = d.current /\ c.base = d.base /\ c.disk = r
      /\ c.committed = From(d.committed, o + 1) /\ c.events = d.events
      /\ c.snapshots = From(d.snapshots, o)
  BY <1>1, <1>3, <1>4 DEF Bound, IsRecord
<1>6. Ordered(t, k, m, o)
  BY <1>1, <1>2 DEF Ordered
<1>7. DiskHolds(c.disk, S, o, k)
  BY <1>5 DEF DiskHolds
<1>8. Covers(c.committed, S, Later(k, o) + 1, m) /\ Stamped(c.committed, S, Later(k, o) + 1, m)
  <2>1. Covers(d.committed, S, Later(k, p) + 1, m) /\ Stamped(d.committed, S, Later(k, p) + 1, m)
    BY DEF Rec
  <2>2. \A v : v \in Later(k, o) + 1 .. m <=> v \in Later(k, p) + 1 .. m /\ v >= o + 1
    BY <1>2 DEF Later
  <2>3. \A v : v \in DOMAIN c.committed <=> v \in Later(k, o) + 1 .. m
    BY <1>5, <2>1, <2>2 DEF From, Restrict, Covers
  <2>4. \A v \in Later(k, o) + 1 .. m : c.committed[v] = d.committed[v]
    BY <1>5, <2>1, <2>2 DEF From, Restrict, Covers
  <2> QED
    BY <2>1, <2>2, <2>3, <2>4 DEF Covers, Stamped
<1>9. SnapshotsAre(c.snapshots, S, Later(k, o), t)
  <2>1. SnapshotsAre(d.snapshots, S, Later(k, p), t)
    BY DEF Rec
  <2>2. \A v : v \in Later(k, p) .. t /\ v >= o => v \in Later(k, o) .. t
    BY <1>2 DEF Later
  <2> QED
    BY <1>5, <2>1, <2>2 DEF SnapshotsAre, From, Restrict
<1>10. Rec(c, S, t, k, m, x, o)
  BY <1>1, <1>5, <1>6, <1>7, <1>8, <1>9 DEF Rec
<1> QED
  BY <1>4, <1>10

LEMMA RestampStands ==
  ASSUME NEW S, NEW t, NEW k, NEW m, NEW b \in Nat, NEW p, NEW d, Rec(d, S, t, k, m, b + 1, p),
         NEW x \in Nat
  PROVE  Rec(Restamp(d, b, x), S, t, k, m, x, p)
<1>1. IsRecord(d)
  BY DEF Rec
<1>2. PICK c : c = Restamp(d, b, x)
  OBVIOUS
<1>3. PICK events : events = [v \in DOMAIN d.events |->
            IF d.events[v].transaction > b THEN [d.events[v] EXCEPT !.transaction = x]
            ELSE d.events[v]]
  OBVIOUS
<1>4. /\ IsRecord(c) /\ c.current = d.current /\ c.base = d.base /\ c.disk = d.disk
      /\ c.committed = d.committed /\ c.snapshots = d.snapshots /\ c.events = events
  BY <1>1, <1>2, <1>3 DEF Restamp, IsRecord
<1>5. ASSUME NEW v \in Later(k, m) + 1 .. t
      PROVE  EventFor(events[v], S, v) /\ events[v].transaction = x
  <2>1. PICK e : e = d.events[v]
    OBVIOUS
  <2>2. v \in DOMAIN d.events /\ EventFor(e, S, v) /\ e.transaction = b + 1
    BY <2>1 DEF Rec, Covers
  <2>3. e.transaction > b
    BY <2>2
  <2>4. PICK f : f = [e EXCEPT !.transaction = x]
    OBVIOUS
  <2>5. events[v] = f
    BY <1>3, <2>1, <2>2, <2>3, <2>4
  <2>6. e \in Events
    BY <2>2 DEF EventFor
  <2>7. f.kind = e.kind /\ f.field = e.field /\ f.transaction = x /\ f \in Events
    BY <2>4, <2>6 DEF Events
  <2>8. ApplyEvent(S[v - 1].entity, v, e) = ApplyEvent(S[v - 1].entity, v, f)
    BY <2>7, ApplySame
  <2> QED
    BY <2>2, <2>5, <2>7, <2>8 DEF EventFor
<1>6. DOMAIN events = DOMAIN d.events
  BY <1>3
<1>7. Covers(events, S, Later(k, m) + 1, t)
  BY <1>5, <1>6 DEF Rec, Covers
<1>8. Rec(c, S, t, k, m, x, p)
  BY <1>4, <1>5, <1>7 DEF Rec
<1> QED
  BY <1>2, <1>8

LEMMA SealStands ==
  ASSUME NEW S, NEW t, NEW k, NEW m, NEW x, NEW p, NEW d, Rec(d, S, t, k, m, x, p),
         \A v \in m + 1 .. t : v \in Nat => S[v].commit = x, NEW y
  PROVE  Rec(Seal(d), S, t, k, t, y, p)
<1>1. Ordered(t, k, m, p) /\ Told(S, t) /\ IsRecord(d)
  BY DEF Rec
<1>2. t \in Nat /\ k \in Nat /\ k <= t /\ m \in Int /\ p \in Int /\ p <= m /\ m <= t
      /\ -1 <= p
  BY <1>1 DEF Ordered
<1>3. PICK c : c = Seal(d)
  OBVIOUS
<1>4. /\ IsRecord(c) /\ c.current = d.current /\ c.base = d.base /\ c.disk = d.disk
      /\ c.committed = Over(d.events, d.committed) /\ c.snapshots = d.snapshots
      /\ c.events = << >>
  BY <1>1, <1>3 DEF Seal, IsRecord
<1>5. \A v : v \in Later(k, p) + 1 .. t
                <=> v \in Later(k, p) + 1 .. m \/ v \in Later(k, m) + 1 .. t
  BY <1>2 DEF Later
<1>6. Covers(d.committed, S, Later(k, p) + 1, m) /\ Stamped(d.committed, S, Later(k, p) + 1, m)
      /\ Covers(d.events, S, Later(k, m) + 1, t)
      /\ \A v \in Later(k, m) + 1 .. t : d.events[v].transaction = x
  BY DEF Rec
<1>7. DOMAIN c.committed = DOMAIN d.events \union DOMAIN d.committed
  BY <1>4 DEF Over
<1>8. \A v : v \in DOMAIN c.committed <=> v \in Later(k, p) + 1 .. t
  BY <1>5, <1>6, <1>7 DEF Covers
<1>9. ASSUME NEW v \in Later(k, p) + 1 .. t
      PROVE  EventFor(c.committed[v], S, v) /\ c.committed[v].transaction = S[v].commit
  <2>1. CASE v \in Later(k, m) + 1 .. t
    <3>1. v \in m + 1 .. t /\ v \in Nat
      BY <1>2, <2>1 DEF Later
    <3>2. c.committed[v] = d.events[v]
      BY <1>4, <1>6, <2>1 DEF Over, Covers
    <3> QED
      BY <1>6, <2>1, <3>1, <3>2 DEF Covers
  <2>2. CASE v \notin Later(k, m) + 1 .. t
    <3>1. v \in Later(k, p) + 1 .. m
      BY <1>5, <2>2
    <3>2. c.committed[v] = d.committed[v]
      BY <1>4, <1>6, <2>2, <3>1 DEF Over, Covers
    <3> QED
      BY <1>6, <3>1, <3>2 DEF Covers, Stamped
  <2> QED
    BY <2>1, <2>2
<1>10. Covers(c.committed, S, Later(k, p) + 1, t) /\ Stamped(c.committed, S, Later(k, p) + 1, t)
  BY <1>8, <1>9 DEF Covers, Stamped
<1>11. \A v : v \notin Later(k, t) + 1 .. t
  BY <1>2 DEF Later
<1>12. Covers(c.events, S, Later(k, t) + 1, t)
  BY <1>4, <1>11 DEF Covers
<1>13. Ordered(t, k, t, p)
  BY <1>1 DEF Ordered
<1>14. DiskHolds(c.disk, S, p, k) /\ SnapshotsAre(c.snapshots, S, Later(k, p), t)
       /\ c.current = S[t].entity /\ c.base = S[k].entity
  BY <1>4 DEF Rec
<1>15. Rec(c, S, t, k, t, y, p)
  BY <1>1, <1>4, <1>10, <1>11, <1>12, <1>13, <1>14 DEF Rec
<1> QED
  BY <1>3, <1>15

(* A record read through a root.                                           *)
LEMMA RootEntityStands ==
  ASSUME NEW S, NEW t \in Nat, NEW k \in 0 .. t, NEW r, r.gen \in Nat, Told(S, t),
         Image(r, S, t, k), NEW y
  PROVE  Rec(RootEntity(r), S, t, k, t, y, t)
<1>1. r.entity.current = S[t].entity /\ r.entity.base = S[k].entity
  BY DEF Image
<1>2. r.entity # Absent
  BY <1>1, RecordExists
<1>3. PICK c : c = RootEntity(r)
  OBVIOUS
<1>4. /\ IsRecord(c) /\ c.current = S[t].entity /\ c.base = S[k].entity /\ c.disk = r
      /\ c.committed = << >> /\ c.snapshots = << >> /\ c.events = << >>
  BY <1>1, <1>2, <1>3 DEF RootEntity, IsRecord
<1>5. Ordered(t, k, t, t)
  BY DEF Ordered
<1>6. Later(k, t) = t /\ \A v : v \notin Later(k, t) + 1 .. t
  BY DEF Later
<1>7. Covers(c.committed, S, Later(k, t) + 1, t) /\ Covers(c.events, S, Later(k, t) + 1, t)
      /\ Stamped(c.committed, S, Later(k, t) + 1, t)
  BY <1>4, <1>6 DEF Covers, Stamped
<1>8. SnapshotsAre(c.snapshots, S, Later(k, t), t)
  BY <1>4 DEF SnapshotsAre
<1>9. DiskHolds(c.disk, S, t, k)
  <2>1. k \in 0 .. k /\ k <= t /\ ~(t < 0)
    OBVIOUS
  <2> QED
    BY <1>4, <2>1 DEF DiskHolds
<1>10. Rec(c, S, t, k, t, y, t)
  BY <1>4, <1>5, <1>6, <1>7, <1>8, <1>9 DEF Rec
<1> QED
  BY <1>3, <1>10

(* What a record copies from its root, by version.                         *)
LEMMA Copies ==
  ASSUME NEW S, NEW t, NEW k, NEW m, NEW x, NEW p, NEW d, Rec(d, S, t, k, m, x, p)
  PROVE  /\ \A v : v \in DOMAIN CopiedEvents(d) <=> v \in k + 1 .. p
         /\ \A v \in k + 1 .. p : /\ EventFor(CopiedEvents(d)[v], S, v)
                                  /\ CopiedEvents(d)[v].transaction = S[v].commit
         /\ SnapshotsAre(CopiedSnapshots(d), S, k, p)
         /\ DOMAIN CopiedSnapshots(d) \intersect DOMAIN d.snapshots = {}
<1>1. Ordered(t, k, m, p) /\ Told(S, t)
  BY DEF Rec
<1>2. t \in Nat /\ k \in Nat /\ k <= t /\ p \in Int /\ p <= t /\ d.base.version = k
  BY <1>1 DEF Ordered, Rec, Told
<1>3. CASE p < 0
  <2>1. d.disk = Absent
    BY <1>3 DEF Rec, DiskHolds
  <2>2. DOMAIN CopiedEvents(d) = {} /\ DOMAIN CopiedSnapshots(d) = {}
    BY <2>1 DEF CopiedEvents, CopiedSnapshots
  <2>3. \A v : v \notin k + 1 .. p
    BY <1>2, <1>3
  <2> QED
    BY <2>2, <2>3 DEF SnapshotsAre
<1>4. CASE ~(p < 0)
  <2>1. PICK q \in 0 .. k : q <= p /\ Image(d.disk, S, p, q)
    BY <1>4 DEF Rec, DiskHolds
  <2>2. d.disk # Absent
    BY <1>4 DEF Rec, DiskHolds, Absent
  <2>3. Through(d) = p
    BY <1>1, <1>2, <1>4, <2>1 DEF Through, Image, Told
  <2>4. PICK events : events = d.disk.entity.events
    OBVIOUS
  <2>5. PICK snapshots : snapshots = d.disk.entity.snapshots
    OBVIOUS
  <2>6. CopiedEvents(d) = [v \in {w \in DOMAIN events : k < w /\ w <= p} |-> events[v]]
    BY <1>2, <2>2, <2>3, <2>4 DEF CopiedEvents, Restrict
  <2>7. CopiedSnapshots(d) = [v \in {w \in DOMAIN snapshots : /\ k <= w /\ w <= p
                                                              /\ w \notin DOMAIN d.snapshots}
                                |-> snapshots[v]]
    BY <1>2, <2>2, <2>3, <2>5 DEF CopiedSnapshots, Restrict
  <2>8. \A v : v \in DOMAIN events <=> v \in q + 1 .. p
    BY <2>1, <2>4 DEF Image
  <2>9. \A v : v \in k + 1 .. p <=> v \in q + 1 .. p /\ k < v /\ v <= p
    BY <1>2, <2>1
  <2>10. \A v \in q + 1 .. p : EventFor(events[v], S, v) /\ events[v].transaction = S[v].commit
    BY <2>1, <2>4 DEF Image
  <2>11. SnapshotsAre(snapshots, S, q, p)
    BY <2>1, <2>5 DEF Image
  <2>12. \A v : v \in DOMAIN CopiedEvents(d) <=> v \in k + 1 .. p
    BY <2>6, <2>8, <2>9
  <2>13. \A v \in k + 1 .. p : CopiedEvents(d)[v] = events[v]
    BY <2>6, <2>8, <2>9
  <2>14. SnapshotsAre(CopiedSnapshots(d), S, k, p)
    <3>1. \A v : v \in q .. p /\ k <= v => v \in k .. p
      BY <1>2, <2>1
    <3> QED
      BY <2>7, <2>11, <3>1 DEF SnapshotsAre
  <2>15. DOMAIN CopiedSnapshots(d) \intersect DOMAIN d.snapshots = {}
    BY <2>7
  <2> QED
    BY <2>9, <2>10, <2>12, <2>13, <2>14, <2>15
<1> QED
  BY <1>3, <1>4

(* What memory adds when the record is written.                            *)
LEMMA Adds ==
  ASSUME NEW S, NEW t, NEW k, NEW m, NEW x, NEW p, NEW d, Rec(d, S, t, k, m, x, p)
  PROVE  /\ d.base.version = k
         /\ \A v : v \in DOMAIN From(d.committed, k + 1) <=> v \in Later(k, p) + 1 .. m
         /\ \A v \in Later(k, p) + 1 .. m : From(d.committed, k + 1)[v] = d.committed[v]
         /\ DOMAIN From(d.snapshots, k) = DOMAIN d.snapshots
         /\ SnapshotsAre(From(d.snapshots, k), S, Later(k, p), t)
<1>1. Ordered(t, k, m, p) /\ Told(S, t)
  BY DEF Rec
<1>2. t \in Nat /\ k \in Nat /\ p \in Int /\ m \in Int /\ d.base.version = k
  BY <1>1 DEF Ordered, Rec, Told
<1>3. \A v \in Later(k, p) + 1 .. m : v >= k + 1
  BY <1>2 DEF Later
<1>4. \A v \in Later(k, p) .. t : v >= k
  BY <1>2 DEF Later
<1>5. Covers(d.committed, S, Later(k, p) + 1, m) /\ SnapshotsAre(d.snapshots, S, Later(k, p), t)
  BY DEF Rec
<1>6. /\ \A v : v \in DOMAIN From(d.committed, k + 1) <=> v \in Later(k, p) + 1 .. m
      /\ \A v \in Later(k, p) + 1 .. m : From(d.committed, k + 1)[v] = d.committed[v]
  BY <1>3, <1>5 DEF Covers, From, Restrict
<1>7. DOMAIN From(d.snapshots, k) = DOMAIN d.snapshots
  BY <1>4, <1>5 DEF SnapshotsAre, From, Restrict
<1>8. SnapshotsAre(From(d.snapshots, k), S, Later(k, p), t)
  BY <1>5 DEF SnapshotsAre, From, Restrict
<1> QED
  BY <1>2, <1>6, <1>7, <1>8

(* Index keys of a written record are in order.                            *)
LEMMA RecordWritable ==
  ASSUME NEW S, NEW t, NEW k, NEW m, NEW x, NEW p, NEW d, Rec(d, S, t, k, m, x, p)
  PROVE  Writable(d)
<1>1. Ordered(t, k, m, p)
  BY DEF Rec
<1>2. t \in Nat /\ k \in Nat /\ p \in Int /\ m \in Int
  BY <1>1 DEF Ordered
<1>3. PICK events, snapshots : events = CopiedEvents(d) /\ snapshots = CopiedSnapshots(d)
  OBVIOUS
<1>4. PICK more, taken : more = From(d.committed, k + 1) /\ taken = From(d.snapshots, k)
  OBVIOUS
<1>5. (\A v \in DOMAIN events : v \in k + 1 .. p) /\ (\A v \in DOMAIN snapshots : v \in k .. p)
      /\ DOMAIN snapshots \intersect DOMAIN d.snapshots = {}
  BY <1>3, Copies DEF SnapshotsAre
<1>6. (\A v \in DOMAIN more : v \in Later(k, p) + 1 .. m)
      /\ (\A v \in DOMAIN taken : v \in Later(k, p) .. t)
      /\ DOMAIN taken = DOMAIN d.snapshots /\ d.base.version = k
  BY <1>4, Adds DEF SnapshotsAre
<1>7. Precede(events, more)
  <2>1. ASSUME NEW v \in k + 1 .. p, NEW w \in Later(k, p) + 1 .. m PROVE v < w
    BY <1>2 DEF Later
  <2> QED
    BY <1>5, <1>6, <2>1 DEF Precede
<1>8. Precede(snapshots, taken)
  <2>1. ASSUME NEW v \in k .. p, NEW w \in Later(k, p) .. t, v # w PROVE v < w
    BY <1>2, <2>1 DEF Later
  <2>2. ASSUME NEW v \in DOMAIN snapshots, NEW w \in DOMAIN taken PROVE v # w
    BY <1>5, <1>6
  <2> QED
    BY <1>5, <1>6, <2>1, <2>2 DEF Precede
<1> QED
  BY <1>3, <1>4, <1>6, <1>7, <1>8 DEF Writable

(* A checkpoint of a published record is an image of the same versions.    *)
LEMMA WrittenImage ==
  ASSUME NEW S, NEW t, NEW k, NEW x, NEW p, NEW d, Rec(d, S, t, k, t, x, p),
         NEW r, r.entity = Written(d), r.lsn \in Nat,
         \A v \in 0 .. t : S[v].commit <= r.lsn
  PROVE  Image(r, S, t, k)
<1>1. Ordered(t, k, t, p)
  BY DEF Rec
<1>2. t \in Nat /\ k \in Nat /\ p \in Int /\ k <= t /\ p <= t
  BY <1>1 DEF Ordered
<1>3. PICK events, snapshots : events = CopiedEvents(d) /\ snapshots = CopiedSnapshots(d)
  OBVIOUS
<1>4. PICK more, taken : more = From(d.committed, k + 1) /\ taken = From(d.snapshots, k)
  OBVIOUS
<1>5. /\ \A v : v \in DOMAIN events <=> v \in k + 1 .. p
      /\ \A v \in k + 1 .. p : EventFor(events[v], S, v) /\ events[v].transaction = S[v].commit
      /\ SnapshotsAre(snapshots, S, k, p)
  BY <1>3, Copies
<1>6. /\ \A v : v \in DOMAIN more <=> v \in Later(k, p) + 1 .. t
      /\ \A v \in Later(k, p) + 1 .. t : more[v] = d.committed[v]
      /\ SnapshotsAre(taken, S, Later(k, p), t) /\ d.base.version = k
  BY <1>4, Adds
<1>7. \A v \in Later(k, p) + 1 .. t : EventFor(more[v], S, v) /\ more[v].transaction = S[v].commit
  BY <1>6 DEF Rec, Covers, Stamped
<1>8. /\ r.entity.current = d.current /\ r.entity.base = d.base
      /\ r.entity.snapshots = Over(taken, snapshots) /\ r.entity.events = Over(more, events)
  BY <1>3, <1>4, <1>6 DEF Written
<1>9. \A v : v \in k + 1 .. t <=> v \in k + 1 .. p \/ v \in Later(k, p) + 1 .. t
  BY <1>2 DEF Later
<1>10. \A v : v \in DOMAIN r.entity.events <=> v \in k + 1 .. t
  BY <1>5, <1>6, <1>8, <1>9 DEF Over
<1>11. ASSUME NEW v \in k + 1 .. t
       PROVE  /\ EventFor(r.entity.events[v], S, v)
              /\ r.entity.events[v].transaction = S[v].commit
              /\ S[v].commit <= r.lsn
  <2>1. v \in 0 .. t
    BY <1>2
  <2>2. r.entity.events[v] = IF v \in DOMAIN more THEN more[v] ELSE events[v]
    BY <1>5, <1>6, <1>8, <1>9 DEF Over
  <2> QED
    BY <1>5, <1>6, <1>7, <1>9, <2>1, <2>2
<1>12. SnapshotsAre(r.entity.snapshots, S, k, t)
  <2>1. \A v : v \in k .. p \/ v \in Later(k, p) .. t => v \in k .. t
    BY <1>2 DEF Later
  <2> QED
    BY <1>5, <1>6, <1>8, <2>1 DEF SnapshotsAre, Over
<1>13. r.entity.current = S[t].entity /\ r.entity.base = S[k].entity
  BY <1>8 DEF Rec
<1> QED
  BY <1>10, <1>11, <1>12, <1>13 DEF Image

-----------------------------------------------------------------------------
(* Walking the events.                                                     *)

(* The only increasing enumeration of an interval counts through it.       *)
LEMMA IntervalInOrder ==
  ASSUME NEW a \in Int, NEW b \in Int, a <= b
  PROVE  InOrder(a + 1 .. b) = [i \in 1 .. b - a |-> a + i]
<1> DEFINE n == b - a
           Increasing(s) == \A i, j \in DOMAIN s : i < j => s[i] < s[j]
<1>1. n \in Nat /\ Cardinality(a + 1 .. b) = n
  <2>1. a + 1 \in Int
    OBVIOUS
  <2>2. Cardinality(a + 1 .. b) = IF a + 1 > b THEN 0 ELSE b - (a + 1) + 1
    BY <2>1, FS_Interval
  <2> QED
    BY <2>2
<1>2. PICK c : c = [i \in 1 .. n |-> a + i]
  OBVIOUS
<1>3. c \in [1 .. n -> a + 1 .. b] /\ Increasing(c)
  BY <1>1, <1>2
<1>4. ASSUME NEW s \in [1 .. n -> a + 1 .. b], Increasing(s) PROVE s = c
  <2>1. \A i \in 1 .. n : s[i] >= a + i
    <3> DEFINE Bad == {i \in 1 .. n : ~(s[i] >= a + i)}
    <3>1. SUFFICES ASSUME Bad # {} PROVE FALSE
      OBVIOUS
    <3>2. PICK i \in Bad : \A y \in Bad : i <= y
      <4>1. Bad \subseteq Nat
        OBVIOUS
      <4> HIDE DEF Bad
      <4> QED
        BY <3>1, <4>1, LeastNatural
    <3>3. i \in 1 .. n /\ ~(s[i] >= a + i) /\ s[i] \in a + 1 .. b
      OBVIOUS
    <3>4. i # 1
      BY <3>3
    <3>5. i - 1 \in 1 .. n /\ ~(i <= i - 1) /\ i - 1 < i
      BY <3>3, <3>4
    <3>6. s[i - 1] >= a + (i - 1) /\ s[i - 1] < s[i] /\ s[i - 1] \in a + 1 .. b
      BY <1>4, <3>2, <3>3, <3>5
    <3> QED
      BY <3>3, <3>6
  <2>2. \A i \in 1 .. n : s[i] <= a + i
    <3> DEFINE Bad == {i \in 1 .. n : ~(s[i] <= a + i)}
               Gaps == {n - i : i \in Bad}
    <3>1. SUFFICES ASSUME Bad # {} PROVE FALSE
      OBVIOUS
    <3>2. Gaps \subseteq Nat /\ Gaps # {}
      BY <3>1
    <3>3. PICK g \in Gaps : \A y \in Gaps : g <= y
      <4> HIDE DEF Gaps
      <4> QED
        BY <3>2, LeastNatural
    <3>4. PICK i \in Bad : g = n - i
      OBVIOUS
    <3>5. i \in 1 .. n /\ ~(s[i] <= a + i) /\ s[i] \in a + 1 .. b
      OBVIOUS
    <3>6. i # n
      BY <1>1, <3>5
    <3>7. i + 1 \in 1 .. n /\ i < i + 1
      BY <1>1, <3>5, <3>6
    <3>8. i + 1 \notin Bad
      <4>1. ASSUME i + 1 \in Bad PROVE FALSE
        <5>1. n - (i + 1) \in Gaps
          BY <4>1
        <5>2. g <= n - (i + 1)
          BY <3>3, <5>1
        <5> QED
          BY <1>1, <3>4, <3>5, <5>2
      <4> QED
        BY <4>1
    <3>9. s[i + 1] <= a + (i + 1) /\ s[i] < s[i + 1] /\ s[i + 1] \in a + 1 .. b
      BY <1>4, <3>5, <3>7, <3>8
    <3> QED
      BY <3>5, <3>9
  <2>3. \A i \in 1 .. n : s[i] = a + i
    <3>1. ASSUME NEW i \in 1 .. n PROVE s[i] = a + i
      <4>1. s[i] \in a + 1 .. b /\ s[i] >= a + i /\ s[i] <= a + i
        BY <2>1, <2>2
      <4> QED
        BY <4>1
    <3> QED
      BY <3>1
  <2> QED
    BY <1>2, <2>3
<1>5. InOrder(a + 1 .. b) = CHOOSE s \in [1 .. n -> a + 1 .. b] : Increasing(s)
  BY <1>1, Zenon DEF InOrder
<1>6. (CHOOSE s \in [1 .. n -> a + 1 .. b] : Increasing(s)) = c
  <2> HIDE DEF Increasing, n
  <2> QED
    BY <1>3, <1>4
<1> QED
  BY <1>2, <1>5, <1>6

(* A walk meets the events of an interval in turn.                         *)
Walked(s, events, a, b) ==
  s = [i \in 1 .. b - a |-> [version |-> a + i, event |-> events[a + i]]]

LEMMA Walks ==
  ASSUME NEW a \in Int, NEW b \in Int, a <= b, NEW events, NEW first, NEW last,
         \A v : v \in DOMAIN events /\ first <= v /\ v <= last <=> v \in a + 1 .. b
  PROVE  Walked(Walk(events, first, last), events, a, b)
<1>1. {v \in DOMAIN events : first <= v /\ v <= last} = a + 1 .. b
  <2>1. PICK V : V = {v \in DOMAIN events : first <= v /\ v <= last}
    OBVIOUS
  <2>2. \A v : v \in V <=> v \in a + 1 .. b
    BY <2>1
  <2> QED
    BY <2>1, <2>2
<1>2. PICK s : s = [i \in 1 .. b - a |-> a + i]
  OBVIOUS
<1>3. InOrder({v \in DOMAIN events : first <= v /\ v <= last}) = s
  BY <1>1, <1>2, IntervalInOrder
<1>4. Walk(events, first, last) = [i \in DOMAIN s |-> [version |-> s[i], event |-> events[s[i]]]]
  BY <1>3 DEF Walk
<1> QED
  BY <1>2, <1>4 DEF Walked

LEMMA Joins ==
  ASSUME NEW n \in Nat, NEW l \in Nat, NEW s, NEW w, s = [i \in 1 .. n |-> s[i]],
         w = [i \in 1 .. l |-> w[i]]
  PROVE  /\ s \o w = [i \in 1 .. n + l |-> (s \o w)[i]]
         /\ \A i \in 1 .. n : (s \o w)[i] = s[i]
         /\ \A i \in 1 .. l : (s \o w)[n + i] = w[i]
<1> DEFINE V == {s[i] : i \in 1 .. n} \union {w[i] : i \in 1 .. l}
<1>1. s \in [1 .. n -> V] /\ w \in [1 .. l -> V]
  OBVIOUS
<1>2. s \in Seq(V) /\ w \in Seq(V) /\ Len(s) = n /\ Len(w) = l
  <2> HIDE DEF V
  <2> QED
    BY <1>1
<1>3. /\ s \o w \in Seq(V) /\ Len(s \o w) = n + l
      /\ \A i \in 1 .. n + l : (s \o w)[i] = IF i <= n THEN s[i] ELSE w[i - n]
  <2> HIDE DEF V
  <2> QED
    BY <1>2, ConcatProperties
<1>4. s \o w = [i \in 1 .. n + l |-> (s \o w)[i]]
  <2> HIDE DEF V
  <2> QED
    BY <1>3
<1>5. ASSUME NEW i \in 1 .. n PROVE (s \o w)[i] = s[i]
  BY <1>3
<1>6. ASSUME NEW i \in 1 .. l PROVE (s \o w)[n + i] = w[i]
  <2>1. n + i \in 1 .. n + l /\ ~(n + i <= n) /\ (n + i) - n = i
    OBVIOUS
  <2> QED
    BY <1>3, <2>1
<1> QED
  BY <1>4, <1>5, <1>6

(* The events after version k, in order, with their transactions.          *)
Whole(walk, S, k, t) ==
  /\ walk = [i \in 1 .. t - k |-> walk[i]]
  /\ \A i \in 1 .. t - k : /\ walk[i].version = k + i
                           /\ walk[i].event.transaction = S[k + i].commit

(* A walk over a published record meets each event it keeps once.          *)
LEMMA VisitsAll ==
  ASSUME NEW S, NEW t, NEW k, NEW x, NEW p, NEW d, Rec(d, S, t, k, t, x, p),
         NEW walk, walk = Visit(d, k + 1, t)
  PROVE  Whole(walk, S, k, t)
<1>1. Ordered(t, k, t, p) /\ Told(S, t)
  BY DEF Rec
<1>2. t \in Nat /\ k \in Nat /\ k <= t /\ p \in Int /\ p <= t
  BY <1>1 DEF Ordered
<1>3. PICK c : c = Later(k, p)
  OBVIOUS
<1>4. c \in k .. t /\ c \in Int /\ k <= c /\ c <= t
  BY <1>2, <1>3 DEF Later
<1>5. PICK disk : disk = IF d.disk = Absent THEN << >>
                         ELSE Walk(d.disk.entity.events, k + 1, Min({t, Through(d)}))
  OBVIOUS
<1>6. PICK mem : mem = Walk(d.committed, k + 1, t)
  OBVIOUS
<1>7. PICK own : own = Walk(d.events, k + 1, t)
  OBVIOUS
<1>8. walk = (disk \o mem) \o own
  BY <1>5, <1>6, <1>7, Zenon DEF Visit
<1>9. /\ disk = [i \in 1 .. c - k |-> disk[i]]
      /\ \A i \in 1 .. c - k : /\ disk[i].version = k + i
                               /\ disk[i].event.transaction = S[k + i].commit
  <2>1. CASE p < 0
    <3>1. d.disk = Absent
      BY <2>1 DEF Rec, DiskHolds
    <3>2. disk = << >> /\ c - k = 0
      BY <1>2, <1>3, <1>5, <2>1, <3>1 DEF Later
    <3> QED
      BY <3>2
  <2>2. CASE ~(p < 0)
    <3>1. PICK q \in 0 .. k : q <= p /\ Image(d.disk, S, p, q)
      BY <2>2 DEF Rec, DiskHolds
    <3>2. d.disk # Absent
      BY <2>2 DEF Rec, DiskHolds, Absent
    <3>3. Through(d) = p
      BY <1>1, <1>2, <2>2, <3>1 DEF Through, Image, Told
    <3>4. Min({t, Through(d)}) = p
      BY <1>2, <3>3, SmallerOfTwo
    <3>5. PICK events : events = d.disk.entity.events
      OBVIOUS
    <3>6. /\ \A v : v \in DOMAIN events <=> v \in q + 1 .. p
          /\ \A v \in q + 1 .. p : events[v].transaction = S[v].commit
      BY <3>1, <3>5 DEF Image
    <3>7. \A v : v \in q + 1 .. p /\ k + 1 <= v /\ v <= p <=> v \in k + 1 .. c
      BY <1>2, <1>3, <3>1 DEF Later
    <3>8. Walked(Walk(events, k + 1, p), events, k, c)
      BY <1>2, <1>4, <3>6, <3>7, Walks
    <3>9. disk = [i \in 1 .. c - k |-> [version |-> k + i, event |-> events[k + i]]]
      BY <1>5, <3>2, <3>4, <3>5, <3>8 DEF Walked
    <3>10. \A i \in 1 .. c - k : k + i \in q + 1 .. p
      BY <1>2, <1>3, <3>1 DEF Later
    <3> QED
      BY <3>6, <3>9, <3>10
  <2> QED
    BY <2>1, <2>2
<1>10. /\ mem = [i \in 1 .. t - c |-> mem[i]]
       /\ \A i \in 1 .. t - c : /\ mem[i].version = c + i
                                /\ mem[i].event.transaction = S[c + i].commit
  <2>1. /\ \A v : v \in DOMAIN d.committed <=> v \in c + 1 .. t
        /\ \A v \in c + 1 .. t : d.committed[v].transaction = S[v].commit
    BY <1>3 DEF Rec, Covers, Stamped
  <2>2. \A v : v \in c + 1 .. t /\ k + 1 <= v /\ v <= t <=> v \in c + 1 .. t
    BY <1>2, <1>4
  <2>3. Walked(mem, d.committed, c, t)
    BY <1>2, <1>4, <1>6, <2>1, <2>2, Walks
  <2>4. mem = [i \in 1 .. t - c |-> [version |-> c + i, event |-> d.committed[c + i]]]
    BY <2>3 DEF Walked
  <2>5. \A i \in 1 .. t - c : c + i \in c + 1 .. t
    BY <1>2, <1>4
  <2> QED
    BY <2>1, <2>4, <2>5
<1>11. own = [i \in 1 .. 0 |-> own[i]]
  <2>1. \A v : v \notin DOMAIN d.events
    <3>1. \A v : v \in DOMAIN d.events <=> v \in Later(k, t) + 1 .. t
      BY DEF Rec, Covers
    <3>2. \A v : v \notin Later(k, t) + 1 .. t
      BY <1>2 DEF Later
    <3> QED
      BY <3>1, <3>2
  <2>2. \A v : v \in DOMAIN d.events /\ k + 1 <= v /\ v <= t <=> v \in t + 1 .. t
    BY <1>2, <2>1
  <2>3. Walked(own, d.events, t, t)
    BY <1>2, <1>7, <2>2, Walks
  <2>4. t - t = 0
    BY <1>2
  <2> QED
    BY <2>3, <2>4 DEF Walked
<1>12. PICK both : both = disk \o mem
  OBVIOUS
<1>13. c - k \in Nat /\ t - c \in Nat /\ (c - k) + (t - c) = t - k /\ t - k \in Nat
  BY <1>2, <1>4
<1>14. /\ both = [i \in 1 .. t - k |-> both[i]]
       /\ \A i \in 1 .. c - k : both[i] = disk[i]
       /\ \A i \in 1 .. t - c : both[(c - k) + i] = mem[i]
  <2>1. PICK n \in Nat, l \in Nat : n = c - k /\ l = t - c
    BY <1>13
  <2>2. disk = [i \in 1 .. n |-> disk[i]] /\ mem = [i \in 1 .. l |-> mem[i]]
    BY <1>9, <1>10, <2>1
  <2>3. /\ both = [i \in 1 .. n + l |-> both[i]]
        /\ \A i \in 1 .. n : both[i] = disk[i]
        /\ \A i \in 1 .. l : both[n + i] = mem[i]
    BY <1>12, <2>2, Joins
  <2> QED
    BY <1>13, <2>1, <2>3
<1>15. /\ walk = [i \in 1 .. t - k |-> walk[i]]
       /\ \A i \in 1 .. t - k : walk[i] = both[i]
  <2>1. PICK n \in Nat, l \in Nat : n = t - k /\ l = 0
    BY <1>13
  <2>2. both = [i \in 1 .. n |-> both[i]] /\ own = [i \in 1 .. l |-> own[i]]
    BY <1>11, <1>14, <2>1
  <2>3. walk = both \o own
    BY <1>8, <1>12
  <2>4. walk = [i \in 1 .. n + l |-> walk[i]] /\ \A i \in 1 .. n : walk[i] = both[i]
    <3>1. /\ both \o own = [i \in 1 .. n + l |-> (both \o own)[i]]
          /\ \A i \in 1 .. n : (both \o own)[i] = both[i]
          /\ \A i \in 1 .. l : (both \o own)[n + i] = own[i]
      BY <2>2, Joins
    <3> QED
      BY <2>3, <3>1, Zenon
  <2>5. n + l = t - k
    BY <1>13, <2>1
  <2> QED
    BY <2>1, <2>4, <2>5
<1>16. ASSUME NEW i \in 1 .. t - k
       PROVE  walk[i].version = k + i /\ walk[i].event.transaction = S[k + i].commit
  <2>1. CASE i <= c - k
    <3>1. i \in 1 .. c - k
      BY <1>13, <2>1
    <3> QED
      BY <1>9, <1>14, <1>15, <3>1
  <2>2. CASE ~(i <= c - k)
    <3>1. PICK h : h = i - (c - k)
      OBVIOUS
    <3>2. h \in 1 .. t - c /\ (c - k) + h = i /\ c + h = k + i
      BY <1>2, <1>4, <1>13, <2>2, <3>1
    <3>3. walk[i] = mem[h]
      BY <1>14, <1>15, <3>2
    <3> QED
      BY <1>10, <3>2, <3>3
  <2> QED
    BY <2>1, <2>2
<1> QED
  BY <1>15, <1>16, Zenon DEF Whole

-----------------------------------------------------------------------------
(* Sequences of operations.                                                *)

LEMMA PathNone ==
  ASSUME NEW S, NEW t \in Int, NEW k \in Int
  PROVE  Path(<< >>, S, t, k, t, k)
<1>1. PICK a, c : a = [i \in 0 .. 0 |-> t] /\ c = [i \in 0 .. 0 |-> k]
  OBVIOUS
<1>2. a \in [0 .. 0 -> Int] /\ c \in [0 .. 0 -> Int] /\ a[0] = t /\ c[0] = k
      /\ \A i \in 0 .. 0 : t <= a[i] /\ a[i] <= t /\ k <= c[i] /\ c[i] <= k
  BY <1>1
<1>3. Len(<< >>) = 0 /\ << >> \in Seq(AllOps)
  OBVIOUS
<1>4. Steps(<< >>, S, a, c)
  BY <1>3 DEF Steps
<1> QED
  BY <1>2, <1>3, <1>4 DEF Path

LEMMA PathOne ==
  ASSUME NEW S, NEW t \in Int, NEW k \in Int, NEW u \in Int, NEW j \in Int, t <= u, k <= j,
         NEW op \in AllOps, OpLeads(op, S, t, k, u, j)
  PROVE  Path(<<op>>, S, t, k, u, j)
<1>1. PICK a, c : /\ a = [i \in 0 .. 1 |-> IF i = 0 THEN t ELSE u]
                  /\ c = [i \in 0 .. 1 |-> IF i = 0 THEN k ELSE j]
  OBVIOUS
<1>2. a \in [0 .. 1 -> Int] /\ c \in [0 .. 1 -> Int] /\ a[0] = t /\ c[0] = k /\ a[1] = u /\ c[1] = j
      /\ \A i \in 0 .. 1 : t <= a[i] /\ a[i] <= u /\ k <= c[i] /\ c[i] <= j
  BY <1>1
<1>3. Len(<<op>>) = 1 /\ <<op>> \in Seq(AllOps) /\ <<op>>[1] = op
  OBVIOUS
<1>4. Steps(<<op>>, S, a, c)
  <2>1. ASSUME NEW i \in 1 .. 1 PROVE OpLeads(<<op>>[i], S, a[i - 1], c[i - 1], a[i], c[i])
    <3>1. i = 1 /\ i - 1 = 0
      OBVIOUS
    <3> QED
      BY <1>2, <1>3, <3>1
  <2> QED
    BY <1>3, <2>1 DEF Steps
<1> QED
  BY <1>2, <1>3, <1>4 DEF Path

LEMMA PathJoin ==
  ASSUME NEW S, NEW t \in Int, NEW k \in Int, NEW u \in Int, NEW j \in Int, NEW w \in Int,
         NEW h \in Int, NEW ops, NEW more, Path(ops, S, t, k, u, j), Path(more, S, u, j, w, h)
  PROVE  Path(ops \o more, S, t, k, w, h)
<1>1. PICK n, l : n = Len(ops) /\ l = Len(more)
  OBVIOUS
<1>2. ops \in Seq(AllOps) /\ more \in Seq(AllOps) /\ n \in Nat /\ l \in Nat
  BY <1>1 DEF Path
<1>3. PICK all : all = ops \o more
  OBVIOUS
<1>4. /\ all \in Seq(AllOps) /\ Len(all) = n + l
      /\ \A i \in 1 .. n + l : all[i] = IF i <= n THEN ops[i] ELSE more[i - n]
  BY <1>1, <1>2, <1>3, ConcatProperties
<1>5. PICK a \in [0 .. n -> Int], c \in [0 .. n -> Int] :
        /\ a[0] = t /\ c[0] = k /\ a[n] = u /\ c[n] = j
        /\ \A i \in 0 .. n : t <= a[i] /\ a[i] <= u /\ k <= c[i] /\ c[i] <= j
        /\ \A i \in 1 .. n : OpLeads(ops[i], S, a[i - 1], c[i - 1], a[i], c[i])
  BY <1>1 DEF Path, Steps
<1>6. PICK b \in [0 .. l -> Int], e \in [0 .. l -> Int] :
        /\ b[0] = u /\ e[0] = j /\ b[l] = w /\ e[l] = h
        /\ \A i \in 0 .. l : u <= b[i] /\ b[i] <= w /\ j <= e[i] /\ e[i] <= h
        /\ \A i \in 1 .. l : OpLeads(more[i], S, b[i - 1], e[i - 1], b[i], e[i])
  BY <1>1 DEF Path, Steps
<1>7. PICK f, g : /\ f = [i \in 0 .. n + l |-> IF i <= n THEN a[i] ELSE b[i - n]]
                  /\ g = [i \in 0 .. n + l |-> IF i <= n THEN c[i] ELSE e[i - n]]
  OBVIOUS
<1>8. t <= u /\ k <= j /\ u <= w /\ j <= h
  <2>1. 0 \in 0 .. n /\ 0 \in 0 .. l
    BY <1>2
  <2> QED
    BY <1>5, <1>6, <2>1
<1>9. ASSUME NEW i \in 0 .. n + l
      PROVE  /\ f[i] \in Int /\ g[i] \in Int
             /\ t <= f[i] /\ f[i] <= w /\ k <= g[i] /\ g[i] <= h
  <2>1. CASE i <= n
    <3>1. i \in 0 .. n /\ f[i] = a[i] /\ g[i] = c[i]
      BY <1>2, <1>7, <2>1
    <3>2. a[i] \in Int /\ c[i] \in Int /\ t <= a[i] /\ a[i] <= u /\ k <= c[i] /\ c[i] <= j
      BY <1>5, <3>1
    <3> QED
      BY <1>8, <3>1, <3>2
  <2>2. CASE ~(i <= n)
    <3>1. i - n \in 0 .. l /\ f[i] = b[i - n] /\ g[i] = e[i - n]
      BY <1>2, <1>7, <2>2
    <3>2. /\ b[i - n] \in Int /\ e[i - n] \in Int
          /\ u <= b[i - n] /\ b[i - n] <= w /\ j <= e[i - n] /\ e[i - n] <= h
      BY <1>6, <3>1
    <3> QED
      BY <1>8, <3>1, <3>2
  <2> QED
    BY <2>1, <2>2
<1>10. f \in [0 .. n + l -> Int] /\ g \in [0 .. n + l -> Int]
  BY <1>7, <1>9
<1>11. f[0] = t /\ g[0] = k /\ f[n + l] = w /\ g[n + l] = h
  <2>1. f[0] = t /\ g[0] = k
    BY <1>2, <1>5, <1>7
  <2>2. CASE l = 0
    <3>1. n + l \in 0 .. n + l /\ n + l = n
      BY <1>2, <2>2
    <3> QED
      BY <1>5, <1>6, <1>7, <2>1, <2>2, <3>1
  <2>3. CASE l # 0
    <3>1. n + l \in 0 .. n + l /\ ~(n + l <= n) /\ (n + l) - n = l
      BY <1>2, <2>3
    <3> QED
      BY <1>6, <1>7, <2>1, <3>1
  <2> QED
    BY <2>2, <2>3
<1>12. ASSUME NEW i \in 1 .. n + l PROVE OpLeads(all[i], S, f[i - 1], g[i - 1], f[i], g[i])
  <2>1. CASE i <= n
    <3>1. i \in 1 .. n /\ i \in 0 .. n + l /\ i - 1 \in 0 .. n + l /\ i - 1 <= n
      BY <1>2, <2>1
    <3>2. f[i] = a[i] /\ g[i] = c[i] /\ f[i - 1] = a[i - 1] /\ g[i - 1] = c[i - 1]
      BY <1>7, <2>1, <3>1
    <3>3. all[i] = ops[i]
      BY <1>4, <2>1
    <3> QED
      BY <1>5, <3>1, <3>2, <3>3
  <2>2. CASE ~(i <= n)
    <3>1. PICK y : y = i - n
      OBVIOUS
    <3>2. y \in 1 .. l /\ i \in 0 .. n + l /\ i - 1 \in 0 .. n + l /\ (i - 1) - n = y - 1
      BY <1>2, <2>2, <3>1
    <3>3. f[i] = b[y] /\ g[i] = e[y]
      BY <1>7, <2>2, <3>1, <3>2
    <3>4. f[i - 1] = b[y - 1] /\ g[i - 1] = e[y - 1]
      <4>1. CASE i - 1 <= n
        <5>1. i - 1 = n /\ y - 1 = 0
          BY <1>2, <2>2, <3>1, <4>1
        <5> QED
          BY <1>5, <1>6, <1>7, <3>2, <5>1
      <4>2. CASE ~(i - 1 <= n)
        BY <1>7, <3>2, <4>2
      <4> QED
        BY <4>1, <4>2
    <3>5. all[i] = more[y]
      BY <1>4, <2>2, <3>1
    <3> QED
      BY <1>6, <3>2, <3>3, <3>4, <3>5
  <2> QED
    BY <2>1, <2>2
<1>13. Path(all, S, t, k, w, h)
  <2>1. Steps(all, S, f, g)
    BY <1>4, <1>12 DEF Steps
  <2> QED
    BY <1>4, <1>9, <1>10, <1>11, <2>1 DEF Path
<1> QED
  BY <1>3, <1>13

LEMMA PathSame ==
  ASSUME NEW S, NEW R, NEW t \in Int, NEW k, NEW u \in Int, NEW j, NEW m, NEW ops, t >= -1,
         Path(ops, S, t, k, u, j), Agree(S, R, u, m)
  PROVE  Path(ops, R, t, k, u, j)
<1>1. PICK n : n = Len(ops)
  OBVIOUS
<1>2. PICK a \in [0 .. n -> Int], c \in [0 .. n -> Int] :
        /\ a[0] = t /\ c[0] = k /\ a[n] = u /\ c[n] = j
        /\ \A i \in 0 .. n : t <= a[i] /\ a[i] <= u /\ k <= c[i] /\ c[i] <= j
        /\ \A i \in 1 .. n : OpLeads(ops[i], S, a[i - 1], c[i - 1], a[i], c[i])
  BY <1>1 DEF Path, Steps
<1>3. n \in Nat
  BY <1>1 DEF Path
<1>4. ASSUME NEW i \in 1 .. n PROVE OpLeads(ops[i], R, a[i - 1], c[i - 1], a[i], c[i])
  <2>1. PICK op, x, y, z, w : op = ops[i] /\ x = a[i - 1] /\ y = c[i - 1] /\ z = a[i] /\ w = c[i]
    OBVIOUS
  <2>2. OpLeads(op, S, x, y, z, w)
    BY <1>2, <2>1
  <2>3. x \in Int /\ z \in Int /\ z <= u
    BY <1>2, <1>3, <2>1
  <2>4. ASSUME NEW e, EventFor(e, S, z), x \in Nat, z = x + 1 PROVE EventFor(e, R, z)
    <3>1. z \in 1 .. u
      BY <2>3, <2>4
    <3> QED
      BY <2>4, <3>1, SameEvent
  <2>5. ASSUME z = 0 PROVE S[0].entity = R[0].entity
    <3>1. 0 \in 0 .. u
      BY <2>3, <2>5
    <3> QED
      BY <3>1 DEF Agree
  <2>6. OpLeads(op, R, x, y, z, w)
    BY <2>2, <2>4, <2>5 DEF OpLeads
  <2> QED
    BY <2>1, <2>6
<1> QED
  BY <1>1, <1>2, <1>4 DEF Path, Steps

LEMMA AnyStamp ==
  ASSUME NEW S, NEW t, NEW k, NEW x, NEW y, NEW p, NEW d, Rec(d, S, t, k, t, x, p)
  PROVE  Rec(d, S, t, k, t, y, p)
<1>1. \A v : v \notin Later(k, t) + 1 .. t
  BY DEF Rec, Ordered, Later
<1> QED
  BY <1>1 DEF Rec

-----------------------------------------------------------------------------
(* The inductive invariant.  T and K give, for each sequence number, the   *)
(* current version (-1 before the entity exists) and the oldest one kept;  *)
(* every root, record and log entry stands for the versions of some        *)
(* sequence number.                                                        *)

Growing(T, K, l) ==
  /\ T \in [0 .. l -> Int] /\ K \in [0 .. l -> Int]
  /\ \A n \in 0 .. l : /\ T[n] >= -1 /\ K[n] >= 0
                       /\ T[n] < 0 => K[n] = 0
                       /\ T[n] >= 0 => K[n] <= T[n]
  /\ \A a, b \in 0 .. l : a <= b => T[a] <= T[b] /\ K[a] <= K[b]

Committed(S, T, l) ==
  /\ \A v : v \in DOMAIN S <=> v \in 0 .. T[l]
  /\ T[l] < 0 => S = << >>
  /\ Told(S, T[l])
  /\ \A n \in 0 .. l : \A v \in 0 .. T[n] : S[v].commit \in 1 .. n
  /\ \A n \in 1 .. l : \A v \in T[n - 1] + 1 .. T[n] : S[v].commit = n

RootIs(r, S, T, K, l) ==
  /\ r.gen \in Nat /\ r.lsn \in 0 .. l
  /\ IF T[r.lsn] < 0 THEN r.entity = Absent ELSE Image(r, S, T[r.lsn], K[r.lsn])

(* A published record of sequence number a, or none if nothing changed     *)
(* since s; its disk is no newer than the root of number r.                *)
RecordIs(d, S, T, K, a, s, r) ==
  IF d = Absent THEN T[a] = T[s] /\ K[a] = K[s]
  ELSE T[a] >= 0 /\ \E p \in -1 .. T[r] : Rec(d, S, T[a], K[a], T[a], 0, p)

JobIs(j, later, S, T, K, l, r) ==
  \/ j = Absent
  \/ /\ j.gen \in Nat /\ j.lsn \in r .. l
     /\ RecordIs(j.data, S, T, K, j.lsn, r, r)
     /\ RecordIs(later, S, T, K, l, j.lsn, r)

LogAt(ops, S, T, K, n) == T[n] >= 0 /\ Path(ops, S, T[n - 1], K[n - 1], T[n], K[n])

LogIs(log, S, T, K, l, o) ==
  /\ \A n \in DOMAIN log : n \in 1 .. l /\ LogAt(log[n], S, T, K, n)
  /\ \A n \in o + 1 .. l : n \notin DOMAIN log => T[n] = T[n - 1] /\ K[n] = K[n - 1]

(* The open transaction leads from the committed versions to t and k.      *)
StagedIs(x, S, T, K, l, r, t, k) ==
  /\ DOMAIN x = {"open", "data", "base", "gen", "view", "ops", "asked", "truth", "kept"}
  /\ x.base \in 0 .. l /\ T[x.base] = T[l] /\ K[x.base] = K[l]
  /\ Stands(x.view, S, T[l], K[l], T[l], x.base + 1, T[r])
  /\ t \in Int /\ k \in Int /\ T[l] <= t /\ K[l] <= k /\ x.kept = k
  /\ \A v : v \in DOMAIN x.truth <=> v \in 0 .. t
  /\ \A v \in T[l] + 1 .. t : DOMAIN x.truth[v] = {"entity", "commit"}
  /\ Agree(S, x.truth, T[l], T[l]) /\ Told(x.truth, t)
  /\ Path(x.ops, x.truth, T[l], K[l], t, k)
  /\ IF x.data = Absent THEN x.ops = << >> /\ t = T[l] /\ k = K[l]
     ELSE t >= 0 /\ \E p \in -1 .. T[r] : Rec(x.data, x.truth, t, k, T[l], x.base + 1, p)

Holds(T, K, o, r, t, k) ==
  /\ lsn \in Nat /\ Growing(T, K, lsn) /\ Committed(truth, T, lsn) /\ kept = K[lsn]
  /\ (roots = <<r>> /\ o = r) \/ roots = <<o, r>>
  /\ RootIs(o, truth, T, K, lsn) /\ RootIs(r, truth, T, K, lsn) /\ o.lsn <= r.lsn
  /\ RecordIs(overlay, truth, T, K, lsn, r.lsn, r.lsn)
  /\ JobIs(job, tail, truth, T, K, lsn, r.lsn)
  /\ LogIs(wal, truth, T, K, lsn, o.lsn)
  /\ staged.open => StagedIs(staged, truth, T, K, lsn, r.lsn, t, k)
  /\ options \in [interval : Intervals, retain : Retentions]

HistoryInv == \E T, K, o, r, t, k : Holds(T, K, o, r, t, k)

-----------------------------------------------------------------------------
(* Recovery.                                                               *)

ReplayedStep(f, root, log, n) ==
  IF n = root.lsn THEN RootEntity(root)
  ELSE IF n \in DOMAIN log THEN Seal(Run(f[n - 1], log[n], n - 1))
  ELSE f[n - 1]
ReplayedOver(f, root, log, last) ==
  f = [n \in root.lsn .. last |-> ReplayedStep(f, root, log, n)]

LEMMA ReplayedIsChosen ==
  ASSUME NEW root, NEW log
  PROVE  Replayed(root, log) = (CHOOSE f : ReplayedOver(f, root, log, lsn))[lsn]
  BY Zenon DEF Replayed, ReplayedOver, ReplayedStep

LEMMA ReplayedIsThere ==
  ASSUME NEW root, NEW log, NEW first \in Nat, first = root.lsn, NEW last \in Nat, first <= last
  PROVE  \E f : ReplayedOver(f, root, log, last)
<1> DEFINE Upto(g, n) == \A i \in first .. n : g[i] = ReplayedStep(g, root, log, i)
           Bad == {n \in first .. last : ~ \E g : Upto(g, n)}
<1>1. Bad = {}
  <2>1. SUFFICES ASSUME Bad # {} PROVE FALSE
    OBVIOUS
  <2>2. PICK n \in Bad : \A y \in Bad : n <= y
    <3>1. Bad \subseteq Nat
      OBVIOUS
    <3> HIDE DEF Bad
    <3> QED
      BY <2>1, <3>1, LeastNatural
  <2>3. n \in first .. last /\ ~ \E g : Upto(g, n)
    OBVIOUS
  <2>4. n # first
    <3>1. Upto([i \in first .. first |-> RootEntity(root)], first)
      BY DEF ReplayedStep
    <3> QED
      BY <2>3, <3>1
  <2>5. n - 1 \in first .. last /\ ~(n <= n - 1)
    BY <2>3, <2>4
  <2>6. PICK g : Upto(g, n - 1)
    BY <2>2, <2>5
  <2>7. PICK e : e = ReplayedStep(g, root, log, n)
    OBVIOUS
  <2>8. PICK h : h = [i \in first .. n |-> IF i = n THEN e ELSE g[i]]
    OBVIOUS
  <2>9. ASSUME NEW i \in first .. n PROVE h[i] = ReplayedStep(h, root, log, i)
    <3>1. CASE i = n
      <4>1. h[n] = e /\ h[n - 1] = g[n - 1]
        BY <2>3, <2>4, <2>8
      <4> QED
        BY <2>7, <3>1, <4>1 DEF ReplayedStep
    <3>2. CASE i # n
      <4>1. i \in first .. n - 1 /\ h[i] = g[i] /\ (i # first => h[i - 1] = g[i - 1])
        BY <2>3, <2>8, <3>2
      <4>2. g[i] = ReplayedStep(g, root, log, i)
        BY <2>6, <4>1
      <4> QED
        BY <4>1, <4>2 DEF ReplayedStep
    <3> QED
      BY <3>1, <3>2
  <2> QED
    BY <2>3, <2>9
<1>2. PICK g : Upto(g, last)
  <2>1. last \in first .. last
    OBVIOUS
  <2> QED
    BY <1>1, <2>1
<1>3. PICK h : h = [i \in first .. last |-> g[i]]
  OBVIOUS
<1>4. ASSUME NEW i \in first .. last PROVE g[i] = ReplayedStep(h, root, log, i)
  <2>1. g[i] = ReplayedStep(g, root, log, i)
    BY <1>2
  <2>2. i # first => h[i - 1] = g[i - 1]
    BY <1>3
  <2> QED
    BY <2>1, <2>2 DEF ReplayedStep
<1>5. [i \in first .. last |-> g[i]] = [i \in first .. last |-> ReplayedStep(h, root, log, i)]
  BY <1>4
<1>6. ReplayedOver(h, root, log, last)
  BY <1>3, <1>5, Zenon DEF ReplayedOver
<1> QED
  BY <1>6

(* A record read through a root of sequence number n.                      *)
LEMMA RootStands ==
  ASSUME NEW S, NEW T, NEW K, NEW l \in Nat, NEW r, Growing(T, K, l), Told(S, T[l]),
         RootIs(r, S, T, K, l), NEW y
  PROVE  Stands(RootEntity(r), S, T[r.lsn], K[r.lsn], T[r.lsn], y, T[r.lsn])
<1>1. PICK t, k : t = T[r.lsn] /\ k = K[r.lsn]
  OBVIOUS
<1>2. r.lsn \in 0 .. l /\ l \in 0 .. l /\ r.gen \in Nat
  BY DEF RootIs
<1>3. t \in Int /\ k \in Int /\ t >= -1 /\ (t < 0 => k = 0) /\ (t >= 0 => k \in 0 .. t)
      /\ T[l] \in Int /\ t <= T[l]
  BY <1>1, <1>2 DEF Growing
<1>4. CASE t < 0
  <2>1. r.entity = Absent
    BY <1>1, <1>4 DEF RootIs
  <2>2. RootEntity(r) = Absent
    BY <2>1 DEF RootEntity
  <2> QED
    BY <1>1, <1>3, <1>4, <2>2 DEF Stands
<1>5. CASE ~(t < 0)
  <2>1. Image(r, S, t, k)
    BY <1>1, <1>5 DEF RootIs
  <2>2. Told(S, t)
    BY <1>3 DEF Told
  <2>3. t \in Nat /\ k \in 0 .. t /\ t \in -1 .. t
    BY <1>3, <1>5
  <2>4. Rec(RootEntity(r), S, t, k, t, y, t)
    BY <1>2, <2>1, <2>2, <2>3, RootEntityStands
  <2> QED
    BY <1>1, <1>5, <2>3, <2>4 DEF Stands
<1> QED
  BY <1>4, <1>5

LEMMA ReplayedStands ==
  ASSUME NEW S, NEW T, NEW K, lsn \in Nat, Growing(T, K, lsn), Committed(S, T, lsn),
         NEW root, RootIs(root, S, T, K, lsn), NEW o \in Int, o <= root.lsn,
         NEW w, LogIs(w, S, T, K, lsn, o), NEW log, log = From(w, root.lsn + 1)
  PROVE  Stands(Replayed(root, log), S, T[lsn], K[lsn], T[lsn], lsn + 1, T[root.lsn])
<1>1. PICK last \in Nat : last = lsn
  OBVIOUS
<1>2. PICK first : first = root.lsn
  OBVIOUS
<1>3. first \in Nat /\ first <= last /\ o <= first
  BY <1>1, <1>2 DEF RootIs
<1>4. PICK f : f = CHOOSE g : ReplayedOver(g, root, log, last)
  OBVIOUS
<1>5. ReplayedOver(f, root, log, last)
  BY <1>2, <1>3, <1>4, ReplayedIsThere
<1>6. ASSUME NEW i \in first .. last PROVE f[i] = ReplayedStep(f, root, log, i)
  <2> DEFINE g == [n \in first .. last |-> ReplayedStep(f, root, log, n)]
  <2>1. f = g
    BY <1>2, <1>5, Zenon DEF ReplayedOver
  <2>2. g[i] = ReplayedStep(f, root, log, i)
    OBVIOUS
  <2> QED
    BY <2>1, <2>2, Zenon
<1>7. Growing(T, K, last) /\ Committed(S, T, last) /\ LogIs(w, S, T, K, last, o)
      /\ RootIs(root, S, T, K, last)
  BY <1>1
<1> DEFINE Good(i) == Stands(f[i], S, T[i], K[i], T[i], i + 1, T[first])
           Bad == {i \in first .. last : ~Good(i)}
<1>8. T[first] \in Int /\ T[first] >= -1
  BY <1>3, <1>7 DEF Growing
<1>9. Bad = {}
  <2>1. SUFFICES ASSUME Bad # {} PROVE FALSE
    OBVIOUS
  <2>2. PICK i \in Bad : \A y \in Bad : i <= y
    <3>1. Bad \subseteq Nat
      BY <1>3
    <3> HIDE DEF Bad
    <3> QED
      BY <2>1, <3>1, LeastNatural
  <2>3. i \in first .. last /\ ~Good(i)
    OBVIOUS
  <2> HIDE DEF Bad, Good
  <2>4. CASE i = first
    <3>1. f[first] = RootEntity(root)
      BY <1>2, <1>6, <2>3, <2>4 DEF ReplayedStep
    <3>2. Told(S, T[last])
      BY <1>7 DEF Committed
    <3>3. Stands(RootEntity(root), S, T[first], K[first], T[first], first + 1, T[first])
      BY <1>2, <1>7, <3>2, RootStands
    <3> QED
      BY <2>3, <2>4, <3>1, <3>3 DEF Good
  <2>5. CASE i # first
    <3>1. PICK h : h = i - 1
      OBVIOUS
    <3>2. h \in Nat /\ h \in first .. last /\ h \in 0 .. last /\ i \in 0 .. last /\ i \in 1 .. last
          /\ i \in o + 1 .. last /\ h + 1 = i /\ ~(i <= h) /\ h <= i /\ last \in 0 .. last
          /\ i <= last
      BY <1>3, <2>3, <2>5, <3>1
    <3>3. Good(h)
      BY <2>2, <3>2 DEF Bad
    <3>4. Stands(f[h], S, T[h], K[h], T[h], h + 1, T[first])
      BY <3>3 DEF Good
    <3>5. T[h] \in Int /\ T[i] \in Int /\ T[h] <= T[i] /\ T[i] <= T[last] /\ T[last] \in Int
          /\ T[h] >= -1
      BY <1>7, <3>2 DEF Growing
    <3>6. i \in DOMAIN log <=> i \in DOMAIN w
      <4>1. i >= root.lsn + 1
        BY <1>2, <1>3, <2>3, <2>5
      <4>2. DOMAIN log = {v \in DOMAIN w : v >= root.lsn + 1}
        BY DEF From, Restrict
      <4> QED
        BY <4>1, <4>2
    <3>7. CASE i \in DOMAIN log
      <4>1. log[i] = w[i]
        BY <3>7 DEF From, Restrict
      <4>2. T[i] >= 0 /\ Path(log[i], S, T[h], K[h], T[i], K[i])
        BY <1>7, <3>1, <3>6, <3>7, <4>1 DEF LogIs, LogAt
      <4>3. Told(S, T[i])
        BY <1>7, <3>5 DEF Committed, Told
      <4>4. Stands(Run(f[h], log[i], h), S, T[i], K[i], T[h], h + 1, T[first])
        BY <1>8, <3>2, <3>4, <3>5, <4>2, <4>3, RunStands
      <4>5. PICK p \in -1 .. T[first] :
              Rec(Run(f[h], log[i], h), S, T[i], K[i], T[h], h + 1, p)
        BY <3>5, <4>2, <4>4 DEF Stands
      <4>6. \A v \in T[h] + 1 .. T[i] : v \in Nat => S[v].commit = h + 1
        BY <1>7, <3>1, <3>2 DEF Committed
      <4>7. Rec(Seal(Run(f[h], log[i], h)), S, T[i], K[i], T[i], i + 1, p)
        BY <4>5, <4>6, SealStands
      <4>8. f[i] = Seal(Run(f[h], log[i], h))
        BY <1>2, <1>6, <2>3, <2>5, <3>1, <3>7 DEF ReplayedStep
      <4>9. ~(T[i] < 0)
        BY <3>5, <4>2
      <4>10. Good(i)
        BY <4>7, <4>8, <4>9 DEF Good, Stands
      <4> QED
        BY <2>3, <4>10
    <3>8. CASE i \notin DOMAIN log
      <4>1. f[i] = f[h]
        BY <1>2, <1>6, <2>3, <2>5, <3>1, <3>8 DEF ReplayedStep
      <4>2. T[i] = T[h] /\ K[i] = K[h]
        BY <1>7, <3>1, <3>2, <3>6, <3>8 DEF LogIs
      <4>3. Stands(f[i], S, T[i], K[i], T[i], h + 1, T[first])
        BY <3>4, <4>1, <4>2
      <4>4. CASE T[i] < 0
        BY <2>3, <4>3, <4>4 DEF Stands, Good
      <4>5. CASE ~(T[i] < 0)
        <5>1. PICK p \in -1 .. T[first] : Rec(f[i], S, T[i], K[i], T[i], h + 1, p)
          BY <4>3, <4>5 DEF Stands
        <5>2. Rec(f[i], S, T[i], K[i], T[i], i + 1, p)
          BY <5>1, AnyStamp
        <5>3. Good(i)
          BY <4>5, <5>2 DEF Stands, Good
        <5> QED
          BY <2>3, <5>3
      <4> QED
        BY <4>4, <4>5
    <3> QED
      BY <3>7, <3>8
  <2> QED
    BY <2>4, <2>5
<1>10. Good(last)
  <2>1. last \in first .. last
    BY <1>3
  <2> HIDE DEF Good
  <2> QED
    BY <1>9, <2>1
<1>11. Replayed(root, log) = f[last]
  BY <1>1, <1>4, ReplayedIsChosen
<1> QED
  BY <1>1, <1>2, <1>10, <1>11

(* A log that is silent since a root: nothing changed.                     *)
Silent(log, first) == \A n \in DOMAIN log : ~(n >= first + 1)

LEMMA SilentLog ==
  ASSUME NEW S, NEW T, NEW K, NEW l \in Nat, Growing(T, K, l), NEW o \in Int, NEW w,
         LogIs(w, S, T, K, l, o), NEW first \in 0 .. l, o <= first, Silent(w, first)
  PROVE  T[l] = T[first] /\ K[l] = K[first]
<1> DEFINE Bad == {n \in first .. l : ~(T[n] = T[first] /\ K[n] = K[first])}
<1>1. Bad = {}
  <2>1. SUFFICES ASSUME Bad # {} PROVE FALSE
    OBVIOUS
  <2>2. PICK n \in Bad : \A y \in Bad : n <= y
    <3>1. Bad \subseteq Nat
      OBVIOUS
    <3> HIDE DEF Bad
    <3> QED
      BY <2>1, <3>1, LeastNatural
  <2>3. n \in first .. l /\ ~(T[n] = T[first] /\ K[n] = K[first])
    OBVIOUS
  <2>4. n # first
    BY <2>3
  <2>5. n - 1 \in first .. l /\ ~(n <= n - 1) /\ n \in o + 1 .. l /\ n >= first + 1
    BY <2>3, <2>4
  <2>6. n \notin DOMAIN w
    BY <2>5 DEF Silent
  <2>7. T[n] = T[n - 1] /\ K[n] = K[n - 1]
    BY <2>5, <2>6 DEF LogIs
  <2>8. T[n - 1] = T[first] /\ K[n - 1] = K[first]
    BY <2>2, <2>5
  <2> QED
    BY <2>3, <2>7, <2>8
<1>2. l \in first .. l
  OBVIOUS
<1> QED
  BY <1>1, <1>2

-----------------------------------------------------------------------------
(* One more transaction: what stands for earlier ones still does.          *)

Extended(S, T, K, l, R, U, L) ==
  /\ Agree(S, R, T[l], T[l])
  /\ \A n \in 0 .. l : U[n] = T[n] /\ L[n] = K[n]

Longer(U, T, l, t) == U = [n \in 0 .. l + 1 |-> IF n <= l THEN T[n] ELSE t]

LEMMA Extends ==
  ASSUME NEW T, NEW K, NEW l \in Nat, Growing(T, K, l), NEW t \in Int, NEW k \in Int,
         T[l] <= t, K[l] <= k, t < 0 => k = 0, t >= 0 => k <= t,
         NEW U, Longer(U, T, l, t), NEW L, Longer(L, K, l, k)
  PROVE  /\ Growing(U, L, l + 1) /\ U[l + 1] = t /\ L[l + 1] = k
         /\ \A n \in 0 .. l : U[n] = T[n] /\ L[n] = K[n]
<1>1. \A n \in 0 .. l : U[n] = T[n] /\ L[n] = K[n]
  BY DEF Longer
<1>2. U[l + 1] = t /\ L[l + 1] = k
  BY DEF Longer
<1>3. l \in 0 .. l /\ \A n \in 0 .. l + 1 : n \in 0 .. l \/ n = l + 1
  OBVIOUS
<1>4. T[l] >= -1 /\ K[l] >= 0 /\ T[l] \in Int /\ K[l] \in Int
  BY <1>3 DEF Growing
<1>5. ASSUME NEW n \in 0 .. l + 1
      PROVE  /\ U[n] \in Int /\ L[n] \in Int /\ U[n] >= -1 /\ L[n] >= 0
             /\ U[n] < 0 => L[n] = 0
             /\ U[n] >= 0 => L[n] <= U[n]
  <2>1. CASE n \in 0 .. l
    BY <1>1, <2>1 DEF Growing
  <2>2. CASE n = l + 1
    BY <1>2, <1>4, <2>2
  <2> QED
    BY <1>3, <2>1, <2>2
<1>6. ASSUME NEW a \in 0 .. l + 1, NEW b \in 0 .. l + 1, a <= b
      PROVE  U[a] <= U[b] /\ L[a] <= L[b]
  <2>1. CASE b \in 0 .. l
    <3>1. a \in 0 .. l
      BY <1>6, <2>1
    <3>2. U[a] = T[a] /\ L[a] = K[a] /\ U[b] = T[b] /\ L[b] = K[b]
      BY <1>1, <2>1, <3>1
    <3> QED
      BY <1>6, <2>1, <3>1, <3>2 DEF Growing
  <2>2. CASE b = l + 1 /\ a = l + 1
    BY <1>2, <2>2
  <2>3. CASE b = l + 1 /\ a \in 0 .. l
    <3>1. T[a] <= T[l] /\ K[a] <= K[l] /\ T[a] \in Int /\ K[a] \in Int
      BY <1>3, <2>3 DEF Growing
    <3>2. U[a] = T[a] /\ L[a] = K[a]
      BY <1>1, <2>3
    <3> QED
      BY <1>2, <1>4, <2>3, <3>1, <3>2
  <2> QED
    BY <1>3, <2>1, <2>2, <2>3
<1>7. U \in [0 .. l + 1 -> Int] /\ L \in [0 .. l + 1 -> Int]
  BY <1>5 DEF Longer
<1>8. Growing(U, L, l + 1)
  BY <1>5, <1>6, <1>7 DEF Growing
<1> QED
  BY <1>1, <1>2, <1>8

LEMMA AgreeEarlier ==
  ASSUME NEW S, NEW T, NEW K, NEW l \in Nat, Growing(T, K, l), NEW R, Agree(S, R, T[l], T[l]),
         NEW n \in 0 .. l
  PROVE  Agree(S, R, T[n], T[n]) /\ T[n] \in Int /\ T[n] <= T[l]
<1>1. l \in 0 .. l /\ T[n] \in Int /\ T[l] \in Int /\ T[n] <= T[l]
  BY DEF Growing
<1>2. \A v \in 0 .. T[n] : v \in 0 .. T[l]
  BY <1>1
<1> QED
  BY <1>1, <1>2 DEF Agree

LEMMA RootGrows ==
  ASSUME NEW S, NEW T, NEW K, NEW l \in Nat, Growing(T, K, l), NEW R, NEW U, NEW L,
         Extended(S, T, K, l, R, U, L), NEW r, RootIs(r, S, T, K, l)
  PROVE  RootIs(r, R, U, L, l + 1)
<1>1. PICK n \in 0 .. l : n = r.lsn
  BY DEF RootIs
<1>2. Agree(S, R, T[n], T[n]) /\ T[n] \in Int
  BY AgreeEarlier DEF Extended
<1>3. U[n] = T[n] /\ L[n] = K[n] /\ n \in 0 .. l + 1 /\ r.gen \in Nat
  BY DEF Extended, RootIs
<1>4. CASE T[n] < 0
  BY <1>1, <1>3, <1>4 DEF RootIs
<1>5. CASE ~(T[n] < 0)
  <2>1. Image(r, S, T[n], K[n])
    BY <1>1, <1>5 DEF RootIs
  <2>2. T[n] \in Nat /\ K[n] \in 0 .. T[n]
    BY <1>2, <1>5 DEF Growing
  <2>3. Image(r, R, T[n], K[n])
    BY <1>2, <2>1, <2>2, SameImage
  <2> QED
    BY <1>1, <1>3, <1>5, <2>3 DEF RootIs
<1> QED
  BY <1>4, <1>5

LEMMA RecordGrows ==
  ASSUME NEW S, NEW T, NEW K, NEW l \in Nat, Growing(T, K, l), NEW R, NEW U, NEW L,
         Extended(S, T, K, l, R, U, L), NEW d, NEW a \in 0 .. l, NEW s \in 0 .. l,
         NEW r \in 0 .. l, RecordIs(d, S, T, K, a, s, r)
  PROVE  RecordIs(d, R, U, L, a, s, r)
<1>1. /\ U[a] = T[a] /\ L[a] = K[a] /\ U[s] = T[s] /\ L[s] = K[s] /\ U[r] = T[r]
      /\ Agree(S, R, T[l], T[l])
  BY DEF Extended
<1>2. CASE d = Absent
  BY <1>1, <1>2 DEF RecordIs
<1>3. CASE d # Absent
  <2>1. PICK p \in -1 .. T[r] : Rec(d, S, T[a], K[a], T[a], 0, p)
    BY <1>3 DEF RecordIs
  <2>2. Agree(S, R, T[a], T[a])
    BY <1>1, AgreeEarlier
  <2>3. Rec(d, R, T[a], K[a], T[a], 0, p)
    BY <2>1, <2>2, SameRecord
  <2> QED
    BY <1>1, <1>3, <2>3 DEF RecordIs
<1> QED
  BY <1>2, <1>3

LEMMA LogGrows ==
  ASSUME NEW S, NEW T, NEW K, NEW l \in Nat, Growing(T, K, l), NEW R, NEW U, NEW L,
         Extended(S, T, K, l, R, U, L), NEW ops, NEW n \in 1 .. l, LogAt(ops, S, T, K, n)
  PROVE  LogAt(ops, R, U, L, n)
<1>1. n \in 0 .. l /\ n - 1 \in 0 .. l
  OBVIOUS
<1>2. /\ U[n] = T[n] /\ L[n] = K[n] /\ U[n - 1] = T[n - 1] /\ L[n - 1] = K[n - 1]
      /\ Agree(S, R, T[l], T[l])
  BY <1>1 DEF Extended
<1>3. Agree(S, R, T[n], T[n]) /\ T[n] \in Int
  BY <1>1, <1>2, AgreeEarlier
<1>4. T[n - 1] \in Int /\ T[n - 1] >= -1
  BY <1>1 DEF Growing
<1>5. Path(ops, R, T[n - 1], K[n - 1], T[n], K[n])
  BY <1>3, <1>4, PathSame DEF LogAt
<1> QED
  BY <1>2, <1>5 DEF LogAt

(* The published record, from memory or from the newest root.              *)
LEMMA LoadStands ==
  ASSUME NEW T, NEW K, NEW o, NEW r, NEW t, NEW k, Holds(T, K, o, r, t, k), NEW y
  PROVE  /\ Root = r
         /\ Stands(Load, truth, T[lsn], K[lsn], T[lsn], y, T[r.lsn])
<1>1. Root = r
  <2>1. CASE roots = <<r>>
    <3>1. Len(<<r>>) = 1 /\ <<r>>[1] = r
      OBVIOUS
    <3> QED
      BY <2>1, <3>1 DEF Root
  <2>2. CASE roots = <<o, r>>
    <3>1. Len(<<o, r>>) = 2 /\ <<o, r>>[2] = r
      OBVIOUS
    <3> QED
      BY <2>2, <3>1 DEF Root
  <2> QED
    BY <2>1, <2>2 DEF Holds
<1>2. lsn \in Nat /\ Growing(T, K, lsn) /\ RootIs(r, truth, T, K, lsn) /\ Told(truth, T[lsn])
      /\ RecordIs(overlay, truth, T, K, lsn, r.lsn, r.lsn)
  BY DEF Holds, Committed
<1>3. CASE overlay = Absent
  <2>1. T[lsn] = T[r.lsn] /\ K[lsn] = K[r.lsn]
    BY <1>2, <1>3 DEF RecordIs
  <2>2. Stands(RootEntity(r), truth, T[r.lsn], K[r.lsn], T[r.lsn], y, T[r.lsn])
    BY <1>2, RootStands
  <2>3. Load = RootEntity(r)
    BY <1>1, <1>3 DEF Load
  <2> QED
    BY <1>1, <2>1, <2>2, <2>3
<1>4. CASE overlay # Absent
  <2>1. PICK p \in -1 .. T[r.lsn] : Rec(overlay, truth, T[lsn], K[lsn], T[lsn], 0, p)
    BY <1>2, <1>4 DEF RecordIs
  <2>2. Rec(overlay, truth, T[lsn], K[lsn], T[lsn], y, p)
    BY <2>1, AnyStamp
  <2>3. ~(T[lsn] < 0)
    BY <1>2, <1>4 DEF RecordIs, Growing
  <2>4. Load = overlay
    BY <1>4 DEF Load
  <2> QED
    BY <1>1, <2>2, <2>3, <2>4 DEF Stands
<1> QED
  BY <1>3, <1>4

-----------------------------------------------------------------------------
(* Each action preserves the invariant.                                    *)

LEMMA InitHolds == Init => HistoryInv
<1>1. SUFFICES ASSUME Init PROVE HistoryInv
  OBVIOUS
<1>2. PICK T : T = [n \in 0 .. 0 |-> -1]
  OBVIOUS
<1>3. PICK K : K = [n \in 0 .. 0 |-> 0]
  OBVIOUS
<1>4. T[0] = -1 /\ K[0] = 0 /\ lsn = 0 /\ kept = 0 /\ truth = << >> /\ EmptyRoot.lsn = 0
      /\ EmptyRoot.gen = 0 /\ EmptyRoot.entity = Absent
  BY <1>1, <1>2, <1>3 DEF Init, EmptyRoot
<1>5. Growing(T, K, lsn)
  BY <1>2, <1>3, <1>4 DEF Growing
<1>6. Committed(truth, T, lsn)
  <2>1. \A n \in 0 .. 0 : T[n] = -1
    BY <1>2
  <2>2. \A n \in 1 .. 0 : FALSE
    OBVIOUS
  <2> QED
    BY <1>4, <2>1, <2>2 DEF Committed, Told
<1>7. RootIs(EmptyRoot, truth, T, K, lsn)
  BY <1>4 DEF RootIs
<1>8. RecordIs(overlay, truth, T, K, lsn, 0, 0) /\ JobIs(job, tail, truth, T, K, lsn, 0)
  BY <1>1, <1>4 DEF Init, RecordIs, JobIs
<1>9. LogIs(wal, truth, T, K, lsn, 0)
  BY <1>1, <1>4 DEF Init, LogIs
<1>10. Holds(T, K, EmptyRoot, EmptyRoot, 0, 0)
  BY <1>1, <1>4, <1>5, <1>6, <1>7, <1>8, <1>9 DEF Init, Holds, NoTransaction
<1> QED
  BY <1>10 DEF HistoryInv

LEMMA BeginHolds ==
  ASSUME NEW T, NEW K, NEW o, NEW r, NEW t, NEW k, Holds(T, K, o, r, t, k), Begin
  PROVE  HistoryInv'
<1>1. lsn \in Nat /\ Growing(T, K, lsn) /\ Committed(truth, T, lsn) /\ kept = K[lsn]
  BY DEF Holds
<1>2. T[lsn] \in Int /\ K[lsn] \in Int /\ lsn \in 0 .. lsn
  BY <1>1 DEF Growing
<1>3. Stands(Load, truth, T[lsn], K[lsn], T[lsn], lsn + 1, T[r.lsn])
  BY LoadStands
<1>4. PICK x : x = [open |-> TRUE, data |-> Absent, base |-> lsn, gen |-> Root.gen,
                    view |-> Load, ops |-> << >>, asked |-> 0, truth |-> truth, kept |-> kept]
  OBVIOUS
<1>5. /\ DOMAIN x = {"open", "data", "base", "gen", "view", "ops", "asked", "truth", "kept"}
      /\ x.base = lsn /\ x.view = Load /\ x.truth = truth /\ x.kept = kept /\ x.ops = << >>
      /\ x.data = Absent
  BY <1>4
<1>6. Path(<< >>, truth, T[lsn], K[lsn], T[lsn], K[lsn])
  BY <1>2, PathNone
<1>7. Agree(truth, truth, T[lsn], T[lsn])
  BY DEF Agree
<1>8. \A v : v \notin T[lsn] + 1 .. T[lsn]
  BY <1>2
<1>9. StagedIs(x, truth, T, K, lsn, r.lsn, T[lsn], K[lsn])
  BY <1>1, <1>2, <1>3, <1>5, <1>6, <1>7, <1>8 DEF StagedIs, Committed
<1>10. staged' = x
  BY <1>4 DEF Begin
<1>11. UNCHANGED <<roots, overlay, tail, job, lsn, wal, options, truth, kept>>
  BY DEF Begin
<1>12. Holds(T, K, o, r, T[lsn], K[lsn])'
  BY <1>9, <1>10, <1>11 DEF Holds
<1> QED
  BY <1>12 DEF HistoryInv

LEMMA AbortHolds ==
  ASSUME NEW T, NEW K, NEW o, NEW r, NEW t, NEW k, Holds(T, K, o, r, t, k), Abort
  PROVE  HistoryInv'
<1>1. Holds(T, K, o, r, t, k)'
  BY DEF Holds, Abort, NoTransaction
<1> QED
  BY <1>1 DEF HistoryInv

LEMMA CaptureHolds ==
  ASSUME NEW T, NEW K, NEW o, NEW r, NEW t, NEW k, Holds(T, K, o, r, t, k), Capture
  PROVE  HistoryInv'
<1>1. lsn \in Nat /\ r.lsn \in 0 .. lsn /\ r.gen \in Nat
      /\ RecordIs(overlay, truth, T, K, lsn, r.lsn, r.lsn)
  BY DEF Holds, RootIs
<1>2. Root = r
  BY LoadStands
<1>3. PICK j : j = [gen |-> r.gen + 1, lsn |-> lsn, data |-> overlay]
  OBVIOUS
<1>4. job' = j /\ tail' = Absent
      /\ UNCHANGED <<roots, overlay, lsn, staged, wal, options, truth, kept>>
  BY <1>2, <1>3 DEF Capture
<1>5. j.gen \in Nat /\ j.lsn \in r.lsn .. lsn /\ j.data = overlay /\ j.lsn = lsn
  BY <1>1, <1>3
<1>6. RecordIs(Absent, truth, T, K, lsn, lsn, r.lsn)
  BY DEF RecordIs
<1>7. JobIs(j, Absent, truth, T, K, lsn, r.lsn)
  BY <1>1, <1>5, <1>6 DEF JobIs
<1>8. Holds(T, K, o, r, t, k)'
  BY <1>4, <1>7 DEF Holds
<1> QED
  BY <1>8 DEF HistoryInv

LEMMA AbandonHolds ==
  ASSUME NEW T, NEW K, NEW o, NEW r, NEW t, NEW k, Holds(T, K, o, r, t, k), Abandon
  PROVE  HistoryInv'
<1>1. Holds(T, K, o, r, t, k)'
  BY DEF Holds, Abandon, JobIs
<1> QED
  BY <1>1 DEF HistoryInv

LEMMA OtherCommitHolds ==
  ASSUME NEW T, NEW K, NEW o, NEW r, NEW t, NEW k, Holds(T, K, o, r, t, k), OtherCommit
  PROVE  HistoryInv'
<1>1. lsn \in Nat /\ Growing(T, K, lsn) /\ Committed(truth, T, lsn) /\ kept = K[lsn]
      /\ r.lsn \in 0 .. lsn /\ o.lsn \in 0 .. lsn
  BY DEF Holds, RootIs
<1>2. PICK l : l = lsn
  OBVIOUS
<1>3. PICK U : Longer(U, T, l, T[l])
  BY DEF Longer
<1>4. PICK L : Longer(L, K, l, K[l])
  BY DEF Longer
<1>5. l \in Nat /\ Growing(T, K, l) /\ T[l] \in Int /\ K[l] \in Int /\ (T[l] < 0 => K[l] = 0)
      /\ (T[l] >= 0 => K[l] <= T[l]) /\ l \in 0 .. l
  BY <1>1, <1>2 DEF Growing
<1>6. /\ Growing(U, L, l + 1) /\ U[l + 1] = T[l] /\ L[l + 1] = K[l]
      /\ \A n \in 0 .. l : U[n] = T[n] /\ L[n] = K[n]
  <2>1. PICK u \in Int, j \in Int : u = T[l] /\ j = K[l]
    BY <1>5
  <2>2. T[l] <= u /\ K[l] <= j /\ (u < 0 => j = 0) /\ (u >= 0 => j <= u)
    BY <1>5, <2>1
  <2>3. Longer(U, T, l, u) /\ Longer(L, K, l, j)
    BY <1>3, <1>4, <2>1
  <2>4. /\ Growing(U, L, l + 1) /\ U[l + 1] = u /\ L[l + 1] = j
        /\ \A n \in 0 .. l : U[n] = T[n] /\ L[n] = K[n]
    BY <1>5, <2>2, <2>3, Extends
  <2> QED
    BY <2>1, <2>4
<1>7. Extended(truth, T, K, l, truth, U, L)
  BY <1>6 DEF Extended, Agree
<1>8. lsn' = l + 1 /\ UNCHANGED <<roots, overlay, tail, job, staged, wal, options, truth, kept>>
  BY <1>2 DEF OtherCommit
<1>9. RootIs(o, truth, U, L, l + 1) /\ RootIs(r, truth, U, L, l + 1)
  BY <1>2, <1>5, <1>7, RootGrows DEF Holds
<1>10. PICK z \in 0 .. l : z = r.lsn
  BY <1>1, <1>2
<1>11. U[l] = T[l] /\ L[l] = K[l] /\ U[z] = T[z]
  BY <1>5, <1>6
<1>12. RecordIs(overlay, truth, U, L, l + 1, z, z)
  <2>1. RecordIs(overlay, truth, T, K, l, z, z)
    BY <1>2, <1>10 DEF Holds
  <2>2. RecordIs(overlay, truth, U, L, l, z, z)
    BY <1>5, <1>7, <2>1, RecordGrows
  <2> QED
    BY <1>6, <1>11, <2>2 DEF RecordIs
<1>13. JobIs(job, tail, truth, U, L, l + 1, z)
  <2>1. JobIs(job, tail, truth, T, K, l, z)
    BY <1>2, <1>10 DEF Holds
  <2>2. CASE job = Absent
    BY <2>2 DEF JobIs
  <2>3. CASE job # Absent
    <3>1. PICK y : y = job.lsn
      OBVIOUS
    <3>2. y \in z .. l /\ job.gen \in Nat /\ RecordIs(job.data, truth, T, K, y, z, z)
          /\ RecordIs(tail, truth, T, K, l, y, z)
      BY <2>1, <2>3, <3>1 DEF JobIs
    <3>3. y \in 0 .. l /\ y \in z .. l + 1
      BY <1>5, <3>2
    <3>4. RecordIs(job.data, truth, U, L, y, z, z) /\ RecordIs(tail, truth, U, L, l, y, z)
      BY <1>5, <1>7, <3>2, <3>3, RecordGrows
    <3>5. RecordIs(tail, truth, U, L, l + 1, y, z)
      BY <1>6, <1>11, <3>4 DEF RecordIs
    <3> QED
      BY <3>1, <3>2, <3>3, <3>4, <3>5 DEF JobIs
  <2> QED
    BY <2>2, <2>3
<1>14. LogIs(wal, truth, U, L, l + 1, o.lsn)
  <2>1. LogIs(wal, truth, T, K, l, o.lsn)
    BY <1>2 DEF Holds
  <2>2. ASSUME NEW n \in DOMAIN wal
        PROVE  n \in 1 .. l + 1 /\ LogAt(wal[n], truth, U, L, n)
    <3>1. n \in 1 .. l /\ LogAt(wal[n], truth, T, K, n)
      BY <2>1 DEF LogIs
    <3>2. n \in 1 .. l + 1
      BY <1>5, <3>1
    <3> QED
      BY <1>5, <1>7, <3>1, <3>2, LogGrows
  <2>3. ASSUME NEW n \in o.lsn + 1 .. l + 1, n \notin DOMAIN wal
        PROVE  U[n] = U[n - 1] /\ L[n] = L[n - 1]
    <3>1. CASE n = l + 1
      <4>1. n - 1 = l
        BY <1>5, <3>1
      <4> QED
        BY <1>6, <1>11, <3>1, <4>1
    <3>2. CASE n # l + 1
      <4>1. n \in o.lsn + 1 .. l /\ n \in 0 .. l /\ n - 1 \in 0 .. l
        BY <1>1, <1>2, <3>2
      <4> QED
        BY <1>6, <2>1, <2>3, <4>1 DEF LogIs
    <3> QED
      BY <3>1, <3>2
  <2> QED
    BY <2>2, <2>3 DEF LogIs
<1>15. Committed(truth, U, l + 1)
  <2>1. Committed(truth, T, l)
    BY <1>1, <1>2
  <2>2. ASSUME NEW n \in 0 .. l + 1, NEW v \in 0 .. U[n] PROVE truth[v].commit \in 1 .. n
    <3>1. CASE n \in 0 .. l
      BY <1>6, <2>1, <3>1 DEF Committed
    <3>2. CASE n \notin 0 .. l
      <4>1. n = l + 1
        BY <1>5, <3>2
      <4>2. truth[v].commit \in 1 .. l
        BY <1>5, <1>6, <2>1, <4>1 DEF Committed
      <4> QED
        BY <1>5, <4>1, <4>2
    <3> QED
      BY <3>1, <3>2
  <2>3. ASSUME NEW n \in 1 .. l + 1, NEW v \in U[n - 1] + 1 .. U[n] PROVE truth[v].commit = n
    <3>1. CASE n = l + 1
      <4>1. n - 1 = l
        BY <1>5, <3>1
      <4> QED
        BY <1>5, <1>6, <1>11, <3>1, <4>1
    <3>2. CASE n # l + 1
      <4>1. n \in 1 .. l /\ n \in 0 .. l /\ n - 1 \in 0 .. l
        BY <1>5, <3>2
      <4> QED
        BY <1>6, <2>1, <4>1 DEF Committed
    <3> QED
      BY <3>1, <3>2
  <2> QED
    BY <1>6, <2>1, <2>2, <2>3 DEF Committed
<1>16. staged.open => StagedIs(staged, truth, U, L, l + 1, z, t, k)
  <2>1. SUFFICES ASSUME staged.open PROVE StagedIs(staged, truth, U, L, l + 1, z, t, k)
    OBVIOUS
  <2>2. StagedIs(staged, truth, T, K, l, z, t, k)
    BY <1>2, <1>10, <2>1 DEF Holds
  <2>3. staged.base \in 0 .. l /\ staged.base \in 0 .. l + 1
    BY <1>5, <2>2 DEF StagedIs
  <2>4. U[staged.base] = T[staged.base] /\ L[staged.base] = K[staged.base]
    BY <1>6, <2>3
  <2> QED
    BY <1>6, <1>11, <2>2, <2>3, <2>4 DEF StagedIs
<1>17. kept' = L[l + 1]
  BY <1>1, <1>2, <1>6, <1>8
<1>18. Holds(U, L, o, r, t, k)'
  <2>1. lsn' \in Nat /\ Growing(U, L, lsn') /\ Committed(truth', U, lsn') /\ kept' = L[lsn']
    BY <1>5, <1>6, <1>8, <1>15, <1>17
  <2>2. RootIs(o, truth', U, L, lsn') /\ RootIs(r, truth', U, L, lsn')
    BY <1>8, <1>9
  <2>3. RecordIs(overlay', truth', U, L, lsn', r.lsn, r.lsn)
        /\ JobIs(job', tail', truth', U, L, lsn', r.lsn)
        /\ LogIs(wal', truth', U, L, lsn', o.lsn)
    BY <1>8, <1>10, <1>12, <1>13, <1>14
  <2>4. staged'.open => StagedIs(staged', truth', U, L, lsn', r.lsn, t, k)
    BY <1>8, <1>10, <1>16
  <2>5. /\ (roots' = <<r>> /\ o = r) \/ roots' = <<o, r>>
        /\ o.lsn <= r.lsn /\ options' \in [interval : Intervals, retain : Retentions]
    BY <1>8 DEF Holds
  <2> QED
    BY <2>1, <2>2, <2>3, <2>4, <2>5 DEF Holds
<1> QED
  BY <1>18 DEF HistoryInv

(* The record a commit publishes.                                          *)
LEMMA PublishedStands ==
  ASSUME NEW S, NEW R, NEW t, NEW k, NEW m, NEW b \in Nat, NEW p, NEW d,
         Rec(d, S, t, k, m, b + 1, p), Agree(S, R, t, m), NEW x \in Nat,
         \A v \in m + 1 .. t : v \in Nat => R[v].commit = x, NEW gen, Root.gen \in Nat,
         NEW n \in Int, n >= -1, p <= n, n <= m, NEW j \in 0 .. k,
         IF n < 0 THEN Root.entity = Absent ELSE j <= n /\ Image(Root, R, n, j)
  PROVE  \E q \in -1 .. n : Rec(Seal(Restamp(Rebind(d, gen), b, x)), R, t, k, t, 0, q)
<1>1. Rec(d, R, t, k, m, b + 1, p)
  BY SameRecord
<1>2. p \in Int /\ p >= -1
  BY DEF Rec, Ordered
<1>3. \E q \in -1 .. n : Rec(Rebind(d, gen), R, t, k, m, b + 1, q)
  <2>1. CASE MovedHistory(d, gen)
    <3>1. ~(n < 0)
      BY <2>1 DEF MovedHistory
    <3>2. Rebind(d, gen) = Bound(d, Root)
      BY <2>1 DEF Rebind, Bound
    <3>3. PICK root : root = Root
      OBVIOUS
    <3>4. n \in Nat /\ n \in -1 .. n /\ j <= n /\ Image(root, R, n, j) /\ root.gen \in Nat
      BY <3>1, <3>3
    <3>5. Rec(Bound(d, root), R, t, k, m, b + 1, n)
      BY <1>1, <3>4, BoundStands
    <3> QED
      BY <3>2, <3>3, <3>4, <3>5
  <2>2. CASE ~MovedHistory(d, gen)
    <3>1. Rebind(d, gen) = d /\ p \in -1 .. n
      BY <1>2, <2>2 DEF Rebind
    <3> QED
      BY <1>1, <3>1
  <2> QED
    BY <2>1, <2>2
<1>4. PICK q \in -1 .. n : Rec(Rebind(d, gen), R, t, k, m, b + 1, q)
  BY <1>3
<1>5. Rec(Restamp(Rebind(d, gen), b, x), R, t, k, m, x, q)
  BY <1>4, RestampStands
<1>6. Rec(Seal(Restamp(Rebind(d, gen), b, x)), R, t, k, t, 0, q)
  BY <1>5, SealStands
<1> QED
  BY <1>6

LEMMA CommitHolds ==
  ASSUME NEW T, NEW K, NEW o, NEW r, NEW t, NEW k, Holds(T, K, o, r, t, k), Commit
  PROVE  HistoryInv'
<1>1. lsn \in Nat /\ Growing(T, K, lsn) /\ Committed(truth, T, lsn) /\ kept = K[lsn]
      /\ r.lsn \in 0 .. lsn /\ o.lsn \in 0 .. lsn
  BY DEF Holds, RootIs
<1>2. PICK l : l = lsn
  OBVIOUS
<1>3. PICK z \in 0 .. l : z = r.lsn
  BY <1>1, <1>2
<1>4. StagedIs(staged, truth, T, K, l, z, t, k) /\ staged.ops # << >>
  BY <1>2, <1>3 DEF Holds, Commit
<1>5. PICK m, b, R : m = T[l] /\ b = staged.base /\ R = truth'
  OBVIOUS
<1>6. l \in Nat /\ Growing(T, K, l) /\ m \in Int /\ m >= -1 /\ K[l] \in Int /\ K[l] >= 0
      /\ l \in 0 .. l
  BY <1>1, <1>2, <1>5 DEF Growing
<1>7. t \in Int /\ k \in Int /\ m <= t /\ K[l] <= k /\ staged.kept = k /\ b \in Nat
  BY <1>4, <1>5, <1>6 DEF StagedIs
<1>8. t >= 0 /\ \E p \in -1 .. T[z] : Rec(staged.data, staged.truth, t, k, m, b + 1, p)
  BY <1>4, <1>5 DEF StagedIs
<1>9. PICK p \in -1 .. T[z] : Rec(staged.data, staged.truth, t, k, m, b + 1, p)
  BY <1>8
<1>10. k \in 0 .. t /\ t \in Nat
  BY <1>9 DEF Rec, Ordered
<1>11. R = [v \in DOMAIN staged.truth |->
              IF v \in DOMAIN truth /\ truth[v].commit # 0 THEN truth[v]
              ELSE [staged.truth[v] EXCEPT !.commit = l + 1]]
  BY <1>2, <1>5 DEF Commit
<1>12. \A v : v \in DOMAIN R <=> v \in 0 .. t
  BY <1>4, <1>11 DEF StagedIs
<1>13. ASSUME NEW v \in 0 .. m PROVE R[v] = truth[v]
  <2>1. v \in DOMAIN truth /\ truth[v].commit # 0
    BY <1>1, <1>2, <1>5, <1>6 DEF Committed
  <2>2. v \in DOMAIN staged.truth
    BY <1>6, <1>7, <1>4 DEF StagedIs
  <2> QED
    BY <1>11, <2>1, <2>2
<1>14. ASSUME NEW v \in m + 1 .. t
       PROVE  R[v].entity = staged.truth[v].entity /\ R[v].commit = l + 1
  <2>1. v \notin DOMAIN truth
    <3>1. v \notin 0 .. T[l]
      BY <1>5, <1>6
    <3> QED
      BY <1>1, <1>2, <3>1 DEF Committed
  <2>2. v \in DOMAIN staged.truth
    BY <1>4, <1>6, <1>7 DEF StagedIs
  <2>3. DOMAIN staged.truth[v] = {"entity", "commit"}
    BY <1>4, <1>5 DEF StagedIs
  <2>4. R[v] = [staged.truth[v] EXCEPT !.commit = l + 1]
    BY <1>11, <2>1, <2>2
  <2> QED
    BY <2>3, <2>4
<1>15. Agree(truth, R, m, m)
  BY <1>13 DEF Agree
<1>16. Agree(staged.truth, R, t, m)
  <2>1. Agree(truth, staged.truth, m, m)
    BY <1>4, <1>5 DEF StagedIs
  <2>2. \A v \in 0 .. t : v \in 0 .. m \/ v \in m + 1 .. t
    BY <1>6, <1>7
  <2> QED
    BY <1>13, <1>14, <2>1, <2>2 DEF Agree
<1>17. PICK U : Longer(U, T, l, t)
  BY DEF Longer
<1>18. PICK L : Longer(L, K, l, k)
  BY DEF Longer
<1>19. /\ Growing(U, L, l + 1) /\ U[l + 1] = t /\ L[l + 1] = k
       /\ \A n \in 0 .. l : U[n] = T[n] /\ L[n] = K[n]
  <2>1. T[l] <= t /\ K[l] <= k /\ (t < 0 => k = 0) /\ (t >= 0 => k <= t)
    BY <1>5, <1>7, <1>10
  <2> QED
    BY <1>6, <1>7, <1>17, <1>18, <2>1, Extends
<1>20. Extended(truth, T, K, l, R, U, L)
  BY <1>5, <1>15, <1>19 DEF Extended
<1>21. U[l] = m /\ L[l] = K[l] /\ U[z] = T[z]
  BY <1>5, <1>6, <1>19
<1>22. PICK d : d = Seal(Restamp(Rebind(staged.data, staged.gen), b, l + 1))
  OBVIOUS
<1>23. RootIs(o, R, U, L, l + 1) /\ RootIs(r, R, U, L, l + 1)
  BY <1>2, <1>6, <1>20, RootGrows DEF Holds
<1>24. \E q \in -1 .. T[z] : Rec(d, R, t, k, t, 0, q)
  <2>1. Root = r
    BY LoadStands
  <2>2. PICK n, j : n = T[z] /\ j = K[z]
    OBVIOUS
  <2>3. n \in Int /\ n >= -1 /\ n <= m /\ j \in Int /\ j >= 0 /\ j <= K[l] /\ (n >= 0 => j <= n)
        /\ (n < 0 => j = 0)
    BY <1>5, <1>6, <2>2 DEF Growing
  <2>4. j \in 0 .. k /\ p <= n /\ p \in Int
    BY <1>6, <1>7, <1>9, <2>2, <2>3
  <2>5. IF n < 0 THEN Root.entity = Absent ELSE j <= n /\ Image(Root, R, n, j)
    <3>1. U[z] = n /\ L[z] = j
      BY <1>19, <2>2
    <3> QED
      BY <1>3, <1>23, <2>1, <2>3, <3>1 DEF RootIs
  <2>6. \A v \in m + 1 .. t : v \in Nat => R[v].commit = l + 1
    BY <1>14
  <2>7. Root.gen \in Nat /\ l + 1 \in Nat
    BY <1>6, <1>23, <2>1 DEF RootIs
  <2>8. \E q \in -1 .. n : Rec(Seal(Restamp(Rebind(staged.data, staged.gen), b, l + 1)),
                               R, t, k, t, 0, q)
    BY <1>7, <1>9, <1>16, <2>3, <2>4, <2>5, <2>6, <2>7, PublishedStands
  <2> QED
    BY <1>22, <2>2, <2>8
<1>25. d # Absent
  <2>1. PICK q \in -1 .. T[z] : Rec(d, R, t, k, t, 0, q)
    BY <1>24
  <2>2. Told(R, t) /\ d.current = R[t].entity
    BY <2>1 DEF Rec
  <2> QED
    BY <1>10, <2>2, RecordExists
<1>26. /\ lsn' = l + 1 /\ overlay' = d /\ tail' = (IF job = Absent THEN tail ELSE d)
       /\ wal' = With(wal, l + 1, staged.ops) /\ kept' = k /\ staged' = NoTransaction
       /\ UNCHANGED <<roots, job, options>>
  BY <1>2, <1>5, <1>7, <1>22 DEF Commit
<1>27. ASSUME NEW s PROVE RecordIs(d, R, U, L, l + 1, s, z)
  BY <1>8, <1>19, <1>21, <1>24, <1>25 DEF RecordIs
<1>28. JobIs(job, tail', R, U, L, l + 1, z)
  <2>1. JobIs(job, tail, truth, T, K, l, z)
    BY <1>2, <1>3 DEF Holds
  <2>2. CASE job = Absent
    BY <2>2 DEF JobIs
  <2>3. CASE job # Absent
    <3>1. PICK y : y = job.lsn
      OBVIOUS
    <3>2. y \in z .. l /\ job.gen \in Nat /\ RecordIs(job.data, truth, T, K, y, z, z)
      BY <2>1, <2>3, <3>1 DEF JobIs
    <3>3. y \in 0 .. l /\ y \in z .. l + 1
      BY <1>6, <3>2
    <3>4. RecordIs(job.data, R, U, L, y, z, z)
      BY <1>6, <1>20, <3>2, <3>3, RecordGrows
    <3>5. tail' = d
      BY <1>26, <2>3
    <3> QED
      BY <1>27, <3>1, <3>2, <3>3, <3>4, <3>5 DEF JobIs
  <2> QED
    BY <2>2, <2>3
<1>29. LogIs(wal', R, U, L, l + 1, o.lsn)
  <2>1. LogIs(wal, truth, T, K, l, o.lsn)
    BY <1>2 DEF Holds
  <2>2. /\ \A n : n \in DOMAIN wal' <=> n = l + 1 \/ n \in DOMAIN wal
        /\ wal'[l + 1] = staged.ops
        /\ \A n \in DOMAIN wal : n # l + 1 => wal'[n] = wal[n]
    BY <1>26 DEF With, Over
  <2>3. LogAt(staged.ops, R, U, L, l + 1)
    <3>1. Path(staged.ops, staged.truth, m, K[l], t, k)
      BY <1>4, <1>5 DEF StagedIs
    <3>2. Path(staged.ops, R, m, K[l], t, k)
      BY <1>6, <1>7, <1>16, <3>1, PathSame
    <3>3. (l + 1) - 1 = l
      BY <1>6
    <3> QED
      BY <1>8, <1>19, <1>21, <3>2, <3>3 DEF LogAt
  <2>4. ASSUME NEW n \in DOMAIN wal' PROVE n \in 1 .. l + 1 /\ LogAt(wal'[n], R, U, L, n)
    <3>1. CASE n = l + 1
      <4>1. n \in 1 .. l + 1
        BY <1>6, <3>1
      <4> QED
        BY <2>2, <2>3, <3>1, <4>1
    <3>2. CASE n # l + 1
      <4>1. n \in DOMAIN wal /\ wal'[n] = wal[n]
        BY <2>2, <3>2
      <4>2. n \in 1 .. l /\ LogAt(wal[n], truth, T, K, n)
        BY <2>1, <4>1 DEF LogIs
      <4>3. LogAt(wal[n], R, U, L, n)
        BY <1>6, <1>20, <4>2, LogGrows
      <4>4. n \in 1 .. l + 1
        BY <1>6, <4>2
      <4> QED
        BY <4>1, <4>3, <4>4
    <3> QED
      BY <3>1, <3>2
  <2>5. ASSUME NEW n \in o.lsn + 1 .. l + 1, n \notin DOMAIN wal'
        PROVE  U[n] = U[n - 1] /\ L[n] = L[n - 1]
    <3>1. n # l + 1 /\ n \notin DOMAIN wal
      BY <2>2, <2>5
    <3>2. n \in o.lsn + 1 .. l /\ n \in 0 .. l /\ n - 1 \in 0 .. l
      BY <1>1, <1>2, <3>1
    <3> QED
      BY <1>19, <2>1, <3>1, <3>2 DEF LogIs
  <2> QED
    BY <2>4, <2>5 DEF LogIs
<1>30. Committed(R, U, l + 1)
  <2>1. Committed(truth, T, l)
    BY <1>1, <1>2
  <2>2. Told(R, t)
    BY <1>24 DEF Rec
  <2>3. \A v \in 0 .. m : truth[v].commit \in 1 .. l
    BY <1>5, <1>6, <2>1 DEF Committed
  <2>4. ASSUME NEW n \in 0 .. l + 1, NEW v \in 0 .. U[n] PROVE R[v].commit \in 1 .. n
    <3>1. CASE n \in 0 .. l
      <4>1. U[n] = T[n] /\ T[n] <= m /\ T[n] \in Int
        BY <1>5, <1>6, <1>19, <3>1 DEF Growing
      <4>2. v \in 0 .. m /\ v \in 0 .. T[n]
        BY <1>6, <4>1
      <4> QED
        BY <1>13, <2>1, <3>1, <4>2 DEF Committed
    <3>2. CASE n \notin 0 .. l
      <4>1. n = l + 1
        BY <1>6, <3>2
      <4>2. v \in 0 .. t
        BY <1>19, <4>1
      <4>3. CASE v \in 0 .. m
        <5>1. R[v].commit \in 1 .. l
          BY <1>13, <2>3, <4>3
        <5> QED
          BY <1>6, <4>1, <5>1
      <4>4. CASE v \notin 0 .. m
        <5>1. v \in m + 1 .. t
          BY <1>6, <1>7, <4>2, <4>4
        <5> QED
          BY <1>6, <1>14, <4>1, <5>1
      <4> QED
        BY <4>3, <4>4
    <3> QED
      BY <3>1, <3>2
  <2>5. ASSUME NEW n \in 1 .. l + 1, NEW v \in U[n - 1] + 1 .. U[n] PROVE R[v].commit = n
    <3>1. CASE n = l + 1
      <4>1. n - 1 = l
        BY <1>6, <3>1
      <4>2. v \in m + 1 .. t
        BY <1>19, <1>21, <3>1, <4>1
      <4> QED
        BY <1>14, <3>1, <4>2
    <3>2. CASE n # l + 1
      <4>1. n \in 1 .. l /\ n \in 0 .. l /\ n - 1 \in 0 .. l
        BY <1>6, <3>2
      <4>2. U[n] = T[n] /\ U[n - 1] = T[n - 1] /\ T[n] <= m /\ T[n] \in Int /\ T[n - 1] \in Int
            /\ T[n - 1] >= -1
        BY <1>5, <1>6, <1>19, <4>1 DEF Growing
      <4>3. v \in 0 .. m /\ v \in T[n - 1] + 1 .. T[n]
        BY <1>6, <4>2
      <4> QED
        BY <1>13, <2>1, <4>1, <4>3 DEF Committed
    <3> QED
      BY <3>1, <3>2
  <2>6. ~(t < 0)
    BY <1>10
  <2> QED
    BY <1>12, <1>19, <2>2, <2>4, <2>5, <2>6 DEF Committed
<1>31. Holds(U, L, o, r, t, k)'
  <2>1. lsn' \in Nat /\ Growing(U, L, lsn') /\ Committed(truth', U, lsn') /\ kept' = L[lsn']
    BY <1>5, <1>6, <1>19, <1>26, <1>30
  <2>2. RootIs(o, truth', U, L, lsn') /\ RootIs(r, truth', U, L, lsn')
    BY <1>5, <1>23, <1>26
  <2>3. RecordIs(overlay', truth', U, L, lsn', r.lsn, r.lsn)
        /\ JobIs(job', tail', truth', U, L, lsn', r.lsn)
        /\ LogIs(wal', truth', U, L, lsn', o.lsn)
    BY <1>3, <1>5, <1>26, <1>27, <1>28, <1>29
  <2>4. ~staged'.open
    BY <1>26 DEF NoTransaction
  <2>5. /\ (roots' = <<r>> /\ o = r) \/ roots' = <<o, r>>
        /\ o.lsn <= r.lsn /\ options' \in [interval : Intervals, retain : Retentions]
    BY <1>26 DEF Holds
  <2> QED
    BY <2>1, <2>2, <2>3, <2>4, <2>5 DEF Holds
<1> QED
  BY <1>31 DEF HistoryInv

LEMMA InstallHolds ==
  ASSUME NEW T, NEW K, NEW o, NEW r, NEW t, NEW k, Holds(T, K, o, r, t, k), Install
  PROVE  HistoryInv'
<1>1. lsn \in Nat /\ Growing(T, K, lsn) /\ Committed(truth, T, lsn)
      /\ RootIs(r, truth, T, K, lsn) /\ o.lsn \in 0 .. lsn /\ r.lsn \in 0 .. lsn
      /\ o.lsn <= r.lsn
  BY DEF Holds, RootIs
<1>2. Root = r
  BY LoadStands
<1>3. PICK l, z, j : l = lsn /\ z = r.lsn /\ j = job.lsn
  OBVIOUS
<1>4. job.gen \in Nat /\ j \in z .. l /\ RecordIs(job.data, truth, T, K, j, z, z)
      /\ RecordIs(tail, truth, T, K, l, j, z)
  BY <1>3 DEF Holds, JobIs, Install
<1>5. z \in 0 .. l /\ j \in 0 .. l /\ l \in Nat /\ z <= j /\ l \in 0 .. l
  BY <1>1, <1>3, <1>4
<1>6. T[z] \in Int /\ T[j] \in Int /\ T[z] <= T[j] /\ K[z] \in Int /\ T[l] \in Int
      /\ T[j] <= T[l]
  BY <1>1, <1>3, <1>4, <1>5 DEF Growing
<1>7. PICK x : x = [gen |-> job.gen, lsn |-> j,
                    entity |-> IF job.data = Absent THEN r.entity ELSE Written(job.data)]
  OBVIOUS
<1>8. /\ roots' = <<r, x>> /\ overlay' = tail /\ tail' = Absent /\ job' = Absent
      /\ wal' = From(wal, z + 1) /\ UNCHANGED <<lsn, staged, options, truth, kept>>
  BY <1>2, <1>3, <1>7 DEF Install
<1>9. x.gen = job.gen /\ x.lsn = j
      /\ x.entity = IF job.data = Absent THEN r.entity ELSE Written(job.data)
  BY <1>7
<1>10. RootIs(x, truth, T, K, l)
  <2>1. CASE job.data = Absent
    <3>1. T[j] = T[z] /\ K[j] = K[z] /\ x.entity = r.entity
      BY <1>4, <1>9, <2>1 DEF RecordIs
    <3>2. CASE T[z] < 0
      BY <1>1, <1>3, <1>4, <1>5, <1>9, <3>1, <3>2 DEF RootIs
    <3>3. CASE ~(T[z] < 0)
      <4>1. Image(r, truth, T[z], K[z])
        BY <1>1, <1>3, <3>3 DEF RootIs
      <4>2. \A v \in K[z] + 1 .. T[z] : truth[v].commit <= j
        <5>1. ASSUME NEW v \in K[z] + 1 .. T[z] PROVE truth[v].commit <= j
          <6>1. v \in 0 .. T[z]
            BY <1>1, <1>3, <1>5, <1>6 DEF Growing
          <6>2. truth[v].commit \in 1 .. z
            BY <1>1, <1>3, <1>5, <6>1 DEF Committed
          <6> QED
            BY <1>5, <6>2
        <5> QED
          BY <5>1
      <4>3. Image(x, truth, T[z], K[z])
        BY <1>5, <1>9, <3>1, <4>1, <4>2 DEF Image
      <4> QED
        BY <1>4, <1>5, <1>9, <3>1, <3>3, <4>3 DEF RootIs
    <3> QED
      BY <3>2, <3>3
  <2>2. CASE job.data # Absent
    <3>1. PICK p : Rec(job.data, truth, T[j], K[j], T[j], 0, p)
      BY <1>4, <2>2 DEF RecordIs
    <3>2. ~(T[j] < 0)
      BY <1>4, <1>6, <2>2 DEF RecordIs
    <3>3. \A v \in 0 .. T[j] : truth[v].commit <= x.lsn
      <4>1. ASSUME NEW v \in 0 .. T[j] PROVE truth[v].commit <= j
        <5>1. truth[v].commit \in 1 .. j
          BY <1>1, <1>3, <1>5 DEF Committed
        <5> QED
          BY <1>5, <5>1
      <4> QED
        BY <1>9, <4>1
    <3>4. x.entity = Written(job.data) /\ x.lsn \in Nat
      BY <1>5, <1>9, <2>2
    <3>5. Image(x, truth, T[j], K[j])
      BY <3>1, <3>3, <3>4, WrittenImage
    <3> QED
      BY <1>4, <1>5, <1>9, <3>2, <3>5 DEF RootIs
  <2> QED
    BY <2>1, <2>2
<1>11. \A p : p \in -1 .. T[z] => p \in -1 .. T[j]
  BY <1>6
<1>12. RecordIs(tail, truth, T, K, l, j, j)
  BY <1>4, <1>11 DEF RecordIs
<1>13. LogIs(From(wal, z + 1), truth, T, K, l, z)
  <2>1. LogIs(wal, truth, T, K, l, o.lsn)
    BY <1>3 DEF Holds
  <2>2. /\ DOMAIN From(wal, z + 1) = {v \in DOMAIN wal : v >= z + 1}
        /\ \A v \in DOMAIN From(wal, z + 1) : From(wal, z + 1)[v] = wal[v]
    BY DEF From, Restrict
  <2>3. ASSUME NEW n \in z + 1 .. l, n \notin DOMAIN From(wal, z + 1)
        PROVE  T[n] = T[n - 1] /\ K[n] = K[n - 1]
    <3>1. n >= z + 1 /\ n \in o.lsn + 1 .. l
      BY <1>1, <1>3, <1>5
    <3>2. n \notin DOMAIN wal
      BY <2>2, <2>3, <3>1
    <3> QED
      BY <2>1, <3>1, <3>2 DEF LogIs
  <2> QED
    BY <2>1, <2>2, <2>3 DEF LogIs
<1>14. staged.open => StagedIs(staged, truth, T, K, l, j, t, k)
  <2>1. SUFFICES ASSUME staged.open PROVE StagedIs(staged, truth, T, K, l, j, t, k)
    OBVIOUS
  <2>2. StagedIs(staged, truth, T, K, l, z, t, k)
    BY <1>3, <2>1 DEF Holds
  <2>3. Stands(staged.view, truth, T[l], K[l], T[l], staged.base + 1, T[j])
    BY <1>11, <2>2 DEF StagedIs, Stands
  <2> QED
    BY <1>11, <2>2, <2>3 DEF StagedIs
<1>15. Holds(T, K, r, x, t, k)'
  <2>1. lsn' \in Nat /\ Growing(T, K, lsn') /\ Committed(truth', T, lsn') /\ kept' = K[lsn']
    BY <1>1, <1>8 DEF Holds
  <2>2. RootIs(r, truth', T, K, lsn') /\ RootIs(x, truth', T, K, lsn') /\ r.lsn <= x.lsn
    BY <1>1, <1>3, <1>5, <1>8, <1>9, <1>10
  <2>3. RecordIs(overlay', truth', T, K, lsn', x.lsn, x.lsn)
        /\ LogIs(wal', truth', T, K, lsn', r.lsn)
    BY <1>3, <1>8, <1>9, <1>12, <1>13
  <2>4. JobIs(job', tail', truth', T, K, lsn', x.lsn)
    BY <1>8 DEF JobIs
  <2>5. staged'.open => StagedIs(staged', truth', T, K, lsn', x.lsn, t, k)
    BY <1>3, <1>8, <1>9, <1>14
  <2>6. roots' = <<r, x>> /\ options' \in [interval : Intervals, retain : Retentions]
    BY <1>8 DEF Holds
  <2> QED
    BY <2>1, <2>2, <2>3, <2>4, <2>5, <2>6 DEF Holds
<1> QED
  BY <1>15 DEF HistoryInv

LEMMA FirstOfPair ==
  ASSUME NEW a, NEW b
  PROVE  /\ SubSeq(<<a>>, 1, 1) = <<a>>
         /\ SubSeq(<<a, b>>, 1, 1) = <<a>>
         /\ SubSeq(<<a, b>>, 1, 2) = <<a, b>>
<1> DEFINE V == {a, b}
<1>1. <<a>> \in Seq(V) /\ <<a, b>> \in Seq(V)
  OBVIOUS
<1>2. PICK s : s = SubSeq(<<a>>, 1, 1)
  OBVIOUS
<1>3. PICK w : w = SubSeq(<<a, b>>, 1, 1)
  OBVIOUS
<1>4. PICK x : x = SubSeq(<<a, b>>, 1, 2)
  OBVIOUS
<1>5. s \in Seq(V) /\ Len(s) = 1 /\ s[1] = a
  BY <1>1, <1>2
<1>6. w \in Seq(V) /\ Len(w) = 1 /\ w[1] = a
  BY <1>1, <1>3
<1>7. x \in Seq(V) /\ Len(x) = 2 /\ x[1] = a /\ x[2] = b
  BY <1>1, <1>4
<1>8. s = <<a>> /\ w = <<a>> /\ x = <<a, b>>
  BY <1>5, <1>6, <1>7
<1> QED
  BY <1>2, <1>3, <1>4, <1>8

LEMMA ReopenHolds ==
  ASSUME NEW T, NEW K, NEW o, NEW r, NEW t, NEW k, Holds(T, K, o, r, t, k),
         NEW keep \in 1 .. 2, Reopen(keep)
  PROVE  HistoryInv'
<1>1. lsn \in Nat /\ Growing(T, K, lsn) /\ Committed(truth, T, lsn)
      /\ RootIs(o, truth, T, K, lsn) /\ RootIs(r, truth, T, K, lsn)
      /\ o.lsn \in 0 .. lsn /\ r.lsn \in 0 .. lsn /\ o.lsn <= r.lsn
      /\ LogIs(wal, truth, T, K, lsn, o.lsn)
  BY DEF Holds, RootIs
<1>2. PICK x : x = roots[keep]
  OBVIOUS
<1>3. /\ (roots' = <<x>> /\ o = x) \/ roots' = <<o, x>>
      /\ x = o \/ x = r
  <2>1. keep \in DOMAIN roots /\ roots' = SubSeq(roots, 1, keep)
    BY DEF Reopen
  <2>2. CASE roots = <<r>> /\ o = r
    <3>1. keep = 1 /\ x = r
      BY <1>2, <2>1, <2>2
    <3>2. SubSeq(<<r>>, 1, 1) = <<r>>
      BY FirstOfPair
    <3> QED
      BY <2>1, <2>2, <3>1, <3>2
  <2>3. CASE roots = <<o, r>> /\ keep = 1
    <3>1. x = o /\ SubSeq(<<o, r>>, 1, 1) = <<o>>
      BY <1>2, <2>3, FirstOfPair
    <3> QED
      BY <2>1, <2>3, <3>1
  <2>4. CASE roots = <<o, r>> /\ keep = 2
    <3>1. x = r /\ SubSeq(<<o, r>>, 1, 2) = <<o, r>>
      BY <1>2, <2>4, FirstOfPair
    <3> QED
      BY <2>1, <2>4, <3>1
  <2>5. keep = 1 \/ keep = 2
    OBVIOUS
  <2> QED
    BY <2>2, <2>3, <2>4, <2>5 DEF Holds
<1>4. RootIs(x, truth, T, K, lsn) /\ x.lsn \in 0 .. lsn /\ o.lsn <= x.lsn
  BY <1>1, <1>3
<1>5. PICK log : log = From(wal, x.lsn + 1)
  OBVIOUS
<1>6. DOMAIN log = {v \in DOMAIN wal : v >= x.lsn + 1}
  BY <1>5 DEF From, Restrict
<1>7. /\ overlay' = (IF DOMAIN log = {} THEN Absent ELSE Replayed(x, log))
      /\ tail' = Absent /\ job' = Absent /\ staged' = NoTransaction
      /\ UNCHANGED <<lsn, wal, options, truth, kept>>
  BY <1>2, <1>5 DEF Reopen
<1>8. RecordIs(overlay', truth, T, K, lsn, x.lsn, x.lsn)
  <2>1. CASE DOMAIN log = {}
    <3>1. \A n \in DOMAIN wal : ~(n >= x.lsn + 1)
      BY <1>6, <2>1
    <3>2. PICK l, z, y : l = lsn /\ z = x.lsn /\ y = o.lsn
      OBVIOUS
    <3>3. l \in Nat /\ z \in 0 .. l /\ y \in Int /\ y <= z
      BY <1>1, <1>4, <3>2
    <3>4. T[l] = T[z] /\ K[l] = K[z]
      <4>1. Growing(T, K, l) /\ LogIs(wal, truth, T, K, l, y) /\ Silent(wal, z)
        BY <1>1, <3>1, <3>2 DEF Silent
      <4> QED
        BY <3>3, <4>1, SilentLog
    <3> QED
      BY <1>7, <2>1, <3>2, <3>4 DEF RecordIs
  <2>2. CASE DOMAIN log # {}
    <3>1. PICK y \in Int : y = o.lsn
      BY <1>1
    <3>2. Stands(Replayed(x, log), truth, T[lsn], K[lsn], T[lsn], lsn + 1, T[x.lsn])
      BY <1>1, <1>4, <1>5, <3>1, ReplayedStands
    <3>3. T[lsn] >= 0
      <4>1. PICK n \in DOMAIN wal : n >= x.lsn + 1
        BY <1>6, <2>2
      <4>2. n \in 1 .. lsn /\ T[n] >= 0
        BY <1>1 DEF LogIs, LogAt
      <4>3. n \in 0 .. lsn /\ lsn \in 0 .. lsn /\ n <= lsn
        BY <1>1, <4>2
      <4>4. T[n] <= T[lsn] /\ T[n] \in Int /\ T[lsn] \in Int
        BY <1>1, <4>3 DEF Growing
      <4> QED
        BY <4>2, <4>4
    <3>4. T[lsn] \in Int /\ ~(T[lsn] < 0)
      BY <1>1, <3>3 DEF Growing
    <3>5. PICK p \in -1 .. T[x.lsn] :
            Rec(Replayed(x, log), truth, T[lsn], K[lsn], T[lsn], lsn + 1, p)
      BY <3>2, <3>4 DEF Stands
    <3>6. Rec(Replayed(x, log), truth, T[lsn], K[lsn], T[lsn], 0, p)
      BY <3>5, AnyStamp
    <3>7. Replayed(x, log) # Absent
      <4>1. T[lsn] \in Nat
        BY <3>3, <3>4
      <4>2. Told(truth, T[lsn]) /\ Replayed(x, log).current = truth[T[lsn]].entity
        BY <3>6 DEF Rec
      <4> QED
        BY <4>1, <4>2, RecordExists
    <3> QED
      BY <1>7, <2>2, <3>3, <3>6, <3>7 DEF RecordIs
  <2> QED
    BY <2>1, <2>2
<1>9. Holds(T, K, o, x, t, k)'
  <2>1. lsn' \in Nat /\ Growing(T, K, lsn') /\ Committed(truth', T, lsn') /\ kept' = K[lsn']
    BY <1>1, <1>7 DEF Holds
  <2>2. RootIs(o, truth', T, K, lsn') /\ RootIs(x, truth', T, K, lsn') /\ o.lsn <= x.lsn
    BY <1>1, <1>4, <1>7
  <2>3. RecordIs(overlay', truth', T, K, lsn', x.lsn, x.lsn)
        /\ LogIs(wal', truth', T, K, lsn', o.lsn)
    BY <1>1, <1>7, <1>8
  <2>4. JobIs(job', tail', truth', T, K, lsn', x.lsn) /\ ~staged'.open
    BY <1>7 DEF JobIs, NoTransaction
  <2>5. options' \in [interval : Intervals, retain : Retentions]
    BY <1>7 DEF Holds
  <2> QED
    BY <1>3, <2>1, <2>2, <2>3, <2>4, <2>5 DEF Holds
<1> QED
  BY <1>9 DEF HistoryInv

-----------------------------------------------------------------------------
(* A request: the version it stages and the operations it adds.            *)

Grown(R, S, t, e) == R = With(S, t + 1, [entity |-> e, commit |-> 0])

LEMMA GrownIs ==
  ASSUME NEW S, NEW t \in Int, t >= -1, Told(S, t), \A v : v \in DOMAIN S <=> v \in 0 .. t,
         NEW e, e.version = t + 1, NEW R, Grown(R, S, t, e)
  PROVE  /\ Told(R, t + 1) /\ Agree(S, R, t, t) /\ R[t + 1] = [entity |-> e, commit |-> 0]
         /\ \A v : v \in DOMAIN R <=> v \in 0 .. t + 1
         /\ \A v \in 0 .. t : R[v] = S[v]
<1>1. \A v : v \in DOMAIN R <=> v = t + 1 \/ v \in DOMAIN S
  BY DEF Grown, With, Over
<1>2. R[t + 1] = [entity |-> e, commit |-> 0]
  BY DEF Grown, With, Over
<1>3. ASSUME NEW v \in 0 .. t PROVE R[v] = S[v]
  <2>1. v # t + 1 /\ v \in DOMAIN S
    OBVIOUS
  <2> QED
    BY <2>1 DEF Grown, With, Over
<1>4. \A v : v = t + 1 \/ v \in 0 .. t <=> v \in 0 .. t + 1
  OBVIOUS
<1>5. R[t + 1].entity = e
  BY <1>2
<1>6. Told(R, t + 1)
  <2>1. ASSUME NEW v \in 0 .. t + 1 PROVE R[v].entity.version = v
    <3>1. CASE v = t + 1
      BY <1>5, <3>1
    <3>2. CASE v \in 0 .. t
      BY <1>3, <3>2 DEF Told
    <3> QED
      BY <1>4, <3>1, <3>2
  <2> QED
    BY <2>1 DEF Told
<1>7. Agree(S, R, t, t)
  BY <1>3 DEF Agree
<1> QED
  BY <1>1, <1>2, <1>3, <1>4, <1>6, <1>7

Changes(op) == op.kind \in {"create", "apply", "delete"}

(* What a request leads to: with R the states afterwards.                  *)
Asked(op, S, t, k, R, u, j, e) ==
  /\ u \in Nat /\ j \in Int /\ k <= j /\ t <= u /\ j <= u
  /\ OpLeads(op, R, t, k, u, j) /\ Told(R, u) /\ Agree(S, R, t, t)
  /\ \A v : v \in DOMAIN R <=> v \in 0 .. u
  /\ IF Changes(op)
     THEN u = t + 1 /\ j = k /\ Grown(R, S, t, e) /\ R[u] = [entity |-> e, commit |-> 0]
     ELSE u = t /\ R = S /\ op.kind \in {"retain", "snapshot"}
          /\ j = IF op.kind = "retain" THEN Later(k, u - op.arg) ELSE k

LEMMA RequestLeads ==
  ASSUME NEW S, NEW t \in Int, t >= -1, NEW k \in Int, k >= 0, Told(S, t),
         \A v : v \in DOMAIN S <=> v \in 0 .. t, NEW m, NEW x, NEW n, NEW d,
         Stands(d, S, t, k, m, x, n), NEW op \in Requests, Accepts(d, op)
  PROVE  \E R, u, j, e : Asked(op, S, t, k, R, u, j, e)
<1>1. \/ op.kind = "create" \/ op.kind = "snapshot" \/ op.kind = "delete"
      \/ op.kind = "apply" /\ op.arg \in Fields
      \/ op.kind = "retain" /\ op.arg \in Counts
  BY DEF Requests, Op, CreateOp, SnapshotOp
<1>2. CASE op.kind = "create"
  <2>1. d = Absent
    BY <1>2 DEF Accepts
  <2>2. t = -1 /\ k = 0
    <3>1. CASE t < 0
      BY <3>1 DEF Stands
    <3>2. CASE ~(t < 0)
      <4>1. t \in Nat /\ d.current = S[t].entity
        BY <3>2 DEF Stands, Rec
      <4> QED
        BY <2>1, <4>1, RecordExists
    <3> QED
      BY <3>1, <3>2
  <2>3. PICK R : Grown(R, S, t, Created)
    BY DEF Grown
  <2>4. Created.version = t + 1
    BY <2>2 DEF Created
  <2>5. /\ Told(R, t + 1) /\ Agree(S, R, t, t) /\ R[t + 1] = [entity |-> Created, commit |-> 0]
        /\ \A v : v \in DOMAIN R <=> v \in 0 .. t + 1
    BY <2>3, <2>4, GrownIs
  <2>6. R[0].entity = Created
    BY <2>2, <2>5
  <2>7. OpLeads(op, R, t, k, 0, 0)
    BY <1>2, <2>2, <2>6 DEF OpLeads
  <2>8. Asked(op, S, t, k, R, 0, 0, Created)
    BY <1>2, <2>2, <2>3, <2>5, <2>7 DEF Asked, Changes
  <2> QED
    BY <2>8
<1>3. ASSUME op.kind # "create"
      PROVE  t \in Nat /\ d.current = S[t].entity /\ S[t].entity.version = t /\ k <= t
  <2>1. d # Absent
    BY <1>3 DEF Accepts
  <2>2. ~(t < 0)
    BY <2>1 DEF Stands
  <2>3. t \in Nat /\ d.current = S[t].entity /\ k \in 0 .. t
    BY <2>2 DEF Stands, Rec, Ordered
  <2> QED
    BY <2>3 DEF Told
<1>4. ASSUME op.kind \in {"apply", "delete"}, NEW kind, NEW field,
             Event(0, kind, field) \in Events,
             \A R : EventFor(Event(0, kind, field), R, t + 1) /\ t \in Nat
                       => OpLeads(op, R, t, k, t + 1, k)
      PROVE  \E R, u, j, e : Asked(op, S, t, k, R, u, j, e)
  <2>1. t \in Nat /\ d.current = S[t].entity /\ S[t].entity.version = t /\ k <= t
    BY <1>3, <1>4
  <2>2. ~S[t].entity.deleted
    BY <1>4, <2>1 DEF Accepts
  <2>3. PICK e : e = ApplyEvent(S[t].entity, t + 1, Event(0, kind, field))
    OBVIOUS
  <2>4. e.version = t + 1
    BY <2>1, <2>2, <2>3 DEF ApplyEvent
  <2>5. PICK R : Grown(R, S, t, e)
    BY DEF Grown
  <2>6. /\ Told(R, t + 1) /\ Agree(S, R, t, t) /\ R[t + 1] = [entity |-> e, commit |-> 0]
        /\ \A v : v \in DOMAIN R <=> v \in 0 .. t + 1
        /\ \A v \in 0 .. t : R[v] = S[v]
    BY <2>4, <2>5, GrownIs
  <2>7. R[t + 1].entity = e /\ R[t] = S[t] /\ (t + 1) - 1 = t
    BY <2>1, <2>6
  <2>8. EventFor(Event(0, kind, field), R, t + 1)
    BY <1>4, <2>3, <2>7 DEF EventFor
  <2>9. OpLeads(op, R, t, k, t + 1, k)
    BY <1>4, <2>1, <2>8
  <2>10. t + 1 \in Nat /\ k <= k /\ t <= t + 1 /\ k <= t + 1
    BY <2>1
  <2>11. Asked(op, S, t, k, R, t + 1, k, e)
    BY <1>4, <2>5, <2>6, <2>9, <2>10 DEF Asked, Changes
  <2> QED
    BY <2>11
<1>5. CASE op.kind = "apply" /\ op.arg \in Fields
  <2>1. Event(0, "apply", op.arg) \in Events
    BY <1>5 DEF Event, Events
  <2>2. \A R : EventFor(Event(0, "apply", op.arg), R, t + 1) /\ t \in Nat
                 => OpLeads(op, R, t, k, t + 1, k)
    BY <1>5 DEF OpLeads
  <2> QED
    BY <1>4, <1>5, <2>1, <2>2
<1>6. CASE op.kind = "delete"
  <2>1. Event(0, "delete", Absent) \in Events
    BY DEF Event, Events
  <2>2. \A R : EventFor(Event(0, "delete", Absent), R, t + 1) /\ t \in Nat
                 => OpLeads(op, R, t, k, t + 1, k)
    BY <1>6 DEF OpLeads
  <2> QED
    BY <1>4, <1>6, <2>1, <2>2
<1>7. CASE op.kind = "retain" /\ op.arg \in Counts
  <2>1. t \in Nat /\ k <= t /\ op.arg \in Nat
    BY <1>3, <1>7, HistoryAssumption
  <2>2. PICK j : j = Later(k, t - op.arg)
    OBVIOUS
  <2>3. j \in Int /\ k <= j /\ j <= t
    BY <2>1, <2>2 DEF Later
  <2>4. OpLeads(op, S, t, k, t, j)
    BY <1>7, <2>1, <2>2 DEF OpLeads
  <2>5. Asked(op, S, t, k, S, t, j, Created)
    BY <1>7, <2>1, <2>2, <2>3, <2>4 DEF Asked, Changes, Agree
  <2> QED
    BY <2>5
<1>8. CASE op.kind = "snapshot"
  <2>1. t \in Nat /\ k <= t
    BY <1>3, <1>8
  <2>2. OpLeads(op, S, t, k, t, k)
    BY <1>8, <2>1 DEF OpLeads
  <2>3. Asked(op, S, t, k, S, t, k, Created)
    BY <1>8, <2>1, <2>2 DEF Asked, Changes, Agree
  <2> QED
    BY <2>3
<1> QED
  BY <1>1, <1>2, <1>5, <1>6, <1>7, <1>8

LEMMA Elements ==
  ASSUME NEW X, NEW s \in Seq(X), NEW w \in Seq(X), NEW x
  PROVE  x \in ToSet(s \o w) <=> x \in ToSet(s) \/ x \in ToSet(w)
<1>1. PICK n, l, all : n = Len(s) /\ l = Len(w) /\ all = s \o w
  OBVIOUS
<1>2. n \in Nat /\ l \in Nat /\ DOMAIN s = 1 .. n /\ DOMAIN w = 1 .. l
  BY <1>1
<1>3. /\ DOMAIN all = 1 .. n + l
      /\ \A i \in 1 .. n + l : all[i] = IF i <= n THEN s[i] ELSE w[i - n]
  BY <1>1, <1>2, ConcatProperties
<1>4. ASSUME NEW i \in 1 .. n + l PROVE all[i] \in ToSet(s) \/ all[i] \in ToSet(w)
  <2>1. CASE i <= n
    <3>1. i \in 1 .. n /\ all[i] = s[i]
      BY <1>2, <1>3, <2>1
    <3> QED
      BY <1>2, <3>1 DEF ToSet
  <2>2. CASE ~(i <= n)
    <3>1. i - n \in 1 .. l /\ all[i] = w[i - n]
      BY <1>2, <1>3, <2>2
    <3> QED
      BY <1>2, <3>1 DEF ToSet
  <2> QED
    BY <2>1, <2>2
<1>5. ASSUME NEW i \in 1 .. n PROVE s[i] \in ToSet(all)
  <2>1. i \in 1 .. n + l /\ all[i] = s[i]
    BY <1>2, <1>3
  <2> QED
    BY <1>3, <2>1 DEF ToSet
<1>6. ASSUME NEW i \in 1 .. l PROVE w[i] \in ToSet(all)
  <2>1. n + i \in 1 .. n + l /\ ~(n + i <= n) /\ (n + i) - n = i
    BY <1>2
  <2>2. all[n + i] = w[i]
    BY <1>3, <2>1
  <2> QED
    BY <1>3, <2>1, <2>2 DEF ToSet
<1>7. x \in ToSet(all) => x \in ToSet(s) \/ x \in ToSet(w)
  BY <1>3, <1>4 DEF ToSet
<1>8. x \in ToSet(s) => x \in ToSet(all)
  BY <1>2, <1>5 DEF ToSet
<1>9. x \in ToSet(w) => x \in ToSet(all)
  BY <1>2, <1>6 DEF ToSet
<1> QED
  BY <1>1, <1>7, <1>8, <1>9

(* At most one of the operations retains, and the oldest version kept      *)
(* follows it.                                                             *)
Retains(ops, u, k, j) ==
  \/ j = k /\ \A o \in ToSet(ops) : o.kind # "retain"
  \/ \E n \in Nat : /\ j = Later(k, u - n)
                    /\ \A o : o \in ToSet(ops) /\ o.kind = "retain" <=> o = Op("retain", n)

LEMMA KeptIs ==
  ASSUME NEW ops, NEW u \in Int, NEW k \in Int, NEW j, Retains(ops, u, k, j)
  PROVE  Max({k} \union {u - o.arg : o \in {o \in ToSet(ops) : o.kind = "retain"}}) = j
<1>1. PICK A : A = {o \in ToSet(ops) : o.kind = "retain"}
  OBVIOUS
<1>2. CASE j = k /\ \A o \in ToSet(ops) : o.kind # "retain"
  <2>1. A = {}
    BY <1>1, <1>2
  <2>2. {k} \union {u - o.arg : o \in A} = {k, k}
    BY <2>1
  <2>3. Max({k, k}) = k
    BY LargerOfTwo
  <2> QED
    BY <1>1, <1>2, <2>2, <2>3
<1>3. ASSUME NEW n \in Nat, j = Later(k, u - n),
             \A o : o \in ToSet(ops) /\ o.kind = "retain" <=> o = Op("retain", n)
      PROVE  Max({k} \union {u - o.arg : o \in A}) = j
  <2>1. A = {Op("retain", n)}
    BY <1>1, <1>3
  <2>2. Op("retain", n).arg = n
    BY DEF Op
  <2>3. {k} \union {u - o.arg : o \in A} = {k, u - n}
    BY <2>1, <2>2
  <2>4. u - n \in Int
    OBVIOUS
  <2>5. Max({k, u - n}) = IF k < u - n THEN u - n ELSE k
    BY <2>4, LargerOfTwo
  <2> QED
    BY <1>3, <2>3, <2>5 DEF Later
<1> QED
  BY <1>1, <1>2, <1>3 DEF Retains

LEMMA Singles ==
  ASSUME NEW o
  PROVE  \A x : (x \in ToSet(<<o>>) <=> x = o) /\ x \notin ToSet(<< >>)
<1>1. DOMAIN <<o>> = {1} /\ <<o>>[1] = o /\ DOMAIN << >> = {}
  OBVIOUS
<1> QED
  BY <1>1 DEF ToSet

(* What apply and delete add leads on from the version staged.             *)
LEMMA MaintainLeads ==
  ASSUME NEW R, NEW u \in Nat, NEW k \in Int, k <= u, NEW d, NEW op,
         options \in [interval : Intervals, retain : Retentions]
  PROVE  \E j \in Int : /\ k <= j /\ j <= u
                        /\ Path(Maintain(d, op), R, u, k, u, j)
                        /\ Retains(Maintain(d, op), u, k, j)
                        /\ op.kind \notin {"apply", "delete"} => j = k /\ Maintain(d, op) = << >>
<1>1. Path(<< >>, R, u, k, u, k) /\ \A o : o \notin ToSet(<< >>)
  <2>1. u \in Int
    OBVIOUS
  <2>2. Path(<< >>, R, u, k, u, k)
    BY <2>1, PathNone
  <2>3. \A o : o \notin ToSet(<< >>)
    BY Singles
  <2> QED
    BY <2>2, <2>3
<1>2. CASE op.kind \notin {"apply", "delete"}
  <2>1. Maintain(d, op) = << >>
    BY <1>2 DEF Maintain
  <2>2. Retains(<< >>, u, k, k)
    BY <1>1 DEF Retains
  <2> QED
    BY <1>1, <2>1, <2>2
<1>3. CASE op.kind \in {"apply", "delete"}
  <2>1. PICK a : a = IF options.interval # 0 /\ d.current.version % options.interval = 0
                     THEN <<SnapshotOp>> ELSE << >>
    OBVIOUS
  <2>2. PICK c : c = IF options.retain # Unlimited THEN <<Op("retain", options.retain)>> ELSE << >>
    OBVIOUS
  <2>3. Maintain(d, op) = a \o c
    BY <1>3, <2>1, <2>2 DEF Maintain
  <2>4. Path(a, R, u, k, u, k) /\ \A o \in ToSet(a) : o.kind # "retain"
    <3>1. SnapshotOp \in AllOps /\ SnapshotOp.kind = "snapshot"
      BY DEF AllOps, Requests, SnapshotOp, Op
    <3>2. OpLeads(SnapshotOp, R, u, k, u, k)
      BY <3>1 DEF OpLeads
    <3>3. Path(<<SnapshotOp>>, R, u, k, u, k)
      BY <3>1, <3>2, PathOne
    <3>4. \A o \in ToSet(<<SnapshotOp>>) : o.kind # "retain"
      BY <3>1, Singles
    <3>5. CASE a = <<SnapshotOp>>
      BY <3>3, <3>4, <3>5
    <3>6. CASE a = << >>
      BY <1>1, <3>6
    <3> QED
      BY <2>1, <3>5, <3>6
  <2>5. \E j \in Int : k <= j /\ j <= u /\ Path(c, R, u, k, u, j) /\ Retains(c, u, k, j)
    <3>1. CASE c = << >>
      BY <1>1, <3>1 DEF Retains
    <3>2. CASE options.retain # Unlimited
      <4>1. PICK n \in Nat : n = options.retain
        BY <3>2, HistoryAssumption
      <4>2. PICK o : o = Op("retain", n)
        OBVIOUS
      <4>3. o \in AllOps /\ o.kind = "retain" /\ o.arg = n /\ c = <<o>>
        BY <2>2, <3>2, <4>1, <4>2 DEF AllOps, Op
      <4>4. PICK j : j = Later(k, u - n)
        OBVIOUS
      <4>5. j \in Int /\ k <= j /\ j <= u
        BY <4>1, <4>4 DEF Later
      <4>6. OpLeads(o, R, u, k, u, j)
        BY <4>3, <4>4 DEF OpLeads
      <4>7. Path(<<o>>, R, u, k, u, j)
        BY <4>3, <4>5, <4>6, PathOne
      <4>8. \A x : x \in ToSet(c) /\ x.kind = "retain" <=> x = Op("retain", n)
        BY <4>2, <4>3, Singles
      <4> QED
        BY <4>3, <4>4, <4>5, <4>7, <4>8 DEF Retains
    <3> QED
      BY <2>2, <3>1, <3>2
  <2>6. PICK j \in Int : k <= j /\ j <= u /\ Path(c, R, u, k, u, j) /\ Retains(c, u, k, j)
    BY <2>5
  <2>7. Path(a \o c, R, u, k, u, j)
    BY <2>4, <2>6, PathJoin
  <2>8. a \in Seq(AllOps) /\ c \in Seq(AllOps)
    BY <2>4, <2>6 DEF Path
  <2>9. \A o : o \in ToSet(a \o c) <=> o \in ToSet(a) \/ o \in ToSet(c)
    BY <2>8, Elements
  <2>10. Retains(a \o c, u, k, j)
    <3>1. \A o : o \in ToSet(a \o c) /\ o.kind = "retain" <=> o \in ToSet(c) /\ o.kind = "retain"
      BY <2>4, <2>9
    <3>2. PICK q : q = a \o c
      OBVIOUS
    <3> QED
      BY <2>6, <3>1, <3>2, Zenon DEF Retains
  <2> QED
    BY <1>3, <2>3, <2>6, <2>7, <2>10
<1> QED
  BY <1>2, <1>3

LEMMA LoadedStands ==
  ASSUME NEW x, NEW S, NEW T, NEW K, NEW l, NEW z, NEW t, NEW k,
         StagedIs(x, S, T, K, l, z, t, k)
  PROVE  Stands(IF x.data = Absent THEN x.view ELSE x.data,
                x.truth, t, k, T[l], x.base + 1, T[z])
<1>1. CASE x.data = Absent
  <2>1. t = T[l] /\ k = K[l] /\ Stands(x.view, S, t, k, t, x.base + 1, T[z])
        /\ Agree(S, x.truth, t, t)
    BY <1>1 DEF StagedIs
  <2>2. Stands(x.view, x.truth, t, k, t, x.base + 1, T[z])
    <3>1. CASE t < 0
      BY <2>1, <3>1 DEF Stands
    <3>2. CASE ~(t < 0)
      <4>1. PICK p \in -1 .. T[z] : Rec(x.view, S, t, k, t, x.base + 1, p)
        BY <2>1, <3>2 DEF Stands
      <4>2. Rec(x.view, x.truth, t, k, t, x.base + 1, p)
        BY <2>1, <4>1, SameRecord
      <4> QED
        BY <3>2, <4>2 DEF Stands
    <3> QED
      BY <3>1, <3>2
  <2> QED
    BY <1>1, <2>1, <2>2
<1>2. CASE x.data # Absent
  <2>1. t \in Int /\ t >= 0 /\ \E p \in -1 .. T[z] : Rec(x.data, x.truth, t, k, T[l], x.base + 1, p)
    BY <1>2 DEF StagedIs
  <2>2. ~(t < 0)
    BY <2>1
  <2> QED
    BY <1>2, <2>1, <2>2 DEF Stands
<1> QED
  BY <1>1, <1>2

LEMMA RequestHolds ==
  ASSUME NEW T, NEW K, NEW o, NEW r, NEW t, NEW k, Holds(T, K, o, r, t, k),
         NEW op \in Requests, Request(op)
  PROVE  HistoryInv'
<1>1. lsn \in Nat /\ Growing(T, K, lsn) /\ r.lsn \in 0 .. lsn
      /\ options \in [interval : Intervals, retain : Retentions]
  BY DEF Holds, RootIs
<1>2. PICK l : l = lsn
  OBVIOUS
<1>3. PICK z \in 0 .. l : z = r.lsn
  BY <1>1, <1>2
<1>4. PICK x : x = staged
  OBVIOUS
<1>5. StagedIs(x, truth, T, K, l, z, t, k)
  BY <1>2, <1>3, <1>4 DEF Holds, Request
<1>6. PICK m, n, b, S : m = T[l] /\ n = T[z] /\ b = x.base /\ S = x.truth
  OBVIOUS
<1>7. m \in Int /\ m >= -1 /\ K[l] \in Int /\ K[l] >= 0 /\ n \in Int /\ n >= -1 /\ l \in Nat
  <2>1. l \in 0 .. l
    BY <1>1, <1>2
  <2> QED
    BY <1>1, <1>2, <1>6, <2>1 DEF Growing
<1>8. /\ t \in Int /\ k \in Int /\ m <= t /\ K[l] <= k /\ x.kept = k /\ b \in Nat
      /\ \A v : v \in DOMAIN S <=> v \in 0 .. t
      /\ Told(S, t) /\ Agree(truth, S, m, m) /\ Path(x.ops, S, m, K[l], t, k)
  BY <1>5, <1>6, <1>7 DEF StagedIs
<1>9. t >= -1 /\ k >= 0
  BY <1>7, <1>8
<1>10. PICK d : d = IF x.data = Absent THEN x.view ELSE x.data
  OBVIOUS
<1>11. Stands(d, S, t, k, m, b + 1, n)
  BY <1>5, <1>6, <1>10, LoadedStands
<1>12. PICK first : first = Execute(d, op, b)
  OBVIOUS
<1>13. PICK more : more = Maintain(first, op)
  OBVIOUS
<1>14. PICK data : data = Run(first, more, b)
  OBVIOUS
<1>15. PICK y : y = [x EXCEPT
          !.data = data,
          !.ops = @ \o <<op>> \o more,
          !.asked = @ + 1,
          !.truth = IF op.kind \in {"create", "apply", "delete"}
                    THEN With(@, data.current.version, [entity |-> data.current, commit |-> 0])
                    ELSE @,
          !.kept = Max({@} \union {data.current.version - q.arg :
                         q \in {q \in ToSet(<<op>> \o more) : q.kind = "retain"}})]
  OBVIOUS
<1>16. /\ Accepts(d, op) /\ staged' = y
       /\ UNCHANGED <<roots, overlay, tail, job, lsn, wal, options, truth, kept>>
  BY <1>4, <1>6, <1>10, <1>12, <1>13, <1>14, <1>15, Zenon DEF Request
<1>17. PICK R, u, i, e : Asked(op, S, t, k, R, u, i, e)
  BY <1>8, <1>9, <1>11, <1>16, RequestLeads
<1>18. /\ u \in Nat /\ i \in Int /\ k <= i /\ t <= u /\ i <= u /\ u \in Int
       /\ OpLeads(op, R, t, k, u, i) /\ Told(R, u) /\ Agree(S, R, t, t)
       /\ \A v : v \in DOMAIN R <=> v \in 0 .. u
  BY <1>17 DEF Asked
<1>19. Agree(S, R, t, m)
  <2>1. \A v \in 0 .. m : v \in 0 .. t
    BY <1>7, <1>8
  <2> QED
    BY <1>18, <2>1 DEF Agree
<1>20. Stands(d, R, t, k, m, b + 1, n)
  <2>1. CASE t < 0
    BY <1>11, <2>1 DEF Stands
  <2>2. CASE ~(t < 0)
    <3>1. PICK p \in -1 .. n : Rec(d, S, t, k, m, b + 1, p)
      BY <1>11, <2>2 DEF Stands
    <3>2. Rec(d, R, t, k, m, b + 1, p)
      BY <1>19, <3>1, SameRecord
    <3> QED
      BY <2>2, <3>2 DEF Stands
  <2> QED
    BY <2>1, <2>2
<1>21. Stands(first, R, u, i, m, b + 1, n)
  BY <1>7, <1>8, <1>12, <1>18, <1>20, StepStands
<1>22. PICK j \in Int : /\ i <= j /\ j <= u /\ Path(more, R, u, i, u, j) /\ Retains(more, u, i, j)
                        /\ op.kind \notin {"apply", "delete"} => j = i /\ more = << >>
  BY <1>1, <1>13, <1>18, MaintainLeads
<1>23. Stands(data, R, u, j, m, b + 1, n)
  BY <1>7, <1>8, <1>14, <1>18, <1>21, <1>22, RunStands
<1>24. ~(u < 0) /\ u >= 0
  BY <1>18
<1>25. PICK p \in -1 .. n : Rec(data, R, u, j, m, b + 1, p)
  BY <1>23, <1>24 DEF Stands
<1>26. data.current = R[u].entity /\ data.current.version = u /\ data # Absent
  <2>1. data.current = R[u].entity
    BY <1>25 DEF Rec
  <2>2. data.current.version = u
    BY <1>18, <2>1 DEF Told
  <2> QED
    BY <1>18, <2>1, <2>2, RecordExists
<1>27. op \in AllOps
  BY DEF AllOps
<1>28. Path((x.ops \o <<op>>) \o more, R, m, K[l], u, j)
  <2>1. Path(x.ops, R, m, K[l], t, k)
    BY <1>7, <1>8, <1>18, PathSame
  <2>2. Path(<<op>>, R, t, k, u, i)
    BY <1>8, <1>18, <1>27, PathOne
  <2>3. Path(x.ops \o <<op>>, R, m, K[l], u, i)
    BY <1>7, <1>8, <1>18, <2>1, <2>2, PathJoin
  <2> QED
    BY <1>7, <1>18, <1>22, <2>3, PathJoin
<1>29. Retains(<<op>> \o more, u, k, j)
  <2>1. <<op>> \in Seq(AllOps) /\ more \in Seq(AllOps)
    BY <1>22, <1>27 DEF Path
  <2>2. \A q : q \in ToSet(<<op>> \o more) <=> q \in ToSet(<<op>>) \/ q \in ToSet(more)
    BY <2>1, Elements
  <2>3. \A q : q \in ToSet(<<op>> \o more) <=> q = op \/ q \in ToSet(more)
    BY <2>2, Singles
  <2>4. CASE op.kind = "retain"
    <3>1. op.arg \in Nat /\ op = Op("retain", op.arg)
      BY <2>4, HistoryAssumption DEF Requests, Op, CreateOp, SnapshotOp
    <3>2. i = Later(k, u - op.arg)
      BY <1>17, <2>4 DEF Asked, Changes
    <3>3. j = i /\ more = << >>
      BY <1>22, <2>4
    <3>4. \A q : q \notin ToSet(more)
      BY <3>3, Singles
    <3>5. \A q : q \in ToSet(<<op>> \o more) /\ q.kind = "retain" <=> q = Op("retain", op.arg)
      BY <2>3, <2>4, <3>1, <3>4
    <3> QED
      BY <3>1, <3>2, <3>3, <3>5 DEF Retains
  <2>5. CASE op.kind # "retain"
    <3>1. i = k
      BY <1>17, <2>5 DEF Asked
    <3>2. \A q : q \in ToSet(<<op>> \o more) /\ q.kind = "retain"
                   <=> q \in ToSet(more) /\ q.kind = "retain"
      BY <2>3, <2>5
    <3>3. PICK all : all = <<op>> \o more
      OBVIOUS
    <3> QED
      BY <1>22, <3>1, <3>2, <3>3, Zenon DEF Retains
  <2> QED
    BY <2>4, <2>5
<1>30. Max({k} \union {u - q.arg : q \in {q \in ToSet(<<op>> \o more) : q.kind = "retain"}}) = j
  BY <1>8, <1>18, <1>29, KeptIs
<1>31. DOMAIN x = {"open", "data", "base", "gen", "view", "ops", "asked", "truth", "kept"}
  BY <1>5 DEF StagedIs
<1>32. /\ DOMAIN y = DOMAIN x /\ y.data = data /\ y.base = b /\ y.view = x.view
       /\ y.ops = (x.ops \o <<op>>) \o more /\ y.open = x.open
  BY <1>6, <1>15, <1>31
<1>33. y.kept = j
  <2>1. y.kept = Max({x.kept} \union {data.current.version - q.arg :
                         q \in {q \in ToSet(<<op>> \o more) : q.kind = "retain"}})
    BY <1>15, <1>31
  <2> QED
    BY <1>8, <1>26, <1>30, <2>1
<1>34. y.truth = R
  <2>1. y.truth = IF Changes(op)
                  THEN With(S, data.current.version, [entity |-> data.current, commit |-> 0])
                  ELSE S
    BY <1>6, <1>15, <1>31 DEF Changes
  <2>2. CASE Changes(op)
    <3>1. u = t + 1 /\ Grown(R, S, t, e) /\ R[u] = [entity |-> e, commit |-> 0]
      BY <1>17, <2>2 DEF Asked
    <3>2. data.current = e
      BY <1>26, <3>1
    <3> QED
      BY <1>26, <2>1, <2>2, <3>1, <3>2 DEF Grown
  <2>3. CASE ~Changes(op)
    BY <1>17, <2>1, <2>3 DEF Asked
  <2> QED
    BY <2>2, <2>3
<1>35. \A v \in m + 1 .. u : DOMAIN R[v] = {"entity", "commit"}
  <2>1. \A v \in m + 1 .. t : DOMAIN S[v] = {"entity", "commit"}
    BY <1>5, <1>6 DEF StagedIs
  <2>2. CASE Changes(op)
    <3>1. u = t + 1 /\ Grown(R, S, t, e) /\ R[u] = [entity |-> e, commit |-> 0]
      BY <1>17, <2>2 DEF Asked
    <3>2. ASSUME NEW v \in m + 1 .. u PROVE DOMAIN R[v] = {"entity", "commit"}
      <4>1. CASE v = u
        BY <3>1, <4>1
      <4>2. CASE v # u
        <5>1. v \in m + 1 .. t /\ v \in 0 .. t /\ v # t + 1
          BY <1>7, <1>8, <3>1, <4>2
        <5>2. R[v] = S[v]
          BY <1>8, <3>1, <5>1 DEF Grown, With, Over
        <5> QED
          BY <2>1, <5>1, <5>2
      <4> QED
        BY <4>1, <4>2
    <3> QED
      BY <3>2
  <2>3. CASE ~Changes(op)
    BY <1>17, <2>1, <2>3 DEF Asked
  <2> QED
    BY <2>2, <2>3
<1>36. Agree(truth, R, m, m)
  <2>1. \A v \in 0 .. m : v \in 0 .. t
    BY <1>7, <1>8
  <2> QED
    BY <1>8, <1>18, <2>1 DEF Agree
<1>37. StagedIs(y, truth, T, K, l, z, u, j)
  <2>1. /\ b \in 0 .. l /\ T[b] = m /\ K[b] = K[l]
        /\ Stands(x.view, truth, m, K[l], m, b + 1, n)
    BY <1>5, <1>6 DEF StagedIs
  <2>2. m <= u /\ K[l] <= j
    BY <1>7, <1>8, <1>18, <1>22
  <2>3. \E q \in -1 .. n : Rec(data, R, u, j, m, b + 1, q)
    BY <1>25
  <2> QED
    BY <1>6, <1>18, <1>22, <1>24, <1>26, <1>28, <1>31, <1>32, <1>33, <1>34, <1>35, <1>36,
       <2>1, <2>2, <2>3 DEF StagedIs
<1>38. Holds(T, K, o, r, u, j)'
  <2>1. StagedIs(staged', truth', T, K, lsn', r.lsn, u, j)
    BY <1>2, <1>3, <1>16, <1>37
  <2> QED
    BY <1>16, <2>1 DEF Holds
<1> QED
  BY <1>38 DEF HistoryInv

LEMMA NextHolds ==
  ASSUME HistoryInv, [Next]_vars
  PROVE  HistoryInv'
<1>1. PICK T, K, o, r, t, k : Holds(T, K, o, r, t, k)
  BY DEF HistoryInv
<1>2. CASE Begin
  BY <1>1, <1>2, BeginHolds
<1>3. ASSUME NEW op \in Requests, Request(op) PROVE HistoryInv'
  BY <1>1, <1>3, RequestHolds
<1>4. CASE Abort
  BY <1>1, <1>4, AbortHolds
<1>5. CASE Commit
  BY <1>1, <1>5, CommitHolds
<1>6. CASE OtherCommit
  BY <1>1, <1>6, OtherCommitHolds
<1>7. CASE Capture
  BY <1>1, <1>7, CaptureHolds
<1>8. CASE Install
  BY <1>1, <1>8, InstallHolds
<1>9. CASE Abandon
  BY <1>1, <1>9, AbandonHolds
<1>10. ASSUME NEW keep \in 1 .. 2, Reopen(keep) PROVE HistoryInv'
  BY <1>1, <1>10, ReopenHolds
<1>11. CASE UNCHANGED vars
  <2>1. Holds(T, K, o, r, t, k)'
    BY <1>1, <1>11 DEF Holds, vars
  <2> QED
    BY <2>1 DEF HistoryInv
<1> QED
  BY <1>2, <1>3, <1>4, <1>5, <1>6, <1>7, <1>8, <1>9, <1>10, <1>11 DEF Next

-----------------------------------------------------------------------------
(* The theorems.                                                           *)

(* Whatever is staged, committed, checkpointed, abandoned or recovered,    *)
(* the log, the roots and the records in memory all stand for versions of  *)
(* one history, and say which part of it each of them holds.               *)
THEOREM HistoryIsKept == Spec => []HistoryInv
<1>1. Init => HistoryInv
  BY InitHolds
<1>2. HistoryInv /\ [Next]_vars => HistoryInv'
  BY NextHolds
<1> QED
  BY <1>1, <1>2, PTL DEF Spec

LEMMA VersionsRead == HistoryInv => EveryVersionReads
<1>1. SUFFICES ASSUME HistoryInv PROVE EveryVersionReads
  OBVIOUS
<1>2. PICK T, K, o, r, t, k : Holds(T, K, o, r, t, k)
  BY <1>1 DEF HistoryInv
<1>3. PICK l, m : l = lsn /\ m = T[l]
  OBVIOUS
<1>4. /\ l \in Nat /\ Growing(T, K, l) /\ Committed(truth, T, l) /\ kept = K[l]
      /\ RootIs(r, truth, T, K, l) /\ RecordIs(overlay, truth, T, K, l, r.lsn, r.lsn)
  BY <1>2, <1>3 DEF Holds
<1>5. m \in Int /\ m >= -1 /\ kept \in Int /\ kept >= 0 /\ (m >= 0 => kept \in 0 .. m)
  <2>1. l \in 0 .. l
    BY <1>4
  <2> QED
    BY <1>3, <1>4, <2>1 DEF Growing
<1>6. (\A v : v \in DOMAIN truth <=> v \in 0 .. m) /\ Told(truth, m) /\ (m < 0 => truth = << >>)
  BY <1>3, <1>4 DEF Committed
<1>7. Root = r
  BY <1>2, LoadStands
<1>8. ASSUME overlay # Absent
      PROVE  ReadsBack(LAMBDA v, s : At(overlay, v, s), kept, truth)
  <2>1. PICK p : Rec(overlay, truth, m, kept, m, 0, p)
    BY <1>3, <1>4, <1>8 DEF RecordIs
  <2>2. ASSUME NEW v \in DOMAIN truth, NEW s \in BOOLEAN
        PROVE  At(overlay, v, s) = IF v < kept THEN Unavailable ELSE truth[v].entity
    <3>1. v \in 0 .. m
      BY <1>6
    <3> QED
      BY <2>1, <3>1, RecordReads
  <2> QED
    BY <2>2 DEF ReadsBack
<1>9. ASSUME overlay = Absent
      PROVE  T[r.lsn] = m /\ K[r.lsn] = kept
  BY <1>3, <1>4, <1>9 DEF RecordIs
<1>10. ASSUME overlay = Absent, Root.entity # Absent
       PROVE  ReadsBack(LAMBDA v, s : RootAt(Root, v, s), kept, truth)
  <2>1. ~(m < 0) /\ Image(r, truth, m, kept)
    BY <1>4, <1>7, <1>9, <1>10 DEF RootIs
  <2>2. m \in Nat /\ kept \in 0 .. m
    BY <1>5, <2>1
  <2>3. ASSUME NEW v \in DOMAIN truth, NEW s \in BOOLEAN
        PROVE  RootAt(r, v, s) = IF v < kept THEN Unavailable ELSE truth[v].entity
    <3>1. v \in 0 .. m
      BY <1>6
    <3> QED
      BY <1>6, <2>1, <2>2, <3>1, RootReads
  <2> QED
    BY <1>7, <2>3 DEF ReadsBack
<1>11. ASSUME overlay = Absent, Root.entity = Absent PROVE truth = << >>
  <2>1. CASE m < 0
    BY <1>6, <2>1
  <2>2. CASE ~(m < 0)
    <3>1. Image(r, truth, m, kept) /\ m \in Nat
      BY <1>4, <1>5, <1>9, <1>11, <2>2 DEF RootIs
    <3>2. r.entity.current = truth[m].entity
      BY <3>1 DEF Image
    <3> QED
      BY <1>6, <1>7, <1>11, <3>1, <3>2, RecordExists
  <2> QED
    BY <2>1, <2>2
<1>12. ASSUME staged.open, staged.data # Absent
       PROVE  ReadsBack(LAMBDA v, s : At(staged.data, v, s), staged.kept, staged.truth)
  <2>1. StagedIs(staged, truth, T, K, l, r.lsn, t, k)
    BY <1>2, <1>3, <1>12 DEF Holds
  <2>2. staged.kept = k /\ \A v : v \in DOMAIN staged.truth <=> v \in 0 .. t
    BY <2>1 DEF StagedIs
  <2>3. PICK p : Rec(staged.data, staged.truth, t, k, m, staged.base + 1, p)
    BY <1>3, <1>12, <2>1 DEF StagedIs
  <2>4. ASSUME NEW v \in DOMAIN staged.truth, NEW s \in BOOLEAN
        PROVE  At(staged.data, v, s) = IF v < k THEN Unavailable ELSE staged.truth[v].entity
    <3>1. v \in 0 .. t
      BY <2>2
    <3> QED
      BY <2>3, <3>1, RecordReads
  <2> QED
    BY <2>2, <2>4 DEF ReadsBack
<1>13. CASE overlay # Absent
  BY <1>8, <1>12, <1>13 DEF EveryVersionReads
<1>14. CASE overlay = Absent /\ Root.entity # Absent
  BY <1>10, <1>12, <1>14 DEF EveryVersionReads
<1>15. CASE overlay = Absent /\ Root.entity = Absent
  BY <1>11, <1>12, <1>15 DEF EveryVersionReads
<1> QED
  BY <1>13, <1>14, <1>15

(* Every retained version reads as it was staged and no older one reads,   *)
(* from the transaction, the overlay or the newest checkpoint              *)
(* (ReadState.get_at_version and replay_to_version), for any number of     *)
(* versions, transactions, checkpoints and reopenings.                     *)
THEOREM VersionsReadBack == Spec => []EveryVersionReads
<1>1. HistoryInv => EveryVersionReads
  BY VersionsRead
<1> QED
  BY <1>1, HistoryIsKept, PTL

LEMMA EventsWalk == HistoryInv => EventsAreWhole
<1>1. SUFFICES ASSUME HistoryInv PROVE EventsAreWhole
  OBVIOUS
<1>2. PICK T, K, o, r, t, k : Holds(T, K, o, r, t, k)
  BY <1>1 DEF HistoryInv
<1>3. PICK m : m = T[lsn]
  OBVIOUS
<1>4. kept = K[lsn] /\ Stands(Load, truth, m, kept, m, 0, T[r.lsn])
  BY <1>2, <1>3, LoadStands DEF Holds
<1>5. PICK d : d = Load
  OBVIOUS
<1>6. SUFFICES ASSUME d # Absent,
                      NEW walk, walk = Visit(d, kept + 1, d.current.version)
               PROVE  /\ [i \in DOMAIN walk |-> walk[i].version]
                             = [i \in 1 .. d.current.version - kept |-> kept + i]
                      /\ \A i \in DOMAIN walk :
                             walk[i].event.transaction = truth[walk[i].version].commit
  BY <1>5 DEF EventsAreWhole
<1>7. PICK p : Rec(d, truth, m, kept, m, 0, p)
  BY <1>4, <1>5, <1>6 DEF Stands
<1>8. d.current.version = m
  <2>1. m \in Nat /\ Told(truth, m) /\ d.current = truth[m].entity
    BY <1>7 DEF Rec, Ordered
  <2> QED
    BY <2>1 DEF Told
<1>9. Whole(walk, truth, kept, m)
  <2>1. walk = Visit(d, kept + 1, m)
    BY <1>6, <1>8
  <2> QED
    BY <1>7, <2>1, VisitsAll
<1>10. DOMAIN walk = 1 .. m - kept
  BY <1>9, Zenon DEF Whole
<1>11. [i \in DOMAIN walk |-> walk[i].version] = [i \in 1 .. m - kept |-> kept + i]
  BY <1>9, <1>10 DEF Whole
<1>12. \A i \in DOMAIN walk : walk[i].event.transaction = truth[walk[i].version].commit
  BY <1>9, <1>10 DEF Whole
<1> QED
  BY <1>8, <1>11, <1>12

(* A walk over the retained events, through memory and disk, meets each    *)
(* one once, in order, with the number of the transaction that committed   *)
(* it (ReadState.visit_events).                                            *)
THEOREM EventsAreWalkedOnce == Spec => []EventsAreWhole
<1>1. HistoryInv => EventsAreWhole
  BY EventsWalk
<1> QED
  BY <1>1, HistoryIsKept, PTL

LEMMA CapturesAreWritable == HistoryInv => CheckpointIsWritable
<1>1. SUFFICES ASSUME HistoryInv PROVE CheckpointIsWritable
  OBVIOUS
<1>2. PICK T, K, o, r, t, k : Holds(T, K, o, r, t, k)
  BY <1>1 DEF HistoryInv
<1>3. ASSUME NEW d, d # Absent, NEW a, NEW s, NEW z, RecordIs(d, truth, T, K, a, s, z)
      PROVE  Writable(d)
  <2>1. PICK p : Rec(d, truth, T[a], K[a], T[a], 0, p)
    BY <1>3 DEF RecordIs
  <2> QED
    BY <2>1, RecordWritable
<1>4. RecordIs(overlay, truth, T, K, lsn, r.lsn, r.lsn)
  BY <1>2 DEF Holds
<1>5. ASSUME job # Absent PROVE RecordIs(job.data, truth, T, K, job.lsn, r.lsn, r.lsn)
  BY <1>2, <1>5 DEF Holds, JobIs
<1> QED
  BY <1>3, <1>4, <1>5 DEF CheckpointIsWritable

(* A checkpoint can write what it captured, with its keys in order: memory *)
(* never holds a version the root it is bound to holds too                 *)
(* (TableWriter.append, whose error would fail every later checkpoint).    *)
THEOREM CheckpointsAreWritable == Spec => []CheckpointIsWritable
<1>1. HistoryInv => CheckpointIsWritable
  BY CapturesAreWritable
<1> QED
  BY <1>1, HistoryIsKept, PTL
=============================================================================
