--------------------------- MODULE WalRecoveryProofs ---------------------------
(***************************************************************************)
(* Durability of one EveDB directory, proved for any number of             *)
(* transactions, groups, generations, crashes and recoveries, and for      *)
(* damage to a file that only the newest checkpoint wrote.                 *)
(*                                                                         *)
(* The predicates take the segments' frames (w) and the log (L) as         *)
(* arguments: recovery decides on the frames that survived before it has   *)
(* a log to compare them with.                                             *)
(***************************************************************************)
EXTENDS WalRecovery, FiniteSetTheorems, FunctionTheorems, SequenceTheorems,
        WellFoundedInduction, TLAPS

TxFrames == [kind : {"tx"}, lsn : Nat, id : 1..MaxTx]
RootFrames == [kind : {"root"}, lsn : Nat, root : Root]
Frames == TxFrames \union RootFrames

(* Positions of the transactions and of the roots in a segment. *)
TxAt(w, s) == {i \in 1..Len(w[s]) : w[s][i].kind = "tx"}
RootAt(w, s) == {i \in 1..Len(w[s]) : w[s][i].kind = "root"}

(* The log is in the frames: each has its transaction, and they are in order. *)
Holds(w, L) ==
    /\ \A s \in Gens : \A i \in TxAt(w, s) :
          w[s][i].lsn \in 1..Len(L) /\ w[s][i].id = L[w[s][i].lsn]
    /\ \A s \in Gens, t \in Gens : \A i \in TxAt(w, s), j \in TxAt(w, t) :
          s < t \/ (s = t /\ i < j) => w[s][i].lsn < w[t][j].lsn

(* A root that stands for a prefix of the log and cuts the log between two
   segments: the transactions above it are in its own segment and later ones. *)
Stands(w, L, r) ==
    /\ r \in Root
    /\ r.files \subseteq 0..r.gen
    /\ r.lsn <= Len(L) /\ Len(r.log) = r.lsn
    /\ \A i \in 1..r.lsn : r.log[i] = L[i]
    /\ \A s \in Gens : \A i \in TxAt(w, s) : r.gen <= s <=> r.lsn < w[s][i].lsn

(* Every transaction above the root is still in a segment. *)
Covered(w, L, r) ==
    \A n \in (r.lsn + 1)..Len(L) : \E s \in Gens : \E i \in TxAt(w, s) : w[s][i].lsn = n

(* Of two roots the one of the later generation contains the other. *)
Ordered(r, q) == /\ r.gen <= q.gen => r.lsn <= q.lsn
                 /\ r.gen = q.gen => r = q

(* The roots on disk agree with the log and with each other. *)
RootsAgree(w, L) ==
    /\ \A s \in Gens : \A i \in RootAt(w, s) :
          Stands(w, L, w[s][i].root) /\ w[s][i].root.gen <= s
    /\ \A s \in Gens, t \in Gens : \A i \in RootAt(w, s), j \in RootAt(w, t) :
          Ordered(w[s][i].root, w[t][j].root)

(* A root is on disk; it is newer than all that are. *)
OnDisk(w, r) == \E s \in Gens : \E i \in RootAt(w, s) : w[s][i].root = r
Newest(w, r) == \A s \in Gens : \A i \in RootAt(w, s) :
                    w[s][i].root.gen < r.gen /\ w[s][i].root.lsn <= r.lsn

(* The segments: the ones with frames start with a root and end with the one
   that commits go to.                                                      *)
SegmentsInv(w, a) ==
    /\ w \in [Gens -> Seq(Frames)]
    /\ \A s \in Gens \ segments : w[s] = <<>>
    /\ a \in segments /\ w[a] # <<>>
    /\ \A s \in Gens : w[s] # <<>> => s <= a /\ w[s][1].kind = "root"

(* The files of the directory and the generations they use. *)
DiskInv ==
    /\ segments \subseteq 0..MaxGen /\ torn \subseteq segments
    /\ catalogs \subseteq 0..MaxGen
    /\ SegmentsInv(wal, active)
    /\ \A s \in torn : wal[s] = <<>>
    /\ files \subseteq 1..active /\ damaged \subseteq files
    /\ nextGen \in 1..(MaxGen + 1)
    /\ \A g \in catalogs \union segments : g < nextGen

LogInv ==
    /\ applied \in Seq(1..MaxTx)
    /\ \A i \in 1..lsn : applied[i] < nextId
    /\ acked \subseteq ToSet(applied)
    /\ nextId \in 1..(MaxTx + 1) /\ lsn < nextId
    /\ walFrames = lsn - root.lsn
    /\ Holds(wal, applied)
    /\ RootsAgree(wal, applied)

(* The root before this one, the header of its segment, is whole. *)
Retained(w, L, r) ==
    /\ w[r.gen] # <<>>
    /\ w[r.gen][1].root.gen < r.gen
    /\ w[r.gen][1].root.files \subseteq files
    /\ Covered(w, L, w[r.gen][1].root)

(* A root that recovery can start from.  Without damage it is the newest one, and
   the one before it is still there.                                        *)
Base(w, L, r) ==
    /\ OnDisk(w, r)
    /\ Covered(w, L, r)
    /\ damaged = {} =>
          /\ \A s \in Gens : \A i \in RootAt(w, s) : w[s][i].root.gen <= r.gen
          /\ r.gen # 0 => Retained(w, L, r)

(* Recovery finds the current root or, once that is damaged, the one before. *)
BaseInv ==
    /\ Base(wal, applied, root)
    /\ status \in {"up", "poisoned"} => Verifies(root)
    /\ status = "down" =>
          Verifies(root) \/ (damaged = {root.gen} /\ Retained(wal, applied, root))

(* A root about to be installed in the segment that commits go to. *)
Installable(r) ==
    /\ Stands(wal, applied, r) /\ Newest(wal, r)
    /\ r.gen = active
    /\ r.files \subseteq files
    /\ root.gen < active
    /\ wal[active][1] = RootFrame(root)

(* The stages of a checkpoint. *)
JobInv ==
    /\ status \in {"up", "poisoned", "down"}
    /\ job.stage \in {"none", "rotating", "building", "built"}
    /\ job.stage = "none" => job = NoJob
    /\ job.stage # "none" => cleanup = NoCleanup /\ status # "down"
    /\ job.stage = "rotating" =>
          /\ job.gen \in 1..MaxGen /\ job.gen > active /\ job.gen < nextGen
          /\ job.gen \notin torn
    /\ job.stage = "building" =>
          /\ job.gen = active
          /\ job.log \in Seq(1..MaxTx)
          /\ Stands(wal, applied, NewRoot({})) /\ Newest(wal, NewRoot({}))
          /\ root.gen < active /\ active \notin damaged
          /\ wal[active][1] = RootFrame(root)
          /\ job.frontier = Len(job.log) - root.lsn
    /\ job.stage = "built" =>
          /\ Installable(job.root) /\ Verifies(job.root)
          /\ job.frontier = job.root.lsn - root.lsn

CleanupInv ==
    /\ cleanup.stage \in {"none", "running"}
    /\ cleanup.stage = "none" => cleanup = NoCleanup
    /\ cleanup.stage = "running" =>
          /\ status # "down"
          /\ cleanup.current = root /\ root.gen = active
          /\ \E i \in RootAt(wal, active) : wal[active][i].root = root
          /\ wal[active][1] = RootFrame(cleanup.previous)
          /\ cleanup.previous.gen < active
          /\ cleanup.previous.files \subseteq files
          /\ Covered(wal, applied, cleanup.previous)

(* The group that is being written continues the log. *)
PendingGroup ==
    /\ pending.seg = active
    /\ pending.frames \in Seq(TxFrames) /\ pending.frames # <<>>
    /\ lsn + Len(pending.frames) < nextId
    /\ \A i \in 1..Len(pending.frames) :
          /\ pending.frames[i].lsn = lsn + i
          /\ pending.frames[i].id \notin ToSet(applied)
          /\ pending.frames[i].id < nextId

PendingHeader ==
    /\ pending.seg \in segments /\ pending.seg > active
    /\ pending.frames = <<RootFrame(root)>>

PendingRoot ==
    /\ pending.seg = active
    /\ pending.frames = <<RootFrame(pending.frames[1].root)>>
    /\ Installable(pending.frames[1].root)

PendingInv ==
    \/ pending = NoWrite
    \/ PendingGroup /\ job.stage # "rotating"
    \/ PendingHeader /\ job.stage = "rotating" /\ pending.seg = job.gen
    \/ PendingRoot /\ job.stage = "built" /\ pending.frames[1].root = job.root
    \/ (PendingHeader \/ PendingRoot) /\ status = "down"

IInv ==
    /\ DiskInv
    /\ LogInv
    /\ BaseInv
    /\ JobInv
    /\ CleanupInv
    /\ PendingInv
-----------------------------------------------------------------------------
(* Numbers and sequences. *)

(* Every nonempty set of natural numbers has a least element. *)
LEMMA LeastNatural ==
    ASSUME NEW T, T \subseteq Nat, T # {}
    PROVE  \E x \in T : \A y \in T : x <= y
  <1> DEFINE R == {ss \in Nat \X Nat : ss[1] < ss[2]}
  <1>1. IsWellFoundedOn(R, Nat)
    BY NatLessThanWellFounded DEF OpToRel
  <1>2. PICK x \in T : \A y \in T : ~ (<<y, x>> \in R)
    <2> HIDE DEF R
    <2>1. QED
      BY <1>1, WFMin
  <1>3. ASSUME NEW y \in T PROVE x <= y
    <2>1. x \in Nat /\ y \in Nat
      OBVIOUS
    <2>2. ASSUME y < x PROVE <<y, x>> \in R
      BY <2>1, <2>2
    <2>3. QED
      BY <1>2, <2>1, <2>2
  <1>4. QED
    BY <1>3

(* A nonempty set of numbers below a bound has a greatest one, and Max finds it. *)
LEMMA GreatestBelow ==
    ASSUME NEW n \in Nat, NEW T, T \subseteq 0..n, T # {}
    PROVE  Max(T) \in T /\ \A y \in T : y <= Max(T)
  <1> DEFINE U == {m \in 0..n : n - m \in T}
  <1>1. U \subseteq Nat /\ U # {}
    <2>1. PICK y \in T : TRUE
      OBVIOUS
    <2>2. n - y \in U
      BY <2>1
    <2>3. U # {}
      <3> HIDE DEF U
      <3>1. QED
        BY <2>2
    <2>4. U \subseteq Nat
      OBVIOUS
    <2>5. QED
      BY <2>3, <2>4
  <1>2. PICK m \in U : \A k \in U : m <= k
    BY <1>1, LeastNatural
  <1>3. n - m \in T
    OBVIOUS
  <1>4. ASSUME NEW y \in T PROVE n - m >= y
    <2>1. n - y \in U
      OBVIOUS
    <2>2. m <= n - y
      BY <1>2, <2>1
    <2>3. y \in Int /\ m \in Int
      OBVIOUS
    <2>4. QED
      BY <2>2, <2>3
  <1>5. \A x, y \in T : x >= y <=> y <= x
    OBVIOUS
  <1>6. Max(T) \in T /\ \A y \in T : Max(T) >= y
    BY <1>3, <1>4 DEF Max
  <1>7. QED
    BY <1>5, <1>6

(* Segment a has grown from w to v by the frames X. *)
Grown(w, v, a, X) ==
    /\ \A s \in Gens : s # a => v[s] = w[s]
    /\ Len(w[a]) \in Nat /\ Len(X) \in Nat
    /\ Len(v[a]) = Len(w[a]) + Len(X)
    /\ \A i \in 1..Len(w[a]) : v[a][i] = w[a][i]
    /\ \A i \in 1..Len(X) : v[a][Len(w[a]) + i] = X[i]

(* The log has grown from L to M by the transactions of the frames X. *)
Continued(L, M, X) ==
    /\ Len(L) \in Nat /\ Len(X) \in Nat
    /\ Len(M) = Len(L) + Len(X)
    /\ \A i \in 1..Len(L) : M[i] = L[i]
    /\ \A i \in 1..Len(X) : M[Len(L) + i] = X[i].id
    /\ \A i \in 1..Len(X) : X[i].lsn = Len(L) + i /\ X[i].kind = "tx"

LEMMA AppendGrows ==
    ASSUME NEW w \in [Gens -> Seq(Frames)], NEW a \in Gens, NEW X \in Seq(Frames),
           NEW v, v = [w EXCEPT ![a] = @ \o X]
    PROVE  v \in [Gens -> Seq(Frames)] /\ Grown(w, v, a, X)
  <1>1. w[a] \in Seq(Frames) /\ v[a] = w[a] \o X
    OBVIOUS
  <1>2. v \in [Gens -> Seq(Frames)]
    BY <1>1, ConcatProperties
  <1>3. Len(w[a]) \in Nat /\ Len(X) \in Nat
    BY <1>1, LenProperties
  <1>4. /\ Len(v[a]) = Len(w[a]) + Len(X)
        /\ \A i \in 1 .. Len(w[a]) + Len(X) :
              v[a][i] = IF i <= Len(w[a]) THEN w[a][i] ELSE X[i - Len(w[a])]
    BY <1>1, ConcatProperties
  <1>5. QED
    BY <1>2, <1>3, <1>4 DEF Grown

LEMMA IdsOfGroup ==
    ASSUME NEW X \in Seq(TxFrames)
    PROVE  /\ Ids(X) \in Seq(1..MaxTx) /\ Len(Ids(X)) = Len(X) /\ Len(X) \in Nat
           /\ \A i \in 1..Len(X) : Ids(X)[i] = X[i].id
  <1>1. Len(X) \in Nat
    BY LenProperties
  <1>2. \A i \in 1..Len(X) : X[i].id \in 1..MaxTx
    <2>1. \A i \in 1..Len(X) : X[i] \in TxFrames
      BY ElementOfSeq
    <2>2. QED
      BY <2>1 DEF TxFrames
  <1>3. QED
    BY <1>1, <1>2 DEF Ids

LEMMA GroupContinues ==
    ASSUME NEW L \in Seq(1..MaxTx), NEW X \in Seq(TxFrames), NEW M, M = L \o Ids(X),
           \A i \in 1..Len(X) : X[i].lsn = Len(L) + i
    PROVE  M \in Seq(1..MaxTx) /\ Continued(L, M, X)
  <1>1. /\ Ids(X) \in Seq(1..MaxTx) /\ Len(Ids(X)) = Len(X) /\ Len(X) \in Nat
        /\ \A i \in 1..Len(X) : Ids(X)[i] = X[i].id
    BY IdsOfGroup
  <1>2. Len(L) \in Nat
    BY LenProperties
  <1>3. PICK I \in Seq(1..MaxTx) : I = Ids(X)
    BY <1>1
  <1>4. /\ M \in Seq(1..MaxTx) /\ Len(M) = Len(L) + Len(I)
        /\ \A i \in 1 .. Len(L) + Len(I) :
              M[i] = IF i <= Len(L) THEN L[i] ELSE I[i - Len(L)]
    BY <1>3, ConcatProperties
  <1>5. \A i \in 1..Len(X) : X[i].kind = "tx"
    <2>1. \A i \in 1..Len(X) : X[i] \in TxFrames
      BY ElementOfSeq
    <2>2. QED
      BY <2>1 DEF TxFrames
  <1>6. QED
    BY <1>1, <1>2, <1>3, <1>4, <1>5 DEF Continued

(* Where the frames of a grown segment come from. *)
Placed(w, v, a, X) ==
    \A s \in Gens :
        /\ \A i \in 1..Len(w[s]) : i \in 1..Len(v[s]) /\ v[s][i] = w[s][i]
        /\ \A i \in 1..Len(v[s]) :
              \/ i \in 1..Len(w[s])
              \/ s = a /\ \E j \in 1..Len(X) : i = Len(w[a]) + j /\ v[s][i] = X[j]

LEMMA GrownFrames ==
    ASSUME NEW w, NEW v, NEW a \in Gens, NEW X, Grown(w, v, a, X)
    PROVE  Placed(w, v, a, X)
  <1> SUFFICES ASSUME NEW s \in Gens
               PROVE  /\ \A i \in 1..Len(w[s]) : i \in 1..Len(v[s]) /\ v[s][i] = w[s][i]
                      /\ \A i \in 1..Len(v[s]) :
                            \/ i \in 1..Len(w[s])
                            \/ s = a /\ \E j \in 1..Len(X) :
                                           i = Len(w[a]) + j /\ v[s][i] = X[j]
    BY DEF Placed
  <1>1. CASE s # a
    BY <1>1 DEF Grown
  <1>2. CASE s = a
    <2>1. ASSUME NEW i \in 1..Len(v[a]), i \notin 1..Len(w[a])
          PROVE  \E j \in 1..Len(X) : i = Len(w[a]) + j /\ v[a][i] = X[j]
      <3>1. i - Len(w[a]) \in 1..Len(X) /\ i = Len(w[a]) + (i - Len(w[a]))
        BY <2>1 DEF Grown
      <3>2. QED
        BY <3>1 DEF Grown
    <2>2. ASSUME NEW i \in 1..Len(w[a]) PROVE i \in 1..Len(v[a]) /\ v[a][i] = w[a][i]
      BY DEF Grown
    <2>3. QED
      BY <1>2, <2>1, <2>2
  <1>3. QED
    BY <1>1, <1>2

(* A group of n transactions has been added to segment a and to the log: every
   root and every transaction is where it was, and the new ones follow.     *)
GroupAdded(w, v, a, L, M, n) ==
    /\ n \in Nat /\ Len(L) \in Nat /\ Len(w[a]) \in Nat /\ Len(M) = Len(L) + n
    /\ \A i \in 1..Len(L) : M[i] = L[i]
    /\ \A s \in Gens : RootAt(v, s) = RootAt(w, s)
    /\ \A s \in Gens : \A i \in RootAt(w, s) : v[s][i] = w[s][i]
    /\ \A s \in Gens : \A i \in TxAt(w, s) : i \in TxAt(v, s) /\ v[s][i] = w[s][i]
    /\ \A s \in Gens : \A i \in TxAt(v, s) :
          \/ i \in TxAt(w, s) /\ v[s][i] = w[s][i]
          \/ s = a /\ \E j \in 1..n : /\ i = Len(w[a]) + j
                                      /\ v[s][i].lsn = Len(L) + j
                                      /\ v[s][i].id = M[Len(L) + j]
    /\ \A j \in 1..n : \E i \in TxAt(v, a) : v[a][i].lsn = Len(L) + j

LEMMA AddingAGroup ==
    ASSUME NEW w, NEW v, NEW a \in Gens, NEW X, Grown(w, v, a, X),
           NEW L, NEW M, Continued(L, M, X)
    PROVE  GroupAdded(w, v, a, L, M, Len(X))
  <1>0. Placed(w, v, a, X)
    BY GrownFrames
  <1>1. \A j \in 1..Len(X) : /\ X[j].kind = "tx" /\ X[j].lsn = Len(L) + j
                             /\ X[j].id = M[Len(L) + j]
    BY DEF Continued
  <1>2. ASSUME NEW s \in Gens
        PROVE  RootAt(v, s) = RootAt(w, s) /\ \A i \in RootAt(w, s) : v[s][i] = w[s][i]
    <2>1. ASSUME NEW i \in RootAt(v, s) PROVE i \in RootAt(w, s)
      <3>1. i \in 1..Len(v[s]) /\ v[s][i].kind = "root"
        BY DEF RootAt
      <3>2. i \in 1..Len(w[s])
        BY <1>0, <1>1, <3>1 DEF Placed
      <3>3. QED
        BY <1>0, <3>1, <3>2 DEF Placed, RootAt
    <2>2. ASSUME NEW i \in RootAt(w, s) PROVE i \in RootAt(v, s) /\ v[s][i] = w[s][i]
      BY <1>0 DEF Placed, RootAt
    <2>3. QED
      BY <2>1, <2>2
  <1>3. ASSUME NEW s \in Gens, NEW i \in TxAt(w, s)
        PROVE  i \in TxAt(v, s) /\ v[s][i] = w[s][i]
    BY <1>0 DEF Placed, TxAt
  <1>4. ASSUME NEW s \in Gens, NEW i \in TxAt(v, s)
        PROVE  \/ i \in TxAt(w, s) /\ v[s][i] = w[s][i]
               \/ s = a /\ \E j \in 1..Len(X) : /\ i = Len(w[a]) + j
                                                /\ v[s][i].lsn = Len(L) + j
                                                /\ v[s][i].id = M[Len(L) + j]
    <2>1. i \in 1..Len(v[s]) /\ v[s][i].kind = "tx"
      BY DEF TxAt
    <2>2. CASE i \in 1..Len(w[s])
      BY <1>0, <2>1, <2>2 DEF Placed, TxAt
    <2>3. CASE s = a /\ \E j \in 1..Len(X) : i = Len(w[a]) + j /\ v[s][i] = X[j]
      BY <1>1, <2>3
    <2>4. QED
      BY <1>0, <2>1, <2>2, <2>3 DEF Placed
  <1>5. ASSUME NEW j \in 1..Len(X)
        PROVE  \E i \in TxAt(v, a) : v[a][i].lsn = Len(L) + j
    <2>1. Len(w[a]) + j \in 1..Len(v[a]) /\ v[a][Len(w[a]) + j] = X[j]
      BY DEF Grown
    <2>2. Len(w[a]) + j \in TxAt(v, a)
      BY <1>1, <2>1 DEF TxAt
    <2>3. QED
      BY <1>1, <2>1, <2>2
  <1>6. /\ Len(X) \in Nat /\ Len(L) \in Nat /\ Len(w[a]) \in Nat /\ Len(M) = Len(L) + Len(X)
        /\ \A i \in 1..Len(L) : M[i] = L[i]
    BY DEF Grown, Continued
  <1>7. QED
    BY <1>2, <1>3, <1>4, <1>5, <1>6 DEF GroupAdded

(* A group appended to the last segment continues the log there. *)
LEMMA GroupHolds ==
    ASSUME NEW w, NEW v, NEW a \in Gens, NEW L, NEW M, NEW n, GroupAdded(w, v, a, L, M, n),
           \A s \in Gens : \A i \in TxAt(w, s) : s <= a /\ (s = a => i <= Len(w[a])),
           Holds(w, L)
    PROVE  Holds(v, M)
  <1>0. /\ Len(L) \in Nat /\ n \in Nat /\ Len(M) = Len(L) + n
        /\ \A i \in 1..Len(L) : M[i] = L[i]
    BY DEF GroupAdded
  <1>1. ASSUME NEW s \in Gens, NEW i \in TxAt(w, s)
        PROVE  w[s][i].lsn \in 1..Len(L) /\ w[s][i].id = M[w[s][i].lsn]
    BY <1>0 DEF Holds
  <1>2. ASSUME NEW s \in Gens, NEW i \in TxAt(v, s)
        PROVE  \/ i \in TxAt(w, s) /\ v[s][i] = w[s][i]
               \/ s = a /\ \E j \in 1..n : /\ i = Len(w[a]) + j
                                           /\ v[s][i].lsn = Len(L) + j
                                           /\ v[s][i].id = M[Len(L) + j]
    BY DEF GroupAdded
  <1>3. ASSUME NEW s \in Gens, NEW i \in TxAt(v, s)
        PROVE  v[s][i].lsn \in 1..Len(M) /\ v[s][i].id = M[v[s][i].lsn]
    <2>1. CASE i \in TxAt(w, s) /\ v[s][i] = w[s][i]
      BY <1>0, <1>1, <2>1
    <2>2. ASSUME NEW j \in 1..n, v[s][i].lsn = Len(L) + j, v[s][i].id = M[Len(L) + j]
          PROVE  v[s][i].lsn \in 1..Len(M) /\ v[s][i].id = M[v[s][i].lsn]
      BY <1>0, <2>2
    <2>3. QED
      BY <1>2, <2>1, <2>2
  <1>4. ASSUME NEW s \in Gens, NEW t \in Gens, NEW i \in TxAt(v, s), NEW j \in TxAt(v, t),
               s < t \/ (s = t /\ i < j)
        PROVE  v[s][i].lsn < v[t][j].lsn
    <2>0. /\ i \in Int /\ j \in Int /\ s \in Int /\ t \in Int /\ a \in Int
          /\ Len(w[a]) \in Int
      BY BoundsAssumption DEF TxAt, Gens, GroupAdded
    <2>1. CASE i \in TxAt(w, s) /\ v[s][i] = w[s][i]
      <3>1. CASE j \in TxAt(w, t) /\ v[t][j] = w[t][j]
        BY <1>4, <2>1, <3>1 DEF Holds
      <3>2. ASSUME NEW m \in 1..n, v[t][j].lsn = Len(L) + m
            PROVE  v[s][i].lsn < v[t][j].lsn
        <4>1. v[s][i].lsn \in 1..Len(L)
          BY <1>1, <2>1
        <4>2. QED
          BY <1>0, <3>2, <4>1
      <3>3. QED
        BY <1>2, <3>1, <3>2
    <2>2. ASSUME s = a, NEW m \in 1..n, i = Len(w[a]) + m, v[s][i].lsn = Len(L) + m
          PROVE  v[s][i].lsn < v[t][j].lsn
      <3>1. ASSUME j \in TxAt(w, t) PROVE FALSE
        <4>1. t <= a /\ (t = a => j <= Len(w[a]))
          BY <3>1
        <4>2. QED
          BY <1>4, <2>0, <2>2, <4>1
      <3>2. PICK k \in 1..n : t = a /\ j = Len(w[a]) + k /\ v[t][j].lsn = Len(L) + k
        BY <1>2, <3>1
      <3>3. QED
        BY <1>0, <1>4, <2>0, <2>2, <3>2
    <2>3. QED
      BY <1>2, <2>1, <2>2
  <1>5. QED
    BY <1>3, <1>4 DEF Holds

(* The roots still stand for prefixes of the longer log. *)
LEMMA GroupStands ==
    ASSUME NEW w, NEW v, NEW a \in Gens, NEW L, NEW M, NEW n, GroupAdded(w, v, a, L, M, n),
           NEW r, Stands(w, L, r), r.gen <= a
    PROVE  Stands(v, M, r)
  <1>0. /\ Len(L) \in Nat /\ n \in Nat /\ Len(M) = Len(L) + n
        /\ \A i \in 1..Len(L) : M[i] = L[i]
    BY DEF GroupAdded
  <1>1. /\ r \in Root /\ r.files \subseteq 0..r.gen /\ Len(r.log) = r.lsn
        /\ r.lsn \in Nat /\ r.gen \in Int /\ r.lsn <= Len(L)
        /\ \A i \in 1..r.lsn : r.log[i] = L[i]
    BY BoundsAssumption DEF Stands, Root
  <1>2. ASSUME NEW s \in Gens, NEW i \in TxAt(v, s)
        PROVE  r.gen <= s <=> r.lsn < v[s][i].lsn
    <2>1. CASE i \in TxAt(w, s) /\ v[s][i] = w[s][i]
      BY <2>1 DEF Stands
    <2>2. ASSUME s = a, NEW j \in 1..n, v[s][i].lsn = Len(L) + j
          PROVE  r.gen <= s /\ r.lsn < v[s][i].lsn
      BY <1>0, <1>1, <2>2
    <2>3. QED
      BY <2>1, <2>2 DEF GroupAdded
  <1>3. \A i \in 1..r.lsn : r.log[i] = M[i]
    BY <1>0, <1>1
  <1>4. r.lsn <= Len(M)
    BY <1>0, <1>1
  <1>5. QED
    BY <1>1, <1>2, <1>3, <1>4 DEF Stands

(* What was covered is, with the group. *)
LEMMA GroupCovered ==
    ASSUME NEW w, NEW v, NEW a \in Gens, NEW L, NEW M, NEW n, GroupAdded(w, v, a, L, M, n),
           NEW r \in Root, Covered(w, L, r)
    PROVE  Covered(v, M, r)
  <1>0. Len(L) \in Nat /\ n \in Nat /\ Len(M) = Len(L) + n /\ r.lsn \in Nat
    BY BoundsAssumption DEF GroupAdded, Root
  <1> SUFFICES ASSUME NEW m \in (r.lsn + 1)..Len(M)
               PROVE  \E s \in Gens : \E i \in TxAt(v, s) : v[s][i].lsn = m
    BY DEF Covered
  <1>1. CASE m <= Len(L)
    <2>1. m \in (r.lsn + 1)..Len(L)
      BY <1>0, <1>1
    <2>2. PICK s \in Gens : \E i \in TxAt(w, s) : w[s][i].lsn = m
      BY <2>1 DEF Covered
    <2>3. PICK i \in TxAt(w, s) : w[s][i].lsn = m
      BY <2>2
    <2>4. i \in TxAt(v, s) /\ v[s][i] = w[s][i]
      BY DEF GroupAdded
    <2>5. QED
      BY <2>3, <2>4
  <1>2. CASE m > Len(L)
    <2>1. m - Len(L) \in 1..n /\ m = Len(L) + (m - Len(L))
      BY <1>0, <1>2
    <2>2. \E i \in TxAt(v, a) : v[a][i].lsn = Len(L) + (m - Len(L))
      BY <2>1 DEF GroupAdded
    <2>3. QED
      BY <2>1, <2>2
  <1>3. QED
    BY <1>0, <1>1, <1>2

(* The roots agree with the longer log as they did. *)
LEMMA GroupRootsAgree ==
    ASSUME NEW w, NEW v, NEW a \in Gens, NEW L, NEW M, NEW n, GroupAdded(w, v, a, L, M, n),
           \A s \in Gens : \A i \in RootAt(w, s) : s <= a,
           RootsAgree(w, L)
    PROVE  RootsAgree(v, M)
  <1>1. \A s \in Gens : RootAt(v, s) = RootAt(w, s)
    BY DEF GroupAdded
  <1>2. \A s \in Gens : \A i \in RootAt(w, s) : v[s][i] = w[s][i]
    BY DEF GroupAdded
  <1>3. ASSUME NEW s \in Gens, NEW i \in RootAt(w, s)
        PROVE  Stands(v, M, w[s][i].root) /\ w[s][i].root.gen <= s
    <2>1. Stands(w, L, w[s][i].root) /\ w[s][i].root.gen <= s /\ s <= a
      BY DEF RootsAgree
    <2>2. w[s][i].root.gen \in Int /\ s \in Int /\ a \in Int
      BY <2>1, BoundsAssumption DEF Stands, Root, Gens
    <2>3. w[s][i].root.gen <= a
      BY <2>1, <2>2
    <2>4. QED
      BY <2>1, <2>3, GroupStands
  <1>4. \A s \in Gens, t \in Gens : \A i \in RootAt(w, s), j \in RootAt(w, t) :
            Ordered(w[s][i].root, w[t][j].root)
    BY DEF RootsAgree
  <1>5. QED
    BY <1>1, <1>2, <1>3, <1>4 DEF RootsAgree

(* Every transaction, or every root, of v is in w at its place. *)
TxWithin(v, w) ==
    \A s \in Gens : \A i \in TxAt(v, s) : i \in TxAt(w, s) /\ v[s][i] = w[s][i]
RootsWithin(v, w) ==
    \A s \in Gens : \A i \in RootAt(v, s) : i \in RootAt(w, s) /\ v[s][i] = w[s][i]

LEMMA WithinHolds ==
    ASSUME NEW v, NEW w, NEW L, TxWithin(v, w), Holds(w, L)
    PROVE  Holds(v, L)
  BY DEF TxWithin, Holds

LEMMA WithinStands ==
    ASSUME NEW v, NEW w, NEW L, NEW r, TxWithin(v, w), Stands(w, L, r)
    PROVE  Stands(v, L, r)
  BY DEF TxWithin, Stands

LEMMA WithinCovered ==
    ASSUME NEW v, NEW w, NEW L, NEW r, TxWithin(w, v), Covered(w, L, r)
    PROVE  Covered(v, L, r)
  BY DEF TxWithin, Covered

LEMMA WithinNewest ==
    ASSUME NEW v, NEW w, NEW r, RootsWithin(v, w), Newest(w, r)
    PROVE  Newest(v, r)
  BY DEF RootsWithin, Newest

LEMMA WithinOnDisk ==
    ASSUME NEW v, NEW w, NEW r, RootsWithin(w, v), OnDisk(w, r)
    PROVE  OnDisk(v, r)
  BY DEF RootsWithin, OnDisk

LEMMA WithinRootsAgree ==
    ASSUME NEW v, NEW w, NEW L, TxWithin(v, w), RootsWithin(v, w), RootsAgree(w, L)
    PROVE  RootsAgree(v, L)
  <1>1. ASSUME NEW s \in Gens, NEW i \in RootAt(v, s)
        PROVE  i \in RootAt(w, s) /\ v[s][i] = w[s][i]
    BY DEF RootsWithin
  <1>2. ASSUME NEW s \in Gens, NEW i \in RootAt(v, s)
        PROVE  Stands(v, L, v[s][i].root) /\ v[s][i].root.gen <= s
    <2>1. Stands(w, L, w[s][i].root) /\ w[s][i].root.gen <= s
      BY <1>1 DEF RootsAgree
    <2>2. QED
      BY <1>1, <2>1, WithinStands
  <1>3. ASSUME NEW s \in Gens, NEW t \in Gens, NEW i \in RootAt(v, s), NEW j \in RootAt(v, t)
        PROVE  Ordered(v[s][i].root, v[t][j].root)
    BY <1>1 DEF RootsAgree
  <1>4. QED
    BY <1>2, <1>3 DEF RootsAgree

(* The root r has been added to segment a, and nothing else has changed. *)
RootAdded(w, v, a, r) ==
    /\ TxWithin(v, w) /\ TxWithin(w, v)
    /\ RootsWithin(w, v)
    /\ \A s \in Gens : \A i \in RootAt(v, s) :
          \/ i \in RootAt(w, s) /\ v[s][i] = w[s][i]
          \/ s = a /\ v[s][i].root = r
    /\ \E i \in RootAt(v, a) : v[a][i].root = r

LEMMA AddingARoot ==
    ASSUME NEW w, NEW v, NEW a \in Gens, NEW r, Grown(w, v, a, <<RootFrame(r)>>)
    PROVE  RootAdded(w, v, a, r)
  <1> DEFINE X == <<RootFrame(r)>>
  <1>0. Placed(w, v, a, X)
    BY GrownFrames
  <1>1. Len(X) = 1 /\ X[1].kind = "root" /\ X[1].root = r
    BY DEF RootFrame
  <1>2. Len(w[a]) \in Nat /\ Len(v[a]) = Len(w[a]) + 1 /\ v[a][Len(w[a]) + 1] = X[1]
    BY <1>1 DEF Grown
  <1> HIDE DEF X
  <1>3. \A j \in 1..Len(X) : X[j].kind = "root" /\ X[j].root = r
    BY <1>1
  <1>4. TxWithin(w, v) /\ RootsWithin(w, v)
    BY <1>0 DEF Placed, TxWithin, RootsWithin, TxAt, RootAt
  <1>5. ASSUME NEW s \in Gens, NEW i \in TxAt(v, s)
        PROVE  i \in TxAt(w, s) /\ v[s][i] = w[s][i]
    <2>1. i \in 1..Len(v[s]) /\ v[s][i].kind = "tx"
      BY DEF TxAt
    <2>2. i \in 1..Len(w[s])
      BY <1>0, <1>3, <2>1 DEF Placed
    <2>3. QED
      BY <1>0, <2>1, <2>2 DEF Placed, TxAt
  <1>6. ASSUME NEW s \in Gens, NEW i \in RootAt(v, s)
        PROVE  \/ i \in RootAt(w, s) /\ v[s][i] = w[s][i]
               \/ s = a /\ v[s][i].root = r
    <2>1. i \in 1..Len(v[s]) /\ v[s][i].kind = "root"
      BY DEF RootAt
    <2>2. CASE i \in 1..Len(w[s])
      BY <1>0, <2>1, <2>2 DEF Placed, RootAt
    <2>3. CASE s = a /\ \E j \in 1..Len(X) : i = Len(w[a]) + j /\ v[s][i] = X[j]
      BY <1>3, <2>3
    <2>4. QED
      BY <1>0, <2>1, <2>2, <2>3 DEF Placed
  <1>7. Len(w[a]) + 1 \in RootAt(v, a) /\ v[a][Len(w[a]) + 1].root = r
    BY <1>1, <1>2 DEF RootAt
  <1>8. QED
    BY <1>4, <1>5, <1>6, <1>7 DEF RootAdded, TxWithin

(* A root that agrees with the log and with the roots on disk may join them. *)
LEMMA RootRootsAgree ==
    ASSUME NEW w, NEW v, NEW a \in Gens, NEW L, NEW r, RootAdded(w, v, a, r),
           RootsAgree(w, L), Stands(w, L, r), r.gen <= a,
           \A s \in Gens : \A i \in RootAt(w, s) :
               Ordered(w[s][i].root, r) /\ Ordered(r, w[s][i].root)
    PROVE  RootsAgree(v, L)
  <1>0. TxWithin(v, w)
    BY DEF RootAdded
  <1>1. ASSUME NEW s \in Gens, NEW i \in RootAt(v, s)
        PROVE  \/ i \in RootAt(w, s) /\ v[s][i] = w[s][i]
               \/ s = a /\ v[s][i].root = r
    BY DEF RootAdded
  <1>2. ASSUME NEW s \in Gens, NEW i \in RootAt(v, s)
        PROVE  Stands(v, L, v[s][i].root) /\ v[s][i].root.gen <= s
    <2>1. CASE i \in RootAt(w, s) /\ v[s][i] = w[s][i]
      <3>1. Stands(w, L, w[s][i].root) /\ w[s][i].root.gen <= s
        BY <2>1 DEF RootsAgree
      <3>2. QED
        BY <1>0, <2>1, <3>1, WithinStands
    <2>2. CASE s = a /\ v[s][i].root = r
      BY <1>0, <2>2, WithinStands
    <2>3. QED
      BY <1>1, <2>1, <2>2
  <1>3. Ordered(r, r)
    <2>1. r.gen \in Int /\ r.lsn \in Int
      BY BoundsAssumption DEF Stands, Root
    <2>2. QED
      BY <2>1 DEF Ordered
  <1>4. ASSUME NEW s \in Gens, NEW t \in Gens, NEW i \in RootAt(v, s), NEW j \in RootAt(v, t)
        PROVE  Ordered(v[s][i].root, v[t][j].root)
    <2>1. CASE i \in RootAt(w, s) /\ v[s][i] = w[s][i]
      <3>1. CASE j \in RootAt(w, t) /\ v[t][j] = w[t][j]
        BY <2>1, <3>1 DEF RootsAgree
      <3>2. CASE v[t][j].root = r
        BY <2>1, <3>2
      <3>3. QED
        BY <1>1, <3>1, <3>2
    <2>2. CASE v[s][i].root = r
      BY <1>1, <1>3, <2>2
    <2>3. QED
      BY <1>1, <2>1, <2>2
  <1>5. QED
    BY <1>2, <1>4 DEF RootsAgree

(* Frames appended to the active segment, or a header to a later one. *)
LEMMA GrownSegments ==
    ASSUME NEW w, NEW a, SegmentsInv(w, a), segments \subseteq 0..MaxGen,
           NEW b \in segments, NEW X \in Seq(Frames), NEW v, v = [w EXCEPT ![b] = @ \o X],
           b = a \/ (b > a /\ X # <<>> /\ X[1].kind = "root")
    PROVE  SegmentsInv(v, b) /\ Grown(w, v, b, X)
  <1>0. /\ w \in [Gens -> Seq(Frames)] /\ a \in segments
        /\ a \in Gens /\ b \in Gens /\ a \in Int /\ b \in Int
    BY BoundsAssumption DEF SegmentsInv, Gens
  <1>1. v \in [Gens -> Seq(Frames)] /\ Grown(w, v, b, X)
    BY <1>0, AppendGrows
  <1>2. \A s \in Gens : s # b => v[s] = w[s]
    BY <1>1 DEF Grown
  <1>3. v[b] # <<>> /\ v[b][1].kind = "root"
    <2>1. CASE b = a
      <3>1. w[b] # <<>> /\ w[b][1].kind = "root"
        BY <1>0, <2>1 DEF SegmentsInv
      <3>2. Len(w[b]) \in Nat \ {0}
        BY <1>0, <3>1, EmptySeq
      <3>3. v[b][1] = w[b][1]  /\ Len(v[b]) # 0
        BY <1>1, <3>2 DEF Grown
      <3>4. QED
        BY <3>1, <3>3, EmptySeq
    <2>2. CASE b > a /\ X # <<>> /\ X[1].kind = "root"
      <3>1. w[b] = <<>>
        BY <1>0, <2>2 DEF SegmentsInv
      <3>2. Len(X) \in Nat \ {0}
        BY <2>2, EmptySeq
      <3>3. Len(w[b]) = 0
        BY <3>1, EmptySeq
      <3>4. v[b][1] = X[1] /\ Len(v[b]) # 0
        BY <1>1, <3>2, <3>3 DEF Grown
      <3>5. QED
        BY <2>2, <3>4, EmptySeq
    <2>3. QED
      BY <2>1, <2>2
  <1>4. ASSUME NEW s \in Gens, v[s] # <<>> PROVE s <= b /\ v[s][1].kind = "root"
    <2>1. CASE s = b
      BY <1>0, <1>3, <2>1
    <2>2. CASE s # b
      <3>1. s <= a /\ w[s][1].kind = "root"
        BY <1>2, <1>4, <2>2 DEF SegmentsInv
      <3>2. s \in Int
        BY DEF Gens
      <3>3. QED
        BY <1>0, <1>2, <2>2, <3>1, <3>2
    <2>3. QED
      BY <2>1, <2>2
  <1>5. \A s \in Gens \ segments : v[s] = <<>>
    BY <1>2 DEF SegmentsInv
  <1>6. QED
    BY <1>1, <1>3, <1>4, <1>5 DEF SegmentsInv
-----------------------------------------------------------------------------
(* Recovery. *)

(* A set that is numbered from m + 1 to n has n - m elements. *)
LEMMA CountByNumber ==
    ASSUME NEW m \in Nat, NEW n \in Nat, m <= n, NEW T, NEW f \in [T -> (m + 1)..n],
           \A x, y \in T : f[x] = f[y] => x = y,
           \A k \in (m + 1)..n : \E x \in T : f[x] = k
    PROVE  Cardinality(T) = n - m
  <1>1. f \in Bijection(T, (m + 1)..n)
    BY DEF Bijection, Injection, Surjection, IsInjective
  <1>2. ExistsBijection(T, (m + 1)..n)
    BY <1>1 DEF ExistsBijection
  <1>3. ExistsBijection((m + 1)..n, T)
    BY <1>2, Fun_ExistsBijSymmetric
  <1>4. m + 1 \in Int /\ n \in Int
    OBVIOUS
  <1>5. /\ IsFiniteSet((m + 1)..n)
        /\ Cardinality((m + 1)..n) = IF m + 1 > n THEN 0 ELSE n - (m + 1) + 1
    BY <1>4, FS_Interval
  <1>6. Cardinality((m + 1)..n) = n - m
    BY <1>5
  <1>7. QED
    BY <1>3, <1>5, <1>6, FS_Bijection

(* The frames w hold the log L, and a is the last segment with frames. *)
Sound(w, L, a) ==
    /\ segments \subseteq 0..MaxGen
    /\ L \in Seq(1..MaxTx)
    /\ SegmentsInv(w, a)
    /\ Holds(w, L)
    /\ RootsAgree(w, L)

(* The places of the complete frames. *)
Placing(w) ==
    /\ \A s \in Gens : \A i \in 1..Len(w[s]) : <<s, i>> \in Places(w)
    /\ \A p \in Places(w) : /\ p = <<p[1], p[2]>>
                            /\ p[1] \in Gens /\ p[2] \in 1..Len(w[p[1]])
                            /\ p[1] \in segments /\ w[p[1]] # <<>>
                            /\ p[1] \in Int /\ p[2] \in Int

LEMMA SegmentLengths ==
    ASSUME NEW w, NEW a, SegmentsInv(w, a)
    PROVE  \A s \in Gens : /\ Len(w[s]) \in Nat /\ DOMAIN w[s] = 1..Len(w[s])
                           /\ (w[s] = <<>> <=> Len(w[s]) = 0)
                           /\ \A i \in 1..Len(w[s]) : w[s][i] \in Frames
  <1> SUFFICES ASSUME NEW s \in Gens
               PROVE  /\ Len(w[s]) \in Nat /\ DOMAIN w[s] = 1..Len(w[s])
                      /\ (w[s] = <<>> <=> Len(w[s]) = 0)
                      /\ \A i \in 1..Len(w[s]) : w[s][i] \in Frames
    OBVIOUS
  <1>1. w[s] \in Seq(Frames)
    BY DEF SegmentsInv
  <1>2. Len(w[s]) \in Nat /\ DOMAIN w[s] = 1..Len(w[s])
    BY <1>1, LenProperties
  <1>3. w[s] = <<>> <=> Len(w[s]) = 0
    BY <1>1, EmptySeq
  <1>4. \A i \in 1..Len(w[s]) : w[s][i] \in Frames
    BY <1>1, ElementOfSeq
  <1>5. QED
    BY <1>2, <1>3, <1>4

LEMMA PlacesOfFrames ==
    ASSUME NEW w, NEW a, SegmentsInv(w, a), segments \subseteq 0..MaxGen
    PROVE  Placing(w)
  <1>0. \A s \in Gens : /\ Len(w[s]) \in Nat /\ DOMAIN w[s] = 1..Len(w[s])
                        /\ (w[s] = <<>> <=> Len(w[s]) = 0)
    BY SegmentLengths
  <1>1. segments \subseteq Gens /\ Gens \subseteq Int
    BY BoundsAssumption DEF Gens
  <1>2. ASSUME NEW s \in Gens, NEW i \in 1..Len(w[s]) PROVE <<s, i>> \in Places(w)
    <2>1. s \in segments
      <3>1. Len(w[s]) # 0
        BY <1>0
      <3>2. w[s] # <<>>
        BY <1>0, <3>1
      <3>3. QED
        BY <3>2 DEF SegmentsInv
    <2>2. <<s, i>> \in {s} \X DOMAIN w[s]
      BY <1>0
    <2>3. QED
      BY <2>1, <2>2 DEF Places
  <1>3. ASSUME NEW p \in Places(w)
        PROVE  /\ p = <<p[1], p[2]>> /\ p[1] \in segments /\ p[2] \in DOMAIN w[p[1]]
    BY DEF Places
  <1>4. ASSUME NEW p \in Places(w)
        PROVE  /\ p = <<p[1], p[2]>>
               /\ p[1] \in Gens /\ p[2] \in 1..Len(w[p[1]])
               /\ p[1] \in segments /\ w[p[1]] # <<>>
               /\ p[1] \in Int /\ p[2] \in Int
    <2>1. p[1] \in Gens /\ p[1] \in Int /\ p[2] \in 1..Len(w[p[1]]) /\ Len(w[p[1]]) \in Nat
      BY <1>0, <1>1, <1>3
    <2>2. Len(w[p[1]]) # 0 /\ p[2] \in Int
      BY <2>1
    <2>3. QED
      BY <1>0, <1>3, <2>1, <2>2
  <1>5. QED
    BY <1>2, <1>4 DEF Placing

(* The roots that recovery reads are the ones on disk. *)
LEMMA RootsRead ==
    ASSUME NEW w, Placing(w), NEW r
    PROVE  r \in RootsIn(w) <=> OnDisk(w, r)
  <1>1. ASSUME r \in RootsIn(w) PROVE OnDisk(w, r)
    <2>1. PICK p \in RootPlaces(w) : r = FrameAt(w, p).root
      BY <1>1 DEF RootsIn
    <2>2. p \in Places(w) /\ FrameAt(w, p).kind = "root"
      BY DEF RootPlaces
    <2>3. p[1] \in Gens /\ p[2] \in RootAt(w, p[1]) /\ w[p[1]][p[2]].root = r
      BY <2>1, <2>2 DEF Placing, FrameAt, RootAt
    <2>4. QED
      BY <2>3 DEF OnDisk
  <1>2. ASSUME OnDisk(w, r) PROVE r \in RootsIn(w)
    <2>1. PICK s \in Gens : \E i \in RootAt(w, s) : w[s][i].root = r
      BY <1>2 DEF OnDisk
    <2>2. PICK i \in RootAt(w, s) : w[s][i].root = r
      BY <2>1
    <2>3. <<s, i>> \in Places(w) /\ w[s][i].kind = "root"
      BY DEF Placing, RootAt
    <2>4. FrameAt(w, <<s, i>>) = w[s][i]
      BY DEF FrameAt
    <2>5. <<s, i>> \in RootPlaces(w)
      BY <2>3, <2>4 DEF RootPlaces
    <2>6. QED
      BY <2>2, <2>4, <2>5 DEF RootsIn
  <1>3. QED
    BY <1>1, <1>2

(* Of a nonempty set of roots recovery takes one of the greatest generation. *)
LEMMA NewestIsGreatest ==
    ASSUME NEW U, U \subseteq Root, U # {}
    PROVE  NewestRoot(U) \in U /\ \A q \in U : q.gen <= NewestRoot(U).gen
  <1> DEFINE T == {r.gen : r \in U}
  <1>1. \A r \in U : r.gen \in 0..MaxGen
    BY DEF Root
  <1>2. T \subseteq 0..MaxGen /\ T # {} /\ \A r \in U : r.gen \in T
    BY <1>1
  <1>3. \A g \in T : \E r \in U : r.gen = g
    OBVIOUS
  <1> HIDE DEF T
  <1>4. MaxGen \in Nat
    BY BoundsAssumption
  <1>5. Max(T) \in T /\ \A y \in T : y <= Max(T)
    BY <1>2, <1>4, GreatestBelow
  <1>6. PICK r \in U : r.gen = Max(T)
    BY <1>3, <1>5
  <1>7. \A q \in U : q.gen <= r.gen
    BY <1>2, <1>5, <1>6
  <1>8. QED
    BY <1>7 DEF NewestRoot

(* The active segment of recovery is the last one with frames. *)
LEMMA LastSegment ==
    ASSUME NEW w, NEW a, SegmentsInv(w, a), segments \subseteq 0..MaxGen
    PROVE  ActiveSegment(w) = a
  <1>1. WithFrames(w) \subseteq 0..MaxGen /\ a \in WithFrames(w)
    BY DEF WithFrames, SegmentsInv
  <1>2. \A s \in WithFrames(w) : s <= a
    <2>1. segments \subseteq Gens
      BY BoundsAssumption DEF Gens
    <2>2. QED
      BY <2>1 DEF WithFrames, SegmentsInv
  <1>3. MaxGen \in Nat
    BY BoundsAssumption
  <1>4. Max(WithFrames(w)) \in WithFrames(w) /\ \A s \in WithFrames(w) : s <= Max(WithFrames(w))
    BY <1>1, <1>3, GreatestBelow
  <1>5. Max(WithFrames(w)) <= a /\ a <= Max(WithFrames(w))
    BY <1>1, <1>2, <1>4
  <1>6. Max(WithFrames(w)) \in Int /\ a \in Int
    BY <1>1, <1>4
  <1>7. QED
    BY <1>5, <1>6 DEF ActiveSegment

(* The transactions above a root, numbered by their sequence numbers. *)
Numbered(w, L, r) ==
    /\ \A p \in Replay(w, r) : /\ FrameAt(w, p).lsn \in (r.lsn + 1)..Len(L)
                               /\ FrameAt(w, p).id = L[FrameAt(w, p).lsn]
    /\ \A p, q \in Replay(w, r) :
          /\ Precedes(p, q) <=> FrameAt(w, p).lsn < FrameAt(w, q).lsn
          /\ FrameAt(w, p).lsn = FrameAt(w, q).lsn => p = q
    /\ \A n \in (r.lsn + 1)..Len(L) : \E p \in Replay(w, r) : FrameAt(w, p).lsn = n

(* Replay over a covered root reads each transaction above it once, in order. *)
LEMMA ReplayIsNumbered ==
    ASSUME NEW w, NEW L, NEW a, Sound(w, L, a), NEW r, Stands(w, L, r), Covered(w, L, r)
    PROVE  Numbered(w, L, r)
  <1>0. /\ segments \subseteq 0..MaxGen /\ SegmentsInv(w, a) /\ Holds(w, L)
        /\ L \in Seq(1..MaxTx)
    BY DEF Sound
  <1>1. Placing(w)
    BY <1>0, PlacesOfFrames
  <1>2. ActiveSegment(w) = a
    BY <1>0, LastSegment
  <1>3. Len(L) \in Nat /\ r.lsn \in Nat
    <2>1. Len(L) \in Nat
      BY <1>0, LenProperties
    <2>2. QED
      BY <2>1, BoundsAssumption DEF Stands, Root
  <1>4. ASSUME NEW p \in Replay(w, r)
        PROVE  /\ p = <<p[1], p[2]>> /\ p[1] \in Gens /\ p[2] \in TxAt(w, p[1])
               /\ p[1] \in Int /\ p[2] \in Int
               /\ FrameAt(w, p) = w[p[1]][p[2]] /\ FrameAt(w, p).lsn > r.lsn
    <2>1. p \in Places(w) /\ FrameAt(w, p).kind = "tx" /\ FrameAt(w, p).lsn > r.lsn
      BY DEF Replay
    <2>2. QED
      BY <1>1, <2>1 DEF Placing, FrameAt, TxAt
  <1>5. ASSUME NEW p \in Replay(w, r)
        PROVE  /\ FrameAt(w, p).lsn \in (r.lsn + 1)..Len(L)
               /\ FrameAt(w, p).id = L[FrameAt(w, p).lsn]
    <2>1. FrameAt(w, p).lsn \in 1..Len(L) /\ FrameAt(w, p).id = L[FrameAt(w, p).lsn]
      BY <1>0, <1>4 DEF Holds
    <2>2. QED
      BY <1>3, <1>4, <2>1
  <1>6. ASSUME NEW p \in Replay(w, r), NEW q \in Replay(w, r), Precedes(p, q)
        PROVE  FrameAt(w, p).lsn < FrameAt(w, q).lsn
    BY <1>0, <1>4, <1>6 DEF Holds, Precedes
  <1>7. ASSUME NEW p \in Replay(w, r), NEW q \in Replay(w, r)
        PROVE  p = q \/ Precedes(p, q) \/ Precedes(q, p)
    <2>1. p[1] = q[1] /\ p[2] = q[2] => p = q
      BY <1>4
    <2>2. p[1] \in Int /\ p[2] \in Int /\ q[1] \in Int /\ q[2] \in Int
      BY <1>4
    <2>3. QED
      BY <2>1, <2>2 DEF Precedes
  <1>8. ASSUME NEW p \in Replay(w, r), NEW q \in Replay(w, r)
        PROVE  /\ Precedes(p, q) <=> FrameAt(w, p).lsn < FrameAt(w, q).lsn
               /\ FrameAt(w, p).lsn = FrameAt(w, q).lsn => p = q
    <2>1. FrameAt(w, p).lsn \in Int /\ FrameAt(w, q).lsn \in Int
      BY <1>5
    <2>2. QED
      BY <1>6, <1>7, <2>1
  <1>9. ASSUME NEW n \in (r.lsn + 1)..Len(L)
        PROVE  \E p \in Replay(w, r) : FrameAt(w, p).lsn = n
    <2>1. PICK s \in Gens : \E i \in TxAt(w, s) : w[s][i].lsn = n
      BY DEF Covered
    <2>2. PICK i \in TxAt(w, s) : w[s][i].lsn = n
      BY <2>1
    <2>3. i \in 1..Len(w[s]) /\ w[s][i].kind = "tx"
      BY DEF TxAt
    <2>4. <<s, i>> \in Places(w) /\ FrameAt(w, <<s, i>>) = w[s][i]
      BY <1>1, <2>3 DEF Placing, FrameAt
    <2>5. <<s, i>>[1] = s
      OBVIOUS
    <2>6. s \in segments /\ w[s] # <<>>
      BY <1>1, <2>4, <2>5 DEF Placing
    <2>7. n > r.lsn /\ r.lsn < n
      BY <1>3
    <2>8. r.gen <= s /\ s <= a
      BY <1>0, <2>2, <2>6, <2>7 DEF Stands, SegmentsInv
    <2>9. s \in ReplayedSegments(w, r)
      BY <1>2, <2>6, <2>8 DEF ReplayedSegments, WithFrames
    <2>10. <<s, i>> \in Replay(w, r)
      BY <2>2, <2>3, <2>4, <2>5, <2>7, <2>9 DEF Replay
    <2>11. QED
      BY <2>2, <2>4, <2>10
  <1>10. QED
    BY <1>5, <1>8, <1>9 DEF Numbered

(* So replay restores the log, and counts its frames. *)
LEMMA ReplayRestores ==
    ASSUME NEW w, NEW L \in Seq(1..MaxTx), NEW r, Stands(w, L, r), Numbered(w, L, r)
    PROVE  /\ Cardinality(Replay(w, r)) = Len(L) - r.lsn
           /\ r.log \o ReplayedIds(w, r) = L
           /\ StrictSequence(w, r)
  <1>0. /\ Len(L) \in Nat /\ r.lsn \in Nat /\ r.lsn <= Len(L)
        /\ r.log \in Seq(1..MaxTx) /\ Len(r.log) = r.lsn
        /\ \A i \in 1..r.lsn : r.log[i] = L[i]
    <2>1. Len(L) \in Nat
      BY LenProperties
    <2>2. QED
      BY <2>1, BoundsAssumption DEF Stands, Root
  <1>1. Cardinality(Replay(w, r)) = Len(L) - r.lsn
    <2> DEFINE f == [p \in Replay(w, r) |-> FrameAt(w, p).lsn]
    <2>1. f \in [Replay(w, r) -> (r.lsn + 1)..Len(L)]
      BY DEF Numbered
    <2>2. \A x, y \in Replay(w, r) : f[x] = f[y] => x = y
      BY DEF Numbered
    <2>3. \A k \in (r.lsn + 1)..Len(L) : \E x \in Replay(w, r) : f[x] = k
      BY DEF Numbered
    <2> HIDE DEF f
    <2>4. QED
      BY <1>0, <2>1, <2>2, <2>3, CountByNumber
  <1>2. ASSUME NEW p \in Replay(w, r)
        PROVE  FrameAt(w, p).lsn = r.lsn + Cardinality({q \in Replay(w, r) : Precedes(q, p)}) + 1
    <2> DEFINE B == {q \in Replay(w, r) : Precedes(q, p)}
               f == [q \in B |-> FrameAt(w, q).lsn]
               n == FrameAt(w, p).lsn - 1
    <2>1. FrameAt(w, p).lsn \in (r.lsn + 1)..Len(L)
      BY DEF Numbered
    <2>2. n \in Nat /\ r.lsn <= n /\ FrameAt(w, p).lsn = n + 1 /\ n + 1 <= Len(L)
      BY <1>0, <2>1
    <2>3. ASSUME NEW q \in B
          PROVE  q \in Replay(w, r) /\ FrameAt(w, q).lsn \in (r.lsn + 1)..n
      <3>1. q \in Replay(w, r) /\ Precedes(q, p)
        OBVIOUS
      <3>2. FrameAt(w, q).lsn \in (r.lsn + 1)..Len(L) /\ FrameAt(w, q).lsn < FrameAt(w, p).lsn
        BY <3>1 DEF Numbered
      <3>3. QED
        BY <1>0, <2>1, <3>1, <3>2
    <2>4. f \in [B -> (r.lsn + 1)..n]
      BY <2>3
    <2>5. \A x, y \in B : f[x] = f[y] => x = y
      BY <2>3 DEF Numbered
    <2>6. ASSUME NEW k \in (r.lsn + 1)..n PROVE \E x \in B : f[x] = k
      <3>1. k \in (r.lsn + 1)..Len(L) /\ k < FrameAt(w, p).lsn
        BY <1>0, <2>2
      <3>2. PICK q \in Replay(w, r) : FrameAt(w, q).lsn = k
        BY <3>1 DEF Numbered
      <3>3. Precedes(q, p)
        BY <3>1, <3>2 DEF Numbered
      <3>4. q \in B
        BY <3>3
      <3>5. QED
        BY <3>2, <3>4
    <2> HIDE DEF B, f, n
    <2>7. Cardinality(B) = n - r.lsn
      BY <1>0, <2>2, <2>4, <2>5, <2>6, CountByNumber
    <2>8. FrameAt(w, p).lsn = r.lsn + Cardinality(B) + 1
      BY <1>0, <2>2, <2>7
    <2>9. QED
      BY <2>8 DEF B
  <1>3. StrictSequence(w, r)
    BY <1>2 DEF StrictSequence
  <1>4. ASSUME NEW n \in 1..(Len(L) - r.lsn)
        PROVE  FrameAt(w, CHOOSE p \in Replay(w, r) : FrameAt(w, p).lsn = r.lsn + n).id
                   = L[r.lsn + n]
    <2>1. r.lsn + n \in (r.lsn + 1)..Len(L)
      BY <1>0
    <2>2. \E p \in Replay(w, r) : FrameAt(w, p).lsn = r.lsn + n
      BY <2>1 DEF Numbered
    <2> DEFINE q == CHOOSE p \in Replay(w, r) : FrameAt(w, p).lsn = r.lsn + n
    <2>3. q \in Replay(w, r) /\ FrameAt(w, q).lsn = r.lsn + n
      BY <2>2
    <2> HIDE DEF q
    <2>4. FrameAt(w, q).id = L[r.lsn + n]
      BY <2>3 DEF Numbered
    <2>5. QED
      BY <2>4 DEF q
  <1> DEFINE I == ReplayedIds(w, r)
             k == Len(L) - r.lsn
  <1>5. /\ I \in Seq(1..MaxTx) /\ Len(I) = Len(L) - r.lsn
        /\ \A i \in 1..(Len(L) - r.lsn) : I[i] = L[r.lsn + i]
    <2>1. k \in Nat
      BY <1>0
    <2>2. I = [n \in 1..k |-> L[r.lsn + n]]
      BY <1>1, <1>4 DEF ReplayedIds
    <2>3. \A i \in 1..k : L[r.lsn + i] \in 1..MaxTx
      <3>1. \A i \in 1..k : r.lsn + i \in 1..Len(L)
        BY <1>0
      <3>2. QED
        BY <3>1, ElementOfSeq
    <2> HIDE DEF I, k
    <2>4. I \in Seq(1..MaxTx) /\ Len(I) = k /\ \A i \in 1..k : I[i] = L[r.lsn + i]
      BY <2>1, <2>2, <2>3
    <2>5. QED
      BY <2>4 DEF k
  <1> HIDE DEF I, k
  <1>6. PICK l \in Seq(1..MaxTx) : l = r.log
    BY <1>0
  <1>7. /\ l \o I \in Seq(1..MaxTx) /\ Len(l \o I) = Len(l) + Len(I)
        /\ \A i \in 1..(Len(l) + Len(I)) :
              (l \o I)[i] = IF i <= Len(l) THEN l[i] ELSE I[i - Len(l)]
    BY <1>5, ConcatProperties
  <1>8. Len(l) = r.lsn /\ Len(l) + Len(I) = Len(L)
    BY <1>0, <1>5, <1>6
  <1>9. ASSUME NEW i \in 1..Len(L) PROVE (l \o I)[i] = L[i]
    <2>1. CASE i <= r.lsn
      <3>1. (l \o I)[i] = l[i]
        BY <1>7, <1>8, <2>1
      <3>2. QED
        BY <1>0, <1>6, <2>1, <3>1
    <2>2. CASE ~(i <= r.lsn)
      <3>1. (l \o I)[i] = I[i - r.lsn]
        BY <1>7, <1>8, <2>2
      <3>2. i - r.lsn \in 1..(Len(L) - r.lsn) /\ r.lsn + (i - r.lsn) = i
        BY <1>0, <2>2
      <3>3. QED
        BY <1>5, <3>1, <3>2
    <2>3. QED
      BY <2>1, <2>2
  <1>10. l \o I = L
    BY <1>7, <1>8, <1>9, SeqEqual
  <1>11. QED
    BY <1>1, <1>3, <1>6, <1>10 DEF I

(* What RootsAgree says of the roots on disk. *)
LEMMA OnDiskAgrees ==
    ASSUME NEW w, NEW L, RootsAgree(w, L), NEW r, OnDisk(w, r)
    PROVE  /\ Stands(w, L, r)
           /\ \A q : OnDisk(w, q) => Ordered(q, r) /\ Ordered(r, q)
           /\ \A s \in Gens : \A i \in RootAt(w, s) :
                 Ordered(w[s][i].root, r) /\ Ordered(r, w[s][i].root)
  BY DEF RootsAgree, OnDisk

LEMMA RootTypes ==
    ASSUME NEW w, NEW L, NEW r, Stands(w, L, r)
    PROVE  /\ r \in Root /\ r.gen \in 0..MaxGen /\ r.gen \in Nat /\ r.gen \in Gens
           /\ r.lsn \in Nat /\ r.log \in Seq(1..MaxTx)
  BY BoundsAssumption DEF Stands, Root, Gens

(* What open finds: the directory is accepted and the log restored. *)
Restored(w, L, a, t, r) ==
    /\ HeadersPresent(w)
    /\ StrictSequence(w, r)
    /\ SealedComplete(w, t, r)
    /\ ActiveSegment(w) = a
    /\ r.log \o ReplayedIds(w, r) = L
    /\ Cardinality(Replay(w, r)) = Len(L) - r.lsn
    /\ Stands(w, L, r)
    /\ Base(w, L, r) /\ Verifies(r)

(* One whole root is enough to recover. *)
LEMMA RecoveryRestores ==
    ASSUME NEW w, NEW L, NEW a, Sound(w, L, a), NEW t, \A s \in t : s = a \/ w[s] = <<>>,
           NEW b, Base(w, L, b), Verifies(b),
           NEW U, U = {q \in RootsIn(w) : Verifies(q)}
    PROVE  U # {} /\ Restored(w, L, a, t, NewestRoot(U))
  <1>0. /\ segments \subseteq 0..MaxGen /\ SegmentsInv(w, a) /\ RootsAgree(w, L)
        /\ L \in Seq(1..MaxTx) /\ OnDisk(w, b) /\ Covered(w, L, b)
    BY DEF Sound, Base
  <1>1. Placing(w)
    BY <1>0, PlacesOfFrames
  <1>2. ActiveSegment(w) = a
    BY <1>0, LastSegment
  <1>3. b \in U
    BY <1>0, <1>1, RootsRead
  <1>4. ASSUME NEW q \in U PROVE OnDisk(w, q) /\ Verifies(q) /\ q \in Root
    <2>1. q \in RootsIn(w) /\ Verifies(q)
      OBVIOUS
    <2>2. OnDisk(w, q)
      BY <1>1, <2>1, RootsRead
    <2>3. Stands(w, L, q)
      BY <1>0, <2>2, OnDiskAgrees
    <2>4. QED
      BY <2>1, <2>2, <2>3, RootTypes
  <1> DEFINE r == NewestRoot(U)
  <1>5. r \in U /\ b.gen <= r.gen
    <2>1. U \subseteq Root /\ U # {}
      BY <1>3, <1>4
    <2>2. QED
      BY <1>3, <2>1, NewestIsGreatest
  <1> HIDE DEF r
  <1>6. OnDisk(w, r) /\ Verifies(r)
    BY <1>4, <1>5
  <1>7. Stands(w, L, r) /\ Stands(w, L, b) /\ Ordered(b, r) /\ Ordered(r, b)
    BY <1>0, <1>6, OnDiskAgrees
  <1>8. r.gen \in Nat /\ b.gen \in Nat /\ r.lsn \in Nat /\ b.lsn \in Nat
    BY <1>7, RootTypes
  <1>9. b.lsn <= r.lsn
    BY <1>5, <1>7 DEF Ordered
  <1>10. Covered(w, L, r)
    <2>1. Len(L) \in Nat
      BY <1>0, LenProperties
    <2>2. ASSUME NEW n \in (r.lsn + 1)..Len(L) PROVE n \in (b.lsn + 1)..Len(L)
      BY <1>8, <1>9, <2>1
    <2>3. QED
      BY <1>0, <2>2 DEF Covered
  <1>11. Base(w, L, r)
    <2>1. ASSUME damaged = {} PROVE r = b
      <3>1. r.gen <= b.gen
        BY <1>6, <2>1 DEF Base, OnDisk
      <3>2. r.gen = b.gen
        BY <1>5, <1>8, <3>1
      <3>3. QED
        BY <1>7, <3>2 DEF Ordered
    <2>2. CASE damaged = {}
      BY <2>1, <2>2
    <2>3. CASE damaged # {}
      BY <1>6, <1>10, <2>3 DEF Base
    <2>4. QED
      BY <2>2, <2>3
  <1>12. HeadersPresent(w)
    <2>1. \A s \in WithFrames(w) : w[s][1].kind = "root"
      <3>1. segments \subseteq Gens
        BY <1>0, BoundsAssumption DEF Gens
      <3>2. QED
        BY <1>0, <3>1 DEF WithFrames, SegmentsInv
    <2>2. ASSUME NEW p \in RootPlaces(w) PROVE FrameAt(w, p).root.gen <= p[1]
      <3>1. p \in Places(w) /\ FrameAt(w, p).kind = "root"
        BY DEF RootPlaces
      <3>2. p[1] \in Gens /\ p[2] \in RootAt(w, p[1]) /\ FrameAt(w, p) = w[p[1]][p[2]]
        BY <1>1, <3>1 DEF Placing, FrameAt, RootAt
      <3>3. QED
        BY <1>0, <3>2 DEF RootsAgree
    <2>3. QED
      BY <2>1, <2>2 DEF HeadersPresent
  <1>13. SealedComplete(w, t, r)
    <2>1. ASSUME NEW s \in ReplayedSegments(w, r) \ {ActiveSegment(w)} PROVE s \notin t
      BY <1>2 DEF ReplayedSegments, WithFrames
    <2>2. QED
      BY <2>1 DEF SealedComplete
  <1>14. Numbered(w, L, r)
    BY <1>7, <1>10, ReplayIsNumbered
  <1>15. /\ Cardinality(Replay(w, r)) = Len(L) - r.lsn
         /\ r.log \o ReplayedIds(w, r) = L
         /\ StrictSequence(w, r)
    BY <1>0, <1>7, <1>14, ReplayRestores
  <1>16. Restored(w, L, a, t, r)
    BY <1>2, <1>6, <1>7, <1>11, <1>12, <1>13, <1>15 DEF Restored
  <1>17. QED
    BY <1>3, <1>16 DEF r
-----------------------------------------------------------------------------
(* What the steps keep. *)

(* A segment keeps its header. *)
HeadsKept(w, v) == \A s \in Gens : w[s] # <<>> => v[s] # <<>> /\ v[s][1] = w[s][1]

LEMMA GrownHeads ==
    ASSUME NEW w, NEW a, SegmentsInv(w, a), NEW v \in [Gens -> Seq(Frames)],
           NEW b \in Gens, NEW X, Grown(w, v, b, X)
    PROVE  HeadsKept(w, v)
  <1> SUFFICES ASSUME NEW s \in Gens, w[s] # <<>> PROVE v[s] # <<>> /\ v[s][1] = w[s][1]
    BY DEF HeadsKept
  <1>1. CASE s # b
    BY <1>1 DEF Grown
  <1>2. CASE s = b
    <2>1. Len(w[s]) \in Nat /\ Len(w[s]) # 0
      BY SegmentLengths
    <2>2. Len(v[s]) # 0 /\ v[s][1] = w[s][1]
      BY <1>2, <2>1 DEF Grown
    <2>3. QED
      BY <2>2, EmptySeq
  <1>3. QED
    BY <1>1, <1>2

LEMMA HeaderOnDisk ==
    ASSUME NEW w, NEW a, SegmentsInv(w, a), NEW s \in Gens, w[s] # <<>>
    PROVE  1 \in RootAt(w, s) /\ OnDisk(w, w[s][1].root)
  <1>1. Len(w[s]) \in Nat /\ Len(w[s]) # 0
    BY SegmentLengths
  <1>2. w[s][1].kind = "root"
    BY DEF SegmentsInv
  <1>3. 1 \in RootAt(w, s)
    BY <1>1, <1>2 DEF RootAt
  <1>4. QED
    BY <1>3 DEF OnDisk

(* The frames of a sound directory are in segments up to the active one. *)
LEMMA UpToActive ==
    ASSUME NEW w, NEW a, SegmentsInv(w, a), NEW s \in Gens
    PROVE  /\ \A i \in TxAt(w, s) : s <= a /\ (s = a => i <= Len(w[a]))
           /\ \A i \in RootAt(w, s) : s <= a
  <1>1. ASSUME NEW i \in 1..Len(w[s]) PROVE s <= a /\ (s = a => i <= Len(w[a]))
    <2>1. Len(w[s]) \in Nat /\ (w[s] = <<>> <=> Len(w[s]) = 0)
      BY SegmentLengths
    <2>2. w[s] # <<>>
      BY <2>1
    <2>3. QED
      BY <2>1, <2>2 DEF SegmentsInv
  <1>2. QED
    BY <1>1 DEF TxAt, RootAt

LEMMA GroupRetained ==
    ASSUME NEW w, NEW v, NEW a \in Gens, NEW L, NEW M, NEW n, GroupAdded(w, v, a, L, M, n),
           HeadsKept(w, v), Sound(w, L, a), NEW r, r.gen \in Gens, Retained(w, L, r)
    PROVE  Retained(v, M, r)
  <1>0. w[r.gen] # <<>> /\ Covered(w, L, w[r.gen][1].root)
    BY DEF Retained
  <1>1. v[r.gen] # <<>> /\ v[r.gen][1] = w[r.gen][1]
    BY <1>0 DEF HeadsKept
  <1>2. w[r.gen][1].root \in Root
    <2>1. OnDisk(w, w[r.gen][1].root)
      BY <1>0, HeaderOnDisk DEF Sound
    <2>2. Stands(w, L, w[r.gen][1].root)
      BY <2>1, OnDiskAgrees DEF Sound
    <2>3. QED
      BY <2>2, RootTypes
  <1>3. Covered(v, M, w[r.gen][1].root)
    BY <1>0, <1>2, GroupCovered
  <1>4. QED
    BY <1>1, <1>3 DEF Retained

LEMMA GroupBase ==
    ASSUME NEW w, NEW v, NEW a \in Gens, NEW L, NEW M, NEW n, GroupAdded(w, v, a, L, M, n),
           HeadsKept(w, v), Sound(w, L, a), NEW r, Base(w, L, r)
    PROVE  Base(v, M, r)
  <1>0. OnDisk(w, r) /\ Covered(w, L, r)
    BY DEF Base
  <1>1. Stands(w, L, r)
    BY <1>0, OnDiskAgrees DEF Sound
  <1>2. r \in Root /\ r.gen \in Gens
    BY <1>1, RootTypes
  <1>3. OnDisk(v, r)
    BY <1>0 DEF GroupAdded, OnDisk
  <1>4. Covered(v, M, r)
    BY <1>0, <1>2, GroupCovered
  <1>5. ASSUME damaged = {}
        PROVE  /\ \A s \in Gens : \A i \in RootAt(v, s) : v[s][i].root.gen <= r.gen
               /\ r.gen # 0 => Retained(v, M, r)
    <2>1. \A s \in Gens : \A i \in RootAt(w, s) : w[s][i].root.gen <= r.gen
      BY <1>5 DEF Base
    <2>2. \A s \in Gens : \A i \in RootAt(v, s) : v[s][i].root.gen <= r.gen
      BY <2>1 DEF GroupAdded
    <2>3. ASSUME r.gen # 0 PROVE Retained(v, M, r)
      <3>1. Retained(w, L, r)
        BY <1>5, <2>3 DEF Base
      <3>2. QED
        BY <1>2, <3>1, GroupRetained
    <2>4. QED
      BY <2>2, <2>3
  <1>6. QED
    BY <1>3, <1>4, <1>5 DEF Base

LEMMA GroupSound ==
    ASSUME NEW w, NEW v, NEW a \in Gens, NEW L, NEW M \in Seq(1..MaxTx), NEW n,
           GroupAdded(w, v, a, L, M, n), Sound(w, L, a), SegmentsInv(v, a)
    PROVE  Sound(v, M, a)
  <1>0. SegmentsInv(w, a) /\ Holds(w, L) /\ RootsAgree(w, L)
    BY DEF Sound
  <1>1. Holds(v, M)
    BY <1>0, UpToActive, GroupHolds
  <1>2. RootsAgree(v, M)
    BY <1>0, UpToActive, GroupRootsAgree
  <1>3. QED
    BY <1>1, <1>2 DEF Sound

LEMMA RootRetained ==
    ASSUME NEW w, NEW v, NEW L, TxWithin(w, v), HeadsKept(w, v),
           NEW r, r.gen \in Gens, Retained(w, L, r)
    PROVE  Retained(v, L, r)
  <1>1. w[r.gen] # <<>> /\ Covered(w, L, w[r.gen][1].root)
    BY DEF Retained
  <1>2. v[r.gen] # <<>> /\ v[r.gen][1] = w[r.gen][1]
    BY <1>1 DEF HeadsKept
  <1>3. Covered(v, L, w[r.gen][1].root)
    BY <1>1, WithinCovered
  <1>4. QED
    BY <1>2, <1>3 DEF Retained

LEMMA RootBase ==
    ASSUME NEW w, NEW v, NEW a \in Gens, NEW q, RootAdded(w, v, a, q), HeadsKept(w, v),
           NEW L, NEW r, r.gen \in Gens, Base(w, L, r), damaged = {} => q.gen <= r.gen
    PROVE  Base(v, L, r)
  <1>0. OnDisk(w, r) /\ Covered(w, L, r) /\ TxWithin(w, v) /\ RootsWithin(w, v)
    BY DEF Base, RootAdded
  <1>1. OnDisk(v, r) /\ Covered(v, L, r)
    BY <1>0, WithinOnDisk, WithinCovered
  <1>2. ASSUME damaged = {}
        PROVE  /\ \A s \in Gens : \A i \in RootAt(v, s) : v[s][i].root.gen <= r.gen
               /\ r.gen # 0 => Retained(v, L, r)
    <2>1. \A s \in Gens : \A i \in RootAt(w, s) : w[s][i].root.gen <= r.gen
      BY <1>2 DEF Base
    <2>2. \A s \in Gens : \A i \in RootAt(v, s) : v[s][i].root.gen <= r.gen
      BY <1>2, <2>1 DEF RootAdded
    <2>3. ASSUME r.gen # 0 PROVE Retained(v, L, r)
      BY <1>0, <1>2, <2>3, RootRetained DEF Base
    <2>4. QED
      BY <2>2, <2>3
  <1>3. QED
    BY <1>1, <1>2 DEF Base

LEMMA RootSound ==
    ASSUME NEW w, NEW v, NEW a, NEW b \in Gens, NEW r, RootAdded(w, v, b, r), NEW L,
           Sound(w, L, a), SegmentsInv(v, b), Stands(w, L, r), r.gen <= b,
           OnDisk(w, r) \/ Newest(w, r)
    PROVE  Sound(v, L, b)
  <1>0. Holds(w, L) /\ RootsAgree(w, L) /\ TxWithin(v, w)
    BY DEF Sound, RootAdded
  <1>1. ASSUME NEW s \in Gens, NEW i \in RootAt(w, s)
        PROVE  Ordered(w[s][i].root, r) /\ Ordered(r, w[s][i].root)
    <2>1. CASE OnDisk(w, r)
      BY <1>0, <2>1, OnDiskAgrees
    <2>2. CASE Newest(w, r)
      <3>1. w[s][i].root.gen < r.gen /\ w[s][i].root.lsn <= r.lsn
        BY <2>2 DEF Newest
      <3>2. w[s][i].root.gen \in Nat /\ w[s][i].root.lsn \in Nat
        <4>1. Stands(w, L, w[s][i].root)
          BY <1>0 DEF RootsAgree
        <4>2. QED
          BY <4>1, RootTypes
      <3>3. r.gen \in Nat /\ r.lsn \in Nat
        BY RootTypes
      <3>4. QED
        BY <3>1, <3>2, <3>3 DEF Ordered
    <2>3. QED
      BY <2>1, <2>2
  <1>2. Holds(v, L)
    BY <1>0, WithinHolds
  <1>3. RootsAgree(v, L)
    BY <1>0, <1>1, RootRootsAgree
  <1>4. QED
    BY <1>2, <1>3 DEF Sound
-----------------------------------------------------------------------------
(* The invariant holds at first, and every step keeps it. *)

LEMMA InvFacts ==
    ASSUME IInv
    PROVE  /\ Sound(wal, applied, active)
           /\ Stands(wal, applied, root) /\ OnDisk(wal, root)
           /\ active \in Gens /\ active \in segments /\ active \in Nat
           /\ lsn \in Nat /\ nextId \in Nat /\ nextGen \in Nat
           /\ root.gen \in Nat /\ root.gen \in Gens /\ root.lsn \in Nat
           /\ root.gen <= active
  <1>1. Sound(wal, applied, active)
    BY DEF IInv, DiskInv, LogInv, Sound
  <1>2. OnDisk(wal, root)
    BY DEF IInv, BaseInv, Base
  <1>3. Stands(wal, applied, root)
    BY <1>1, <1>2, OnDiskAgrees DEF Sound
  <1>4. root.gen \in Nat /\ root.gen \in Gens /\ root.lsn \in Nat
    BY <1>3, RootTypes
  <1>5. active \in segments /\ active \in Gens /\ active \in Nat
    BY BoundsAssumption DEF IInv, DiskInv, SegmentsInv, Gens
  <1>6. lsn \in Nat
    BY LenProperties DEF IInv, LogInv, lsn
  <1>7. nextId \in Nat /\ nextGen \in Nat
    BY BoundsAssumption DEF IInv, LogInv, DiskInv
  <1>8. root.gen <= active
    <2>1. PICK s \in Gens : \E i \in RootAt(wal, s) : wal[s][i].root = root
      BY <1>2 DEF OnDisk
    <2>2. PICK i \in RootAt(wal, s) : wal[s][i].root = root
      BY <2>1
    <2>3. root.gen <= s
      BY <1>1, <2>2 DEF Sound, RootsAgree
    <2>4. s <= active
      BY <1>1, UpToActive DEF Sound
    <2>5. s \in Int
      BY DEF Gens
    <2>6. QED
      BY <1>4, <1>5, <2>3, <2>4, <2>5
  <1>9. QED
    BY <1>1, <1>2, <1>3, <1>4, <1>5, <1>6, <1>7, <1>8

LEMMA TornSegments ==
    ASSUME IInv
    PROVE  segments \subseteq Gens /\ \A s \in torn : s \in Gens /\ wal[s] = <<>>
  <1>1. segments \subseteq 0..MaxGen /\ torn \subseteq segments
    BY DEF IInv, DiskInv
  <1>2. 0..MaxGen \subseteq Gens
    BY BoundsAssumption DEF Gens
  <1>3. \A s \in torn : wal[s] = <<>>
    BY DEF IInv, DiskInv
  <1>4. QED
    BY <1>1, <1>2, <1>3

LEMMA InitInv ==
    ASSUME Init
    PROVE  IInv
  <1> DEFINE F == RootFrame(EmptyRoot)
  <1>0. /\ 0 \in Gens /\ Gens \subseteq Nat /\ MaxTx \in Nat /\ MaxGen \in Nat
    BY BoundsAssumption DEF Gens
  <1>1. EmptyRoot \in Root /\ F \in Frames /\ F.kind = "root" /\ F.root = EmptyRoot
    BY <1>0 DEF EmptyRoot, Root, RootFrame, Frames, RootFrames
  <1> HIDE DEF F
  <1>2. wal = [g \in Gens |-> IF g = 0 THEN <<F>> ELSE <<>>]
    BY DEF Init, F
  <1>3. /\ wal[0] = <<F>> /\ Len(wal[0]) = 1 /\ wal[0][1] = F /\ wal[0] # <<>>
        /\ \A s \in Gens : s # 0 => wal[s] = <<>> /\ Len(wal[s]) = 0
    BY <1>0, <1>2
  <1>4. wal \in [Gens -> Seq(Frames)]
    BY <1>1, <1>2
  <1>5. /\ \A s \in Gens : TxAt(wal, s) = {}
        /\ RootAt(wal, 0) = {1}
        /\ \A s \in Gens : s # 0 => RootAt(wal, s) = {}
    BY <1>1, <1>3 DEF TxAt, RootAt
  <1>6. SegmentsInv(wal, active)
    BY <1>0, <1>1, <1>3, <1>4 DEF Init, SegmentsInv
  <1>7. applied \in Seq(1..MaxTx) /\ Len(applied) = 0
    BY DEF Init
  <1>8. Stands(wal, applied, EmptyRoot)
    BY <1>0, <1>1, <1>5, <1>7 DEF Stands, EmptyRoot
  <1>9. ASSUME NEW s \in Gens, NEW i \in RootAt(wal, s)
        PROVE  s = 0 /\ wal[s][i].root = EmptyRoot
    BY <1>1, <1>3, <1>5
  <1>10. EmptyRoot.gen = 0 /\ EmptyRoot.lsn = 0 /\ EmptyRoot.files = {}
    BY DEF EmptyRoot
  <1>11. RootsAgree(wal, applied)
    BY <1>8, <1>9, <1>10 DEF RootsAgree, Ordered
  <1>12. Holds(wal, applied)
    BY <1>5 DEF Holds
  <1>13. DiskInv
    BY <1>0, <1>6 DEF Init, DiskInv
  <1>14. LogInv
    BY <1>0, <1>7, <1>10, <1>11, <1>12 DEF Init, LogInv, lsn
  <1>15. Base(wal, applied, root)
    <2>1. OnDisk(wal, EmptyRoot)
      BY <1>0, <1>1, <1>3, <1>5 DEF OnDisk
    <2>2. Covered(wal, applied, EmptyRoot)
      BY <1>7, <1>10 DEF Covered
    <2>3. QED
      BY <1>9, <1>10, <2>1, <2>2 DEF Init, Base
  <1>16. BaseInv
    BY <1>10, <1>15 DEF Init, BaseInv, Verifies
  <1>17. JobInv /\ CleanupInv /\ PendingInv
    BY DEF Init, JobInv, CleanupInv, PendingInv, NoJob, NoCleanup
  <1>18. QED
    BY <1>13, <1>14, <1>16, <1>17 DEF IInv

(* Steps that leave the frames, the log and the root alone. *)
LEMMA DiskUnchanged ==
    ASSUME DiskInv, UNCHANGED <<disk, active, nextGen>>
    PROVE  DiskInv'
  BY DEF DiskInv, SegmentsInv, disk

LEMMA LogUnchanged ==
    ASSUME LogInv, UNCHANGED <<wal, applied, root, walFrames, acked>>,
           nextId' \in 1..(MaxTx + 1), nextId <= nextId', nextId \in Int, lsn \in Int,
           \A i \in 1..lsn : applied[i] \in Int
    PROVE  LogInv'
  BY BoundsAssumption DEF LogInv, lsn

LEMMA BaseUnchanged ==
    ASSUME BaseInv, UNCHANGED <<wal, applied, root, files, damaged, status>>
    PROVE  BaseInv'
  BY DEF BaseInv, Base, Retained, Verifies

LEMMA JobUnchanged ==
    ASSUME JobInv, UNCHANGED <<status, job, cleanup, wal, applied, root, active, files,
                               damaged, torn, nextGen>>
    PROVE  JobInv'
  BY DEF JobInv, Installable, Verifies, NewRoot

LEMMA CleanupUnchanged ==
    ASSUME CleanupInv, UNCHANGED <<status, cleanup, wal, applied, root, active, files>>
    PROVE  CleanupInv'
  BY DEF CleanupInv

LEMMA LogNumbers ==
    ASSUME IInv
    PROVE  /\ nextId \in Int /\ lsn \in Int /\ lsn \in Nat
           /\ \A i \in 1..lsn : applied[i] \in Int
           /\ nextId \in 1..(MaxTx + 1) /\ nextId <= nextId
           /\ MaxTx \in Nat
  <1>1. applied \in Seq(1..MaxTx)
    BY DEF IInv, LogInv
  <1>2. \A i \in 1..lsn : applied[i] \in 1..MaxTx
    BY <1>1, ElementOfSeq DEF lsn
  <1>3. QED
    BY <1>2, InvFacts, BoundsAssumption DEF IInv, LogInv

LEMMA WriteGroupKeeps ==
    ASSUME IInv, NEW n \in 1..MaxGroup, WriteGroup(n)
    PROVE  IInv'
  <1>0. /\ status = "up" /\ pending = NoWrite /\ job.stage # "rotating"
        /\ nextId + n - 1 <= MaxTx /\ nextId' = nextId + n
        /\ pending' = [seg |-> active,
                       frames |-> [i \in 1..n |-> TxFrame(lsn + i, nextId + i - 1)]]
        /\ UNCHANGED <<disk, memory, job, cleanup, acked>>
    BY DEF WriteGroup, Ready
  <1>1. /\ UNCHANGED <<disk, active, nextGen>>
        /\ UNCHANGED <<wal, applied, root, walFrames, acked>>
        /\ UNCHANGED <<wal, applied, root, files, damaged, status>>
        /\ UNCHANGED <<status, job, cleanup, wal, applied, root, active, files, damaged,
                       torn, nextGen>>
    BY <1>0 DEF disk, memory
  <1>2. n \in Nat /\ n >= 1 /\ nextId \in Nat /\ lsn \in Nat /\ MaxTx \in Nat /\ nextId >= 1
    BY LogNumbers, BoundsAssumption
  <1>3. nextId' \in 1..(MaxTx + 1) /\ nextId <= nextId'
    BY <1>0, <1>2
  <1>4. DiskInv' /\ LogInv' /\ BaseInv' /\ JobInv' /\ CleanupInv'
    BY <1>1, <1>3, LogNumbers, DiskUnchanged, LogUnchanged, BaseUnchanged, JobUnchanged,
       CleanupUnchanged DEF IInv
  <1>5. PendingGroup'
    <2> DEFINE X == [i \in 1..n |-> TxFrame(lsn + i, nextId + i - 1)]
    <2>1. ASSUME NEW i \in 1..n
          PROVE  /\ X[i] \in TxFrames /\ X[i].lsn = lsn + i
                 /\ X[i].id < nextId + n /\ nextId <= X[i].id
      BY <1>0, <1>2 DEF TxFrame, TxFrames
    <2>2. X \in Seq(TxFrames) /\ Len(X) = n
      BY <1>2, <2>1
    <2> HIDE DEF X
    <2>3. pending'.seg = active /\ pending'.frames = X
      BY <1>0 DEF X
    <2>4. X # <<>>
      BY <1>2, <2>2, EmptySeq
    <2>5. lsn + n < nextId'
      <3>1. lsn < nextId
        BY DEF IInv, LogInv
      <3>2. QED
        BY <1>0, <1>2, <3>1
    <2>6. ASSUME NEW i \in 1..n PROVE X[i].id \notin ToSet(applied)
      <3>1. \A k \in 1..lsn : applied[k] < nextId /\ applied[k] \in Int
        BY LogNumbers DEF IInv, LogInv
      <3>2. DOMAIN applied = 1..lsn
        BY LenProperties DEF IInv, LogInv, lsn
      <3>3. X[i].id \in Int
        BY <2>1, BoundsAssumption DEF TxFrames
      <3>4. QED
        BY <1>2, <2>1, <3>1, <3>2, <3>3 DEF ToSet
    <2>7. lsn' = lsn /\ active' = active /\ applied' = applied
      BY <1>1 DEF lsn
    <2>8. QED
      BY <1>0, <2>1, <2>2, <2>3, <2>4, <2>5, <2>6, <2>7 DEF PendingGroup
  <1>6. QED
    BY <1>0, <1>4, <1>5 DEF IInv, PendingInv

LEMMA WriteFailsKeeps ==
    ASSUME IInv, WriteFails
    PROVE  IInv'
  <1>0. /\ status = "up" /\ pending # NoWrite /\ status' = "poisoned"
        /\ UNCHANGED <<disk, pending, applied, root, active, nextGen, walFrames, job,
                       cleanup, nextId, acked>>
        /\ UNCHANGED <<wal, files, damaged, segments, torn>>
    BY DEF WriteFails, disk
  <1>1. DiskInv' /\ LogInv'
    BY <1>0, LogNumbers, DiskUnchanged, LogUnchanged DEF IInv
  <1>2. BaseInv'
    BY <1>0 DEF IInv, BaseInv, Base, Retained, Verifies
  <1>3. JobInv'
    BY <1>0 DEF IInv, JobInv, Installable, Verifies, NewRoot
  <1>4. CleanupInv'
    BY <1>0 DEF IInv, CleanupInv
  <1>5. PendingInv'
    BY <1>0 DEF IInv, PendingInv, PendingGroup, PendingHeader, PendingRoot, Installable, lsn
  <1>6. QED
    BY <1>1, <1>2, <1>3, <1>4, <1>5 DEF IInv

LEMMA ReserveGenerationKeeps ==
    ASSUME IInv, ReserveGeneration
    PROVE  IInv'
  <1>0. /\ status = "up" /\ pending = NoWrite /\ job = NoJob /\ cleanup = NoCleanup
        /\ nextGen <= MaxGen /\ nextGen' = nextGen + 1
        /\ UNCHANGED <<segments, wal, torn, files, damaged, pending, status, applied,
                       root, active, walFrames, cleanup, nextId, acked>>
    BY DEF ReserveGeneration, Ready
  <1>1. \/ /\ catalogs' = catalogs \union {nextGen}
           /\ job' = [stage |-> "rotating", gen |-> nextGen]
        \/ catalogs' = catalogs /\ job' = job
    BY DEF ReserveGeneration
  <1>2. nextGen \in 1..MaxGen /\ nextGen > active /\ nextGen \in Nat /\ MaxGen \in Nat
    BY <1>0, InvFacts, BoundsAssumption DEF IInv, DiskInv
  <1>2a. nextGen \notin torn
    BY <1>2 DEF IInv, DiskInv
  <1>3. DiskInv'
    <2>0. /\ catalogs \subseteq 0..MaxGen /\ segments \subseteq 0..MaxGen
          /\ \A g \in catalogs \union segments : g < nextGen
          /\ catalogs' \subseteq catalogs \union {nextGen} /\ segments' = segments
      BY <1>0, <1>1 DEF IInv, DiskInv
    <2>1. catalogs' \subseteq 0..MaxGen
      <3>1. nextGen \in 0..MaxGen
        BY <1>2
      <3>2. QED
        BY <2>0, <3>1
    <2>2. ASSUME NEW g \in catalogs' \union segments' PROVE g < nextGen'
      <3>1. g = nextGen \/ (g \in catalogs \union segments /\ g \in 0..MaxGen)
        BY <2>0
      <3>2. CASE g = nextGen
        BY <1>0, <1>2, <3>2
      <3>3. CASE g \in catalogs \union segments /\ g \in 0..MaxGen
        <4>1. g < nextGen /\ g \in Nat
          BY <1>2, <2>0, <3>3
        <4>2. QED
          BY <1>0, <1>2, <4>1
      <3>4. QED
        BY <3>1, <3>2, <3>3
    <2>3. nextGen' \in 1..(MaxGen + 1)
      BY <1>0, <1>2
    <2>4. SegmentsInv(wal, active)'
      BY <1>0 DEF IInv, DiskInv, SegmentsInv
    <2>5. QED
      BY <1>0, <2>1, <2>2, <2>3, <2>4 DEF IInv, DiskInv
  <1>4. LogInv'
    BY <1>0, LogNumbers, LogUnchanged DEF IInv
  <1>5. BaseInv'
    BY <1>0, BaseUnchanged DEF IInv
  <1>6. JobInv'
    <2>1. CASE job' = [stage |-> "rotating", gen |-> nextGen]
      BY <1>0, <1>2, <1>2a, <2>1 DEF JobInv
    <2>2. CASE job' = job
      BY <1>0, <2>2 DEF JobInv, NoJob
    <2>3. QED
      BY <1>1, <2>1, <2>2
  <1>7. CleanupInv'
    BY <1>0, CleanupUnchanged DEF IInv
  <1>8. PendingInv'
    BY <1>0 DEF PendingInv
  <1>9. QED
    BY <1>3, <1>4, <1>5, <1>6, <1>7, <1>8 DEF IInv

LEMMA StartRotationKeeps ==
    ASSUME IInv, StartRotation
    PROVE  IInv'
  <1>0. /\ status = "up" /\ pending = NoWrite /\ job.stage = "rotating"
        /\ UNCHANGED <<wal, torn, catalogs, files, damaged, cleanup, nextId, acked>>
        /\ UNCHANGED <<status, applied, root, active, nextGen, walFrames>>
    BY DEF StartRotation, Ready, memory
  <1>1. \/ /\ segments' = segments \union {job.gen}
           /\ pending' = [seg |-> job.gen, frames |-> <<RootFrame(root)>>]
           /\ job' = job
        \/ job' = NoJob /\ segments' = segments /\ pending' = pending
    BY DEF StartRotation
  <1>2. /\ job.gen \in 1..MaxGen /\ job.gen > active /\ job.gen < nextGen
        /\ job.gen \notin torn /\ cleanup = NoCleanup
    BY <1>0 DEF IInv, JobInv
  <1>3. DiskInv'
    <2>0. job.gen \in 0..MaxGen /\ segments \subseteq 0..MaxGen
      BY <1>2 DEF IInv, DiskInv
    <2>1. segments' \subseteq 0..MaxGen /\ segments \subseteq segments'
      BY <1>1, <2>0
    <2>2. SegmentsInv(wal, active)'
      BY <1>0, <2>1 DEF IInv, DiskInv, SegmentsInv
    <2>3. \A g \in catalogs' \union segments' : g < nextGen'
      BY <1>0, <1>1, <1>2 DEF IInv, DiskInv
    <2>4. QED
      BY <1>0, <2>1, <2>2, <2>3 DEF IInv, DiskInv
  <1>4. LogInv'
    BY <1>0, LogNumbers, LogUnchanged DEF IInv
  <1>5. BaseInv'
    BY <1>0, BaseUnchanged DEF IInv
  <1>6. JobInv'
    BY <1>0, <1>1, <1>2 DEF IInv, JobInv, NoJob
  <1>7. CleanupInv'
    BY <1>0, CleanupUnchanged DEF IInv
  <1>8. PendingInv'
    BY <1>0, <1>1, <1>2 DEF PendingInv, PendingHeader
  <1>9. QED
    BY <1>3, <1>4, <1>5, <1>6, <1>7, <1>8 DEF IInv

(* The group that is being written, appended whole or in part. *)
LEMMA GroupAppended ==
    ASSUME IInv, PendingGroup, NEW X \in Seq(TxFrames), NEW M, M = applied \o Ids(X),
           \A i \in 1..Len(X) : X[i].lsn = lsn + i,
           NEW v, v = [wal EXCEPT ![active] = @ \o X]
    PROVE  /\ GroupAdded(wal, v, active, applied, M, Len(X))
           /\ Grown(wal, v, active, X)
           /\ HeadsKept(wal, v) /\ Sound(v, M, active)
           /\ Continued(applied, M, X) /\ M \in Seq(1..MaxTx)
  <1>0. /\ Sound(wal, applied, active) /\ active \in Gens /\ active \in segments
        /\ SegmentsInv(wal, active) /\ segments \subseteq 0..MaxGen
        /\ applied \in Seq(1..MaxTx) /\ active \in Int
    BY InvFacts DEF Sound
  <1>1. X \in Seq(Frames)
    BY SeqMonotonic DEF Frames
  <1>2. SegmentsInv(v, active) /\ Grown(wal, v, active, X)
    BY <1>0, <1>1, GrownSegments
  <1>3. M \in Seq(1..MaxTx) /\ Continued(applied, M, X)
    BY <1>0, GroupContinues DEF lsn
  <1>4. GroupAdded(wal, v, active, applied, M, Len(X))
    BY <1>0, <1>2, <1>3, AddingAGroup
  <1>5. v \in [Gens -> Seq(Frames)]
    BY <1>2 DEF SegmentsInv
  <1>6. HeadsKept(wal, v)
    BY <1>0, <1>2, <1>5, GrownHeads
  <1>7. Sound(v, M, active)
    BY <1>0, <1>2, <1>3, <1>4, GroupSound
  <1>8. QED
    BY <1>2, <1>3, <1>4, <1>6, <1>7

(* Which transactions the longer log holds. *)
LEMMA ContinuedElements ==
    ASSUME NEW L \in Seq(1..MaxTx), NEW M \in Seq(1..MaxTx), NEW X, Continued(L, M, X)
    PROVE  /\ ToSet(L) \subseteq ToSet(M)
           /\ \A i \in 1..Len(X) : X[i].id \in ToSet(M)
           /\ \A k \in 1..Len(M) : \/ k \in 1..Len(L) /\ M[k] = L[k]
                                   \/ \E i \in 1..Len(X) : M[k] = X[i].id
  <1>0. DOMAIN L = 1..Len(L) /\ DOMAIN M = 1..Len(M) /\ Len(L) \in Nat /\ Len(M) \in Nat
    BY LenProperties
  <1>1. /\ Len(X) \in Nat /\ Len(M) = Len(L) + Len(X)
        /\ \A i \in 1..Len(L) : M[i] = L[i]
        /\ \A i \in 1..Len(X) : M[Len(L) + i] = X[i].id
    BY DEF Continued
  <1>2. \A i \in 1..Len(X) : Len(L) + i \in 1..Len(M)
    BY <1>0, <1>1
  <1>3. \A i \in 1..Len(L) : i \in 1..Len(M)
    BY <1>0, <1>1
  <1>4. ASSUME NEW k \in 1..Len(M)
        PROVE  k \in 1..Len(L) \/ \E i \in 1..Len(X) : k = Len(L) + i
    <2>1. CASE k <= Len(L)
      BY <1>0, <2>1
    <2>2. CASE k > Len(L)
      <3>1. k - Len(L) \in 1..Len(X) /\ k = Len(L) + (k - Len(L))
        BY <1>0, <1>1, <2>2
      <3>2. QED
        BY <3>1
    <2>3. QED
      BY <1>0, <2>1, <2>2
  <1>5. QED
    BY <1>0, <1>1, <1>2, <1>3, <1>4 DEF ToSet

LEMMA SyncGroupKeeps ==
    ASSUME IInv, SyncGroup
    PROVE  IInv'
  <1>0. /\ status = "up" /\ pending # NoWrite /\ pending.frames[1].kind = "tx"
        /\ wal' = [wal EXCEPT ![pending.seg] = @ \o pending.frames]
        /\ applied' = applied \o Ids(pending.frames)
        /\ acked' = acked \union ToSet(Ids(pending.frames))
        /\ walFrames' = walFrames + Len(pending.frames)
        /\ pending' = NoWrite
        /\ UNCHANGED <<segments, torn, catalogs, files, damaged, status, root, active,
                       nextGen, job, cleanup, nextId>>
    BY DEF SyncGroup, WritingGroup
  <1>1. PendingGroup /\ job.stage # "rotating"
    <2>1. ASSUME NEW r, pending.frames = <<RootFrame(r)>> PROVE FALSE
      BY <1>0, <2>1 DEF RootFrame
    <2>2. QED
      BY <1>0, <2>1 DEF IInv, PendingInv, PendingHeader, PendingRoot
  <1> DEFINE X == pending.frames
             M == applied'
             v == wal'
  <1>2. /\ X \in Seq(TxFrames) /\ lsn + Len(X) < nextId
        /\ \A i \in 1..Len(X) : X[i].lsn = lsn + i /\ X[i].id < nextId
        /\ pending.seg = active
    BY <1>1 DEF PendingGroup
  <1> HIDE DEF X, M, v
  <1>3. M = applied \o Ids(X) /\ v = [wal EXCEPT ![active] = @ \o X]
    BY <1>0, <1>2 DEF X, M, v
  <1>4. /\ GroupAdded(wal, v, active, applied, M, Len(X))
        /\ Grown(wal, v, active, X)
        /\ HeadsKept(wal, v) /\ Sound(v, M, active)
        /\ Continued(applied, M, X) /\ M \in Seq(1..MaxTx)
    BY <1>1, <1>2, <1>3, GroupAppended
  <1>5. /\ Sound(wal, applied, active) /\ active \in Gens /\ active \in Nat
        /\ root.gen \in Gens /\ root.lsn \in Nat /\ lsn \in Nat
    BY InvFacts
  <1>6. applied \in Seq(1..MaxTx) /\ SegmentsInv(wal, active) /\ RootsAgree(wal, applied)
    BY <1>5 DEF Sound
  <1>7. /\ \A s \in Gens : RootAt(v, s) = RootAt(wal, s)
        /\ \A s \in Gens : \A i \in RootAt(wal, s) : v[s][i] = wal[s][i]
    BY <1>4 DEF GroupAdded
  <1>8. v[active][1] = wal[active][1]
    BY <1>4, <1>5, <1>6 DEF HeadsKept, SegmentsInv
  <1>9. \A r : Newest(wal, r) => Newest(v, r)
    BY <1>7 DEF Newest
  <1>10. DiskInv'
    <2>1. SegmentsInv(v, active)
      BY <1>4 DEF Sound
    <2>2. ASSUME NEW s \in torn PROVE v[s] = <<>>
      <3>1. s \in Gens /\ wal[s] = <<>> /\ wal[active] # <<>>
        BY <1>6, TornSegments DEF SegmentsInv
      <3>2. QED
        BY <1>4, <3>1 DEF Grown
    <2>3. QED
      BY <1>0, <2>1, <2>2 DEF v, IInv, DiskInv, SegmentsInv
  <1>11. LogInv'
    <2>1. Holds(v, M) /\ RootsAgree(v, M)
      BY <1>4 DEF Sound
    <2>2. /\ ToSet(applied) \subseteq ToSet(M)
          /\ \A i \in 1..Len(X) : X[i].id \in ToSet(M)
          /\ \A k \in 1..Len(M) : \/ k \in 1..Len(applied) /\ M[k] = applied[k]
                                  \/ \E i \in 1..Len(X) : M[k] = X[i].id
      BY <1>4, <1>6, ContinuedElements
    <2>3. \A k \in 1..Len(M) : M[k] < nextId
      BY <1>2, <2>2 DEF IInv, LogInv, lsn
    <2>4. acked' \subseteq ToSet(M)
      <3>1. /\ Ids(X) \in Seq(1..MaxTx) /\ Len(Ids(X)) = Len(X) /\ Len(X) \in Nat
            /\ \A i \in 1..Len(X) : Ids(X)[i] = X[i].id
        BY <1>2, IdsOfGroup
      <3>2. DOMAIN Ids(X) = 1..Len(X)
        BY <3>1, LenProperties
      <3>3. ToSet(Ids(X)) \subseteq ToSet(M)
        BY <2>2, <3>1, <3>2 DEF ToSet
      <3>4. acked \subseteq ToSet(applied) /\ acked' = acked \union ToSet(Ids(X))
        BY <1>0 DEF X, IInv, LogInv
      <3>5. QED
        BY <2>2, <3>3, <3>4
    <2>5. Len(M) = lsn + Len(X) /\ Len(X) \in Nat
      BY <1>4 DEF Continued, lsn
    <2>6. walFrames' = Len(M) - root.lsn
      <3>1. walFrames = lsn - root.lsn /\ walFrames' = walFrames + Len(X)
        BY <1>0 DEF X, IInv, LogInv
      <3>2. QED
        BY <1>5, <2>5, <3>1
    <2>7. M = applied' /\ v = wal' /\ Len(M) = lsn'
      BY DEF M, v, lsn
    <2>8. Len(M) < nextId
      BY <1>2, <2>5
    <2>9. nextId \in 1..(MaxTx + 1) /\ nextId' = nextId /\ root' = root
      BY <1>0 DEF IInv, LogInv
    <2>10. QED
      BY <1>4, <2>1, <2>3, <2>4, <2>6, <2>7, <2>8, <2>9 DEF LogInv
  <1>12. BaseInv'
    <2>1. Base(wal, applied, root) /\ Verifies(root)
      BY <1>0 DEF IInv, BaseInv
    <2>2. Base(v, M, root)
      BY <1>4, <1>5, <2>1, GroupBase
    <2>3. Base(wal, applied, root)'
      BY <1>0, <2>2 DEF Base, Retained, v, M
    <2>4. QED
      BY <1>0, <2>1, <2>3 DEF BaseInv, Verifies
  <1>13. JobInv'
    <2>1. ASSUME job.stage = "building"
          PROVE  Stands(v, M, NewRoot({})) /\ Newest(v, NewRoot({}))
      <3>1. NewRoot({}).gen = active
        BY <2>1 DEF IInv, JobInv, NewRoot
      <3>2. NewRoot({}).gen <= active
        BY <1>5, <3>1
      <3>3. Stands(wal, applied, NewRoot({})) /\ Newest(wal, NewRoot({}))
        BY <2>1 DEF IInv, JobInv
      <3>4. QED
        BY <1>4, <1>5, <1>9, <3>2, <3>3, GroupStands
    <2>2. ASSUME job.stage = "built"
          PROVE  Stands(v, M, job.root) /\ Newest(v, job.root)
      <3>1. job.root.gen = active /\ Stands(wal, applied, job.root) /\ Newest(wal, job.root)
        BY <2>2 DEF IInv, JobInv, Installable
      <3>2. job.root.gen <= active
        BY <1>5, <3>1
      <3>3. QED
        BY <1>4, <1>5, <1>9, <3>1, <3>2, GroupStands
    <2>3. NewRoot({})' = NewRoot({})
      BY <1>0 DEF NewRoot
    <2>4. QED
      BY <1>0, <1>1, <1>8, <2>1, <2>2, <2>3
      DEF v, M, IInv, JobInv, Installable, Verifies
  <1>14. CleanupInv'
    <2>1. ASSUME cleanup.stage = "running" PROVE Covered(v, M, cleanup.previous)
      <3>1. /\ wal[active][1] = RootFrame(cleanup.previous)
            /\ Covered(wal, applied, cleanup.previous)
        BY <2>1 DEF IInv, CleanupInv
      <3>2. wal[active][1].root = cleanup.previous
        BY <3>1 DEF RootFrame
      <3>3. OnDisk(wal, cleanup.previous)
        BY <1>5, <1>6, <3>2, HeaderOnDisk DEF SegmentsInv
      <3>4. Stands(wal, applied, cleanup.previous)
        BY <1>6, <3>3, OnDiskAgrees
      <3>5. cleanup.previous \in Root
        BY <3>4, RootTypes
      <3>6. QED
        BY <1>4, <1>5, <3>1, <3>5, GroupCovered
    <2>2. ASSUME cleanup.stage = "running"
          PROVE  \E i \in RootAt(v, active) : v[active][i].root = root
      <3>1. \E i \in RootAt(wal, active) : wal[active][i].root = root
        BY <2>2 DEF IInv, CleanupInv
      <3>2. QED
        BY <1>5, <1>7, <3>1
    <2>3. QED
      BY <1>0, <1>8, <2>1, <2>2 DEF v, M, IInv, CleanupInv
  <1>15. QED
    BY <1>0, <1>10, <1>11, <1>12, <1>13, <1>14 DEF IInv, PendingInv

(* The header of a new segment, the current root. *)
LEMMA HeaderAppended ==
    ASSUME IInv, NEW g \in segments, g > active,
           NEW v, v = [wal EXCEPT ![g] = @ \o <<RootFrame(root)>>]
    PROVE  /\ RootAdded(wal, v, g, root) /\ HeadsKept(wal, v) /\ Sound(v, applied, g)
           /\ \A s \in Gens : s # g => v[s] = wal[s]
           /\ v[g][1] = RootFrame(root)
           /\ g \in Gens /\ g \in Nat
  <1>1. /\ Sound(wal, applied, active) /\ Stands(wal, applied, root) /\ OnDisk(wal, root)
        /\ active \in Gens /\ active \in Nat /\ root.gen \in Nat
        /\ root.lsn \in Nat /\ root.gen <= active /\ root \in Root
    BY InvFacts, RootTypes
  <1>2. SegmentsInv(wal, active) /\ segments \subseteq 0..MaxGen
    BY <1>1 DEF Sound
  <1>3. g \in Gens /\ g \in Nat
    BY <1>2, BoundsAssumption DEF Gens
  <1> DEFINE X == <<RootFrame(root)>>
  <1>4. /\ X \in Seq(Frames) /\ X # <<>> /\ X[1].kind = "root" /\ X[1] = RootFrame(root)
        /\ Len(X) = 1
    <2>1. RootFrame(root) \in Frames /\ RootFrame(root).kind = "root"
      BY <1>1 DEF RootFrame, Frames, RootFrames
    <2>2. QED
      BY <2>1
  <1>5. v = [wal EXCEPT ![g] = @ \o X]
    OBVIOUS
  <1> HIDE DEF X
  <1>6. SegmentsInv(v, g) /\ Grown(wal, v, g, X)
    BY <1>2, <1>4, <1>5, GrownSegments
  <1>7. RootAdded(wal, v, g, root)
    BY <1>3, <1>6, AddingARoot DEF X
  <1>8. HeadsKept(wal, v)
    <2>1. v \in [Gens -> Seq(Frames)]
      BY <1>6 DEF SegmentsInv
    <2>2. QED
      BY <1>2, <1>3, <1>6, <2>1, GrownHeads
  <1>9. Sound(v, applied, g)
    <2>1. root.gen <= g
      BY <1>1, <1>3
    <2>2. QED
      BY <1>1, <1>3, <1>6, <1>7, <2>1, RootSound
  <1>10. v[g][1] = RootFrame(root)
    <2>1. wal[g] = <<>>
      BY <1>1, <1>2, <1>3 DEF SegmentsInv
    <2>2. Len(wal[g]) = 0
      BY <2>1, EmptySeq
    <2>3. QED
      BY <1>4, <1>6, <2>2 DEF Grown
  <1>11. QED
    BY <1>3, <1>6, <1>7, <1>8, <1>9, <1>10 DEF Grown

LEMMA FinishRotationKeeps ==
    ASSUME IInv, FinishRotation
    PROVE  IInv'
  <1> DEFINE g == job.gen
             v == wal'
  <1>0. /\ status = "up" /\ pending # NoWrite /\ job.stage = "rotating"
        /\ v = [wal EXCEPT ![g] = pending.frames]
        /\ active' = g
        /\ job' = [stage |-> "building", gen |-> g, log |-> applied, frontier |-> walFrames]
        /\ pending' = NoWrite
        /\ UNCHANGED <<segments, torn, catalogs, files, damaged, status, applied, root,
                       nextGen, walFrames, cleanup, nextId, acked>>
    BY DEF FinishRotation
  <1>1. /\ g \in 1..MaxGen /\ g > active /\ g < nextGen /\ g \notin torn
        /\ cleanup = NoCleanup
    BY <1>0 DEF IInv, JobInv
  <1>2. pending.frames = <<RootFrame(root)>> /\ g \in segments
    BY <1>0 DEF IInv, PendingInv, PendingHeader
  <1>3. /\ Sound(wal, applied, active) /\ Stands(wal, applied, root) /\ OnDisk(wal, root)
        /\ active \in Gens /\ active \in Nat /\ root.gen \in Nat /\ root.gen \in Gens
        /\ root.lsn \in Nat /\ root.gen <= active /\ lsn \in Nat /\ root \in Root
    BY InvFacts, RootTypes
  <1>4. /\ SegmentsInv(wal, active) /\ RootsAgree(wal, applied) /\ Holds(wal, applied)
        /\ applied \in Seq(1..MaxTx) /\ segments \subseteq 0..MaxGen
    BY <1>3 DEF Sound
  <1>5. g \in Nat /\ g \in Gens
    BY <1>1, BoundsAssumption DEF Gens
  <1> HIDE DEF g, v
  <1>6. v = [wal EXCEPT ![g] = @ \o <<RootFrame(root)>>]
    <2>1. wal[g] = <<>> /\ wal \in [Gens -> Seq(Frames)]
      BY <1>1, <1>3, <1>4, <1>5 DEF SegmentsInv
    <2>2. RootFrame(root) \in Frames
      BY <1>3 DEF RootFrame, Frames, RootFrames
    <2>3. <<RootFrame(root)>> \in Seq(Frames)
      BY <2>2
    <2>4. wal[g] \o <<RootFrame(root)>> = <<RootFrame(root)>>
      BY <2>1, <2>3, ConcatEmptySeq
    <2>5. QED
      BY <1>0, <1>2, <2>1, <2>4
  <1>7. /\ RootAdded(wal, v, g, root) /\ HeadsKept(wal, v) /\ Sound(v, applied, g)
        /\ \A s \in Gens : s # g => v[s] = wal[s]
        /\ v[g][1] = RootFrame(root)
    BY <1>1, <1>2, <1>6, HeaderAppended
  <1>8. SegmentsInv(v, g)
    BY <1>7 DEF Sound
  <1>13. DiskInv'
    <2>1. ASSUME NEW s \in torn PROVE v[s] = <<>>
      <3>1. s \in Gens /\ wal[s] = <<>> /\ s # g
        BY <1>1, TornSegments
      <3>2. QED
        BY <1>7, <3>1
    <2>2. files \subseteq 1..g
      <3>1. files \subseteq 1..active
        BY DEF IInv, DiskInv
      <3>2. 1..active \subseteq 1..g
        BY <1>1, <1>3, <1>5
      <3>3. QED
        BY <3>1, <3>2
    <2>3. QED
      BY <1>0, <1>8, <2>1, <2>2 DEF v, g, IInv, DiskInv, SegmentsInv
  <1>14. LogInv'
    BY <1>0, <1>7 DEF v, Sound, IInv, LogInv, lsn
  <1>15. BaseInv'
    <2>1. Base(wal, applied, root) /\ Verifies(root)
      BY <1>0 DEF IInv, BaseInv
    <2>2. root.gen <= root.gen
      BY <1>3
    <2>3. Base(v, applied, root)
      BY <1>3, <1>5, <1>7, <2>1, <2>2, RootBase
    <2>4. Base(wal, applied, root)'
      BY <1>0, <2>3 DEF v, Base, Retained
    <2>5. QED
      BY <1>0, <2>1, <2>4 DEF BaseInv, Verifies
  <1> DEFINE N == [gen |-> g, lsn |-> Len(applied), log |-> applied,
                   files |-> IF applied = <<>> THEN {} ELSE {g}]
  <1>16. N = NewRoot({})'
    BY <1>0 DEF g, NewRoot
  <1>17. /\ N.gen = g /\ N.lsn = lsn /\ N.log = applied /\ N.files \subseteq {g}
         /\ N \in Root
    <2>1. lsn \in 0..MaxTx
      BY <1>3, LogNumbers DEF IInv, LogInv
    <2>2. g \in 0..MaxGen
      BY <1>1 DEF g
    <2>3. QED
      BY <1>4, <2>1, <2>2 DEF Root, lsn
  <1> HIDE DEF N
  <1>18. ASSUME NEW s \in Gens, NEW i \in TxAt(v, s)
         PROVE  s < g /\ v[s][i].lsn \in 1..lsn
    <2>1. i \in TxAt(wal, s) /\ v[s][i] = wal[s][i]
      BY <1>7 DEF RootAdded, TxWithin
    <2>2. s <= active /\ s \in Int
      BY <1>4, <2>1, UpToActive DEF Gens
    <2>3. v[s][i].lsn \in 1..lsn
      BY <1>4, <2>1 DEF Holds, lsn
    <2>4. QED
      BY <1>1, <1>3, <1>5, <2>2, <2>3
  <1>19. Stands(v, applied, N)
    <2>1. N.files \subseteq 0..N.gen
      <3>1. g \in 0..g
        BY <1>5
      <3>2. QED
        BY <1>17, <3>1
    <2>2. ASSUME NEW s \in Gens, NEW i \in TxAt(v, s)
          PROVE  N.gen <= s <=> N.lsn < v[s][i].lsn
      <3>1. s \in Int
        BY DEF Gens
      <3>2. QED
        BY <1>3, <1>5, <1>17, <1>18, <3>1
    <2>3. N.lsn <= Len(applied) /\ Len(N.log) = N.lsn /\ \A i \in 1..N.lsn : N.log[i] = applied[i]
      BY <1>3, <1>17 DEF lsn
    <2>4. QED
      BY <1>17, <2>1, <2>2, <2>3 DEF Stands
  <1>20. Newest(v, N)
    <2>1. ASSUME NEW r, Stands(wal, applied, r), r.gen <= active
          PROVE  r.gen < N.gen /\ r.lsn <= N.lsn
      <3>1. r.gen \in Nat /\ r.lsn \in Nat /\ r.lsn <= lsn
        BY <2>1, RootTypes DEF Stands, lsn
      <3>2. QED
        BY <1>1, <1>3, <1>5, <1>17, <2>1, <3>1
    <2>2. ASSUME NEW s \in Gens, NEW i \in RootAt(v, s)
          PROVE  v[s][i].root.gen < N.gen /\ v[s][i].root.lsn <= N.lsn
      <3>1. CASE i \in RootAt(wal, s) /\ v[s][i] = wal[s][i]
        <4>1. Stands(wal, applied, wal[s][i].root) /\ wal[s][i].root.gen <= s
          BY <1>4, <3>1 DEF RootsAgree
        <4>2. wal[s][i].root.gen \in Nat /\ s \in Int
          BY <4>1, RootTypes DEF Gens
        <4>3. s <= active
          BY <1>4, <3>1, UpToActive
        <4>4. wal[s][i].root.gen <= active
          BY <1>3, <4>1, <4>2, <4>3
        <4>5. QED
          BY <2>1, <3>1, <4>1, <4>4
      <3>2. CASE v[s][i].root = root
        BY <1>3, <2>1, <3>2
      <3>3. QED
        BY <1>7, <3>1, <3>2 DEF RootAdded
    <2>3. QED
      BY <2>2 DEF Newest
  <1>21. JobInv'
    <2>1. active' \notin damaged'
      <3>1. damaged \subseteq files /\ files \subseteq 1..active
        BY DEF IInv, DiskInv
      <3>2. g \notin 1..active
        BY <1>1, <1>3, <1>5
      <3>3. QED
        BY <1>0, <3>1, <3>2 DEF g
    <2>2. root'.gen < active'
      <3>1. root.gen < g
        BY <1>1, <1>3, <1>5
      <3>2. QED
        BY <1>0, <3>1 DEF g
    <2>3. Stands(wal', applied', NewRoot({})') /\ Newest(wal', NewRoot({})')
      BY <1>0, <1>16, <1>19, <1>20 DEF v
    <2>4. wal'[active'][1] = RootFrame(root')
      BY <1>0, <1>7 DEF v, g
    <2>5. job'.frontier = Len(job'.log) - root'.lsn
      BY <1>0 DEF IInv, LogInv, lsn
    <2>6. /\ job'.stage = "building" /\ job'.gen = active' /\ job'.log \in Seq(1..MaxTx)
          /\ status' = "up" /\ cleanup' = NoCleanup
      BY <1>0, <1>1, <1>4 DEF g
    <2>7. QED
      BY <2>1, <2>2, <2>3, <2>4, <2>5, <2>6 DEF JobInv
  <1>22. CleanupInv'
    BY <1>0, <1>1 DEF CleanupInv, NoCleanup
  <1>23. QED
    BY <1>0, <1>13, <1>14, <1>15, <1>21, <1>22 DEF IInv, PendingInv

(* Files of the generation that is being built disturb nothing. *)
LEMMA FilesGrow ==
    ASSUME IInv, status = "up", job.stage = "building",
           files \subseteq files', files' \subseteq files \union {active},
           UNCHANGED <<segments, wal, torn, catalogs, damaged, pending, memory, cleanup,
                       nextId, acked>>,
           job'.stage \notin {"rotating", "none"} \/ job' = NoJob
    PROVE  DiskInv' /\ LogInv' /\ BaseInv' /\ CleanupInv' /\ PendingInv'
  <1>0. /\ UNCHANGED <<status, applied, root, active, nextGen, walFrames>>
        /\ UNCHANGED <<segments, wal, torn, catalogs, damaged, pending, cleanup, nextId,
                       acked>>
    BY DEF memory
  <1>1. /\ active \in Nat /\ root.gen \in Nat /\ root.gen < active /\ cleanup = NoCleanup
    BY InvFacts DEF IInv, JobInv
  <1>2. DiskInv'
    <2>1. files' \subseteq 1..active /\ damaged \subseteq files'
      <3>1. files \subseteq 1..active /\ damaged \subseteq files
        BY DEF IInv, DiskInv
      <3>2. active \in 1..active
        BY <1>1
      <3>3. QED
        BY <3>1, <3>2
    <2>2. SegmentsInv(wal, active)'
      BY <1>0 DEF IInv, DiskInv, SegmentsInv
    <2>3. QED
      BY <1>0, <2>1, <2>2 DEF IInv, DiskInv
  <1>3. LogInv'
    BY <1>0, LogNumbers, LogUnchanged DEF IInv
  <1>4. BaseInv'
    <2>1. Base(wal, applied, root)'
      BY <1>0 DEF IInv, BaseInv, Base, Retained
    <2>2. Verifies(root)'
      BY <1>0 DEF IInv, BaseInv, Verifies
    <2>3. QED
      BY <1>0, <2>1, <2>2 DEF BaseInv
  <1>5. CleanupInv'
    BY <1>0, <1>1 DEF CleanupInv, NoCleanup
  <1>6. PendingInv'
    <2>1. pending = NoWrite \/ PendingGroup
      BY DEF IInv, PendingInv
    <2>2. PendingGroup => PendingGroup'
      BY <1>0 DEF PendingGroup, lsn
    <2>3. job'.stage # "rotating"
      BY DEF NoJob
    <2>4. QED
      BY <1>0, <2>1, <2>2, <2>3 DEF PendingInv
  <1>7. QED
    BY <1>2, <1>3, <1>4, <1>5, <1>6

LEMMA BuildKeeps ==
    ASSUME IInv, Build
    PROVE  IInv'
  <1>0. /\ status = "up" /\ job.stage = "building"
        /\ UNCHANGED <<segments, wal, torn, catalogs, damaged, pending, memory, cleanup,
                       nextId, acked>>
    BY DEF Build
  <1>1. PICK kept \in SUBSET root.files :
           /\ job' = [stage |-> "built", root |-> NewRoot(kept), frontier |-> job.frontier]
           /\ files' = files \union (NewRoot(kept).files \ kept)
    BY DEF Build
  <1> DEFINE E == NewRoot({})
             N == NewRoot(kept)
  <1>2. /\ job.gen = active /\ root.gen < active /\ active \notin damaged
        /\ Stands(wal, applied, E) /\ Newest(wal, E)
        /\ wal[active][1] = RootFrame(root)
        /\ job.frontier = Len(job.log) - root.lsn
        /\ cleanup = NoCleanup
    BY <1>0 DEF IInv, JobInv
  <1>3. /\ Stands(wal, applied, root) /\ active \in Nat /\ root.gen \in Nat
        /\ root \in Root
    BY InvFacts, RootTypes
  <1>4. /\ N.gen = active /\ E.gen = active /\ N.lsn = E.lsn /\ N.log = E.log
        /\ N.files \subseteq kept \union {active}
        /\ E.files \subseteq N.files
        /\ N = [gen |-> E.gen, lsn |-> E.lsn, log |-> E.log, files |-> N.files]
        /\ N.lsn = Len(job.log)
    BY <1>2 DEF NewRoot
  <1>5. Verifies(root)
    BY <1>0 DEF IInv, BaseInv
  <1> HIDE DEF E, N
  <1>6. files \subseteq files' /\ files' \subseteq files \union {active}
    BY <1>1, <1>4 DEF N
  <1>7. N.files \subseteq files' \ damaged
    <2>1. kept \subseteq files \ damaged
      BY <1>5 DEF Verifies
    <2>2. files' = files \union (N.files \ kept)
      BY <1>1 DEF N
    <2>3. QED
      BY <1>2, <1>4, <2>1, <2>2
  <1>8. Stands(wal, applied, N)
    <2>1. E \in Root
      BY <1>2, RootTypes
    <2>2. kept \subseteq 0..root.gen
      BY <1>3 DEF Stands
    <2>3. N.files \subseteq 0..active
      <3>1. active \in 0..active
        BY <1>3
      <3>2. 0..root.gen \subseteq 0..active
        BY <1>2, <1>3
      <3>3. QED
        BY <1>4, <2>2, <3>1, <3>2
    <2>4. 0..active \subseteq 0..MaxGen
      <3>1. active \in 0..MaxGen /\ MaxGen \in Nat
        BY <1>4, <2>1, BoundsAssumption DEF Root
      <3>2. QED
        BY <3>1
    <2>5. N \in Root
      <3>1. N.files \subseteq 0..MaxGen
        BY <2>3, <2>4
      <3>2. QED
        BY <1>4, <2>1, <3>1 DEF Root
    <2>6. QED
      BY <1>2, <1>4, <2>3, <2>5 DEF Stands
  <1>9. Newest(wal, N)
    BY <1>2, <1>4 DEF Newest
  <1>10. JobInv'
    <2>1. UNCHANGED <<status, applied, root, active, nextGen, wal, damaged, cleanup>>
      BY <1>0 DEF memory
    <2>2. /\ job'.stage = "built" /\ job'.root = N /\ job'.frontier = N.lsn - root.lsn
      BY <1>1, <1>2, <1>4 DEF N
    <2>3. Installable(job.root)'
      BY <1>2, <1>4, <1>7, <1>8, <1>9, <2>1, <2>2 DEF Installable
    <2>4. Verifies(job.root)'
      BY <1>7, <2>1, <2>2 DEF Verifies
    <2>5. QED
      BY <1>0, <1>2, <2>1, <2>2, <2>3, <2>4 DEF JobInv
  <1>11. job'.stage \notin {"rotating", "none"}
    BY <1>1
  <1>12. QED
    BY <1>0, <1>6, <1>10, <1>11, FilesGrow DEF IInv

LEMMA AbandonCheckpointKeeps ==
    ASSUME IInv, AbandonCheckpoint
    PROVE  IInv'
  <1>0. /\ status = "up" /\ job.stage = "building" /\ job' = NoJob
        /\ files' \in {files, files \union {job.gen}}
        /\ UNCHANGED <<segments, wal, torn, catalogs, damaged, pending, memory, cleanup,
                       nextId, acked>>
    BY DEF AbandonCheckpoint
  <1>1. job.gen = active
    BY <1>0 DEF IInv, JobInv
  <1>2. files \subseteq files' /\ files' \subseteq files \union {active}
    BY <1>0, <1>1
  <1>3. JobInv'
    BY <1>0 DEF JobInv, NoJob, memory
  <1>4. QED
    BY <1>0, <1>2, <1>3, FilesGrow DEF IInv

LEMMA StartInstallKeeps ==
    ASSUME IInv, StartInstall
    PROVE  IInv'
  <1>0. /\ status = "up" /\ pending = NoWrite /\ job.stage = "built"
        /\ pending' = [seg |-> active, frames |-> <<RootFrame(job.root)>>]
        /\ UNCHANGED <<disk, memory, job, cleanup, nextId, acked>>
        /\ UNCHANGED <<status, applied, root, active, nextGen, walFrames>>
        /\ UNCHANGED <<segments, wal, torn, catalogs, files, damaged>>
    BY DEF StartInstall, Ready, memory, disk
  <1>1. DiskInv' /\ LogInv' /\ BaseInv' /\ JobInv' /\ CleanupInv'
    BY <1>0, LogNumbers, DiskUnchanged, LogUnchanged, BaseUnchanged, JobUnchanged,
       CleanupUnchanged DEF IInv
  <1>2. PendingInv'
    <2>1. Installable(job.root)
      BY <1>0 DEF IInv, JobInv
    <2>2. pending'.frames[1].root = job.root /\ pending'.seg = active
      BY <1>0 DEF RootFrame
    <2>3. pending'.frames = <<RootFrame(pending'.frames[1].root)>>
      BY <1>0, <2>2
    <2>4. Installable(job.root)'
      BY <1>0, <2>1 DEF Installable
    <2>5. Installable(pending.frames[1].root)'
      BY <1>0, <2>2, <2>4 DEF Installable
    <2>6. QED
      BY <1>0, <2>2, <2>3, <2>5 DEF PendingInv, PendingRoot
  <1>3. QED
    BY <1>1, <1>2 DEF IInv

(* A root that is newer than all, over a covered one whose segment it joins. *)
LEMMA InstalledBase ==
    ASSUME NEW w, NEW v, NEW a \in Gens, NEW L, NEW q, NEW r, RootAdded(w, v, a, r),
           HeadsKept(w, v), Sound(w, L, a), Stands(w, L, r), Newest(w, r), r.gen = a,
           w[a][1] = RootFrame(q), q.gen < a, OnDisk(w, q), Covered(w, L, q),
           q.files \subseteq files
    PROVE  Base(v, L, r) /\ Covered(v, L, q)
  <1>0. TxWithin(w, v)
    BY DEF RootAdded
  <1>1. OnDisk(v, r)
    BY DEF RootAdded, OnDisk
  <1>2. Covered(v, L, q)
    BY <1>0, WithinCovered
  <1>3. Covered(v, L, r)
    <2>1. q.lsn <= r.lsn
      BY DEF Newest, OnDisk
    <2>2. Stands(w, L, q)
      BY OnDiskAgrees DEF Sound
    <2>3. q.lsn \in Nat /\ r.lsn \in Nat
      BY <2>2, RootTypes
    <2>4. Len(L) \in Nat
      BY LenProperties DEF Sound
    <2>5. \A n \in (r.lsn + 1)..Len(L) : n \in (q.lsn + 1)..Len(L)
      BY <2>1, <2>3, <2>4
    <2>6. QED
      BY <1>2, <2>5 DEF Covered
  <1>4. ASSUME NEW s \in Gens, NEW i \in RootAt(v, s) PROVE v[s][i].root.gen <= r.gen
    <2>1. r.gen \in Nat
      BY RootTypes
    <2>2. CASE i \in RootAt(w, s) /\ v[s][i] = w[s][i]
      <3>1. w[s][i].root.gen < r.gen
        BY <2>2 DEF Newest
      <3>2. Stands(w, L, w[s][i].root)
        BY <2>2 DEF Sound, RootsAgree
      <3>3. w[s][i].root.gen \in Nat
        BY <3>2, RootTypes
      <3>4. QED
        BY <2>1, <2>2, <3>1, <3>3
    <2>3. CASE v[s][i].root = r
      BY <2>1, <2>3
    <2>4. QED
      BY <2>2, <2>3 DEF RootAdded
  <1>5. Retained(v, L, r)
    <2>1. w[a] # <<>>
      BY DEF Sound, SegmentsInv
    <2>2. v[a] # <<>> /\ v[a][1] = RootFrame(q)
      BY <2>1 DEF HeadsKept
    <2>3. v[a][1].root = q
      BY <2>2 DEF RootFrame
    <2>4. QED
      BY <1>2, <2>2, <2>3 DEF Retained
  <1>6. QED
    BY <1>1, <1>2, <1>3, <1>4, <1>5 DEF Base

(* The root that is being published, appended to the active segment. *)
LEMMA RootAppended ==
    ASSUME IInv, NEW r, Installable(r), NEW v, v = [wal EXCEPT ![active] = @ \o <<RootFrame(r)>>]
    PROVE  /\ RootAdded(wal, v, active, r) /\ HeadsKept(wal, v) /\ Sound(v, applied, active)
           /\ \A s \in Gens : s # active => v[s] = wal[s]
           /\ v[active][1] = RootFrame(root)
           /\ Stands(v, applied, r)
  <1>0. /\ Sound(wal, applied, active) /\ active \in Gens /\ active \in segments
        /\ active \in Nat
    BY InvFacts
  <1>1. /\ Stands(wal, applied, r) /\ Newest(wal, r) /\ r.gen = active
        /\ wal[active][1] = RootFrame(root)
    BY DEF Installable
  <1>2. SegmentsInv(wal, active) /\ segments \subseteq 0..MaxGen
    BY <1>0 DEF Sound
  <1> DEFINE X == <<RootFrame(r)>>
  <1>3. X \in Seq(Frames)
    <2>1. r \in Root /\ r.lsn \in Nat
      BY <1>1, RootTypes
    <2>2. RootFrame(r) \in Frames
      BY <2>1 DEF RootFrame, Frames, RootFrames
    <2>3. QED
      BY <2>2
  <1>4. v = [wal EXCEPT ![active] = @ \o X]
    OBVIOUS
  <1> HIDE DEF X
  <1>5. SegmentsInv(v, active) /\ Grown(wal, v, active, X)
    BY <1>0, <1>2, <1>3, <1>4, GrownSegments
  <1>6. RootAdded(wal, v, active, r)
    BY <1>0, <1>5, AddingARoot DEF X
  <1>7. HeadsKept(wal, v)
    <2>1. v \in [Gens -> Seq(Frames)]
      BY <1>5 DEF SegmentsInv
    <2>2. QED
      BY <1>0, <1>2, <1>5, <2>1, GrownHeads
  <1>8. Sound(v, applied, active)
    <2>1. r.gen <= active
      BY <1>0, <1>1
    <2>2. QED
      BY <1>0, <1>1, <1>5, <1>6, <2>1, RootSound
  <1>9. \A s \in Gens : s # active => v[s] = wal[s]
    BY <1>5 DEF Grown
  <1>10. v[active][1] = RootFrame(root)
    BY <1>0, <1>1, <1>2, <1>7 DEF HeadsKept, SegmentsInv
  <1>11. Stands(v, applied, r)
    <2>1. TxWithin(v, wal)
      BY <1>6 DEF RootAdded
    <2>2. QED
      BY <1>1, <2>1, WithinStands
  <1>12. QED
    BY <1>6, <1>7, <1>8, <1>9, <1>10, <1>11

LEMMA FinishInstallKeeps ==
    ASSUME IInv, FinishInstall
    PROVE  IInv'
  <1> DEFINE r == job.root
             v == wal'
  <1>0. /\ status = "up" /\ pending # NoWrite /\ job.stage = "built" /\ ~WritingGroup
        /\ v = [wal EXCEPT ![pending.seg] = @ \o pending.frames]
        /\ root' = r
        /\ walFrames' = walFrames - job.frontier
        /\ cleanup' = [stage |-> "running", previous |-> root, current |-> r]
        /\ job' = NoJob /\ pending' = NoWrite
        /\ UNCHANGED <<segments, torn, catalogs, files, damaged, status, applied, active,
                       nextGen, nextId, acked>>
    BY DEF FinishInstall, FramesAfterInstall
  <1>1. /\ Installable(r) /\ Verifies(r) /\ job.frontier = r.lsn - root.lsn
    BY <1>0 DEF IInv, JobInv
  <1>2. pending.seg = active /\ pending.frames = <<RootFrame(r)>>
    <2>1. ASSUME PendingGroup PROVE FALSE
      <3>1. pending.frames \in Seq(TxFrames) /\ pending.frames # <<>>
        BY <2>1 DEF PendingGroup
      <3>2. 1 \in 1..Len(pending.frames)
        BY <3>1, EmptySeq
      <3>3. pending.frames[1] \in TxFrames
        BY <3>1, <3>2, ElementOfSeq
      <3>4. QED
        BY <1>0, <3>3 DEF WritingGroup, TxFrames
    <2>2. QED
      BY <1>0, <2>1 DEF IInv, PendingInv, PendingRoot
  <1>3. /\ Sound(wal, applied, active) /\ Stands(wal, applied, root) /\ OnDisk(wal, root)
        /\ active \in Gens /\ active \in Nat /\ root.gen \in Nat /\ root.gen \in Gens
        /\ root.lsn \in Nat /\ lsn \in Nat
    BY InvFacts
  <1>4. v = [wal EXCEPT ![active] = @ \o <<RootFrame(r)>>]
    BY <1>0, <1>2
  <1> HIDE DEF r, v
  <1>5. /\ RootAdded(wal, v, active, r) /\ HeadsKept(wal, v) /\ Sound(v, applied, active)
        /\ \A s \in Gens : s # active => v[s] = wal[s]
        /\ v[active][1] = RootFrame(root)
        /\ Stands(v, applied, r)
    BY <1>1, <1>4, RootAppended
  <1>6. /\ Stands(wal, applied, r) /\ Newest(wal, r) /\ r.gen = active
        /\ wal[active][1] = RootFrame(root) /\ root.gen < active
    BY <1>1 DEF Installable
  <1>7. Covered(wal, applied, root) /\ root.files \subseteq files
    BY <1>0 DEF IInv, BaseInv, Base, Verifies
  <1>8. Base(v, applied, r) /\ Covered(v, applied, root)
    BY <1>3, <1>5, <1>6, <1>7, InstalledBase
  <1>9. r.lsn \in Nat
    BY <1>6, RootTypes
  <1>10. DiskInv'
    <2>1. SegmentsInv(v, active)
      BY <1>5 DEF Sound
    <2>2. ASSUME NEW s \in torn PROVE v[s] = <<>>
      <3>1. s \in Gens /\ wal[s] = <<>>
        BY TornSegments
      <3>2. wal[active] # <<>>
        BY <1>3 DEF Sound, SegmentsInv
      <3>3. QED
        BY <1>5, <3>1, <3>2
    <2>3. QED
      BY <1>0, <2>1, <2>2 DEF v, IInv, DiskInv, SegmentsInv
  <1>11. LogInv'
    <2>1. walFrames' = lsn - r.lsn
      <3>1. walFrames = lsn - root.lsn
        BY DEF IInv, LogInv
      <3>2. QED
        BY <1>0, <1>1, <1>3, <1>9, <3>1
    <2>2. Holds(v, applied) /\ RootsAgree(v, applied)
      BY <1>5 DEF Sound
    <2>3. QED
      BY <1>0, <2>1, <2>2 DEF v, r, IInv, LogInv, lsn
  <1>12. BaseInv'
    <2>1. Base(wal, applied, root)'
      BY <1>0, <1>8 DEF v, r, Base, Retained
    <2>2. QED
      BY <1>0, <1>1, <2>1 DEF r, BaseInv, Verifies
  <1>13. JobInv'
    BY <1>0 DEF JobInv, NoJob
  <1>14. CleanupInv'
    <2>1. \E i \in RootAt(v, active) : v[active][i].root = r
      BY <1>5 DEF RootAdded
    <2>2. QED
      BY <1>0, <1>5, <1>6, <1>7, <1>8, <2>1 DEF v, r, CleanupInv
  <1>15. QED
    BY <1>0, <1>10, <1>11, <1>12, <1>13, <1>14 DEF IInv, PendingInv

LEMMA CleanupEndsKeeps ==
    ASSUME IInv, CleanupEnds
    PROVE  IInv'
  <1>0. /\ status = "up" /\ cleanup.stage = "running" /\ cleanup' = NoCleanup
        /\ UNCHANGED <<disk, pending, memory, job, nextId, acked>>
        /\ UNCHANGED <<status, applied, root, active, nextGen, walFrames>>
        /\ UNCHANGED <<segments, wal, torn, catalogs, files, damaged>>
    BY DEF CleanupEnds, memory, disk
  <1>1. job = NoJob
    BY <1>0 DEF IInv, JobInv, NoCleanup
  <1>2. DiskInv' /\ LogInv' /\ BaseInv'
    BY <1>0, LogNumbers, DiskUnchanged, LogUnchanged, BaseUnchanged DEF IInv
  <1>3. JobInv' /\ CleanupInv'
    BY <1>0, <1>1 DEF JobInv, NoJob, CleanupInv, NoCleanup
  <1>4. PendingInv'
    BY <1>0, <1>1 DEF IInv, PendingInv, PendingGroup, NoJob, lsn
  <1>5. QED
    BY <1>2, <1>3, <1>4 DEF IInv

(* What is known while cleanup runs. *)
LEMMA WhileCleaning ==
    ASSUME IInv, status = "up", cleanup.stage = "running"
    PROVE  /\ job = NoJob /\ (pending = NoWrite \/ PendingGroup)
           /\ cleanup.current = root /\ root.gen = active
           /\ wal[active][1] = RootFrame(cleanup.previous)
           /\ wal[active][1].root = cleanup.previous
           /\ cleanup.previous.gen < active /\ cleanup.previous.gen \in Nat
           /\ cleanup.previous.lsn <= root.lsn /\ cleanup.previous.lsn \in Nat
           /\ cleanup.previous.files \subseteq files
           /\ Stands(wal, applied, cleanup.previous)
           /\ Covered(wal, applied, cleanup.previous)
           /\ \E i \in RootAt(wal, active) : wal[active][i].root = root
  <1>1. job = NoJob
    BY DEF IInv, JobInv, NoCleanup
  <1>2. pending = NoWrite \/ PendingGroup
    BY <1>1 DEF IInv, PendingInv, NoJob
  <1>3. /\ cleanup.current = root /\ root.gen = active
        /\ wal[active][1] = RootFrame(cleanup.previous)
        /\ cleanup.previous.gen < active
        /\ cleanup.previous.files \subseteq files
        /\ Covered(wal, applied, cleanup.previous)
        /\ \E i \in RootAt(wal, active) : wal[active][i].root = root
    BY DEF IInv, CleanupInv
  <1>4. wal[active][1].root = cleanup.previous
    BY <1>3 DEF RootFrame
  <1>5. /\ Sound(wal, applied, active) /\ OnDisk(wal, root) /\ active \in Gens
        /\ active \in Nat
    BY InvFacts
  <1>6. OnDisk(wal, cleanup.previous)
    <2>1. SegmentsInv(wal, active) /\ wal[active] # <<>>
      BY <1>5 DEF Sound, SegmentsInv
    <2>2. QED
      BY <1>4, <1>5, <2>1, HeaderOnDisk
  <1>7. Stands(wal, applied, cleanup.previous) /\ Ordered(cleanup.previous, root)
    BY <1>5, <1>6, OnDiskAgrees DEF Sound
  <1>8. cleanup.previous.gen \in Nat /\ cleanup.previous.lsn \in Nat
    BY <1>7, RootTypes
  <1>9. cleanup.previous.lsn <= root.lsn
    BY <1>3, <1>5, <1>7, <1>8 DEF Ordered
  <1>10. QED
    BY <1>1, <1>2, <1>3, <1>4, <1>7, <1>8, <1>9

(* A segment below the previous root holds nothing that recovery needs. *)
LEMMA SegmentRemoved ==
    ASSUME IInv, status = "up", cleanup.stage = "running",
           NEW d \in segments, d < cleanup.previous.gen, NEW v, v = [wal EXCEPT ![d] = <<>>]
    PROVE  /\ TxWithin(v, wal) /\ RootsWithin(v, wal)
           /\ \A s \in Gens : s # d => v[s] = wal[s]
           /\ v[d] = <<>> /\ v \in [Gens -> Seq(Frames)] /\ d < active
           /\ Covered(v, applied, cleanup.previous) /\ Covered(v, applied, root)
  <1>0. /\ root.gen = active /\ cleanup.previous.gen < active
        /\ cleanup.previous.gen \in Nat /\ cleanup.previous.lsn <= root.lsn
        /\ cleanup.previous.lsn \in Nat
        /\ Stands(wal, applied, cleanup.previous)
        /\ Covered(wal, applied, cleanup.previous)
    BY WhileCleaning
  <1>1. /\ Sound(wal, applied, active) /\ active \in Nat /\ root.lsn \in Nat /\ lsn \in Nat
    BY InvFacts
  <1>2. d \in Gens /\ d \in Int
    BY TornSegments DEF Gens
  <1>3. /\ wal \in [Gens -> Seq(Frames)]
    BY <1>1 DEF Sound, SegmentsInv
  <1>4. v \in [Gens -> Seq(Frames)] /\ v[d] = <<>> /\ \A s \in Gens : s # d => v[s] = wal[s]
    BY <1>2, <1>3, EmptySeq
  <1>5. Len(v[d]) = 0
    BY <1>4, EmptySeq
  <1>6. TxAt(v, d) = {} /\ RootAt(v, d) = {}
    BY <1>5 DEF TxAt, RootAt
  <1>7. ASSUME NEW s \in Gens, s # d PROVE TxAt(v, s) = TxAt(wal, s) /\ RootAt(v, s) = RootAt(wal, s)
    BY <1>4, <1>7 DEF TxAt, RootAt
  <1>8. TxWithin(v, wal) /\ RootsWithin(v, wal)
    BY <1>4, <1>6, <1>7 DEF TxWithin, RootsWithin
  <1>9. Covered(v, applied, cleanup.previous)
    <2> SUFFICES ASSUME NEW n \in (cleanup.previous.lsn + 1)..Len(applied)
                 PROVE  \E s \in Gens : \E i \in TxAt(v, s) : v[s][i].lsn = n
      BY DEF Covered
    <2>1. PICK s \in Gens : \E i \in TxAt(wal, s) : wal[s][i].lsn = n
      BY <1>0 DEF Covered
    <2>2. PICK i \in TxAt(wal, s) : wal[s][i].lsn = n
      BY <2>1
    <2>3. cleanup.previous.lsn < n
      BY <1>0, <1>1 DEF lsn
    <2>4. cleanup.previous.gen <= s
      BY <1>0, <2>2, <2>3 DEF Stands
    <2>5. s # d
      BY <1>0, <1>2, <2>4
    <2>6. QED
      BY <1>4, <1>7, <2>2, <2>5
  <1>10. Covered(v, applied, root)
    <2>1. \A n \in (root.lsn + 1)..Len(applied) : n \in (cleanup.previous.lsn + 1)..Len(applied)
      BY <1>0, <1>1 DEF lsn
    <2>2. QED
      BY <1>9, <2>1 DEF Covered
  <1>11. QED
    BY <1>0, <1>1, <1>2, <1>4, <1>8, <1>9, <1>10

LEMMA CleanupStepKeeps ==
    ASSUME IInv, CleanupStep
    PROVE  IInv'
  <1>0. /\ status = "up" /\ cleanup.stage = "running"
        /\ UNCHANGED <<pending, memory, job, cleanup, nextId, acked>>
        /\ UNCHANGED <<status, applied, root, active, nextGen, walFrames>>
    BY DEF CleanupStep, memory
  <1>1. /\ job = NoJob /\ (pending = NoWrite \/ PendingGroup)
        /\ cleanup.current = root /\ root.gen = active
        /\ wal[active][1] = RootFrame(cleanup.previous)
        /\ wal[active][1].root = cleanup.previous
        /\ cleanup.previous.gen < active
        /\ cleanup.previous.files \subseteq files
        /\ Covered(wal, applied, cleanup.previous)
        /\ \E i \in RootAt(wal, active) : wal[active][i].root = root
    BY <1>0, WhileCleaning
  <1>2. JobInv'
    BY <1>0, <1>1 DEF IInv, JobInv, NoJob
  <1>3. PendingInv'
    <2>1. PendingGroup => PendingGroup'
      BY <1>0 DEF PendingGroup, lsn
    <2>2. QED
      BY <1>0, <1>1, <2>1 DEF PendingInv, NoJob
  <1>4. /\ Sound(wal, applied, active) /\ OnDisk(wal, root)
        /\ Stands(wal, applied, root)
        /\ active \in Gens /\ active \in Nat
    BY InvFacts
  <1>5. /\ Verifies(root) /\ Covered(wal, applied, root)
    BY <1>0 DEF IInv, BaseInv, Base
  <1>6. CASE /\ \E s \in ObsoleteSegments : /\ segments' = segments \ {s}
                                            /\ wal' = [wal EXCEPT ![s] = <<>>]
                                            /\ torn' = torn \ {s}
             /\ UNCHANGED <<catalogs, files, damaged>>
    <2>1. PICK d \in ObsoleteSegments : /\ segments' = segments \ {d}
                                        /\ wal' = [wal EXCEPT ![d] = <<>>]
                                        /\ torn' = torn \ {d}
      BY <1>6
    <2>2. d \in segments /\ d < cleanup.previous.gen
      BY DEF ObsoleteSegments
    <2> DEFINE v == wal'
    <2>3. v = [wal EXCEPT ![d] = <<>>]
      BY <2>1
    <2> HIDE DEF v
    <2>4. /\ TxWithin(v, wal) /\ RootsWithin(v, wal)
          /\ \A s \in Gens : s # d => v[s] = wal[s]
          /\ v[d] = <<>> /\ v \in [Gens -> Seq(Frames)] /\ d < active
          /\ Covered(v, applied, cleanup.previous) /\ Covered(v, applied, root)
      BY <1>0, <2>2, <2>3, SegmentRemoved
    <2>5. v[active] = wal[active] /\ d # active
      BY <1>4, <2>4
    <2>6. Holds(v, applied) /\ RootsAgree(v, applied)
      BY <1>4, <2>4, WithinHolds, WithinRootsAgree DEF Sound
    <2>7. DiskInv'
      <3>1. SegmentsInv(wal, active)'
        <4>1. \A s \in Gens \ segments' : v[s] = <<>>
          BY <1>4, <2>1, <2>4 DEF Sound, SegmentsInv
        <4>2. active \in segments' /\ v[active] # <<>>
          BY <1>4, <2>1, <2>5 DEF Sound, SegmentsInv
        <4>3. \A s \in Gens : v[s] # <<>> => s <= active /\ v[s][1].kind = "root"
          BY <1>4, <2>4 DEF Sound, SegmentsInv
        <4>4. QED
          BY <1>0, <2>4, <4>1, <4>2, <4>3 DEF v, SegmentsInv
      <3>2. ASSUME NEW s \in torn' PROVE v[s] = <<>>
        <4>1. s \in torn /\ s # d
          BY <2>1
        <4>2. QED
          BY <2>4, <4>1, TornSegments
      <3>3. QED
        BY <1>0, <1>6, <2>1, <3>1, <3>2 DEF v, IInv, DiskInv
    <2>8. LogInv'
      BY <1>0, <2>6 DEF v, IInv, LogInv, lsn
    <2>9. Base(v, applied, root)
      <3>1. OnDisk(v, root)
        <4>1. RootAt(v, active) = RootAt(wal, active)
          BY <2>5 DEF RootAt
        <4>2. QED
          BY <1>1, <1>4, <2>5, <4>1 DEF OnDisk
      <3>2. ASSUME damaged = {}
            PROVE  \A s \in Gens : \A i \in RootAt(v, s) : v[s][i].root.gen <= root.gen
        BY <2>4, <3>2 DEF IInv, BaseInv, Base, RootsWithin
      <3>3. Retained(v, applied, root)
        BY <1>1, <1>4, <2>4, <2>5 DEF Retained, Sound, SegmentsInv
      <3>4. QED
        BY <2>4, <3>1, <3>2, <3>3 DEF Base
    <2>10. BaseInv'
      <3>1. Base(wal, applied, root)'
        BY <1>0, <1>6, <2>9 DEF v, Base, Retained
      <3>2. QED
        BY <1>0, <1>5, <1>6, <3>1 DEF BaseInv, Verifies
    <2>11. CleanupInv'
      <3>1. RootAt(v, active) = RootAt(wal, active)
        BY <2>5 DEF RootAt
      <3>2. QED
        BY <1>0, <1>1, <1>6, <2>4, <2>5, <3>1 DEF v, CleanupInv
    <2>12. QED
      BY <1>2, <1>3, <2>7, <2>8, <2>10, <2>11 DEF IInv
  <1>7. CASE /\ \E g \in ObsoleteCatalogs : catalogs' = catalogs \ {g}
             /\ UNCHANGED <<segments, wal, torn, files, damaged>>
    <2>1. catalogs' \subseteq catalogs
      BY <1>7
    <2>2. DiskInv'
      BY <1>0, <1>7, <2>1 DEF IInv, DiskInv, SegmentsInv
    <2>3. LogInv' /\ BaseInv' /\ CleanupInv'
      BY <1>0, <1>7, LogNumbers, LogUnchanged, BaseUnchanged, CleanupUnchanged DEF IInv
    <2>4. QED
      BY <1>2, <1>3, <2>2, <2>3 DEF IInv
  <1>8. CASE /\ \E f \in ObsoleteFiles : files' = files \ {f} /\ damaged' = damaged \ {f}
             /\ UNCHANGED <<segments, wal, torn, catalogs>>
    <2>1. PICK f \in ObsoleteFiles : files' = files \ {f} /\ damaged' = damaged \ {f}
      BY <1>8
    <2>2. f \notin cleanup.previous.files /\ f \notin root.files
      BY <1>1 DEF ObsoleteFiles
    <2>3. DiskInv'
      <3>1. SegmentsInv(wal, active)'
        BY <1>0, <1>8 DEF IInv, DiskInv, SegmentsInv
      <3>2. QED
        BY <1>0, <1>8, <2>1, <3>1 DEF IInv, DiskInv
    <2>4. LogInv'
      BY <1>0, <1>8, LogNumbers, LogUnchanged DEF IInv
    <2>5. cleanup.previous.files \subseteq files' /\ Verifies(root)'
      BY <1>0, <1>1, <1>5, <2>1, <2>2 DEF Verifies
    <2>6. \A s \in Gens : \A i \in RootAt(wal, s) : wal[s][i].root.gen <= root.gen
      <3> SUFFICES ASSUME NEW s \in Gens, NEW i \in RootAt(wal, s)
                   PROVE  wal[s][i].root.gen <= active
        BY <1>1
      <3>1. Stands(wal, applied, wal[s][i].root) /\ wal[s][i].root.gen <= s
        BY <1>4 DEF Sound, RootsAgree
      <3>2. wal[s][i].root.gen \in Nat /\ s \in Int
        BY <3>1, RootTypes DEF Gens
      <3>3. s <= active
        BY <1>4, UpToActive DEF Sound
      <3>4. QED
        BY <1>4, <3>1, <3>2, <3>3
    <2>7. Retained(wal, applied, root)'
      <3>1. wal[active] # <<>>
        BY <1>4 DEF Sound, SegmentsInv
      <3>2. QED
        BY <1>0, <1>1, <1>8, <2>5, <3>1 DEF Retained
    <2>8. BaseInv'
      <3>1. Base(wal, applied, root)'
        BY <1>0, <1>4, <1>5, <1>8, <2>6, <2>7 DEF Base
      <3>2. QED
        BY <1>0, <2>5, <3>1 DEF BaseInv
    <2>9. CleanupInv'
      BY <1>0, <1>1, <1>8, <2>5 DEF IInv, CleanupInv
    <2>10. QED
      BY <1>2, <1>3, <2>3, <2>4, <2>8, <2>9 DEF IInv
  <1>9. QED
    BY <1>6, <1>7, <1>8 DEF CleanupStep

LEMMA CrashKeeps ==
    ASSUME IInv, Crash
    PROVE  IInv'
  <1>0. /\ status \in {"up", "poisoned"} /\ status' = "down"
        /\ job' = NoJob /\ cleanup' = NoCleanup
        /\ UNCHANGED <<disk, pending, applied, root, active, nextGen, walFrames, nextId, acked>>
        /\ UNCHANGED <<segments, wal, torn, catalogs, files, damaged>>
    BY DEF Crash, disk
  <1>1. DiskInv' /\ LogInv'
    BY <1>0, LogNumbers, DiskUnchanged, LogUnchanged DEF IInv
  <1>2. BaseInv'
    BY <1>0 DEF IInv, BaseInv, Base, Retained, Verifies
  <1>3. JobInv' /\ CleanupInv'
    BY <1>0 DEF JobInv, NoJob, CleanupInv, NoCleanup
  <1>4. PendingInv'
    <2>1. PendingGroup => PendingGroup'
      BY <1>0 DEF PendingGroup, lsn
    <2>2. PendingHeader => PendingHeader'
      BY <1>0 DEF PendingHeader
    <2>3. PendingRoot => PendingRoot'
      BY <1>0 DEF PendingRoot, Installable
    <2>4. QED
      BY <1>0, <2>1, <2>2, <2>3 DEF IInv, PendingInv, NoJob
  <1>5. QED
    BY <1>1, <1>2, <1>3, <1>4 DEF IInv

(* The newest root on disk is the current one, and the one before it is whole. *)
LEMMA DamageFileKeeps ==
    ASSUME IInv, DamageFile, Damage # "any"
    PROVE  IInv'
  <1>0. /\ status = "down" /\ damaged = {}
        /\ UNCHANGED <<segments, wal, torn, catalogs, files, pending, memory, job, cleanup,
                       nextId, acked>>
        /\ UNCHANGED <<status, applied, root, active, nextGen, walFrames>>
    BY DEF DamageFile, memory
  <1>1. PICK f \in files : damaged' = {f} /\ f = NewestRoot(RootsIn(wal)).gen
    BY DEF DamageFile
  <1>2. /\ Sound(wal, applied, active) /\ OnDisk(wal, root) /\ root.gen \in Nat
        /\ SegmentsInv(wal, active) /\ RootsAgree(wal, applied) /\ segments \subseteq 0..MaxGen
    BY InvFacts DEF Sound
  <1>3. Placing(wal)
    BY <1>2, PlacesOfFrames
  <1>4. f = root.gen
    <2> DEFINE U == RootsIn(wal)
               r == NewestRoot(U)
    <2>1. root \in U
      BY <1>2, <1>3, RootsRead
    <2>2. U \subseteq Root
      <3> SUFFICES ASSUME NEW q \in U PROVE q \in Root
        OBVIOUS
      <3>1. OnDisk(wal, q)
        BY <1>3, RootsRead
      <3>2. Stands(wal, applied, q)
        BY <1>2, <3>1, OnDiskAgrees
      <3>3. QED
        BY <3>2, RootTypes
    <2> HIDE DEF U
    <2>3. r \in U /\ root.gen <= r.gen
      BY <2>1, <2>2, NewestIsGreatest
    <2> HIDE DEF r
    <2>4. OnDisk(wal, r)
      BY <1>3, <2>3, RootsRead DEF U
    <2>5. r.gen <= root.gen
      BY <1>0, <2>4 DEF IInv, BaseInv, Base, OnDisk
    <2>6. r.gen \in Nat
      <3>1. Stands(wal, applied, r)
        BY <1>2, <2>4, OnDiskAgrees
      <3>2. QED
        BY <3>1, RootTypes
    <2>7. QED
      BY <1>1, <1>2, <2>3, <2>5, <2>6 DEF r, U
  <1>5. Retained(wal, applied, root)
    <2>1. root.gen # 0
      BY <1>4 DEF IInv, DiskInv
    <2>2. QED
      BY <1>0, <2>1 DEF IInv, BaseInv, Base
  <1>6. job = NoJob
    BY <1>0 DEF IInv, JobInv
  <1>7. DiskInv'
    BY <1>0, <1>1 DEF IInv, DiskInv, SegmentsInv
  <1>8. LogInv'
    BY <1>0, LogNumbers, LogUnchanged DEF IInv
  <1>9. BaseInv'
    <2>1. Base(wal, applied, root)'
      BY <1>0, <1>1 DEF IInv, BaseInv, Base
    <2>2. Retained(wal, applied, root)'
      BY <1>0, <1>5 DEF Retained
    <2>3. QED
      BY <1>0, <1>1, <1>4, <2>1, <2>2 DEF BaseInv
  <1>10. JobInv'
    BY <1>0, <1>6 DEF IInv, JobInv, NoJob
  <1>11. CleanupInv'
    BY <1>0, CleanupUnchanged DEF IInv
  <1>12. PendingInv'
    BY <1>0 DEF IInv, PendingInv, PendingGroup, PendingHeader, PendingRoot, Installable, lsn
  <1>13. QED
    BY <1>7, <1>8, <1>9, <1>10, <1>11, <1>12 DEF IInv

(* The outcome of opening a directory whose frames w hold the log L. *)
Opens(w, t) ==
    LET U == {q \in RootsIn(w) : Verifies(q)}
    IN  IF /\ HeadersPresent(w)
           /\ U # {}
           /\ StrictSequence(w, NewestRoot(U))
           /\ SealedComplete(w, t, NewestRoot(U))
        THEN Recovers(w, t, NewestRoot(U))
        ELSE Fails(w, t)

LEMMA ReopenKeeps ==
    ASSUME IInv, status = "down", NEW w, NEW L, NEW a \in Nat, NEW t, NEW b,
           Sound(w, L, a), t \subseteq segments, \A s \in t : s = a \/ w[s] = <<>>,
           Base(w, L, b), Verifies(b), active <= a,
           \A i \in 1..Len(L) : L[i] < nextId, acked \subseteq ToSet(L), Len(L) < nextId,
           Opens(w, t), pending' = NoWrite, UNCHANGED <<job, cleanup, nextId, acked>>
    PROVE  IInv' /\ status' = "up" /\ applied' = L
  <1> DEFINE U == {q \in RootsIn(w) : Verifies(q)}
             r == NewestRoot(U)
  <1>1. U # {} /\ Restored(w, L, a, t, r)
    BY RecoveryRestores
  <1>2. Recovers(w, t, r)
    <2>1. HeadersPresent(w) /\ StrictSequence(w, r) /\ SealedComplete(w, t, r)
      BY <1>1 DEF Restored
    <2>2. QED
      BY <1>1, <2>1 DEF Opens
  <1> HIDE DEF U, r
  <1>3. /\ ActiveSegment(w) = a /\ r.log \o ReplayedIds(w, r) = L
        /\ Cardinality(Replay(w, r)) = Len(L) - r.lsn
        /\ Stands(w, L, r) /\ Base(w, L, r) /\ Verifies(r)
    BY <1>1 DEF Restored
  <1>4. /\ status' = "up" /\ applied' = L /\ root' = r /\ active' = a
        /\ nextGen' = NextGeneration /\ walFrames' = Len(L) - r.lsn
        /\ wal' = w /\ torn' = t \ {a}
        /\ UNCHANGED <<segments, catalogs, files, damaged>>
    BY <1>2, <1>3 DEF Recovers
  <1>5. job = NoJob /\ cleanup = NoCleanup
    BY DEF IInv, JobInv, CleanupInv
  <1>6. /\ segments \subseteq 0..MaxGen /\ SegmentsInv(w, a) /\ L \in Seq(1..MaxTx)
        /\ Holds(w, L) /\ RootsAgree(w, L)
    BY DEF Sound
  <1>7. /\ NextGeneration \in 1..(MaxGen + 1)
        /\ \A g \in catalogs \union segments : g < NextGeneration
    <2> DEFINE G == catalogs \union segments
    <2>1. G \subseteq 0..MaxGen /\ G # {}
      BY <1>6, InvFacts DEF IInv, DiskInv
    <2>2. MaxGen \in Nat
      BY BoundsAssumption
    <2> HIDE DEF G
    <2>3. Max(G) \in G /\ \A y \in G : y <= Max(G)
      BY <2>1, <2>2, GreatestBelow
    <2>4. NextGeneration = Max(G) + 1 /\ Max(G) \in 0..MaxGen
      BY <2>1, <2>3 DEF NextGeneration, G
    <2>5. ASSUME NEW g \in G PROVE g < NextGeneration
      <3>1. g \in 0..MaxGen /\ g <= Max(G)
        BY <2>1, <2>3
      <3>2. QED
        BY <2>4, <3>1
    <2>6. NextGeneration \in 1..(MaxGen + 1)
      BY <2>2, <2>4
    <2>7. QED
      BY <2>5, <2>6 DEF G
  <1>8. DiskInv'
    <2>1. SegmentsInv(wal, active)'
      BY <1>4, <1>6 DEF SegmentsInv
    <2>2. files \subseteq 1..a
      <3>1. files \subseteq 1..active /\ active \in Nat
        BY InvFacts DEF IInv, DiskInv
      <3>2. 1..active \subseteq 1..a
        BY <3>1
      <3>3. QED
        BY <3>1, <3>2
    <2>3. \A s \in torn' : w[s] = <<>>
      BY <1>4
    <2>4. QED
      BY <1>4, <1>6, <1>7, <2>1, <2>2, <2>3 DEF IInv, DiskInv
  <1>9. LogInv'
    BY <1>4, <1>6 DEF IInv, LogInv, lsn
  <1>10. BaseInv'
    <2>1. Base(wal, applied, root)'
      BY <1>3, <1>4 DEF Base, Retained
    <2>2. QED
      BY <1>3, <1>4, <2>1 DEF BaseInv, Verifies
  <1>11. JobInv' /\ CleanupInv' /\ PendingInv'
    BY <1>4, <1>5 DEF JobInv, NoJob, CleanupInv, NoCleanup, PendingInv
  <1>12. QED
    BY <1>4, <1>8, <1>9, <1>10, <1>11 DEF IInv

(* The root that recovery can start from while the database is closed. *)
LEMMA ClosedBase ==
    ASSUME IInv, status = "down"
    PROVE  \E b : /\ Base(wal, applied, b) /\ Verifies(b) /\ b.gen \in Gens
                  /\ (b = root \/ damaged # {})
  <1>0. /\ Sound(wal, applied, active) /\ Stands(wal, applied, root) /\ root.gen \in Gens
        /\ root.gen \in Nat
    BY InvFacts
  <1>1. CASE Verifies(root)
    BY <1>0, <1>1 DEF IInv, BaseInv
  <1>2. CASE damaged = {root.gen} /\ Retained(wal, applied, root)
    <2> DEFINE b == wal[root.gen][1].root
    <2>1. /\ wal[root.gen] # <<>> /\ b.gen < root.gen /\ b.files \subseteq files
          /\ Covered(wal, applied, b)
      BY <1>2 DEF Retained
    <2>2. OnDisk(wal, b)
      BY <1>0, <2>1, HeaderOnDisk DEF Sound
    <2> HIDE DEF b
    <2>3. Stands(wal, applied, b)
      BY <1>0, <2>2, OnDiskAgrees DEF Sound
    <2>4. b.gen \in Nat /\ b.gen \in Gens /\ b.files \subseteq 0..b.gen
      BY <2>3, RootTypes DEF Stands
    <2>5. root.gen \notin b.files
      BY <1>0, <2>1, <2>4
    <2>6. Verifies(b)
      BY <1>2, <2>1, <2>5 DEF Verifies
    <2>7. Base(wal, applied, b) /\ damaged # {}
      BY <1>2, <2>1, <2>2 DEF Base
    <2>8. QED
      BY <2>4, <2>6, <2>7
  <1>3. QED
    BY <1>1, <1>2 DEF IInv, BaseInv

(* The ids of a prefix of the group are a prefix of its ids. *)
LEMMA IdsOfPrefix ==
    ASSUME NEW X \in Seq(TxFrames), NEW n \in 0..Len(X)
    PROVE  /\ SubSeq(X, 1, n) \in Seq(TxFrames) /\ Len(SubSeq(X, 1, n)) = n
           /\ \A i \in 1..n : SubSeq(X, 1, n)[i] = X[i]
           /\ Ids(SubSeq(X, 1, n)) = SubSeq(Ids(X), 1, n)
  <1>0. Len(X) \in Nat
    BY LenProperties
  <1>1. \A i \in 1..n : X[i] \in TxFrames
    <2>1. \A i \in 1..n : i \in 1..Len(X)
      BY <1>0
    <2>2. QED
      BY <2>1, ElementOfSeq
  <1>2. /\ SubSeq(X, 1, n) \in Seq(TxFrames)
        /\ Len(SubSeq(X, 1, n)) = IF 1 <= n THEN n - 1 + 1 ELSE 0
        /\ \A i \in 1..(n - 1 + 1) : SubSeq(X, 1, n)[i] = X[1 + i - 1]
    BY <1>0, <1>1, SubSeqProperties
  <1>3. /\ Len(SubSeq(X, 1, n)) = n
        /\ \A i \in 1..n : SubSeq(X, 1, n)[i] = X[i]
    BY <1>0, <1>2
  <1>4. PICK Y \in Seq(TxFrames) : Y = SubSeq(X, 1, n)
    BY <1>2
  <1>5. /\ Ids(X) \in Seq(1..MaxTx) /\ Len(Ids(X)) = Len(X)
        /\ \A i \in 1..Len(X) : Ids(X)[i] = X[i].id
    BY IdsOfGroup
  <1>6. /\ Ids(Y) \in Seq(1..MaxTx) /\ Len(Ids(Y)) = n
        /\ \A i \in 1..n : Ids(Y)[i] = X[i].id
    <2>1. /\ Ids(Y) \in Seq(1..MaxTx) /\ Len(Ids(Y)) = Len(Y)
          /\ \A i \in 1..Len(Y) : Ids(Y)[i] = Y[i].id
      BY IdsOfGroup
    <2>2. QED
      BY <1>3, <1>4, <2>1
  <1>7. PICK I \in Seq(1..MaxTx) : I = Ids(X)
    BY <1>5
  <1>8. \A i \in 1..n : I[i] \in 1..MaxTx /\ I[i] = X[i].id
    <2>1. \A i \in 1..n : i \in 1..Len(X)
      BY <1>0
    <2>2. \A i \in 1..n : I[i] \in 1..MaxTx
      BY <1>5, <1>7, <2>1, ElementOfSeq
    <2>3. QED
      BY <1>5, <1>7, <2>1, <2>2
  <1>9. /\ SubSeq(I, 1, n) \in Seq(1..MaxTx)
        /\ Len(SubSeq(I, 1, n)) = IF 1 <= n THEN n - 1 + 1 ELSE 0
        /\ \A i \in 1..(n - 1 + 1) : SubSeq(I, 1, n)[i] = I[1 + i - 1]
    BY <1>0, <1>8, SubSeqProperties
  <1>10. Len(SubSeq(I, 1, n)) = n /\ \A i \in 1..n : SubSeq(I, 1, n)[i] = X[i].id
    BY <1>0, <1>8, <1>9
  <1>11. Ids(Y) = SubSeq(I, 1, n)
    <2>1. PICK J \in Seq(1..MaxTx) : J = Ids(Y)
      BY <1>6
    <2>2. PICK S \in Seq(1..MaxTx) : S = SubSeq(I, 1, n)
      BY <1>9
    <2>3. Len(J) = n /\ Len(S) = n /\ \A i \in 1..n : J[i] = S[i]
      BY <1>6, <1>10, <2>1, <2>2
    <2>4. J = S
      BY <2>3, SeqEqual
    <2>5. QED
      BY <2>1, <2>2, <2>4
  <1>12. QED
    BY <1>2, <1>3, <1>4, <1>7, <1>11

(* What the pending write is while the database is closed. *)
LEMMA ClosedPending ==
    ASSUME IInv, status = "down"
    PROVE  /\ pending = NoWrite \/ PendingGroup \/ PendingHeader \/ PendingRoot
           /\ PendingIds \in Seq(1..MaxTx) /\ Len(PendingIds) \in Nat
           /\ PendingGroup => PendingIds = Ids(pending.frames)
  <1>1. pending = NoWrite \/ PendingGroup \/ PendingHeader \/ PendingRoot
    BY DEF IInv, PendingInv
  <1>2. ASSUME PendingGroup PROVE WritingGroup /\ pending.frames \in Seq(TxFrames)
    <2>1. pending.frames \in Seq(TxFrames) /\ pending.frames # <<>>
      BY <1>2 DEF PendingGroup
    <2>2. 1 \in 1..Len(pending.frames)
      BY <2>1, EmptySeq
    <2>3. pending.frames[1] \in TxFrames
      BY <2>1, <2>2, ElementOfSeq
    <2>4. QED
      BY <2>1, <2>3 DEF WritingGroup, TxFrames, NoWrite
  <1>3. ASSUME WritingGroup PROVE PendingGroup
    <2>1. ASSUME NEW r, pending.frames = <<RootFrame(r)>> PROVE FALSE
      BY <1>3, <2>1 DEF WritingGroup, RootFrame
    <2>2. QED
      BY <1>1, <1>3, <2>1 DEF WritingGroup, PendingHeader, PendingRoot
  <1>4. PendingIds \in Seq(1..MaxTx)
    <2>1. CASE WritingGroup
      <3>1. Ids(pending.frames) \in Seq(1..MaxTx)
        BY <1>2, <1>3, <2>1, IdsOfGroup
      <3>2. QED
        BY <2>1, <3>1 DEF PendingIds
    <2>2. CASE ~WritingGroup
      BY <2>2, EmptySeq DEF PendingIds
    <2>3. QED
      BY <2>1, <2>2
  <1>5. Len(PendingIds) \in Nat
    BY <1>4, LenProperties
  <1>6. PendingGroup => PendingIds = Ids(pending.frames)
    BY <1>2 DEF PendingIds
  <1>7. QED
    BY <1>1, <1>4, <1>5, <1>6

(* What survives of the log: of a group being written, exactly a prefix. *)
Survives == \E k \in 0..Len(PendingIds) : applied' = applied \o SubSeq(PendingIds, 1, k)

LEMMA NothingLost ==
    ASSUME IInv, status = "down", applied' = applied
    PROVE  Survives
  <1>1. 0 \in 0..Len(PendingIds)
    BY ClosedPending
  <1>2. SubSeq(PendingIds, 1, 0) = <<>>
    BY SubSeqEmpty
  <1>3. applied \o <<>> = applied
    BY ConcatEmptySeq DEF IInv, LogInv
  <1>4. QED
    BY <1>1, <1>2, <1>3 DEF Survives

(* The log as it was opened again. *)
LEMMA LogAsWas ==
    ASSUME IInv
    PROVE  /\ \A i \in 1..Len(applied) : applied[i] < nextId
           /\ acked \subseteq ToSet(applied) /\ Len(applied) < nextId
  BY DEF IInv, LogInv, lsn

LEMMA OpenUnwritten ==
    ASSUME IInv, status = "down", NEW t,
           t = torn \/ (t = torn \union {pending.seg} /\ pending # NoWrite),
           Opens(wal, t), pending' = NoWrite, UNCHANGED <<job, cleanup, nextId, acked>>
    PROVE  IInv' /\ status' = "up" /\ Survives
  <1>1. PICK b : Base(wal, applied, b) /\ Verifies(b)
    BY ClosedBase
  <1>2. Sound(wal, applied, active) /\ active \in Nat /\ active \in segments /\ active <= active
    BY InvFacts
  <1>3. pending # NoWrite =>
           pending.seg \in segments /\ (pending.seg = active \/ wal[pending.seg] = <<>>)
    <2>1. ASSUME pending.seg \in segments, pending.seg > active PROVE wal[pending.seg] = <<>>
      <3>1. pending.seg \in Gens /\ pending.seg \in Int
        BY <2>1, TornSegments DEF Gens
      <3>2. QED
        BY <1>2, <2>1, <3>1 DEF Sound, SegmentsInv
    <2>2. QED
      BY <1>2, <2>1, ClosedPending DEF PendingGroup, PendingHeader, PendingRoot
  <1>4. t \subseteq segments /\ \A s \in t : s = active \/ wal[s] = <<>>
    BY <1>3, TornSegments DEF IInv, DiskInv
  <1>5. IInv' /\ status' = "up" /\ applied' = applied
    BY <1>1, <1>2, <1>4, LogAsWas, ReopenKeeps
  <1>6. QED
    BY <1>5, NothingLost

LEMMA OpenGroup ==
    ASSUME IInv, status = "down", PendingGroup, NEW n \in 0..Len(pending.frames), NEW v,
           v = [wal EXCEPT ![active] = @ \o SubSeq(pending.frames, 1, n)], NEW t,
           t = torn \/ t = torn \union {active},
           Opens(v, t), pending' = NoWrite, UNCHANGED <<job, cleanup, nextId, acked>>
    PROVE  IInv' /\ status' = "up" /\ Survives
  <1> DEFINE F == pending.frames
             X == SubSeq(pending.frames, 1, n)
             M == applied \o Ids(SubSeq(pending.frames, 1, n))
  <1>1. /\ F \in Seq(TxFrames) /\ lsn + Len(F) < nextId /\ F = pending.frames
        /\ \A i \in 1..Len(F) : F[i].lsn = lsn + i /\ F[i].id < nextId
    BY DEF PendingGroup
  <1>2. Len(F) \in Nat
    BY <1>1, LenProperties
  <1> HIDE DEF F
  <1>3. /\ X \in Seq(TxFrames) /\ Len(X) = n /\ \A i \in 1..n : X[i] = F[i]
        /\ Ids(X) = SubSeq(Ids(F), 1, n)
    BY <1>1, IdsOfPrefix
  <1> HIDE DEF X
  <1>4. \A i \in 1..Len(X) : X[i].lsn = lsn + i /\ X[i].id < nextId
    BY <1>1, <1>2, <1>3
  <1>5. M = applied \o Ids(X) /\ v = [wal EXCEPT ![active] = @ \o X]
    BY DEF X
  <1> HIDE DEF M
  <1>6. /\ GroupAdded(wal, v, active, applied, M, Len(X))
        /\ Grown(wal, v, active, X)
        /\ HeadsKept(wal, v) /\ Sound(v, M, active)
        /\ Continued(applied, M, X) /\ M \in Seq(1..MaxTx)
    BY <1>3, <1>4, <1>5, GroupAppended
  <1>7. PICK b : Base(wal, applied, b) /\ Verifies(b)
    BY ClosedBase
  <1>8. /\ Sound(wal, applied, active) /\ active \in Nat /\ active \in segments
        /\ active \in Gens /\ active <= active /\ lsn \in Nat /\ nextId \in Nat
    BY InvFacts
  <1>9. Base(v, M, b)
    BY <1>6, <1>7, <1>8, GroupBase
  <1>10. t \subseteq segments /\ \A s \in t : s = active \/ v[s] = <<>>
    <2>1. torn \subseteq segments
      BY DEF IInv, DiskInv
    <2>2. ASSUME NEW s \in torn PROVE s = active \/ v[s] = <<>>
      BY <1>6, TornSegments DEF Grown
    <2>3. QED
      BY <1>8, <2>1, <2>2
  <1>11. applied \in Seq(1..MaxTx)
    BY <1>8 DEF Sound
  <1>12. /\ ToSet(applied) \subseteq ToSet(M)
         /\ \A k \in 1..Len(M) : \/ k \in 1..Len(applied) /\ M[k] = applied[k]
                                 \/ \E i \in 1..Len(X) : M[k] = X[i].id
    BY <1>6, <1>11, ContinuedElements
  <1>13. \A k \in 1..Len(M) : M[k] < nextId
    BY <1>4, <1>12, LogAsWas
  <1>14. acked \subseteq ToSet(M)
    BY <1>12, LogAsWas
  <1>15. Len(M) < nextId
    <2>1. Len(M) = lsn + n
      BY <1>3, <1>6 DEF Continued, lsn
    <2>2. n <= Len(F) /\ n \in Nat
      BY <1>1, <1>2
    <2>3. QED
      BY <1>1, <1>2, <1>8, <2>1, <2>2
  <1>16. IInv' /\ status' = "up" /\ applied' = M
    BY <1>6, <1>7, <1>8, <1>9, <1>10, <1>13, <1>14, <1>15, ReopenKeeps
  <1>17. Survives
    <2>1. PendingIds = Ids(F)
      BY ClosedPending DEF F
    <2>2. Len(PendingIds) = Len(F)
      BY <1>1, <2>1, IdsOfGroup
    <2>3. n \in 0..Len(PendingIds) /\ applied' = applied \o SubSeq(PendingIds, 1, n)
      BY <1>1, <1>3, <1>5, <1>16, <2>1, <2>2
    <2>4. QED
      BY <2>3 DEF Survives
  <1>18. QED
    BY <1>16, <1>17

LEMMA OpenHeader ==
    ASSUME IInv, status = "down", PendingHeader, NEW v,
           v = [wal EXCEPT ![pending.seg] = @ \o <<RootFrame(root)>>],
           Opens(v, torn), pending' = NoWrite, UNCHANGED <<job, cleanup, nextId, acked>>
    PROVE  IInv' /\ status' = "up" /\ Survives
  <1> DEFINE g == pending.seg
  <1>1. g \in segments /\ g > active
    BY DEF PendingHeader
  <1> HIDE DEF g
  <1>2. v = [wal EXCEPT ![g] = @ \o <<RootFrame(root)>>]
    BY DEF g
  <1>3. /\ RootAdded(wal, v, g, root) /\ HeadsKept(wal, v) /\ Sound(v, applied, g)
        /\ \A s \in Gens : s # g => v[s] = wal[s]
        /\ g \in Gens /\ g \in Nat
    BY <1>1, <1>2, HeaderAppended
  <1>4. PICK b : /\ Base(wal, applied, b) /\ Verifies(b) /\ b.gen \in Gens
                 /\ (b = root \/ damaged # {})
    BY ClosedBase
  <1>5. root.gen \in Nat /\ active \in Nat
    BY InvFacts
  <1>6. Base(v, applied, b)
    <2>1. damaged = {} => root.gen <= b.gen
      BY <1>4, <1>5
    <2>2. QED
      BY <1>3, <1>4, <2>1, RootBase
  <1>7. torn \subseteq segments /\ \A s \in torn : s = g \/ v[s] = <<>>
    BY <1>3, TornSegments DEF IInv, DiskInv
  <1>8. active <= g
    BY <1>1, <1>3, <1>5
  <1>9. IInv' /\ status' = "up" /\ applied' = applied
    BY <1>3, <1>4, <1>6, <1>7, <1>8, LogAsWas, ReopenKeeps
  <1>10. QED
    BY <1>9, NothingLost

LEMMA OpenRoot ==
    ASSUME IInv, status = "down", PendingRoot, NEW v,
           v = [wal EXCEPT ![active] = @ \o <<RootFrame(pending.frames[1].root)>>],
           Opens(v, torn), pending' = NoWrite, UNCHANGED <<job, cleanup, nextId, acked>>
    PROVE  IInv' /\ status' = "up" /\ Survives
  <1> DEFINE r == pending.frames[1].root
  <1>1. Installable(r)
    BY DEF PendingRoot
  <1> HIDE DEF r
  <1>2. v = [wal EXCEPT ![active] = @ \o <<RootFrame(r)>>]
    BY DEF r
  <1>3. /\ RootAdded(wal, v, active, r) /\ HeadsKept(wal, v) /\ Sound(v, applied, active)
        /\ \A s \in Gens : s # active => v[s] = wal[s]
        /\ v[active][1] = RootFrame(root)
        /\ Stands(v, applied, r)
    BY <1>1, <1>2, RootAppended
  <1>4. /\ Sound(wal, applied, active) /\ active \in Nat /\ active \in segments
        /\ active \in Gens /\ active <= active /\ OnDisk(wal, root)
    BY InvFacts
  <1>5. PICK b : /\ Base(wal, applied, b) /\ Verifies(b) /\ b.gen \in Gens
                 /\ (b = root \/ damaged # {})
    BY ClosedBase
  <1>6. \E q : Base(v, applied, q) /\ Verifies(q)
    <2>1. CASE damaged = {}
      <3>1. /\ Stands(wal, applied, r) /\ Newest(wal, r) /\ r.gen = active
            /\ wal[active][1] = RootFrame(root) /\ root.gen < active
            /\ r.files \subseteq files
        BY <1>1 DEF Installable
      <3>2. Covered(wal, applied, root) /\ root.files \subseteq files
        BY <1>5, <2>1 DEF Base, Verifies
      <3>3. Base(v, applied, r)
        BY <1>3, <1>4, <3>1, <3>2, InstalledBase
      <3>4. Verifies(r)
        BY <2>1, <3>1 DEF Verifies
      <3>5. QED
        BY <3>3, <3>4
    <2>2. CASE damaged # {}
      <3>1. Base(v, applied, b)
        BY <1>3, <1>4, <1>5, <2>2, RootBase
      <3>2. QED
        BY <1>5, <3>1
    <2>3. QED
      BY <2>1, <2>2
  <1>7. torn \subseteq segments /\ \A s \in torn : s = active \/ v[s] = <<>>
    BY <1>3, TornSegments DEF IInv, DiskInv
  <1>8. IInv' /\ status' = "up" /\ applied' = applied
    BY <1>3, <1>4, <1>6, <1>7, LogAsWas, ReopenKeeps
  <1>9. QED
    BY <1>8, NothingLost

LEMMA OpenKeeps ==
    ASSUME IInv, Open
    PROVE  IInv' /\ status = "down" /\ status' = "up" /\ Survives
  <1>0. status = "down" /\ pending' = NoWrite /\ UNCHANGED <<job, cleanup, nextId, acked>>
    BY DEF Open
  <1>1. PICK n \in 0..Len(pending.frames) : \E tail \in BOOLEAN :
           /\ tail => n < Len(pending.frames)
           /\ Opens([wal EXCEPT ![pending.seg] = @ \o SubSeq(pending.frames, 1, n)],
                    IF tail THEN torn \union {pending.seg} ELSE torn)
    BY DEF Open, Opens
  <1>2. PICK tail \in BOOLEAN :
           /\ tail => n < Len(pending.frames)
           /\ Opens([wal EXCEPT ![pending.seg] = @ \o SubSeq(pending.frames, 1, n)],
                    IF tail THEN torn \union {pending.seg} ELSE torn)
    BY <1>1
  <1> DEFINE w == [wal EXCEPT ![pending.seg] = @ \o SubSeq(pending.frames, 1, n)]
             t == IF tail THEN torn \union {pending.seg} ELSE torn
  <1>3. Opens(w, t) /\ (t = torn \/ (tail /\ t = torn \union {pending.seg}))
    BY <1>2
  <1>4. /\ wal \in [Gens -> Seq(Frames)] /\ active \in Gens
    BY InvFacts DEF Sound, SegmentsInv
  <1>5. CASE SubSeq(pending.frames, 1, n) = <<>>
    <2>1. pending.seg \in Gens
      BY <1>0, <1>4, ClosedPending, TornSegments, BoundsAssumption
      DEF NoWrite, PendingGroup, PendingHeader, PendingRoot, Gens
    <2>2. wal[pending.seg] \o <<>> = wal[pending.seg]
      BY <1>4, <2>1, ConcatEmptySeq
    <2>3. w = wal
      BY <1>4, <1>5, <2>1, <2>2
    <2>4. tail => pending # NoWrite
      BY <1>2 DEF NoWrite
    <2>5. t = torn \/ (t = torn \union {pending.seg} /\ pending # NoWrite)
      BY <1>3, <2>4
    <2>6. Opens(wal, t)
      BY <1>3, <2>3
    <2> HIDE DEF t
    <2>7. QED
      BY <1>0, <2>5, <2>6, OpenUnwritten
  <1>6. CASE PendingGroup
    <2>1. pending.seg = active
      BY <1>6 DEF PendingGroup
    <2>2. /\ w = [wal EXCEPT ![active] = @ \o SubSeq(pending.frames, 1, n)]
          /\ t = torn \/ t = torn \union {active}
      BY <1>3, <2>1
    <2> HIDE DEF w, t
    <2>3. QED
      BY <1>0, <1>3, <1>6, <2>2, OpenGroup
  <1>7. ASSUME NEW r, pending.frames = <<RootFrame(r)>>, SubSeq(pending.frames, 1, n) # <<>>
        PROVE  t = torn /\ w = [wal EXCEPT ![pending.seg] = @ \o <<RootFrame(r)>>]
    <2>1. Len(pending.frames) = 1
      BY <1>7
    <2>2. n # 0
      BY <1>7, SubSeqEmpty
    <2>3. n = 1
      BY <2>1, <2>2
    <2>4. ~tail
      BY <1>2, <2>1, <2>3
    <2>5. SubSeq(pending.frames, 1, n) = pending.frames
      <3>1. pending.frames \in Seq({RootFrame(r)})
        BY <1>7
      <3>2. QED
        BY <2>1, <2>3, <3>1, SubSeqFull
    <2>6. QED
      BY <1>7, <2>4, <2>5
  <1>8. CASE PendingHeader /\ SubSeq(pending.frames, 1, n) # <<>>
    <2>1. pending.frames = <<RootFrame(root)>>
      BY <1>8 DEF PendingHeader
    <2>2. t = torn /\ w = [wal EXCEPT ![pending.seg] = @ \o <<RootFrame(root)>>]
      BY <1>7, <1>8, <2>1
    <2> HIDE DEF w, t
    <2>3. Opens(w, torn)
      BY <1>3, <2>2
    <2>4. QED
      BY <1>0, <1>8, <2>2, <2>3, OpenHeader
  <1>9. CASE PendingRoot /\ SubSeq(pending.frames, 1, n) # <<>>
    <2>1. pending.frames = <<RootFrame(pending.frames[1].root)>> /\ pending.seg = active
      BY <1>9 DEF PendingRoot
    <2>2. t = torn /\ w = [wal EXCEPT ![active] = @ \o <<RootFrame(pending.frames[1].root)>>]
      BY <1>7, <1>9, <2>1
    <2> HIDE DEF w, t
    <2>3. Opens(w, torn)
      BY <1>3, <2>2
    <2>4. QED
      BY <1>0, <1>9, <2>2, <2>3, OpenRoot
  <1>10. CASE pending = NoWrite
    <2>1. n = 0
      BY <1>10 DEF NoWrite
    <2>2. SubSeq(pending.frames, 1, n) = <<>>
      BY <2>1, SubSeqEmpty
    <2>3. QED
      BY <1>5, <2>2
  <1>11. QED
    BY <1>0, <1>5, <1>6, <1>8, <1>9, <1>10, ClosedPending

LEMMA StutterKeeps ==
    ASSUME IInv, UNCHANGED vars
    PROVE  IInv'
  <1>0. /\ UNCHANGED <<disk, active, nextGen>>
        /\ UNCHANGED <<status, job, cleanup, wal, applied, root, active, files, damaged,
                       torn, nextGen>>
        /\ UNCHANGED <<wal, applied, root, walFrames, acked>>
        /\ UNCHANGED <<pending, segments, nextId>>
    BY DEF vars, disk, memory
  <1>1. DiskInv' /\ LogInv' /\ BaseInv' /\ JobInv' /\ CleanupInv'
    BY <1>0, LogNumbers, DiskUnchanged, LogUnchanged, BaseUnchanged, JobUnchanged,
       CleanupUnchanged DEF IInv
  <1>2. PendingInv'
    BY <1>0 DEF IInv, PendingInv, PendingGroup, PendingHeader, PendingRoot, Installable, lsn
  <1>3. QED
    BY <1>1, <1>2 DEF IInv

LEMMA NextKeeps ==
    ASSUME Damage # "any", IInv, [Next]_vars
    PROVE  IInv'
  <1>1. ASSUME NEW n \in 1..MaxGroup, WriteGroup(n) PROVE IInv'
    BY <1>1, WriteGroupKeeps
  <1>2. CASE SyncGroup
    BY <1>2, SyncGroupKeeps
  <1>3. CASE WriteFails
    BY <1>3, WriteFailsKeeps
  <1>4. CASE ReserveGeneration
    BY <1>4, ReserveGenerationKeeps
  <1>5. CASE StartRotation
    BY <1>5, StartRotationKeeps
  <1>6. CASE FinishRotation
    BY <1>6, FinishRotationKeeps
  <1>7. CASE Build
    BY <1>7, BuildKeeps
  <1>8. CASE AbandonCheckpoint
    BY <1>8, AbandonCheckpointKeeps
  <1>9. CASE StartInstall
    BY <1>9, StartInstallKeeps
  <1>10. CASE FinishInstall
    BY <1>10, FinishInstallKeeps
  <1>11. CASE CleanupStep
    BY <1>11, CleanupStepKeeps
  <1>12. CASE CleanupEnds
    BY <1>12, CleanupEndsKeeps
  <1>13. CASE Crash
    BY <1>13, CrashKeeps
  <1>14. CASE DamageFile
    BY <1>14, DamageFileKeeps
  <1>15. CASE Open
    BY <1>15, OpenKeeps
  <1>16. CASE UNCHANGED vars
    BY <1>16, StutterKeeps
  <1>17. QED
    BY <1>1, <1>2, <1>3, <1>4, <1>5, <1>6, <1>7, <1>8, <1>9, <1>10, <1>11, <1>12, <1>13,
       <1>14, <1>15, <1>16 DEF Next

LEMMA Inductive ==
    ASSUME Damage # "any"
    PROVE  Spec => []IInv
  <1>1. Init => IInv
    BY InitInv
  <1>2. IInv /\ [Next]_vars => IInv'
    BY NextKeeps
  <1>3. QED
    BY <1>1, <1>2, PTL DEF Spec
-----------------------------------------------------------------------------
(* What follows from the invariant. *)

(* The directory and the handle have their types in every reachable state. *)
THEOREM RecoveryTypes ==
    ASSUME Damage # "any"
    PROVE  Spec => []TypeOK
  <1>1. ASSUME IInv PROVE TypeOK
    <2>1. /\ segments \subseteq 0..MaxGen /\ torn \subseteq segments
          /\ catalogs \subseteq 0..MaxGen /\ damaged \subseteq files
          /\ nextGen \in 1..(MaxGen + 1) /\ files \subseteq 1..active
          /\ wal \in [Gens -> Seq(Frames)]
      BY <1>1 DEF IInv, DiskInv, SegmentsInv
    <2>2. /\ active \in segments /\ active \in Nat /\ lsn \in Nat /\ root.lsn \in Nat
          /\ Stands(wal, applied, root)
      BY <1>1, InvFacts
    <2>3. files \subseteq 0..MaxGen
      <3>1. active \in 0..MaxGen /\ MaxGen \in Nat
        BY <2>1, <2>2, BoundsAssumption
      <3>2. 1..active \subseteq 0..MaxGen
        BY <3>1
      <3>3. QED
        BY <2>1, <3>2
    <2>4. root \in Root
      BY <2>2, RootTypes
    <2>5. status \in {"up", "poisoned", "down", "corrupt"}
      BY <1>1 DEF IInv, JobInv
    <2>6. walFrames \in 0..MaxTx
      <3>1. walFrames = lsn - root.lsn /\ lsn < nextId /\ nextId \in 1..(MaxTx + 1)
        BY <1>1 DEF IInv, LogInv
      <3>2. root.lsn <= lsn /\ MaxTx \in Nat
        BY <2>2, BoundsAssumption DEF Stands, lsn
      <3>3. QED
        BY <2>2, <3>1, <3>2
    <2>7. applied \in Seq(1..MaxTx) /\ nextId \in 1..(MaxTx + 1) /\ acked \subseteq 1..MaxTx
      <3>1. /\ applied \in Seq(1..MaxTx) /\ nextId \in 1..(MaxTx + 1)
            /\ acked \subseteq ToSet(applied)
        BY <1>1 DEF IInv, LogInv
      <3>2. ToSet(applied) \subseteq 1..MaxTx
        <4>1. DOMAIN applied = 1..Len(applied)
          BY <3>1, LenProperties
        <4>2. \A i \in 1..Len(applied) : applied[i] \in 1..MaxTx
          BY <3>1, ElementOfSeq
        <4>3. QED
          BY <4>1, <4>2 DEF ToSet
      <3>3. QED
        BY <3>1, <3>2
    <2>8. QED
      BY <2>1, <2>2, <2>3, <2>4, <2>5, <2>6, <2>7 DEF TypeOK
  <1>2. Spec => []IInv
    BY Inductive
  <1>3. QED
    BY <1>1, <1>2, PTL

(* Recovery never refuses a directory: not after a stop between any two steps of a
   commit, a checkpoint or its cleanup, however often, and not after damage to a
   file that only the newest checkpoint wrote.                              *)
THEOREM RecoveryNeverRefuses ==
    ASSUME Damage # "any"
    PROVE  Spec => []RecoverySucceeds
  <1>1. ASSUME IInv PROVE RecoverySucceeds
    BY <1>1 DEF IInv, JobInv, RecoverySucceeds
  <1>2. Spec => []IInv
    BY Inductive
  <1>3. QED
    BY <1>1, <1>2, PTL

(* Every acknowledged transaction is in every database that opens. *)
THEOREM AcknowledgedIsHeld ==
    ASSUME Damage # "any"
    PROVE  Spec => []OpenHoldsAcknowledged
  <1>1. ASSUME IInv PROVE OpenHoldsAcknowledged
    BY <1>1 DEF IInv, LogInv, OpenHoldsAcknowledged
  <1>2. Spec => []IInv
    BY Inductive
  <1>3. QED
    BY <1>1, <1>2, PTL

(* wal_bytes counts exactly the frames above the current root, also after a
   checkpoint whose build overlapped commits and after recovery fell back.  *)
THEOREM FramesAreCounted ==
    ASSUME Damage # "any"
    PROVE  Spec => []WalFramesExact
  <1>1. ASSUME IInv PROVE WalFramesExact
    BY <1>1 DEF IInv, LogInv, WalFramesExact
  <1>2. Spec => []IInv
    BY Inductive
  <1>3. QED
    BY <1>1, <1>2, PTL

(* A generation that is about to be reserved names no catalog, segment or data
   file, whatever earlier attempts and crashes left behind.                 *)
THEOREM ReservedIsUnused ==
    ASSUME Damage # "any"
    PROVE  Spec => []GenerationIsFresh
  <1>1. ASSUME IInv PROVE GenerationIsFresh
    <2>1. /\ active \in segments /\ active \in Nat /\ nextGen \in Nat
      BY <1>1, InvFacts
    <2>2. /\ \A g \in catalogs \union segments : g < nextGen
          /\ files \subseteq 1..active
      BY <1>1 DEF IInv, DiskInv
    <2>3. nextGen \notin catalogs \union segments
      BY <2>1, <2>2
    <2>4. nextGen \notin files
      <3>1. active < nextGen
        BY <2>1, <2>2
      <3>2. nextGen \notin 1..active
        BY <2>1, <3>1
      <3>3. QED
        BY <2>2, <3>2
    <2>5. QED
      BY <2>3, <2>4 DEF GenerationIsFresh
  <1>2. Spec => []IInv
    BY Inductive
  <1>3. QED
    BY <1>1, <1>2, PTL
-----------------------------------------------------------------------------
(* The directory implements the abstract log. *)

(* A write of a root is invisible in the log. *)
LEMMA RootsAreInvisible ==
    ASSUME NEW r, NEW g, NEW p, p = [seg |-> g, frames |-> <<RootFrame(r)>>]
    PROVE  ~(p # NoWrite /\ p.frames[1].kind = "tx")
  BY DEF RootFrame

(* A pending write is a group exactly when it starts with a transaction. *)
LEMMA GroupIsWriting ==
    ASSUME IInv
    PROVE  WritingGroup <=> PendingGroup
  <1>1. ASSUME PendingGroup PROVE WritingGroup
    <2>1. pending.frames \in Seq(TxFrames) /\ pending.frames # <<>>
      BY <1>1 DEF PendingGroup
    <2>2. 1 \in 1..Len(pending.frames)
      BY <2>1, EmptySeq
    <2>3. pending.frames[1] \in TxFrames
      BY <2>1, <2>2, ElementOfSeq
    <2>4. QED
      BY <2>1, <2>3 DEF WritingGroup, TxFrames, NoWrite
  <1>2. ASSUME WritingGroup PROVE PendingGroup
    <2>1. ASSUME NEW r, pending.frames = <<RootFrame(r)>> PROVE FALSE
      BY <1>2, <2>1 DEF WritingGroup, RootFrame
    <2>2. QED
      BY <1>2, <2>1 DEF IInv, PendingInv, WritingGroup, PendingHeader, PendingRoot
  <1>3. QED
    BY <1>1, <1>2

LEMMA IdleHasNoGroup ==
    /\ pending = NoWrite => PendingIds = <<>>
    /\ pending' = NoWrite => PendingIds' = <<>>
    /\ ~WritingGroup => PendingIds = <<>>
    /\ ~WritingGroup' => PendingIds' = <<>>
  BY DEF PendingIds, WritingGroup

(* WriteGroup starts a write of new transactions. *)
LEMMA WriteGroupWrites ==
    ASSUME IInv, NEW n \in 1..MaxGroup, WriteGroup(n)
    PROVE  Promise!Write
  <1>0. /\ status = "up" /\ pending = NoWrite
        /\ pending' = [seg |-> active,
                       frames |-> [i \in 1..n |-> TxFrame(lsn + i, nextId + i - 1)]]
        /\ status' = status /\ applied' = applied
    BY DEF WriteGroup, Ready, memory
  <1> DEFINE X == [i \in 1..n |-> TxFrame(lsn + i, nextId + i - 1)]
             J == Ids(X)
  <1>1. /\ n \in Nat /\ n >= 1 /\ nextId \in Nat /\ nextId >= 1 /\ lsn \in Nat
    BY LogNumbers, BoundsAssumption
  <1>2. \A i \in 1..n : /\ X[i].kind = "tx" /\ X[i].id = nextId + i - 1
                        /\ X[i].id \in Nat /\ nextId <= X[i].id
    BY <1>1 DEF TxFrame
  <1>3. X # <<>> /\ Len(X) = n /\ X[1].kind = "tx"
    <2> DEFINE S == [kind : {"tx"}, lsn : Nat, id : Nat]
    <2>1. \A i \in 1..n : TxFrame(lsn + i, nextId + i - 1) \in S
      BY <1>1 DEF TxFrame
    <2> HIDE DEF S
    <2>2. X \in Seq(S) /\ Len(X) = n
      BY <1>1, <2>1
    <2>3. X[1].kind = "tx"
      BY <1>1, <1>2
    <2> HIDE DEF X
    <2>4. QED
      BY <1>1, <2>2, <2>3, EmptySeq
  <1> HIDE DEF X
  <1>4. J \in Seq(Nat) /\ Len(J) = n /\ \A i \in 1..n : J[i] = X[i].id
    BY <1>1, <1>2, <1>3 DEF Ids
  <1>5. J # <<>>
    BY <1>1, <1>4, EmptySeq
  <1> HIDE DEF J
  <1>6. pending'.frames = X
    BY <1>0 DEF X
  <1>7. WritingGroup'
    BY <1>3, <1>6 DEF WritingGroup, NoWrite
  <1>8. PendingIds' = J
    BY <1>6, <1>7 DEF PendingIds, J
  <1>9. PendingIds = <<>>
    BY <1>0, IdleHasNoGroup
  <1>10. ToSet(J) \intersect ToSet(applied) = {}
    <2>1. \A k \in 1..lsn : applied[k] < nextId /\ applied[k] \in Int
      BY LogNumbers DEF IInv, LogInv
    <2>2. DOMAIN applied = 1..lsn
      BY LenProperties DEF IInv, LogInv, lsn
    <2>3. DOMAIN J = 1..n
      BY <1>4, LenProperties
    <2>4. \A x \in ToSet(J) : x \in Nat /\ nextId <= x
      BY <1>2, <1>4, <2>3 DEF ToSet
    <2>5. \A x \in ToSet(applied) : x \in Int /\ x < nextId
      BY <2>1, <2>2 DEF ToSet
    <2>6. QED
      BY <1>1, <2>4, <2>5
  <1>11. QED
    BY <1>0, <1>4, <1>5, <1>8, <1>9, <1>10 DEF Promise!Write, Promise!ToSet, ToSet

LEMMA SyncGroupAcknowledges ==
    ASSUME IInv, SyncGroup
    PROVE  Promise!Acknowledge
  <1>0. /\ status = "up" /\ WritingGroup /\ applied' = applied \o Ids(pending.frames)
        /\ pending' = NoWrite /\ status' = status
    BY DEF SyncGroup
  <1>1. PendingIds = Ids(pending.frames)
    BY <1>0 DEF PendingIds
  <1>2. PendingIds # <<>>
    <2>1. pending.frames \in Seq(TxFrames) /\ pending.frames # <<>>
      BY <1>0, GroupIsWriting DEF PendingGroup
    <2>2. Len(pending.frames) # 0
      BY <2>1, EmptySeq
    <2>3. Len(Ids(pending.frames)) = Len(pending.frames)
      BY <2>1, IdsOfGroup
    <2>4. QED
      BY <1>1, <2>2, <2>3, EmptySeq
  <1>3. PendingIds' = <<>>
    BY <1>0, IdleHasNoGroup
  <1>4. QED
    BY <1>0, <1>1, <1>2, <1>3 DEF Promise!Acknowledge

(* A step that neither reopens nor touches the log, and writes no group. *)
LEMMA Invisible ==
    ASSUME applied' = applied, PendingIds' = PendingIds, status' = status
    PROVE  UNCHANGED Promise!vars
  BY DEF Promise!vars

LEMMA StepPromised ==
    ASSUME IInv, [Next]_vars
    PROVE  [Promise!Next]_(Promise!vars)
  <1>1. ASSUME NEW n \in 1..MaxGroup, WriteGroup(n) PROVE Promise!Next
    BY <1>1, WriteGroupWrites DEF Promise!Next
  <1>2. CASE SyncGroup
    BY <1>2, SyncGroupAcknowledges DEF Promise!Next
  <1>3. ASSUME UNCHANGED pending PROVE PendingIds' = PendingIds
    BY <1>3 DEF PendingIds, WritingGroup
  <1>4. CASE WriteFails
    <2>1. /\ status = "up" /\ status' # "up" /\ applied' = applied /\ pending' = pending
      BY <1>4 DEF WriteFails
    <2>2. Promise!Stop
      BY <1>3, <2>1 DEF Promise!Stop
    <2>3. QED
      BY <2>2 DEF Promise!Next
  <1>5. CASE ReserveGeneration \/ Build \/ AbandonCheckpoint \/ CleanupStep \/ CleanupEnds
             \/ DamageFile
    <2>1. /\ status' = status /\ applied' = applied /\ pending' = pending
      BY <1>5 DEF ReserveGeneration, Build, AbandonCheckpoint, CleanupStep, CleanupEnds,
                  DamageFile, memory
    <2>2. QED
      BY <1>3, <2>1, Invisible
  <1>6. CASE StartRotation
    <2>1. /\ status' = status /\ applied' = applied /\ pending = NoWrite
          /\ pending' = pending \/ pending' = [seg |-> job.gen, frames |-> <<RootFrame(root)>>]
      BY <1>6 DEF StartRotation, Ready, memory
    <2>2. PendingIds = <<>>
      BY <2>1, IdleHasNoGroup
    <2>3. ~WritingGroup'
      BY <2>1, RootsAreInvisible DEF WritingGroup
    <2>4. PendingIds' = <<>>
      BY <2>3, IdleHasNoGroup
    <2>5. QED
      BY <2>1, <2>2, <2>4, Invisible
  <1>7. CASE StartInstall
    <2>1. /\ status' = status /\ applied' = applied /\ pending = NoWrite
          /\ pending' = [seg |-> active, frames |-> <<RootFrame(job.root)>>]
      BY <1>7 DEF StartInstall, Ready, memory
    <2>2. PendingIds = <<>>
      BY <2>1, IdleHasNoGroup
    <2>3. ~WritingGroup'
      BY <2>1, RootsAreInvisible DEF WritingGroup
    <2>4. PendingIds' = <<>>
      BY <2>3, IdleHasNoGroup
    <2>5. QED
      BY <2>1, <2>2, <2>4, Invisible
  <1>8. CASE FinishRotation
    <2>1. /\ status = "up" /\ status' = status /\ applied' = applied /\ pending' = NoWrite
          /\ job.stage = "rotating" /\ pending # NoWrite
      BY <1>8 DEF FinishRotation
    <2>2. ~PendingGroup
      <3>1. PendingHeader
        BY <2>1 DEF IInv, PendingInv
      <3>2. pending.seg # active
        BY <3>1, InvFacts, TornSegments DEF PendingHeader, Gens
      <3>3. QED
        BY <3>2 DEF PendingGroup
    <2>3. PendingIds = <<>> /\ PendingIds' = <<>>
      BY <2>1, <2>2, GroupIsWriting, IdleHasNoGroup
    <2>4. QED
      BY <2>1, <2>3, Invisible
  <1>9. CASE FinishInstall
    <2>1. /\ status' = status /\ applied' = applied /\ pending' = NoWrite /\ ~WritingGroup
      BY <1>9 DEF FinishInstall
    <2>2. PendingIds = <<>> /\ PendingIds' = <<>>
      BY <2>1, IdleHasNoGroup
    <2>3. QED
      BY <2>1, <2>2, Invisible
  <1>10. CASE Crash
    <2>1. /\ status' = "down" /\ applied' = applied /\ pending' = pending
      BY <1>10 DEF Crash
    <2>2. CASE status = "up"
      <3>1. Promise!Stop
        BY <1>3, <2>1, <2>2 DEF Promise!Stop
      <3>2. QED
        BY <3>1 DEF Promise!Next
    <2>3. CASE status # "up"
      BY <1>3, <2>1, <2>3 DEF Promise!vars
    <2>4. QED
      BY <2>2, <2>3
  <1>11. CASE Open
    <2>1. status = "down" /\ status' = "up" /\ Survives
      BY <1>11, OpenKeeps
    <2>2. pending' = NoWrite
      BY <1>11 DEF Open
    <2>3. PendingIds' = <<>>
      BY <2>2, IdleHasNoGroup
    <2>4. Promise!Reopen
      BY <2>1, <2>3 DEF Survives, Promise!Reopen
    <2>5. QED
      BY <2>4 DEF Promise!Next
  <1>12. CASE UNCHANGED vars
    <2>1. status' = status /\ applied' = applied /\ pending' = pending
      BY <1>12 DEF vars, memory
    <2>2. QED
      BY <1>3, <2>1, Invisible
  <1>13. QED
    BY <1>1, <1>2, <1>4, <1>5, <1>6, <1>7, <1>8, <1>9, <1>10, <1>11, <1>12 DEF Next

(* The detailed directory implements the abstract log: what is acknowledged stays,
   in order; of a group that was being written when the handle stopped exactly a
   prefix survives, decided when the database is opened again.              *)
THEOREM PromiseIsKept ==
    ASSUME Damage # "any"
    PROVE  Spec => KeepsPromise
  <1>1. Init => Promise!Init
    <2>1. ASSUME Init PROVE Promise!Init
      <3>1. applied = <<>> /\ pending = NoWrite /\ status = "up"
        BY <2>1 DEF Init
      <3>2. PendingIds = <<>>
        BY <3>1, IdleHasNoGroup
      <3>3. QED
        BY <3>1, <3>2 DEF Promise!Init
    <2>2. QED
      BY <2>1
  <1>2. IInv /\ [Next]_vars => [Promise!Next]_(Promise!vars)
    BY StepPromised
  <1>3. Spec => []IInv
    BY Inductive
  <1>4. QED
    BY <1>1, <1>2, <1>3, PTL DEF Spec, KeepsPromise, Promise!Spec
=============================================================================
