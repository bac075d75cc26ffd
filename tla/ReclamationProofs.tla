--------------------------- MODULE ReclamationProofs ---------------------------
(***************************************************************************)
(* Cleanup for any entities, handles and generations: no file that the     *)
(* published state, a live handle, a build or recovery may open is removed. *)
(***************************************************************************)
EXTENDS Reclamation, FiniteSetTheorems, TLAPS

Building == job.phase \in {"building", "built"}

(* Generations below it are installed or abandoned: their manifests stay.  *)
Frontier == IF Building THEN job.gen ELSE nextGen

(* The roots a read through a state uses.                                  *)
Refs(s) == {s.root} \union {x \in Gens : \E k \in Keys : s.overlay.entries[k] = x}

(* An overlay counts exactly the records bound to each root.               *)
Exact(o) == o.owners = [g \in Gens |-> Cardinality({k \in Keys : o.entries[k] = g})]

(* A generation whose manifest stays, whose files exist, and which the     *)
(* running cleanup leaves alone.                                           *)
Safe(g) ==
    /\ g \in Gens /\ g < Frontier
    /\ manifest[g].files \subseteq disk
    /\ job.phase = "removing" => manifest[g].files \subseteq job.keep

(* The current root holds an entity.                                       *)
Holds(k) == k \in manifest[state.root].keys

(* A state as readers, transactions and builds keep it: its roots are safe *)
(* and no entity it has on disk is missing from the current root.          *)
StateOK(s) ==
    /\ Exact(s.overlay)
    /\ \A g \in Refs(s) : Safe(g)
    /\ \A k \in Keys : /\ k \in manifest[s.root].keys => Holds(k)
                       /\ s.overlay.entries[k] \in Gens => Holds(k)

(* Commits bind to the current root, so that an overlay has no roots but   *)
(* it and, for commits during the last build, the one before.              *)
Recent(o) == \A k \in Keys : o.entries[k] \in Gens => o.entries[k] \in {state.root, previous}

(* A pin being registered has the published state; a staged record lies in *)
(* a root its transaction pins.                                            *)
HandleOK(r) ==
    /\ StateOK(r.state)
    /\ r.phase = "pinning" => r.state = state
    /\ r.phase = "prepared" => r.key # NoKey
    /\ r.bound \in Gens => r.bound \in Refs(r.state) /\ Holds(r.key)

StateInv == StateOK(state) /\ Recent(state.overlay) /\ Safe(previous)

(* What is committed during a build is bound to the root it started from.  *)
TailInv ==
    /\ Exact(tail)
    /\ \A k \in Keys : tail.entries[k] \in Gens => tail.entries[k] = state.root /\ Holds(k)

HandleInv == \A h \in Handles : handle[h].phase # "idle" => HandleOK(handle[h])

JobInv ==
    /\ Building => /\ job.gen + 1 = nextGen
                   /\ job.state.root = state.root
                   /\ Recent(job.state.overlay)
    /\ job.phase = "built" => /\ job.built.files \subseteq disk
                              /\ \A k \in Keys : Holds(k) => k \in job.built.keys
    /\ job.phase = "installed" => job.state.root = state.root

IInv == TypeOK /\ StateInv /\ TailInv /\ HandleInv /\ JobInv

-----------------------------------------------------------------------------
(* Overlays.                                                               *)

(* The markers for no root are not generations.                            *)
LEMMA Markers == NoDisk \notin Gens /\ Out \notin Gens /\ 0 \in Gens
  BY GenAssumption DEF NoDisk, Out, Gens

(* A set of entities is finite.                                            *)
LEMMA KeySets ==
  ASSUME NEW K \in SUBSET Keys
  PROVE  IsFiniteSet(K) /\ Cardinality(K) \in Nat
  BY KeysAssumption, FS_Subset, FS_CardinalityType

(* An exact count of a root that a record is bound to is not zero.         *)
LEMMA BoundIsCounted ==
  ASSUME NEW o, Exact(o), NEW k \in Keys, NEW g \in Gens, o.entries[k] = g
  PROVE  o.owners[g] > 0
<1> DEFINE K == {j \in Keys : o.entries[j] = g}
<1>1. k \in K /\ K \in SUBSET Keys
  OBVIOUS
<1>2. IsFiniteSet(K) /\ Cardinality(K) \in Nat
  BY <1>1, KeySets
<1>3. Cardinality(K) # 0
  BY <1>1, <1>2, FS_EmptySet
<1>4. o.owners[g] = Cardinality(K)
  BY DEF Exact
<1> QED
  BY <1>2, <1>3, <1>4

(* The empty overlay counts nothing.                                       *)
LEMMA EmptyIsExact == EmptyOverlay \in Overlays /\ Exact(EmptyOverlay)
<1>1. EmptyOverlay \in Overlays
  BY DEF EmptyOverlay, Overlays, Bindings
<1>2. ASSUME NEW g \in Gens
      PROVE  Cardinality({k \in Keys : EmptyOverlay.entries[k] = g}) = 0
  <2>1. {k \in Keys : EmptyOverlay.entries[k] = g} = {}
    BY Markers DEF EmptyOverlay
  <2> QED
    BY <2>1, FS_EmptySet
<1>3. EmptyOverlay.owners = [g \in Gens |-> 0]
  BY DEF EmptyOverlay
<1> QED
  BY <1>1, <1>2, <1>3 DEF Exact

(* Overlay.insert keeps the counts exact, whatever root the record it      *)
(* replaces was bound to.                                                  *)
LEMMA InsertIsExact ==
  ASSUME NEW o \in Overlays, Exact(o), NEW k \in Keys, NEW b \in Bindings
  PROVE  /\ OverlayInsert(o, k, b) \in Overlays
         /\ Exact(OverlayInsert(o, k, b))
         /\ OverlayInsert(o, k, b).entries = [o.entries EXCEPT ![k] = b]
<1> DEFINE entries == [o.entries EXCEPT ![k] = b]
           Of(g) == {j \in Keys : o.entries[j] = g}
           New(g) == {j \in Keys : entries[j] = g}
           result == OverlayInsert(o, k, b)
<1>1. o.entries \in [Keys -> Bindings] /\ o.owners \in [Gens -> Nat]
  BY DEF Overlays
<1>2. \A g \in Gens : /\ IsFiniteSet(Of(g)) /\ Cardinality(Of(g)) \in Nat
                      /\ IsFiniteSet(New(g)) /\ Cardinality(New(g)) \in Nat
                      /\ o.owners[g] = Cardinality(Of(g))
  BY KeySets DEF Exact
<1>3. entries \in [Keys -> Bindings] /\ result.entries = entries
  BY <1>1 DEF OverlayInsert
<1>4. ASSUME NEW g \in Gens
      PROVE  result.owners[g] = Cardinality(New(g))
  <2>1. CASE o.entries[k] = g /\ b = g
    <3>1. New(g) = Of(g)
      BY <1>1, <2>1
    <3>2. result.owners = o.owners
      BY <2>1 DEF OverlayInsert, OwnedRoot
    <3> QED
      BY <1>2, <3>1, <3>2
  <2>2. CASE o.entries[k] = g /\ b # g
    <3>1. New(g) = Of(g) \ {k} /\ k \in Of(g)
      BY <1>1, <2>2
    <3>2. Cardinality(Of(g) \ {k}) = Cardinality(Of(g)) - 1
      BY <1>2, <3>1, FS_RemoveElement
    <3>3. OwnedRoot(o.entries[k]) = g /\ OwnedRoot(b) # g
      BY <2>2, Markers DEF OwnedRoot
    <3>4. result.owners[g] = o.owners[g] - 1
      BY <3>3 DEF OverlayInsert
    <3> QED
      BY <1>2, <3>1, <3>2, <3>4
  <2>3. CASE o.entries[k] # g /\ b = g
    <3>1. New(g) = Of(g) \union {k} /\ k \notin Of(g)
      BY <1>1, <2>3
    <3>2. Cardinality(Of(g) \union {k}) = Cardinality(Of(g)) + 1
      BY <1>2, <3>1, FS_AddElement
    <3>3. OwnedRoot(o.entries[k]) # g /\ OwnedRoot(b) = g
      BY <2>3, Markers DEF OwnedRoot
    <3>4. result.owners[g] = o.owners[g] + 1
      BY <3>3 DEF OverlayInsert
    <3> QED
      BY <1>2, <3>1, <3>2, <3>4
  <2>4. CASE o.entries[k] # g /\ b # g
    <3>1. New(g) = Of(g)
      BY <1>1, <2>4
    <3>2. OwnedRoot(o.entries[k]) # g /\ OwnedRoot(b) # g
      BY <2>4, Markers DEF OwnedRoot
    <3>3. result.owners[g] = o.owners[g]
      BY <3>2 DEF OverlayInsert
    <3> QED
      BY <1>2, <3>1, <3>3
  <2> QED
    BY <2>1, <2>2, <2>3, <2>4
<1>5. result.owners = [g \in Gens |-> result.owners[g]]
  BY <1>1 DEF OverlayInsert
<1>6. result.owners = [g \in Gens |-> Cardinality(New(g))]
  BY <1>4, <1>5
<1>7. result.owners \in [Gens -> Nat]
  BY <1>2, <1>6
<1>8. result = [entries |-> result.entries, owners |-> result.owners]
  BY DEF OverlayInsert
<1>9. result \in Overlays
  BY <1>3, <1>7, <1>8 DEF Overlays
<1> QED
  BY <1>3, <1>6, <1>9 DEF Exact

-----------------------------------------------------------------------------
(* Files.                                                                  *)

(* Cleanup finds the files of every root a state reads from its counts.    *)
LEMMA FilesCoverRefs ==
  ASSUME NEW s \in States, Exact(s.overlay), NEW g \in Refs(s)
  PROVE  manifest[g].files \subseteq Files(s)
<1>1. CASE g = s.root
  BY <1>1 DEF Files
<1>2. CASE g # s.root
  <2>1. PICK k \in Keys : g \in Gens /\ s.overlay.entries[k] = g
    BY <1>2 DEF Refs
  <2>2. s.overlay.owners[g] > 0
    BY <2>1, BoundIsCounted
  <2> QED
    BY <2>1, <2>2 DEF Files
<1> QED
  BY <1>1, <1>2

(* A state whose roots are safe can be read.                               *)
LEMMA SafeIsReadable ==
  ASSUME NEW s, \A g \in Refs(s) : Safe(g)
  PROVE  Needed(s) \subseteq disk
<1>1. Needed(s) \subseteq UNION {manifest[g].files : g \in Refs(s)}
  BY DEF Needed, Refs
<1>2. \A g \in Refs(s) : manifest[g].files \subseteq disk
  BY DEF Safe
<1> QED
  BY <1>1, <1>2

(* The current root and the one before it are all a recent state reads.    *)
LEMMA RecentRefs ==
  ASSUME NEW s, s.root = state.root, Recent(s.overlay)
  PROVE  Refs(s) \subseteq {state.root, previous}
  BY DEF Refs, Recent

(* The invariant says what is to be shown.                                 *)
LEMMA InvariantSuffices == IInv => ReadableFilesExist
<1> SUFFICES ASSUME IInv PROVE ReadableFilesExist
  OBVIOUS
<1>1. Needed(state) \subseteq disk
  BY SafeIsReadable DEF IInv, StateInv, StateOK
<1>2. manifest[previous].files \subseteq disk
  BY DEF IInv, StateInv, Safe
<1>3. ASSUME NEW h \in Live
      PROVE  /\ Needed(handle[h].state) \subseteq disk
             /\ handle[h].bound \in Gens => manifest[handle[h].bound].files \subseteq disk
  <2>1. HandleOK(handle[h])
    BY DEF IInv, HandleInv, Live
  <2>2. \A g \in Refs(handle[h].state) : Safe(g)
    BY <2>1 DEF HandleOK, StateOK
  <2>3. Needed(handle[h].state) \subseteq disk
    BY <2>2, SafeIsReadable
  <2> QED
    BY <2>1, <2>2, <2>3 DEF HandleOK, Safe
<1>4. ASSUME Building PROVE Needed(job.state) \subseteq disk
  <2>1. Refs(job.state) \subseteq {state.root, previous}
    BY <1>4, RecentRefs DEF IInv, JobInv
  <2>2. Safe(state.root) /\ Safe(previous)
    BY DEF IInv, StateInv, StateOK, Refs
  <2> QED
    BY <2>1, <2>2, SafeIsReadable
<1> QED
  BY <1>1, <1>2, <1>3, <1>4 DEF ReadableFilesExist, Building

(* A database just opened satisfies it.                                    *)
LEMMA InvariantInitially == Init => IInv
<1> SUFFICES ASSUME Init PROVE IInv
  OBVIOUS
<1>1. EmptyState \in States
  BY EmptyIsExact, Markers DEF EmptyState, States
<1>2. TypeOK
  <2>1. NoJob \in Jobs /\ NoHandle \in HandleStates
    BY <1>1, Markers DEF NoJob, NoHandle, Jobs, HandleStates, Manifests
  <2>2. manifest \in [Gens -> Manifests]
    BY KeysAssumption, Markers DEF Init, Manifests
  <2>3. disk \subseteq Gens /\ previous \in Gens /\ nextGen \in 1 .. MaxGen + 1
    BY Markers, GenAssumption DEF Init
  <2> QED
    BY <1>1, <2>1, <2>2, <2>3, EmptyIsExact DEF Init, TypeOK
<1>3. job.phase = "none" /\ ~Building
  BY DEF Init, NoJob, Building
<1>4. Safe(0)
  BY <1>3, Markers DEF Init, Safe, Frontier
<1>5. /\ state.root = 0 /\ state.overlay = EmptyOverlay
      /\ \A k \in Keys : EmptyOverlay.entries[k] \notin Gens
  BY Markers DEF Init, EmptyState, EmptyOverlay
<1>6. Refs(state) = {0}
  BY <1>5 DEF Refs
<1>7. StateInv /\ TailInv
  BY <1>4, <1>5, <1>6, EmptyIsExact
     DEF Init, StateInv, StateOK, TailInv, Recent, Holds
<1>8. HandleInv /\ JobInv
  BY <1>3 DEF Init, HandleInv, NoHandle, JobInv
<1> QED
  BY <1>2, <1>7, <1>8 DEF IInv

-----------------------------------------------------------------------------
(* Steps.                                                                  *)

(* A step of one handle leaves the database alone: it is enough that what  *)
(* the handle has after it is in order.                                    *)
LEMMA HandleStep ==
  ASSUME IInv, NEW h \in Handles, NEW r \in HandleStates,
         r.phase # "idle" => HandleOK(r),
         handle' = [handle EXCEPT ![h] = r],
         UNCHANGED <<disk, manifest, state, previous, tail, job, nextGen>>
  PROVE  IInv'
<1>1. TypeOK'
  BY DEF IInv, TypeOK
<1>2. StateInv' /\ TailInv' /\ JobInv'
  BY DEF IInv, StateInv, StateOK, TailInv, JobInv, Recent, Safe, Frontier, Building, Holds
<1>3. HandleInv'
  <2> SUFFICES ASSUME NEW i \in Handles, handle'[i].phase # "idle"
               PROVE  HandleOK(handle[i])'
    BY DEF HandleInv
  <2>1. HandleOK(handle'[i])
    BY DEF IInv, TypeOK, HandleInv
  <2> QED
    BY <2>1 DEF HandleOK, StateOK, Safe, Frontier, Building, Holds
<1> QED
  BY <1>1, <1>2, <1>3 DEF IInv

(* A handle that is idle needs nothing.                                    *)
LEMMA NoHandleType == NoHandle \in HandleStates /\ NoHandle.phase = "idle"
<1>1. EmptyState \in States
  BY EmptyIsExact, Markers DEF EmptyState, States
<1> QED
  BY <1>1 DEF NoHandle, HandleStates

(* Pinning, releasing, staging and preparing keep the invariant.           *)
LEMMA HandleActions ==
  ASSUME IInv, NEW h \in Handles,
         PinRead(h) \/ PinRegister(h) \/ Release(h) \/ Prepare(h)
            \/ \E k \in Keys : Stage(h, k)
  PROVE  IInv'
<1>1. handle \in [Handles -> HandleStates] /\ state \in States
  BY DEF IInv, TypeOK
<1>2. CASE PinRead(h)
  <2> DEFINE r == [NoHandle EXCEPT !.phase = "pinning", !.state = state]
  <2>1. /\ r \in HandleStates
        /\ r.phase = "pinning" /\ r.state = state /\ r.bound = NoDisk
    BY <1>1, NoHandleType DEF NoHandle, HandleStates
  <2>2. HandleOK(r)
    BY <2>1, Markers DEF IInv, StateInv, HandleOK
  <2> QED
    BY <1>2, <2>1, <2>2, HandleStep DEF PinRead
<1>3. CASE PinRegister(h)
  <2> DEFINE r == [handle[h] EXCEPT !.phase = "held"]
  <2>1. /\ r \in HandleStates
        /\ r.phase = "held" /\ r.state = handle[h].state
        /\ r.key = handle[h].key /\ r.bound = handle[h].bound
    BY <1>1 DEF HandleStates
  <2>2. HandleOK(handle[h])
    BY <1>3 DEF PinRegister, IInv, HandleInv
  <2>3. HandleOK(r)
    BY <2>1, <2>2 DEF HandleOK
  <2> QED
    BY <1>3, <2>1, <2>3, HandleStep DEF PinRegister
<1>4. CASE Release(h)
  BY <1>4, NoHandleType, HandleStep DEF Release
<1>5. ASSUME NEW k \in Keys, Stage(h, k)
      PROVE  IInv'
  <2> DEFINE r == [handle[h] EXCEPT !.key = k, !.bound = Load(handle[h].state, k)]
  <2>1. HandleOK(handle[h])
    BY <1>5 DEF Stage, IInv, HandleInv
  <2>2. handle[h].state.overlay.entries[k] \in Bindings /\ handle[h].state.root \in Gens
    BY <1>1 DEF HandleStates, States, Overlays
  <2>3. Load(handle[h].state, k) \in Gens \union {NoDisk}
    BY <2>2, Markers DEF Load, Bindings
  <2>4. Load(handle[h].state, k) \in Gens =>
           Load(handle[h].state, k) \in Refs(handle[h].state) /\ Holds(k)
    <3>1. CASE handle[h].state.overlay.entries[k] # Out
      BY <2>1, <3>1 DEF Load, Refs, HandleOK, StateOK
    <3>2. CASE handle[h].state.overlay.entries[k] = Out
      BY <2>1, <3>2, Markers DEF Load, Refs, HandleOK, StateOK
    <3> QED
      BY <3>1, <3>2
  <2>5. /\ r \in HandleStates
        /\ r.phase = handle[h].phase /\ r.state = handle[h].state
        /\ r.key = k /\ r.bound = Load(handle[h].state, k)
    BY <1>1, <2>3 DEF HandleStates
  <2>6. HandleOK(r)
    BY <1>5, <2>1, <2>4, <2>5 DEF HandleOK, Stage
  <2>7. handle' = [handle EXCEPT ![h] = r]
    BY <1>5 DEF Stage
  <2> QED
    BY <1>5, <2>5, <2>6, <2>7, HandleStep DEF Stage
<1>6. CASE Prepare(h)
  <2> DEFINE r == [handle[h] EXCEPT !.phase = "prepared"]
  <2>1. /\ r \in HandleStates
        /\ r.phase = "prepared" /\ r.state = handle[h].state
        /\ r.key = handle[h].key /\ r.bound = handle[h].bound
    BY <1>1 DEF HandleStates
  <2>2. HandleOK(handle[h])
    BY <1>6 DEF Prepare, IInv, HandleInv
  <2>3. HandleOK(r)
    BY <1>6, <2>1, <2>2 DEF HandleOK, Prepare
  <2> QED
    BY <1>6, <2>1, <2>3, HandleStep DEF Prepare
<1> QED
  BY <1>2, <1>3, <1>4, <1>5, <1>6

(* A commit binds its record to the current root or to none.               *)
LEMMA ReboundToRoot ==
  ASSUME IInv, NEW h \in Handles, handle[h].phase = "prepared"
  PROVE  /\ handle[h].key \in Keys
         /\ Rebound(h) \in {state.root, NoDisk}
         /\ Rebound(h) \in Gens => Holds(handle[h].key)
<1>1. handle[h] \in HandleStates /\ HandleOK(handle[h])
  BY DEF IInv, TypeOK, HandleInv
<1>2. handle[h].key \in Keys /\ handle[h].bound \in Gens \union {NoDisk}
  BY <1>1 DEF HandleStates, HandleOK
<1>3. handle[h].bound \in Gens => Holds(handle[h].key)
  BY <1>1 DEF HandleOK
<1> QED
  BY <1>2, <1>3, Markers DEF Rebound, Holds

(* Publishing a commit keeps the invariant: the roots of the overlay stay  *)
(* recent and their counts exact.                                          *)
LEMMA CommitKeeps ==
  ASSUME IInv, NEW h \in Handles, Commit(h)
  PROVE  IInv'
<1> DEFINE k == handle[h].key
           b == Rebound(h)
<1>1. k \in Keys /\ b \in {state.root, NoDisk} /\ (b \in Gens => Holds(k))
  BY ReboundToRoot DEF Commit
<1>2. /\ state \in States /\ tail \in Overlays /\ state.overlay \in Overlays
      /\ state.root \in Gens /\ b \in Bindings
  BY <1>1 DEF IInv, TypeOK, States, Bindings
<1>3. /\ UNCHANGED <<disk, manifest, previous, job, nextGen>>
      /\ state' = [state EXCEPT !.overlay = OverlayInsert(state.overlay, k, b)]
      /\ tail' = tail \/ tail' = OverlayInsert(tail, k, b)
      /\ handle' = [handle EXCEPT ![h] = NoHandle]
      /\ Pinning = {}
  BY DEF Commit
<1>4. /\ state'.overlay = OverlayInsert(state.overlay, k, b) /\ state'.root = state.root
      /\ state'.overlay.entries = [state.overlay.entries EXCEPT ![k] = b]
      /\ state' \in States /\ Exact(state'.overlay)
  <2>1. Exact(state.overlay)
    BY DEF IInv, StateInv, StateOK
  <2>2. /\ OverlayInsert(state.overlay, k, b) \in Overlays
        /\ Exact(OverlayInsert(state.overlay, k, b))
        /\ OverlayInsert(state.overlay, k, b).entries = [state.overlay.entries EXCEPT ![k] = b]
    BY <1>1, <1>2, <2>1, InsertIsExact
  <2> QED
    BY <1>2, <1>3, <2>2 DEF States
<1>5. /\ tail' \in Overlays /\ Exact(tail')
      /\ tail'.entries = tail.entries \/ tail'.entries = [tail.entries EXCEPT ![k] = b]
  <2>1. Exact(tail)
    BY DEF IInv, TailInv
  <2> QED
    BY <1>1, <1>2, <1>3, <2>1, InsertIsExact
<1>6. state.overlay.entries \in [Keys -> Bindings] /\ tail.entries \in [Keys -> Bindings]
  BY <1>2 DEF Overlays
<1>7. TypeOK'
  BY <1>3, <1>4, <1>5, NoHandleType DEF IInv, TypeOK
<1>8. /\ \A g : Safe(g)' <=> Safe(g)
      /\ \A j : Holds(j)' <=> Holds(j)
  BY <1>3, <1>4 DEF Safe, Holds, Frontier, Building
<1>9. StateInv'
  <2>1. Recent(state.overlay)'
    BY <1>1, <1>3, <1>4, <1>6, Markers DEF IInv, StateInv, Recent
  <2>2. (Safe(state.root) /\ Safe(previous))'
    BY <1>3, <1>4 DEF IInv, StateInv, StateOK, Refs, Safe, Frontier, Building
  <2>3. Refs(state') \subseteq {state'.root, previous'}
    BY <2>1 DEF Refs, Recent
  <2>4. \A g \in Refs(state') : Safe(g)'
    BY <2>2, <2>3 DEF Safe, Frontier, Building
  <2>5. \A j \in Keys : /\ j \in manifest'[state'.root].keys => Holds(j)'
                        /\ state'.overlay.entries[j] \in Gens => Holds(j)'
    BY <1>1, <1>3, <1>4, <1>6 DEF IInv, StateInv, StateOK, Holds
  <2> QED
    BY <1>4, <2>1, <2>2, <2>4, <2>5 DEF StateInv, StateOK, Safe, Frontier, Building, Holds
<1>10. TailInv'
  BY <1>1, <1>3, <1>4, <1>5, <1>6, Markers DEF IInv, TailInv, Holds
<1>11. HandleInv'
  <2> SUFFICES ASSUME NEW i \in Handles, handle'[i].phase # "idle"
               PROVE  HandleOK(handle[i])'
    BY DEF HandleInv
  <2>1. handle'[i] = handle[i] /\ handle[i].phase # "pinning"
    BY <1>3, NoHandleType DEF IInv, TypeOK, Pinning
  <2>2. HandleOK(handle[i])
    BY <2>1 DEF IInv, HandleInv
  <2> QED
    BY <1>3, <1>4, <2>1, <2>2 DEF HandleOK, StateOK, Safe, Frontier, Building, Holds
<1>12. JobInv'
  BY <1>3, <1>4 DEF IInv, JobInv, Building, Recent, Holds
<1> QED
  BY <1>7, <1>9, <1>10, <1>11, <1>12 DEF IInv

(* The roots anybody reads: those of the published state and the baseline, *)
(* and those of the live handles.                                          *)
Roots == {state.root, previous} \union UNION {Refs(handle[h].state) : h \in Live}

(* They are all safe.                                                      *)
LEMMA RootsAreSafe == IInv => \A g \in Roots : Safe(g)
  BY DEF IInv, StateInv, StateOK, HandleInv, HandleOK, Roots, Refs, Live

(* A step of the job that publishes nothing: it is enough that the roots   *)
(* in use stay safe.                                                       *)
LEMMA JobStep ==
  ASSUME IInv, UNCHANGED <<manifest, state, previous, handle>>,
         \A g \in Roots : Safe(g)'
  PROVE  StateInv' /\ HandleInv'
<1>1. Refs(state) \subseteq {state.root, previous}
  BY RecentRefs DEF IInv, StateInv
<1>2. StateInv'
  BY <1>1 DEF IInv, StateInv, StateOK, Roots, Recent, Holds, Safe, Frontier, Building
<1>3. HandleInv'
  <2> SUFFICES ASSUME NEW i \in Handles, handle'[i].phase # "idle"
               PROVE  HandleOK(handle[i])'
    BY DEF HandleInv
  <2>1. HandleOK(handle[i]) /\ Refs(handle[i].state) \subseteq Roots
    BY DEF IInv, HandleInv, Roots, Live
  <2> QED
    BY <2>1 DEF HandleOK, StateOK, Holds, Safe, Frontier, Building
<1> QED
  BY <1>2, <1>3

(* No job and its empty parts have their types.                            *)
LEMMA NoJobType == NoJob \in Jobs /\ NoJob.phase = "none"
<1>1. EmptyState \in States
  BY EmptyIsExact, Markers DEF EmptyState, States
<1> QED
  BY <1>1, Markers DEF NoJob, Jobs, Manifests

(* A tail with no records is in order.                                     *)
LEMMA EmptyTail ==
  ASSUME tail' = EmptyOverlay
  PROVE  TailInv'
<1>1. \A k \in Keys : EmptyOverlay.entries[k] \notin Gens
  BY Markers DEF EmptyOverlay
<1> QED
  BY <1>1, EmptyIsExact DEF TailInv

(* A checkpoint's capture keeps the invariant.                             *)
LEMMA CaptureKeeps ==
  ASSUME IInv, Capture
  PROVE  IInv'
<1>1. /\ job' = [NoJob EXCEPT !.phase = "building", !.gen = nextGen, !.state = state]
      /\ nextGen \in Gens /\ nextGen' = nextGen + 1
      /\ state \in States
  BY GenAssumption DEF Capture, IInv, TypeOK, Gens
<1>2. /\ job' \in Jobs /\ job'.phase = "building"
      /\ job'.gen = nextGen /\ job'.state = state
  BY <1>1, NoJobType DEF NoJob, Jobs
<1>3. TypeOK'
  <2>1. nextGen' \in 1 .. MaxGen + 1
    BY GenAssumption DEF Capture, IInv, TypeOK
  <2> QED
    BY <1>2, <2>1, EmptyIsExact DEF Capture, IInv, TypeOK
<1>4. \A g \in Roots : Safe(g)'
  <2>1. Frontier = nextGen /\ Frontier' = nextGen
    BY <1>2 DEF Frontier, Building, Capture
  <2> QED
    BY <1>2, <2>1, RootsAreSafe DEF Safe, Capture
<1>5. StateInv' /\ HandleInv'
  BY <1>4, JobStep DEF Capture
<1>6. TailInv'
  BY EmptyTail DEF Capture
<1>7. JobInv'
  BY <1>1, <1>2 DEF Capture, IInv, StateInv, JobInv, Building, Recent
<1> QED
  BY <1>3, <1>5, <1>6, <1>7 DEF IInv

(* So does a build: its manifest lists only files that exist.              *)
LEMMA BuildKeeps ==
  ASSUME IInv, NEW kept \in SUBSET Gens, Build(kept)
  PROVE  IInv'
<1> DEFINE held == manifest[job.state.root].keys
                   \union {k \in Keys : job.state.overlay.entries[k] # Out}
           built == [files |-> kept \union {job.gen}, keys |-> held]
<1>1. /\ job.phase = "building" /\ Building
      /\ job' = [job EXCEPT !.phase = "built", !.built = built]
      /\ disk' = disk \union {job.gen}
      /\ kept \subseteq Needed(job.state)
      /\ UNCHANGED <<manifest, state, previous, tail, nextGen, handle>>
  BY DEF Build, Building
<1>2. job \in Jobs /\ job.gen \in Gens /\ job.state.root \in Gens
  BY DEF IInv, TypeOK, Jobs, States
<1>3. built \in Manifests
  <2>1. manifest[job.state.root].keys \subseteq Keys
    BY <1>2 DEF IInv, TypeOK, Manifests
  <2> QED
    BY <1>2, <2>1 DEF Manifests
<1>4. /\ job' \in Jobs /\ job'.phase = "built" /\ job'.built = built
      /\ job'.gen = job.gen /\ job'.state = job.state
  BY <1>1, <1>2, <1>3 DEF Jobs
<1>5. TypeOK'
  BY <1>1, <1>2, <1>4 DEF IInv, TypeOK
<1>6. \A g \in Roots : Safe(g)'
  <2>1. Frontier' = Frontier
    BY <1>1, <1>4 DEF Frontier, Building
  <2> QED
    BY <1>1, <1>4, <2>1, RootsAreSafe DEF Safe
<1>7. StateInv' /\ HandleInv'
  BY <1>1, <1>6, JobStep
<1>8. TailInv'
  BY <1>1 DEF IInv, TailInv, Holds
<1>9. Needed(job.state) \subseteq disk
  BY <1>1, InvariantSuffices DEF ReadableFilesExist
<1>10. \A k \in Keys : Holds(k) => k \in held
  BY <1>1 DEF IInv, JobInv, Holds
<1>11. JobInv'
  BY <1>1, <1>4, <1>9, <1>10 DEF IInv, JobInv, Building, Recent, Holds
<1> QED
  BY <1>5, <1>7, <1>8, <1>11 DEF IInv

(* So does a failed build, whose generation number is not used again.      *)
LEMMA AbandonKeeps ==
  ASSUME IInv, NEW written \in BOOLEAN, Abandon(written)
  PROVE  IInv'
<1>1. /\ job.phase = "building" /\ Building /\ job' = NoJob /\ job'.phase = "none"
      /\ disk \subseteq disk' /\ disk' \subseteq disk \union {job.gen}
      /\ UNCHANGED <<manifest, state, previous, nextGen, handle>>
  BY NoJobType DEF Abandon, Building
<1>2. TypeOK'
  BY <1>1, NoJobType, EmptyIsExact DEF Abandon, IInv, TypeOK, Jobs
<1>3. \A g \in Roots : Safe(g)'
  <2>1. Frontier' = nextGen /\ Frontier = job.gen /\ job.gen + 1 = nextGen
    BY <1>1 DEF Frontier, Building, IInv, JobInv
  <2>2. job.gen \in Int
    BY GenAssumption DEF IInv, TypeOK, Jobs, Gens
  <2>3. \A g \in Gens : g < Frontier => g < Frontier'
    BY <2>1, <2>2, GenAssumption DEF Gens
  <2> QED
    BY <1>1, <2>3, RootsAreSafe DEF Safe
<1>4. StateInv' /\ HandleInv'
  BY <1>1, <1>3, JobStep
<1>5. TailInv'
  BY EmptyTail DEF Abandon
<1>6. JobInv'
  BY <1>1 DEF JobInv, Building
<1> QED
  BY <1>2, <1>4, <1>5, <1>6 DEF IInv

(* So does an installation: older manifests stay as they are, and the new  *)
(* root holds every entity the old one held.                               *)
LEMMA InstallKeeps ==
  ASSUME IInv, Install
  PROVE  IInv'
<1>1. /\ job.phase = "built" /\ Building /\ Pinning = {}
      /\ manifest' = [manifest EXCEPT ![job.gen] = job.built]
      /\ state' = [root |-> job.gen, overlay |-> tail]
      /\ previous' = state.root
      /\ job' = [NoJob EXCEPT !.phase = "installed", !.state = state']
      /\ UNCHANGED <<disk, nextGen, handle>>
  BY DEF Install, Building
<1>2. /\ job.gen \in Gens /\ job.built \in Manifests /\ state.root \in Gens
      /\ tail \in Overlays /\ manifest \in [Gens -> Manifests]
      /\ job.gen + 1 = nextGen /\ job.gen \in Int
  BY <1>1, GenAssumption DEF IInv, TypeOK, Jobs, States, JobInv, Gens
<1>3. state' \in States /\ state'.root = job.gen /\ state'.overlay = tail
  BY <1>1, <1>2 DEF States
<1>4. job' \in Jobs /\ job'.phase = "installed" /\ job'.state = state'
  BY <1>1, <1>3, NoJobType DEF NoJob, Jobs
<1>5. TypeOK'
  BY <1>1, <1>2, <1>3, <1>4, EmptyIsExact DEF Install, IInv, TypeOK
<1>6. /\ \A g \in Gens \ {job.gen} : manifest'[g] = manifest[g]
      /\ manifest'[job.gen] = job.built
  BY <1>1, <1>2
<1>7. Frontier = job.gen /\ Frontier' = nextGen
  BY <1>1, <1>4 DEF Frontier, Building
<1>8. ASSUME NEW g, Safe(g)
      PROVE  manifest'[g] = manifest[g] /\ Safe(g)'
  <2>1. g \in Gens /\ g < job.gen /\ g < nextGen
    BY <1>2, <1>7, <1>8, GenAssumption DEF Safe, Gens
  <2>2. manifest'[g] = manifest[g]
    BY <1>2, <1>6, <2>1, GenAssumption DEF Gens
  <2> QED
    BY <1>1, <1>4, <1>7, <1>8, <2>1, <2>2 DEF Safe
<1>9. ASSUME NEW k \in Keys, Holds(k)
      PROVE  Holds(k)'
  BY <1>1, <1>3, <1>6, <1>9 DEF Holds, IInv, JobInv
<1>10. ASSUME NEW g, g = job.gen
       PROVE  Safe(g)'
  BY <1>1, <1>2, <1>4, <1>6, <1>7, <1>10 DEF Safe, IInv, JobInv
<1>11. StateInv'
  <2>1. Safe(state.root) /\ \A k \in Keys : tail.entries[k] \in Gens => tail.entries[k] = state.root
    BY DEF IInv, StateInv, StateOK, Refs, TailInv
  <2>2. Refs(state') \subseteq {job.gen, state.root}
    BY <1>3, <2>1 DEF Refs
  <2>3. \A g \in Refs(state') : Safe(g)'
    BY <1>8, <1>10, <2>1, <2>2
  <2>4. Safe(previous)'
    BY <1>1, <1>4, <1>7, <1>8, <2>1 DEF Safe, Frontier, Building
  <2>5. \A k \in Keys : state'.overlay.entries[k] \in Gens => Holds(k)'
    BY <1>3, <1>9 DEF IInv, TailInv
  <2>6. Recent(state.overlay)'
    BY <1>1, <1>3, <2>1 DEF Recent
  <2>7. Exact(state'.overlay)
    BY <1>3 DEF IInv, TailInv
  <2> QED
    BY <2>3, <2>4, <2>5, <2>6, <2>7
       DEF StateInv, StateOK, Holds, Safe, Frontier, Building
<1>12. TailInv'
  BY EmptyTail DEF Install
<1>13. HandleInv'
  <2> SUFFICES ASSUME NEW i \in Handles, handle'[i].phase # "idle"
               PROVE  HandleOK(handle[i])'
    BY DEF HandleInv
  <2> DEFINE s == handle[i].state
  <2>1. /\ handle'[i] = handle[i] /\ handle[i].phase # "pinning"
        /\ HandleOK(handle[i]) /\ handle[i] \in HandleStates
    BY <1>1 DEF Pinning, IInv, TypeOK, HandleInv
  <2>2. \A g \in Refs(s) : Safe(g) /\ Safe(g)' /\ manifest'[g] = manifest[g]
    BY <1>8, <2>1 DEF HandleOK, StateOK
  <2>3. manifest'[s.root] = manifest[s.root]
    BY <2>2 DEF Refs
  <2>4. \A k \in Keys : /\ k \in manifest'[s.root].keys => Holds(k)'
                        /\ s.overlay.entries[k] \in Gens => Holds(k)'
    BY <1>9, <2>1, <2>3 DEF HandleOK, StateOK
  <2>5. handle[i].bound \in Gens => handle[i].key \in Keys
    BY <2>1 DEF HandleOK, Holds, IInv, TypeOK, Manifests, States
  <2>6. handle[i].bound \in Gens => Holds(handle[i].key)'
    BY <1>1, <1>9, <2>1, <2>5 DEF HandleOK, Holds
  <2> QED
    BY <2>1, <2>2, <2>4, <2>6 DEF HandleOK, StateOK, Holds, Safe, Frontier, Building
<1>14. JobInv'
  BY <1>4 DEF JobInv, Building
<1> QED
  BY <1>5, <1>11, <1>12, <1>13, <1>14 DEF IInv

(* So does the decision what to keep: the counts name the roots of every   *)
(* registered pin, and a pin that is not registered yet is recent.         *)
LEMMA DecideKeeps ==
  ASSUME IInv, Decide
  PROVE  IInv'
<1>1. /\ job.phase = "installed" /\ ~Building
      /\ job' = [NoJob EXCEPT !.phase = "removing", !.keep = KeepSet]
      /\ UNCHANGED <<disk, manifest, state, previous, tail, nextGen, handle>>
  BY DEF Decide, Building
<1>2. \A h \in Live : handle[h].state \in States /\ HandleOK(handle[h])
  BY DEF IInv, TypeOK, HandleStates, HandleInv, Live
<1>3. KeepSet \subseteq Gens
  <2>1. \A s \in States : Files(s) \subseteq Gens
    BY DEF IInv, TypeOK, Manifests, Files, States
  <2>2. job.state \in States /\ previous \in Gens
    BY DEF IInv, TypeOK, Jobs
  <2>3. manifest[previous].files \subseteq Gens
    BY <2>2 DEF IInv, TypeOK, Manifests
  <2> QED
    BY <1>2, <2>1, <2>2, <2>3 DEF KeepSet, Registered
<1>4. job' \in Jobs /\ job'.phase = "removing" /\ job'.keep = KeepSet
  BY <1>1, <1>3, NoJobType DEF NoJob, Jobs
<1>5. TypeOK'
  BY <1>1, <1>4 DEF IInv, TypeOK
<1>6. manifest[state.root].files \subseteq KeepSet /\ manifest[previous].files \subseteq KeepSet
  BY <1>1 DEF KeepSet, Files, IInv, JobInv
<1>7. ASSUME NEW h \in Live, NEW g \in Refs(handle[h].state)
      PROVE  manifest[g].files \subseteq KeepSet
  <2>1. CASE h \in Registered
    <3>1. manifest[g].files \subseteq Files(handle[h].state)
      BY <1>2, <1>7, FilesCoverRefs DEF HandleOK, StateOK
    <3> QED
      BY <2>1, <3>1 DEF KeepSet
  <2>2. CASE h \in Pinning
    <3>1. handle[h].state = state
      BY <1>2, <2>2 DEF HandleOK, Pinning
    <3>2. g \in {state.root, previous}
      BY <1>7, <3>1, RecentRefs DEF IInv, StateInv
    <3> QED
      BY <1>6, <3>2
  <2> QED
    BY <2>1, <2>2 DEF Registered
<1>8. \A g \in Roots : Safe(g)'
  <2>1. \A g \in Roots : manifest[g].files \subseteq KeepSet
    BY <1>6, <1>7 DEF Roots
  <2>2. Frontier' = Frontier
    BY <1>1, <1>4 DEF Frontier, Building
  <2> QED
    BY <1>1, <1>4, <2>1, <2>2, RootsAreSafe DEF Safe
<1>9. StateInv' /\ HandleInv'
  BY <1>1, <1>8, JobStep
<1>10. TailInv'
  BY <1>1 DEF IInv, TailInv, Holds
<1>11. JobInv'
  BY <1>4 DEF JobInv, Building
<1> QED
  BY <1>5, <1>9, <1>10, <1>11 DEF IInv

(* So do the removal of a file and the end of the cleanup.                 *)
LEMMA CleanupKeeps ==
  ASSUME IInv, (\E f \in Gens : RemoveFile(f)) \/ CleanupEnds
  PROVE  IInv'
<1>1. /\ job.phase = "removing" /\ ~Building
      /\ UNCHANGED <<manifest, state, previous, tail, nextGen, handle>>
      /\ job' = job \/ job' = NoJob
      /\ disk' \subseteq disk
      /\ \A F : F \subseteq disk /\ F \subseteq job.keep => F \subseteq disk'
  BY DEF RemoveFile, CleanupEnds, Building
<1>2. job'.phase \in {"none", "removing"} /\ ~Building'
  BY <1>1, NoJobType DEF Building
<1>3. TypeOK'
  BY <1>1, NoJobType DEF IInv, TypeOK
<1>4. \A g \in Roots : Safe(g)'
  <2>1. Frontier' = Frontier
    BY <1>1, <1>2 DEF Frontier
  <2>2. job'.phase = "removing" => job'.keep = job.keep
    BY <1>1, NoJobType
  <2> QED
    BY <1>1, <2>1, <2>2, RootsAreSafe DEF Safe
<1>5. StateInv' /\ HandleInv'
  BY <1>1, <1>4, JobStep
<1>6. TailInv'
  BY <1>1 DEF IInv, TailInv, Holds
<1>7. JobInv'
  BY <1>2 DEF JobInv, Building
<1> QED
  BY <1>3, <1>5, <1>6, <1>7 DEF IInv

(* So does a reopening: replay binds what the log changed to the root.     *)
LEMMA ReopenKeeps ==
  ASSUME IInv, Reopen
  PROVE  IInv'
<1> DEFINE bound(k) == CASE state.overlay.entries[k] = Out -> Out
                         [] k \in manifest[state.root].keys -> state.root
                         [] OTHER -> NoDisk
           entries == [k \in Keys |-> bound(k)]
           owners == [g \in Gens |-> Cardinality({k \in Keys : bound(k) = g})]
           overlay == [entries |-> entries, owners |-> owners]
<1>1. /\ state' = [state EXCEPT !.overlay = overlay]
      /\ tail' = EmptyOverlay /\ job' = NoJob
      /\ handle' = [h \in Handles |-> NoHandle]
      /\ UNCHANGED <<disk, manifest, previous, nextGen>>
  BY DEF Reopen
<1>2. state \in States /\ state.root \in Gens
  BY DEF IInv, TypeOK, States
<1>3. \A k \in Keys : /\ bound(k) \in {Out, NoDisk, state.root}
                      /\ bound(k) \in Gens => Holds(k)
  BY Markers DEF Holds
<1>4. overlay \in Overlays /\ Exact(overlay)
  <2>1. entries \in [Keys -> Bindings]
    BY <1>2, <1>3 DEF Bindings
  <2>2. owners \in [Gens -> Nat]
    BY KeySets
  <2>3. owners = [g \in Gens |-> Cardinality({k \in Keys : entries[k] = g})]
    OBVIOUS
  <2> HIDE DEF entries, owners
  <2> QED
    BY <2>1, <2>2, <2>3 DEF Overlays, Exact
<1> HIDE DEF owners
<1>5. state' \in States /\ state'.root = state.root /\ state'.overlay = overlay
  BY <1>1, <1>2, <1>4 DEF States
<1>6. job'.phase = "none" /\ ~Building'
  BY <1>1, NoJobType DEF Building
<1>7. TypeOK'
  BY <1>1, <1>5, NoJobType, NoHandleType, EmptyIsExact DEF IInv, TypeOK
<1>8. Frontier <= Frontier' /\ Frontier \in Int /\ Frontier' \in Int
  BY <1>1, <1>6, GenAssumption DEF Frontier, Building, IInv, TypeOK, JobInv, Jobs, Gens
<1>9. ASSUME NEW g, Safe(g)
      PROVE  Safe(g)'
  BY <1>1, <1>6, <1>8, <1>9, GenAssumption DEF Safe, Gens
<1>10. StateInv'
  <2>1. Safe(state.root) /\ Safe(previous)
    BY DEF IInv, StateInv, StateOK, Refs
  <2>2. Refs(state') \subseteq {state.root}
    BY <1>3, <1>5, Markers DEF Refs
  <2>3. \A g \in Refs(state') : Safe(g)'
    BY <1>9, <2>1, <2>2
  <2>4. Safe(previous)'
    BY <1>1, <1>9, <2>1 DEF Safe, Frontier, Building
  <2>5. Recent(state.overlay)'
    BY <1>3, <1>5, Markers DEF Recent
  <2>6. \A k \in Keys : state'.overlay.entries[k] \in Gens => Holds(k)'
    BY <1>1, <1>3, <1>5 DEF Holds
  <2> QED
    BY <1>4, <1>5, <2>3, <2>4, <2>5, <2>6
       DEF StateInv, StateOK, Holds, Safe, Frontier, Building
<1>11. TailInv'
  BY <1>1, EmptyTail
<1>12. HandleInv' /\ JobInv'
  BY <1>1, <1>6, NoHandleType DEF HandleInv, JobInv, Building
<1> QED
  BY <1>7, <1>10, <1>11, <1>12 DEF IInv

(* The invariant is inductive.                                             *)
LEMMA InvariantKept ==
  ASSUME IInv, [Next]_vars
  PROVE  IInv'
<1>1. CASE UNCHANGED vars
  <2>1. UNCHANGED <<disk, manifest, state, previous, tail, job, nextGen, handle>>
    BY <1>1 DEF vars
  <2>2. TypeOK' /\ StateInv' /\ TailInv' /\ JobInv' /\ HandleInv'
    BY <2>1 DEF IInv, TypeOK, StateInv, StateOK, TailInv, JobInv, HandleInv, HandleOK,
                Recent, Safe, Frontier, Building, Holds
  <2> QED
    BY <2>2 DEF IInv
<1>2. ASSUME NEW h \in Handles,
             PinRead(h) \/ PinRegister(h) \/ Release(h) \/ Prepare(h)
                \/ \E k \in Keys : Stage(h, k)
      PROVE  IInv'
  BY <1>2, HandleActions
<1>3. ASSUME NEW h \in Handles, Commit(h) PROVE IInv'
  BY <1>3, CommitKeeps
<1>4. CASE Capture
  BY <1>4, CaptureKeeps
<1>5. ASSUME NEW kept \in SUBSET Gens, Build(kept) PROVE IInv'
  BY <1>5, BuildKeeps
<1>6. ASSUME NEW written \in BOOLEAN, Abandon(written) PROVE IInv'
  BY <1>6, AbandonKeeps
<1>7. CASE Install
  BY <1>7, InstallKeeps
<1>8. CASE Decide
  BY <1>8, DecideKeeps
<1>9. CASE (\E f \in Gens : RemoveFile(f)) \/ CleanupEnds
  BY <1>9, CleanupKeeps
<1>10. CASE Reopen
  BY <1>10, ReopenKeeps
<1> QED
  BY <1>1, <1>2, <1>3, <1>4, <1>5, <1>6, <1>7, <1>8, <1>9, <1>10 DEF Next

(* The state always has its type; counts never go below zero.              *)
THEOREM ReclamationTypeCorrect == Spec => []TypeOK
<1>1. IInv => TypeOK
  BY DEF IInv
<1>2. IInv /\ [Next]_vars => IInv'
  BY InvariantKept
<1> QED
  BY <1>1, <1>2, InvariantInitially, PTL DEF Spec

(* Cleanup never removes a file somebody may still open: the pins of one   *)
(* moment and the overlays' counts are enough to decide from.              *)
THEOREM CleanupIsSafe == Spec => []ReadableFilesExist
<1>1. IInv /\ [Next]_vars => IInv'
  BY InvariantKept
<1> QED
  BY <1>1, InvariantInitially, InvariantSuffices, PTL DEF Spec
=============================================================================
