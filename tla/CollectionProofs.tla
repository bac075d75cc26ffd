--------------------------- MODULE CollectionProofs ---------------------------
(***************************************************************************)
(* Collection for any number of entities, generations and slots and any    *)
(* options: the counters of the manifest are exact, no locator points into *)
(* a dropped generation, and the manifest fits its slots.                  *)
(***************************************************************************)
EXTENDS Collection, FiniteSetTheorems, WellFoundedInduction, TLAPS

(* Generations of the manifest are older than the one being built.         *)
FrontierInv ==
    /\ \A g \in generations : g < nextGen
    /\ job.running => /\ job.gen \in Gens /\ job.gen + 1 = nextGen
                      /\ \A g \in generations : g < job.gen

JobInv == job.running \in BOOLEAN /\ (job.running => job.absorb \subseteq generations)

(* The manifest a running checkpoint will install fits, too.               *)
SlotsInv ==
    /\ ManifestFits
    /\ maxGenerations \in GenerationLimits
    /\ job.running => Cardinality(generations \ job.absorb) + 1 <= MaxSlots

IInv == TypeOK /\ LocatorsResolve /\ OccupancyIsExact /\ FrontierInv /\ JobInv

(* Entities a generation holds.                                            *)
In(g) == {e \in Entities : location[e] = g}

(* A set of entities is finite and not larger than the number of them.     *)
LEMMA EntitySets ==
  ASSUME NEW S \in SUBSET Entities
  PROVE  IsFiniteSet(S) /\ Cardinality(S) \in 0 .. MaxEntity
<1>1. IsFiniteSet(Entities) /\ Cardinality(Entities) = MaxEntity
  <2>1. IsFiniteSet(1 .. MaxEntity) /\ Cardinality(1 .. MaxEntity) = IF 1 > MaxEntity THEN 0
                                                                    ELSE MaxEntity - 1 + 1
    BY CountsAssumption, FS_Interval
  <2> QED
    BY <2>1, CountsAssumption DEF Entities
<1>2. IsFiniteSet(S) /\ Cardinality(S) <= MaxEntity
  BY <1>1, FS_Subset
<1>3. Cardinality(S) \in Nat
  BY <1>2, FS_CardinalityType
<1> QED
  BY <1>2, <1>3, CountsAssumption

(* A new database satisfies the invariant.                                 *)
LEMMA InvariantInitially == Init => IInv
<1> SUFFICES ASSUME Init PROVE IInv
  OBVIOUS
<1>1. 0 \in Gens /\ Absent \notin Gens
  BY CountsAssumption DEF Gens, Absent
<1>2. TypeOK
  BY <1>1, CountsAssumption DEF Init, TypeOK, Empty
<1>3. LocatorsResolve
  BY DEF Init, LocatorsResolve
<1>4. OccupancyIsExact
  <2>1. Live(0) = 0
    BY <1>1 DEF Init, Live, Empty
  <2>2. {e \in Entities : location[e] = 0} = {}
    BY <1>1 DEF Init, Absent
  <2>3. Cardinality({e \in Entities : location[e] = 0}) = 0
    BY <2>2, FS_EmptySet
  <2> QED
    BY <2>1, <2>3 DEF Init, OccupancyIsExact
<1>5. FrontierInv /\ JobInv
  BY DEF Init, FrontierInv, JobInv, NoJob
<1> QED
  BY <1>2, <1>3, <1>4, <1>5 DEF IInv

(* A step that leaves the manifest alone keeps what is said of it.         *)
LEMMA ManifestStays ==
  ASSUME IInv, UNCHANGED <<generations, location, occupancy>>
  PROVE  LocatorsResolve' /\ OccupancyIsExact'
  BY DEF IInv, LocatorsResolve, OccupancyIsExact, Live

(* Every generation of a plan is one of the manifest.                      *)
LEMMA PlanWithinManifest == Absorb \subseteq generations
  BY DEF Absorb, Drained, Whole, Forced, Queue

(* Sets of generations are finite.                                         *)
LEMMA GenerationSets ==
  ASSUME NEW S \in SUBSET Gens
  PROVE  IsFiniteSet(S) /\ Cardinality(S) \in Nat
<1>1. IsFiniteSet(0 .. MaxGen)
  BY CountsAssumption, FS_Interval
<1> QED
  BY <1>1, FS_Subset, FS_CardinalityType DEF Gens

(* The order of the queue is total.                                        *)
LEMMA QueueOrder ==
  ASSUME TypeOK, NEW g \in generations, NEW h \in generations, NEW k \in generations
  PROVE  /\ ~Before(g, g)
         /\ g # h => Before(g, h) \/ Before(h, g)
         /\ Before(g, h) /\ Before(h, k) => Before(g, k)
<1>1. /\ Live(g) \in Int /\ Live(h) \in Int /\ Live(k) \in Int
      /\ g \in Int /\ h \in Int /\ k \in Int
  BY CountsAssumption DEF TypeOK, Live, Gens
<1>2. Dense(g) \in BOOLEAN /\ Dense(h) \in BOOLEAN /\ Dense(k) \in BOOLEAN
  BY DEF Dense
<1> QED
  BY <1>1, <1>2 DEF Before

(* However many generations the budget leaves, the forced ones bring the   *)
(* manifest within its slots: those that stay have distinct places at the  *)
(* end of the queue.                                                       *)
LEMMA PlanFits ==
  ASSUME TypeOK, MaxSlots >= 2
  PROVE  Cardinality(generations \ Absorb) + 1 <= MaxSlots
<1> DEFINE Rest == Queue \ Whole
           Earlier(g) == Predecessors(g) \ Whole
           Stay == generations \ Absorb
           n == Cardinality(Rest)
           place == [g \in Stay |-> Cardinality(Earlier(g))]
           low == n + 2 - MaxSlots
<1>1. /\ generations \subseteq Gens /\ Queue \subseteq generations /\ Whole \subseteq Queue
      /\ \A g : Earlier(g) \subseteq Rest
  BY DEF TypeOK, Queue, Whole, Predecessors
<1>2. /\ IsFiniteSet(Rest) /\ n \in Nat
      /\ IsFiniteSet(Queue) /\ Cardinality(Queue) \in Nat
      /\ Cardinality(Whole) \in Nat
      /\ \A g : IsFiniteSet(Earlier(g)) /\ Cardinality(Earlier(g)) \in Nat
  <2>1. /\ Rest \in SUBSET Gens /\ Queue \in SUBSET Gens /\ Whole \in SUBSET Gens
        /\ \A g : Earlier(g) \in SUBSET Gens
    BY <1>1
  <2> HIDE DEF Rest, Earlier
  <2> QED
    BY <2>1, GenerationSets
<1>3. n = Cardinality(Queue) - Cardinality(Whole)
  <2>1. Cardinality(Queue \ Whole) = Cardinality(Queue) - Cardinality(Queue \intersect Whole)
    BY <1>2, FS_Difference
  <2>2. Queue \intersect Whole = Whole
    BY <1>1
  <2> QED
    BY <2>1, <2>2
<1>4. ASSUME NEW g \in Stay
      PROVE  g \in Rest /\ Cardinality(Earlier(g)) \in low .. n - 1
  <2>1. g \in Rest /\ g \notin Forced
    BY <1>4 DEF Absorb, Queue
  <2>2. ~(Slots - Cardinality(Whole) - Cardinality(Earlier(g)) >= MaxSlots)
    BY <2>1 DEF Forced
  <2>3. Cardinality(Earlier(g)) >= low
    BY <1>2, <1>3, <2>2, SlotsAssumption DEF Slots
  <2>4. Earlier(g) \subseteq Rest \ {g}
    BY <1>1, <2>1, QueueOrder DEF Predecessors
  <2>5. IsFiniteSet(Rest \ {g}) /\ Cardinality(Rest \ {g}) = n - 1
    BY <1>2, <2>1, FS_RemoveElement
  <2>6. Cardinality(Earlier(g)) <= n - 1
    BY <2>4, <2>5, FS_Subset
  <2>7. Cardinality(Earlier(g)) \in Int /\ low \in Int /\ n - 1 \in Int
    BY <1>2, SlotsAssumption
  <2> HIDE DEF Earlier, Rest, low, n
  <2> QED
    BY <2>1, <2>3, <2>6, <2>7
<1>5. ASSUME NEW g \in Stay, NEW h \in Stay, Before(g, h)
      PROVE  Cardinality(Earlier(g)) < Cardinality(Earlier(h))
  <2>1. g \in Rest /\ h \in Rest /\ g \in generations /\ h \in generations
    BY <1>1, <1>4
  <2>2. Earlier(g) \union {g} \subseteq Earlier(h) /\ g \notin Earlier(g)
    BY <1>1, <1>5, <2>1, QueueOrder DEF Predecessors
  <2>3. Cardinality(Earlier(g) \union {g}) = Cardinality(Earlier(g)) + 1
    BY <1>2, <2>2, FS_AddElement
  <2>4. Cardinality(Earlier(g) \union {g}) <= Cardinality(Earlier(h))
    BY <1>2, <2>2, FS_Subset
  <2> QED
    BY <1>2, <2>3, <2>4
<1>6. place \in Injection(Stay, low .. n - 1)
  <2>1. place \in [Stay -> low .. n - 1]
    BY <1>4
  <2>2. ASSUME NEW g \in Stay, NEW h \in Stay, g # h
        PROVE  place[g] # place[h]
    <3>1. Before(g, h) \/ Before(h, g)
      BY <2>2, QueueOrder
    <3>2. place[g] = Cardinality(Earlier(g)) /\ place[h] = Cardinality(Earlier(h))
      OBVIOUS
    <3>3. place[g] < place[h] \/ place[h] < place[g]
      BY <1>5, <3>1, <3>2
    <3>4. place[g] \in Int /\ place[h] \in Int
      BY <1>2, <3>2
    <3> HIDE DEF place
    <3> QED
      BY <3>3, <3>4
  <2> QED
    BY <2>1, <2>2 DEF Injection, IsInjective
<1>7. low \in Int /\ n - 1 \in Int
  BY <1>2, SlotsAssumption
<1>8. /\ IsFiniteSet(low .. n - 1)
      /\ Cardinality(low .. n - 1) = IF low > n - 1 THEN 0 ELSE (n - 1) - low + 1
  BY <1>7, FS_Interval
<1>9. Cardinality(Stay) <= Cardinality(low .. n - 1)
  BY <1>6, <1>8, FS_Injection
<1>10. Cardinality(Stay) \in Nat
  BY <1>1, GenerationSets
<1> QED
  BY <1>2, <1>7, <1>8, <1>9, <1>10, SlotsAssumption

(* Installing a checkpoint keeps the counters exact: what it rewrites      *)
(* leaves as many dead copies as it takes entities from each generation.   *)
LEMMA InstallKeeps ==
  ASSUME IInv, InstallCheckpoint
  PROVE  IInv'
<1> DEFINE Taken(g) == {e \in Rewritten : location[e] = g}
<1>1. /\ job.gen \in Gens /\ job.gen + 1 = nextGen /\ job.gen \notin generations
      /\ generations \subseteq Gens /\ job.absorb \subseteq generations
      /\ job.gen \in Int
  BY CountsAssumption DEF InstallCheckpoint, IInv, FrontierInv, JobInv, TypeOK, Gens
<1>2. /\ generations' = Kept \union {job.gen}
      /\ location' = [e \in Entities |-> IF e \in Rewritten THEN job.gen ELSE location[e]]
      /\ occupancy' =
            [g \in Gens |->
               IF g = job.gen THEN [entities |-> Cardinality(Rewritten), dead |-> 0]
               ELSE IF g \in Kept THEN [occupancy[g] EXCEPT !.dead = DeadAfter(g)]
               ELSE Empty]
      /\ overlay' = tail /\ tail' = {} /\ job' = NoJob
      /\ UNCHANGED <<nextGen, options>>
  BY DEF InstallCheckpoint
<1>3. Rewritten \subseteq Entities /\ Kept \subseteq generations
  BY DEF Rewritten, Kept
<1>4. \A e \in Entities : location[e] \in generations \union {Absent}
  BY DEF IInv, LocatorsResolve
<1>5. location \in [Entities -> Gens \union {Absent}]
  BY DEF IInv, TypeOK
<1>6. LocatorsResolve'
  <2> SUFFICES ASSUME NEW e \in Entities
               PROVE  location'[e] \in Kept \union {job.gen, Absent}
    BY <1>2 DEF LocatorsResolve
  <2>1. CASE e \in Rewritten
    BY <1>2, <2>1
  <2>2. CASE e \notin Rewritten
    <3>1. location[e] \notin job.absorb
      BY <2>2 DEF Rewritten
    <3> QED
      BY <1>2, <1>4, <2>2, <3>1 DEF Kept
  <2> QED
    BY <2>1, <2>2
<1>7. ASSUME NEW g \in Kept
      PROVE  /\ occupancy'[g] = [occupancy[g] EXCEPT !.dead = DeadAfter(g)]
             /\ occupancy[g] \in [entities : 0 .. MaxEntity, dead : 0 .. MaxEntity]
             /\ DeadAfter(g) \in 0 .. occupancy[g].entities
             /\ occupancy[g].entities - DeadAfter(g)
                   = Cardinality({e \in Entities : location'[e] = g})
  <2>1. g \in Gens /\ g # job.gen /\ g \in generations
    BY <1>1, <1>3
  <2>2. occupancy[g] \in [entities : 0 .. MaxEntity, dead : 0 .. MaxEntity]
    BY <2>1 DEF IInv, TypeOK
  <2>3. occupancy'[g] = [occupancy[g] EXCEPT !.dead = DeadAfter(g)]
    BY <1>2, <2>1
  <2>4. {e \in Entities : location'[e] = g} = In(g) \ Taken(g)
    BY <1>2, <1>3, <2>1 DEF In
  <2>5. In(g) \intersect Taken(g) = Taken(g) /\ Taken(g) \subseteq In(g) /\ In(g) \subseteq Entities
    BY <1>3 DEF In
  <2>6. IsFiniteSet(In(g)) /\ Cardinality(In(g)) \in 0 .. MaxEntity
    BY <2>5, EntitySets
  <2>7. Cardinality(In(g) \ Taken(g)) = Cardinality(In(g)) - Cardinality(In(g) \intersect Taken(g))
    BY <2>6, FS_Difference
  <2>8. Cardinality(Taken(g)) <= Cardinality(In(g)) /\ Cardinality(Taken(g)) \in 0 .. MaxEntity
    BY <2>5, <2>6, FS_Subset, EntitySets
  <2>9. Live(g) = Cardinality(In(g))
    BY <2>1 DEF IInv, OccupancyIsExact, In
  <2>10. Cardinality({e \in Entities : location'[e] = g})
            = Cardinality(In(g)) - Cardinality(Taken(g))
    BY <2>4, <2>5, <2>7
  <2>11. occupancy[g].entities \in Int /\ occupancy[g].dead \in Nat
    BY <2>2, CountsAssumption
  <2>12. /\ occupancy[g].entities - occupancy[g].dead = Cardinality(In(g))
         /\ DeadAfter(g) = occupancy[g].dead + Cardinality(Taken(g))
    BY <2>9 DEF Live, DeadAfter
  <2>13. Cardinality(In(g)) \in Int /\ Cardinality(Taken(g)) \in Nat
    BY <2>6, <2>8
  <2>14. /\ DeadAfter(g) \in 0 .. occupancy[g].entities
         /\ occupancy[g].entities - DeadAfter(g) = Cardinality(In(g)) - Cardinality(Taken(g))
    BY <2>8, <2>11, <2>12, <2>13
  <2> QED
    BY <2>2, <2>3, <2>10, <2>14
<1>8. occupancy'[job.gen] = [entities |-> Cardinality(Rewritten), dead |-> 0]
  BY <1>1, <1>2
<1>9. Cardinality(Rewritten) \in 0 .. MaxEntity
  BY <1>3, EntitySets
<1>10. OccupancyIsExact'
  <2>1. ASSUME NEW g \in Kept
        PROVE  occupancy'[g].entities - occupancy'[g].dead
                  = Cardinality({e \in Entities : location'[e] = g})
    <3>1. occupancy'[g].entities = occupancy[g].entities /\ occupancy'[g].dead = DeadAfter(g)
      BY <1>7, <2>1
    <3> QED
      BY <1>7, <2>1, <3>1
  <2>2. {e \in Entities : location'[e] = job.gen} = Rewritten
    <3>1. Absent # job.gen
      BY <1>1, CountsAssumption DEF Absent, Gens
    <3> QED
      BY <1>1, <1>2, <1>3, <1>4, <3>1
  <2>3. occupancy'[job.gen].entities - occupancy'[job.gen].dead = Cardinality(Rewritten)
    BY <1>8, <1>9
  <2> QED
    BY <1>2, <2>1, <2>2, <2>3 DEF OccupancyIsExact, Live
<1>11. TypeOK'
  <2>1. ASSUME NEW g \in Gens
        PROVE  /\ occupancy'[g] \in [entities : 0 .. MaxEntity, dead : 0 .. MaxEntity]
               /\ occupancy'[g].dead <= occupancy'[g].entities
    <3>1. CASE g = job.gen
      BY <1>8, <1>9, <3>1, CountsAssumption
    <3>2. CASE g # job.gen /\ g \in Kept
      <4>1. DeadAfter(g) \in 0 .. MaxEntity /\ DeadAfter(g) <= occupancy[g].entities
        <5>1. occupancy[g].entities \in 0 .. MaxEntity /\ DeadAfter(g) \in 0 .. occupancy[g].entities
          BY <1>7, <3>2
        <5> QED
          BY <5>1, CountsAssumption
      <4> QED
        BY <1>7, <3>2, <4>1
    <3>3. CASE g # job.gen /\ g \notin Kept
      BY <1>2, <3>3, CountsAssumption DEF Empty
    <3> QED
      BY <3>1, <3>2, <3>3
  <2>2. occupancy' \in [Gens -> [entities : 0 .. MaxEntity, dead : 0 .. MaxEntity]]
    BY <1>2, <2>1
  <2>3. location' \in [Entities -> Gens \union {Absent}] /\ generations' \subseteq Gens
    BY <1>1, <1>2, <1>3, <1>5
  <2> QED
    BY <1>2, <2>1, <2>2, <2>3 DEF IInv, TypeOK
<1>12. FrontierInv' /\ JobInv'
  <2>1. \A g \in generations' : g < nextGen
    BY <1>1, <1>2, <1>3, CountsAssumption DEF IInv, FrontierInv, Gens
  <2> QED
    BY <1>2, <2>1 DEF FrontierInv, JobInv, NoJob
<1> QED
  BY <1>6, <1>10, <1>11, <1>12 DEF IInv

(* No step breaks the invariant.                                           *)
LEMMA InvariantKept ==
  ASSUME IInv, [Next]_vars
  PROVE  IInv'
<1>1. CASE UNCHANGED vars
  BY <1>1, ManifestStays DEF vars, options, IInv, TypeOK, FrontierInv, JobInv
<1>2. ASSUME NEW e \in Entities, Commit(e) PROVE IInv'
  <2>1. LocatorsResolve' /\ OccupancyIsExact'
    BY <1>2, ManifestStays DEF Commit
  <2> QED
    BY <1>2, <2>1 DEF Commit, IInv, TypeOK, FrontierInv, JobInv
<1>3. ASSUME NEW compact \in BOOLEAN, Capture(compact) PROVE IInv'
  <2>1. LocatorsResolve' /\ OccupancyIsExact'
    BY <1>3, ManifestStays DEF Capture
  <2>2. /\ job'.running = TRUE /\ job'.gen = nextGen
        /\ job'.absorb \subseteq generations
    BY <1>3, PlanWithinManifest DEF Capture
  <2>3. /\ nextGen \in Gens /\ nextGen' = nextGen + 1 /\ nextGen' \in 1 .. (MaxGen + 1)
        /\ nextGen \in Int
    BY <1>3, CountsAssumption DEF Capture, IInv, TypeOK, Gens
  <2>4. TypeOK'
    BY <1>3, <2>3 DEF Capture, IInv, TypeOK
  <2>5. \A g \in generations : g < nextGen /\ g < nextGen'
    BY <2>3, CountsAssumption DEF IInv, FrontierInv, TypeOK, Gens
  <2>6. FrontierInv' /\ JobInv'
    BY <1>3, <2>2, <2>3, <2>5 DEF Capture, FrontierInv, JobInv
  <2> QED
    BY <2>1, <2>4, <2>6 DEF IInv
<1>4. CASE AbandonCheckpoint
  <2>1. LocatorsResolve' /\ OccupancyIsExact'
    BY <1>4, ManifestStays DEF AbandonCheckpoint
  <2> QED
    BY <1>4, <2>1 DEF AbandonCheckpoint, IInv, TypeOK, FrontierInv, JobInv, NoJob
<1>5. CASE InstallCheckpoint
  BY <1>5, InstallKeeps
<1>6. ASSUME NEW collect \in CollectLimits, NEW budget \in GenerationLimits,
             Reopen(collect, budget)
      PROVE  IInv'
  <2>1. LocatorsResolve' /\ OccupancyIsExact'
    BY <1>6, ManifestStays DEF Reopen
  <2> QED
    BY <1>6, <2>1 DEF Reopen, IInv, TypeOK, FrontierInv, JobInv, NoJob
<1> QED
  BY <1>1, <1>2, <1>3, <1>4, <1>5, <1>6 DEF Next

(* Types, and the unsigned subtraction behind the live count never wraps.  *)
THEOREM CollectionTypeCorrect == Spec => []TypeOK
<1>1. IInv => TypeOK
  BY DEF IInv
<1>2. IInv /\ [Next]_vars => IInv'
  BY InvariantKept
<1> QED
  BY <1>1, <1>2, InvariantInitially, PTL DEF Spec

(* The counters are exact for any history of checkpoints, partial drains,  *)
(* compactions and reopenings.                                             *)
THEOREM CountersAreExact == Spec => []OccupancyIsExact
<1>1. IInv => OccupancyIsExact
  BY DEF IInv
<1>2. IInv /\ [Next]_vars => IInv'
  BY InvariantKept
<1> QED
  BY <1>1, <1>2, InvariantInitially, PTL DEF Spec

(* No entity is ever located in a generation the manifest dropped.         *)
THEOREM LocatorsAlwaysResolve == Spec => []LocatorsResolve
<1>1. IInv => LocatorsResolve
  BY DEF IInv
<1>2. IInv /\ [Next]_vars => IInv'
  BY InvariantKept
<1> QED
  BY <1>1, <1>2, InvariantInitially, PTL DEF Spec

(* Where there is a handle there are at least two slots.                   *)
LEMMA TwoSlots ==
  ASSUME maxGenerations \in GenerationLimits
  PROVE  MaxSlots >= 2
  BY SlotsAssumption

(* The plan of every checkpoint keeps the manifest within its slots.       *)
LEMMA SlotsKept ==
  ASSUME IInv, SlotsInv, [Next]_vars
  PROVE  SlotsInv'
<1>1. CASE UNCHANGED vars
  BY <1>1 DEF vars, options, SlotsInv, ManifestFits
<1>2. ASSUME NEW e \in Entities, Commit(e) PROVE SlotsInv'
  BY <1>2 DEF Commit, options, SlotsInv, ManifestFits
<1>3. ASSUME NEW compact \in BOOLEAN, Capture(compact) PROVE SlotsInv'
  <2>1. MaxSlots >= 2 /\ MaxSlots \in Nat
    BY TwoSlots, SlotsAssumption DEF SlotsInv
  <2>2. job'.absorb = IF compact THEN generations ELSE Absorb
    BY <1>3 DEF Capture
  <2>3. Cardinality(generations \ job'.absorb) + 1 <= MaxSlots
    <3>1. CASE compact
      <4>1. generations \ job'.absorb = {}
        BY <2>2, <3>1
      <4> QED
        BY <2>1, <4>1, FS_EmptySet
    <3>2. CASE ~compact
      BY <2>1, <2>2, <3>2, PlanFits DEF IInv
    <3> QED
      BY <3>1, <3>2
  <2> QED
    BY <1>3, <2>3 DEF Capture, options, SlotsInv, ManifestFits
<1>4. CASE AbandonCheckpoint
  BY <1>4 DEF AbandonCheckpoint, options, SlotsInv, ManifestFits, NoJob
<1>5. CASE InstallCheckpoint
  <2>1. /\ generations' = (generations \ job.absorb) \union {job.gen}
        /\ job.running /\ job' = NoJob /\ maxGenerations' = maxGenerations
    BY <1>5 DEF InstallCheckpoint, Kept, options
  <2>2. /\ IsFiniteSet(generations \ job.absorb)
        /\ Cardinality(generations \ job.absorb) \in Nat
    BY GenerationSets DEF IInv, TypeOK
  <2>3. Cardinality(generations') <= Cardinality(generations \ job.absorb) + 1
    <3> DEFINE K == generations \ job.absorb
    <3> HIDE DEF K
    <3>1. Cardinality(K \union {job.gen})
             = IF job.gen \in K THEN Cardinality(K) ELSE Cardinality(K) + 1
      BY <2>2, FS_AddElement DEF K
    <3>2. generations' = K \union {job.gen} /\ Cardinality(K) \in Nat
      BY <2>1, <2>2 DEF K
    <3>3. Cardinality(generations') <= Cardinality(K) + 1
      BY <3>1, <3>2
    <3> QED
      BY <3>3 DEF K
  <2>4. IsFiniteSet(generations') /\ Cardinality(generations') \in Nat
    BY <2>1, <2>2, FS_AddElement, FS_CardinalityType
  <2>5. Cardinality(generations') <= MaxSlots
    BY <2>1, <2>2, <2>3, <2>4, SlotsAssumption DEF SlotsInv
  <2> QED
    BY <2>1, <2>5 DEF SlotsInv, ManifestFits, NoJob
<1>6. ASSUME NEW collect \in CollectLimits, NEW budget \in GenerationLimits,
             Reopen(collect, budget)
      PROVE  SlotsInv'
  BY <1>6 DEF Reopen, SlotsInv, ManifestFits, NoJob
<1> QED
  BY <1>1, <1>2, <1>3, <1>4, <1>5, <1>6 DEF Next

(* A manifest never needs more slots than a locator can name, for any      *)
(* budget and any cap on copying: rebuild_slots refuses no planned         *)
(* checkpoint.                                                             *)
THEOREM ManifestsFit == Spec => []ManifestFits
<1>1. Init => SlotsInv
  <2> SUFFICES ASSUME Init PROVE SlotsInv
    OBVIOUS
  <2>1. Cardinality(generations) = 1
    BY FS_Singleton DEF Init
  <2>2. MaxSlots >= 2 /\ MaxSlots \in Nat
    BY TwoSlots, SlotsAssumption DEF Init
  <2> QED
    BY <2>1, <2>2 DEF Init, SlotsInv, ManifestFits, NoJob
<1>2. IInv /\ SlotsInv /\ [Next]_vars => IInv' /\ SlotsInv'
  BY InvariantKept, SlotsKept
<1>3. SlotsInv => ManifestFits
  BY DEF SlotsInv
<1> QED
  BY <1>1, <1>2, <1>3, InvariantInitially, PTL DEF Spec

-----------------------------------------------------------------------------
(* What a plan costs.  The sums of live entities over sets of generations  *)
(* are the numbers of entities located there.                              *)

Held(S) == {e \in Entities : location[e] \in S}

(* A function from sets of generations to sums of live entities.           *)
LiveStep(f, s) == IF s = {} THEN 0
                  ELSE Live(CHOOSE x \in s : TRUE) + f[s \ {CHOOSE x \in s : TRUE}]
LiveOver(f, S) == f = [s \in SUBSET S |-> LiveStep(f, s)]

(* Every nonempty set of natural numbers has a least element.              *)
LEMMA LeastNatural ==
  ASSUME NEW T, T \subseteq Nat, T # {}
  PROVE  \E x \in T : \A y \in T : x <= y
<1> DEFINE R == {ss \in Nat \X Nat : ss[1] < ss[2]}
<1>1. IsWellFoundedOn(R, Nat)
  BY NatLessThanWellFounded DEF OpToRel
<1>2. PICK x \in T : \A y \in T : ~ (<<y, x>> \in R)
  <2> HIDE DEF R
  <2> QED
    BY <1>1, WFMin
<1>3. ASSUME NEW y \in T PROVE x <= y
  <2>1. x \in Nat /\ y \in Nat
    OBVIOUS
  <2>2. ASSUME y < x PROVE <<y, x>> \in R
    BY <2>1, <2>2
  <2> QED
    BY <1>2, <2>1, <2>2
<1> QED
  BY <1>3

(* A finite set has an element that nothing of a strict order precedes.    *)
LEMMA Endmost ==
  ASSUME NEW T, IsFiniteSet(T), T # {}, NEW R,
         \A x \in T : <<x, x>> \notin R,
         \A x, y, z \in T : <<x, y>> \in R /\ <<y, z>> \in R => <<x, z>> \in R
  PROVE  \E g \in T : \A h \in T : <<h, g>> \notin R
<1> DEFINE Below(g) == {h \in T : <<h, g>> \in R}
           N == {Cardinality(Below(g)) : g \in T}
<1>1. ASSUME NEW g PROVE IsFiniteSet(Below(g)) /\ Cardinality(Below(g)) \in Nat
  <2>1. Below(g) \subseteq T
    OBVIOUS
  <2> HIDE DEF Below
  <2> QED
    BY <2>1, FS_Subset, FS_CardinalityType
<1>2. N \subseteq Nat /\ N # {}
  <2> HIDE DEF Below
  <2> QED
    BY <1>1
<1>3. PICK n \in N : \A m \in N : n <= m
  <2> HIDE DEF N
  <2> QED
    BY <1>2, LeastNatural
<1>4. PICK g \in T : n = Cardinality(Below(g))
  OBVIOUS
<1>5. ASSUME NEW h \in T, <<h, g>> \in R PROVE FALSE
  <2>1. Below(h) \subseteq Below(g) \ {h} /\ h \in Below(g)
    BY <1>5
  <2>2. Cardinality(Below(h)) \in N
    OBVIOUS
  <2> HIDE DEF Below, N
  <2>3. IsFiniteSet(Below(g) \ {h}) /\ Cardinality(Below(g) \ {h}) = Cardinality(Below(g)) - 1
    BY <1>1, <2>1, FS_RemoveElement
  <2>4. Cardinality(Below(h)) <= Cardinality(Below(g)) - 1
    BY <2>1, <2>3, FS_Subset
  <2>5. Cardinality(Below(g)) <= Cardinality(Below(h))
    BY <1>3, <1>4, <2>2
  <2>6. Cardinality(Below(g)) \in Nat /\ Cardinality(Below(h)) \in Nat
    BY <1>1
  <2> QED
    BY <2>4, <2>5, <2>6
<1> QED
  BY <1>5

(* A set of generations that loses one holds as many entities less.        *)
LEMMA HeldRemoves ==
  ASSUME IInv, NEW s \in SUBSET generations, NEW x \in s
  PROVE  Cardinality(Held(s)) = Live(x) + Cardinality(Held(s \ {x}))
<1>1. Held(s) = In(x) \union Held(s \ {x}) /\ In(x) \intersect Held(s \ {x}) = {}
  BY DEF Held, In
<1>2. In(x) \in SUBSET Entities /\ Held(s \ {x}) \in SUBSET Entities
  BY DEF Held, In
<1>3. PICK A, B : A = In(x) /\ B = Held(s \ {x})
  OBVIOUS
<1>4. IsFiniteSet(A) /\ IsFiniteSet(B) /\ A \intersect B = {}
  BY <1>1, <1>2, <1>3, EntitySets
<1>5. Cardinality(A \union B) = Cardinality(A) + Cardinality(B) - Cardinality(A \intersect B)
  BY <1>4, FS_Union
<1>6. Cardinality(A \intersect B) = 0 /\ Cardinality(A) \in Nat /\ Cardinality(B) \in Nat
  BY <1>4, FS_EmptySet, FS_CardinalityType
<1>7. Live(x) = Cardinality(A)
  BY <1>3 DEF IInv, OccupancyIsExact, In
<1> QED
  BY <1>1, <1>3, <1>5, <1>6, <1>7

(* The sum the plan computes is a number of entities.                      *)
LEMMA LiveSums ==
  ASSUME IInv, NEW S \in SUBSET generations
  PROVE  Sum(Live, S) = Cardinality(Held(S))
<1> DEFINE size == [s \in SUBSET S |-> Cardinality(Held(s))]
<1>1. Cardinality(Held({})) = 0
  <2>1. Held({}) = {}
    BY DEF Held
  <2> QED
    BY <2>1, FS_EmptySet
<1>2. ASSUME NEW s \in SUBSET S PROVE Cardinality(Held(s)) = LiveStep(size, s)
  <2>1. CASE s = {}
    BY <1>1, <2>1 DEF LiveStep
  <2>2. CASE s # {}
    <3>1. PICK x : x = CHOOSE y \in s : TRUE
      OBVIOUS
    <3>2. x \in s /\ s \in SUBSET generations /\ s \ {x} \in SUBSET S
      BY <2>2, <3>1
    <3>3. Cardinality(Held(s)) = Live(x) + Cardinality(Held(s \ {x}))
      BY <3>2, HeldRemoves
    <3>4. size[s \ {x}] = Cardinality(Held(s \ {x}))
      BY <3>2
    <3> HIDE DEF size
    <3> QED
      BY <2>2, <3>1, <3>3, <3>4 DEF LiveStep
  <2> QED
    BY <2>1, <2>2
<1>3. LiveOver(size, S)
  <2>1. [s \in SUBSET S |-> Cardinality(Held(s))] = [s \in SUBSET S |-> LiveStep(size, s)]
    <3> HIDE DEF size
    <3> QED
      BY <1>2
  <2> QED
    BY <2>1, Zenon DEF LiveOver
<1>4. PICK f : f = CHOOSE u : LiveOver(u, S)
  OBVIOUS
<1>5. LiveOver(f, S)
  <2> HIDE DEF size
  <2> QED
    BY <1>3, <1>4
<1>6. Sum(Live, S) = f[S]
  BY <1>4, Zenon DEF Sum, MapThenSumSet, MapThenFoldSet, LiveOver, LiveStep
<1>7. ASSUME NEW s \in SUBSET S PROVE f[s] = LiveStep(f, s)
  <2> DEFINE g == [t \in SUBSET S |-> LiveStep(f, t)]
  <2>1. f = g
    BY <1>5, Zenon DEF LiveOver
  <2>2. g[s] = LiveStep(f, s)
    OBVIOUS
  <2> QED
    BY <2>1, <2>2, Zenon
<1> DEFINE Bad == {s \in SUBSET S : f[s] # Cardinality(Held(s))}
<1>8. Bad = {}
  <2>1. SUFFICES ASSUME Bad # {} PROVE FALSE
    OBVIOUS
  <2>2. IsFiniteSet(S)
    BY GenerationSets DEF IInv, TypeOK
  <2>3. PICK s \in Bad : \A t \in Bad : ~(t \subseteq s /\ t # s)
    <3>1. IsWellFoundedOn(StrictSubsetOrdering(S), SUBSET S)
      BY <2>2, FS_StrictSubsetOrderingWellFounded, FS_FiniteSubsetsOfFinite
    <3>2. Bad \subseteq SUBSET S
      OBVIOUS
    <3> HIDE DEF Bad
    <3>3. PICK s \in Bad : \A t \in Bad : ~ (<<t, s>> \in StrictSubsetOrdering(S))
      BY <2>1, <3>1, <3>2, WFMin
    <3> QED
      BY <3>2, <3>3 DEF StrictSubsetOrdering
  <2>4. s # {}
    BY <1>1, <1>7 DEF LiveStep
  <2>5. PICK x : x = CHOOSE y \in s : TRUE
    OBVIOUS
  <2>6. x \in s /\ s \in SUBSET generations /\ s \ {x} \in SUBSET S
    BY <2>4, <2>5
  <2>7. f[s \ {x}] = Cardinality(Held(s \ {x}))
    BY <2>3, <2>6
  <2>8. f[s] = Live(x) + f[s \ {x}]
    BY <1>7, <2>4, <2>5 DEF LiveStep
  <2>9. Cardinality(Held(s)) = Live(x) + Cardinality(Held(s \ {x}))
    BY <2>6, HeldRemoves
  <2> QED
    BY <2>7, <2>8, <2>9
<1> QED
  BY <1>6, <1>8

(* Of a set of natural numbers, the elements with fewer than q before them *)
(* are no more than q.                                                     *)
LEMMA FirstFew ==
  ASSUME NEW S \in SUBSET Entities, NEW q \in Nat, NEW M \in SUBSET S,
         \A e \in M : Cardinality({d \in S : d < e}) < q
  PROVE  IsFiniteSet(M) /\ Cardinality(M) <= q
<1> DEFINE R == {p \in Entities \X Entities : p[1] > p[2]}
<1>1. M \in SUBSET Entities /\ S \in SUBSET Entities
  OBVIOUS
<1>2. IsFiniteSet(M) /\ IsFiniteSet(S) /\ Cardinality(M) \in Nat
  <2>1. IsFiniteSet(M) /\ IsFiniteSet(S)
    BY <1>1, EntitySets
  <2> QED
    BY <2>1, FS_CardinalityType
<1>3. CASE M = {}
  <2>1. Cardinality(M) = 0
    BY <1>3, FS_EmptySet
  <2> QED
    BY <1>2, <2>1
<1>4. CASE M # {}
  <2>1. \A x \in Entities : x \in Int
    BY DEF Entities
  <2>2. PICK m \in M : \A d \in M : <<d, m>> \notin R
    <3>1. \A x \in M : <<x, x>> \notin R
      BY <2>1
    <3>2. \A x, y, z \in M : <<x, y>> \in R /\ <<y, z>> \in R => <<x, z>> \in R
      BY <1>1, <2>1
    <3> HIDE DEF R
    <3> QED
      BY <1>2, <1>4, <3>1, <3>2, Endmost
  <2>3. ASSUME NEW d \in M, d # m PROVE d < m
    <3>1. d \in Entities /\ m \in Entities
      BY <1>1
    <3>2. ~(d > m)
      BY <2>2, <3>1
    <3>3. d \in Int /\ m \in Int
      BY <2>1, <3>1
    <3> QED
      BY <2>3, <3>2, <3>3
  <2>4. PICK B : B = {d \in S : d < m}
    OBVIOUS
  <2>5. M \ {m} \subseteq B /\ B \subseteq S
    BY <2>3, <2>4
  <2>6. IsFiniteSet(B) /\ Cardinality(B) \in Nat
    BY <1>2, <2>5, FS_Subset, FS_CardinalityType
  <2>7. Cardinality(M \ {m}) = Cardinality(M) - 1 /\ Cardinality(M \ {m}) <= Cardinality(B)
    BY <1>2, <2>5, <2>6, FS_RemoveElement, FS_Subset
  <2>8. Cardinality(B) < q
    BY <2>4
  <2> QED
    BY <1>2, <2>6, <2>7, <2>8
<1> QED
  BY <1>3, <1>4

(* The generations before another, and that one, are of the queue.         *)
LEMMA QueueSets ==
  ASSUME TypeOK
  PROVE  /\ Queue \subseteq generations /\ Queue \subseteq Gens
         /\ IsFiniteSet(Queue) /\ Cardinality(Queue) \in Nat
         /\ Whole \subseteq Queue /\ IsFiniteSet(Whole) /\ Cardinality(Whole) \in Nat
         /\ \A g : /\ Predecessors(g) \subseteq Queue
                   /\ IsFiniteSet(Predecessors(g)) /\ Cardinality(Predecessors(g)) \in Nat
<1>1. /\ Queue \subseteq generations /\ Queue \subseteq Gens /\ Whole \subseteq Queue
      /\ \A g : Predecessors(g) \subseteq Queue
  BY DEF TypeOK, Queue, Whole, Predecessors
<1>2. Queue \in SUBSET Gens /\ Whole \in SUBSET Gens /\ \A g : Predecessors(g) \in SUBSET Gens
  BY <1>1
<1> QED
  BY <1>1, <1>2, GenerationSets

(* Whatever set of the queue, one of its generations comes first, and one  *)
(* comes last.                                                             *)
LEMMA QueueEnds ==
  ASSUME TypeOK, NEW T \in SUBSET Queue, T # {}
  PROVE  /\ \E g \in T : \A h \in T : ~Before(h, g)
         /\ \E g \in T : \A h \in T : ~Before(g, h)
<1> DEFINE R == {p \in generations \X generations : Before(p[1], p[2])}
           Q == {p \in generations \X generations : Before(p[2], p[1])}
<1>1. T \subseteq generations /\ IsFiniteSet(T)
  BY QueueSets, FS_Subset
<1>2. ASSUME NEW x \in T, NEW y \in T
      PROVE  (<<x, y>> \in R <=> Before(x, y)) /\ (<<x, y>> \in Q <=> Before(y, x))
  BY <1>1
<1>3. ASSUME NEW x \in T, NEW y \in T, NEW z \in T
      PROVE  ~Before(x, x) /\ (Before(x, y) /\ Before(y, z) => Before(x, z))
  BY <1>1, QueueOrder
<1> HIDE DEF R, Q
<1>4. \E g \in T : \A h \in T : <<h, g>> \notin R
  <2>1. \A x \in T : <<x, x>> \notin R
    BY <1>2, <1>3
  <2>2. \A x, y, z \in T : <<x, y>> \in R /\ <<y, z>> \in R => <<x, z>> \in R
    BY <1>2, <1>3
  <2> QED
    BY <1>1, <2>1, <2>2, Endmost
<1>5. \E g \in T : \A h \in T : <<h, g>> \notin Q
  <2>1. \A x \in T : <<x, x>> \notin Q
    BY <1>2, <1>3
  <2>2. \A x, y, z \in T : <<x, y>> \in Q /\ <<y, z>> \in Q => <<x, z>> \in Q
    BY <1>2, <1>3
  <2> QED
    BY <1>1, <2>1, <2>2, Endmost
<1> QED
  BY <1>2, <1>4, <1>5

(* A generation reached by the plan has all its predecessors collected     *)
(* whole.                                                                  *)
LEMMA ReachedAfterWhole ==
  ASSUME TypeOK, NEW g \in Queue, Reached(g)
  PROVE  Predecessors(g) \subseteq Whole
<1> SUFFICES ASSUME NEW h \in Predecessors(g) PROVE h \in Whole
  OBVIOUS
<1>1. h \in Queue /\ Before(h, g) /\ h \in generations /\ g \in generations
  BY QueueSets DEF Predecessors
<1>2. ASSUME NEW k \in Predecessors(h) PROVE k \in Predecessors(g)
  <2>1. k \in Queue /\ Before(k, h) /\ k \in generations
    BY <1>2, QueueSets DEF Predecessors
  <2>2. Before(k, g)
    BY <1>1, <2>1, QueueOrder
  <2> QED
    BY <2>1, <2>2 DEF Predecessors
<1>3. ~StopsAt(h) /\ Live(h) <= BudgetAt(h)
  BY DEF Reached
<1>4. Reached(h)
  BY <1>2, <1>3 DEF Reached
<1> QED
  BY <1>1, <1>3, <1>4 DEF Whole

(* What is left of the budget when the plan comes to a generation.         *)
LEMMA BudgetLeft ==
  ASSUME IInv, limit \in Nat, NEW g \in Queue
  PROVE  /\ BudgetAt(g) = Budget - Cardinality(Held(Predecessors(g)))
         /\ Budget \in Nat /\ Cardinality(Held(Predecessors(g))) \in Nat /\ Live(g) \in Nat
         /\ Cardinality(Held(Predecessors(g) \union {g}))
               = Cardinality(Held(Predecessors(g))) + Live(g)
         /\ limit = 0 => Budget = Cardinality(Held(Queue)) + 1
         /\ limit > 0 => Budget = limit
         /\ Cardinality(Held(Predecessors(g))) + Live(g) <= Cardinality(Held(Queue))
<1>1. PICK P : P = Predecessors(g)
  OBVIOUS
<1>2. P \in SUBSET generations /\ Queue \in SUBSET generations /\ P \subseteq Queue
  BY <1>1, QueueSets DEF IInv
<1>3. Sum(Live, P) = Cardinality(Held(P)) /\ Sum(Live, Queue) = Cardinality(Held(Queue))
  BY <1>2, LiveSums
<1>4. g \notin P /\ g \in generations
  BY <1>1, <1>2, QueueOrder DEF Predecessors, IInv
<1>5. /\ IsFiniteSet(Held(P)) /\ Cardinality(Held(P)) \in Nat
      /\ IsFiniteSet(Held(Queue)) /\ Cardinality(Held(Queue)) \in Nat
  <2>1. Held(P) \in SUBSET Entities /\ Held(Queue) \in SUBSET Entities
    BY DEF Held
  <2> QED
    BY <2>1, EntitySets, FS_CardinalityType
<1>6. Cardinality(Held(P \union {g})) = Live(g) + Cardinality(Held(P))
  <2>1. P \union {g} \in SUBSET generations /\ (P \union {g}) \ {g} = P
    BY <1>2, <1>4
  <2> QED
    BY <2>1, HeldRemoves
<1>7. Live(g) \in Nat
  <2>1. g \in Gens
    BY <1>4 DEF IInv, TypeOK
  <2>2. occupancy[g] \in [entities : 0 .. MaxEntity, dead : 0 .. MaxEntity]
        /\ occupancy[g].dead <= occupancy[g].entities
    BY <2>1 DEF IInv, TypeOK
  <2> QED
    BY <2>2, CountsAssumption DEF Live
<1>8. Cardinality(Held(P \union {g})) <= Cardinality(Held(Queue))
  <2>1. Held(P \union {g}) \subseteq Held(Queue)
    BY <1>2 DEF Held
  <2> QED
    BY <1>5, <2>1, FS_Subset
<1>9. /\ limit = 0 => Budget = Cardinality(Held(Queue)) + 1
      /\ limit > 0 => Budget = limit
      /\ Budget \in Nat
  BY <1>3, <1>5 DEF Budget
<1>10. BudgetAt(g) = Budget - Cardinality(Held(P))
  BY <1>1, <1>3 DEF BudgetAt
<1> QED
  BY <1>1, <1>5, <1>6, <1>7, <1>8, <1>9, <1>10

(* Without a cap on copying, the plan leaves room for the new generation   *)
(* in the budget of generations: the first one it leaves is one at which   *)
(* the budget holds.                                                       *)
LEMMA PlanWithinBudget ==
  ASSUME IInv, limit = 0, maxGenerations \in GenerationLimits
  PROVE  Cardinality(generations \ Absorb) + 1 <= maxGenerations
<1> DEFINE Rest == Queue \ Whole
           Stay == generations \ Absorb
<1>1. maxGenerations \in Nat /\ maxGenerations >= 2
  BY SlotsAssumption
<1>2. Stay \subseteq Rest
  BY DEF Absorb, Queue
<1>3. IsFiniteSet(Rest) /\ Cardinality(Rest) \in Nat
  BY QueueSets, FS_Subset, FS_CardinalityType DEF IInv
<1>4. Cardinality(Stay) <= Cardinality(Rest) /\ Cardinality(Stay) \in Nat
  BY <1>2, <1>3, FS_Subset, FS_CardinalityType
<1>5. CASE Rest = {}
  <2>1. Cardinality(Rest) = 0
    BY <1>5, FS_EmptySet
  <2> HIDE DEF Rest, Stay
  <2>2. Cardinality(Stay) + 1 <= maxGenerations
    BY <1>1, <1>3, <1>4, <2>1
  <2> QED
    BY <2>2 DEF Stay
<1>6. CASE Rest # {}
  <2>1. PICK g \in Rest : \A h \in Rest : ~Before(h, g)
    BY <1>6, QueueEnds DEF IInv
  <2>2. g \in Queue /\ g \notin Whole
    BY <2>1
  <2>3. ASSUME NEW h \in Queue
        PROVE  BudgetAt(h) \in Int /\ BudgetAt(h) > 0 /\ Live(h) <= BudgetAt(h)
    <3>1. limit \in Nat
      OBVIOUS
    <3>2. PICK held, all \in Int :
             /\ held = Cardinality(Held(Predecessors(h))) /\ all = Cardinality(Held(Queue))
             /\ held \in Nat
      <4>1. Cardinality(Held(Queue)) \in Nat
        <5>1. Held(Queue) \in SUBSET Entities
          BY DEF Held
        <5> QED
          BY <5>1, EntitySets, FS_CardinalityType
      <4>2. Cardinality(Held(Predecessors(h))) \in Nat
        BY <3>1, BudgetLeft
      <4> QED
        BY <4>1, <4>2
    <3>3. /\ BudgetAt(h) = Budget - held /\ Live(h) \in Nat
          /\ Budget = all + 1 /\ held + Live(h) <= all
      BY <3>1, <3>2, BudgetLeft
    <3> QED
      BY <3>2, <3>3
  <2>4. Predecessors(g) \subseteq Whole
    BY <2>1 DEF Predecessors
  <2>5. StopsAt(g)
    <3>1. ASSUME NEW h \in Predecessors(g) PROVE ~StopsAt(h) /\ Live(h) <= BudgetAt(h)
      BY <2>4, <3>1 DEF Whole, Reached
    <3> QED
      BY <2>2, <2>3, <3>1 DEF Whole, Reached
  <2>6. SlotsAt(g) <= maxGenerations
    <3>1. ~(BudgetAt(g) <= 0)
      <4>1. BudgetAt(g) \in Int
        BY <2>2, <2>3
      <4> QED
        BY <2>2, <2>3, <4>1
    <3> QED
      BY <2>5, <3>1 DEF StopsAt
  <2>7. PICK P : P = Predecessors(g)
    OBVIOUS
  <2>8. P \subseteq Queue /\ IsFiniteSet(P) /\ Cardinality(P) \in Nat /\ IsFiniteSet(Queue)
        /\ Cardinality(Queue) \in Nat
    BY <2>7, QueueSets DEF IInv
  <2>9. Cardinality(Queue \ P) = Cardinality(Queue) - Cardinality(P)
    <3>1. Queue \intersect P = P
      BY <2>8
    <3> QED
      BY <2>8, <3>1, FS_Difference
  <2>10. Cardinality(Rest) <= Cardinality(Queue \ P)
    <3>1. Rest \subseteq Queue \ P /\ IsFiniteSet(Queue \ P)
      BY <2>4, <2>7, <2>8, FS_Difference
    <3> QED
      BY <3>1, FS_Subset
  <2>11. (Cardinality(Queue) + 1) - Cardinality(P) <= maxGenerations
    BY <2>6, <2>7 DEF SlotsAt, Slots
  <2> HIDE DEF Rest, Stay
  <2>12. Cardinality(Stay) + 1 <= maxGenerations
    BY <1>1, <1>3, <1>4, <2>8, <2>9, <2>10, <2>11
  <2> QED
    BY <2>12 DEF Stay
<1> QED
  BY <1>5, <1>6

(* What the plan moves of the entities no transaction touched: all of the  *)
(* collected generations and, of one other, no more than its quota.        *)
CopiesWithin(absorb, quota) ==
  \E p \in Gens : /\ quota[p] \in Nat
                  /\ \A g \in generations \ absorb : g # p => quota[g] = 0
                  /\ Cardinality(Held(absorb)) + quota[p] <= limit

(* A generation without live entities holds none.                          *)
LEMMA DrainedHoldNone ==
  ASSUME IInv, Forced = {}
  PROVE  Held(Absorb) = Held(Whole)
<1>1. ASSUME NEW e \in Entities, location[e] \in Drained PROVE FALSE
  <2>1. PICK g \in generations : g = location[e] /\ Live(g) = 0
    BY <1>1 DEF Drained
  <2>2. Cardinality(In(g)) = 0 /\ e \in In(g)
    BY <2>1 DEF IInv, OccupancyIsExact, In
  <2>3. IsFiniteSet(In(g))
    BY EntitySets DEF In
  <2> QED
    BY <2>2, <2>3, FS_EmptySet
<1> QED
  BY <1>1 DEF Held, Absorb

(* Without forced generations the plan spends its budget and no more: the  *)
(* generations it takes whole are the first of the queue, and the one it   *)
(* takes in part, if any, comes next.                                      *)
LEMMA PlanCopies ==
  ASSUME IInv, limit \in Nat, limit > 0, Forced = {}, NEW quota,
         quota = [g \in Gens |-> IF g \notin generations THEN 0 ELSE Quota(g)]
  PROVE  CopiesWithin(Absorb, quota)
<1>1. /\ TypeOK /\ generations \subseteq Gens /\ Queue \subseteq generations
      /\ Whole \subseteq Queue /\ Partial \subseteq Queue
  BY DEF IInv, TypeOK, Queue, Whole, Partial
<1>2. ASSUME NEW g \in Queue
      PROVE  /\ Budget = limit /\ BudgetAt(g) \in Int /\ Live(g) \in Nat
             /\ BudgetAt(g) = limit - Cardinality(Held(Predecessors(g)))
             /\ Cardinality(Held(Predecessors(g))) \in Nat
             /\ Cardinality(Held(Predecessors(g) \union {g}))
                   = Cardinality(Held(Predecessors(g))) + Live(g)
  BY BudgetLeft
<1>2a. \A g \in Queue : BudgetAt(g) \in Int /\ Live(g) \in Int
  <2> SUFFICES ASSUME NEW g \in Queue PROVE BudgetAt(g) \in Int /\ Live(g) \in Int
    OBVIOUS
  <2>1. BudgetAt(g) \in Int /\ Live(g) \in Nat
    BY <1>2, Zenon
  <2> QED
    BY <2>1
<1>3. ASSUME NEW g \in Queue, NEW p \in Partial, Reached(g) PROVE p \notin Predecessors(g)
  <2>1. Live(p) > BudgetAt(p) /\ p \in Queue
    BY DEF Partial
  <2>2. Live(p) \in Int /\ BudgetAt(p) \in Int
    BY <1>2a, <2>1
  <2>3. ~(Live(p) <= BudgetAt(p))
    BY <2>1, <2>2
  <2> QED
    BY <1>3, <2>3 DEF Reached
<1>4. Cardinality(Held(Absorb)) = Cardinality(Held(Whole))
  BY DrainedHoldNone
<1>5. ASSUME NEW g \in generations, g \notin Partial PROVE quota[g] = 0
  BY <1>1, <1>5 DEF Quota
<1>6. CASE Partial # {}
  <2>1. PICK p \in Partial : TRUE
    BY <1>6
  <2>2. p \in Queue /\ Reached(p) /\ Live(p) > BudgetAt(p) /\ p \in Gens /\ p \in generations
    BY <1>1, <2>1 DEF Partial
  <2>3. quota[p] = BudgetAt(p)
    BY <2>1, <2>2 DEF Quota
  <2>4. ~(BudgetAt(p) <= 0)
    BY <2>2 DEF Reached, StopsAt
  <2>5. quota[p] \in Nat
    BY <1>2a, <2>2, <2>3, <2>4
  <2>6. ASSUME NEW g \in generations \ Absorb, g # p PROVE quota[g] = 0
    <3>1. ASSUME g \in Partial PROVE FALSE
      <4>1. g \in Queue /\ Reached(g)
        BY <3>1 DEF Partial
      <4>2. g \notin Predecessors(p) /\ p \notin Predecessors(g)
        BY <1>3, <2>1, <2>2, <3>1, <4>1
      <4>3. Before(g, p) \/ Before(p, g)
        BY <1>1, <2>2, <2>6, QueueOrder
      <4> QED
        BY <2>2, <4>1, <4>2, <4>3 DEF Predecessors
    <3> QED
      BY <1>5, <3>1
  <2>7. Whole = Predecessors(p)
    <3>1. Predecessors(p) \subseteq Whole
      BY <1>1, <2>2, ReachedAfterWhole
    <3>2. ASSUME NEW g \in Whole PROVE g \in Predecessors(p)
      <4>1. g \in Queue /\ Reached(g) /\ Live(g) <= BudgetAt(g) /\ g \in generations
        BY <1>1 DEF Whole
      <4>2. Live(g) \in Int /\ BudgetAt(g) \in Int
        BY <1>2a, <4>1
      <4>3. g # p
        BY <2>2, <4>1, <4>2
      <4>4. ~Before(p, g)
        BY <1>3, <2>1, <2>2, <4>1 DEF Predecessors
      <4>5. Before(g, p)
        BY <1>1, <2>2, <4>1, <4>3, <4>4, QueueOrder
      <4> QED
        BY <4>1, <4>5 DEF Predecessors
    <3> QED
      BY <3>1, <3>2
  <2>8. Cardinality(Held(Absorb)) + quota[p] <= limit
    <3>1. PICK n \in Nat : n = Cardinality(Held(Predecessors(p)))
      BY <1>2, <2>2
    <3>2. BudgetAt(p) = limit - n
      BY <1>2, <2>2, <3>1
    <3>3. Cardinality(Held(Absorb)) = n
      BY <1>4, <2>7, <3>1
    <3> QED
      BY <2>3, <3>2, <3>3
  <2> QED
    BY <2>2, <2>5, <2>6, <2>8 DEF CopiesWithin
<1>7. CASE Partial = {}
  <2>1. 0 \in Gens
    BY CountsAssumption DEF Gens
  <2>2. \A g \in Gens : quota[g] = 0
    BY <1>7 DEF Quota
  <2>3. Cardinality(Held(Whole)) <= limit /\ Cardinality(Held(Whole)) \in Nat
    <3>1. Held(Whole) \in SUBSET Entities
      BY DEF Held
    <3>2. IsFiniteSet(Held(Whole)) /\ Cardinality(Held(Whole)) \in Nat
      BY <3>1, EntitySets, FS_CardinalityType
    <3>3. CASE Whole = {}
      <4>1. Held(Whole) = {}
        BY <3>3 DEF Held
      <4>2. Cardinality(Held(Whole)) = 0
        BY <4>1, FS_EmptySet
      <4> QED
        BY <3>2, <4>2
    <3>4. CASE Whole # {}
      <4>1. PICK g \in Whole : \A h \in Whole : ~Before(g, h)
        BY <1>1, <3>4, QueueEnds
      <4>2. g \in Queue /\ Live(g) <= BudgetAt(g) /\ g \in generations
        BY <1>1 DEF Whole
      <4>3. ASSUME NEW h \in Whole PROVE h \in Predecessors(g) \union {g}
        <5>1. h \in Queue /\ h \in generations
          BY <1>1
        <5>2. h # g => Before(h, g)
          BY <1>1, <4>1, <4>2, <5>1, QueueOrder
        <5> QED
          BY <5>1, <5>2 DEF Predecessors
      <4>4. PICK H : H = Held(Predecessors(g) \union {g})
        OBVIOUS
      <4>5. Held(Whole) \subseteq H /\ H \in SUBSET Entities
        BY <4>3, <4>4 DEF Held
      <4>6. IsFiniteSet(H)
        BY <4>5, EntitySets
      <4>7. Cardinality(Held(Whole)) <= Cardinality(H)
        BY <4>5, <4>6, FS_Subset
      <4>8. PICK n \in Nat : n = Cardinality(Held(Predecessors(g)))
        BY <1>2, <4>2
      <4>9. BudgetAt(g) = limit - n /\ Cardinality(H) = n + Live(g) /\ Live(g) \in Nat
        BY <1>2, <4>2, <4>4, <4>8
      <4> QED
        BY <3>2, <4>2, <4>7, <4>9
    <3> QED
      BY <3>2, <3>3, <3>4
  <2>4. Cardinality(Held(Absorb)) + quota[0] <= limit
    <3>1. quota[0] = 0
      BY <2>1, <2>2
    <3> QED
      BY <1>4, <2>3, <3>1
  <2>5. \A g \in generations \ Absorb : g # 0 => quota[g] = 0
    BY <1>1, <2>2
  <2>6. quota[0] \in Nat
    BY <2>1, <2>2
  <2> QED
    BY <2>1, <2>4, <2>5, <2>6 DEF CopiesWithin
<1> QED
  BY <1>6, <1>7

(* The running checkpoint keeps to the budgets of the handle that planned  *)
(* it, which cannot change before it is installed.                         *)
BudgetInv ==
  /\ limit \in CollectLimits /\ maxGenerations \in GenerationLimits
  /\ job.running =>
       /\ limit = 0 => Cardinality(generations \ job.absorb) + 1 <= maxGenerations
       /\ limit > 0 /\ ~job.forced => CopiesWithin(job.absorb, job.quota)

LEMMA BudgetKept ==
  ASSUME IInv, BudgetInv, [Next]_vars
  PROVE  BudgetInv'
<1>1. ASSUME UNCHANGED <<generations, location, options, job>> PROVE BudgetInv'
  BY <1>1 DEF BudgetInv, CopiesWithin, Held, options
<1>2. ASSUME NEW e \in Entities, Commit(e) PROVE BudgetInv'
  BY <1>1, <1>2 DEF Commit
<1>3. ASSUME NEW compact \in BOOLEAN, Capture(compact) PROVE BudgetInv'
  <2>1. /\ job'.absorb = (IF compact THEN generations ELSE Absorb)
        /\ job'.quota = [g \in Gens |-> IF compact \/ g \notin generations THEN 0 ELSE Quota(g)]
        /\ job'.forced = (compact \/ Forced # {})
        /\ generations' = generations /\ location' = location
        /\ limit' = limit /\ maxGenerations' = maxGenerations
    BY <1>3 DEF Capture, options
  <2>2. limit \in Nat /\ maxGenerations \in Nat /\ maxGenerations >= 2
    BY CountsAssumption, SlotsAssumption DEF BudgetInv
  <2>3. limit = 0 => Cardinality(generations \ job'.absorb) + 1 <= maxGenerations
    <3>1. CASE compact
      <4>1. generations \ job'.absorb = {}
        BY <2>1, <3>1
      <4>2. Cardinality(generations \ job'.absorb) = 0
        BY <4>1, FS_EmptySet
      <4> QED
        BY <2>2, <4>2
    <3>2. CASE ~compact
      BY <2>1, <3>2, PlanWithinBudget DEF BudgetInv
    <3> QED
      BY <3>1, <3>2
  <2>4. ASSUME limit > 0, ~job'.forced PROVE CopiesWithin(job'.absorb, job'.quota)
    <3>1. ~compact /\ Forced = {} /\ job'.absorb = Absorb
      BY <2>1, <2>4
    <3>2. job'.quota = [g \in Gens |-> IF g \notin generations THEN 0 ELSE Quota(g)]
      BY <2>1, <3>1
    <3>3. PICK quota : quota = job'.quota
      OBVIOUS
    <3>4. CopiesWithin(Absorb, quota)
      BY <2>2, <2>4, <3>1, <3>2, <3>3, PlanCopies
    <3> QED
      BY <3>1, <3>3, <3>4
  <2>5. CopiesWithin(job'.absorb, job'.quota) => CopiesWithin(job.absorb, job.quota)'
    BY <2>1 DEF CopiesWithin, Held, Gens, Entities
  <2> QED
    BY <2>1, <2>3, <2>4, <2>5 DEF BudgetInv
<1>4. CASE AbandonCheckpoint
  BY <1>4 DEF AbandonCheckpoint, BudgetInv, NoJob, options
<1>5. CASE InstallCheckpoint
  BY <1>5 DEF InstallCheckpoint, BudgetInv, NoJob, options
<1>6. ASSUME NEW collect \in CollectLimits, NEW budget \in GenerationLimits,
             Reopen(collect, budget)
      PROVE  BudgetInv'
  BY <1>6 DEF Reopen, BudgetInv, NoJob
<1>7. CASE UNCHANGED vars
  BY <1>1, <1>7 DEF vars
<1> QED
  BY <1>2, <1>3, <1>4, <1>5, <1>6, <1>7 DEF Next

LEMMA BudgetInitially == Init => BudgetInv
  BY DEF Init, BudgetInv, NoJob

(* Only an installation changes the manifest.                              *)
LEMMA OnlyInstall ==
  ASSUME Next, generations' # generations
  PROVE  InstallCheckpoint
  BY DEF Next, Commit, Capture, AbandonCheckpoint, Reopen

(* Without a cap on copying, every checkpoint leaves a manifest within     *)
(* max_generations, for any number of entities, any sparsity and whatever  *)
(* handles came before.                                                    *)
THEOREM BudgetsHold == Spec => GenerationBudgetHolds
<1>1. IInv /\ [Next]_vars => IInv'
  BY InvariantKept
<1>2. IInv /\ BudgetInv /\ [Next]_vars => BudgetInv'
  BY BudgetKept
<1>3. IInv /\ BudgetInv /\ [Next]_vars =>
         [generations' # generations /\ limit = 0
          => Cardinality(generations') <= maxGenerations]_vars
  <2> SUFFICES ASSUME IInv, BudgetInv, Next, generations' # generations, limit = 0
               PROVE  Cardinality(generations') <= maxGenerations
    OBVIOUS
  <2>1. /\ generations' = (generations \ job.absorb) \union {job.gen} /\ job.running
    BY OnlyInstall DEF InstallCheckpoint, Kept
  <2>2. PICK K : K = generations \ job.absorb
    OBVIOUS
  <2>3. IsFiniteSet(K) /\ Cardinality(K) \in Nat
    BY <2>2, GenerationSets DEF IInv, TypeOK
  <2>4. Cardinality(K) + 1 <= maxGenerations
    BY <2>1, <2>2 DEF BudgetInv
  <2>5. Cardinality(K \union {job.gen}) = IF job.gen \in K THEN Cardinality(K)
                                          ELSE Cardinality(K) + 1
    BY <2>3, FS_AddElement
  <2>6. maxGenerations \in Nat
    BY SlotsAssumption DEF BudgetInv
  <2>7. Cardinality(K \union {job.gen}) <= maxGenerations
    BY <2>3, <2>4, <2>5, <2>6
  <2> QED
    BY <2>1, <2>2, <2>7
<1> QED
  BY <1>1, <1>2, <1>3, InvariantInitially, BudgetInitially, PTL DEF Spec, GenerationBudgetHolds

(* With a cap, a checkpoint that the slot limit does not force, and that   *)
(* is not a compaction, moves at most collect_entities entities that no    *)
(* transaction touched.                                                    *)
THEOREM CopiesAreBounded == Spec => CopyingIsBounded
<1>1. IInv /\ [Next]_vars => IInv'
  BY InvariantKept
<1>2. IInv /\ BudgetInv /\ [Next]_vars => BudgetInv'
  BY BudgetKept
<1>3. IInv /\ BudgetInv /\ [Next]_vars =>
         [generations' # generations /\ limit > 0 /\ ~job.forced
          => Cardinality({e \in Entities \ job.overlay : location'[e] # location[e]})
             <= limit]_vars
  <2> SUFFICES ASSUME IInv, BudgetInv, Next, generations' # generations, limit > 0,
                      ~job.forced
               PROVE  Cardinality({e \in Entities \ job.overlay : location'[e] # location[e]})
                      <= limit
    OBVIOUS
  <2>1. /\ location' = [e \in Entities |-> IF e \in Rewritten THEN job.gen ELSE location[e]]
        /\ job.running
    BY OnlyInstall DEF InstallCheckpoint
  <2>2. PICK p \in Gens : /\ job.quota[p] \in Nat
                          /\ \A g \in generations \ job.absorb : g # p => job.quota[g] = 0
                          /\ Cardinality(Held(job.absorb)) + job.quota[p] <= limit
    BY <2>1 DEF BudgetInv, CopiesWithin
  <2>3. PICK C, A, M : /\ C = {e \in Entities \ job.overlay : location'[e] # location[e]}
                       /\ A = Held(job.absorb) /\ M = Moved(p)
    OBVIOUS
  <2>4. A \in SUBSET Entities /\ Untouched(p) \in SUBSET Entities /\ M \in SUBSET Untouched(p)
    BY <2>3 DEF Held, Moved, Untouched
  <2>5. IsFiniteSet(M) /\ Cardinality(M) <= job.quota[p]
    <3>1. \A e \in M : Cardinality({d \in Untouched(p) : d < e}) < job.quota[p]
      BY <2>3 DEF Moved
    <3> QED
      BY <2>2, <2>4, <3>1, FirstFew
  <2>6. ASSUME NEW e \in C PROVE e \in A \union M
    <3>1. e \in Entities /\ e \notin job.overlay /\ e \in Rewritten
      BY <2>1, <2>3
    <3>2. CASE location[e] \in job.absorb
      BY <2>3, <3>1, <3>2 DEF Held
    <3>3. CASE location[e] \notin job.absorb
      <4>1. location[e] \in generations \ job.absorb /\ e \in Moved(location[e])
        BY <3>1, <3>3 DEF Rewritten, Kept
      <4>2. ASSUME location[e] # p PROVE FALSE
        <5>1. job.quota[location[e]] = 0
          BY <2>2, <4>1, <4>2
        <5>2. PICK D : D = {d \in Untouched(location[e]) : d < e}
          OBVIOUS
        <5>3. Cardinality(D) < 0
          BY <4>1, <5>1, <5>2 DEF Moved
        <5>4. D \in SUBSET Entities
          BY <5>2 DEF Untouched
        <5>5. Cardinality(D) \in Nat
          BY <5>4, EntitySets, FS_CardinalityType
        <5> QED
          BY <5>3, <5>5
      <4> QED
        BY <2>3, <4>1, <4>2
    <3> QED
      BY <3>2, <3>3
  <2>7. IsFiniteSet(A) /\ Cardinality(A) \in Nat /\ Cardinality(M) \in Nat
    BY <2>4, <2>5, EntitySets, FS_CardinalityType
  <2>8. /\ IsFiniteSet(A \union M)
        /\ Cardinality(A \union M) = Cardinality(A) + Cardinality(M) - Cardinality(A \intersect M)
        /\ Cardinality(A \intersect M) \in Nat
    BY <2>5, <2>7, FS_Union, FS_Intersection, FS_CardinalityType
  <2>9. Cardinality(C) <= Cardinality(A \union M) /\ Cardinality(C) \in Nat
    BY <2>6, <2>8, FS_Subset, FS_CardinalityType
  <2>10. limit \in Nat /\ Cardinality(A) + job.quota[p] <= limit
    BY <2>2, <2>3, CountsAssumption DEF BudgetInv
  <2>11. Cardinality(C) <= limit
    BY <2>2, <2>5, <2>7, <2>8, <2>9, <2>10
  <2> QED
    BY <2>3, <2>11
<1> QED
  BY <1>1, <1>2, <1>3, InvariantInitially, BudgetInitially, PTL DEF Spec, CopyingIsBounded
=============================================================================
