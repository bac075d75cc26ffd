------------------------------ MODULE Collection ------------------------------
(***************************************************************************)
(* Which generations a checkpoint keeps: the occupancy counters of a       *)
(* manifest, the plan that says how many live entities of each generation  *)
(* are moved, and the pass that carries or rewrites every entity.          *)
(*                                                                         *)
(* An entity is its id and the generation that holds its current record.   *)
(* Counters are per generation (the code's per-table ones summed), slots   *)
(* are the generations themselves, and a partition whose entities all stay *)
(* is carried as its entities would be, one by one.                        *)
(***************************************************************************)
EXTENDS Integers, FiniteSets, FiniteSetsExt

CONSTANTS
    MaxEntity,         \* entities have the ids 1..MaxEntity
    MaxGen,            \* bound: generations ever reserved after generation 0
    MaxSlots,          \* heap::MAX_SLOTS
    GenerationLimits,  \* values of options.max_generations
    CollectLimits,     \* values of options.collect_entities, 0 for no cap
    Num, Den           \* options.compact_live_ratio = Num / Den

ASSUME CountsAssumption == /\ MaxEntity \in Nat /\ MaxGen \in Nat
                           /\ CollectLimits \subseteq Nat
ASSUME SlotsAssumption == /\ MaxSlots \in Nat
                          /\ GenerationLimits \subseteq 2..MaxSlots
ASSUME RatioAssumption == Den \in Nat \ {0} /\ Num \in 0..Den

VARIABLES
    generations,   \* Root.generations
    location,      \* where the primary index finds each entity, -1 if nowhere
    occupancy,     \* Root.occupancy: entities written, and superseded since
    overlay,       \* entities of ReadState.overlay
    tail,          \* entities of Database.checkpoint_tail
    job,           \* the running CheckpointJob
    nextGen,       \* Database.next_generation
    limit,         \* options.collect_entities of the open handle
    maxGenerations \* options.max_generations of the open handle

options == <<limit, maxGenerations>>
vars == <<generations, location, occupancy, overlay, tail, job, nextGen, options>>

-----------------------------------------------------------------------------
Entities == 1..MaxEntity
Gens == 0..MaxGen
Absent == -1
NoJob == [running |-> FALSE]
Empty == [entities |-> 0, dead |-> 0]

Init ==
    /\ generations = {0}
    /\ location = [e \in Entities |-> Absent]
    /\ occupancy = [g \in Gens |-> Empty]
    /\ overlay = {}
    /\ tail = {}
    /\ job = NoJob
    /\ nextGen = 1
    /\ limit \in CollectLimits
    /\ maxGenerations \in GenerationLimits

(* A committed transaction creates or changes the entity. *)
Commit(e) ==
    /\ e \notin overlay \/ (job.running /\ e \notin tail)
    /\ overlay' = overlay \union {e}
    /\ tail' = IF job.running THEN tail \union {e} ELSE tail
    /\ UNCHANGED <<generations, location, occupancy, job, nextGen, options>>

-----------------------------------------------------------------------------
(* Database::collection_plan. *)

Live(g) == occupancy[g].entities - occupancy[g].dead

(* Nothing to copy. *)
Drained == {g \in generations : Live(g) = 0}

Queue == generations \ Drained
Dense(g) == Live(g) * Den >= Num * occupancy[g].entities

(* Sparse generations first, then the ones with fewest live entities. *)
Before(g, h) ==
    \/ ~Dense(g) /\ Dense(h)
    \/ Dense(g) = Dense(h) /\ Live(g) < Live(h)
    \/ Dense(g) = Dense(h) /\ Live(g) = Live(h) /\ g < h

Predecessors(g) == {h \in Queue : Before(h, g)}

Sum(f(_), S) == MapThenSumSet(f, S)

(* Slots the next manifest needs if nothing of the queue is collected. *)
Slots == Cardinality(Queue) + 1

Budget == IF limit = 0 THEN Sum(Live, Queue) + 1 ELSE limit

BudgetAt(g) == Budget - Sum(Live, Predecessors(g))
SlotsAt(g) == Slots - Cardinality(Predecessors(g))

(* Mutant: the last slot of the generation budget is left to the new one.  *)
StopsAtOneMore(g) ==
    BudgetAt(g) <= 0 \/ (Dense(g) /\ SlotsAt(g) <= maxGenerations + 1)

(* The conditions that end the loop over the queue. *)
StopsAt(g) == BudgetAt(g) <= 0 \/ (Dense(g) /\ SlotsAt(g) <= maxGenerations)

Reached(g) ==
    /\ ~StopsAt(g)
    /\ \A h \in Predecessors(g) : ~StopsAt(h) /\ Live(h) <= BudgetAt(h)

Whole == {g \in Queue : Reached(g) /\ Live(g) <= BudgetAt(g)}
Partial == {g \in Queue : Reached(g) /\ Live(g) > BudgetAt(g)}

(* The format's slot limit does not yield: more generations go, in the order of
   the queue, until the manifest fits.                                      *)
Forced ==
    {g \in Queue \ Whole :
        Slots - Cardinality(Whole) - Cardinality(Predecessors(g) \ Whole) >= MaxSlots}

(* Mutant: a generation drained in part is dropped like one drained whole. *)
AbsorbPartialToo == Drained \union Whole \union Partial \union Forced

(* Mutant: an empty generation costs no slot, and is not put in the plan.  *)
AbsorbLive == Whole \union Forced

(* The generations that leave the manifest, and the quotas of the others.  *)
Absorb == Drained \union Whole \union Forced
Quota(g) == IF g \in Partial \ Forced THEN BudgetAt(g) ELSE 0

-----------------------------------------------------------------------------
(* prepare_checkpoint freezes the state; commits go on.  The field "forced" is an
   observer: the slot limit, or compaction, took generations out of the plan's
   budget.                                                                  *)
Capture(compact) ==
    /\ ~job.running /\ nextGen <= MaxGen
    /\ job' = [running |-> TRUE, gen |-> nextGen, overlay |-> overlay,
               absorb |-> IF compact THEN generations ELSE Absorb,
               quota |-> [g \in Gens |-> IF compact \/ g \notin generations THEN 0
                                         ELSE Quota(g)],
               forced |-> compact \/ Forced # {}]
    /\ tail' = {}
    /\ nextGen' = nextGen + 1
    /\ UNCHANGED <<generations, location, occupancy, overlay, options>>

AbandonCheckpoint ==
    /\ job.running
    /\ job' = NoJob /\ tail' = {}
    /\ UNCHANGED <<generations, location, occupancy, overlay, nextGen, options>>

Kept == generations \ job.absorb

(* Untouched entities of a generation, and the first of them in id order, as many
   as its quota allows.                                                     *)
Untouched(g) == {e \in Entities \ job.overlay : location[e] = g}
Moved(g) == {e \in Untouched(g) :
                Cardinality({d \in Untouched(g) : d < e}) < job.quota[g]}

(* Mutant: an entity of a collected generation stays where it is. *)
RewrittenTouchedOnly ==
    {e \in Entities : \/ e \in job.overlay
                      \/ location[e] \in Kept /\ e \in Moved(location[e])}

(* What the pass writes to the new generation. *)
Rewritten ==
    {e \in Entities : \/ e \in job.overlay
                      \/ location[e] \in job.absorb
                      \/ location[e] \in Kept /\ e \in Moved(location[e])}

(* Mutants: only a collected copy counts as superseded; every rewritten entity
   counts, wherever it was.                                                 *)
DeadAfterCollected(g) == occupancy[g].dead + Cardinality(Moved(g))
DeadAfterAnywhere(g) == occupancy[g].dead + Cardinality(Rewritten)

(* A rewritten entity leaves an unreachable copy in a kept generation. *)
DeadAfter(g) == occupancy[g].dead + Cardinality({e \in Rewritten : location[e] = g})

InstallCheckpoint ==
    /\ job.running
    /\ generations' = Kept \union {job.gen}
    /\ location' = [e \in Entities |-> IF e \in Rewritten THEN job.gen ELSE location[e]]
    /\ occupancy' =
          [g \in Gens |->
             IF g = job.gen THEN [entities |-> Cardinality(Rewritten), dead |-> 0]
             ELSE IF g \in Kept THEN [occupancy[g] EXCEPT !.dead = DeadAfter(g)]
             ELSE Empty]
    /\ overlay' = tail
    /\ tail' = {}
    /\ job' = NoJob
    /\ UNCHANGED <<nextGen, options>>

(* The database is closed, or stops, and is opened with other options: the WAL
   brings the overlay back, the job and its tail are gone.                  *)
Reopen(collect, budget) ==
    /\ job' = NoJob /\ tail' = {}
    /\ limit' = collect /\ maxGenerations' = budget
    /\ UNCHANGED <<generations, location, occupancy, overlay, nextGen>>

Next ==
    \/ \E e \in Entities : Commit(e)
    \/ \E compact \in BOOLEAN : Capture(compact)
    \/ AbandonCheckpoint \/ InstallCheckpoint
    \/ \E collect \in CollectLimits, budget \in GenerationLimits :
          Reopen(collect, budget)

Spec == Init /\ [][Next]_vars

-----------------------------------------------------------------------------
(* Types of the manifest and of the overlays; the unsigned subtraction that
   counts live entities does not wrap.                                      *)
TypeOK ==
    /\ generations \subseteq Gens
    /\ location \in [Entities -> Gens \union {Absent}]
    /\ occupancy \in [Gens -> [entities : 0..MaxEntity, dead : 0..MaxEntity]]
    /\ \A g \in Gens : occupancy[g].dead <= occupancy[g].entities
    /\ overlay \subseteq Entities /\ tail \subseteq Entities
    /\ nextGen \in 1..(MaxGen + 1)

(* The counters, kept without reading a file, say how many entities each
   generation of the manifest still holds.                                  *)
OccupancyIsExact ==
    \A g \in generations : Live(g) = Cardinality({e \in Entities : location[e] = g})

(* No entity is left in a generation that the manifest dropped, whose files the
   next cleanup removes.                                                    *)
LocatorsResolve == \A e \in Entities : location[e] \in generations \union {Absent}

(* A manifest never needs more slots than a locator can name: rebuild_slots never
   refuses a planned checkpoint.                                            *)
ManifestFits == Cardinality(generations) <= MaxSlots

(* A checkpoint without a cap on copying leaves a manifest within max_generations,
   the new generation included, however many a capped handle left before.  *)
GenerationBudgetHolds ==
    [][generations' # generations /\ limit = 0
       => Cardinality(generations') <= maxGenerations]_vars

(* A checkpoint the slot limit does not force moves at most collect_entities
   entities that no transaction touched since the last one.                 *)
CopyingIsBounded ==
    [][generations' # generations /\ limit > 0 /\ ~job.forced
       => Cardinality({e \in Entities \ job.overlay : location'[e] # location[e]})
          <= limit]_vars

(* "Rewrite a kept generation once this share of its entities is superseded":
   a checkpoint without a cap on copying collects every such generation.   *)
CollectedOnceSuperseded ==
    [][job'.running /\ ~job.running =>
         \A g \in generations :
            occupancy[g].dead * Den >= Num * occupancy[g].entities
            => g \in job'.absorb]_vars
=============================================================================
