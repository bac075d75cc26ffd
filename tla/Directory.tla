------------------------------ MODULE Directory ------------------------------
(***************************************************************************)
(* How a table finds its entities: the overlay's ordered map over the      *)
(* primary index of the last checkpoint.  The index is cut into partitions *)
(* of Width ids.  A checkpoint writes a new tree for a partition it        *)
(* changes and carries the others as they are, with a translation from the *)
(* generation slots their entries were written with to the slots of the    *)
(* new manifest.                                                           *)
(*                                                                         *)
(* An index value is the slot of the generation that holds the entity's    *)
(* record; the page and position inside its heap are left out.             *)
(***************************************************************************)
EXTENDS Integers, Sequences, FiniteSets, SequencesExt, TLC

CONSTANTS
    MaxId,                           \* entities have the ids 0..MaxId
    Width,                           \* partitions::WIDTH
    LeafCapacity, BranchCapacity,    \* entries of an index page
    MaxGen                           \* bound: checkpoints of the table

ASSUME DirectoryAssumption == /\ MaxId \in Nat /\ MaxGen \in Nat
                              /\ Width \in Nat \ {0}
                              /\ LeafCapacity \in Nat \ {0}
                              /\ BranchCapacity \in Nat \ {0, 1}

Map == INSTANCE OrderedMap
Index == INSTANCE IndexTree

VARIABLES
    overlay,   \* ReadState.overlay.entries, an entity's data named by its id
    root,      \* ReadState.root: generations by slot, partitions, and index files
    nextGen,   \* Database.next_generation
    holder     \* observer: the generation an entity's record was last written to

vars == <<overlay, root, nextGen, holder>>

-----------------------------------------------------------------------------
Ids == 0..MaxId
Gens == 0..MaxGen
Absent == -1

(* A set of ids in ascending order. *)
Sorted(S) == SelectSeq([i \in 1..(MaxId + 1) |-> i - 1], LAMBDA id : id \in S)

(* A table is created in a database where generation 0 holds other tables. *)
Init ==
    /\ overlay = Map!Nil
    /\ root = [generations |-> <<0>>, parts |-> <<>>, files |-> [g \in Gens |-> <<>>]]
    /\ nextGen = 1
    /\ holder = [id \in Ids |-> Absent]

bucket(id) == (id \div Width) * Width
end(lower) == lower + Width - 1

(* Root::lookup_index, floor_index and scan_index, with Partition::translate. *)

translate(part, entry) ==
    IF entry.found THEN [entry EXCEPT !.value = part.slots[entry.value]] ELSE entry

Tree(part) == root.files[part.file]

lookup_index(id) ==
    IF bucket(id) \notin DOMAIN root.parts THEN Index!Missing
    ELSE LET part == root.parts[bucket(id)]
         IN  translate(part, Index!lookup_at(Tree(part), part.base, id))

floor_index(id) ==
    LET Floor(b) == LET part == root.parts[b]
                    IN  translate(part, Index!floor_at(Tree(part), part.base, id))
        hits == {b \in DOMAIN root.parts : b <= bucket(id) /\ Floor(b).found}
    IN  IF hits = {} THEN Index!Missing ELSE Floor(Max(hits))

scan_index(lower, upper) ==
    LET parts == Sorted({b \in DOMAIN root.parts : b \in bucket(lower)..bucket(upper)})
        Scan(b) == LET part == root.parts[b]
                       found == Index!scan_at(Tree(part), part.base, lower, upper)
                   IN  [i \in DOMAIN found |-> translate(part, found[i])]
    IN  FlattenSeq([i \in DOMAIN parts |-> Scan(parts[i])])

(* visit_entries_range: the merge of the index with the overlay, each id once and
   with the slot the index has for it.                                      *)
merge(disk, recent) ==
    LET from[d \in 1..(Len(disk) + 1), r \in 1..(Len(recent) + 1)] ==
          LET id == Min({disk[i].key : i \in {d} \cap DOMAIN disk}
                        \union {recent[i].key : i \in {r} \cap DOMAIN recent})
              old == d <= Len(disk) /\ disk[d].key = id
              new == r <= Len(recent) /\ recent[r].key = id
          IN  IF d > Len(disk) /\ r > Len(recent) THEN <<>>
              ELSE <<[id |-> id, slot |-> IF old THEN disk[d].value ELSE Absent]>>
                   \o from[IF old THEN d + 1 ELSE d, IF new THEN r + 1 ELSE r]
    IN  from[1, 1]

visit_entries_range(lower, upper) ==
    merge(scan_index(lower, upper), Map!range(overlay, lower, upper))

-----------------------------------------------------------------------------
(* A committed transaction publishes the entity's new data. *)
Commit(id) ==
    /\ nextGen <= MaxGen
    /\ overlay' = Map!insert(overlay, id, id)
    /\ overlay' # overlay
    /\ UNCHANGED <<root, nextGen, holder>>

(* Root::rebuild_slots: survivors keep their order, the new generation is last. *)
rebuild_slots(absorb) ==
    [old \in 0..(Len(root.generations) - 1) |->
       IF root.generations[old + 1] \in absorb THEN Absent
       ELSE Cardinality({o \in 0..(old - 1) : root.generations[o + 1] \notin absorb})]

(* Mutant: the slots an earlier checkpoint translated to are forgotten.    *)
carried_once(part, slots) ==
    [part EXCEPT !.slots = [s \in DOMAIN part.slots |-> slots[s]]]

(* TableWriter::carry_partition and Indexes::reuse: the partition as it is, its
   entries read through one more renumbering.                               *)
carry_partition(part, slots) ==
    [part EXCEPT !.slots = [s \in DOMAIN part.slots |-> slots[part.slots[s]]]]

(* What the pass does with the entities of a partition, in order: carry the entry,
   or write the record to the new generation and, if it moves an entity nobody
   touched, spend the quota of its slot.                                    *)
moved(done, id, slot, newSlot) ==
    LET touched == Map!get(overlay, id).found
        carried == slot # Absent /\ ~touched /\ done.quotas[slot] = 0
    IN  [entries |-> Append(done.entries,
                            [key |-> id, value |-> IF carried THEN slot ELSE newSlot]),
         quotas |-> IF slot # Absent /\ ~touched /\ ~carried
                    THEN [done.quotas EXCEPT ![slot] = @ - 1] ELSE done.quotas]

rewrite(visited, slots, quotas, newSlot) ==
    LET pass[n \in 0..Len(visited)] ==
          IF n = 0 THEN [entries |-> <<>>, quotas |-> quotas]
          ELSE LET old == visited[n].slot
               IN  moved(pass[n - 1], visited[n].id,
                         IF old = Absent THEN Absent ELSE slots[old], newSlot)
    IN  pass[Len(visited)]

(* Indexes::append and flush: a partition whose tree starts at page "base" of the
   new file.                                                                *)
built_part(entries, gen, base) ==
    [file |-> gen, base |-> base,
     slots |-> [s \in {entries[i].value : i \in DOMAIN entries} |-> s]]

(* No entity of the partition is written again: the tree can stay. *)
whole(lower, slots, quotas) ==
    /\ lower \in DOMAIN root.parts
    /\ Map!range(overlay, lower, end(lower)) = <<>>
    /\ \A s \in Range(root.parts[lower].slots) : slots[s] # Absent /\ quotas[slots[s]] = 0

(* CheckpointJob::build for the table: one partition after the other, lowest first;
   the partitions, the new index file and the quotas so far.                *)
build(lowers, slots, newSlot, gen, quotas) ==
    LET Carried(out, lower) ==
          [out EXCEPT !.parts = @ @@ (lower :> carry_partition(root.parts[lower], slots))]
        Written(out, lower, pass) ==
          [parts |-> out.parts @@ (lower :> built_part(pass.entries, gen, Len(out.file))),
           file |-> Index!Write(out.file, pass.entries),
           quotas |-> pass.quotas]
        Visited(out, lower) ==
          IF whole(lower, slots, out.quotas) THEN Carried(out, lower)
          ELSE Written(out, lower, rewrite(visit_entries_range(lower, end(lower)),
                                           slots, out.quotas, newSlot))
        built[n \in 0..Len(lowers)] ==
          IF n = 0 THEN [parts |-> <<>>, file |-> <<>>, quotas |-> quotas]
          ELSE Visited(built[n - 1], lowers[n])
    IN  built[Len(lowers)]

(* The overlay's entities, as the pass over the overlay finds them. *)
Touched == {p[1] : p \in Map!Pairs(overlay)}

(* Untouched entities of a generation that the quota moves: the first in id order. *)
Drained(g, quota) ==
    LET untouched == {id \in Ids \ Touched : holder[id] = g}
    IN  {id \in untouched : Cardinality({d \in untouched : d < id}) < quota}

(* The manifest that makes the build the root: an index file no partition lists is
   left to cleanup.                                                         *)
published(kept, out) ==
    [generations |-> Append(kept, nextGen), parts |-> out.parts,
     files |-> [g \in Gens |->
                  IF g = nextGen THEN out.file
                  ELSE IF \E b \in DOMAIN out.parts : out.parts[b].file = g
                  THEN root.files[g] ELSE <<>>]]

(* Database::checkpoint: no commit intervenes, so the overlay is empty after it; one
   that fails leaves everything as it was.  The plan counts every table, so for
   one table it may collect any of the generations, and drain one more in part. *)
Checkpoint(absorb, partial, quota) ==
    /\ nextGen <= MaxGen
    /\ LET kept == SelectSeq(root.generations, LAMBDA g : g \notin absorb)
           lowers == Sorted(DOMAIN root.parts \union {bucket(id) : id \in Touched})
           quotas == [s \in 0..Len(kept) |->
                        IF s < Len(kept) /\ kept[s + 1] = partial THEN quota ELSE 0]
       IN  root' = published(kept, build(lowers, rebuild_slots(absorb), Len(kept), nextGen,
                                         quotas))
    /\ LET written == Touched \union Drained(partial, quota)
       IN  holder' = [id \in Ids |-> IF id \in written \/ holder[id] \in absorb
                                     THEN nextGen ELSE holder[id]]
    /\ overlay' = Map!Nil
    /\ nextGen' = nextGen + 1

(* The bound on generations is reached. *)
Finished == nextGen > MaxGen /\ UNCHANGED vars

Next ==
    \/ \E id \in Ids : Commit(id)
    \/ \E absorb \in SUBSET ToSet(root.generations) :
          \/ Checkpoint(absorb, Absent, 0)
          \/ \E partial \in ToSet(root.generations) \ absorb :
                Drained(partial, 1) # {} /\ Checkpoint(absorb, partial, 1)
    \/ Finished

Spec == Init /\ [][Next]_vars

-----------------------------------------------------------------------------
(* The map promises an ordered, balanced tree of what was inserted, and that every
   operation on it returns what it would on a set of keys: get, floor and range
   read it so, insert, remove and retain_from leave such a tree of the right keys. *)
MapAgrees ==
    LET keys == Touched
        Is(t, S) == Map!Sound(t) /\ Map!Pairs(t) = {<<k, k>> : k \in S}
    IN  /\ Is(overlay, keys)
        /\ \A k \in Ids :
              /\ Map!get(overlay, k) = IF k \in keys THEN Map!Some(k, k) ELSE Map!None
              /\ LET below == {j \in keys : j <= k}
                 IN  Map!floor(overlay, k) =
                        IF below = {} THEN Map!None ELSE Map!Some(Max(below), Max(below))
              /\ Is(Map!remove(overlay, k), keys \ {k})
              /\ Is(Map!retain_from(overlay, k), {j \in keys : j >= k})
              /\ \A upper \in k..MaxId :
                    LET found == Map!range(overlay, k, upper)
                    IN  /\ \A i, j \in DOMAIN found : i < j => found[i].key < found[j].key
                        /\ {found[i] : i \in DOMAIN found}
                             = {Map!Some(j, j) : j \in keys \cap (k..upper)}

(* Whatever was carried, moved or renumbered by the checkpoints so far, the index
   sends every id to the generation that holds its record: a lookup, the nearest
   id below, and the merged scan of any range.  Every page it reads decodes. *)
DirectoryAgrees ==
    LET stored == {id \in Ids : holder[id] # Absent}
        all == stored \union Touched
        Gen(slot) == root.generations[slot + 1]
        Finds(entry, id) == entry.found /\ entry.key = id /\ Gen(entry.value) = holder[id]
    IN  /\ \A id \in Ids :
              /\ IF id \in stored THEN Finds(lookup_index(id), id)
                                  ELSE ~lookup_index(id).found
              /\ LET below == {j \in stored : j <= id}
                 IN  IF below = {} THEN ~floor_index(id).found
                                   ELSE Finds(floor_index(id), Max(below))
              /\ \A upper \in id..MaxId :
                    LET seen == visit_entries_range(id, upper)
                        wanted == Sorted({j \in all : j \in id..upper})
                    IN  /\ [i \in DOMAIN seen |-> seen[i].id] = wanted
                        /\ \A i \in DOMAIN seen :
                              IF seen[i].id \in stored
                              THEN Gen(seen[i].slot) = holder[seen[i].id]
                              ELSE seen[i].slot = Absent
        /\ \A b \in DOMAIN root.parts :
              LET file == Tree(root.parts[b])
              IN  \A i \in DOMAIN file : Index!decode(file[i], i - 1)
=============================================================================
