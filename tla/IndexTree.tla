------------------------------ MODULE IndexTree ------------------------------
(***************************************************************************)
(* One index file: immutable B+trees written one after the other, each a   *)
(* metadata page, its chain of leaves and the branches above them.  A page *)
(* of the file is its number and its content; keys are entity ids.         *)
(***************************************************************************)
EXTENDS Integers, Sequences

CONSTANTS LeafCapacity, BranchCapacity    \* entries of a page

Meta(root) == [kind |-> 0, next |-> root, keys |-> <<>>]
Leaf(entries, next) ==
    [kind |-> 1, next |-> next,
     keys |-> [i \in DOMAIN entries |-> entries[i].key],
     values |-> [i \in DOMAIN entries |-> entries[i].value]]
Branch(children) ==
    [kind |-> 2, next |-> 0,
     keys |-> [i \in DOMAIN children |-> children[i].key],
     child |-> [i \in DOMAIN children |-> children[i].id]]

(* The file's pages, numbered from 0. *)
Page(file, id) == file[id + 1]

chunks(s, n) ==
    LET from[i \in Nat] ==
          IF i >= Len(s) THEN <<>>
          ELSE <<SubSeq(s, i + 1, IF i + n < Len(s) THEN i + n ELSE Len(s))>> \o from[i + n]
    IN  from[0]

(* A level names each page below it by its first key. *)
Level(parts, firstId) == [i \in DOMAIN parts |-> [key |-> parts[i][1].key,
                                                  id |-> firstId + i - 1]]

(* IndexWriter::append and flush_leaf: a full leaf is followed by the next page,
   the last one ends the chain.                                             *)
leaves(entries, firstId) ==
    LET parts == chunks(entries, LeafCapacity)
    IN  [i \in DOMAIN parts |->
           Leaf(parts[i], IF i = Len(parts) THEN 0 ELSE firstId + i)]

(* The levels above, until one page is left; the last one written is the root.
   Each is shorter than the one below.                                      *)
branches(level, firstId) ==
    LET above[height \in Nat] ==
          IF height = 0 THEN [level |-> level, next |-> firstId, pages |-> <<>>]
          ELSE LET below == above[height - 1]
                   parts == chunks(below.level, BranchCapacity)
               IN  IF Len(below.level) <= 1 THEN below
                   ELSE [level |-> Level(parts, below.next),
                         next |-> below.next + Len(parts),
                         pages |-> below.pages \o [i \in DOMAIN parts |-> Branch(parts[i])]]
    IN  above[Len(level)].pages

(* finish_part: the file with one more tree, whose metadata page is at its old end. *)
Write(file, entries) ==
    LET base == Len(file)
        low == leaves(entries, base + 1)
        high == branches(Level(chunks(entries, LeafCapacity), base + 1),
                         base + 1 + Len(low))
    IN  file \o <<Meta(base + Len(low) + Len(high))>> \o low \o high

(* Node::decode: what a page must satisfy to be read at all.  A descent only moves
   to smaller page numbers, the chain of leaves only to greater ones.       *)
decode(page, id) ==
    \/ page.kind = 0 /\ (page.next = 0 \/ page.next > id)
    \/ /\ page.kind \in {1, 2}
       /\ Len(page.keys) \in 1..(IF page.kind = 1 THEN LeafCapacity ELSE BranchCapacity)
       /\ \A i \in 1..(Len(page.keys) - 1) : page.keys[i] < page.keys[i + 1]
       /\ page.kind = 2 => \A i \in DOMAIN page.child : page.child[i] \in 1..(id - 1)
       /\ page.kind = 1 => page.next = 0 \/ page.next > id

-----------------------------------------------------------------------------
(* Binary search for the first entry whose key is not below: positions from 0. *)
lower_bound(page, key) ==
    LET bisect[low \in 0..Len(page.keys), high \in 0..Len(page.keys)] ==
          LET middle == low + (high - low) \div 2
          IN  IF low >= high THEN low
              ELSE IF page.keys[middle + 1] < key THEN bisect[middle + 1, high]
              ELSE bisect[low, middle]
    IN  bisect[0, Len(page.keys)]

(* The last entry whose key is not above, -1 for none. *)
floor_index(page, key) ==
    LET index == lower_bound(page, key)
    IN  IF index < Len(page.keys) /\ page.keys[index + 1] = key THEN index ELSE index - 1

(* The leaf that would hold the key, by its number.  Before the first separator the first child
   is taken.                                                                *)
descend(file, base, key) ==
    LET walk[id \in 0..(Len(file) - 1)] ==
          LET page == Page(file, id)
              at == floor_index(page, key)
          IN  IF page.kind = 1 THEN id ELSE walk[page.child[IF at < 0 THEN 1 ELSE at + 1]]
    IN  walk[Page(file, base).next]

Missing == [found |-> FALSE]
Entry(page, index) == [found |-> TRUE, key |-> page.keys[index + 1],
                       value |-> page.values[index + 1]]

lookup_at(file, base, key) ==
    LET leaf == Page(file, descend(file, base, key))
        index == lower_bound(leaf, key)
    IN  IF index < Len(leaf.keys) /\ leaf.keys[index + 1] = key
        THEN Entry(leaf, index) ELSE Missing

floor_at(file, base, key) ==
    LET leaf == Page(file, descend(file, base, key))
        index == floor_index(leaf, key)
    IN  IF index < 0 THEN Missing ELSE Entry(leaf, index)

(* IndexCursor::next from a position on: the rest of a leaf, then the next one. *)
advance(file, start, position, upper) ==
    LET from[id \in 0..(Len(file) - 1), at \in 0..LeafCapacity] ==
          LET leaf == Page(file, id)
          IN  IF at = Len(leaf.keys)
              THEN IF leaf.next = 0 THEN <<>> ELSE from[leaf.next, 0]
              ELSE IF leaf.keys[at + 1] > upper THEN <<>>
              ELSE <<Entry(leaf, at)>> \o from[id, at + 1]
    IN  from[start, position]

scan_at(file, base, lower, upper) ==
    LET leaf == descend(file, base, lower)
    IN  advance(file, leaf, lower_bound(Page(file, leaf), lower), upper)
=============================================================================
