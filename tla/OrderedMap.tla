------------------------------ MODULE OrderedMap ------------------------------
(***************************************************************************)
(* The persistent ordered map behind the overlay, an entity's events and   *)
(* its snapshots: AVL nodes that are never changed, an update builds the   *)
(* nodes of its search path anew.                                          *)
(***************************************************************************)
EXTENDS Integers, Sequences, FiniteSets

None == [found |-> FALSE]
Some(key, value) == [found |-> TRUE, key |-> key, value |-> value]

(* A missing link has height 0, as height() gives it. *)
Nil == [height |-> 0]

node(key, value, left, right) ==
    [key |-> key, value |-> value, left |-> left, right |-> right,
     height |-> 1 + IF left.height > right.height THEN left.height ELSE right.height]

rotate_left(t) ==
    LET pivot == t.right
    IN  node(pivot.key, pivot.value,
             node(t.key, t.value, t.left, pivot.left), pivot.right)

rotate_right(t) ==
    LET pivot == t.left
    IN  node(pivot.key, pivot.value,
             pivot.left, node(t.key, t.value, pivot.right, t.right))

(* Mutant: one rotation, whichever grandchild is the tall one. *)
balance_once(t) ==
    CASE t.left.height > t.right.height + 1 -> rotate_right(t)
      [] t.right.height > t.left.height + 1 -> rotate_left(t)
      [] OTHER -> t

balance(t) ==
    CASE t.left.height > t.right.height + 1 ->
            rotate_right(
               IF t.left.right.height > t.left.left.height
               THEN node(t.key, t.value, rotate_left(t.left), t.right)
               ELSE t)
      [] t.right.height > t.left.height + 1 ->
            rotate_left(
               IF t.right.left.height > t.right.right.height
               THEN node(t.key, t.value, t.left, rotate_right(t.right))
               ELSE t)
      [] OTHER -> t

(* Every link of the tree, level by level: itself, the nodes below, and Nil.  The
   stored heights bound the levels.  The recursion of the code on subtrees is a
   function on the links.                                                   *)
links(t) ==
    LET level[d \in Nat] ==
          IF d = 0 THEN {t}
          ELSE LET above == level[d - 1] \ {Nil}
               IN  {n.left : n \in above} \union {n.right : n \in above}
    IN  UNION {level[d] : d \in 0..t.height}

insert(t, key, value) ==
    LET into[n \in links(t)] ==
          IF n = Nil THEN node(key, value, Nil, Nil)
          ELSE balance(
                 IF key < n.key THEN node(n.key, n.value, into[n.left], n.right)
                 ELSE IF key > n.key THEN node(n.key, n.value, n.left, into[n.right])
                 ELSE node(key, value, n.left, n.right))
    IN  into[t]

(* Joins two trees of any heights around an entry between them. *)
join(left, key, value, right) ==
    LET joined[p \in links(left) \X links(right)] ==
          LET l == p[1]
              r == p[2]
          IN  IF l.height > r.height + 1
              THEN balance(node(l.key, l.value, l.left, joined[<<l.right, r>>]))
              ELSE IF r.height > l.height + 1
              THEN balance(node(r.key, r.value, joined[<<l, r.left>>], r.right))
              ELSE node(key, value, l, r)
    IN  joined[<<left, right>>]

first(t) ==
    LET leftmost[n \in links(t)] == IF n = Nil THEN n
                                    ELSE IF n.left = Nil THEN n ELSE leftmost[n.left]
    IN  leftmost[t]

(* The successor of a removed entry takes its place. *)
remove(t, key) ==
    LET without[n \in links(t)] == [k \in Int |->
          IF n = Nil THEN Nil
          ELSE IF k < n.key THEN join(without[n.left][k], n.key, n.value, n.right)
          ELSE IF k > n.key THEN join(n.left, n.key, n.value, without[n.right][k])
          ELSE IF n.right = Nil THEN n.left
          ELSE LET least == first(n.right)
               IN  join(n.left, least.key, least.value, without[n.right][least.key])]
    IN  without[t][key]

retain_from(t, key) ==
    LET from[n \in links(t)] ==
          IF n = Nil THEN Nil
          ELSE IF n.key < key THEN from[n.right]
          ELSE join(from[n.left], n.key, n.value, n.right)
    IN  from[t]

-----------------------------------------------------------------------------
get(t, key) ==
    LET found[n \in links(t)] ==
          IF n = Nil THEN None
          ELSE IF key < n.key THEN found[n.left]
          ELSE IF key > n.key THEN found[n.right]
          ELSE Some(n.key, n.value)
    IN  found[t]

(* The last entry on the way down that is not above the key. *)
floor(t, key) ==
    LET result[n \in links(t)] ==
          IF n = Nil THEN None
          ELSE IF n.key <= key
          THEN IF result[n.right].found THEN result[n.right] ELSE Some(n.key, n.value)
          ELSE result[n.left]
    IN  result[t]

(* The stack of a Range: nodes still to visit, the next one last. *)
descend_left(t) ==
    LET stack[n \in links(t)] == IF n = Nil THEN <<>> ELSE <<n>> \o stack[n.left]
    IN  stack[t]

seek(t, lower) ==
    LET stack[n \in links(t)] ==
          IF n = Nil THEN <<>>
          ELSE IF n.key < lower THEN stack[n.right]
          ELSE <<n>> \o stack[n.left]
    IN  stack[t]

(* Range::next: the top of the stack, unless it is beyond the end. *)
next(state, upper) ==
    IF state.stack = <<>> THEN state
    ELSE LET rest == Len(state.stack) - 1
             top == state.stack[rest + 1]
         IN  IF top.key > upper THEN [stack |-> <<>>, out |-> state.out]
             ELSE [stack |-> SubSeq(state.stack, 1, rest) \o descend_left(top.right),
                   out |-> Append(state.out, Some(top.key, top.value))]

(* range(lower..=upper), collected; an excluded bound of a whole key is the next
   one.  Every call but the last takes a node of the tree off the stack.    *)
range(t, lower, upper) ==
    LET after[calls \in Nat] ==
          IF calls = 0 THEN [stack |-> seek(t, lower), out |-> <<>>]
          ELSE next(after[calls - 1], upper)
    IN  after[Cardinality(links(t))].out

-----------------------------------------------------------------------------
(* What the tree stands for, and what keeps its paths short. *)

Pairs(t) == {<<n.key, n.value>> : n \in links(t) \ {Nil}}

Sound(t) ==
    \A n \in links(t) \ {Nil} :
      /\ \A p \in Pairs(n.left) : p[1] < n.key
      /\ \A p \in Pairs(n.right) : n.key < p[1]
      /\ n.left.height - n.right.height \in {-1, 0, 1}
      /\ n.height = 1 + IF n.left.height > n.right.height
                        THEN n.left.height ELSE n.right.height
=============================================================================
