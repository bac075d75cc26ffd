--------------------------- MODULE DirectoryProofs ---------------------------
(***************************************************************************)
(* The ordered map of the overlay, for trees of every size: what each of   *)
(* its operations returns and leaves, and that the overlay agrees with the *)
(* set of entities that commits touched.                                   *)
(*                                                                         *)
(* The operations recurse on subtrees, as functions on the links of a      *)
(* tree.  That such a function exists and obeys its recursion is proved    *)
(* once, for any step that looks only at links of a smaller measure.       *)
(***************************************************************************)
EXTENDS Directory, FiniteSetTheorems, SequenceTheorems, WellFoundedInduction, TLAPS

(* A set of naturals that is not empty has a least element. *)
LEMMA LeastNatural ==
  ASSUME NEW T, T \subseteq Nat, T # {}
  PROVE  \E x \in T : \A y \in T : x <= y
<1> DEFINE R == {ss \in Nat \X Nat : ss[1] < ss[2]}
<1>1. IsWellFoundedOn(R, Nat)
  BY NatLessThanWellFounded DEF OpToRel
<1>2. PICK x \in T : \A y \in T : ~ (<<y, x>> \in R)
  <2> HIDE DEF R
  <2> QED
    BY <1>1, WFMin
<1>3. ASSUME NEW y \in T PROVE x <= y
  <2>1. x \in Nat /\ y \in Nat
    OBVIOUS
  <2>2. ASSUME y < x PROVE <<y, x>> \in R
    BY <2>1, <2>2
  <2> QED
    BY <1>2, <2>1, <2>2
<1> QED
  BY <1>3

-----------------------------------------------------------------------------
(* Recursion.  What is repeated a number of times, and what is computed for a
   subtree from its children, exists whatever the step is.                  *)

Children(S) == {n.left : n \in S \ {Map!Nil}} \union {n.right : n \in S \ {Map!Nil}}

(* What is repeated: a level of a tree, or a call of a range.              *)
Repeated(what, x, a) == IF what = "level" THEN Children(x) ELSE Map!next(x, a)

RunStep(f, what, start, a, d) == IF d = 0 THEN start ELSE Repeated(what, f[d - 1], a)
Runs(f, what, start, a) == f = [d \in Nat |-> RunStep(f, what, start, a, d)]
RunsTo(f, what, start, a, h) == \A d \in 0 .. h : f[d] = RunStep(f, what, start, a, d)

(* Two runs of the same repetition agree as far as both go. *)
LEMMA RunsAgree ==
  ASSUME NEW what, NEW start, NEW a, NEW h \in Nat, NEW f, NEW g, NEW i \in Nat,
         RunsTo(f, what, start, a, h), RunsTo(g, what, start, a, i)
  PROVE  \A d \in Nat : d <= h /\ d <= i => f[d] = g[d]
<1> DEFINE Bad == {d \in Nat : d <= h /\ d <= i /\ f[d] # g[d]}
<1> SUFFICES ASSUME Bad # {} PROVE FALSE
  OBVIOUS
<1>1. Bad \subseteq Nat
  OBVIOUS
<1>2. PICK d \in Bad : \A e \in Bad : d <= e
  <2> HIDE DEF Bad
  <2> QED
    BY <1>1, LeastNatural
<1>3. d \in Nat /\ d <= h /\ d <= i /\ f[d] # g[d] /\ d \in 0 .. h /\ d \in 0 .. i
  OBVIOUS
<1>4. f[d] = RunStep(f, what, start, a, d) /\ g[d] = RunStep(g, what, start, a, d)
  BY <1>3 DEF RunsTo
<1>5. d # 0
  BY <1>3, <1>4 DEF RunStep
<1>6. PICK e \in Nat : e = d - 1 /\ e <= h /\ e <= i /\ ~(d <= e)
  BY <1>3, <1>5
<1>7. f[e] = g[e]
  BY <1>2, <1>6
<1> QED
  BY <1>3, <1>4, <1>6, <1>7 DEF RunStep

(* A repetition can be run any number of times. *)
LEMMA RunsToAny ==
  ASSUME NEW what, NEW start, NEW a, NEW h \in Nat
  PROVE  \E f : RunsTo(f, what, start, a, h)
<1> DEFINE Bad == {i \in Nat : ~ \E f : RunsTo(f, what, start, a, i)}
<1> SUFFICES ASSUME Bad # {} PROVE FALSE
  OBVIOUS
<1>1. Bad \subseteq Nat
  OBVIOUS
<1>2. PICK i \in Bad : \A e \in Bad : i <= e
  <2> HIDE DEF Bad
  <2> QED
    BY <1>1, LeastNatural
<1>3. i \in Nat /\ ~ \E f : RunsTo(f, what, start, a, i)
  OBVIOUS
<1>4. CASE i = 0
  <2> DEFINE f == [d \in Nat |-> start]
  <2>1. RunsTo(f, what, start, a, 0)
    BY DEF RunsTo, RunStep
  <2> QED
    BY <1>3, <1>4, <2>1
<1>5. CASE i # 0
  <2>1. PICK e \in Nat : e = i - 1 /\ ~(i <= e)
    BY <1>3, <1>5
  <2>2. PICK f : RunsTo(f, what, start, a, e)
    BY <1>2, <2>1
  <2> DEFINE g == [d \in Nat |-> IF d < i THEN f[d] ELSE Repeated(what, f[e], a)]
  <2>3. ASSUME NEW d \in 0 .. i PROVE g[d] = RunStep(g, what, start, a, d)
    <3>1. CASE d = i
      <4>1. d \in Nat /\ ~(d < i) /\ e < i /\ d - 1 = e /\ d # 0
        BY <1>3, <1>5, <2>1, <3>1
      <4>2. g[d] = Repeated(what, f[e], a) /\ g[e] = f[e]
        BY <4>1
      <4> HIDE DEF g
      <4> QED
        BY <4>1, <4>2 DEF RunStep
    <3>2. CASE d < i
      <4>1. d \in 0 .. e /\ d \in Nat /\ g[d] = f[d]
        BY <1>3, <2>1, <3>2
      <4>2. f[d] = RunStep(f, what, start, a, d)
        BY <2>2, <4>1 DEF RunsTo
      <4>3. d # 0 => g[d - 1] = f[d - 1]
        BY <1>3, <3>2, <4>1
      <4> HIDE DEF g
      <4> QED
        BY <4>1, <4>2, <4>3 DEF RunStep
    <3> QED
      BY <1>3, <3>1, <3>2
  <2>4. RunsTo(g, what, start, a, i)
    <3> HIDE DEF g
    <3> QED
      BY <2>3 DEF RunsTo
  <2> QED
    BY <1>3, <2>4
<1> QED
  BY <1>4, <1>5

(* A repetition can be run for ever: the runs of every length are one
   function. *)
LEMMA RunExists ==
  ASSUME NEW what, NEW start, NEW a
  PROVE  \E f : Runs(f, what, start, a)
<1> DEFINE P(h) == CHOOSE f : RunsTo(f, what, start, a, h)
<1> DEFINE r == [d \in Nat |-> P(d)[d]]
<1>1. ASSUME NEW h \in Nat PROVE RunsTo(P(h), what, start, a, h)
  BY RunsToAny
<1>2. ASSUME NEW d \in Nat PROVE P(d)[d] = RunStep(r, what, start, a, d)
  <2>1. P(d)[d] = RunStep(P(d), what, start, a, d)
    <3>1. d \in 0 .. d
      OBVIOUS
    <3> QED
      BY <1>1, <3>1 DEF RunsTo
  <2>2. ASSUME d # 0 PROVE P(d)[d - 1] = r[d - 1]
    <3>1. PICK e \in Nat : e = d - 1 /\ e <= d /\ e <= e
      BY <2>2
    <3>2. RunsTo(P(d), what, start, a, d) /\ RunsTo(P(e), what, start, a, e)
      BY <1>1
    <3>3. r[e] = P(e)[e]
      OBVIOUS
    <3> HIDE DEF P
    <3>4. P(d)[e] = P(e)[e]
      BY <3>1, <3>2, RunsAgree
    <3> HIDE DEF r
    <3> QED
      BY <3>1, <3>3, <3>4
  <2> HIDE DEF P, r
  <2> QED
    BY <2>1, <2>2 DEF RunStep
<1>3. Runs(r, what, start, a)
  <2>1. r = [d \in Nat |-> RunStep(r, what, start, a, d)]
    <3>1. [d \in Nat |-> P(d)[d]] = [d \in Nat |-> RunStep(r, what, start, a, d)]
      <4> HIDE DEF P, r
      <4> QED
        BY <1>2
    <3> QED
      BY <3>1, Zenon
  <2> HIDE DEF r
  <2> QED
    BY <2>1 DEF Runs
<1> QED
  BY <1>3

(* Its values, from the first on. *)
LEMMA RunIs ==
  ASSUME NEW what, NEW start, NEW a, NEW f, Runs(f, what, start, a)
  PROVE  f[0] = start /\ \A d \in Nat : f[d + 1] = Repeated(what, f[d], a)
<1>1. ASSUME NEW d \in Nat PROVE f[d] = RunStep(f, what, start, a, d)
  <2> DEFINE g == [i \in Nat |-> RunStep(f, what, start, a, i)]
  <2>1. f = g
    BY Zenon DEF Runs
  <2>2. g[d] = RunStep(f, what, start, a, d)
    OBVIOUS
  <2> QED
    BY <2>1, <2>2, Zenon
<1>2. f[0] = start
  BY <1>1 DEF RunStep
<1>3. ASSUME NEW d \in Nat PROVE f[d + 1] = Repeated(what, f[d], a)
  <2>1. PICK e \in Nat : e = d + 1 /\ e # 0 /\ e - 1 = d
    OBVIOUS
  <2> QED
    BY <1>1, <2>1 DEF RunStep
<1> QED
  BY <1>2, <1>3

-----------------------------------------------------------------------------
(* Trees. *)

Level(t) == CHOOSE f : Runs(f, "level", {t}, {})

(* The levels of a tree: the tree itself, then the children of each
   level. *)
LEMMA LevelIs ==
  ASSUME NEW t
  PROVE  Level(t)[0] = {t} /\ \A d \in Nat : Level(t)[d + 1] = Children(Level(t)[d])
<1>1. Runs(Level(t), "level", {t}, {})
  BY RunExists DEF Level
<1>2. Level(t)[0] = {t} /\ \A d \in Nat : Level(t)[d + 1] = Repeated("level", Level(t)[d], {})
  BY <1>1, RunIs
<1> QED
  BY <1>2 DEF Repeated

(* The links of a tree are the links of its levels down to its height. *)
LEMMA LinksAre ==
  ASSUME NEW t
  PROVE  Map!links(t) = UNION {Level(t)[d] : d \in 0 .. t.height}
<1> DEFINE Lit(f) == f = [d \in Nat |-> IF d = 0 THEN {t}
                            ELSE LET above == f[d - 1] \ {Map!Nil}
                                 IN  {n.left : n \in above} \union {n.right : n \in above}]
<1>1. ASSUME NEW f PROVE Lit(f) <=> Runs(f, "level", {t}, {})
  BY Zenon DEF Runs, RunStep, Repeated, Children
<1>2. Map!links(t) = UNION {(CHOOSE f : Lit(f))[d] : d \in 0 .. t.height}
  BY Zenon DEF Map!links
<1>3. (CHOOSE f : Lit(f)) = Level(t)
  <2> HIDE DEF Lit
  <2> QED
    BY <1>1, Zenon DEF Level
<1> HIDE DEF Lit
<1> QED
  BY <1>2, <1>3, Zenon

(* A node in its place: its height is right, its subtrees differ by at most one
   and are on the right sides of its key.                                   *)
Good(n) ==
  /\ n # Map!Nil
  /\ n.key \in Int
  /\ n.left.height \in Nat /\ n.right.height \in Nat
  /\ n.height = 1 + IF n.left.height > n.right.height THEN n.left.height ELSE n.right.height
  /\ n.left.height - n.right.height \in {-1, 0, 1}
  /\ \A m \in Map!links(n.left) \ {Map!Nil} : m.key < n.key
  /\ \A m \in Map!links(n.right) \ {Map!Nil} : n.key < m.key

AVL(t) == t.height \in Nat /\ \A n \in Map!links(t) : n = Map!Nil \/ Good(n)

(* A missing link has height 0. *)
LEMMA NilHeight == Map!Nil.height = 0
  BY DEF Map!Nil

(* Both subtrees of a good node are lower than it, by two levels at most. *)
LEMMA GoodHeights ==
  ASSUME NEW n, Good(n)
  PROVE  /\ n.height \in Nat /\ n.height >= 1
         /\ n.left.height \in Nat /\ n.left.height + 1 <= n.height
         /\ n.right.height \in Nat /\ n.right.height + 1 <= n.height
         /\ n.height <= n.left.height + 2 /\ n.height <= n.right.height + 2
         /\ n.height = n.left.height + 1 \/ n.height = n.right.height + 1
  BY DEF Good

(* A tree is one of its links. *)
LEMMA TopLink ==
  ASSUME NEW t, t.height \in Nat
  PROVE  t \in Map!links(t)
<1>1. 0 \in 0 .. t.height
  OBVIOUS
<1> QED
  BY <1>1, LevelIs, LinksAre

(* The height of a tree bounds the depth of its links.                     *)
LEMMA LinkDepth ==
  ASSUME NEW t, AVL(t), NEW d \in Nat, NEW n \in Level(t)[d]
  PROVE  /\ n \in Map!links(t) /\ d <= t.height
         /\ n.height \in Nat /\ n.height + d <= t.height
<1> DEFINE Fits(e) == \A m \in Level(t)[e] : /\ m \in Map!links(t) /\ e <= t.height
                                             /\ m.height \in Nat /\ m.height + e <= t.height
<1> DEFINE Bad == {e \in Nat : ~ Fits(e)}
<1> SUFFICES ASSUME Bad # {} PROVE FALSE
  OBVIOUS
<1>0. t.height \in Nat
  BY DEF AVL
<1>1. Bad \subseteq Nat
  OBVIOUS
<1>2. PICK e \in Bad : \A c \in Bad : e <= c
  <2> HIDE DEF Bad
  <2> QED
    BY <1>1, LeastNatural
<1>3. e \in Nat /\ ~ Fits(e)
  OBVIOUS
<1>4. e # 0
  <2>1. Fits(0)
    BY <1>0, LevelIs, TopLink
  <2> HIDE DEF Fits
  <2> QED
    BY <1>3, <2>1
<1>5. PICK c \in Nat : e = c + 1
  <2>1. e - 1 \in Nat /\ e = (e - 1) + 1
    BY <1>3, <1>4
  <2> QED
    BY <2>1
<1>6. Fits(c)
  <2>1. c \notin Bad
    BY <1>2, <1>5
  <2> QED
    BY <2>1
<1>7. ASSUME NEW m \in Level(t)[e]
      PROVE  m \in Map!links(t) /\ e <= t.height /\ m.height \in Nat /\ m.height + e <= t.height
  <2>1. PICK n0 \in Level(t)[c] : n0 # Map!Nil /\ (m = n0.left \/ m = n0.right)
    BY <1>5, LevelIs DEF Children
  <2>2. n0 \in Map!links(t) /\ n0.height \in Nat /\ n0.height + c <= t.height
    BY <1>6
  <2>3. Good(n0)
    BY <2>1, <2>2 DEF AVL
  <2>4. m.height \in Nat /\ m.height + 1 <= n0.height
    BY <2>1, <2>3, GoodHeights
  <2>5. e <= t.height /\ m.height + e <= t.height
    BY <1>0, <1>5, <2>2, <2>4
  <2>6. e \in 0 .. t.height
    BY <1>0, <1>3, <2>5
  <2>7. m \in Map!links(t)
    BY <2>6, LinksAre
  <2> QED
    BY <2>4, <2>5, <2>7
<1>8. Fits(e)
  BY <1>7
<1> HIDE DEF Fits
<1> QED
  BY <1>3, <1>8

(* A link of a tree is on one of its levels. *)
LEMMA LinkLevel ==
  ASSUME NEW t, NEW n \in Map!links(t), t.height \in Nat
  PROVE  \E d \in Nat : d <= t.height /\ n \in Level(t)[d]
<1>1. PICK d \in 0 .. t.height : n \in Level(t)[d]
  BY LinksAre
<1> QED
  BY <1>1

(* The children of a link are links.                                       *)
LEMMA ChildLinks ==
  ASSUME NEW t, AVL(t), NEW n \in Map!links(t), n # Map!Nil
  PROVE  n.left \in Map!links(t) /\ n.right \in Map!links(t)
<1>1. PICK d \in Nat : n \in Level(t)[d]
  BY LinkLevel DEF AVL
<1>2. n.left \in Level(t)[d + 1] /\ n.right \in Level(t)[d + 1]
  BY <1>1, LevelIs DEF Children
<1>3. d + 1 \in Nat
  OBVIOUS
<1> QED
  BY <1>2, <1>3, LinkDepth

(* The links of a link are links: a subtree is a tree.                     *)
LEMMA LinksOfLinks ==
  ASSUME NEW t, AVL(t), NEW n \in Map!links(t)
  PROVE  Map!links(n) \subseteq Map!links(t) /\ AVL(n)
<1>1. PICK d \in Nat : n \in Level(t)[d]
  BY LinkLevel DEF AVL
<1>2. n.height \in Nat
  BY <1>1, LinkDepth
<1> DEFINE Under(e) == Level(n)[e] \subseteq Level(t)[d + e]
<1> DEFINE Bad == {e \in Nat : ~ Under(e)}
<1>3. Bad = {}
  <2> SUFFICES ASSUME Bad # {} PROVE FALSE
    OBVIOUS
  <2>1. Bad \subseteq Nat
    OBVIOUS
  <2>2. PICK e \in Bad : \A c \in Bad : e <= c
    <3> HIDE DEF Bad
    <3> QED
      BY <2>1, LeastNatural
  <2>3. e \in Nat /\ ~ Under(e)
    OBVIOUS
  <2>4. e # 0
    <3>1. d + 0 = d
      OBVIOUS
    <3>2. Level(n)[0] \subseteq Level(t)[d + 0]
      BY <1>1, <3>1, LevelIs
    <3> QED
      BY <2>3, <3>2
  <2>5. PICK c \in Nat : e = c + 1
    <3>1. e - 1 \in Nat /\ e = (e - 1) + 1
      BY <2>3, <2>4
    <3> QED
      BY <3>1
  <2>6. Level(n)[c] \subseteq Level(t)[d + c]
    <3>1. c \notin Bad
      BY <2>2, <2>5
    <3> QED
      BY <3>1
  <2>7. PICK k \in Nat : k = d + c /\ d + e = k + 1
    BY <2>5
  <2>8. Children(Level(n)[c]) \subseteq Children(Level(t)[k])
    BY <2>6, <2>7 DEF Children
  <2>9. Level(n)[e] \subseteq Level(t)[d + e]
    <3>1. Level(n)[e] = Children(Level(n)[c])
      BY <2>5, LevelIs
    <3>2. Level(t)[d + e] = Children(Level(t)[k])
      BY <2>7, LevelIs
    <3> QED
      BY <2>8, <3>1, <3>2
  <2> QED
    BY <2>3, <2>9
<1>4. ASSUME NEW m \in Map!links(n) PROVE m \in Map!links(t)
  <2>1. PICK e \in Nat : m \in Level(n)[e]
    BY <1>2, LinkLevel
  <2>2. m \in Level(t)[d + e] /\ d + e \in Nat
    BY <1>3, <2>1
  <2> QED
    BY <2>2, LinkDepth
<1> QED
  BY <1>2, <1>4 DEF AVL

-----------------------------------------------------------------------------
(* A tree is its entry and its two subtrees. *)

Below(t, key) == \A p \in Map!Pairs(t) : p[1] < key
Above(t, key) == \A p \in Map!Pairs(t) : key < p[1]

(* A level of a tree is made of the levels above it in its two subtrees. *)
LEMMA LevelShift ==
  ASSUME NEW t, t # Map!Nil, NEW d \in Nat
  PROVE  Level(t)[d + 1] = Level(t.left)[d] \union Level(t.right)[d]
<1> DEFINE Shifts(e) == Level(t)[e + 1] = Level(t.left)[e] \union Level(t.right)[e]
<1> DEFINE Bad == {e \in Nat : ~ Shifts(e)}
<1> SUFFICES ASSUME Bad # {} PROVE FALSE
  OBVIOUS
<1>1. Bad \subseteq Nat
  OBVIOUS
<1>2. PICK e \in Bad : \A c \in Bad : e <= c
  <2> HIDE DEF Bad
  <2> QED
    BY <1>1, LeastNatural
<1>3. e \in Nat /\ ~ Shifts(e)
  OBVIOUS
<1>4. CASE e = 0
  <2>1. Level(t)[0] = {t} /\ Level(t.left)[0] = {t.left} /\ Level(t.right)[0] = {t.right}
    BY LevelIs
  <2>2. 0 \in Nat
    OBVIOUS
  <2>3. Level(t)[0 + 1] = Children({t})
    <3>1. Level(t)[0 + 1] = Children(Level(t)[0])
      BY <2>2, LevelIs
    <3> QED
      BY <2>1, <3>1
  <2>4. Children({t}) = {t.left, t.right}
    BY DEF Children
  <2> QED
    BY <1>3, <1>4, <2>1, <2>3, <2>4
<1>5. CASE e # 0
  <2>1. PICK c \in Nat : e = c + 1
    <3>1. e - 1 \in Nat /\ e = (e - 1) + 1
      BY <1>3, <1>5
    <3> QED
      BY <3>1
  <2>2. Level(t)[e] = Level(t.left)[c] \union Level(t.right)[c]
    <3>1. c \notin Bad
      BY <1>2, <2>1
    <3> QED
      BY <2>1, <3>1
  <2>3. Level(t)[e + 1] = Children(Level(t)[e])
    BY <1>3, LevelIs
  <2>4. Level(t.left)[e] = Children(Level(t.left)[c])
    BY <2>1, LevelIs
  <2>5. Level(t.right)[e] = Children(Level(t.right)[c])
    BY <2>1, LevelIs
  <2>6. ASSUME NEW A, NEW B
        PROVE  Children(A \union B) = Children(A) \union Children(B)
    BY DEF Children
  <2>7. Children(Level(t)[e]) = Children(Level(t.left)[c]) \union Children(Level(t.right)[c])
    BY <2>2, <2>6
  <2> QED
    BY <1>3, <2>3, <2>4, <2>5, <2>7
<1> QED
  BY <1>4, <1>5

(* The links of a node are itself and those of its subtrees. *)
LEMMA LinksSplit ==
  ASSUME NEW t, t # Map!Nil, t.height \in Nat, AVL(t.left), AVL(t.right),
         t.left.height + 1 <= t.height, t.right.height + 1 <= t.height
  PROVE  Map!links(t) = {t} \union Map!links(t.left) \union Map!links(t.right)
<1>1. t.left.height \in Nat /\ t.right.height \in Nat
  BY DEF AVL
<1>2. ASSUME NEW n \in Map!links(t)
      PROVE  n \in {t} \union Map!links(t.left) \union Map!links(t.right)
  <2>1. PICK d \in Nat : d <= t.height /\ n \in Level(t)[d]
    BY LinkLevel
  <2>2. CASE d = 0
    BY <2>1, <2>2, LevelIs
  <2>3. CASE d # 0
    <3>1. PICK c \in Nat : d = c + 1
      <4>1. d - 1 \in Nat /\ d = (d - 1) + 1
        BY <2>1, <2>3
      <4> QED
        BY <4>1
    <3>2. n \in Level(t.left)[c] \/ n \in Level(t.right)[c]
      BY <2>1, <3>1, LevelShift
    <3> QED
      BY <3>2, LinkDepth
  <2> QED
    BY <2>2, <2>3
<1>3. t \in Map!links(t)
  BY TopLink
<1>4. ASSUME NEW s \in {t.left, t.right}, NEW n \in Map!links(s) PROVE n \in Map!links(t)
  <2>1. s.height \in Nat /\ s.height + 1 <= t.height
    BY <1>1
  <2>2. PICK c \in Nat : c <= s.height /\ n \in Level(s)[c]
    BY <2>1, LinkLevel
  <2>3. c + 1 \in 0 .. t.height
    BY <2>1, <2>2
  <2>4. n \in Level(t)[c + 1]
    BY <2>2, LevelShift
  <2> QED
    BY <2>3, <2>4, LinksAre
<1> QED
  BY <1>2, <1>3, <1>4

(* The empty tree is an AVL tree without entries. *)
LEMMA NilTree == AVL(Map!Nil) /\ Map!links(Map!Nil) = {Map!Nil} /\ Map!Pairs(Map!Nil) = {}
<1>1. Map!links(Map!Nil) = {Map!Nil}
  <2>1. ASSUME NEW n \in Map!links(Map!Nil) PROVE n = Map!Nil
    <3>1. PICK d \in Nat : d <= 0 /\ n \in Level(Map!Nil)[d]
      BY LinkLevel, NilHeight
    <3>2. d = 0
      BY <3>1
    <3> QED
      BY <3>1, <3>2, LevelIs
  <2>2. Map!Nil \in Map!links(Map!Nil)
    BY TopLink, NilHeight
  <2> QED
    BY <2>1, <2>2
<1>2. AVL(Map!Nil)
  BY <1>1, NilHeight DEF AVL
<1> QED
  BY <1>1, <1>2 DEF Map!Pairs

(* The entries of a node are its own and those of its subtrees. *)
LEMMA SplitPairs ==
  ASSUME NEW t, t # Map!Nil, Map!links(t) = {t} \union Map!links(t.left) \union Map!links(t.right)
  PROVE  Map!Pairs(t) = Map!Pairs(t.left) \union {<<t.key, t.value>>} \union Map!Pairs(t.right)
  BY DEF Map!Pairs

(* The sides of a node, by keys of links or of entries. *)
LEMMA Sides ==
  ASSUME NEW t, NEW key
  PROVE  /\ Below(t, key) <=> \A m \in Map!links(t) \ {Map!Nil} : m.key < key
         /\ Above(t, key) <=> \A m \in Map!links(t) \ {Map!Nil} : key < m.key
<1>1. Below(t, key) => \A m \in Map!links(t) \ {Map!Nil} : m.key < key
  <2>1. ASSUME Below(t, key), NEW m \in Map!links(t) \ {Map!Nil} PROVE m.key < key
    <3>1. <<m.key, m.value>> \in Map!Pairs(t)
      BY DEF Map!Pairs
    <3>2. <<m.key, m.value>>[1] < key
      BY <2>1, <3>1 DEF Below
    <3> QED
      BY <3>2
  <2> QED
    BY <2>1
<1>2. Above(t, key) => \A m \in Map!links(t) \ {Map!Nil} : key < m.key
  <2>1. ASSUME Above(t, key), NEW m \in Map!links(t) \ {Map!Nil} PROVE key < m.key
    <3>1. <<m.key, m.value>> \in Map!Pairs(t)
      BY DEF Map!Pairs
    <3>2. key < <<m.key, m.value>>[1]
      BY <2>1, <3>1 DEF Above
    <3> QED
      BY <3>2
  <2> QED
    BY <2>1
<1>3. (\A m \in Map!links(t) \ {Map!Nil} : m.key < key) => Below(t, key)
  BY DEF Below, Map!Pairs
<1>4. (\A m \in Map!links(t) \ {Map!Nil} : key < m.key) => Above(t, key)
  BY DEF Above, Map!Pairs
<1> QED
  BY <1>1, <1>2, <1>3, <1>4

(* The heights of a node over two trees. *)
Height(h, l, r) == h = 1 + IF l.height > r.height THEN l.height ELSE r.height
Even(l, r) == l.height - r.height \in {-1, 0, 1}
Between(l, key, r) == key \in Int /\ Below(l, key) /\ Above(r, key)

(* An AVL tree that is not empty: two AVL trees with their entries on the
   right sides and heights that differ by one at most. *)
LEMMA OpenTree ==
  ASSUME NEW t, AVL(t), t # Map!Nil
  PROVE  /\ AVL(t.left) /\ AVL(t.right)
         /\ Between(t.left, t.key, t.right)
         /\ Even(t.left, t.right) /\ Height(t.height, t.left, t.right)
         /\ Map!links(t) = {t} \union Map!links(t.left) \union Map!links(t.right)
         /\ Map!Pairs(t) = Map!Pairs(t.left) \union {<<t.key, t.value>>} \union Map!Pairs(t.right)
         /\ t.height \in Nat /\ t.height >= 1 /\ t.left.height \in Nat /\ t.right.height \in Nat
         /\ t.left.height + 1 <= t.height /\ t.right.height + 1 <= t.height
<1>1. t.height \in Nat /\ t \in Map!links(t)
  BY TopLink DEF AVL
<1>2. Good(t)
  BY <1>1 DEF AVL
<1>3. AVL(t.left) /\ AVL(t.right)
  BY <1>1, ChildLinks, LinksOfLinks
<1>4. /\ t.left.height + 1 <= t.height /\ t.right.height + 1 <= t.height
      /\ t.height >= 1 /\ t.left.height \in Nat /\ t.right.height \in Nat
  BY <1>2, GoodHeights
<1>5. Map!links(t) = {t} \union Map!links(t.left) \union Map!links(t.right)
  BY <1>1, <1>3, <1>4, LinksSplit
<1>6. Map!Pairs(t) = Map!Pairs(t.left) \union {<<t.key, t.value>>} \union Map!Pairs(t.right)
  BY <1>5, SplitPairs
<1>7. Between(t.left, t.key, t.right)
  BY <1>2, Sides DEF Between, Good
<1>8. Even(t.left, t.right) /\ Height(t.height, t.left, t.right)
  BY <1>2 DEF Good, Even, Height
<1> QED
  BY <1>1, <1>3, <1>4, <1>5, <1>6, <1>7, <1>8

(* The fields of a node that node() makes. *)
LEMMA NodeFields ==
  ASSUME NEW k, NEW v, NEW l, NEW r
  PROVE  /\ Map!node(k, v, l, r).key = k /\ Map!node(k, v, l, r).value = v
         /\ Map!node(k, v, l, r).left = l /\ Map!node(k, v, l, r).right = r
         /\ Height(Map!node(k, v, l, r).height, l, r)
         /\ Map!node(k, v, l, r) # Map!Nil
<1>1. Height(Map!node(k, v, l, r).height, l, r)
  BY DEF Map!node, Height
<1>2. Map!node(k, v, l, r) # Map!Nil
  <2>1. DOMAIN Map!node(k, v, l, r) # DOMAIN Map!Nil
    BY DEF Map!node, Map!Nil
  <2> QED
    BY <2>1
<1> QED
  BY <1>1, <1>2 DEF Map!node

(* Two AVL trees of nearly the same height around an entry between them
   make an AVL tree. *)
LEMMA MakeTree ==
  ASSUME NEW k, NEW v, NEW l, NEW r, AVL(l), AVL(r), Between(l, k, r), Even(l, r)
  PROVE  /\ AVL(Map!node(k, v, l, r))
         /\ Map!Pairs(Map!node(k, v, l, r)) = Map!Pairs(l) \union {<<k, v>>} \union Map!Pairs(r)
<1> DEFINE t == Map!node(k, v, l, r)
<1>1. /\ t.key = k /\ t.value = v /\ t.left = l /\ t.right = r
      /\ Height(t.height, l, r) /\ t # Map!Nil
  BY NodeFields
<1> HIDE DEF t
<1>2. l.height \in Nat /\ r.height \in Nat
  BY DEF AVL
<1>3. t.height \in Nat /\ l.height + 1 <= t.height /\ r.height + 1 <= t.height
  BY <1>1, <1>2 DEF Height
<1>4. Map!links(t) = {t} \union Map!links(l) \union Map!links(r)
  BY <1>1, <1>3, LinksSplit
<1>5. Map!Pairs(t) = Map!Pairs(l) \union {<<k, v>>} \union Map!Pairs(r)
  BY <1>1, <1>4, SplitPairs
<1>6. Good(t)
  <2>1. /\ \A m \in Map!links(l) \ {Map!Nil} : m.key < k
        /\ \A m \in Map!links(r) \ {Map!Nil} : k < m.key
    BY Sides DEF Between
  <2>2. l.height - r.height \in {-1, 0, 1}
    BY DEF Even
  <2> QED
    BY <1>1, <1>2, <2>1, <2>2 DEF Good, Height, Between
<1>7. AVL(t)
  BY <1>3, <1>4, <1>6 DEF AVL
<1> QED
  BY <1>5, <1>7 DEF t

-----------------------------------------------------------------------------
(* Induction and recursion on what gets smaller. *)

(* Induction on a measure: a set that a member joins as soon as all
   smaller members are in it holds everything. *)
LEMMA Descent ==
  ASSUME NEW D, NEW M \in [D -> Nat], NEW S,
         \A x \in D : (\A y \in D : M[y] < M[x] => y \in S) => x \in S
  PROVE  D \subseteq S
<1> DEFINE Sizes == {M[x] : x \in D \ S}
<1> SUFFICES ASSUME ~ (D \subseteq S) PROVE FALSE
  OBVIOUS
<1>1. Sizes \subseteq Nat /\ Sizes # {}
  OBVIOUS
<1>2. PICK s \in Sizes : \A r \in Sizes : s <= r
  <2> HIDE DEF Sizes
  <2> QED
    BY <1>1, LeastNatural
<1>3. PICK x \in D \ S : s = M[x]
  OBVIOUS
<1>4. ASSUME NEW y \in D, M[y] < M[x] PROVE y \in S
  <2> SUFFICES ASSUME y \notin S PROVE FALSE
    OBVIOUS
  <2>1. M[y] \in Sizes
    OBVIOUS
  <2>2. s <= M[y] /\ s \in Nat /\ M[y] \in Nat
    BY <1>1, <1>2, <2>1
  <2> QED
    BY <1>3, <1>4, <2>2
<1> QED
  BY <1>3, <1>4

(* Induction on the subtrees of a tree. *)
LEMMA TreeInduction ==
  ASSUME NEW t, AVL(t), NEW S,
         \A n \in Map!links(t) : (n # Map!Nil => n.left \in S /\ n.right \in S) => n \in S
  PROVE  Map!links(t) \subseteq S
<1> DEFINE M == [n \in Map!links(t) |-> n.height]
<1>1. M \in [Map!links(t) -> Nat]
  BY LinksOfLinks DEF AVL
<1>2. ASSUME NEW n \in Map!links(t), \A y \in Map!links(t) : M[y] < M[n] => y \in S
      PROVE  n \in S
  <2>1. ASSUME n # Map!Nil PROVE n.left \in S /\ n.right \in S
    <3>1. n.left \in Map!links(t) /\ n.right \in Map!links(t)
      BY <2>1, ChildLinks
    <3>2. AVL(n)
      BY LinksOfLinks
    <3>3. /\ n.height \in Nat /\ n.left.height \in Nat /\ n.right.height \in Nat
          /\ n.left.height + 1 <= n.height /\ n.right.height + 1 <= n.height
      BY <2>1, <3>2, OpenTree
    <3>4. M[n.left] < M[n] /\ M[n.right] < M[n]
      BY <3>1, <3>3
    <3> QED
      BY <1>2, <3>1, <3>4
  <2> QED
    BY <2>1
<1> HIDE DEF M
<1> QED
  BY <1>1, <1>2, Descent

(* What a step of an operation asks for, and what it makes of the answers. *)
InsertStep(key, value, n, f) ==
  IF n = Map!Nil THEN Map!node(key, value, Map!Nil, Map!Nil)
  ELSE Map!balance(
         IF key < n.key THEN Map!node(n.key, n.value, f[n.left], n.right)
         ELSE IF key > n.key THEN Map!node(n.key, n.value, n.left, f[n.right])
         ELSE Map!node(key, value, n.left, n.right))

JoinStep(key, value, p, f) ==
  IF p[1].height > p[2].height + 1
  THEN Map!balance(Map!node(p[1].key, p[1].value, p[1].left, f[<<p[1].right, p[2]>>]))
  ELSE IF p[2].height > p[1].height + 1
  THEN Map!balance(Map!node(p[2].key, p[2].value, f[<<p[1], p[2].left>>], p[2].right))
  ELSE Map!node(key, value, p[1], p[2])

FirstStep(n, f) == IF n = Map!Nil THEN n ELSE IF n.left = Map!Nil THEN n ELSE f[n.left]

RemoveStep(n, f) == [k \in Int |->
  IF n = Map!Nil THEN Map!Nil
  ELSE IF k < n.key THEN Map!join(f[n.left][k], n.key, n.value, n.right)
  ELSE IF k > n.key THEN Map!join(n.left, n.key, n.value, f[n.right][k])
  ELSE IF n.right = Map!Nil THEN n.left
  ELSE Map!join(n.left, Map!first(n.right).key, Map!first(n.right).value,
            f[n.right][Map!first(n.right).key])]

RetainStep(key, n, f) ==
  IF n = Map!Nil THEN Map!Nil
  ELSE IF n.key < key THEN f[n.right]
  ELSE Map!join(f[n.left], n.key, n.value, n.right)

GetStep(key, n, f) ==
  IF n = Map!Nil THEN Map!None
  ELSE IF key < n.key THEN f[n.left]
  ELSE IF key > n.key THEN f[n.right]
  ELSE Map!Some(n.key, n.value)

FloorStep(key, n, f) ==
  IF n = Map!Nil THEN Map!None
  ELSE IF n.key <= key
  THEN IF f[n.right].found THEN f[n.right] ELSE Map!Some(n.key, n.value)
  ELSE f[n.left]

DescendStep(n, f) == IF n = Map!Nil THEN <<>> ELSE <<n>> \o f[n.left]

SeekStep(lower, n, f) ==
  IF n = Map!Nil THEN <<>>
  ELSE IF n.key < lower THEN f[n.right]
  ELSE <<n>> \o f[n.left]

Step(op, a, x, f) ==
  CASE op = "insert"  -> InsertStep(a[1], a[2], x, f)
    [] op = "join"    -> JoinStep(a[1], a[2], x, f)
    [] op = "first"   -> FirstStep(x, f)
    [] op = "remove"  -> RemoveStep(x, f)
    [] op = "retain"  -> RetainStep(a, x, f)
    [] op = "get"     -> GetStep(a, x, f)
    [] op = "floor"   -> FloorStep(a, x, f)
    [] op = "descend" -> DescendStep(x, f)
    [] op = "seek"    -> SeekStep(a, x, f)

From(op, x) ==
  IF op = "join"
  THEN IF x[1].height > x[2].height + 1 THEN {<<x[1].right, x[2]>>}
       ELSE IF x[2].height > x[1].height + 1 THEN {<<x[1], x[2].left>>} ELSE {}
  ELSE IF x = Map!Nil THEN {} ELSE {x.left, x.right}

Compute(f, op, a, x) == Step(op, a, x, [y \in From(op, x) |-> f[y]])
Computed(f, op, a, D) == f = [x \in D |-> Compute(f, op, a, x)]
ComputedOn(f, op, a, D, M, s) == \A x \in D : M[x] <= s => f[x] = Compute(f, op, a, x)
Closed(op, D, M) == \A x \in D : From(op, x) \subseteq D /\ \A y \in From(op, x) : M[y] < M[x]

(* What is computed for a link depends only on the values at the links it
   recurses to. *)
LEMMA ComputeSame ==
  ASSUME NEW f, NEW g, NEW op, NEW a, NEW x, \A y \in From(op, x) : f[y] = g[y]
  PROVE  Compute(f, op, a, x) = Compute(g, op, a, x)
<1>1. [y \in From(op, x) |-> f[y]] = [y \in From(op, x) |-> g[y]]
  OBVIOUS
<1> QED
  BY <1>1, Zenon DEF Compute

(* Two computations of the same recursion agree where both are complete. *)
LEMMA ComputedAgree ==
  ASSUME NEW op, NEW a, NEW D, NEW M \in [D -> Nat], Closed(op, D, M),
         NEW f, NEW g, NEW i \in Nat, NEW j \in Nat,
         ComputedOn(f, op, a, D, M, i), ComputedOn(g, op, a, D, M, j)
  PROVE  \A x \in D : M[x] <= i /\ M[x] <= j => f[x] = g[x]
<1> DEFINE S == {x \in D : M[x] <= i /\ M[x] <= j => f[x] = g[x]}
<1>1. ASSUME NEW x \in D, \A y \in D : M[y] < M[x] => y \in S
      PROVE  x \in S
  <2> SUFFICES ASSUME M[x] <= i /\ M[x] <= j PROVE f[x] = g[x]
    OBVIOUS
  <2>1. ASSUME NEW y \in From(op, x) PROVE f[y] = g[y]
    <3>1. y \in D /\ M[y] < M[x]
      BY DEF Closed
    <3>2. y \in S
      BY <1>1, <3>1
    <3>3. M[y] \in Nat /\ M[x] \in Nat
      BY <3>1
    <3>4. M[y] <= i /\ M[y] <= j
      BY <3>1, <3>3
    <3> QED
      BY <3>2, <3>4
  <2>2. Compute(f, op, a, x) = Compute(g, op, a, x)
    BY <2>1, ComputeSame
  <2> QED
    BY <2>2 DEF ComputedOn
<1>2. D \subseteq S
  <2> HIDE DEF S
  <2> QED
    BY <1>1, Descent
<1> QED
  BY <1>2

(* A recursion whose measure descends can be computed up to any measure. *)
LEMMA ComputedUpTo ==
  ASSUME NEW op, NEW a, NEW D, NEW M \in [D -> Nat], Closed(op, D, M), NEW s \in Nat
  PROVE  \E f : ComputedOn(f, op, a, D, M, s)
<1> DEFINE Bad == {i \in Nat : ~ \E f : ComputedOn(f, op, a, D, M, i)}
<1> SUFFICES ASSUME Bad # {} PROVE FALSE
  OBVIOUS
<1>1. Bad \subseteq Nat
  OBVIOUS
<1>2. PICK i \in Bad : \A e \in Bad : i <= e
  <2> HIDE DEF Bad
  <2> QED
    BY <1>1, LeastNatural
<1>3. i \in Nat /\ ~ \E f : ComputedOn(f, op, a, D, M, i)
  OBVIOUS
<1>4. \E f : \A x \in D : M[x] < i => f[x] = Compute(f, op, a, x)
  <2>1. CASE i = 0
    BY <2>1
  <2>2. CASE i # 0
    <3>1. PICK e \in Nat : i = e + 1
      <4>1. i - 1 \in Nat /\ i = (i - 1) + 1
        BY <1>3, <2>2
      <4> QED
        BY <4>1
    <3>2. e \notin Bad
      BY <1>2, <3>1
    <3>3. PICK f : ComputedOn(f, op, a, D, M, e)
      BY <3>2
    <3>4. ASSUME NEW x \in D, M[x] < i PROVE M[x] <= e
      BY <3>1, <3>4
    <3> QED
      BY <3>3, <3>4 DEF ComputedOn
  <2> QED
    BY <2>1, <2>2
<1>5. PICK f : \A x \in D : M[x] < i => f[x] = Compute(f, op, a, x)
  BY <1>4
<1> DEFINE g == [x \in D |-> IF M[x] < i THEN f[x] ELSE Compute(f, op, a, x)]
<1>6. ASSUME NEW x \in D, M[x] <= i PROVE g[x] = Compute(g, op, a, x)
  <2>1. ASSUME NEW y \in From(op, x) PROVE f[y] = g[y]
    <3>1. y \in D /\ M[y] < M[x]
      BY DEF Closed
    <3>2. M[y] \in Nat /\ M[x] \in Nat
      BY <3>1
    <3>3. M[y] < i
      BY <1>3, <1>6, <3>1, <3>2
    <3> QED
      BY <3>1, <3>3
  <2>2. Compute(f, op, a, x) = Compute(g, op, a, x)
    <3> HIDE DEF g
    <3> QED
      BY <2>1, ComputeSame
  <2>3. g[x] = Compute(f, op, a, x)
    BY <1>5
  <2> QED
    BY <2>2, <2>3
<1>7. ComputedOn(g, op, a, D, M, i)
  <2> HIDE DEF g
  <2> QED
    BY <1>6 DEF ComputedOn
<1> QED
  BY <1>3, <1>7

(* It can be computed on the whole of its domain. *)
LEMMA ComputedExists ==
  ASSUME NEW op, NEW a, NEW D, NEW M \in [D -> Nat], Closed(op, D, M)
  PROVE  \E f : Computed(f, op, a, D)
<1> DEFINE P(s) == CHOOSE f : ComputedOn(f, op, a, D, M, s)
<1> DEFINE r == [x \in D |-> P(M[x])[x]]
<1>1. ASSUME NEW s \in Nat PROVE ComputedOn(P(s), op, a, D, M, s)
  BY ComputedUpTo
<1>2. ASSUME NEW x \in D PROVE P(M[x])[x] = Compute(r, op, a, x)
  <2>1. P(M[x])[x] = Compute(P(M[x]), op, a, x)
    <3>1. M[x] \in Nat /\ M[x] <= M[x]
      OBVIOUS
    <3>2. ComputedOn(P(M[x]), op, a, D, M, M[x])
      BY <1>1, <3>1
    <3> HIDE DEF P
    <3> QED
      BY <3>1, <3>2 DEF ComputedOn
  <2>2. ASSUME NEW y \in From(op, x) PROVE P(M[x])[y] = r[y]
    <3>1. y \in D /\ M[y] < M[x]
      BY DEF Closed
    <3>2. M[y] \in Nat /\ M[x] \in Nat /\ M[y] <= M[x] /\ M[y] <= M[y]
      BY <3>1
    <3>3. ComputedOn(P(M[x]), op, a, D, M, M[x]) /\ ComputedOn(P(M[y]), op, a, D, M, M[y])
      BY <1>1, <3>2
    <3>4. r[y] = P(M[y])[y]
      BY <3>1
    <3> HIDE DEF P
    <3>5. P(M[x])[y] = P(M[y])[y]
      BY <3>1, <3>2, <3>3, ComputedAgree
    <3> HIDE DEF r
    <3> QED
      BY <3>4, <3>5
  <2> HIDE DEF P, r
  <2>3. Compute(P(M[x]), op, a, x) = Compute(r, op, a, x)
    BY <2>2, ComputeSame
  <2> QED
    BY <2>1, <2>3
<1>3. Computed(r, op, a, D)
  <2>1. r = [x \in D |-> Compute(r, op, a, x)]
    <3>1. [x \in D |-> P(M[x])[x]] = [x \in D |-> Compute(r, op, a, x)]
      <4> HIDE DEF P, r
      <4> QED
        BY <1>2
    <3> QED
      BY <3>1, Zenon
  <2> HIDE DEF r
  <2> QED
    BY <2>1 DEF Computed
<1> QED
  BY <1>3

Value(op, a, D) == CHOOSE f : Computed(f, op, a, D)

(* The chosen computation obeys the recursion. *)
LEMMA ValueIs ==
  ASSUME NEW op, NEW a, NEW D, NEW M \in [D -> Nat], Closed(op, D, M)
  PROVE  \A x \in D : Value(op, a, D)[x] = Compute(Value(op, a, D), op, a, x)
<1> DEFINE f == Value(op, a, D)
<1>1. Computed(f, op, a, D)
  BY ComputedExists DEF Value
<1> HIDE DEF f
<1>2. ASSUME NEW x \in D PROVE f[x] = Compute(f, op, a, x)
  <2> DEFINE g == [y \in D |-> Compute(f, op, a, y)]
  <2>1. f = g
    BY <1>1, Zenon DEF Computed
  <2>2. g[x] = Compute(f, op, a, x)
    OBVIOUS
  <2> QED
    BY <2>1, <2>2, Zenon
<1> QED
  BY <1>2 DEF f

(* An operation on the subtrees of a tree. *)
LEMMA TreeValue ==
  ASSUME NEW op, op # "join", NEW a, NEW t, AVL(t)
  PROVE  \A n \in Map!links(t) :
            Value(op, a, Map!links(t))[n] = Compute(Value(op, a, Map!links(t)), op, a, n)
<1> DEFINE M == [n \in Map!links(t) |-> n.height]
<1>1. M \in [Map!links(t) -> Nat]
  BY LinksOfLinks DEF AVL
<1>2. Closed(op, Map!links(t), M)
  <2>1. ASSUME NEW n \in Map!links(t), n # Map!Nil
        PROVE  /\ n.left \in Map!links(t) /\ n.right \in Map!links(t)
               /\ M[n.left] < M[n] /\ M[n.right] < M[n]
    <3>1. n.left \in Map!links(t) /\ n.right \in Map!links(t)
      BY <2>1, ChildLinks
    <3>2. AVL(n)
      BY LinksOfLinks
    <3>3. /\ n.height \in Nat /\ n.left.height \in Nat /\ n.right.height \in Nat
          /\ n.left.height + 1 <= n.height /\ n.right.height + 1 <= n.height
      BY <2>1, <3>2, OpenTree
    <3> QED
      BY <3>1, <3>3
  <2> HIDE DEF M
  <2> QED
    BY <2>1 DEF Closed, From
<1> HIDE DEF M
<1> QED
  BY <1>1, <1>2, ValueIs

-----------------------------------------------------------------------------
(* Sides and pairs under rotation. *)

Splits(t, l, k, v, r) == Map!Pairs(t) = Map!Pairs(l) \union {<<k, v>>} \union Map!Pairs(r)

(* The keys of an AVL tree are integers. *)
LEMMA KeysAreInt ==
  ASSUME NEW t, AVL(t), NEW p \in Map!Pairs(t)
  PROVE  p[1] \in Int
<1>1. PICK n \in Map!links(t) \ {Map!Nil} : p = <<n.key, n.value>>
  BY DEF Map!Pairs
<1>2. Good(n)
  BY <1>1 DEF AVL
<1> QED
  BY <1>1, <1>2 DEF Good

(* A tree is on one side of a key exactly when its entry and its subtrees
   are. *)
LEMMA SplitSides ==
  ASSUME NEW t, NEW l, NEW k, NEW v, NEW r, Splits(t, l, k, v, r), NEW key
  PROVE  /\ Below(t, key) <=> Below(l, key) /\ k < key /\ Below(r, key)
         /\ Above(t, key) <=> Above(l, key) /\ key < k /\ Above(r, key)
<1>1. <<k, v>>[1] = k
  OBVIOUS
<1> QED
  BY <1>1 DEF Splits, Below, Above

(* What is below a key is below every greater key, and likewise above. *)
LEMMA FurtherSides ==
  ASSUME NEW t, AVL(t), NEW j \in Int, NEW k \in Int, j < k
  PROVE  (Below(t, j) => Below(t, k)) /\ (Above(t, k) => Above(t, j))
<1>1. \A p \in Map!Pairs(t) : p[1] \in Int
  BY KeysAreInt
<1> QED
  BY <1>1 DEF Below, Above

(* A node over two trees, in the words of the lemmas. *)
LEMMA MakeNode ==
  ASSUME NEW k, NEW v, NEW l, NEW r, AVL(l), AVL(r), Between(l, k, r), Even(l, r)
  PROVE  /\ AVL(Map!node(k, v, l, r))
         /\ Splits(Map!node(k, v, l, r), l, k, v, r)
         /\ Height(Map!node(k, v, l, r).height, l, r)
  BY MakeTree, NodeFields DEF Splits

(* What OpenTree says of the entries and the heights. *)
LEMMA OpenNode ==
  ASSUME NEW t, AVL(t), t # Map!Nil
  PROVE  /\ AVL(t.left) /\ AVL(t.right)
         /\ Splits(t, t.left, t.key, t.value, t.right)
         /\ Between(t.left, t.key, t.right)
         /\ Even(t.left, t.right) /\ Height(t.height, t.left, t.right)
  BY OpenTree DEF Splits

Heights(l, r) == l.height \in Nat /\ r.height \in Nat
Grown(h, l, r) == \/ h = IF l.height > r.height THEN l.height ELSE r.height
                  \/ Height(h, l, r)

(* What a rebalanced node is made of. *)
Balanced(t, l, k, v, r) ==
  /\ AVL(t) /\ Splits(t, l, k, v, r)
  /\ Grown(t.height, l, r)

(* One rotation to the right balances a left subtree that is two levels
   too high and not heavier on the inside. *)
LEMMA RotateRight ==
  ASSUME NEW k, NEW v, NEW l, NEW r, AVL(l), AVL(r), l # Map!Nil, Between(l, k, r),
         Heights(l.left, l.right), r.height \in Nat,
         l.left.height = r.height + 1, l.right.height \in {r.height, r.height + 1}
  PROVE  Balanced(Map!node(l.key, l.value, l.left, Map!node(k, v, l.right, r)), l, k, v, r)
<1> DEFINE under == Map!node(k, v, l.right, r)
           t == Map!node(l.key, l.value, l.left, under)
<1>1. /\ AVL(l.left) /\ AVL(l.right) /\ Splits(l, l.left, l.key, l.value, l.right)
      /\ Between(l.left, l.key, l.right) /\ Height(l.height, l.left, l.right)
  BY OpenNode
<1>2. Below(l.right, k) /\ l.key < k
  BY <1>1, SplitSides DEF Between
<1>3. Between(l.right, k, r)
  BY <1>2 DEF Between
<1>4. Even(l.right, r)
  BY DEF Even, Heights
<1>5. AVL(under) /\ Splits(under, l.right, k, v, r) /\ Height(under.height, l.right, r)
  BY <1>1, <1>3, <1>4, MakeNode
<1>6. under.height \in {r.height + 1, r.height + 2}
  BY <1>5 DEF Height, Heights
<1>7. Above(under, l.key)
  <2>1. Above(r, l.key)
    BY <1>1, <1>2, FurtherSides DEF Between
  <2> QED
    BY <1>1, <1>2, <1>5, <2>1, SplitSides DEF Between
<1>8. Between(l.left, l.key, under)
  BY <1>1, <1>7 DEF Between
<1>9. Even(l.left, under)
  BY <1>6 DEF Even, Heights
<1>10. AVL(t) /\ Splits(t, l.left, l.key, l.value, under) /\ Height(t.height, l.left, under)
  <2> HIDE DEF under
  <2> QED
    BY <1>1, <1>5, <1>8, <1>9, MakeNode
<1> HIDE DEF under, t
<1>11. Splits(t, l, k, v, r)
  BY <1>1, <1>5, <1>10 DEF Splits
<1>12. Grown(t.height, l, r)
  <2>1. l.height = r.height + 2
    BY <1>1 DEF Height, Heights
  <2> QED
    BY <1>5, <1>10, <2>1 DEF Grown, Height, Heights
<1> QED
  BY <1>10, <1>11, <1>12 DEF Balanced, t, under

(* One rotation to the left, likewise. *)
LEMMA RotateLeft ==
  ASSUME NEW k, NEW v, NEW l, NEW r, AVL(l), AVL(r), r # Map!Nil, Between(l, k, r),
         Heights(r.left, r.right), l.height \in Nat,
         r.right.height = l.height + 1, r.left.height \in {l.height, l.height + 1}
  PROVE  Balanced(Map!node(r.key, r.value, Map!node(k, v, l, r.left), r.right), l, k, v, r)
<1> DEFINE under == Map!node(k, v, l, r.left)
           t == Map!node(r.key, r.value, under, r.right)
<1>1. /\ AVL(r.left) /\ AVL(r.right) /\ Splits(r, r.left, r.key, r.value, r.right)
      /\ Between(r.left, r.key, r.right) /\ Height(r.height, r.left, r.right)
  BY OpenNode
<1>2. Above(r.left, k) /\ k < r.key
  BY <1>1, SplitSides DEF Between
<1>3. Between(l, k, r.left)
  BY <1>2 DEF Between
<1>4. Even(l, r.left)
  BY DEF Even, Heights
<1>5. AVL(under) /\ Splits(under, l, k, v, r.left) /\ Height(under.height, l, r.left)
  BY <1>1, <1>3, <1>4, MakeNode
<1>6. under.height \in {l.height + 1, l.height + 2}
  BY <1>5 DEF Height, Heights
<1>7. Below(under, r.key)
  <2>1. Below(l, r.key)
    BY <1>1, <1>2, FurtherSides DEF Between
  <2> QED
    BY <1>1, <1>2, <1>5, <2>1, SplitSides DEF Between
<1>8. Between(under, r.key, r.right)
  BY <1>1, <1>7 DEF Between
<1>9. Even(under, r.right)
  BY <1>6 DEF Even, Heights
<1>10. AVL(t) /\ Splits(t, under, r.key, r.value, r.right) /\ Height(t.height, under, r.right)
  <2> HIDE DEF under
  <2> QED
    BY <1>1, <1>5, <1>8, <1>9, MakeNode
<1> HIDE DEF under, t
<1>11. Splits(t, l, k, v, r)
  BY <1>1, <1>5, <1>10 DEF Splits
<1>12. Grown(t.height, l, r)
  <2>1. r.height = l.height + 2
    BY <1>1 DEF Height, Heights
  <2> QED
    BY <1>5, <1>10, <2>1 DEF Grown, Height, Heights
<1> QED
  BY <1>10, <1>11, <1>12 DEF Balanced, t, under

(* Three nodes over four trees in order: what a double rotation leaves.    *)
Three(t, t1, k1, v1, t2, k2, v2, t3, k3, v3, t4) ==
  /\ AVL(t) /\ t.height = t4.height + 2
  /\ Map!Pairs(t) = Map!Pairs(t1) \union {<<k1, v1>>} \union Map!Pairs(t2)
                \union {<<k2, v2>>} \union Map!Pairs(t3)
                \union {<<k3, v3>>} \union Map!Pairs(t4)

(* Four trees around three entries, all of nearly the same height, make
   an AVL tree: what a double rotation leaves. *)
LEMMA ThreeNodes ==
  ASSUME NEW t1, NEW t2, NEW t3, NEW t4, AVL(t1), AVL(t2), AVL(t3), AVL(t4),
         NEW k1 \in Int, NEW k2 \in Int, NEW k3 \in Int, k1 < k2, k2 < k3,
         NEW v1, NEW v2, NEW v3,
         Between(t1, k1, t2), Between(t2, k2, t3), Between(t3, k3, t4),
         t1.height = t4.height, t4.height \in Nat,
         t2.height \in {t4.height, t4.height - 1}, t3.height \in {t4.height, t4.height - 1}
  PROVE  Three(Map!node(k2, v2, Map!node(k1, v1, t1, t2), Map!node(k3, v3, t3, t4)),
               t1, k1, v1, t2, k2, v2, t3, k3, v3, t4)
<1> DEFINE l == Map!node(k1, v1, t1, t2)
           r == Map!node(k3, v3, t3, t4)
           t == Map!node(k2, v2, l, r)
<1>1. Even(t1, t2) /\ Even(t3, t4)
  BY DEF Even, AVL
<1>2. AVL(l) /\ Splits(l, t1, k1, v1, t2) /\ Height(l.height, t1, t2)
  BY <1>1, MakeNode
<1>3. AVL(r) /\ Splits(r, t3, k3, v3, t4) /\ Height(r.height, t3, t4)
  BY <1>1, MakeNode
<1> HIDE DEF l, r
<1>4. l.height = t4.height + 1 /\ r.height = t4.height + 1
  BY <1>2, <1>3 DEF Height, AVL
<1>5. Below(l, k2)
  <2>1. Below(t1, k2)
    BY FurtherSides DEF Between
  <2> QED
    BY <1>2, <2>1, SplitSides DEF Between
<1>6. Above(r, k2)
  <2>1. Above(t4, k2)
    BY FurtherSides DEF Between
  <2> QED
    BY <1>3, <2>1, SplitSides DEF Between
<1>7. Between(l, k2, r) /\ Even(l, r)
  BY <1>4, <1>5, <1>6 DEF Between, Even
<1>8. AVL(t) /\ Splits(t, l, k2, v2, r) /\ Height(t.height, l, r)
  BY <1>2, <1>3, <1>7, MakeNode
<1> HIDE DEF t
<1>9. t.height = t4.height + 2
  BY <1>4, <1>8 DEF Height
<1>10. Map!Pairs(t) = Map!Pairs(t1) \union {<<k1, v1>>} \union Map!Pairs(t2)
                  \union {<<k2, v2>>} \union Map!Pairs(t3)
                  \union {<<k3, v3>>} \union Map!Pairs(t4)
  BY <1>2, <1>3, <1>8 DEF Splits
<1> QED
  BY <1>8, <1>9, <1>10 DEF Three, t, l, r

(* Two rotations balance a left subtree that is heavier on the inside. *)
LEMMA RotateTwiceRight ==
  ASSUME NEW k, NEW v, NEW l, NEW r, AVL(l), AVL(r),
         l # Map!Nil, l.right # Map!Nil, Between(l, k, r),
         Heights(l.left, l.right), r.height \in Nat,
         l.left.height = r.height, l.right.height = r.height + 1
  PROVE  Balanced(Map!node(l.right.key, l.right.value,
                       Map!node(l.key, l.value, l.left, l.right.left),
                       Map!node(k, v, l.right.right, r)), l, k, v, r)
<1> DEFINE m == l.right
           t == Map!node(m.key, m.value, Map!node(l.key, l.value, l.left, m.left), Map!node(k, v, m.right, r))
<1>1. /\ AVL(l.left) /\ AVL(m) /\ Splits(l, l.left, l.key, l.value, m)
      /\ Between(l.left, l.key, m) /\ Height(l.height, l.left, m)
  BY OpenNode
<1>2. /\ AVL(m.left) /\ AVL(m.right) /\ Splits(m, m.left, m.key, m.value, m.right)
      /\ Between(m.left, m.key, m.right) /\ Even(m.left, m.right)
      /\ Height(m.height, m.left, m.right)
  BY <1>1, OpenNode
<1> HIDE DEF m
<1>3. Below(m, k) /\ Above(m, l.key) /\ l.key \in Int /\ m.key \in Int /\ k \in Int
  BY <1>1, <1>2, SplitSides DEF Between
<1>4. Below(m.right, k) /\ m.key < k /\ Above(m.left, l.key) /\ l.key < m.key
  BY <1>2, <1>3, SplitSides
<1>5. Between(l.left, l.key, m.left) /\ Between(m.right, k, r)
  BY <1>1, <1>4 DEF Between
<1>6. m.left.height \in Nat /\ m.right.height \in Nat /\ m.height = r.height + 1
  BY <1>2 DEF AVL, m
<1>7. m.left.height \in {r.height, r.height - 1} /\ m.right.height \in {r.height, r.height - 1}
  BY <1>2, <1>6 DEF Height, Even
<1>8. Three(t, l.left, l.key, l.value, m.left, m.key, m.value, m.right, k, v, r)
  BY <1>1, <1>2, <1>3, <1>4, <1>5, <1>7, ThreeNodes
<1> HIDE DEF t
<1>9. Splits(t, l, k, v, r)
  BY <1>1, <1>2, <1>8 DEF Splits, Three
<1>10. l.height = r.height + 2
  BY <1>1, <1>6 DEF Height
<1>11. Grown(t.height, l, r)
  BY <1>8, <1>10 DEF Grown, Three
<1> QED
  BY <1>8, <1>9, <1>11 DEF Balanced, Three, t, m

(* And a right subtree that is. *)
LEMMA RotateTwiceLeft ==
  ASSUME NEW k, NEW v, NEW l, NEW r, AVL(l), AVL(r),
         r # Map!Nil, r.left # Map!Nil, Between(l, k, r),
         Heights(r.left, r.right), l.height \in Nat,
         r.right.height = l.height, r.left.height = l.height + 1
  PROVE  Balanced(Map!node(r.left.key, r.left.value,
                       Map!node(k, v, l, r.left.left),
                       Map!node(r.key, r.value, r.left.right, r.right)), l, k, v, r)
<1> DEFINE m == r.left
           t == Map!node(m.key, m.value, Map!node(k, v, l, m.left), Map!node(r.key, r.value, m.right, r.right))
<1>1. /\ AVL(r.right) /\ AVL(m) /\ Splits(r, m, r.key, r.value, r.right)
      /\ Between(m, r.key, r.right) /\ Height(r.height, m, r.right)
  BY OpenNode
<1>2. /\ AVL(m.left) /\ AVL(m.right) /\ Splits(m, m.left, m.key, m.value, m.right)
      /\ Between(m.left, m.key, m.right) /\ Even(m.left, m.right)
      /\ Height(m.height, m.left, m.right)
  BY <1>1, OpenNode
<1> HIDE DEF m
<1>3. Above(m, k) /\ Below(m, r.key) /\ r.key \in Int /\ m.key \in Int /\ k \in Int
  BY <1>1, <1>2, SplitSides DEF Between
<1>4. Above(m.left, k) /\ k < m.key /\ Below(m.right, r.key) /\ m.key < r.key
  BY <1>2, <1>3, SplitSides
<1>5. Between(l, k, m.left) /\ Between(m.right, r.key, r.right)
  BY <1>1, <1>4 DEF Between
<1>6. m.left.height \in Nat /\ m.right.height \in Nat /\ m.height = l.height + 1
  BY <1>2 DEF AVL, m
<1>7. /\ m.left.height \in {r.right.height, r.right.height - 1}
      /\ m.right.height \in {r.right.height, r.right.height - 1}
  BY <1>2, <1>6 DEF Height, Even
<1>8. Three(t, l, k, v, m.left, m.key, m.value, m.right, r.key, r.value, r.right)
  <2>1. l.height = r.right.height /\ r.right.height \in Nat
    OBVIOUS
  <2> QED
    BY <1>1, <1>2, <1>3, <1>4, <1>5, <1>7, <2>1, ThreeNodes
<1> HIDE DEF t
<1>9. Splits(t, l, k, v, r)
  BY <1>1, <1>2, <1>8 DEF Splits, Three
<1>10. r.height = l.height + 2
  BY <1>1, <1>6 DEF Height
<1>11. Grown(t.height, l, r)
  BY <1>8, <1>10 DEF Grown, Three
<1> QED
  BY <1>8, <1>9, <1>11 DEF Balanced, Three, t, m

(* The heights of the subtrees of a tree that is two higher than another.  *)
LEMMA TallerBy2 ==
  ASSUME NEW t, AVL(t), NEW h \in Nat, t.height = h + 2
  PROVE  /\ t # Map!Nil /\ Heights(t.left, t.right)
         /\ t.left.height \in {h, h + 1} /\ t.right.height \in {h, h + 1}
         /\ t.left.height = h + 1 \/ t.right.height = h + 1
<1>1. t # Map!Nil
  BY NilHeight
<1>2. Even(t.left, t.right) /\ Height(t.height, t.left, t.right) /\ Heights(t.left, t.right)
  BY <1>1, OpenTree DEF Heights
<1> QED
  BY <1>1, <1>2 DEF Even, Height, Heights

(* balance() makes an AVL tree of two AVL trees whose heights differ by
   two at most, whichever grandchild is the tall one, and loses no entry. *)
LEMMA Rebalance ==
  ASSUME NEW k, NEW v, NEW l, NEW r, AVL(l), AVL(r), Between(l, k, r),
         l.height <= r.height + 2, r.height <= l.height + 2
  PROVE  /\ Balanced(Map!balance(Map!node(k, v, l, r)), l, k, v, r)
         /\ Even(l, r) => Height(Map!balance(Map!node(k, v, l, r)).height, l, r)
<1> DEFINE t == Map!node(k, v, l, r)
<1>1. /\ t.key = k /\ t.value = v /\ t.left = l /\ t.right = r
  BY NodeFields
<1>2. l.height \in Nat /\ r.height \in Nat
  BY DEF AVL
<1>3. CASE l.height > r.height + 1
  <2>1. l.height = r.height + 2 /\ ~ Even(l, r)
    BY <1>2, <1>3 DEF Even
  <2>2. /\ l # Map!Nil /\ Heights(l.left, l.right)
        /\ l.left.height \in {r.height, r.height + 1}
        /\ l.right.height \in {r.height, r.height + 1}
        /\ l.left.height = r.height + 1 \/ l.right.height = r.height + 1
    BY <1>2, <2>1, TallerBy2
  <2>3. CASE l.right.height > l.left.height
    <3>1. /\ l.left.height = r.height /\ l.right.height = r.height + 1
      BY <1>2, <2>2, <2>3
    <3>2. l.right # Map!Nil
      BY <1>2, <3>1, NilHeight
    <3> DEFINE m == l.right
               u == Map!node(m.key, m.value, Map!node(l.key, l.value, l.left, m.left), m.right)
               w == Map!node(m.key, m.value, Map!node(l.key, l.value, l.left, m.left),
                         Map!node(k, v, m.right, r))
    <3>3. Balanced(w, l, k, v, r)
      BY <1>2, <2>2, <3>1, <3>2, RotateTwiceRight
    <3>4. Map!rotate_left(l) = u
      BY DEF Map!rotate_left
    <3>5. Map!balance(t) = Map!rotate_right(Map!node(k, v, u, r))
      <4> HIDE DEF t, u
      <4> QED
        BY <1>1, <1>2, <1>3, <2>3, <3>4 DEF Map!balance
    <3>6. Map!rotate_right(Map!node(k, v, u, r)) = w
      <4>1. Map!node(k, v, u, r).key = k /\ Map!node(k, v, u, r).value = v
            /\ Map!node(k, v, u, r).left = u /\ Map!node(k, v, u, r).right = r
        BY NodeFields
      <4>2. /\ u.key = m.key /\ u.value = m.value
            /\ u.left = Map!node(l.key, l.value, l.left, m.left) /\ u.right = m.right
        BY NodeFields
      <4> HIDE DEF u, m
      <4> QED
        BY <4>1, <4>2 DEF Map!rotate_right
    <3> HIDE DEF t, u, w
    <3> QED
      BY <2>1, <3>3, <3>5, <3>6 DEF t
  <2>4. CASE ~ (l.right.height > l.left.height)
    <3>1. l.left.height = r.height + 1
      BY <1>2, <2>2, <2>4
    <3> DEFINE w == Map!node(l.key, l.value, l.left, Map!node(k, v, l.right, r))
    <3>2. Balanced(w, l, k, v, r)
      BY <1>2, <2>2, <3>1, RotateRight
    <3>3. Map!balance(t) = Map!rotate_right(t)
      <4> HIDE DEF t
      <4> QED
        BY <1>1, <1>2, <1>3, <2>4 DEF Map!balance
    <3>4. Map!rotate_right(t) = w
      <4> HIDE DEF t
      <4> QED
        BY <1>1 DEF Map!rotate_right
    <3> HIDE DEF t, w
    <3> QED
      BY <2>1, <3>2, <3>3, <3>4 DEF t
  <2> QED
    BY <2>3, <2>4
<1>4. CASE r.height > l.height + 1
  <2>1. r.height = l.height + 2 /\ ~ Even(l, r) /\ ~ (l.height > r.height + 1)
    BY <1>2, <1>4 DEF Even
  <2>2. /\ r # Map!Nil /\ Heights(r.left, r.right)
        /\ r.left.height \in {l.height, l.height + 1}
        /\ r.right.height \in {l.height, l.height + 1}
        /\ r.left.height = l.height + 1 \/ r.right.height = l.height + 1
    BY <1>2, <2>1, TallerBy2
  <2>3. CASE r.left.height > r.right.height
    <3>1. /\ r.right.height = l.height /\ r.left.height = l.height + 1
      BY <1>2, <2>2, <2>3
    <3>2. r.left # Map!Nil
      BY <1>2, <3>1, NilHeight
    <3> DEFINE m == r.left
               u == Map!node(m.key, m.value, m.left, Map!node(r.key, r.value, m.right, r.right))
               w == Map!node(m.key, m.value, Map!node(k, v, l, m.left),
                         Map!node(r.key, r.value, m.right, r.right))
    <3>3. Balanced(w, l, k, v, r)
      BY <1>2, <2>2, <3>1, <3>2, RotateTwiceLeft
    <3>4. Map!rotate_right(r) = u
      BY DEF Map!rotate_right
    <3>5. Map!balance(t) = Map!rotate_left(Map!node(k, v, l, u))
      <4> HIDE DEF t, u
      <4> QED
        BY <1>1, <1>2, <1>4, <2>1, <2>3, <3>4 DEF Map!balance
    <3>6. Map!rotate_left(Map!node(k, v, l, u)) = w
      <4>1. Map!node(k, v, l, u).key = k /\ Map!node(k, v, l, u).value = v
            /\ Map!node(k, v, l, u).left = l /\ Map!node(k, v, l, u).right = u
        BY NodeFields
      <4>2. /\ u.key = m.key /\ u.value = m.value
            /\ u.right = Map!node(r.key, r.value, m.right, r.right) /\ u.left = m.left
        BY NodeFields
      <4> HIDE DEF u, m
      <4> QED
        BY <4>1, <4>2 DEF Map!rotate_left
    <3> HIDE DEF t, u, w
    <3> QED
      BY <2>1, <3>3, <3>5, <3>6 DEF t
  <2>4. CASE ~ (r.left.height > r.right.height)
    <3>1. r.right.height = l.height + 1
      BY <1>2, <2>2, <2>4
    <3> DEFINE w == Map!node(r.key, r.value, Map!node(k, v, l, r.left), r.right)
    <3>2. Balanced(w, l, k, v, r)
      BY <1>2, <2>2, <3>1, RotateLeft
    <3>3. Map!balance(t) = Map!rotate_left(t)
      <4> HIDE DEF t
      <4> QED
        BY <1>1, <1>2, <1>4, <2>1, <2>4 DEF Map!balance
    <3>4. Map!rotate_left(t) = w
      <4> HIDE DEF t
      <4> QED
        BY <1>1 DEF Map!rotate_left
    <3> HIDE DEF t, w
    <3> QED
      BY <2>1, <3>2, <3>3, <3>4 DEF t
  <2> QED
    BY <2>3, <2>4
<1>5. CASE ~ (l.height > r.height + 1) /\ ~ (r.height > l.height + 1)
  <2>1. Even(l, r)
    BY <1>2, <1>5 DEF Even
  <2>2. Map!balance(t) = t
    <3> HIDE DEF t
    <3> QED
      BY <1>1, <1>5 DEF Map!balance
  <2>3. AVL(t) /\ Splits(t, l, k, v, r) /\ Height(t.height, l, r)
    BY <2>1, MakeNode
  <2> HIDE DEF t
  <2> QED
    BY <2>2, <2>3 DEF Balanced, Grown, t
<1> QED
  BY <1>3, <1>4, <1>5

-----------------------------------------------------------------------------
(* Each operation follows its rule at every link of its tree. *)

(* insert obeys its recursion on the links of the tree. *)
LEMMA InsertRule ==
  ASSUME NEW t, AVL(t), NEW key, NEW value
  PROVE  \E f : /\ Map!insert(t, key, value) = f[t]
                /\ \A n \in Map!links(t) : f[n] = InsertStep(key, value, n, f)
<1> DEFINE D == Map!links(t)
           a == <<key, value>>
           Lit(f) == f = [n \in Map!links(t) |->
                            IF n = Map!Nil THEN Map!node(key, value, Map!Nil, Map!Nil)
                            ELSE Map!balance(
                                   IF key < n.key THEN Map!node(n.key, n.value, f[n.left], n.right)
                                   ELSE IF key > n.key
                                   THEN Map!node(n.key, n.value, n.left, f[n.right])
                                   ELSE Map!node(key, value, n.left, n.right))]
<1>1. Map!insert(t, key, value) = (CHOOSE f : Lit(f))[t]
  BY Zenon DEF Map!insert
<1>2. ASSUME NEW f, NEW n PROVE Compute(f, "insert", a, n) = InsertStep(key, value, n, f)
  <2> DEFINE g == [y \in From("insert", n) |-> f[y]]
  <2>1. Compute(f, "insert", a, n) = InsertStep(key, value, n, g)
    <3> HIDE DEF g
    <3>1. Step("insert", a, n, g) = InsertStep(key, value, n, g)
      BY DEF Step
    <3> QED
      BY <3>1 DEF Compute, g
  <2>2. n # Map!Nil => g[n.left] = f[n.left] /\ g[n.right] = f[n.right]
    BY DEF From
  <2> HIDE DEF g
  <2> QED
    BY <2>1, <2>2 DEF InsertStep
<1>3. ASSUME NEW f PROVE Lit(f) <=> Computed(f, "insert", a, D)
  <2>1. [n \in D |-> InsertStep(key, value, n, f)] = [n \in D |-> Compute(f, "insert", a, n)]
    <3> HIDE DEF a, D
    <3> QED
      BY <1>2
  <2>2. Lit(f) <=> f = [n \in D |-> InsertStep(key, value, n, f)]
    BY Zenon DEF InsertStep
  <2> HIDE DEF Lit, D, a
  <2> QED
    BY <2>1, <2>2, Zenon DEF Computed
<1>4. (CHOOSE f : Lit(f)) = Value("insert", a, D)
  <2> HIDE DEF Lit, D, a
  <2> QED
    BY <1>3, Zenon DEF Value
<1>5. \A n \in D : Value("insert", a, D)[n] = Compute(Value("insert", a, D), "insert", a, n)
  <2> HIDE DEF a
  <2> QED
    BY TreeValue
<1> HIDE DEF Lit, D, a
<1>6. Map!insert(t, key, value) = Value("insert", a, D)[t]
  BY <1>1, <1>4, Zenon
<1>7. \A n \in Map!links(t) :
         Value("insert", a, D)[n] = InsertStep(key, value, n, Value("insert", a, D))
  BY <1>2, <1>5 DEF D
<1> QED
  BY <1>6, <1>7

(* So does first. *)
LEMMA FirstRule ==
  ASSUME NEW t, AVL(t)
  PROVE  \E f : /\ Map!first(t) = f[t]
                /\ \A n \in Map!links(t) : f[n] = FirstStep(n, f)
<1> DEFINE D == Map!links(t)
           Lit(f) == f = [n \in Map!links(t) |->
            IF n = Map!Nil THEN n
            ELSE IF n.left = Map!Nil THEN n ELSE f[n.left]]
<1>1. Map!first(t) = (CHOOSE f : Lit(f))[t]
  BY Zenon DEF Map!first
<1>2. ASSUME NEW f, NEW n PROVE Compute(f, "first", {}, n) = FirstStep(n, f)
  <2> DEFINE g == [y \in From("first", n) |-> f[y]]
  <2>1. Compute(f, "first", {}, n) = FirstStep(n, g)
    <3> HIDE DEF g
    <3>1. Step("first", {}, n, g) = FirstStep(n, g)
      BY DEF Step
    <3> QED
      BY <3>1 DEF Compute, g
  <2>2. n # Map!Nil => g[n.left] = f[n.left] /\ g[n.right] = f[n.right]
    BY DEF From
  <2> HIDE DEF g
  <2> QED
    BY <2>1, <2>2 DEF FirstStep
<1>3. ASSUME NEW f PROVE Lit(f) <=> Computed(f, "first", {}, D)
  <2>1. [n \in D |-> FirstStep(n, f)] = [n \in D |-> Compute(f, "first", {}, n)]
    <3> HIDE DEF D
    <3> QED
      BY <1>2
  <2>2. Lit(f) <=> f = [n \in D |-> FirstStep(n, f)]
    BY Zenon DEF FirstStep
  <2> HIDE DEF Lit, D
  <2> QED
    BY <2>1, <2>2, Zenon DEF Computed
<1>4. (CHOOSE f : Lit(f)) = Value("first", {}, D)
  <2> HIDE DEF Lit, D
  <2> QED
    BY <1>3, Zenon DEF Value
<1>5. \A n \in D : Value("first", {}, D)[n] = Compute(Value("first", {}, D), "first", {}, n)
  BY TreeValue
<1> HIDE DEF Lit, D
<1>6. Map!first(t) = Value("first", {}, D)[t]
  BY <1>1, <1>4, Zenon
<1> DEFINE f == Value("first", {}, D)
<1>7. \A n \in Map!links(t) : f[n] = FirstStep(n, f)
  BY <1>2, <1>5 DEF D
<1> HIDE DEF f
<1>8. Map!first(t) = f[t]
  BY <1>6 DEF f
<1> QED
  BY <1>7, <1>8

(* So does remove, for every key at once. *)
LEMMA RemoveRule ==
  ASSUME NEW t, AVL(t), NEW key
  PROVE  \E f : /\ Map!remove(t, key) = f[t][key]
                /\ \A n \in Map!links(t) : f[n] = RemoveStep(n, f)
<1> DEFINE D == Map!links(t)
           Lit(f) == f = [n \in Map!links(t) |->
            [k \in Int |->
              IF n = Map!Nil THEN Map!Nil
              ELSE IF k < n.key THEN Map!join(f[n.left][k], n.key, n.value, n.right)
              ELSE IF k > n.key THEN Map!join(n.left, n.key, n.value, f[n.right][k])
              ELSE IF n.right = Map!Nil THEN n.left
              ELSE LET least == Map!first(n.right)
                   IN  Map!join(n.left, least.key, least.value, f[n.right][least.key])]]
<1>1. Map!remove(t, key) = (CHOOSE f : Lit(f))[t][key]
  BY Zenon DEF Map!remove
<1>2. ASSUME NEW f, NEW n PROVE Compute(f, "remove", {}, n) = RemoveStep(n, f)
  <2> DEFINE g == [y \in From("remove", n) |-> f[y]]
  <2>1. Compute(f, "remove", {}, n) = RemoveStep(n, g)
    <3> HIDE DEF g
    <3>1. Step("remove", {}, n, g) = RemoveStep(n, g)
      BY DEF Step
    <3> QED
      BY <3>1 DEF Compute, g
  <2>2. n # Map!Nil => g[n.left] = f[n.left] /\ g[n.right] = f[n.right]
    BY DEF From
  <2> HIDE DEF g
  <2> QED
    BY <2>1, <2>2 DEF RemoveStep
<1>3. ASSUME NEW f PROVE Lit(f) <=> Computed(f, "remove", {}, D)
  <2>1. [n \in D |-> RemoveStep(n, f)] = [n \in D |-> Compute(f, "remove", {}, n)]
    <3> HIDE DEF D
    <3> QED
      BY <1>2
  <2>2. Lit(f) <=> f = [n \in D |-> RemoveStep(n, f)]
    BY Zenon DEF RemoveStep
  <2> HIDE DEF Lit, D
  <2> QED
    BY <2>1, <2>2, Zenon DEF Computed
<1>4. (CHOOSE f : Lit(f)) = Value("remove", {}, D)
  <2> HIDE DEF Lit, D
  <2> QED
    BY <1>3, Zenon DEF Value
<1>5. \A n \in D : Value("remove", {}, D)[n] = Compute(Value("remove", {}, D), "remove", {}, n)
  BY TreeValue
<1> HIDE DEF Lit, D
<1>6. Map!remove(t, key) = Value("remove", {}, D)[t][key]
  BY <1>1, <1>4, Zenon
<1> DEFINE f == Value("remove", {}, D)
<1>7. \A n \in Map!links(t) : f[n] = RemoveStep(n, f)
  BY <1>2, <1>5 DEF D
<1> HIDE DEF f
<1>8. Map!remove(t, key) = f[t][key]
  BY <1>6 DEF f
<1> QED
  BY <1>7, <1>8

(* So does retain_from. *)
LEMMA RetainRule ==
  ASSUME NEW t, AVL(t), NEW key
  PROVE  \E f : /\ Map!retain_from(t, key) = f[t]
                /\ \A n \in Map!links(t) : f[n] = RetainStep(key, n, f)
<1> DEFINE D == Map!links(t)
           Lit(f) == f = [n \in Map!links(t) |->
            IF n = Map!Nil THEN Map!Nil
            ELSE IF n.key < key THEN f[n.right]
            ELSE Map!join(f[n.left], n.key, n.value, n.right)]
<1>1. Map!retain_from(t, key) = (CHOOSE f : Lit(f))[t]
  BY Zenon DEF Map!retain_from
<1>2. ASSUME NEW f, NEW n PROVE Compute(f, "retain", key, n) = RetainStep(key, n, f)
  <2> DEFINE g == [y \in From("retain", n) |-> f[y]]
  <2>1. Compute(f, "retain", key, n) = RetainStep(key, n, g)
    <3> HIDE DEF g
    <3>1. Step("retain", key, n, g) = RetainStep(key, n, g)
      BY DEF Step
    <3> QED
      BY <3>1 DEF Compute, g
  <2>2. n # Map!Nil => g[n.left] = f[n.left] /\ g[n.right] = f[n.right]
    BY DEF From
  <2> HIDE DEF g
  <2> QED
    BY <2>1, <2>2 DEF RetainStep
<1>3. ASSUME NEW f PROVE Lit(f) <=> Computed(f, "retain", key, D)
  <2>1. [n \in D |-> RetainStep(key, n, f)] = [n \in D |-> Compute(f, "retain", key, n)]
    <3> HIDE DEF D
    <3> QED
      BY <1>2
  <2>2. Lit(f) <=> f = [n \in D |-> RetainStep(key, n, f)]
    BY Zenon DEF RetainStep
  <2> HIDE DEF Lit, D
  <2> QED
    BY <2>1, <2>2, Zenon DEF Computed
<1>4. (CHOOSE f : Lit(f)) = Value("retain", key, D)
  <2> HIDE DEF Lit, D
  <2> QED
    BY <1>3, Zenon DEF Value
<1>5. \A n \in D : Value("retain", key, D)[n] = Compute(Value("retain", key, D), "retain", key, n)
  BY TreeValue
<1> HIDE DEF Lit, D
<1>6. Map!retain_from(t, key) = Value("retain", key, D)[t]
  BY <1>1, <1>4, Zenon
<1> DEFINE f == Value("retain", key, D)
<1>7. \A n \in Map!links(t) : f[n] = RetainStep(key, n, f)
  BY <1>2, <1>5 DEF D
<1> HIDE DEF f
<1>8. Map!retain_from(t, key) = f[t]
  BY <1>6 DEF f
<1> QED
  BY <1>7, <1>8

(* So does get. *)
LEMMA GetRule ==
  ASSUME NEW t, AVL(t), NEW key
  PROVE  \E f : /\ Map!get(t, key) = f[t]
                /\ \A n \in Map!links(t) : f[n] = GetStep(key, n, f)
<1> DEFINE D == Map!links(t)
           Lit(f) == f = [n \in Map!links(t) |->
            IF n = Map!Nil THEN Map!None
            ELSE IF key < n.key THEN f[n.left]
            ELSE IF key > n.key THEN f[n.right]
            ELSE Map!Some(n.key, n.value)]
<1>1. Map!get(t, key) = (CHOOSE f : Lit(f))[t]
  BY Zenon DEF Map!get
<1>2. ASSUME NEW f, NEW n PROVE Compute(f, "get", key, n) = GetStep(key, n, f)
  <2> DEFINE g == [y \in From("get", n) |-> f[y]]
  <2>1. Compute(f, "get", key, n) = GetStep(key, n, g)
    <3> HIDE DEF g
    <3>1. Step("get", key, n, g) = GetStep(key, n, g)
      BY DEF Step
    <3> QED
      BY <3>1 DEF Compute, g
  <2>2. n # Map!Nil => g[n.left] = f[n.left] /\ g[n.right] = f[n.right]
    BY DEF From
  <2> HIDE DEF g
  <2> QED
    BY <2>1, <2>2 DEF GetStep
<1>3. ASSUME NEW f PROVE Lit(f) <=> Computed(f, "get", key, D)
  <2>1. [n \in D |-> GetStep(key, n, f)] = [n \in D |-> Compute(f, "get", key, n)]
    <3> HIDE DEF D
    <3> QED
      BY <1>2
  <2>2. Lit(f) <=> f = [n \in D |-> GetStep(key, n, f)]
    BY Zenon DEF GetStep
  <2> HIDE DEF Lit, D
  <2> QED
    BY <2>1, <2>2, Zenon DEF Computed
<1>4. (CHOOSE f : Lit(f)) = Value("get", key, D)
  <2> HIDE DEF Lit, D
  <2> QED
    BY <1>3, Zenon DEF Value
<1>5. \A n \in D : Value("get", key, D)[n] = Compute(Value("get", key, D), "get", key, n)
  BY TreeValue
<1> HIDE DEF Lit, D
<1>6. Map!get(t, key) = Value("get", key, D)[t]
  BY <1>1, <1>4, Zenon
<1> DEFINE f == Value("get", key, D)
<1>7. \A n \in Map!links(t) : f[n] = GetStep(key, n, f)
  BY <1>2, <1>5 DEF D
<1> HIDE DEF f
<1>8. Map!get(t, key) = f[t]
  BY <1>6 DEF f
<1> QED
  BY <1>7, <1>8

(* So does floor. *)
LEMMA FloorRule ==
  ASSUME NEW t, AVL(t), NEW key
  PROVE  \E f : /\ Map!floor(t, key) = f[t]
                /\ \A n \in Map!links(t) : f[n] = FloorStep(key, n, f)
<1> DEFINE D == Map!links(t)
           Lit(f) == f = [n \in Map!links(t) |->
            IF n = Map!Nil THEN Map!None
            ELSE IF n.key <= key
            THEN IF f[n.right].found THEN f[n.right] ELSE Map!Some(n.key, n.value)
            ELSE f[n.left]]
<1>1. Map!floor(t, key) = (CHOOSE f : Lit(f))[t]
  BY Zenon DEF Map!floor
<1>2. ASSUME NEW f, NEW n PROVE Compute(f, "floor", key, n) = FloorStep(key, n, f)
  <2> DEFINE g == [y \in From("floor", n) |-> f[y]]
  <2>1. Compute(f, "floor", key, n) = FloorStep(key, n, g)
    <3> HIDE DEF g
    <3>1. Step("floor", key, n, g) = FloorStep(key, n, g)
      BY DEF Step
    <3> QED
      BY <3>1 DEF Compute, g
  <2>2. n # Map!Nil => g[n.left] = f[n.left] /\ g[n.right] = f[n.right]
    BY DEF From
  <2> HIDE DEF g
  <2> QED
    BY <2>1, <2>2 DEF FloorStep
<1>3. ASSUME NEW f PROVE Lit(f) <=> Computed(f, "floor", key, D)
  <2>1. [n \in D |-> FloorStep(key, n, f)] = [n \in D |-> Compute(f, "floor", key, n)]
    <3> HIDE DEF D
    <3> QED
      BY <1>2
  <2>2. Lit(f) <=> f = [n \in D |-> FloorStep(key, n, f)]
    BY Zenon DEF FloorStep
  <2> HIDE DEF Lit, D
  <2> QED
    BY <2>1, <2>2, Zenon DEF Computed
<1>4. (CHOOSE f : Lit(f)) = Value("floor", key, D)
  <2> HIDE DEF Lit, D
  <2> QED
    BY <1>3, Zenon DEF Value
<1>5. \A n \in D : Value("floor", key, D)[n] = Compute(Value("floor", key, D), "floor", key, n)
  BY TreeValue
<1> HIDE DEF Lit, D
<1>6. Map!floor(t, key) = Value("floor", key, D)[t]
  BY <1>1, <1>4, Zenon
<1> DEFINE f == Value("floor", key, D)
<1>7. \A n \in Map!links(t) : f[n] = FloorStep(key, n, f)
  BY <1>2, <1>5 DEF D
<1> HIDE DEF f
<1>8. Map!floor(t, key) = f[t]
  BY <1>6 DEF f
<1> QED
  BY <1>7, <1>8

(* So does the descent of Range::next. *)
LEMMA DescendRule ==
  ASSUME NEW t, AVL(t)
  PROVE  \E f : /\ Map!descend_left(t) = f[t]
                /\ \A n \in Map!links(t) : f[n] = DescendStep(n, f)
<1> DEFINE D == Map!links(t)
           Lit(f) == f = [n \in Map!links(t) |->
            IF n = Map!Nil THEN <<>> ELSE <<n>> \o f[n.left]]
<1>1. Map!descend_left(t) = (CHOOSE f : Lit(f))[t]
  BY Zenon DEF Map!descend_left
<1>2. ASSUME NEW f, NEW n PROVE Compute(f, "descend", {}, n) = DescendStep(n, f)
  <2> DEFINE g == [y \in From("descend", n) |-> f[y]]
  <2>1. Compute(f, "descend", {}, n) = DescendStep(n, g)
    <3> HIDE DEF g
    <3>1. Step("descend", {}, n, g) = DescendStep(n, g)
      BY DEF Step
    <3> QED
      BY <3>1 DEF Compute, g
  <2>2. n # Map!Nil => g[n.left] = f[n.left] /\ g[n.right] = f[n.right]
    BY DEF From
  <2> HIDE DEF g
  <2> QED
    BY <2>1, <2>2 DEF DescendStep
<1>3. ASSUME NEW f PROVE Lit(f) <=> Computed(f, "descend", {}, D)
  <2>1. [n \in D |-> DescendStep(n, f)] = [n \in D |-> Compute(f, "descend", {}, n)]
    <3> HIDE DEF D
    <3> QED
      BY <1>2
  <2>2. Lit(f) <=> f = [n \in D |-> DescendStep(n, f)]
    BY Zenon DEF DescendStep
  <2> HIDE DEF Lit, D
  <2> QED
    BY <2>1, <2>2, Zenon DEF Computed
<1>4. (CHOOSE f : Lit(f)) = Value("descend", {}, D)
  <2> HIDE DEF Lit, D
  <2> QED
    BY <1>3, Zenon DEF Value
<1>5. \A n \in D : Value("descend", {}, D)[n] = Compute(Value("descend", {}, D), "descend", {}, n)
  BY TreeValue
<1> HIDE DEF Lit, D
<1>6. Map!descend_left(t) = Value("descend", {}, D)[t]
  BY <1>1, <1>4, Zenon
<1> DEFINE f == Value("descend", {}, D)
<1>7. \A n \in Map!links(t) : f[n] = DescendStep(n, f)
  BY <1>2, <1>5 DEF D
<1> HIDE DEF f
<1>8. Map!descend_left(t) = f[t]
  BY <1>6 DEF f
<1> QED
  BY <1>7, <1>8

(* So does the descent of range. *)
LEMMA SeekRule ==
  ASSUME NEW t, AVL(t), NEW lower
  PROVE  \E f : /\ Map!seek(t, lower) = f[t]
                /\ \A n \in Map!links(t) : f[n] = SeekStep(lower, n, f)
<1> DEFINE D == Map!links(t)
           Lit(f) == f = [n \in Map!links(t) |->
            IF n = Map!Nil THEN <<>>
            ELSE IF n.key < lower THEN f[n.right]
            ELSE <<n>> \o f[n.left]]
<1>1. Map!seek(t, lower) = (CHOOSE f : Lit(f))[t]
  BY Zenon DEF Map!seek
<1>2. ASSUME NEW f, NEW n PROVE Compute(f, "seek", lower, n) = SeekStep(lower, n, f)
  <2> DEFINE g == [y \in From("seek", n) |-> f[y]]
  <2>1. Compute(f, "seek", lower, n) = SeekStep(lower, n, g)
    <3> HIDE DEF g
    <3>1. Step("seek", lower, n, g) = SeekStep(lower, n, g)
      BY DEF Step
    <3> QED
      BY <3>1 DEF Compute, g
  <2>2. n # Map!Nil => g[n.left] = f[n.left] /\ g[n.right] = f[n.right]
    BY DEF From
  <2> HIDE DEF g
  <2> QED
    BY <2>1, <2>2 DEF SeekStep
<1>3. ASSUME NEW f PROVE Lit(f) <=> Computed(f, "seek", lower, D)
  <2>1. [n \in D |-> SeekStep(lower, n, f)] = [n \in D |-> Compute(f, "seek", lower, n)]
    <3> HIDE DEF D
    <3> QED
      BY <1>2
  <2>2. Lit(f) <=> f = [n \in D |-> SeekStep(lower, n, f)]
    BY Zenon DEF SeekStep
  <2> HIDE DEF Lit, D
  <2> QED
    BY <2>1, <2>2, Zenon DEF Computed
<1>4. (CHOOSE f : Lit(f)) = Value("seek", lower, D)
  <2> HIDE DEF Lit, D
  <2> QED
    BY <1>3, Zenon DEF Value
<1>5. \A n \in D : Value("seek", lower, D)[n] = Compute(Value("seek", lower, D), "seek", lower, n)
  BY TreeValue
<1> HIDE DEF Lit, D
<1>6. Map!seek(t, lower) = Value("seek", lower, D)[t]
  BY <1>1, <1>4, Zenon
<1> DEFINE f == Value("seek", lower, D)
<1>7. \A n \in Map!links(t) : f[n] = SeekStep(lower, n, f)
  BY <1>2, <1>5 DEF D
<1> HIDE DEF f
<1>8. Map!seek(t, lower) = f[t]
  BY <1>6 DEF f
<1> QED
  BY <1>7, <1>8

(* The subtrees a join still joins, one of each side.                      *)
LEMMA JoinValue ==
  ASSUME NEW a, NEW t, AVL(t), NEW u, AVL(u)
  PROVE  LET D == Map!links(t) \X Map!links(u)
         IN  \A p \in D : Value("join", a, D)[p] = Compute(Value("join", a, D), "join", a, p)
<1> DEFINE D == Map!links(t) \X Map!links(u)
           M == [p \in D |-> p[1].height + p[2].height]
<1>1. \A n \in Map!links(t) \union Map!links(u) : n.height \in Nat
  BY LinksOfLinks DEF AVL
<1>2. M \in [D -> Nat]
  BY <1>1
<1>3. Closed("join", D, M)
  <2>1. ASSUME NEW p \in D, p[1].height > p[2].height + 1
        PROVE  <<p[1].right, p[2]>> \in D /\ M[<<p[1].right, p[2]>>] < M[p]
    <3>1. PICK n \in Map!links(t), m \in Map!links(u) : p = <<n, m>>
      OBVIOUS
    <3>2. n.height > m.height + 1 /\ n.height \in Nat /\ m.height \in Nat
      BY <1>1, <2>1, <3>1
    <3>3. n # Map!Nil
      BY <3>2, NilHeight
    <3>4. n.right \in Map!links(t) /\ AVL(n)
      BY <3>3, ChildLinks, LinksOfLinks
    <3>5. n.right.height \in Nat /\ n.right.height + 1 <= n.height
      BY <3>3, <3>4, OpenTree
    <3>6. <<n.right, m>> \in D
      BY <3>4
    <3>7. M[<<n.right, m>>] = n.right.height + m.height /\ M[<<n, m>>] = n.height + m.height
      BY <3>6, <3>1
    <3> HIDE DEF M, D
    <3> QED
      BY <3>1, <3>2, <3>5, <3>6, <3>7
  <2>2. ASSUME NEW p \in D, p[2].height > p[1].height + 1
        PROVE  <<p[1], p[2].left>> \in D /\ M[<<p[1], p[2].left>>] < M[p]
    <3>1. PICK n \in Map!links(t), m \in Map!links(u) : p = <<n, m>>
      OBVIOUS
    <3>2. m.height > n.height + 1 /\ n.height \in Nat /\ m.height \in Nat
      BY <1>1, <2>2, <3>1
    <3>3. m # Map!Nil
      BY <3>2, NilHeight
    <3>4. m.left \in Map!links(u) /\ AVL(m)
      BY <3>3, ChildLinks, LinksOfLinks
    <3>5. m.left.height \in Nat /\ m.left.height + 1 <= m.height
      BY <3>3, <3>4, OpenTree
    <3>6. <<n, m.left>> \in D
      BY <3>4
    <3>7. M[<<n, m.left>>] = n.height + m.left.height /\ M[<<n, m>>] = n.height + m.height
      BY <3>6, <3>1
    <3> HIDE DEF M, D
    <3> QED
      BY <3>1, <3>2, <3>5, <3>6, <3>7
  <2> HIDE DEF M, D
  <2> QED
    BY <2>1, <2>2 DEF Closed, From
<1> HIDE DEF M, D
<1>4. \A p \in D : Value("join", a, D)[p] = Compute(Value("join", a, D), "join", a, p)
  BY <1>2, <1>3, ValueIs
<1> QED
  BY <1>4 DEF D

(* join obeys its recursion on pairs of links. *)
LEMMA JoinRule ==
  ASSUME NEW t, AVL(t), NEW u, AVL(u), NEW key, NEW value
  PROVE  \E f : /\ Map!join(t, key, value, u) = f[<<t, u>>]
                /\ \A p \in Map!links(t) \X Map!links(u) : f[p] = JoinStep(key, value, p, f)
<1> DEFINE D == Map!links(t) \X Map!links(u)
           a == <<key, value>>
           Lit(f) == f = [p \in Map!links(t) \X Map!links(u) |->
                            LET l == p[1]
                                r == p[2]
                            IN  IF l.height > r.height + 1
                                THEN Map!balance(Map!node(l.key, l.value, l.left, f[<<l.right, r>>]))
                                ELSE IF r.height > l.height + 1
                                THEN Map!balance(Map!node(r.key, r.value, f[<<l, r.left>>], r.right))
                                ELSE Map!node(key, value, l, r)]
<1>1. Map!join(t, key, value, u) = (CHOOSE f : Lit(f))[<<t, u>>]
  BY Zenon DEF Map!join
<1>2. ASSUME NEW f, NEW p PROVE Compute(f, "join", a, p) = JoinStep(key, value, p, f)
  <2> DEFINE g == [y \in From("join", p) |-> f[y]]
  <2>1. Compute(f, "join", a, p) = JoinStep(key, value, p, g)
    <3> HIDE DEF g
    <3>1. Step("join", a, p, g) = JoinStep(key, value, p, g)
      BY DEF Step
    <3> QED
      BY <3>1 DEF Compute, g
  <2>2. CASE p[1].height > p[2].height + 1
    <3>1. g[<<p[1].right, p[2]>>] = f[<<p[1].right, p[2]>>]
      BY <2>2 DEF From
    <3> HIDE DEF g
    <3> QED
      BY <2>1, <2>2, <3>1 DEF JoinStep
  <2>3. CASE ~ (p[1].height > p[2].height + 1) /\ p[2].height > p[1].height + 1
    <3>1. g[<<p[1], p[2].left>>] = f[<<p[1], p[2].left>>]
      BY <2>3 DEF From
    <3> HIDE DEF g
    <3> QED
      BY <2>1, <2>3, <3>1 DEF JoinStep
  <2>4. CASE ~ (p[1].height > p[2].height + 1) /\ ~ (p[2].height > p[1].height + 1)
    <3> HIDE DEF g
    <3> QED
      BY <2>1, <2>4 DEF JoinStep
  <2> QED
    BY <2>2, <2>3, <2>4
<1>3. ASSUME NEW f PROVE Lit(f) <=> Computed(f, "join", a, D)
  <2>1. [p \in D |-> JoinStep(key, value, p, f)] = [p \in D |-> Compute(f, "join", a, p)]
    <3> HIDE DEF a, D
    <3> QED
      BY <1>2
  <2>2. Lit(f) <=> f = [p \in D |-> JoinStep(key, value, p, f)]
    BY Zenon DEF JoinStep
  <2> HIDE DEF Lit, D, a
  <2> QED
    BY <2>1, <2>2, Zenon DEF Computed
<1>4. (CHOOSE f : Lit(f)) = Value("join", a, D)
  <2> HIDE DEF Lit, D, a
  <2> QED
    BY <1>3, Zenon DEF Value
<1>5. \A p \in D : Value("join", a, D)[p] = Compute(Value("join", a, D), "join", a, p)
  <2> HIDE DEF a
  <2> QED
    BY JoinValue
<1> HIDE DEF Lit, D, a
<1>6. Map!join(t, key, value, u) = Value("join", a, D)[<<t, u>>]
  BY <1>1, <1>4, Zenon
<1>7. \A p \in D : Value("join", a, D)[p] = JoinStep(key, value, p, Value("join", a, D))
  BY <1>2, <1>5
<1> QED
  BY <1>6, <1>7 DEF D

-----------------------------------------------------------------------------
(* What the updates leave. *)

(* join (ordered_map.rs) of two trees of any heights around an entry
   between them: an AVL tree of both and the entry, no lower than the
   higher of the two and at most one level higher. *)
THEOREM JoinActs ==
  ASSUME NEW t, AVL(t), NEW u, AVL(u), NEW key, NEW value, Between(t, key, u)
  PROVE  Balanced(Map!join(t, key, value, u), t, key, value, u)
<1> DEFINE D == Map!links(t) \X Map!links(u)
           M == [p \in D |-> p[1].height + p[2].height]
<1>1. PICK f : /\ Map!join(t, key, value, u) = f[<<t, u>>]
               /\ \A p \in Map!links(t) \X Map!links(u) : f[p] = JoinStep(key, value, p, f)
  BY JoinRule
<1> DEFINE Joins(n, m) == Between(n, key, m) => Balanced(f[<<n, m>>], n, key, value, m)
           S == {p \in D : Joins(p[1], p[2])}
<1>2. \A n \in Map!links(t) \union Map!links(u) : n.height \in Nat /\ AVL(n)
  BY LinksOfLinks DEF AVL
<1>3. M \in [D -> Nat]
  BY <1>2
<1>4. ASSUME NEW n \in Map!links(t), NEW m \in Map!links(u), Between(n, key, m),
             \A y \in D : M[y] < M[<<n, m>>] => y \in S
      PROVE  Balanced(f[<<n, m>>], n, key, value, m)
  <2>1. AVL(n) /\ AVL(m) /\ n.height \in Nat /\ m.height \in Nat /\ key \in Int
    BY <1>2, <1>4 DEF Between
  <2>2. f[<<n, m>>] = JoinStep(key, value, <<n, m>>, f)
    BY <1>1
  <2>3. CASE n.height > m.height + 1
    <3>1. n # Map!Nil
      BY <2>1, <2>3, NilHeight
    <3>2. n.right \in Map!links(t) /\ n.right.height \in Nat /\ n.right.height + 1 <= n.height
      BY <2>1, <3>1, ChildLinks, OpenTree
    <3>3. /\ AVL(n.left) /\ AVL(n.right) /\ Splits(n, n.left, n.key, n.value, n.right)
          /\ Between(n.left, n.key, n.right)
          /\ Even(n.left, n.right) /\ Height(n.height, n.left, n.right)
      BY <2>1, <3>1, OpenNode
    <3>4. Below(n.right, key) /\ n.key < key
      BY <1>4, <3>3, SplitSides DEF Between
    <3>5. Between(n.right, key, m)
      BY <1>4, <3>4 DEF Between
    <3> DEFINE x == f[<<n.right, m>>]
    <3>6. Balanced(x, n.right, key, value, m)
      <4>1. <<n.right, m>> \in D /\ <<n, m>> \in D
        BY <3>2
      <4>2. M[<<n.right, m>>] = n.right.height + m.height /\ M[<<n, m>>] = n.height + m.height
        BY <4>1
      <4>3. M[<<n.right, m>>] < M[<<n, m>>]
        BY <2>1, <3>2, <4>2
      <4>4. <<n.right, m>> \in S
        BY <1>4, <4>1, <4>3
      <4>5. Joins(n.right, m)
        BY <4>4
      <4> QED
        BY <3>5, <4>5
    <3>7. f[<<n, m>>] = Map!balance(Map!node(n.key, n.value, n.left, x))
      <4>1. <<n, m>>[1] = n /\ <<n, m>>[2] = m
        OBVIOUS
      <4> QED
        BY <2>2, <2>3, <4>1 DEF JoinStep
    <3> HIDE DEF x, S, M, D
    <3>8. AVL(x) /\ Splits(x, n.right, key, value, m) /\ Grown(x.height, n.right, m)
          /\ x.height \in Nat
      BY <3>6 DEF Balanced, AVL
    <3>9. Between(n.left, n.key, x)
      <4>1. Above(m, n.key)
        BY <1>4, <2>1, <3>3, <3>4, FurtherSides DEF Between
      <4> QED
        BY <3>3, <3>4, <3>8, <4>1, SplitSides DEF Between
    <3>10. n.left.height \in Nat
      BY <3>3 DEF AVL
    <3>11. n.left.height <= x.height + 2 /\ x.height <= n.left.height + 2
      BY <2>1, <2>3, <3>2, <3>3, <3>8, <3>10 DEF Even, Height, Grown
    <3> DEFINE b == Map!balance(Map!node(n.key, n.value, n.left, x))
    <3>12. /\ Balanced(b, n.left, n.key, n.value, x)
           /\ Even(n.left, x) => Height(b.height, n.left, x)
      BY <3>3, <3>8, <3>9, <3>11, Rebalance
    <3> HIDE DEF b
    <3>13. AVL(b) /\ Splits(b, n.left, n.key, n.value, x) /\ Grown(b.height, n.left, x)
           /\ b.height \in Nat
      BY <3>12 DEF Balanced, AVL
    <3>14. Splits(b, n, key, value, m)
      BY <3>3, <3>8, <3>13 DEF Splits
    <3>15. Grown(b.height, n, m)
      BY <2>1, <2>3, <3>2, <3>3, <3>8, <3>10, <3>12, <3>13 DEF Even, Height, Grown
    <3> QED
      BY <3>7, <3>13, <3>14, <3>15 DEF Balanced, b
  <2>4. CASE m.height > n.height + 1
    <3>1. m # Map!Nil
      BY <2>1, <2>4, NilHeight
    <3>2. m.left \in Map!links(u) /\ m.left.height \in Nat /\ m.left.height + 1 <= m.height
      BY <2>1, <3>1, ChildLinks, OpenTree
    <3>3. /\ AVL(m.left) /\ AVL(m.right) /\ Splits(m, m.left, m.key, m.value, m.right)
          /\ Between(m.left, m.key, m.right)
          /\ Even(m.left, m.right) /\ Height(m.height, m.left, m.right)
      BY <2>1, <3>1, OpenNode
    <3>4. Above(m.left, key) /\ key < m.key
      BY <1>4, <3>3, SplitSides DEF Between
    <3>5. Between(n, key, m.left)
      BY <1>4, <3>4 DEF Between
    <3> DEFINE x == f[<<n, m.left>>]
    <3>6. Balanced(x, n, key, value, m.left)
      <4>1. <<n, m.left>> \in D /\ <<n, m>> \in D
        BY <3>2
      <4>2. M[<<n, m.left>>] = n.height + m.left.height /\ M[<<n, m>>] = n.height + m.height
        BY <4>1
      <4>3. M[<<n, m.left>>] < M[<<n, m>>]
        BY <2>1, <3>2, <4>2
      <4>4. <<n, m.left>> \in S
        BY <1>4, <4>1, <4>3
      <4>5. Joins(n, m.left)
        BY <4>4
      <4> QED
        BY <3>5, <4>5
    <3>7. f[<<n, m>>] = Map!balance(Map!node(m.key, m.value, x, m.right))
      <4>1. <<n, m>>[1] = n /\ <<n, m>>[2] = m /\ ~ (n.height > m.height + 1)
        BY <2>1, <2>4
      <4> QED
        BY <2>2, <2>4, <4>1 DEF JoinStep
    <3> HIDE DEF x, S, M, D
    <3>8. AVL(x) /\ Splits(x, n, key, value, m.left) /\ Grown(x.height, n, m.left)
          /\ x.height \in Nat
      BY <3>6 DEF Balanced, AVL
    <3>9. Between(x, m.key, m.right)
      <4>1. Below(n, m.key)
        BY <1>4, <2>1, <3>3, <3>4, FurtherSides DEF Between
      <4> QED
        BY <3>3, <3>4, <3>8, <4>1, SplitSides DEF Between
    <3>10. m.right.height \in Nat
      BY <3>3 DEF AVL
    <3>11. m.right.height <= x.height + 2 /\ x.height <= m.right.height + 2
      BY <2>1, <2>4, <3>2, <3>3, <3>8, <3>10 DEF Even, Height, Grown
    <3> DEFINE b == Map!balance(Map!node(m.key, m.value, x, m.right))
    <3>12. /\ Balanced(b, x, m.key, m.value, m.right)
           /\ Even(x, m.right) => Height(b.height, x, m.right)
      BY <3>3, <3>8, <3>9, <3>11, Rebalance
    <3> HIDE DEF b
    <3>13. AVL(b) /\ Splits(b, x, m.key, m.value, m.right) /\ Grown(b.height, x, m.right)
           /\ b.height \in Nat
      BY <3>12 DEF Balanced, AVL
    <3>14. Splits(b, n, key, value, m)
      BY <3>3, <3>8, <3>13 DEF Splits
    <3>15. Grown(b.height, n, m)
      BY <2>1, <2>4, <3>2, <3>3, <3>8, <3>10, <3>12, <3>13 DEF Even, Height, Grown
    <3> QED
      BY <3>7, <3>13, <3>14, <3>15 DEF Balanced, b
  <2>5. CASE ~ (n.height > m.height + 1) /\ ~ (m.height > n.height + 1)
    <3>1. f[<<n, m>>] = Map!node(key, value, n, m)
      <4>1. <<n, m>>[1] = n /\ <<n, m>>[2] = m
        OBVIOUS
      <4> QED
        BY <2>2, <2>5, <4>1 DEF JoinStep
    <3>2. Even(n, m)
      BY <2>1, <2>5 DEF Even
    <3> HIDE DEF S, M, D
    <3>3. /\ AVL(Map!node(key, value, n, m)) /\ Splits(Map!node(key, value, n, m), n, key, value, m)
          /\ Height(Map!node(key, value, n, m).height, n, m)
      BY <1>4, <2>1, <3>2, MakeNode
    <3> QED
      BY <3>1, <3>3 DEF Balanced, Grown
  <2> QED
    BY <2>3, <2>4, <2>5
<1>5. ASSUME NEW p \in D, \A y \in D : M[y] < M[p] => y \in S
      PROVE  p \in S
  <2>1. PICK n \in Map!links(t), m \in Map!links(u) : p = <<n, m>>
    OBVIOUS
  <2>2. Joins(n, m)
    BY <1>4, <1>5, <2>1
  <2> QED
    BY <2>1, <2>2
<1>6. D \subseteq S
  <2> HIDE DEF S, M, D
  <2> QED
    BY <1>3, <1>5, Descent
<1>7. <<t, u>> \in D
  BY TopLink DEF AVL
<1>8. Joins(t, u)
  BY <1>6, <1>7
<1> QED
  BY <1>1, <1>8

(* The entries of other keys. *)
Without(S, key) == {p \in S : p[1] # key}

Inserted(b, n, key, value) ==
  /\ AVL(b) /\ b.height \in {n.height, n.height + 1}
  /\ Map!Pairs(b) = Without(Map!Pairs(n), key) \union {<<key, value>>}

(* A key that a tree is wholly on one side of is not in it. *)
LEMMA WithoutSides ==
  ASSUME NEW t, NEW k \in Int, Below(t, k) \/ Above(t, k)
  PROVE  Without(Map!Pairs(t), k) = Map!Pairs(t)
<1>1. ASSUME NEW p \in Map!Pairs(t), p[1] = k PROVE FALSE
  BY <1>1 DEF Below, Above
<1> QED
  BY <1>1 DEF Without

(* Removing a key from a single entry. *)
LEMMA WithoutOne ==
  ASSUME NEW k, NEW v, NEW key
  PROVE  Without({<<k, v>>}, key) = IF k = key THEN {} ELSE {<<k, v>>}
<1>1. <<k, v>>[1] = k
  OBVIOUS
<1> QED
  BY <1>1 DEF Without

(* Removing entries leaves the others on their side. *)
LEMMA WithoutKeepsSides ==
  ASSUME NEW t, NEW u, NEW key, Map!Pairs(u) \subseteq Without(Map!Pairs(t), key), NEW k
  PROVE  (Below(t, k) => Below(u, k)) /\ (Above(t, k) => Above(u, k))
  BY DEF Without, Below, Above

(* Inserting a key on one side of another leaves the tree on that side. *)
LEMMA InsertedSides ==
  ASSUME NEW b, NEW n, NEW key, NEW value, Inserted(b, n, key, value), NEW k
  PROVE  /\ Below(n, k) /\ key < k => Below(b, k)
         /\ Above(n, k) /\ k < key => Above(b, k)
<1>1. <<key, value>>[1] = key
  OBVIOUS
<1> QED
  BY <1>1 DEF Inserted, Without, Below, Above

(* The empty tree is on every side of every key. *)
LEMMA NilSides == \A k : Below(Map!Nil, k) /\ Above(Map!Nil, k)
  BY NilTree DEF Below, Above

(* One level of insert: if the recursive calls insert into the subtrees,
   the node is right. *)
LEMMA InsertStepActs ==
  ASSUME NEW n, AVL(n), NEW key \in Int, NEW value, NEW f,
         n # Map!Nil => Inserted(f[n.left], n.left, key, value)
                    /\ Inserted(f[n.right], n.right, key, value)
  PROVE  Inserted(InsertStep(key, value, n, f), n, key, value)
<1>1. CASE n = Map!Nil
  <2>1. AVL(Map!Nil) /\ Between(Map!Nil, key, Map!Nil) /\ Even(Map!Nil, Map!Nil) /\ Map!Pairs(Map!Nil) = {}
    BY NilTree, NilSides, NilHeight DEF Between, Even
  <2> DEFINE b == Map!node(key, value, Map!Nil, Map!Nil)
  <2>2. AVL(b) /\ Splits(b, Map!Nil, key, value, Map!Nil) /\ Height(b.height, Map!Nil, Map!Nil)
    BY <2>1, MakeNode
  <2>3. InsertStep(key, value, n, f) = b
    BY <1>1 DEF InsertStep
  <2> HIDE DEF b
  <2>4. b.height = 1 /\ n.height = 0
    BY <1>1, <2>2, NilHeight DEF Height
  <2>5. Map!Pairs(b) = {<<key, value>>} /\ Without(Map!Pairs(n), key) = {}
    BY <1>1, <2>1, <2>2 DEF Splits, Without
  <2> QED
    BY <2>2, <2>3, <2>4, <2>5 DEF Inserted
<1>2. CASE n # Map!Nil
  <2>1. /\ AVL(n.left) /\ AVL(n.right) /\ Splits(n, n.left, n.key, n.value, n.right)
        /\ Between(n.left, n.key, n.right)
        /\ Even(n.left, n.right) /\ Height(n.height, n.left, n.right)
    BY <1>2, OpenNode
  <2>2. n.left.height \in Nat /\ n.right.height \in Nat /\ n.height \in Nat /\ n.key \in Int
    BY <2>1 DEF AVL, Between
  <2>3. Without(Map!Pairs(n), key)
          = Without(Map!Pairs(n.left), key) \union Without({<<n.key, n.value>>}, key)
                                 \union Without(Map!Pairs(n.right), key)
    <3>1. Splits(n, n.left, n.key, n.value, n.right)
      BY <2>1
    <3> QED
      BY <3>1 DEF Splits, Without
  <2>4. Without({<<n.key, n.value>>}, key) = IF n.key = key THEN {} ELSE {<<n.key, n.value>>}
    BY WithoutOne
  <2>5. CASE key < n.key
    <3> DEFINE x == f[n.left]
               b == Map!balance(Map!node(n.key, n.value, x, n.right))
    <3>1. InsertStep(key, value, n, f) = b
      BY <1>2, <2>5 DEF InsertStep
    <3>2. Inserted(x, n.left, key, value)
      BY <1>2
    <3> HIDE DEF x
    <3>3. AVL(x) /\ x.height \in {n.left.height, n.left.height + 1}
          /\ Map!Pairs(x) = Without(Map!Pairs(n.left), key) \union {<<key, value>>}
      BY <3>2 DEF Inserted
    <3>4. Between(x, n.key, n.right)
      BY <2>1, <2>5, <3>2, InsertedSides DEF Between
    <3>5. x.height <= n.right.height + 2 /\ n.right.height <= x.height + 2
      BY <2>1, <2>2, <3>3 DEF Even
    <3>6. /\ Balanced(b, x, n.key, n.value, n.right)
          /\ Even(x, n.right) => Height(b.height, x, n.right)
      BY <2>1, <3>3, <3>4, <3>5, Rebalance
    <3> HIDE DEF b
    <3>7. AVL(b) /\ Splits(b, x, n.key, n.value, n.right) /\ Grown(b.height, x, n.right)
      BY <3>6 DEF Balanced
    <3>8. b.height \in {n.height, n.height + 1}
      BY <2>1, <2>2, <3>3, <3>6, <3>7 DEF Even, Height, Grown
    <3>9. Without(Map!Pairs(n.right), key) = Map!Pairs(n.right)
      <4>1. Above(n.right, key)
        BY <2>1, <2>2, <2>5, FurtherSides DEF Between
      <4> QED
        BY <4>1, WithoutSides
    <3>10. Map!Pairs(b) = Without(Map!Pairs(n), key) \union {<<key, value>>}
      <4>1. n.key # key
        BY <2>2, <2>5
      <4> QED
        BY <2>3, <2>4, <3>3, <3>7, <3>9, <4>1 DEF Splits
    <3> QED
      BY <3>1, <3>7, <3>8, <3>10 DEF Inserted
  <2>6. CASE key > n.key
    <3> DEFINE x == f[n.right]
               b == Map!balance(Map!node(n.key, n.value, n.left, x))
    <3>1. InsertStep(key, value, n, f) = b
      <4>1. ~ (key < n.key)
        BY <2>2, <2>6
      <4> QED
        BY <1>2, <2>6, <4>1 DEF InsertStep
    <3>2. Inserted(x, n.right, key, value)
      BY <1>2
    <3> HIDE DEF x
    <3>3. AVL(x) /\ x.height \in {n.right.height, n.right.height + 1}
          /\ Map!Pairs(x) = Without(Map!Pairs(n.right), key) \union {<<key, value>>}
      BY <3>2 DEF Inserted
    <3>4. Between(n.left, n.key, x)
      <4>1. n.key < key
        BY <2>2, <2>6
      <4> QED
        BY <2>1, <3>2, <4>1, InsertedSides DEF Between
    <3>5. x.height <= n.left.height + 2 /\ n.left.height <= x.height + 2
      BY <2>1, <2>2, <3>3 DEF Even
    <3>6. /\ Balanced(b, n.left, n.key, n.value, x)
          /\ Even(n.left, x) => Height(b.height, n.left, x)
      BY <2>1, <3>3, <3>4, <3>5, Rebalance
    <3> HIDE DEF b
    <3>7. AVL(b) /\ Splits(b, n.left, n.key, n.value, x) /\ Grown(b.height, n.left, x)
      BY <3>6 DEF Balanced
    <3>8. b.height \in {n.height, n.height + 1}
      BY <2>1, <2>2, <3>3, <3>6, <3>7 DEF Even, Height, Grown
    <3>9. Without(Map!Pairs(n.left), key) = Map!Pairs(n.left)
      <4>1. Below(n.left, key)
        BY <2>1, <2>2, <2>6, FurtherSides DEF Between
      <4> QED
        BY <4>1, WithoutSides
    <3>10. Map!Pairs(b) = Without(Map!Pairs(n), key) \union {<<key, value>>}
      <4>1. n.key # key
        BY <2>2, <2>6
      <4> QED
        BY <2>3, <2>4, <3>3, <3>7, <3>9, <4>1 DEF Splits
    <3> QED
      BY <3>1, <3>7, <3>8, <3>10 DEF Inserted
  <2>7. CASE key = n.key
    <3> DEFINE b == Map!balance(Map!node(key, value, n.left, n.right))
    <3>1. InsertStep(key, value, n, f) = b
      <4>1. ~ (key < n.key) /\ ~ (key > n.key)
        BY <2>2, <2>7
      <4> QED
        BY <1>2, <4>1 DEF InsertStep
    <3>2. Between(n.left, key, n.right)
      BY <2>1, <2>7
    <3>3. n.left.height <= n.right.height + 2 /\ n.right.height <= n.left.height + 2
      BY <2>1, <2>2 DEF Even
    <3>4. Balanced(b, n.left, key, value, n.right) /\ Height(b.height, n.left, n.right)
      BY <2>1, <3>2, <3>3, Rebalance
    <3> HIDE DEF b
    <3>5. AVL(b) /\ Splits(b, n.left, key, value, n.right)
      BY <3>4 DEF Balanced
    <3>6. b.height = n.height
      BY <2>1, <3>4 DEF Height
    <3>7. Without(Map!Pairs(n.left), key) = Map!Pairs(n.left) /\ Without(Map!Pairs(n.right), key) = Map!Pairs(n.right)
      BY <3>2, WithoutSides DEF Between
    <3>8. Map!Pairs(b) = Without(Map!Pairs(n), key) \union {<<key, value>>}
      BY <2>3, <2>4, <2>7, <3>5, <3>7 DEF Splits
    <3> QED
      BY <3>1, <3>5, <3>6, <3>8 DEF Inserted
  <2> QED
    BY <2>2, <2>5, <2>6, <2>7
<1> QED
  BY <1>1, <1>2

(* insert (ordered_map.rs) into an AVL tree of any size: an AVL tree, at
   most one level higher, with the new entry and every entry of another
   key. *)
THEOREM InsertActs ==
  ASSUME NEW t, AVL(t), NEW key \in Int, NEW value
  PROVE  Inserted(Map!insert(t, key, value), t, key, value)
<1>1. PICK f : /\ Map!insert(t, key, value) = f[t]
               /\ \A n \in Map!links(t) : f[n] = InsertStep(key, value, n, f)
  BY InsertRule
<1> DEFINE S == {n \in Map!links(t) : Inserted(f[n], n, key, value)}
<1>2. ASSUME NEW n \in Map!links(t), n # Map!Nil => n.left \in S /\ n.right \in S
      PROVE  n \in S
  <2>1. AVL(n)
    BY LinksOfLinks
  <2>2. Inserted(InsertStep(key, value, n, f), n, key, value)
    BY <1>2, <2>1, InsertStepActs
  <2> QED
    BY <1>1, <2>2
<1>3. Map!links(t) \subseteq S
  <2> HIDE DEF S
  <2> QED
    BY <1>2, TreeInduction
<1>4. t \in S
  BY <1>3, TopLink DEF AVL
<1> QED
  BY <1>1, <1>4

(* The leftmost node holds the least key. *)
Leftmost(m, n) == /\ <<m.key, m.value>> \in Map!Pairs(n) /\ m.key \in Int
                  /\ \A p \in Map!Pairs(n) : m.key <= p[1]

(* The leftmost entry of a tree has its least key. *)
LEMMA FirstActs ==
  ASSUME NEW t, AVL(t), t # Map!Nil
  PROVE  Leftmost(Map!first(t), t)
<1>1. PICK f : /\ Map!first(t) = f[t]
               /\ \A n \in Map!links(t) : f[n] = FirstStep(n, f)
  BY FirstRule
<1> DEFINE S == {n \in Map!links(t) : n # Map!Nil => Leftmost(f[n], n)}
<1>2. ASSUME NEW n \in Map!links(t), n # Map!Nil => n.left \in S /\ n.right \in S
      PROVE  n \in S
  <2> SUFFICES ASSUME n # Map!Nil PROVE Leftmost(f[n], n)
    OBVIOUS
  <2>1. AVL(n)
    BY LinksOfLinks
  <2>2. /\ AVL(n.left) /\ AVL(n.right) /\ Splits(n, n.left, n.key, n.value, n.right)
        /\ Between(n.left, n.key, n.right)
    BY <2>1, OpenNode
  <2>3. f[n] = IF n.left = Map!Nil THEN n ELSE f[n.left]
    BY <1>1 DEF FirstStep
  <2>4. \A p \in Map!Pairs(n.right) : n.key < p[1] /\ p[1] \in Int
    BY <2>2, KeysAreInt DEF Between, Above
  <2>5. <<n.key, n.value>>[1] = n.key /\ n.key \in Int
    BY <2>2 DEF Between
  <2>6. CASE n.left = Map!Nil
    <3>1. f[n] = n
      BY <2>3, <2>6
    <3>2. Map!Pairs(n) = {<<n.key, n.value>>} \union Map!Pairs(n.right)
      BY <2>2, <2>6, NilTree DEF Splits
    <3>3. Leftmost(n, n)
      BY <2>4, <2>5, <3>2 DEF Leftmost
    <3> QED
      BY <3>1, <3>3
  <2>7. CASE n.left # Map!Nil
    <3>1. f[n] = f[n.left]
      BY <2>3, <2>7
    <3>2. Leftmost(f[n.left], n.left)
      BY <1>2, <2>7
    <3> DEFINE m == f[n.left]
    <3> HIDE DEF m
    <3>3. /\ <<m.key, m.value>> \in Map!Pairs(n.left) /\ m.key \in Int
          /\ \A p \in Map!Pairs(n.left) : m.key <= p[1]
      BY <3>2 DEF Leftmost, m
    <3>4. m.key < n.key
      <4>1. <<m.key, m.value>>[1] < n.key
        BY <2>2, <3>3 DEF Between, Below
      <4> QED
        BY <4>1
    <3>5. ASSUME NEW p \in Map!Pairs(n) PROVE m.key <= p[1]
      <4>1. p \in Map!Pairs(n.left) \/ p = <<n.key, n.value>> \/ p \in Map!Pairs(n.right)
        BY <2>2 DEF Splits
      <4> QED
        BY <2>4, <2>5, <3>3, <3>4, <4>1
    <3>6. <<m.key, m.value>> \in Map!Pairs(n)
      BY <2>2, <3>3 DEF Splits
    <3> QED
      BY <3>1, <3>3, <3>5, <3>6 DEF Leftmost, m
  <2> QED
    BY <2>6, <2>7
<1>3. Map!links(t) \subseteq S
  <2> HIDE DEF S
  <2> QED
    BY <1>2, TreeInduction
<1>4. t \in S
  BY <1>3, TopLink DEF AVL
<1> QED
  BY <1>1, <1>4

(* A key has one entry. *)
LEMMA OneEntry ==
  ASSUME NEW t, AVL(t), NEW p \in Map!Pairs(t), NEW q \in Map!Pairs(t), p[1] = q[1]
  PROVE  p = q
<1> DEFINE Unique(n) == \A x, y \in Map!Pairs(n) : x[1] = y[1] => x = y
           S == {n \in Map!links(t) : Unique(n)}
<1>2. ASSUME NEW n \in Map!links(t), n # Map!Nil => n.left \in S /\ n.right \in S
      PROVE  n \in S
  <2>1. CASE n = Map!Nil
    BY <2>1, NilTree
  <2>2. CASE n # Map!Nil
    <3>1. AVL(n)
      BY LinksOfLinks
    <3>2. /\ AVL(n.left) /\ AVL(n.right) /\ Splits(n, n.left, n.key, n.value, n.right)
          /\ Between(n.left, n.key, n.right)
      BY <2>2, <3>1, OpenNode
    <3>3. <<n.key, n.value>>[1] = n.key /\ n.key \in Int
      BY <3>2 DEF Between
    <3>4. \A x \in Map!Pairs(n.left) : x[1] < n.key /\ x[1] \in Int
      BY <3>2, KeysAreInt DEF Between, Below
    <3>5. \A x \in Map!Pairs(n.right) : n.key < x[1] /\ x[1] \in Int
      BY <3>2, KeysAreInt DEF Between, Above
    <3>6. Unique(n.left) /\ Unique(n.right)
      BY <1>2, <2>2
    <3>7. ASSUME NEW x \in Map!Pairs(n), NEW y \in Map!Pairs(n), x[1] = y[1] PROVE x = y
      <4>1. x \in Map!Pairs(n.left) \/ x = <<n.key, n.value>> \/ x \in Map!Pairs(n.right)
        BY <3>2 DEF Splits
      <4>2. y \in Map!Pairs(n.left) \/ y = <<n.key, n.value>> \/ y \in Map!Pairs(n.right)
        BY <3>2 DEF Splits
      <4>3. CASE x[1] < n.key
        BY <3>3, <3>4, <3>5, <3>6, <3>7, <4>1, <4>2, <4>3
      <4>4. CASE x[1] = n.key
        <5>1. x \notin Map!Pairs(n.left) /\ x \notin Map!Pairs(n.right)
          BY <3>3, <3>4, <3>5, <4>4
        <5>2. y \notin Map!Pairs(n.left) /\ y \notin Map!Pairs(n.right)
          <6>1. y[1] = n.key
            BY <3>7, <4>4
          <6> QED
            BY <3>3, <3>4, <3>5, <6>1
        <5>3. x = <<n.key, n.value>> /\ y = <<n.key, n.value>>
          BY <4>1, <4>2, <5>1, <5>2
        <5> QED
          BY <5>3
      <4>5. CASE n.key < x[1]
        BY <3>3, <3>4, <3>5, <3>6, <3>7, <4>1, <4>2, <4>5
      <4>6. x[1] \in Int
        BY <3>3, <3>4, <3>5, <4>1
      <4> QED
        BY <3>3, <4>3, <4>4, <4>5, <4>6
    <3> QED
      BY <3>7
  <2> QED
    BY <2>1, <2>2
<1>3. Map!links(t) \subseteq S
  <2> HIDE DEF S
  <2> QED
    BY <1>2, TreeInduction
<1>4. t \in S
  BY <1>3, TopLink DEF AVL
<1>5. Unique(t)
  BY <1>4
<1> QED
  BY <1>5

Removed(b, n, key) == AVL(b) /\ Map!Pairs(b) = Without(Map!Pairs(n), key)

(* One level of remove, with the successor that takes the place of a
   removed entry. *)
LEMMA RemoveStepActs ==
  ASSUME NEW n, AVL(n), NEW key \in Int, NEW f,
         n # Map!Nil => \A k \in Int : Removed(f[n.left][k], n.left, k)
                                   /\ Removed(f[n.right][k], n.right, k)
  PROVE  Removed(RemoveStep(n, f)[key], n, key)
<1> DEFINE b == RemoveStep(n, f)[key]
<1>0. b = IF n = Map!Nil THEN Map!Nil
          ELSE IF key < n.key THEN Map!join(f[n.left][key], n.key, n.value, n.right)
          ELSE IF key > n.key THEN Map!join(n.left, n.key, n.value, f[n.right][key])
          ELSE IF n.right = Map!Nil THEN n.left
          ELSE Map!join(n.left, Map!first(n.right).key, Map!first(n.right).value,
                    f[n.right][Map!first(n.right).key])
  BY DEF RemoveStep
<1> HIDE DEF b
<1>1. CASE n = Map!Nil
  <2>1. Without({}, key) = {}
    BY DEF Without
  <2> QED
    BY <1>0, <1>1, <2>1, NilTree DEF Removed, b
<1>2. CASE n # Map!Nil
  <2>1. /\ AVL(n.left) /\ AVL(n.right) /\ Splits(n, n.left, n.key, n.value, n.right)
        /\ Between(n.left, n.key, n.right)
    BY <1>2, OpenNode
  <2>2. n.key \in Int
    BY <2>1 DEF Between
  <2>3. Without(Map!Pairs(n), key)
          = Without(Map!Pairs(n.left), key) \union Without({<<n.key, n.value>>}, key)
                                 \union Without(Map!Pairs(n.right), key)
    <3>1. Splits(n, n.left, n.key, n.value, n.right)
      BY <2>1
    <3> QED
      BY <3>1 DEF Splits, Without
  <2>4. Without({<<n.key, n.value>>}, key) = IF n.key = key THEN {} ELSE {<<n.key, n.value>>}
    BY WithoutOne
  <2>5. CASE key < n.key
    <3> DEFINE x == f[n.left][key]
    <3>1. b = Map!join(x, n.key, n.value, n.right)
      BY <1>0, <1>2, <2>5
    <3>2. Removed(x, n.left, key)
      BY <1>2
    <3> HIDE DEF x
    <3>3. AVL(x) /\ Map!Pairs(x) = Without(Map!Pairs(n.left), key)
      BY <3>2 DEF Removed
    <3>4. Between(x, n.key, n.right)
      BY <2>1, <3>3, WithoutKeepsSides DEF Between
    <3>5. Balanced(Map!join(x, n.key, n.value, n.right), x, n.key, n.value, n.right)
      BY <2>1, <3>3, <3>4, JoinActs
    <3>6. AVL(b) /\ Splits(b, x, n.key, n.value, n.right)
      BY <3>1, <3>5 DEF Balanced
    <3>7. Without(Map!Pairs(n.right), key) = Map!Pairs(n.right)
      <4>1. Above(n.right, key)
        BY <2>1, <2>2, <2>5, FurtherSides DEF Between
      <4> QED
        BY <4>1, WithoutSides
    <3>8. Map!Pairs(b) = Without(Map!Pairs(n), key)
      <4>1. n.key # key
        BY <2>2, <2>5
      <4> QED
        BY <2>3, <2>4, <3>3, <3>6, <3>7, <4>1 DEF Splits
    <3> QED
      BY <3>6, <3>8 DEF Removed, b
  <2>6. CASE key > n.key
    <3> DEFINE x == f[n.right][key]
    <3>1. b = Map!join(n.left, n.key, n.value, x)
      <4>1. ~ (key < n.key)
        BY <2>2, <2>6
      <4> QED
        BY <1>0, <1>2, <2>6, <4>1
    <3>2. Removed(x, n.right, key)
      BY <1>2
    <3> HIDE DEF x
    <3>3. AVL(x) /\ Map!Pairs(x) = Without(Map!Pairs(n.right), key)
      BY <3>2 DEF Removed
    <3>4. Between(n.left, n.key, x)
      BY <2>1, <3>3, WithoutKeepsSides DEF Between
    <3>5. Balanced(Map!join(n.left, n.key, n.value, x), n.left, n.key, n.value, x)
      BY <2>1, <3>3, <3>4, JoinActs
    <3>6. AVL(b) /\ Splits(b, n.left, n.key, n.value, x)
      BY <3>1, <3>5 DEF Balanced
    <3>7. Without(Map!Pairs(n.left), key) = Map!Pairs(n.left)
      <4>1. Below(n.left, key)
        BY <2>1, <2>2, <2>6, FurtherSides DEF Between
      <4> QED
        BY <4>1, WithoutSides
    <3>8. Map!Pairs(b) = Without(Map!Pairs(n), key)
      <4>1. n.key # key
        BY <2>2, <2>6
      <4> QED
        BY <2>3, <2>4, <3>3, <3>6, <3>7, <4>1 DEF Splits
    <3> QED
      BY <3>6, <3>8 DEF Removed, b
  <2>7. CASE key = n.key
    <3>1. ~ (key < n.key) /\ ~ (key > n.key)
      BY <2>2, <2>7
    <3>2. Without(Map!Pairs(n.left), key) = Map!Pairs(n.left) /\ Without(Map!Pairs(n.right), key) = Map!Pairs(n.right)
      BY <2>1, <2>7, WithoutSides DEF Between
    <3>3. Without(Map!Pairs(n), key) = Map!Pairs(n.left) \union Map!Pairs(n.right)
      BY <2>3, <2>4, <2>7, <3>2
    <3>4. CASE n.right = Map!Nil
      <4>1. b = n.left
        BY <1>0, <1>2, <3>1, <3>4
      <4>2. Map!Pairs(n.right) = {}
        BY <3>4, NilTree
      <4> QED
        BY <2>1, <3>3, <4>1, <4>2 DEF Removed, b
    <3>5. CASE n.right # Map!Nil
      <4> DEFINE m == Map!first(n.right)
                 x == f[n.right][m.key]
      <4>1. b = Map!join(n.left, m.key, m.value, x)
        BY <1>0, <1>2, <3>1, <3>5
      <4>2. Leftmost(m, n.right)
        BY <2>1, <3>5, FirstActs
      <4> HIDE DEF m
      <4>3. /\ <<m.key, m.value>> \in Map!Pairs(n.right) /\ m.key \in Int
            /\ \A p \in Map!Pairs(n.right) : m.key <= p[1]
        BY <4>2 DEF Leftmost
      <4>4. Removed(x, n.right, m.key)
        BY <1>2, <4>3
      <4> HIDE DEF x
      <4>5. AVL(x) /\ Map!Pairs(x) = Without(Map!Pairs(n.right), m.key)
        BY <4>4 DEF Removed
      <4>6. n.key < m.key
        <5>1. n.key < <<m.key, m.value>>[1]
          BY <2>1, <4>3 DEF Between, Above
        <5> QED
          BY <5>1
      <4>7. Below(n.left, m.key)
        BY <2>1, <2>2, <4>3, <4>6, FurtherSides DEF Between
      <4>8. Above(x, m.key)
        <5>1. ASSUME NEW p \in Map!Pairs(x) PROVE m.key < p[1]
          <6>1. p \in Map!Pairs(n.right) /\ p[1] # m.key
            BY <4>5 DEF Without
          <6>2. p[1] \in Int /\ m.key <= p[1]
            BY <2>1, <4>3, <6>1, KeysAreInt
          <6> QED
            BY <4>3, <6>1, <6>2
        <5> QED
          BY <5>1 DEF Above
      <4>9. Between(n.left, m.key, x)
        BY <4>3, <4>7, <4>8 DEF Between
      <4>10. Balanced(Map!join(n.left, m.key, m.value, x), n.left, m.key, m.value, x)
        BY <2>1, <4>5, <4>9, JoinActs
      <4>11. AVL(b) /\ Splits(b, n.left, m.key, m.value, x)
        BY <4>1, <4>10 DEF Balanced
      <4>12. {<<m.key, m.value>>} \union Map!Pairs(x) = Map!Pairs(n.right)
        <5>1. ASSUME NEW p \in Map!Pairs(n.right), p \notin Map!Pairs(x) PROVE p = <<m.key, m.value>>
          <6>1. p[1] = m.key
            BY <4>5, <5>1 DEF Without
          <6>2. <<m.key, m.value>>[1] = m.key
            OBVIOUS
          <6> QED
            BY <2>1, <4>3, <6>1, <6>2, OneEntry
        <5>2. Map!Pairs(x) \subseteq Map!Pairs(n.right)
          BY <4>5 DEF Without
        <5> QED
          BY <4>3, <5>1, <5>2
      <4>13. Map!Pairs(b) = Without(Map!Pairs(n), key)
        BY <3>3, <4>11, <4>12 DEF Splits
      <4> QED
        BY <4>11, <4>13 DEF Removed, b
    <3> QED
      BY <3>4, <3>5
  <2> QED
    BY <2>2, <2>5, <2>6, <2>7
<1> QED
  BY <1>1, <1>2

(* remove (ordered_map.rs) from an AVL tree of any size: an AVL tree of
   exactly the other entries. *)
THEOREM RemoveActs ==
  ASSUME NEW t, AVL(t), NEW key \in Int
  PROVE  Removed(Map!remove(t, key), t, key)
<1>1. PICK f : /\ Map!remove(t, key) = f[t][key]
               /\ \A n \in Map!links(t) : f[n] = RemoveStep(n, f)
  BY RemoveRule
<1> DEFINE Removes(n) == \A k \in Int : Removed(f[n][k], n, k)
           S == {n \in Map!links(t) : Removes(n)}
<1>2. ASSUME NEW n \in Map!links(t), n # Map!Nil => n.left \in S /\ n.right \in S
      PROVE  n \in S
  <2>1. AVL(n)
    BY LinksOfLinks
  <2>2. n # Map!Nil => Removes(n.left) /\ Removes(n.right)
    BY <1>2
  <2>3. ASSUME NEW k \in Int PROVE Removed(f[n][k], n, k)
    <3>1. Removed(RemoveStep(n, f)[k], n, k)
      BY <2>1, <2>2, RemoveStepActs
    <3> QED
      BY <1>1, <3>1
  <2> QED
    BY <2>3
<1>3. Map!links(t) \subseteq S
  <2> HIDE DEF S
  <2> QED
    BY <1>2, TreeInduction
<1>4. t \in S
  BY <1>3, TopLink DEF AVL
<1>5. Removes(t)
  BY <1>4
<1> QED
  BY <1>1, <1>5

(* The entries from a key on. *)
Since(S, key) == {p \in S : key <= p[1]}

Retained(b, n, key) == AVL(b) /\ Map!Pairs(b) = Since(Map!Pairs(n), key)

(* One level of retain_from. *)
LEMMA RetainStepActs ==
  ASSUME NEW n, AVL(n), NEW key \in Int, NEW f,
         n # Map!Nil => Retained(f[n.left], n.left, key) /\ Retained(f[n.right], n.right, key)
  PROVE  Retained(RetainStep(key, n, f), n, key)
<1> DEFINE b == RetainStep(key, n, f)
<1>0. b = IF n = Map!Nil THEN Map!Nil
          ELSE IF n.key < key THEN f[n.right]
          ELSE Map!join(f[n.left], n.key, n.value, n.right)
  BY DEF RetainStep
<1> HIDE DEF b
<1>1. CASE n = Map!Nil
  <2>1. Since({}, key) = {}
    BY DEF Since
  <2> QED
    BY <1>0, <1>1, <2>1, NilTree DEF Retained, b
<1>2. CASE n # Map!Nil
  <2>1. /\ AVL(n.left) /\ AVL(n.right) /\ Splits(n, n.left, n.key, n.value, n.right)
        /\ Between(n.left, n.key, n.right)
    BY <1>2, OpenNode
  <2>2. <<n.key, n.value>>[1] = n.key /\ n.key \in Int
    BY <2>1 DEF Between
  <2>3. \A x \in Map!Pairs(n.left) : x[1] < n.key /\ x[1] \in Int
    BY <2>1, KeysAreInt DEF Between, Below
  <2>4. \A x \in Map!Pairs(n.right) : n.key < x[1] /\ x[1] \in Int
    BY <2>1, KeysAreInt DEF Between, Above
  <2>5. CASE n.key < key
    <3>1. b = f[n.right]
      BY <1>0, <1>2, <2>5
    <3>2. \A x \in Map!Pairs(n.left) \union {<<n.key, n.value>>} : ~ (key <= x[1])
      BY <2>2, <2>3, <2>5
    <3>3. Since(Map!Pairs(n), key) = Since(Map!Pairs(n.right), key)
      <4>1. Map!Pairs(n) = Map!Pairs(n.left) \union {<<n.key, n.value>>} \union Map!Pairs(n.right)
        BY <2>1 DEF Splits
      <4> QED
        BY <3>2, <4>1 DEF Since
    <3> QED
      BY <1>2, <3>1, <3>3 DEF Retained, b
  <2>6. CASE ~ (n.key < key)
    <3> DEFINE x == f[n.left]
    <3>1. b = Map!join(x, n.key, n.value, n.right)
      BY <1>0, <1>2, <2>6
    <3>2. Retained(x, n.left, key)
      BY <1>2
    <3> HIDE DEF x
    <3>3. AVL(x) /\ Map!Pairs(x) = Since(Map!Pairs(n.left), key)
      BY <3>2 DEF Retained
    <3>4. Between(x, n.key, n.right)
      <4>1. Below(x, n.key)
        BY <2>3, <3>3 DEF Since, Below
      <4> QED
        BY <2>1, <4>1 DEF Between
    <3>5. Balanced(Map!join(x, n.key, n.value, n.right), x, n.key, n.value, n.right)
      BY <2>1, <3>3, <3>4, JoinActs
    <3>6. AVL(b) /\ Splits(b, x, n.key, n.value, n.right)
      BY <3>1, <3>5 DEF Balanced
    <3>7. \A y \in {<<n.key, n.value>>} \union Map!Pairs(n.right) : key <= y[1]
      BY <2>2, <2>4, <2>6
    <3>8. Map!Pairs(b) = Since(Map!Pairs(n), key)
      <4>1. Map!Pairs(n) = Map!Pairs(n.left) \union {<<n.key, n.value>>} \union Map!Pairs(n.right)
        BY <2>1 DEF Splits
      <4>2. Map!Pairs(b) = Since(Map!Pairs(n.left), key) \union {<<n.key, n.value>>} \union Map!Pairs(n.right)
        BY <3>3, <3>6 DEF Splits
      <4> QED
        BY <3>7, <4>1, <4>2 DEF Since
    <3> QED
      BY <3>6, <3>8 DEF Retained, b
  <2> QED
    BY <2>5, <2>6
<1> QED
  BY <1>1, <1>2

(* retain_from (ordered_map.rs), which drops a prefix: an AVL tree of
   exactly the entries from the key on. *)
THEOREM RetainActs ==
  ASSUME NEW t, AVL(t), NEW key \in Int
  PROVE  Retained(Map!retain_from(t, key), t, key)
<1>1. PICK f : /\ Map!retain_from(t, key) = f[t]
               /\ \A n \in Map!links(t) : f[n] = RetainStep(key, n, f)
  BY RetainRule
<1> DEFINE S == {n \in Map!links(t) : Retained(f[n], n, key)}
<1>2. ASSUME NEW n \in Map!links(t), n # Map!Nil => n.left \in S /\ n.right \in S
      PROVE  n \in S
  <2>1. AVL(n)
    BY LinksOfLinks
  <2>2. Retained(RetainStep(key, n, f), n, key)
    BY <1>2, <2>1, RetainStepActs
  <2> QED
    BY <1>1, <2>2
<1>3. Map!links(t) \subseteq S
  <2> HIDE DEF S
  <2> QED
    BY <1>2, TreeInduction
<1>4. t \in S
  BY <1>3, TopLink DEF AVL
<1> QED
  BY <1>1, <1>4

-----------------------------------------------------------------------------
(* What the lookups return. *)

Gets(x, n, key) ==
  \/ x = Map!None /\ \A p \in Map!Pairs(n) : p[1] # key
  \/ \E p \in Map!Pairs(n) : p[1] = key /\ x = Map!Some(p[1], p[2])

Floors(x, n, key) ==
  \/ x = Map!None /\ \A p \in Map!Pairs(n) : key < p[1]
  \/ \E p \in Map!Pairs(n) : /\ p[1] <= key /\ x = Map!Some(p[1], p[2])
                         /\ \A q \in Map!Pairs(n) : q[1] <= key => q[1] <= p[1]

(* What a lookup returns tells whether it found something. *)
LEMMA FoundOrNot == ~ Map!None.found /\ \A k, v : Map!Some(k, v).found
  BY DEF Map!None, Map!Some

(* get (ordered_map.rs) returns the entry of the key, and nothing only if
   there is none. *)
THEOREM GetFinds ==
  ASSUME NEW t, AVL(t), NEW key \in Int
  PROVE  Gets(Map!get(t, key), t, key)
<1>1. PICK f : /\ Map!get(t, key) = f[t]
               /\ \A n \in Map!links(t) : f[n] = GetStep(key, n, f)
  BY GetRule
<1> DEFINE S == {n \in Map!links(t) : Gets(f[n], n, key)}
<1>2. ASSUME NEW n \in Map!links(t), n # Map!Nil => n.left \in S /\ n.right \in S
      PROVE  n \in S
  <2>1. AVL(n) /\ f[n] = GetStep(key, n, f)
    BY <1>1, LinksOfLinks
  <2>2. CASE n = Map!Nil
    BY <2>1, <2>2, NilTree DEF GetStep, Gets
  <2>3. CASE n # Map!Nil
    <3>1. /\ AVL(n.left) /\ AVL(n.right) /\ Splits(n, n.left, n.key, n.value, n.right)
          /\ Between(n.left, n.key, n.right)
      BY <2>1, <2>3, OpenNode
    <3>2. <<n.key, n.value>>[1] = n.key /\ <<n.key, n.value>>[2] = n.value /\ n.key \in Int
      BY <3>1 DEF Between
    <3>3. \A x \in Map!Pairs(n.left) : x[1] < n.key /\ x[1] \in Int
      BY <3>1, KeysAreInt DEF Between, Below
    <3>4. \A x \in Map!Pairs(n.right) : n.key < x[1] /\ x[1] \in Int
      BY <3>1, KeysAreInt DEF Between, Above
    <3>5. Map!Pairs(n) = Map!Pairs(n.left) \union {<<n.key, n.value>>} \union Map!Pairs(n.right)
      BY <3>1 DEF Splits
    <3>6. Gets(f[n.left], n.left, key) /\ Gets(f[n.right], n.right, key)
      BY <1>2, <2>3
    <3>7. CASE key < n.key
      <4>1. f[n] = f[n.left]
        BY <2>1, <2>3, <3>7 DEF GetStep
      <4>2. \A p \in {<<n.key, n.value>>} \union Map!Pairs(n.right) : p[1] # key
        BY <3>2, <3>4, <3>7
      <4>3. Gets(f[n.left], n, key)
        BY <3>5, <3>6, <4>2 DEF Gets
      <4> QED
        BY <4>1, <4>3
    <3>8. CASE key > n.key
      <4>1. f[n] = f[n.right]
        <5>1. ~ (key < n.key)
          BY <3>2, <3>8
        <5> QED
          BY <2>1, <2>3, <3>8, <5>1 DEF GetStep
      <4>2. \A p \in {<<n.key, n.value>>} \union Map!Pairs(n.left) : p[1] # key
        BY <3>2, <3>3, <3>8
      <4>3. Gets(f[n.right], n, key)
        BY <3>5, <3>6, <4>2 DEF Gets
      <4> QED
        BY <4>1, <4>3
    <3>9. CASE key = n.key
      <4>1. f[n] = Map!Some(n.key, n.value)
        <5>1. ~ (key < n.key) /\ ~ (key > n.key)
          BY <3>2, <3>9
        <5> QED
          BY <2>1, <2>3, <5>1 DEF GetStep
      <4>2. <<n.key, n.value>> \in Map!Pairs(n)
        BY <3>5
      <4> DEFINE p == <<n.key, n.value>>
      <4>3. p \in Map!Pairs(n) /\ p[1] = key /\ f[n] = Map!Some(p[1], p[2])
        BY <3>2, <3>9, <4>1, <4>2
      <4> HIDE DEF p
      <4>4. Gets(f[n], n, key)
        BY <4>3 DEF Gets
      <4> QED
        BY <4>4
    <3> QED
      BY <3>2, <3>7, <3>8, <3>9
  <2> QED
    BY <2>2, <2>3
<1>3. Map!links(t) \subseteq S
  <2> HIDE DEF S
  <2> QED
    BY <1>2, TreeInduction
<1>4. t \in S
  BY <1>3, TopLink DEF AVL
<1> QED
  BY <1>1, <1>4

(* floor (ordered_map.rs) returns the entry with the greatest key not
   above the one asked for, and nothing only if every key is above it. *)
THEOREM FloorFinds ==
  ASSUME NEW t, AVL(t), NEW key \in Int
  PROVE  Floors(Map!floor(t, key), t, key)
<1>1. PICK f : /\ Map!floor(t, key) = f[t]
               /\ \A n \in Map!links(t) : f[n] = FloorStep(key, n, f)
  BY FloorRule
<1> DEFINE S == {n \in Map!links(t) : Floors(f[n], n, key)}
<1>2. ASSUME NEW n \in Map!links(t), n # Map!Nil => n.left \in S /\ n.right \in S
      PROVE  n \in S
  <2>1. AVL(n) /\ f[n] = FloorStep(key, n, f)
    BY <1>1, LinksOfLinks
  <2>2. CASE n = Map!Nil
    BY <2>1, <2>2, NilTree DEF FloorStep, Floors
  <2>3. CASE n # Map!Nil
    <3>1. /\ AVL(n.left) /\ AVL(n.right) /\ Splits(n, n.left, n.key, n.value, n.right)
          /\ Between(n.left, n.key, n.right)
      BY <2>1, <2>3, OpenNode
    <3>2. <<n.key, n.value>>[1] = n.key /\ <<n.key, n.value>>[2] = n.value /\ n.key \in Int
      BY <3>1 DEF Between
    <3>3. \A x \in Map!Pairs(n.left) : x[1] < n.key /\ x[1] \in Int
      BY <3>1, KeysAreInt DEF Between, Below
    <3>4. \A x \in Map!Pairs(n.right) : n.key < x[1] /\ x[1] \in Int
      BY <3>1, KeysAreInt DEF Between, Above
    <3>5. Map!Pairs(n) = Map!Pairs(n.left) \union {<<n.key, n.value>>} \union Map!Pairs(n.right)
      BY <3>1 DEF Splits
    <3>6. Floors(f[n.left], n.left, key) /\ Floors(f[n.right], n.right, key)
      BY <1>2, <2>3
    <3>7. CASE ~ (n.key <= key)
      <4>1. f[n] = f[n.left]
        BY <2>1, <2>3, <3>7 DEF FloorStep
      <4>2. \A p \in {<<n.key, n.value>>} \union Map!Pairs(n.right) : key < p[1] /\ ~ (p[1] <= key)
        BY <3>2, <3>4, <3>7
      <4>3. Floors(f[n.left], n, key)
        BY <3>5, <3>6, <4>2 DEF Floors
      <4> QED
        BY <4>1, <4>3
    <3>8. CASE n.key <= key /\ f[n.right] = Map!None
      <4>1. f[n] = Map!Some(n.key, n.value)
        BY <2>1, <2>3, <3>8, FoundOrNot DEF FloorStep
      <4>2. \A p \in Map!Pairs(n.right) : key < p[1]
        BY <3>6, <3>8, FoundOrNot DEF Floors
      <4>3. ASSUME NEW q \in Map!Pairs(n), q[1] <= key PROVE q[1] <= n.key
        <5>1. q \in Map!Pairs(n.left) \/ q = <<n.key, n.value>> \/ q \in Map!Pairs(n.right)
          BY <3>5
        <5>2. q \notin Map!Pairs(n.right)
          BY <3>4, <4>2, <4>3
        <5> QED
          BY <3>2, <3>3, <5>1, <5>2
      <4> DEFINE p == <<n.key, n.value>>
      <4>4. p \in Map!Pairs(n) /\ p[1] <= key /\ f[n] = Map!Some(p[1], p[2])
        BY <3>2, <3>5, <3>8, <4>1
      <4>5. \A q \in Map!Pairs(n) : q[1] <= key => q[1] <= p[1]
        BY <3>2, <4>3
      <4> HIDE DEF p
      <4>6. Floors(f[n], n, key)
        BY <4>4, <4>5 DEF Floors
      <4> QED
        BY <4>6
    <3>9. CASE n.key <= key /\ f[n.right] # Map!None
      <4>1. PICK p \in Map!Pairs(n.right) :
               /\ p[1] <= key /\ f[n.right] = Map!Some(p[1], p[2])
               /\ \A q \in Map!Pairs(n.right) : q[1] <= key => q[1] <= p[1]
        BY <3>6, <3>9 DEF Floors
      <4>2. f[n] = Map!Some(p[1], p[2])
        BY <2>1, <2>3, <3>9, <4>1, FoundOrNot DEF FloorStep
      <4>3. ASSUME NEW q \in Map!Pairs(n), q[1] <= key PROVE q[1] <= p[1]
        <5>1. q \in Map!Pairs(n.left) \/ q = <<n.key, n.value>> \/ q \in Map!Pairs(n.right)
          BY <3>5
        <5>2. CASE q \in Map!Pairs(n.right)
          BY <4>1, <4>3, <5>2
        <5>3. CASE q \in Map!Pairs(n.left) \/ q = <<n.key, n.value>>
          <6>1. q[1] <= n.key /\ q[1] \in Int
            BY <3>2, <3>3, <5>3
          <6>2. n.key < p[1] /\ p[1] \in Int
            BY <3>4
          <6> QED
            BY <3>2, <6>1, <6>2
        <5> QED
          BY <5>1, <5>2, <5>3
      <4>4. p \in Map!Pairs(n)
        BY <3>5
      <4>5. Floors(f[n], n, key)
        BY <4>1, <4>2, <4>3, <4>4 DEF Floors
      <4> QED
        BY <4>5
    <3> QED
      BY <3>7, <3>8, <3>9
  <2> QED
    BY <2>2, <2>3
<1>3. Map!links(t) \subseteq S
  <2> HIDE DEF S
  <2> QED
    BY <1>2, TreeInduction
<1>4. t \in S
  BY <1>3, TopLink DEF AVL
<1> QED
  BY <1>1, <1>4

-----------------------------------------------------------------------------
(* The stack of a range: what its nodes stand for. *)

Nodes(t) == Map!links(t) \ {Map!Nil}
Pending(n) == Map!Pairs(n.right) \union {<<n.key, n.value>>}
Rem(s) == UNION {Pending(s[i]) : i \in 1 .. Len(s)}
Before(S, key) == \A p \in S : p[1] < key
Ordered(s) == \A i, j \in 1 .. Len(s) : i < j => Before(Pending(s[j]), s[i].key)
Stacked(s, t, P) == s \in Seq(Nodes(t)) /\ Ordered(s) /\ Rem(s) = P

(* An empty stack stands for no entry. *)
LEMMA StackedEmpty ==
  ASSUME NEW t
  PROVE  Stacked(<<>>, t, {})
<1>1. Len(<<>>) = 0 /\ <<>> \in Seq(Nodes(t))
  OBVIOUS
<1>2. 1 .. 0 = {}
  OBVIOUS
<1> QED
  BY <1>1, <1>2 DEF Stacked, Ordered, Rem

(* A node on the stack stands for itself and its right subtree. *)
LEMMA StackedOne ==
  ASSUME NEW t, NEW n \in Nodes(t)
  PROVE  Stacked(<<n>>, t, Pending(n))
<1>1. <<n>> \in Seq(Nodes(t)) /\ Len(<<n>>) = 1 /\ <<n>>[1] = n
  OBVIOUS
<1>2. 1 .. 1 = {1}
  OBVIOUS
<1>3. Rem(<<n>>) = Pending(n)
  BY <1>1, <1>2 DEF Rem
<1>4. Ordered(<<n>>)
  BY <1>1, <1>2 DEF Ordered
<1> QED
  BY <1>1, <1>3, <1>4 DEF Stacked

(* Nodes pushed on a stack whose entries all come after theirs. *)
LEMMA StackedAnd ==
  ASSUME NEW t, NEW s, NEW u, NEW P, NEW Q, Stacked(s, t, P), Stacked(u, t, Q),
         \A i \in 1 .. Len(s) : Before(Q, s[i].key)
  PROVE  Stacked(s \o u, t, P \union Q)
<1> DEFINE c == s \o u
<1>1. s \in Seq(Nodes(t)) /\ u \in Seq(Nodes(t))
  BY DEF Stacked
<1>2. Len(s) \in Nat /\ Len(u) \in Nat
  BY <1>1, LenProperties
<1>3. /\ c \in Seq(Nodes(t)) /\ Len(c) = Len(s) + Len(u)
      /\ \A i \in 1 .. Len(s) + Len(u) : c[i] = IF i <= Len(s) THEN s[i] ELSE u[i - Len(s)]
  BY <1>1, ConcatProperties
<1> HIDE DEF c
<1>4. \A i \in 1 .. Len(s) : c[i] = s[i] /\ i \in 1 .. Len(c)
  BY <1>2, <1>3
<1>5. ASSUME NEW i \in 1 .. Len(c), ~ (i <= Len(s))
      PROVE  \E j \in 1 .. Len(u) : c[i] = u[j] /\ i = Len(s) + j
  <2>1. i - Len(s) \in 1 .. Len(u) /\ i = Len(s) + (i - Len(s))
    BY <1>2, <1>3, <1>5
  <2>2. c[i] = u[i - Len(s)]
    BY <1>3, <1>5
  <2> QED
    BY <2>1, <2>2
<1>6. ASSUME NEW j \in 1 .. Len(u)
      PROVE  \E i \in 1 .. Len(c) : c[i] = u[j] /\ ~ (i <= Len(s))
  <2>1. PICK i \in Nat : i = Len(s) + j /\ i - Len(s) = j /\ i \in 1 .. Len(c) /\ ~ (i <= Len(s))
    BY <1>2, <1>3
  <2> QED
    BY <1>3, <2>1
<1>7. Rem(c) = Rem(s) \union Rem(u)
  <2>1. ASSUME NEW p \in Rem(c) PROVE p \in Rem(s) \union Rem(u)
    <3>1. PICK i \in 1 .. Len(c) : p \in Pending(c[i])
      BY DEF Rem
    <3>2. CASE i <= Len(s)
      <4>1. i \in 1 .. Len(s)
        BY <1>2, <3>2
      <4> QED
        BY <1>4, <3>1, <4>1 DEF Rem
    <3>3. CASE ~ (i <= Len(s))
      BY <1>5, <3>1, <3>3 DEF Rem
    <3> QED
      BY <3>2, <3>3
  <2>2. ASSUME NEW p \in Rem(s) PROVE p \in Rem(c)
    <3>1. PICK i \in 1 .. Len(s) : p \in Pending(s[i])
      BY DEF Rem
    <3> QED
      BY <1>4, <3>1 DEF Rem
  <2>3. ASSUME NEW p \in Rem(u) PROVE p \in Rem(c)
    <3>1. PICK j \in 1 .. Len(u) : p \in Pending(u[j])
      BY DEF Rem
    <3> QED
      BY <1>6, <3>1 DEF Rem
  <2> QED
    BY <2>1, <2>2, <2>3
<1>8. ASSUME NEW i \in 1 .. Len(c), NEW j \in 1 .. Len(c), i < j
      PROVE  Before(Pending(c[j]), c[i].key)
  <2>1. CASE j <= Len(s)
    <3>1. i \in 1 .. Len(s) /\ j \in 1 .. Len(s)
      BY <1>2, <1>8, <2>1
    <3> QED
      BY <1>4, <1>8, <3>1 DEF Stacked, Ordered
  <2>2. CASE ~ (j <= Len(s)) /\ i <= Len(s)
    <3>1. i \in 1 .. Len(s)
      BY <1>2, <2>2
    <3>2. PICK k \in 1 .. Len(u) : c[j] = u[k]
      BY <1>5, <2>2
    <3>3. Pending(u[k]) \subseteq Q
      BY DEF Stacked, Rem
    <3> QED
      BY <1>4, <3>1, <3>2, <3>3 DEF Before
  <2>3. CASE ~ (j <= Len(s)) /\ ~ (i <= Len(s))
    <3>1. PICK k \in 1 .. Len(u) : c[j] = u[k] /\ j = Len(s) + k
      BY <1>5, <2>3
    <3>2. PICK m \in 1 .. Len(u) : c[i] = u[m] /\ i = Len(s) + m
      BY <1>5, <2>3
    <3>3. m < k
      BY <1>2, <1>8, <3>1, <3>2
    <3> QED
      BY <3>1, <3>2, <3>3 DEF Stacked, Ordered
  <2> QED
    BY <2>1, <2>2, <2>3
<1>9. Ordered(c)
  BY <1>8 DEF Ordered
<1> QED
  BY <1>3, <1>7, <1>9 DEF Stacked, c

(* The top of the stack, and what is under it.                             *)
LEMMA StackedTop ==
  ASSUME NEW t, NEW s, NEW P, Stacked(s, t, P), s # <<>>
  PROVE  LET rest == Len(s) - 1
             under == SubSeq(s, 1, rest)
             top == s[rest + 1]
         IN  /\ rest \in Nat /\ top \in Nodes(t)
             /\ Stacked(under, t, Rem(under))
             /\ P = Rem(under) \union Pending(top)
             /\ \A i \in 1 .. Len(under) : Before(Pending(top), under[i].key)
             /\ \A i \in 1 .. Len(under) : under[i] = s[i]
             /\ Len(under) = rest
<1> DEFINE rest == Len(s) - 1
           under == SubSeq(s, 1, rest)
           top == s[rest + 1]
<1>1. s \in Seq(Nodes(t)) /\ Len(s) \in Nat \ {0} /\ Ordered(s) /\ Rem(s) = P
  <2>1. s \in Seq(Nodes(t)) /\ Ordered(s) /\ Rem(s) = P
    BY DEF Stacked
  <2> QED
    BY <2>1, EmptySeq
<1>2. rest \in Nat /\ rest + 1 = Len(s)
  BY <1>1
<1>3. \A i \in 1 .. Len(s) : s[i] \in Nodes(t)
  BY <1>1, ElementOfSeq
<1>4. top \in Nodes(t)
  BY <1>1, <1>2, <1>3
<1>5. /\ under \in Seq(Nodes(t)) /\ Len(under) = rest
      /\ \A i \in 1 .. rest : under[i] = s[i]
  <2>1. \A i \in 1 .. rest : s[i] \in Nodes(t)
    BY <1>1, <1>3
  <2>2. /\ SubSeq(s, 1, rest) \in Seq(Nodes(t))
        /\ Len(SubSeq(s, 1, rest)) = IF 1 <= rest THEN rest - 1 + 1 ELSE 0
        /\ \A i \in 1 .. rest - 1 + 1 : SubSeq(s, 1, rest)[i] = s[1 + i - 1]
    <3>1. 1 \in Int /\ rest \in Int
      BY <1>2
    <3> HIDE DEF rest
    <3> QED
      BY <2>1, <3>1, SubSeqProperties
  <2>3. Len(under) = rest
    BY <1>2, <2>2
  <2>4. \A i \in 1 .. rest : i \in 1 .. rest - 1 + 1 /\ 1 + i - 1 = i
    BY <1>2
  <2>5. \A i \in 1 .. rest : under[i] = s[i]
    BY <2>2, <2>4
  <2> QED
    BY <2>2, <2>3, <2>5
<1> HIDE DEF rest, under
<1>6. \A i \in 1 .. rest : i \in 1 .. Len(s) /\ i < Len(s)
  BY <1>2
<1>7. Ordered(under)
  BY <1>1, <1>5, <1>6 DEF Ordered
<1>8. Len(s) \in 1 .. Len(s)
  BY <1>1
<1>9. P = Rem(under) \union Pending(top)
  <2>1. ASSUME NEW p \in Rem(s) PROVE p \in Rem(under) \union Pending(top)
    <3>1. PICK i \in 1 .. Len(s) : p \in Pending(s[i])
      BY DEF Rem
    <3>2. CASE i = Len(s)
      BY <1>2, <3>1, <3>2
    <3>3. CASE i # Len(s)
      <4>1. i \in 1 .. rest
        BY <1>1, <1>2, <3>3
      <4> QED
        BY <1>5, <3>1, <4>1 DEF Rem
    <3> QED
      BY <3>2, <3>3
  <2>2. ASSUME NEW p \in Rem(under) PROVE p \in Rem(s)
    <3>1. PICK i \in 1 .. rest : p \in Pending(s[i])
      BY <1>5 DEF Rem
    <3> QED
      BY <1>6, <3>1 DEF Rem
  <2>3. Pending(top) \subseteq Rem(s)
    BY <1>2, <1>8 DEF Rem
  <2> QED
    BY <1>1, <2>1, <2>2, <2>3
<1>10. \A i \in 1 .. Len(under) : Before(Pending(top), under[i].key)
  BY <1>1, <1>2, <1>5, <1>6, <1>8 DEF Ordered
<1>11. Stacked(under, t, Rem(under))
  BY <1>5, <1>7 DEF Stacked
<1> QED
  BY <1>2, <1>4, <1>5, <1>9, <1>10, <1>11 DEF rest, under

(* The entries on one side of a node of the tree.                          *)
LEMMA NodeSides ==
  ASSUME NEW t, AVL(t), NEW n \in Nodes(t)
  PROVE  /\ AVL(n) /\ n.left \in Map!links(t) /\ n.right \in Map!links(t)
         /\ n.key \in Int
         /\ Map!Pairs(n) = Map!Pairs(n.left) \union Pending(n)
         /\ Before(Map!Pairs(n.left), n.key)
         /\ \A p \in Map!Pairs(n.left) : p[1] \in Int
         /\ \A p \in Map!Pairs(n.right) : n.key < p[1] /\ p[1] \in Int
         /\ \A p \in Pending(n) : n.key <= p[1] /\ p[1] \in Int
<1>1. n \in Map!links(t) /\ n # Map!Nil
  BY DEF Nodes
<1>2. AVL(n) /\ n.left \in Map!links(t) /\ n.right \in Map!links(t)
  BY <1>1, LinksOfLinks, ChildLinks
<1>3. /\ AVL(n.left) /\ AVL(n.right) /\ Splits(n, n.left, n.key, n.value, n.right)
      /\ Between(n.left, n.key, n.right)
  BY <1>1, <1>2, OpenNode
<1>4. n.key \in Int /\ <<n.key, n.value>>[1] = n.key
  BY <1>3 DEF Between
<1>5. \A p \in Map!Pairs(n.right) : n.key < p[1] /\ p[1] \in Int
  BY <1>3, KeysAreInt DEF Between, Above
<1>6. \A p \in Map!Pairs(n.left) : p[1] \in Int
  BY <1>3, KeysAreInt
<1>7. \A p \in Pending(n) : n.key <= p[1] /\ p[1] \in Int
  BY <1>4, <1>5 DEF Pending
<1>8. Map!Pairs(n) = Map!Pairs(n.left) \union Pending(n)
  BY <1>3 DEF Splits, Pending
<1>9. Before(Map!Pairs(n.left), n.key)
  BY <1>3 DEF Between, Below, Before
<1> QED
  BY <1>2, <1>4, <1>5, <1>6, <1>7, <1>8, <1>9

(* The descent to the left pushes a stack that stands for the whole tree. *)
LEMMA DescendActs ==
  ASSUME NEW t, AVL(t)
  PROVE  Stacked(Map!descend_left(t), t, Map!Pairs(t))
<1>1. PICK f : /\ Map!descend_left(t) = f[t]
               /\ \A n \in Map!links(t) : f[n] = DescendStep(n, f)
  BY DescendRule
<1> DEFINE S == {n \in Map!links(t) : Stacked(f[n], t, Map!Pairs(n))}
<1>2. ASSUME NEW n \in Map!links(t), n # Map!Nil => n.left \in S /\ n.right \in S
      PROVE  n \in S
  <2>1. CASE n = Map!Nil
    BY <1>1, <2>1, StackedEmpty, NilTree DEF DescendStep
  <2>2. CASE n # Map!Nil
    <3>1. n \in Nodes(t)
      BY <2>2 DEF Nodes
    <3>2. f[n] = <<n>> \o f[n.left]
      BY <1>1, <2>2 DEF DescendStep
    <3>3. Stacked(f[n.left], t, Map!Pairs(n.left))
      BY <1>2, <2>2
    <3>4. Stacked(<<n>>, t, Pending(n))
      BY <3>1, StackedOne
    <3>5. Before(Map!Pairs(n.left), n.key) /\ Map!Pairs(n) = Map!Pairs(n.left) \union Pending(n)
      BY <3>1, NodeSides
    <3>6. \A i \in 1 .. Len(<<n>>) : Before(Map!Pairs(n.left), <<n>>[i].key)
      <4>1. Len(<<n>>) = 1 /\ 1 .. 1 = {1} /\ <<n>>[1] = n
        OBVIOUS
      <4> QED
        BY <3>5, <4>1
    <3>7. Stacked(<<n>> \o f[n.left], t, Pending(n) \union Map!Pairs(n.left))
      BY <3>3, <3>4, <3>6, StackedAnd
    <3>8. Pending(n) \union Map!Pairs(n.left) = Map!Pairs(n)
      BY <3>5
    <3>9. Stacked(f[n], t, Map!Pairs(n))
      BY <3>2, <3>7, <3>8
    <3> QED
      BY <3>9
  <2> QED
    BY <2>1, <2>2
<1>3. Map!links(t) \subseteq S
  <2> HIDE DEF S
  <2> QED
    BY <1>2, TreeInduction
<1>4. t \in S
  BY <1>3, TopLink DEF AVL
<1> QED
  BY <1>1, <1>4

(* The first descent of a range pushes a stack that stands for the
   entries from its lower bound on. *)
LEMMA SeekActs ==
  ASSUME NEW t, AVL(t), NEW lower \in Int
  PROVE  Stacked(Map!seek(t, lower), t, Since(Map!Pairs(t), lower))
<1>1. PICK f : /\ Map!seek(t, lower) = f[t]
               /\ \A n \in Map!links(t) : f[n] = SeekStep(lower, n, f)
  BY SeekRule
<1> DEFINE S == {n \in Map!links(t) : Stacked(f[n], t, Since(Map!Pairs(n), lower))}
<1>2. ASSUME NEW n \in Map!links(t), n # Map!Nil => n.left \in S /\ n.right \in S
      PROVE  n \in S
  <2>1. CASE n = Map!Nil
    <3>1. Since(Map!Pairs(n), lower) = {}
      BY <2>1, NilTree DEF Since
    <3>2. f[n] = <<>>
      BY <1>1, <2>1 DEF SeekStep
    <3> QED
      BY <3>1, <3>2, StackedEmpty
  <2>2. CASE n # Map!Nil
    <3>1. n \in Nodes(t)
      BY <2>2 DEF Nodes
    <3>2. /\ Before(Map!Pairs(n.left), n.key) /\ Map!Pairs(n) = Map!Pairs(n.left) \union Pending(n)
          /\ n.key \in Int
          /\ \A p \in Map!Pairs(n.left) : p[1] \in Int
          /\ \A p \in Pending(n) : n.key <= p[1] /\ p[1] \in Int
      BY <3>1, NodeSides
    <3>3. CASE n.key < lower
      <4>1. f[n] = f[n.right]
        BY <1>1, <2>2, <3>3 DEF SeekStep
      <4>2. \A p \in Map!Pairs(n.left) : ~ (lower <= p[1])
        BY <3>2, <3>3 DEF Before
      <4>3. <<n.key, n.value>>[1] = n.key
        OBVIOUS
      <4>4. ~ (lower <= n.key)
        BY <3>2, <3>3
      <4>5. Since(Map!Pairs(n), lower) = Since(Map!Pairs(n.right), lower)
        BY <3>2, <4>2, <4>3, <4>4 DEF Since, Pending
      <4>6. Stacked(f[n.right], t, Since(Map!Pairs(n.right), lower))
        BY <1>2, <2>2
      <4> QED
        BY <4>1, <4>5, <4>6
    <3>4. CASE ~ (n.key < lower)
      <4>1. f[n] = <<n>> \o f[n.left]
        BY <1>1, <2>2, <3>4 DEF SeekStep
      <4> DEFINE Q == Since(Map!Pairs(n.left), lower)
      <4>2. Stacked(f[n.left], t, Q)
        BY <1>2, <2>2
      <4>3. Stacked(<<n>>, t, Pending(n))
        BY <3>1, StackedOne
      <4>4. Before(Q, n.key)
        BY <3>2 DEF Before, Since
      <4>5. Pending(n) \union Q = Since(Map!Pairs(n), lower)
        <5>1. \A p \in Pending(n) : lower <= p[1]
          BY <3>2, <3>4
        <5> QED
          BY <3>2, <5>1 DEF Since
      <4> HIDE DEF Q
      <4>6. \A i \in 1 .. Len(<<n>>) : Before(Q, <<n>>[i].key)
        <5>1. Len(<<n>>) = 1 /\ 1 .. 1 = {1} /\ <<n>>[1] = n
          OBVIOUS
        <5> QED
          BY <4>4, <5>1
      <4>7. Stacked(<<n>> \o f[n.left], t, Pending(n) \union Q)
        BY <4>2, <4>3, <4>6, StackedAnd
      <4>8. Stacked(f[n], t, Since(Map!Pairs(n), lower))
        BY <4>1, <4>5, <4>7
      <4> QED
        BY <4>8
    <3> QED
      BY <3>3, <3>4
  <2> QED
    BY <2>1, <2>2
<1>3. Map!links(t) \subseteq S
  <2> HIDE DEF S
  <2> QED
    BY <1>2, TreeInduction
<1>4. t \in S
  BY <1>3, TopLink DEF AVL
<1> QED
  BY <1>1, <1>4

(* A tree has finitely many links. *)
LEMMA FiniteLinks ==
  ASSUME NEW t, AVL(t)
  PROVE  IsFiniteSet(Map!links(t))
<1> DEFINE S == {n \in Map!links(t) : IsFiniteSet(Map!links(n))}
<1>1. ASSUME NEW n \in Map!links(t), n # Map!Nil => n.left \in S /\ n.right \in S
      PROVE  n \in S
  <2>1. CASE n = Map!Nil
    <3>1. Map!links(n) = {n} /\ IsFiniteSet({n})
      BY <2>1, NilTree, FS_Singleton
    <3> QED
      BY <3>1
  <2>2. CASE n # Map!Nil
    <3>0. AVL(n)
      BY LinksOfLinks
    <3>1. Map!links(n) = {n} \union Map!links(n.left) \union Map!links(n.right)
      BY <2>2, <3>0, OpenTree
    <3>2. IsFiniteSet(Map!links(n.left)) /\ IsFiniteSet(Map!links(n.right)) /\ IsFiniteSet({n})
      BY <1>1, <2>2, FS_Singleton
    <3>3. IsFiniteSet({n} \union Map!links(n.left))
      BY <3>2, FS_Union
    <3>4. IsFiniteSet({n} \union Map!links(n.left) \union Map!links(n.right))
      BY <3>2, <3>3, FS_Union
    <3> QED
      BY <3>1, <3>4
  <2> QED
    BY <2>1, <2>2
<1>2. Map!links(t) \subseteq S
  <2> HIDE DEF S
  <2> QED
    BY <1>1, TreeInduction
<1>3. t \in S
  BY <1>2, TopLink DEF AVL
<1> QED
  BY <1>3

RangeBy(f, t, lower, upper) ==
  /\ Map!range(t, lower, upper) = f[Map!Cardinality(Map!links(t))].out
  /\ f[0] = [stack |-> Map!seek(t, lower), out |-> <<>>]
  /\ \A d \in Nat : f[d + 1] = Map!next(f[d], upper)

(* range is the output after as many calls of next as the tree has links. *)
LEMMA RangeRule ==
  ASSUME NEW t, NEW lower, NEW upper
  PROVE  \E f : RangeBy(f, t, lower, upper)
<1> DEFINE start == [stack |-> Map!seek(t, lower), out |-> <<>>]
           Lit(f) == f = [calls \in Nat |->
                            IF calls = 0 THEN [stack |-> Map!seek(t, lower), out |-> <<>>]
                            ELSE Map!next(f[calls - 1], upper)]
<1>1. Map!range(t, lower, upper) = (CHOOSE f : Lit(f))[Map!Cardinality(Map!links(t))].out
  BY Zenon DEF Map!range
<1>2. \A x : Repeated("call", x, upper) = Map!next(x, upper)
  BY DEF Repeated
<1>3. ASSUME NEW f PROVE Lit(f) <=> Runs(f, "call", start, upper)
  <2>1. [d \in Nat |-> RunStep(f, "call", start, upper, d)]
          = [d \in Nat |-> IF d = 0 THEN start ELSE Map!next(f[d - 1], upper)]
    <3> HIDE DEF start
    <3> QED
      BY <1>2 DEF RunStep
  <2>2. Lit(f) <=> f = [d \in Nat |-> IF d = 0 THEN start ELSE Map!next(f[d - 1], upper)]
    BY Zenon
  <2> HIDE DEF Lit, start
  <2> QED
    BY <2>1, <2>2, Zenon DEF Runs
<1> DEFINE g == CHOOSE f : Runs(f, "call", start, upper)
<1>4. (CHOOSE f : Lit(f)) = g
  <2> HIDE DEF Lit, start
  <2> QED
    BY <1>3, Zenon
<1>5. Runs(g, "call", start, upper)
  <2> HIDE DEF start
  <2> QED
    BY RunExists
<1> HIDE DEF Lit, g
<1>6. g[0] = start /\ \A d \in Nat : g[d + 1] = Repeated("call", g[d], upper)
  <2> HIDE DEF start
  <2> QED
    BY <1>5, RunIs
<1>7. Map!range(t, lower, upper) = g[Map!Cardinality(Map!links(t))].out
  BY <1>1, <1>4, Zenon
<1>8. RangeBy(g, t, lower, upper)
  BY <1>2, <1>6, <1>7 DEF RangeBy
<1> QED
  BY <1>8

Entries(P) == {Map!Some(p[1], p[2]) : p \in P}
UpTo(P, upper) == {p \in P : p[1] <= upper}
Outs(out) == {out[i] : i \in 1 .. Len(out)}
Rising(out) == \A i, j \in 1 .. Len(out) : i < j => out[i].key < out[j].key
Passed(out, P) == \A i \in 1 .. Len(out) : \A p \in P : out[i].key < p[1]
Undone(t, s) == {n \in Nodes(t) : <<n.key, n.value>> \in Rem(s)}

Ranging(state, t, lower, upper) ==
  /\ Stacked(state.stack, t, Rem(state.stack))
  /\ Rem(state.stack) \subseteq Since(Map!Pairs(t), lower)
  /\ state.out \in Seq(Entries(Map!Pairs(t))) /\ Rising(state.out)
  /\ Passed(state.out, Rem(state.stack))
  /\ Entries(UpTo(Since(Map!Pairs(t), lower), upper))
       = Outs(state.out) \union Entries(UpTo(Rem(state.stack), upper))

Returned(out, t, lower, upper) ==
  /\ out \in Seq(Entries(Map!Pairs(t))) /\ Rising(out)
  /\ Outs(out) = Entries(UpTo(Since(Map!Pairs(t), lower), upper))

(* The fields of a returned entry. *)
LEMMA SomeFields ==
  ASSUME NEW k, NEW v
  PROVE  Map!Some(k, v).key = k /\ Map!Some(k, v).value = v
  BY DEF Map!Some

(* Nothing remains when the stack is empty. *)
LEMMA RemEmpty == Rem(<<>>) = {}
  BY StackedEmpty DEF Stacked

Appended(then, E, out, e) ==
  then \in Seq(E) /\ Rising(then) /\ Outs(then) = Outs(out) \union {e}

(* Appending an entry above all returned ones keeps them ascending. *)
LEMMA OutAppend ==
  ASSUME NEW E, NEW out \in Seq(E), NEW e \in E, Rising(out),
         \A i \in 1 .. Len(out) : out[i].key < e.key
  PROVE  Appended(Append(out, e), E, out, e)
<1> DEFINE c == Append(out, e)
<1>1. /\ Len(out) \in Nat /\ c \in Seq(E) /\ Len(c) = Len(out) + 1
  OBVIOUS
<1>2. /\ \A i \in 1 .. Len(out) : c[i] = out[i] /\ i \in 1 .. Len(c)
      /\ c[Len(out) + 1] = e
  OBVIOUS
<1> HIDE DEF c
<1>3. PICK k \in Nat : k = Len(out) + 1 /\ k \in 1 .. Len(c)
  BY <1>1
<1>4. \A i \in 1 .. Len(c) : i \in 1 .. Len(out) \/ i = k
  BY <1>1, <1>3
<1>5. Outs(c) = Outs(out) \union {e}
  BY <1>2, <1>3, <1>4 DEF Outs
<1>6. ASSUME NEW i \in 1 .. Len(c), NEW j \in 1 .. Len(c), i < j
      PROVE  c[i].key < c[j].key
  <2>1. i \in 1 .. Len(out)
    BY <1>1, <1>6
  <2>2. CASE j \in 1 .. Len(out)
    BY <1>2, <1>6, <2>1, <2>2 DEF Rising
  <2>3. CASE j = k
    BY <1>2, <1>3, <2>1, <2>3
  <2> QED
    BY <1>4, <2>2, <2>3
<1>7. Rising(c)
  BY <1>6 DEF Rising
<1> QED
  BY <1>1, <1>5, <1>7 DEF c, Appended

(* A call of next takes a node off what is left, or ends the range.        *)
Advanced(then, state, t, lower, upper) ==
  /\ Ranging(then, t, lower, upper)
  /\ \/ then.stack = <<>>
     \/ \E n \in Undone(t, state.stack) :
           Undone(t, then.stack) \subseteq Undone(t, state.stack) \ {n}

(* One call of Range::next: it returns the least entry that remains, or
   ends the range because that one is beyond the upper bound. *)
LEMMA NextActs ==
  ASSUME NEW t, AVL(t), NEW lower \in Int, NEW upper \in Int, NEW state,
         Ranging(state, t, lower, upper), state.stack # <<>>
  PROVE  Advanced(Map!next(state, upper), state, t, lower, upper)
<1> DEFINE s == state.stack
           rest == Len(s) - 1
           under == SubSeq(s, 1, rest)
           top == s[rest + 1]
           then == Map!next(state, upper)
<1>1. /\ Stacked(s, t, Rem(s)) /\ Rem(s) \subseteq Since(Map!Pairs(t), lower)
      /\ state.out \in Seq(Entries(Map!Pairs(t))) /\ Rising(state.out)
      /\ Passed(state.out, Rem(s))
      /\ Entries(UpTo(Since(Map!Pairs(t), lower), upper))
           = Outs(state.out) \union Entries(UpTo(Rem(s), upper))
  BY DEF Ranging
<1>2. then = IF top.key > upper THEN [stack |-> <<>>, out |-> state.out]
             ELSE [stack |-> under \o Map!descend_left(top.right),
                   out |-> Append(state.out, Map!Some(top.key, top.value))]
  BY DEF Map!next
<1>3. /\ rest \in Nat /\ top \in Nodes(t)
      /\ Stacked(under, t, Rem(under))
      /\ Rem(s) = Rem(under) \union Pending(top)
      /\ \A i \in 1 .. Len(under) : Before(Pending(top), under[i].key)
      /\ Len(under) = rest
  <2> HIDE DEF s
  <2> QED
    BY <1>1, StackedTop DEF s
<1> HIDE DEF then, top, under, rest, s
<1>4. /\ AVL(top) /\ top.right \in Map!links(t) /\ top.key \in Int
      /\ \A p \in Map!Pairs(top.right) : top.key < p[1] /\ p[1] \in Int
  BY <1>3, NodeSides
<1>5. <<top.key, top.value>> \in Pending(top) /\ <<top.key, top.value>>[1] = top.key
  BY DEF Pending
<1>6. ASSUME NEW p \in Rem(under) PROVE top.key < p[1] /\ p[1] \in Int
  <2>1. PICK i \in 1 .. Len(under) : p \in Pending(under[i])
    BY DEF Rem
  <2>2. under[i] \in Nodes(t)
    BY <1>3, ElementOfSeq DEF Stacked
  <2>3. under[i].key <= p[1] /\ p[1] \in Int /\ under[i].key \in Int
    BY <2>1, <2>2, NodeSides
  <2>4. top.key < under[i].key
    BY <1>3, <1>5 DEF Before
  <2> QED
    BY <1>4, <2>3, <2>4
<1>7. CASE top.key > upper
  <2>1. then.stack = <<>> /\ then.out = state.out
    BY <1>2, <1>7
  <2>2. UpTo(Rem(s), upper) = {}
    <3>1. ASSUME NEW p \in Rem(s) PROVE ~ (p[1] <= upper)
      <4>1. p \in Rem(under) \/ p \in Map!Pairs(top.right) \/ p = <<top.key, top.value>>
        BY <1>3 DEF Pending
      <4> QED
        BY <1>4, <1>5, <1>6, <1>7, <4>1
    <3> QED
      BY <3>1 DEF UpTo
  <2>3. UpTo({}, upper) = {}
    BY DEF UpTo
  <2>4. Ranging(then, t, lower, upper)
    BY <1>1, <2>1, <2>2, <2>3, RemEmpty, StackedEmpty DEF Ranging, Passed
  <2> QED
    BY <2>1, <2>4 DEF then, Advanced
<1>8. CASE ~ (top.key > upper)
  <2> DEFINE e == Map!Some(top.key, top.value)
             below == Map!descend_left(top.right)
  <2>1. then.stack = under \o below /\ then.out = Append(state.out, e)
    BY <1>2, <1>8
  <2>2. Stacked(below, t, Map!Pairs(top.right))
    <3>1. AVL(top.right) /\ Map!links(top.right) \subseteq Map!links(t)
      BY <1>4, LinksOfLinks
    <3>2. Stacked(below, top.right, Map!Pairs(top.right))
      BY <3>1, DescendActs
    <3>3. Nodes(top.right) \subseteq Nodes(t)
      BY <3>1 DEF Nodes
    <3>4. below \in Seq(Nodes(t))
      BY <3>2, <3>3, SeqMonotonic DEF Stacked
    <3> QED
      BY <3>2, <3>4 DEF Stacked
  <2>3. \A i \in 1 .. Len(under) : Before(Map!Pairs(top.right), under[i].key)
    BY <1>3 DEF Before, Pending
  <2>4. Stacked(then.stack, t, Rem(under) \union Map!Pairs(top.right))
    <3> HIDE DEF below
    <3> QED
      BY <1>3, <2>1, <2>2, <2>3, StackedAnd
  <2>5. Rem(then.stack) = Rem(under) \union Map!Pairs(top.right)
    BY <2>4 DEF Stacked
  <2>6. Rem(s) = Rem(then.stack) \union {<<top.key, top.value>>}
    BY <1>3, <2>5 DEF Pending
  <2>7. ASSUME NEW p \in Rem(then.stack) PROVE top.key < p[1] /\ p[1] \in Int
    BY <1>4, <1>6, <2>5
  <2>8. e \in Entries(Map!Pairs(t)) /\ e.key = top.key /\ e.value = top.value
    <3>1. <<top.key, top.value>> \in Map!Pairs(t)
      BY <1>1, <2>6 DEF Since
    <3>2. <<top.key, top.value>>[1] = top.key /\ <<top.key, top.value>>[2] = top.value
      OBVIOUS
    <3> DEFINE p == <<top.key, top.value>>
    <3>3. p \in Map!Pairs(t) /\ e = Map!Some(p[1], p[2])
      BY <3>1, <3>2
    <3> HIDE DEF p
    <3>4. e \in Entries(Map!Pairs(t))
      BY <3>3 DEF Entries
    <3> QED
      BY <3>4, SomeFields
  <2>9. \A i \in 1 .. Len(state.out) : state.out[i].key < e.key
    <3>1. <<top.key, top.value>> \in Rem(s)
      BY <2>6
    <3>2. \A i \in 1 .. Len(state.out) : state.out[i].key < <<top.key, top.value>>[1]
      BY <1>1, <3>1 DEF Passed
    <3> QED
      BY <2>8, <3>2
  <2>10. /\ then.out \in Seq(Entries(Map!Pairs(t))) /\ Rising(then.out)
         /\ Outs(then.out) = Outs(state.out) \union {e}
    <3> DEFINE E == Entries(Map!Pairs(t))
    <3>1. state.out \in Seq(E) /\ Rising(state.out) /\ e \in E
      BY <1>1, <2>8
    <3> HIDE DEF e, E
    <3>2. Appended(Append(state.out, e), E, state.out, e)
      BY <2>9, <3>1, OutAppend
    <3>3. Appended(then.out, E, state.out, e)
      BY <2>1, <3>2
    <3> QED
      BY <3>3 DEF Appended, E
  <2>11. Passed(then.out, Rem(then.stack))
    <3>1. ASSUME NEW i \in 1 .. Len(then.out), NEW p \in Rem(then.stack)
          PROVE  then.out[i].key < p[1]
      <4>1. then.out[i] \in Outs(state.out) \union {e}
        <5>1. then.out[i] \in Outs(then.out)
          BY DEF Outs
        <5> QED
          BY <2>10, <5>1
      <4>2. CASE then.out[i] = e
        BY <2>7, <2>8, <4>2
      <4>3. CASE then.out[i] \in Outs(state.out)
        <5>1. PICK j \in 1 .. Len(state.out) : then.out[i] = state.out[j]
          BY <4>3 DEF Outs
        <5>2. p \in Rem(s)
          BY <2>6
        <5> QED
          BY <1>1, <5>1, <5>2 DEF Passed
      <4> QED
        BY <4>1, <4>2, <4>3
    <3> QED
      BY <3>1 DEF Passed
  <2>12. Entries(UpTo(Rem(s), upper)) = {e} \union Entries(UpTo(Rem(then.stack), upper))
    <3> DEFINE q == <<top.key, top.value>>
    <3>1. q[1] = top.key /\ q[2] = top.value
      OBVIOUS
    <3>2. q[1] <= upper /\ e = Map!Some(q[1], q[2])
      BY <1>4, <1>8, <3>1
    <3> HIDE DEF q, e
    <3>3. Rem(s) = Rem(then.stack) \union {q}
      BY <2>6 DEF q
    <3>4. UpTo(Rem(s), upper) = UpTo(Rem(then.stack), upper) \union {q}
      BY <3>2, <3>3 DEF UpTo
    <3> QED
      BY <3>2, <3>4 DEF Entries
  <2> HIDE DEF e, below
  <2>13. Entries(UpTo(Since(Map!Pairs(t), lower), upper))
           = Outs(then.out) \union Entries(UpTo(Rem(then.stack), upper))
    BY <1>1, <2>10, <2>12
  <2>14. Rem(then.stack) \subseteq Since(Map!Pairs(t), lower)
    BY <1>1, <2>6
  <2>15. Ranging(then, t, lower, upper)
    BY <2>4, <2>5, <2>10, <2>11, <2>13, <2>14 DEF Ranging
  <2>16. top \in Undone(t, s) /\ Undone(t, then.stack) \subseteq Undone(t, s) \ {top}
    <3>1. <<top.key, top.value>> \notin Rem(then.stack)
      BY <1>4, <1>5, <2>7
    <3> QED
      BY <1>3, <2>6, <3>1 DEF Undone
  <2> QED
    BY <2>15, <2>16 DEF then, s, Advanced
<1> QED
  BY <1>7, <1>8

(* A range that ended stays ended. *)
LEMMA NextStops ==
  ASSUME NEW state, state.stack = <<>>, NEW upper
  PROVE  Map!next(state, upper) = state
  BY DEF Map!next

(* range (ordered_map.rs), collected: every entry between the bounds
   once, in ascending order. *)
THEOREM RangeReturns ==
  ASSUME NEW t, AVL(t), NEW lower \in Int, NEW upper \in Int
  PROVE  Returned(Map!range(t, lower, upper), t, lower, upper)
<1>0. PICK f : RangeBy(f, t, lower, upper)
  BY RangeRule
<1>1. /\ Map!range(t, lower, upper) = f[Map!Cardinality(Map!links(t))].out
      /\ f[0] = [stack |-> Map!seek(t, lower), out |-> <<>>]
      /\ \A d \in Nat : f[d + 1] = Map!next(f[d], upper)
  BY <1>0 DEF RangeBy
<1> DEFINE N == Cardinality(Map!links(t))
<1>9. Map!Cardinality(Map!links(t)) = N
  BY DEF Map!Cardinality, Cardinality
<1>2. IsFiniteSet(Map!links(t)) /\ N \in Nat
  BY FiniteLinks, FS_CardinalityType
<1>3. \A s : /\ IsFiniteSet(Undone(t, s)) /\ Cardinality(Undone(t, s)) \in Nat
             /\ Cardinality(Undone(t, s)) <= N
  <2> TAKE s
  <2>1. Undone(t, s) \in SUBSET Map!links(t)
    BY DEF Undone, Nodes
  <2>2. IsFiniteSet(Undone(t, s)) /\ Cardinality(Undone(t, s)) <= N
    BY <1>2, <2>1, FS_Subset
  <2> QED
    BY <2>2, FS_CardinalityType
<1> HIDE DEF N
<1> DEFINE Far(d) == \/ f[d].stack = <<>>
                     \/ Cardinality(Undone(t, f[d].stack)) + d <= N
           Bad == {d \in Nat : ~ (Ranging(f[d], t, lower, upper) /\ Far(d))}
<1>4. Bad = {}
  <2> SUFFICES ASSUME Bad # {} PROVE FALSE
    OBVIOUS
  <2>1. Bad \subseteq Nat
    OBVIOUS
  <2>2. PICK d \in Bad : \A e \in Bad : d <= e
    <3> HIDE DEF Bad
    <3> QED
      BY <2>1, LeastNatural
  <2>3. d \in Nat /\ ~ (Ranging(f[d], t, lower, upper) /\ Far(d))
    OBVIOUS
  <2>4. CASE d = 0
    <3>1. f[0].stack = Map!seek(t, lower) /\ f[0].out = <<>>
      BY <1>1
    <3>2. Stacked(Map!seek(t, lower), t, Since(Map!Pairs(t), lower))
      BY SeekActs
    <3>3. Rem(Map!seek(t, lower)) = Since(Map!Pairs(t), lower)
      BY <3>2 DEF Stacked
    <3>4. <<>> \in Seq(Entries(Map!Pairs(t))) /\ Len(<<>>) = 0 /\ 1 .. 0 = {}
      OBVIOUS
    <3>5. Rising(<<>>) /\ Outs(<<>>) = {} /\ \A P : Passed(<<>>, P)
      BY <3>4 DEF Rising, Outs, Passed
    <3>6. Ranging(f[0], t, lower, upper)
      BY <3>1, <3>2, <3>3, <3>4, <3>5 DEF Ranging
    <3>7. Far(0)
      BY <1>2, <1>3
    <3> QED
      BY <2>3, <2>4, <3>6, <3>7
  <2>5. CASE d # 0
    <3>1. PICK e \in Nat : d = e + 1
      <4>1. d - 1 \in Nat /\ d = (d - 1) + 1
        BY <2>3, <2>5
      <4> QED
        BY <4>1
    <3>2. e \notin Bad
      BY <2>2, <3>1
    <3>3. Ranging(f[e], t, lower, upper) /\ Far(e)
      BY <3>2
    <3>4. f[d] = Map!next(f[e], upper)
      BY <1>1, <3>1
    <3>5. CASE f[e].stack = <<>>
      <4>1. f[d] = f[e]
        BY <3>4, <3>5, NextStops
      <4> QED
        BY <2>3, <3>3, <3>5, <4>1
    <3>6. CASE f[e].stack # <<>>
      <4>1. /\ Ranging(f[d], t, lower, upper)
            /\ \/ f[d].stack = <<>>
               \/ \E n \in Undone(t, f[e].stack) :
                     Undone(t, f[d].stack) \subseteq Undone(t, f[e].stack) \ {n}
        <5>1. Advanced(Map!next(f[e], upper), f[e], t, lower, upper)
          <6> DEFINE state == f[e]
          <6>1. Ranging(state, t, lower, upper) /\ state.stack # <<>>
            BY <3>3, <3>6
          <6> HIDE DEF state
          <6>2. Advanced(Map!next(state, upper), state, t, lower, upper)
            BY <6>1, NextActs
          <6> QED
            BY <6>2 DEF state
        <5>2. Advanced(f[d], f[e], t, lower, upper)
          BY <3>4, <5>1
        <5> HIDE DEF Far, Bad
        <5> QED
          BY <5>2 DEF Advanced
      <4>2. CASE f[d].stack = <<>>
        BY <2>3, <4>1, <4>2
      <4>3. CASE \E n \in Undone(t, f[e].stack) :
                     Undone(t, f[d].stack) \subseteq Undone(t, f[e].stack) \ {n}
        <5> DEFINE U == Undone(t, f[e].stack)
                   V == Undone(t, f[d].stack)
        <5>1. PICK n \in U : V \subseteq U \ {n}
          BY <4>3
        <5>2. IsFiniteSet(U) /\ Cardinality(U) \in Nat /\ Cardinality(V) \in Nat
          BY <1>3
        <5>3. Cardinality(U) + e <= N
          BY <3>3, <3>6
        <5> HIDE DEF U, V
        <5>4. IsFiniteSet(U \ {n}) /\ Cardinality(U \ {n}) = Cardinality(U) - 1
          BY <5>2, FS_RemoveElement
        <5>5. Cardinality(V) <= Cardinality(U \ {n})
          BY <5>1, <5>4, FS_Subset
        <5>6. Cardinality(V) + d <= N
          BY <1>2, <3>1, <5>2, <5>3, <5>4, <5>5
        <5> QED
          BY <2>3, <4>1, <5>6 DEF V
      <4> QED
        BY <4>1, <4>2, <4>3
    <3> QED
      BY <3>5, <3>6
  <2> QED
    BY <2>4, <2>5
<1>5. Ranging(f[N], t, lower, upper) /\ Far(N)
  BY <1>2, <1>4
<1>6. f[N].stack = <<>>
  <2> SUFFICES ASSUME f[N].stack # <<>> PROVE FALSE
    OBVIOUS
  <2>1. Cardinality(Undone(t, f[N].stack)) + N <= N
    BY <1>5
  <2>2. Cardinality(Undone(t, f[N].stack)) = 0
    BY <1>2, <1>3, <2>1
  <2>3. Undone(t, f[N].stack) = {}
    BY <1>3, <2>2, FS_EmptySet
  <2>4. \E n \in Undone(t, f[N].stack) : TRUE
    <3> DEFINE s == f[N].stack
               rest == Len(s) - 1
               top == s[rest + 1]
    <3>1. Stacked(s, t, Rem(s))
      BY <1>5 DEF Ranging
    <3> HIDE DEF s
    <3>2. /\ top \in Nodes(t)
          /\ Rem(s) = Rem(SubSeq(s, 1, rest)) \union Pending(top)
      BY <3>1, StackedTop DEF s
    <3> HIDE DEF top, rest
    <3>3. top \in Undone(t, s)
      BY <3>2 DEF Undone, Pending
    <3> QED
      BY <3>3 DEF s
  <2> QED
    BY <2>3, <2>4
<1>7. Entries(UpTo(Rem(f[N].stack), upper)) = {}
  BY <1>6, RemEmpty DEF Entries, UpTo
<1> HIDE DEF Far, Bad
<1>8. Returned(f[N].out, t, lower, upper)
  BY <1>5, <1>7 DEF Ranging, Returned
<1> QED
  BY <1>9, <1>1, <1>8 DEF N

-----------------------------------------------------------------------------
(* The overlay.  Its map is a balanced tree with one entry per entity a commit
   touched, whatever was inserted in whatever order.                        *)

(* A tree of exactly the keys S, each with its own id as value. *)
Holds(t, S) == AVL(t) /\ Map!Pairs(t) = {<<k, k>> : k \in S}

OverlayInv == Holds(overlay, Touched) /\ Touched \subseteq Ids

(* The keys of a tree of exactly the keys S. *)
LEMMA KeysHeld ==
  ASSUME NEW t, NEW S, Map!Pairs(t) = {<<k, k>> : k \in S}
  PROVE  {p[1] : p \in Map!Pairs(t)} = S
<1>1. \A k : <<k, k>>[1] = k
  OBVIOUS
<1>2. ASSUME NEW k \in S PROVE k \in {p[1] : p \in Map!Pairs(t)}
  <2>1. <<k, k>> \in Map!Pairs(t)
    OBVIOUS
  <2> QED
    BY <1>1, <2>1
<1>3. ASSUME NEW p \in Map!Pairs(t) PROVE p[1] \in S
  BY <1>1
<1> QED
  BY <1>2, <1>3

(* Inserting an id with itself as value adds it to the keys. *)
LEMMA HoldsInserted ==
  ASSUME NEW t, NEW S, Holds(t, S), NEW id \in Int
  PROVE  Holds(Map!insert(t, id, id), S \union {id})
<1>1. Inserted(Map!insert(t, id, id), t, id, id)
  BY InsertActs DEF Holds
<1>2. Map!Pairs(Map!insert(t, id, id)) = Without(Map!Pairs(t), id) \union {<<id, id>>}
  BY <1>1 DEF Inserted
<1>3. Without({<<k, k>> : k \in S}, id) \union {<<id, id>>} = {<<k, k>> : k \in S \union {id}}
  BY DEF Without
<1> QED
  BY <1>1, <1>2, <1>3 DEF Holds, Inserted

(* Removing a key takes it out of them. *)
LEMMA HoldsRemoved ==
  ASSUME NEW t, NEW S, Holds(t, S), NEW key \in Int
  PROVE  Holds(Map!remove(t, key), S \ {key})
<1>1. Removed(Map!remove(t, key), t, key)
  BY RemoveActs DEF Holds
<1>2. Without({<<k, k>> : k \in S}, key) = {<<k, k>> : k \in S \ {key}}
  BY DEF Without
<1> QED
  BY <1>1, <1>2 DEF Holds, Removed

(* Retaining from a key keeps the keys from it on. *)
LEMMA HoldsRetained ==
  ASSUME NEW t, NEW S, Holds(t, S), NEW key \in Int
  PROVE  Holds(Map!retain_from(t, key), {j \in S : j >= key})
<1>1. Retained(Map!retain_from(t, key), t, key)
  BY RetainActs DEF Holds
<1>2. S \subseteq Int
  <2>1. \A p \in Map!Pairs(t) : p[1] \in Int
    BY KeysAreInt DEF Holds
  <2> QED
    BY <2>1, KeysHeld DEF Holds
<1>3. Since({<<k, k>> : k \in S}, key) = {<<k, k>> : k \in {j \in S : j >= key}}
  BY <1>2 DEF Since
<1> QED
  BY <1>1, <1>3 DEF Holds, Retained

(* An AVL tree is sound: the heights differ by one at most and the keys of a
   subtree lie on its side.                                                 *)
LEMMA AVLIsSound ==
  ASSUME NEW t, AVL(t)
  PROVE  Map!Sound(t)
<1> SUFFICES ASSUME NEW n \in Map!links(t) \ {Map!Nil}
             PROVE  /\ \A p \in Map!Pairs(n.left) : p[1] < n.key
                    /\ \A p \in Map!Pairs(n.right) : n.key < p[1]
                    /\ n.left.height - n.right.height \in {-1, 0, 1}
                    /\ n.height = 1 + IF n.left.height > n.right.height
                                      THEN n.left.height ELSE n.right.height
  BY DEF Map!Sound
<1>1. Good(n)
  BY DEF AVL
<1>2. ASSUME NEW p \in Map!Pairs(n.left) PROVE p[1] < n.key
  <2>1. PICK m \in Map!links(n.left) \ {Map!Nil} : p = <<m.key, m.value>>
    BY DEF Map!Pairs
  <2>2. m.key < n.key
    BY <1>1, <2>1 DEF Good
  <2> QED
    BY <2>1, <2>2
<1>3. ASSUME NEW p \in Map!Pairs(n.right) PROVE n.key < p[1]
  <2>1. PICK m \in Map!links(n.right) \ {Map!Nil} : p = <<m.key, m.value>>
    BY DEF Map!Pairs
  <2>2. n.key < m.key
    BY <1>1, <2>1 DEF Good
  <2> QED
    BY <2>1, <2>2
<1> QED
  BY <1>1, <1>2, <1>3 DEF Good

(* The overlay of a new database, and after a checkpoint. *)
LEMMA OverlayEmpty == Holds(Map!Nil, {})
  BY NilTree DEF Holds

-----------------------------------------------------------------------------
(* What the lookups find in a tree of exactly the keys S. *)

(* get finds a key exactly when it is one of the tree's. *)
LEMMA GetOfKeys ==
  ASSUME NEW t, NEW S, Holds(t, S), NEW key \in Int
  PROVE  Map!get(t, key) = IF key \in S THEN Map!Some(key, key) ELSE Map!None
<1>1. Gets(Map!get(t, key), t, key)
  BY GetFinds DEF Holds
<1>2. Map!Pairs(t) = {<<k, k>> : k \in S}
  BY DEF Holds
<1>3. CASE Map!get(t, key) = Map!None /\ \A p \in Map!Pairs(t) : p[1] # key
  <2>1. ASSUME key \in S PROVE FALSE
    <3>1. <<key, key>> \in Map!Pairs(t) /\ <<key, key>>[1] = key
      BY <1>2, <2>1
    <3> QED
      BY <1>3, <3>1
  <2> QED
    BY <1>3, <2>1
<1>4. CASE \E p \in Map!Pairs(t) : p[1] = key /\ Map!get(t, key) = Map!Some(p[1], p[2])
  <2>1. PICK k \in S : k = key /\ Map!get(t, key) = Map!Some(k, k)
    BY <1>2, <1>4
  <2> QED
    BY <2>1
<1> QED
  BY <1>1, <1>3, <1>4 DEF Gets

(* An upper bound of a set that is in it is its maximum. *)
LEMMA GreatestIs ==
  ASSUME NEW S, S \subseteq Int, NEW m \in S, \A j \in S : j <= m
  PROVE  Max(S) = m
<1>1. Max(S) \in S /\ \A y \in S : Max(S) >= y
  <2>1. \A y \in S : m >= y
    OBVIOUS
  <2> QED
    BY <2>1, Zenon DEF Max
<1>2. Max(S) \in Int /\ m \in Int /\ Max(S) >= m /\ Max(S) <= m
  BY <1>1
<1> QED
  BY <1>2

FloorIs(x, below) ==
  x = IF below = {} THEN Map!None ELSE Map!Some(Max(below), Max(below))

(* floor finds the greatest of the keys that are not above it. *)
LEMMA FloorOfKeys ==
  ASSUME NEW t, NEW S, S \subseteq Int, Holds(t, S), NEW key \in Int
  PROVE  FloorIs(Map!floor(t, key), {j \in S : j <= key})
<1> DEFINE below == {j \in S : j <= key}
<1>1. Floors(Map!floor(t, key), t, key)
  BY FloorFinds DEF Holds
<1>2. Map!Pairs(t) = {<<k, k>> : k \in S}
  BY DEF Holds
<1>3. CASE Map!floor(t, key) = Map!None /\ \A p \in Map!Pairs(t) : key < p[1]
  <2>1. ASSUME NEW k \in S PROVE key < k
    <3>1. <<k, k>> \in Map!Pairs(t) /\ <<k, k>>[1] = k
      BY <1>2
    <3> QED
      BY <1>3, <3>1
  <2>2. ASSUME NEW j \in below PROVE FALSE
    <3>1. j \in Int /\ j <= key /\ key < j
      BY <2>1
    <3> QED
      BY <3>1
  <2> QED
    BY <1>3, <2>2 DEF FloorIs
<1>4. CASE \E p \in Map!Pairs(t) :
               /\ p[1] <= key /\ Map!floor(t, key) = Map!Some(p[1], p[2])
               /\ \A q \in Map!Pairs(t) : q[1] <= key => q[1] <= p[1]
  <2>1. PICK p \in Map!Pairs(t) :
               /\ p[1] <= key /\ Map!floor(t, key) = Map!Some(p[1], p[2])
               /\ \A q \in Map!Pairs(t) : q[1] <= key => q[1] <= p[1]
    BY <1>4
  <2>2. PICK k \in S : p = <<k, k>>
    BY <1>2
  <2>3. k <= key /\ Map!floor(t, key) = Map!Some(k, k)
    BY <2>1, <2>2
  <2>4. ASSUME NEW j \in below PROVE j <= k
    <3>1. <<j, j>> \in Map!Pairs(t) /\ <<j, j>>[1] = j /\ j <= key
      BY <1>2
    <3>2. <<j, j>>[1] <= p[1]
      BY <2>1, <3>1
    <3> QED
      BY <2>2, <3>1, <3>2
  <2>5. Max(below) = k
    BY <2>3, <2>4, GreatestIs
  <2>6. below # {}
    BY <2>3
  <2> QED
    BY <2>3, <2>5, <2>6 DEF FloorIs
<1> QED
  BY <1>1, <1>3, <1>4 DEF Floors, FloorIs

RangeIs(found, keys) ==
  /\ \A i, j \in DOMAIN found : i < j => found[i].key < found[j].key
  /\ {found[i] : i \in DOMAIN found} = {Map!Some(j, j) : j \in keys}

(* range returns the keys within its bounds in ascending order. *)
LEMMA RangeOfKeys ==
  ASSUME NEW t, NEW S, S \subseteq Int, Holds(t, S), NEW lower \in Int, NEW upper \in Int
  PROVE  RangeIs(Map!range(t, lower, upper), S \cap (lower .. upper))
<1> DEFINE found == Map!range(t, lower, upper)
<1>1. Returned(found, t, lower, upper)
  BY RangeReturns DEF Holds, found
<1>2. DOMAIN found = 1 .. Len(found)
  BY <1>1 DEF Returned
<1>3. \A i, j \in DOMAIN found : i < j => found[i].key < found[j].key
  BY <1>1, <1>2 DEF Returned, Rising
<1>4. {found[i] : i \in DOMAIN found} = Entries(UpTo(Since(Map!Pairs(t), lower), upper))
  BY <1>1, <1>2 DEF Returned, Outs
<1> HIDE DEF found
<1> DEFINE inside == S \cap (lower .. upper)
<1>5. UpTo(Since(Map!Pairs(t), lower), upper) = {<<k, k>> : k \in inside}
  <2>1. Map!Pairs(t) = {<<k, k>> : k \in S}
    BY DEF Holds
  <2>2. ASSUME NEW p \in UpTo(Since(Map!Pairs(t), lower), upper)
        PROVE  p \in {<<k, k>> : k \in inside}
    <3>1. p \in Map!Pairs(t) /\ lower <= p[1] /\ p[1] <= upper
      BY DEF Since, UpTo
    <3>2. PICK k \in S : p = <<k, k>>
      BY <2>1, <3>1
    <3>3. k \in Int /\ lower <= k /\ k <= upper
      BY <3>1, <3>2
    <3> QED
      BY <3>2, <3>3
  <2>3. ASSUME NEW k \in inside
        PROVE  <<k, k>> \in UpTo(Since(Map!Pairs(t), lower), upper)
    <3>1. <<k, k>> \in Map!Pairs(t) /\ <<k, k>>[1] = k /\ lower <= k /\ k <= upper
      BY <2>1
    <3> QED
      BY <3>1 DEF Since, UpTo
  <2> QED
    BY <2>2, <2>3
<1>6. Entries({<<k, k>> : k \in inside}) = {Map!Some(j, j) : j \in inside}
  <2> HIDE DEF inside
  <2> DEFINE pairs == {<<k, k>> : k \in inside}
  <2>1. \A j : <<j, j>>[1] = j /\ <<j, j>>[2] = j
    OBVIOUS
  <2>2. ASSUME NEW p \in pairs PROVE Map!Some(p[1], p[2]) \in {Map!Some(j, j) : j \in inside}
    BY <2>1
  <2>3. ASSUME NEW j \in inside PROVE Map!Some(j, j) \in {Map!Some(p[1], p[2]) : p \in pairs}
    <3>1. PICK p \in pairs : p[1] = j /\ p[2] = j
      BY <2>1
    <3> QED
      BY <3>1
  <2> QED
    BY <2>2, <2>3 DEF Entries
<1> QED
  BY <1>3, <1>4, <1>5, <1>6 DEF RangeIs, found

(* What MapAgrees says of such a tree. *)
LEMMA HoldsIs ==
  ASSUME NEW t, NEW S, Holds(t, S)
  PROVE  Map!Sound(t) /\ Map!Pairs(t) = {<<k, k>> : k \in S}
  BY AVLIsSound DEF Holds

(* The invariant says the shape and the keys of the overlay's tree; that every
   operation agrees with the set of keys follows for any such tree.         *)
LEMMA OverlayAgrees == OverlayInv => MapAgrees
<1> SUFFICES ASSUME OverlayInv PROVE MapAgrees
  OBVIOUS
<1>1. Ids \subseteq Int
  BY DirectoryAssumption DEF Ids
<1>2. Holds(overlay, Touched) /\ Touched \subseteq Int
  BY <1>1 DEF OverlayInv
<1>3. Map!Sound(overlay) /\ Map!Pairs(overlay) = {<<k, k>> : k \in Touched}
  BY <1>2, HoldsIs
<1>4. ASSUME NEW k \in Ids
      PROVE  /\ Map!get(overlay, k) = IF k \in Touched THEN Map!Some(k, k) ELSE Map!None
             /\ LET below == {j \in Touched : j <= k}
                IN  Map!floor(overlay, k) =
                       IF below = {} THEN Map!None ELSE Map!Some(Max(below), Max(below))
             /\ /\ Map!Sound(Map!remove(overlay, k))
                /\ Map!Pairs(Map!remove(overlay, k)) = {<<j, j>> : j \in Touched \ {k}}
             /\ /\ Map!Sound(Map!retain_from(overlay, k))
                /\ Map!Pairs(Map!retain_from(overlay, k))
                     = {<<j, j>> : j \in {i \in Touched : i >= k}}
  <2>0. k \in Int
    BY <1>1
  <2>1. Map!get(overlay, k) = IF k \in Touched THEN Map!Some(k, k) ELSE Map!None
    BY <1>2, <2>0, GetOfKeys
  <2>2. LET below == {j \in Touched : j <= k}
        IN  Map!floor(overlay, k) =
               IF below = {} THEN Map!None ELSE Map!Some(Max(below), Max(below))
    <3> DEFINE below == {j \in Touched : j <= k}
    <3>1. FloorIs(Map!floor(overlay, k), below)
      BY <1>2, <2>0, FloorOfKeys
    <3> QED
      BY <3>1 DEF FloorIs
  <2>3. Holds(Map!remove(overlay, k), Touched \ {k})
    BY <1>2, <2>0, HoldsRemoved
  <2>4. Holds(Map!retain_from(overlay, k), {i \in Touched : i >= k})
    BY <1>2, <2>0, HoldsRetained
  <2> QED
    BY <2>1, <2>2, <2>3, <2>4, HoldsIs
<1>5. ASSUME NEW k \in Ids, NEW upper \in k .. MaxId
      PROVE  LET found == Map!range(overlay, k, upper)
             IN  /\ \A i, j \in DOMAIN found : i < j => found[i].key < found[j].key
                 /\ {found[i] : i \in DOMAIN found}
                      = {Map!Some(j, j) : j \in Touched \cap (k .. upper)}
  <2>0. k \in Int /\ upper \in Int
    BY <1>1
  <2>1. RangeIs(Map!range(overlay, k, upper), Touched \cap (k .. upper))
    BY <1>2, <2>0, RangeOfKeys
  <2> QED
    BY <2>1 DEF RangeIs
<1> QED
  BY <1>3, <1>4, <1>5, Zenon DEF MapAgrees

-----------------------------------------------------------------------------
(* A new database has an empty overlay. *)
LEMMA OverlayInvInitially == Init => OverlayInv
<1> SUFFICES ASSUME Init PROVE OverlayInv
  OBVIOUS
<1>1. overlay = Map!Nil
  BY DEF Init
<1>2. Touched = {}
  BY <1>1, NilTree DEF Touched
<1> QED
  BY <1>1, <1>2, OverlayEmpty DEF OverlayInv

(* A commit inserts the id of its entity, a checkpoint empties the
   overlay, and nothing else changes it. *)
LEMMA OverlayInvKept ==
  ASSUME OverlayInv, [Next]_vars
  PROVE  OverlayInv'
<1>1. ASSUME NEW id \in Ids, Commit(id) PROVE OverlayInv'
  <2>1. id \in Int
    BY DirectoryAssumption DEF Ids
  <2>2. overlay' = Map!insert(overlay, id, id)
    BY <1>1 DEF Commit
  <2>3. Holds(overlay', Touched \union {id})
    BY <2>1, <2>2, HoldsInserted DEF OverlayInv
  <2>4. Touched' = Touched \union {id}
    <3>1. Map!Pairs(overlay') = {<<k, k>> : k \in Touched \union {id}}
      BY <2>3 DEF Holds
    <3>2. {p[1] : p \in Map!Pairs(overlay')} = Touched \union {id}
      BY <3>1, KeysHeld
    <3> QED
      BY <3>2 DEF Touched
  <2> QED
    BY <2>3, <2>4 DEF OverlayInv, Ids
<1>2. ASSUME NEW absorb, NEW partial, NEW quota, Checkpoint(absorb, partial, quota)
      PROVE  OverlayInv'
  <2>1. overlay' = Map!Nil
    BY <1>2 DEF Checkpoint
  <2>2. Touched' = {}
    BY <2>1, NilTree DEF Touched
  <2> QED
    BY <2>1, <2>2, OverlayEmpty DEF OverlayInv
<1>3. CASE UNCHANGED vars
  BY <1>3 DEF vars, OverlayInv, Touched, Ids
<1> QED
  BY <1>1, <1>2, <1>3 DEF Next, Finished

(* The overlay's ordered map agrees with the set of entities that commits touched,
   whatever the number of entities and the order of the commits: get, floor and
   range (overlay.rs) read it so, remove and retain_from leave such a tree.  *)
THEOREM OverlayMapAgrees == Spec => []MapAgrees
<1>1. Init => OverlayInv
  BY OverlayInvInitially
<1>2. OverlayInv /\ [Next]_vars => OverlayInv'
  BY OverlayInvKept
<1>3. OverlayInv => MapAgrees
  BY OverlayAgrees
<1> QED
  BY <1>1, <1>2, <1>3, PTL DEF Spec
=============================================================================
