--------------------------- MODULE CommitQueueProofs ---------------------------
(***************************************************************************)
(* The commit queue, proved for any number of callers, any sizes of        *)
(* requests and any limits: the counters that admit requests are exact, a  *)
(* claimed request has a leader, and an expired one is never committed.    *)
(*                                                                         *)
(* The bytes are sums over sets of requests.  The first section proves     *)
(* what such a sum does when a request is added, removed or resized.       *)
(***************************************************************************)
EXTENDS CommitQueue, FiniteSetTheorems, FunctionTheorems, SequenceTheorems,
        WellFoundedInduction, TLAPS

-----------------------------------------------------------------------------
(* Sums over finite sets. *)

SumOf(w, S) == MapThenSumSet(LAMBDA c : w[c], S)

(* A function from the subsets of S to their sums, taking away one element. *)
SumStep(f, w, s) == IF s = {} THEN 0
                    ELSE w[CHOOSE x \in s : TRUE] + f[s \ {CHOOSE x \in s : TRUE}]
SumsOver(f, w, S) == f = [s \in SUBSET S |-> SumStep(f, w, s)]

(* Every nonempty set of natural numbers has a least element. *)
LEMMA LeastNatural ==
    ASSUME NEW T, T \subseteq Nat, T # {}
    PROVE  \E x \in T : \A y \in T : x <= y
  <1> DEFINE R == {ss \in Nat \X Nat : ss[1] < ss[2]}
  <1>1. IsWellFoundedOn(R, Nat)
    BY NatLessThanWellFounded DEF OpToRel
  <1>2. PICK x \in T : \A y \in T : ~ (<<y, x>> \in R)
    <2> HIDE DEF R
    <2>1. QED
      BY <1>1, WFMin
  <1>3. ASSUME NEW y \in T PROVE x <= y
    <2>1. x \in Nat /\ y \in Nat
      OBVIOUS
    <2>2. ASSUME y < x PROVE <<y, x>> \in R
      BY <2>1, <2>2
    <2>3. QED
      BY <1>2, <2>1, <2>2
  <1>4. QED
    BY <1>3

(* A nonempty set of subsets of a finite set has a smallest member. *)
LEMMA SmallestSet ==
    ASSUME NEW S, IsFiniteSet(S), NEW T, T \subseteq SUBSET S, T # {}
    PROVE  \E s \in T : \A t \in T : t \subseteq s => t = s
  <1>1. IsWellFoundedOn(StrictSubsetOrdering(S), SUBSET S)
    BY FS_StrictSubsetOrderingWellFounded, FS_FiniteSubsetsOfFinite
  <1>2. PICK s \in T : \A t \in T : ~ (<<t, s>> \in StrictSubsetOrdering(S))
    BY <1>1, WFMin
  <1>3. ASSUME NEW t \in T, t \subseteq s, t # s
        PROVE  <<t, s>> \in StrictSubsetOrdering(S)
    BY <1>3 DEF StrictSubsetOrdering
  <1>4. ASSUME NEW t \in T, t \subseteq s PROVE t = s
    BY <1>2, <1>3, <1>4
  <1>5. QED
    BY <1>4

(* The sum is the value that some such function has for the whole set. *)
LEMMA SumIsChosen ==
    ASSUME NEW S, NEW w
    PROVE  SumOf(w, S) = (CHOOSE f : SumsOver(f, w, S))[S]
  BY Zenon DEF SumOf, MapThenSumSet, MapThenFoldSet, SumsOver, SumStep

(* The sums exist: a function that is right for the sets of fewer than n elements
   becomes right for the sets of n.                                          *)
LEMMA SumsExist ==
    ASSUME NEW S, IsFiniteSet(S), NEW w
    PROVE  \E f : SumsOver(f, w, S)
  <1> DEFINE Right(f, n) == \A s \in SUBSET S : Cardinality(s) < n => f[s] = SumStep(f, w, s)
             Missing == {n \in Nat : ~ \E f : DOMAIN f = SUBSET S /\ f = [s \in SUBSET S |-> f[s]] /\ Right(f, n)}
  <1>1. ASSUME NEW s \in SUBSET S
        PROVE  IsFiniteSet(s) /\ Cardinality(s) \in Nat /\ Cardinality(s) <= Cardinality(S)
    BY FS_Subset, FS_CardinalityType
  <1>2. Missing = {}
    <2>1. SUFFICES ASSUME Missing # {} PROVE FALSE
      OBVIOUS
    <2>2. PICK n \in Missing : \A m \in Missing : n <= m
      BY <2>1, LeastNatural
    <2>3. CASE n = 0
      <3> DEFINE f == [s \in SUBSET S |-> 0]
      <3>1. Right(f, 0)
        BY <1>1
      <3>2. f = [s \in SUBSET S |-> f[s]] /\ DOMAIN f = SUBSET S
        OBVIOUS
      <3>3. QED
        <4> HIDE DEF f, Right
        <4>1. QED
          BY <2>2, <2>3, <3>1, <3>2
    <2>4. CASE n # 0
      <3>1. n - 1 \in Nat /\ n - 1 \notin Missing
        <4>1. n \in Nat
          OBVIOUS
        <4>2. n - 1 \in Nat /\ ~(n <= n - 1)
          BY <4>1, <2>4
        <4>3. QED
          BY <2>2, <4>2
      <3>2. PICK f : DOMAIN f = SUBSET S /\ f = [s \in SUBSET S |-> f[s]] /\ Right(f, n - 1)
        <4> HIDE DEF Right
        <4>1. QED
          BY <3>1
      <3> DEFINE g == [s \in SUBSET S |-> IF Cardinality(s) = n - 1 THEN SumStep(f, w, s) ELSE f[s]]
      <3>3. ASSUME NEW s \in SUBSET S, Cardinality(s) < n, s # {}
            PROVE  LET x == CHOOSE x \in s : TRUE
                   IN  s \ {x} \in SUBSET S /\ g[s \ {x}] = f[s \ {x}]
        <4> DEFINE x == CHOOSE y \in s : TRUE
        <4>1. x \in s
          BY <3>3
        <4>2. Cardinality(s \ {x}) = Cardinality(s) - 1
          BY <1>1, <4>1, FS_RemoveElement
        <4>3. Cardinality(s \ {x}) # n - 1
          BY <1>1, <4>2, <3>3
        <4> HIDE DEF x
        <4>4. s \ {x} \in SUBSET S
          OBVIOUS
        <4>5. g[s \ {x}] = f[s \ {x}]
          BY <4>3, <4>4
        <4> USE DEF x
        <4>6. QED
          BY <4>4, <4>5
      <3>4. ASSUME NEW s \in SUBSET S, Cardinality(s) < n PROVE SumStep(g, w, s) = SumStep(f, w, s)
        <4> HIDE DEF g
        <4>1. QED
          BY <3>3, <3>4 DEF SumStep
      <3>5. Right(g, n)
        <4>1. SUFFICES ASSUME NEW s \in SUBSET S, Cardinality(s) < n
                       PROVE  g[s] = SumStep(g, w, s)
          OBVIOUS
        <4>2. CASE Cardinality(s) = n - 1
          BY <3>4, <4>1, <4>2
        <4>3. CASE Cardinality(s) # n - 1
          <5>1. Cardinality(s) < n - 1
            BY <1>1, <4>1, <4>3
          <5>2. f[s] = SumStep(f, w, s)
            BY <3>2, <5>1
          <5>3. g[s] = f[s]
            BY <4>3
          <5>4. QED
            BY <5>2, <5>3, <3>4, <4>1
        <4>4. QED
          BY <4>2, <4>3
      <3>6. DOMAIN g = SUBSET S /\ g = [s \in SUBSET S |-> g[s]]
        OBVIOUS
      <3>7. QED
        <4> HIDE DEF g, Right
        <4>1. QED
          BY <2>2, <3>5, <3>6
    <2>5. QED
      BY <2>3, <2>4
  <1>3. Cardinality(S) + 1 \in Nat
    BY FS_CardinalityType
  <1>4. PICK f : DOMAIN f = SUBSET S /\ f = [s \in SUBSET S |-> f[s]] /\ Right(f, Cardinality(S) + 1)
    <2> HIDE DEF Right
    <2>1. QED
      BY <1>2, <1>3
  <1>5. ASSUME NEW s \in SUBSET S PROVE f[s] = SumStep(f, w, s)
    <2>1. Cardinality(s) < Cardinality(S) + 1
      BY <1>1, <1>3
    <2>2. QED
      BY <1>4, <2>1
  <1>6. [s \in SUBSET S |-> f[s]] = [s \in SUBSET S |-> SumStep(f, w, s)]
    BY <1>5
  <1>7. f = [s \in SUBSET S |-> f[s]]
    BY <1>4
  <1>8. f = [s \in SUBSET S |-> SumStep(f, w, s)]
    BY <1>6, <1>7, Zenon
  <1>9. QED
    BY <1>8, Zenon DEF SumsOver

LEMMA SumsUnfold ==
    ASSUME NEW S, NEW w, NEW f, SumsOver(f, w, S), NEW s \in SUBSET S
    PROVE  f[s] = SumStep(f, w, s)
  <1> DEFINE g == [t \in SUBSET S |-> SumStep(f, w, t)]
  <1>1. f = g
    BY Zenon DEF SumsOver
  <1>2. g[s] = SumStep(f, w, s)
    OBVIOUS
  <1>3. QED
    BY <1>1, <1>2, Zenon

(* Two such functions agree on a set when the weights of its elements do. *)
LEMMA SumsAgree ==
    ASSUME NEW S, NEW T, NEW w, NEW v, NEW f, NEW g,
           SumsOver(f, w, S), SumsOver(g, v, T),
           NEW U, IsFiniteSet(U), U \subseteq S, U \subseteq T,
           \A x \in U : w[x] = v[x]
    PROVE  f[U] = g[U]
  <1> DEFINE Bad == {s \in SUBSET U : f[s] # g[s]}
  <1>1. SUFFICES ASSUME Bad # {} PROVE FALSE
    OBVIOUS
  <1>2. PICK s \in Bad : \A t \in Bad : t \subseteq s => t = s
    <2>1. Bad \subseteq SUBSET U
      OBVIOUS
    <2> HIDE DEF Bad
    <2>2. QED
      BY <1>1, <2>1, SmallestSet
  <1>3. f[s] = SumStep(f, w, s) /\ g[s] = SumStep(g, v, s)
    BY SumsUnfold
  <1>4. CASE s = {}
    BY <1>3, <1>4 DEF SumStep
  <1>5. CASE s # {}
    <2>1. PICK x : x = CHOOSE y \in s : TRUE
      OBVIOUS
    <2>2. x \in s
      BY <1>5, <2>1
    <2>3. s \ {x} \notin Bad
      BY <1>2, <2>2
    <2>4. f[s \ {x}] = g[s \ {x}]
      BY <2>3
    <2>5. w[x] = v[x]
      BY <2>2
    <2>6. SumStep(f, w, s) = w[x] + f[s \ {x}] /\ SumStep(g, v, s) = v[x] + g[s \ {x}]
      BY <1>5, <2>1 DEF SumStep
    <2>7. QED
      BY <1>3, <2>4, <2>5, <2>6
  <1>6. QED
    BY <1>4, <1>5

LEMMA SumsAreNatural ==
    ASSUME NEW S, IsFiniteSet(S), NEW w, \A x \in S : w[x] \in Nat,
           NEW f, SumsOver(f, w, S), NEW r \in SUBSET S
    PROVE  f[r] \in Nat
  <1> DEFINE Bad == {s \in SUBSET S : f[s] \notin Nat}
  <1>1. SUFFICES ASSUME Bad # {} PROVE FALSE
    OBVIOUS
  <1>2. PICK s \in Bad : \A t \in Bad : t \subseteq s => t = s
    <2>1. Bad \subseteq SUBSET S
      OBVIOUS
    <2> HIDE DEF Bad
    <2>2. QED
      BY <1>1, <2>1, SmallestSet
  <1>3. f[s] = SumStep(f, w, s)
    BY SumsUnfold
  <1>4. CASE s = {}
    BY <1>3, <1>4 DEF SumStep
  <1>5. CASE s # {}
    <2>1. PICK x : x = CHOOSE y \in s : TRUE
      OBVIOUS
    <2>2. x \in s
      BY <1>5, <2>1
    <2>3. s \ {x} \notin Bad
      BY <1>2, <2>2
    <2>4. f[s \ {x}] \in Nat /\ w[x] \in Nat
      BY <2>2, <2>3
    <2>5. SumStep(f, w, s) = w[x] + f[s \ {x}]
      BY <1>5, <2>1 DEF SumStep
    <2>6. QED
      BY <1>3, <2>4, <2>5
  <1>6. QED
    BY <1>4, <1>5

(* The order in which the elements are taken does not matter. *)
LEMMA SumsInAnyOrder ==
    ASSUME NEW S, IsFiniteSet(S), NEW w, \A x \in S : w[x] \in Nat,
           NEW f, SumsOver(f, w, S), NEW r \in SUBSET S, NEW z \in r
    PROVE  f[r] = w[z] + f[r \ {z}]
  <1> DEFINE Bad == {s \in SUBSET S : \E x \in s : f[s] # w[x] + f[s \ {x}]}
  <1>1. SUFFICES ASSUME Bad # {} PROVE FALSE
    OBVIOUS
  <1>2. PICK s \in Bad : \A t \in Bad : t \subseteq s => t = s
    <2>1. Bad \subseteq SUBSET S
      OBVIOUS
    <2> HIDE DEF Bad
    <2>2. QED
      BY <1>1, <2>1, SmallestSet
  <1>3. PICK x \in s : f[s] # w[x] + f[s \ {x}]
    OBVIOUS
  <1>4. f[s] = SumStep(f, w, s)
    BY SumsUnfold
  <1>5. PICK y : y = CHOOSE u \in s : TRUE
    OBVIOUS
  <1>6. y \in s
    BY <1>5
  <1>7. f[s] = w[y] + f[s \ {y}]
    BY <1>4, <1>5 DEF SumStep
  <1>8. y # x
    BY <1>3, <1>7
  <1>9. PICK t : t = s \ {x, y}
    OBVIOUS
  <1>10. s \ {x} \notin Bad /\ s \ {y} \notin Bad
    BY <1>2, <1>6
  <1>11. f[s \ {x}] = w[y] + f[t]
    <2>1. y \in s \ {x} /\ (s \ {x}) \ {y} = t
      BY <1>6, <1>8, <1>9
    <2>2. QED
      BY <1>10, <2>1
  <1>12. f[s \ {y}] = w[x] + f[t]
    <2>1. x \in s \ {y} /\ (s \ {y}) \ {x} = t
      BY <1>8, <1>9
    <2>2. QED
      BY <1>10, <2>1
  <1>13. f[t] \in Nat /\ w[x] \in Nat /\ w[y] \in Nat
    <2>1. t \in SUBSET S
      BY <1>9
    <2>2. QED
      BY <1>6, <2>1, SumsAreNatural
  <1>14. QED
    BY <1>3, <1>7, <1>11, <1>12, <1>13

(* What the rest of this module uses of sums. *)
LEMMA SumHasFunction ==
    ASSUME NEW S, IsFiniteSet(S), NEW w
    PROVE  \E f : SumsOver(f, w, S) /\ SumOf(w, S) = f[S]
  <1> DEFINE f == CHOOSE f : SumsOver(f, w, S)
  <1>1. SumsOver(f, w, S)
    BY SumsExist, Zenon
  <1>2. SumOf(w, S) = f[S]
    BY SumIsChosen
  <1>3. QED
    BY <1>1, <1>2, Zenon

LEMMA SumOfNothing == ASSUME NEW w PROVE SumOf(w, {}) = 0
  <1>1. PICK f : SumsOver(f, w, {}) /\ SumOf(w, {}) = f[{}]
    BY SumHasFunction, FS_EmptySet
  <1>2. f[{}] = SumStep(f, w, {})
    BY <1>1, SumsUnfold
  <1>3. QED
    BY <1>1, <1>2 DEF SumStep

LEMMA SumIsNatural ==
    ASSUME NEW S, IsFiniteSet(S), NEW w, \A x \in S : w[x] \in Nat
    PROVE  SumOf(w, S) \in Nat
  <1>1. PICK f : SumsOver(f, w, S) /\ SumOf(w, S) = f[S]
    BY SumHasFunction
  <1>2. f[S] \in Nat
    BY <1>1, SumsAreNatural
  <1>3. QED
    BY <1>1, <1>2

LEMMA SumDependsOnWeights ==
    ASSUME NEW S, IsFiniteSet(S), NEW w, NEW v, \A x \in S : w[x] = v[x]
    PROVE  SumOf(w, S) = SumOf(v, S)
  <1>1. PICK f : SumsOver(f, w, S) /\ SumOf(w, S) = f[S]
    BY SumHasFunction
  <1>2. PICK g : SumsOver(g, v, S) /\ SumOf(v, S) = g[S]
    BY SumHasFunction
  <1>3. f[S] = g[S]
    BY <1>1, <1>2, SumsAgree
  <1>4. QED
    BY <1>1, <1>2, <1>3

LEMMA SumRemoves ==
    ASSUME NEW S, IsFiniteSet(S), NEW w, \A x \in S : w[x] \in Nat, NEW z \in S
    PROVE  SumOf(w, S) = w[z] + SumOf(w, S \ {z})
  <1>1. PICK f : SumsOver(f, w, S) /\ SumOf(w, S) = f[S]
    BY SumHasFunction
  <1>2. IsFiniteSet(S \ {z})
    BY FS_RemoveElement
  <1>3. PICK g : SumsOver(g, w, S \ {z}) /\ SumOf(w, S \ {z}) = g[S \ {z}]
    BY <1>2, SumHasFunction
  <1>4. f[S \ {z}] = g[S \ {z}]
    BY <1>1, <1>2, <1>3, SumsAgree
  <1>5. f[S] = w[z] + f[S \ {z}]
    BY <1>1, SumsInAnyOrder
  <1>6. QED
    BY <1>1, <1>3, <1>4, <1>5

LEMMA SumOfUnion ==
    ASSUME NEW S, IsFiniteSet(S), NEW w, \A x \in S : w[x] \in Nat, NEW T \in SUBSET S
    PROVE  SumOf(w, S) = SumOf(w, T) + SumOf(w, S \ T)
  <1> DEFINE Bad == {t \in SUBSET S : SumOf(w, S) # SumOf(w, t) + SumOf(w, S \ t)}
  <1>1. SUFFICES ASSUME Bad # {} PROVE FALSE
    OBVIOUS
  <1>2. PICK t \in Bad : \A u \in Bad : u \subseteq t => u = t
    <2>1. Bad \subseteq SUBSET S
      OBVIOUS
    <2> HIDE DEF Bad
    <2>2. QED
      BY <1>1, <2>1, SmallestSet
  <1>3. CASE t = {}
    <2>1. S \ t = S
      BY <1>3
    <2>2. SumOf(w, S) \in Nat /\ SumOf(w, t) = 0
      BY <1>3, SumIsNatural, SumOfNothing
    <2>3. QED
      BY <2>1, <2>2
  <1>4. CASE t # {}
    <2>1. PICK z \in t : TRUE
      BY <1>4
    <2>2. t \ {z} \notin Bad
      BY <1>2, <2>1
    <2>3. PICK u, p, q : u = t \ {z} /\ p = S \ t /\ q = S \ u
      OBVIOUS
    <2>4. IsFiniteSet(t) /\ IsFiniteSet(u) /\ IsFiniteSet(p) /\ IsFiniteSet(q)
      <3>1. t \in SUBSET S /\ u \in SUBSET S /\ p \in SUBSET S /\ q \in SUBSET S
        BY <2>3
      <3>2. QED
        BY <3>1, FS_Subset
    <2>5. SumOf(w, S) = SumOf(w, u) + SumOf(w, q)
      BY <2>2, <2>3
    <2>6. SumOf(w, t) = w[z] + SumOf(w, u)
      BY <2>3, <2>4, SumRemoves
    <2>7. q \ {z} = p /\ z \in q /\ z \in S
      BY <2>1, <2>3
    <2>8. SumOf(w, q) = w[z] + SumOf(w, p)
      <3>1. \A x \in q : w[x] \in Nat
        BY <2>3
      <3>2. QED
        BY <2>4, <2>7, <3>1, SumRemoves
    <2>9. SumOf(w, u) \in Nat /\ SumOf(w, p) \in Nat /\ w[z] \in Nat
      <3>1. (\A x \in u : w[x] \in Nat) /\ (\A x \in p : w[x] \in Nat)
        BY <2>3
      <3>2. QED
        BY <2>4, <2>7, <3>1, SumIsNatural
    <2>10. SumOf(w, S) = SumOf(w, t) + SumOf(w, p)
      BY <2>5, <2>6, <2>8, <2>9
    <2>11. QED
      BY <2>3, <2>10
  <1>5. QED
    BY <1>3, <1>4

-----------------------------------------------------------------------------
(* Queues as sequences without repetition. *)

LEMMA QueueIsFinite ==
    ASSUME NEW C, NEW s \in Seq(C)
    PROVE  /\ IsFiniteSet(ToSet(s)) /\ ToSet(s) \subseteq C
           /\ s # <<>> <=> ToSet(s) # {}
  <1>1. DOMAIN s = 1..Len(s) /\ Len(s) \in Nat /\ s \in [1..Len(s) -> C]
    BY LenProperties
  <1>2. IsFiniteSet(1..Len(s))
    BY <1>1, FS_Interval
  <1>3. s \in Surjection(1..Len(s), ToSet(s))
    BY <1>1 DEF Surjection, ToSet
  <1>4. IsFiniteSet(ToSet(s))
    BY <1>2, <1>3, FS_Surjection
  <1>5. ToSet(s) \subseteq C
    BY <1>1 DEF ToSet
  <1>6. s # <<>> <=> ToSet(s) # {}
    BY <1>1, EmptySeq DEF ToSet
  <1>7. QED
    BY <1>4, <1>5, <1>6

LEMMA QueueAppends ==
    ASSUME NEW C, NEW s \in Seq(C), IsInjective(s), NEW c \in C, c \notin ToSet(s)
    PROVE  /\ Append(s, c) \in Seq(C) /\ IsInjective(Append(s, c))
           /\ ToSet(Append(s, c)) = ToSet(s) \union {c}
           /\ Len(Append(s, c)) = Len(s) + 1
  <1>1. DOMAIN s = 1..Len(s) /\ Len(s) \in Nat
    BY LenProperties
  <1>2. PICK t : t = Append(s, c)
    OBVIOUS
  <1>3. /\ t \in Seq(C) /\ Len(t) = Len(s) + 1 /\ DOMAIN t = 1..(Len(s) + 1)
        /\ \A i \in 1..Len(s) : t[i] = s[i]
        /\ t[Len(s) + 1] = c
    BY <1>1, <1>2
  <1>4. \A i \in 1..Len(s) : t[i] # c
    BY <1>1, <1>3 DEF ToSet
  <1>5. ASSUME NEW i \in 1..(Len(s) + 1), NEW j \in 1..(Len(s) + 1), t[i] = t[j] PROVE i = j
    <2>1. CASE i \in 1..Len(s) /\ j \in 1..Len(s)
      BY <1>1, <1>3, <1>5, <2>1 DEF IsInjective
    <2>2. CASE i = Len(s) + 1 \/ j = Len(s) + 1
      BY <1>1, <1>3, <1>4, <1>5, <2>2
    <2>3. QED
      BY <1>1, <2>1, <2>2
  <1>6. IsInjective(t)
    BY <1>3, <1>5 DEF IsInjective
  <1>7. ToSet(t) = ToSet(s) \union {c}
    <2>1. ASSUME NEW d \in ToSet(t) PROVE d \in ToSet(s) \union {c}
      <3>1. PICK i \in 1..(Len(s) + 1) : d = t[i]
        BY <1>3 DEF ToSet
      <3>2. i = Len(s) + 1 \/ i \in 1..Len(s)
        BY <1>1, <3>1
      <3>3. QED
        BY <1>1, <1>3, <3>1, <3>2 DEF ToSet
    <2>2. ASSUME NEW d \in ToSet(s) PROVE d \in ToSet(t)
      <3>1. PICK i \in 1..Len(s) : d = s[i]
        BY <1>1 DEF ToSet
      <3>2. i \in DOMAIN t /\ d = t[i]
        BY <1>1, <1>3, <3>1
      <3>3. QED
        BY <3>2 DEF ToSet
    <2>3. c \in ToSet(t)
      <3>1. Len(s) + 1 \in DOMAIN t
        BY <1>1, <1>3
      <3>2. QED
        BY <1>3, <3>1 DEF ToSet
    <2>4. QED
      BY <2>1, <2>2, <2>3
  <1>8. QED
    BY <1>2, <1>3, <1>6, <1>7

(* A queue cut in two after its first k requests, and what that gives. *)
CutAfter(s, n, k, a, b) ==
    /\ DOMAIN s = 1..n /\ DOMAIN a = 1..k /\ DOMAIN b = 1..(n - k)
    /\ \A i \in 1..k : a[i] = s[i]
    /\ \A i \in 1..(n - k) : b[i] = s[k + i]
Divides(s, a, b) ==
    /\ IsInjective(a) /\ IsInjective(b)
    /\ ToSet(s) = ToSet(a) \union ToSet(b)
    /\ ToSet(a) \intersect ToSet(b) = {}

LEMMA CutsInTwo ==
    ASSUME NEW n \in Nat, NEW k \in 0..n, NEW s, NEW a, NEW b,
           IsInjective(s), CutAfter(s, n, k, a, b)
    PROVE  Divides(s, a, b)
  <1> USE DEF CutAfter
  <1>1. \A i \in 1..n, j \in 1..n : s[i] = s[j] => i = j
    BY DEF IsInjective
  <1>2. IsInjective(a) /\ IsInjective(b)
    <2>1. ASSUME NEW i \in 1..k, NEW j \in 1..k, a[i] = a[j] PROVE i = j
      <3>1. i \in 1..n /\ j \in 1..n /\ s[i] = s[j]
        BY <2>1
      <3>2. QED
        BY <1>1, <3>1
    <2>2. ASSUME NEW i \in 1..(n - k), NEW j \in 1..(n - k), b[i] = b[j] PROVE i = j
      <3>1. k + i \in 1..n /\ k + j \in 1..n
        OBVIOUS
      <3>2. s[k + i] = s[k + j]
        BY <2>2
      <3>3. k + i = k + j
        BY <1>1, <3>1, <3>2
      <3>4. QED
        BY <3>3
    <2>3. QED
      BY <2>1, <2>2 DEF IsInjective
  <1>3. ToSet(a) \intersect ToSet(b) = {}
    BY <1>1 DEF ToSet
  <1>4. ToSet(a) \subseteq ToSet(s) /\ ToSet(b) \subseteq ToSet(s)
    <2>1. ASSUME NEW d \in ToSet(a) PROVE d \in ToSet(s)
      <3>1. PICK i \in 1..k : d = a[i]
        BY DEF ToSet
      <3>2. i \in DOMAIN s /\ d = s[i]
        BY <3>1
      <3>3. QED
        BY <3>2 DEF ToSet
    <2>2. ASSUME NEW d \in ToSet(b) PROVE d \in ToSet(s)
      <3>1. PICK i \in 1..(n - k) : d = b[i]
        BY DEF ToSet
      <3>2. k + i \in DOMAIN s /\ d = s[k + i]
        BY <3>1
      <3>3. QED
        BY <3>2 DEF ToSet
    <2>3. QED
      BY <2>1, <2>2
  <1>5. ASSUME NEW d \in ToSet(s) PROVE d \in ToSet(a) \union ToSet(b)
    <2>1. PICK i \in 1..n : d = s[i]
      BY DEF ToSet
    <2>2. CASE i <= k
      BY <2>1, <2>2 DEF ToSet
    <2>3. CASE i > k
      <3>1. i - k \in 1..(n - k) /\ k + (i - k) = i
        BY <2>3
      <3>2. b[i - k] = d
        BY <2>1, <3>1
      <3>3. QED
        BY <3>1, <3>2 DEF ToSet
    <2>4. QED
      BY <2>1, <2>2, <2>3
  <1>6. ToSet(s) = ToSet(a) \union ToSet(b)
    BY <1>4, <1>5
  <1>7. QED
    BY <1>2, <1>3, <1>6 DEF Divides

HalvesOf(C, s, k, a, b) ==
    /\ a \in Seq(C) /\ b \in Seq(C) /\ Divides(s, a, b)
    /\ Len(s) = Len(a) + Len(b) /\ Len(a) = k

LEMMA QueueSplits ==
    ASSUME NEW C, NEW s \in Seq(C), IsInjective(s), NEW k \in 0..Len(s)
    PROVE  HalvesOf(C, s, k, SubSeq(s, 1, k), SubSeq(s, k + 1, Len(s)))
  <1>0. PICK a, b : a = SubSeq(s, 1, k) /\ b = SubSeq(s, k + 1, Len(s))
    OBVIOUS
  <1>1. DOMAIN s = 1..Len(s) /\ Len(s) \in Nat /\ \A i \in 1..Len(s) : s[i] \in C
    BY LenProperties
  <1>2. PICK n \in Nat : n = Len(s) /\ k \in 0..n
    BY <1>1
  <1>3. /\ a \in Seq(C) /\ Len(a) = k /\ DOMAIN a = 1..k
        /\ \A i \in 1..k : a[i] = s[i]
    BY <1>0, <1>1, <1>2
  <1>4. /\ b \in Seq(C) /\ Len(b) = n - k /\ DOMAIN b = 1..(n - k)
        /\ \A i \in 1..(n - k) : b[i] = s[k + i]
    <2>1. \A i \in (k + 1)..n : s[i] \in C
      BY <1>1, <1>2
    <2>2. k + 1 \in Int /\ n \in Int
      BY <1>2
    <2>3. /\ b \in Seq(C) /\ Len(b) = IF k + 1 <= n THEN n - (k + 1) + 1 ELSE 0
          /\ \A i \in 1..(n - (k + 1) + 1) : b[i] = s[(k + 1) + i - 1]
      BY <1>0, <1>2, <2>1, <2>2, SubSeqProperties
    <2>4. Len(b) = n - k
      BY <1>2, <2>3
    <2>5. DOMAIN b = 1..Len(b)
      BY <2>3, LenProperties
    <2>6. ASSUME NEW i \in 1..(n - k) PROVE b[i] = s[k + i]
      <3>1. i \in 1..(n - (k + 1) + 1) /\ (k + 1) + i - 1 = k + i
        BY <1>2
      <3>2. QED
        BY <2>3, <3>1
    <2>7. QED
      BY <2>3, <2>4, <2>5, <2>6
  <1>5. Divides(s, a, b)
    <2>1. CutAfter(s, n, k, a, b)
      BY <1>1, <1>2, <1>3, <1>4 DEF CutAfter
    <2>2. k \in 0..n
      BY <1>2
    <2>3. QED
      BY <2>1, <2>2, CutsInTwo
  <1>6. Len(s) = k + (n - k)
    BY <1>2
  <1>7. HalvesOf(C, s, k, a, b)
    BY <1>3, <1>4, <1>5, <1>6 DEF HalvesOf
  <1>8. QED
    BY <1>0, <1>7

(* Taking one request out of a queue. *)
LEMMA QueueRemoves ==
    ASSUME NEW C, NEW s \in Seq(C), IsInjective(s), NEW c \in ToSet(s),
           NEW r, r = RemoveFirst(s, c)
    PROVE  /\ r \in Seq(C) /\ IsInjective(r)
           /\ ToSet(r) = ToSet(s) \ {c}
           /\ Len(r) = Len(s) - 1
  <1>1. DOMAIN s = 1..Len(s) /\ Len(s) \in Nat /\ \A i \in 1..Len(s) : s[i] \in C
    BY LenProperties
  <1>2. PICK n \in Nat : n = Len(s)
    BY <1>1
  <1>3. PICK k \in 1..n : s[k] = c
    BY <1>1, <1>2 DEF ToSet
  <1>4. \A i \in 1..n, j \in 1..n : s[i] = s[j] => i = j
    BY <1>1, <1>2 DEF IsInjective
  <1>5. r = RemoveAt(s, k)
    <2>1. {i \in 1..Len(s) : s[i] = c} = {k}
      BY <1>2, <1>3, <1>4
    <2>2. Min({k}) = k
      BY DEF Min
    <2>3. SelectInSeq(s, LAMBDA v : v = c) = k
      BY <2>1, <2>2, Zenon DEF SelectInSeq
    <2>4. \E i \in 1..Len(s) : s[i] = c
      BY <1>2, <1>3
    <2>5. QED
      BY <2>3, <2>4, Zenon DEF RemoveFirst
  <1>6. PICK a, d : a = SubSeq(s, 1, k - 1) /\ d = SubSeq(s, k + 1, Len(s))
    OBVIOUS
  <1>7. r = a \o d
    BY <1>5, <1>6 DEF RemoveAt
  <1>8. a \in Seq(C) /\ Len(a) = k - 1
    BY <1>1, <1>2, <1>3, <1>6
  <1>9. /\ d \in Seq(C) /\ Len(d) = n - k
    <2>1. k \in 0..Len(s)
      BY <1>2, <1>3
    <2>2. d \in Seq(C) /\ Len(s) = Len(SubSeq(s, 1, k)) + Len(d) /\ Len(SubSeq(s, 1, k)) = k
      <3>1. HalvesOf(C, s, k, SubSeq(s, 1, k), SubSeq(s, k + 1, Len(s)))
        BY <2>1, QueueSplits
      <3>2. QED
        BY <1>6, <3>1 DEF HalvesOf
    <2>3. Len(d) \in Nat
      BY <2>2, LenProperties
    <2>4. QED
      BY <1>2, <1>3, <2>2, <2>3
  <1>10. ASSUME NEW i \in 1..(n - 1)
         PROVE  r[i] = IF i < k THEN s[i] ELSE s[i + 1]
    <2>1. r[i] = IF i <= Len(a) THEN a[i] ELSE d[i - Len(a)]
      <3>1. i \in 1..(Len(a) + Len(d))
        BY <1>2, <1>3, <1>8, <1>9
      <3>2. QED
        BY <1>7, <1>8, <1>9, <3>1, ConcatProperties
    <2>2. CASE i < k
      <3>1. i <= Len(a) /\ i \in 1..(k - 1)
        BY <1>3, <1>8, <2>2
      <3>2. a[i] = s[i]
        BY <1>1, <1>2, <1>3, <1>6, <3>1
      <3>3. QED
        BY <2>1, <2>2, <3>1, <3>2
    <2>3. CASE ~(i < k)
      <3>1. ~(i <= Len(a)) /\ i - Len(a) = i - k + 1 /\ i - k + 1 \in 1..(n - k)
        BY <1>2, <1>3, <1>8, <2>3
      <3>2. d[i - k + 1] = s[i + 1]
        <4>1. \A j \in (k + 1)..n : s[j] \in C
          BY <1>1, <1>2, <1>3
        <4>2. k + 1 \in Int /\ n \in Int
          BY <1>2, <1>3
        <4>3. \A j \in 1..(n - (k + 1) + 1) : d[j] = s[(k + 1) + j - 1]
          BY <1>2, <1>6, <4>1, <4>2, SubSeqProperties
        <4>4. i - k + 1 \in 1..(n - (k + 1) + 1) /\ (k + 1) + (i - k + 1) - 1 = i + 1
          BY <1>2, <1>3, <3>1
        <4>5. QED
          BY <4>3, <4>4
      <3>3. QED
        BY <2>1, <2>3, <3>1, <3>2
    <2>4. QED
      BY <2>2, <2>3
  <1>11. r \in Seq(C) /\ Len(r) = n - 1 /\ DOMAIN r = 1..(n - 1)
    <2>1. r \in Seq(C) /\ Len(r) = Len(a) + Len(d)
      BY <1>7, <1>8, <1>9, ConcatProperties
    <2>2. Len(r) = n - 1
      BY <1>2, <1>3, <1>8, <1>9, <2>1
    <2>3. QED
      BY <2>1, <2>2, LenProperties
  <1>12. IsInjective(r)
    <2>1. ASSUME NEW i \in 1..(n - 1), NEW j \in 1..(n - 1), r[i] = r[j] PROVE i = j
      BY <1>2, <1>3, <1>4, <1>10, <2>1
    <2>2. QED
      BY <1>11, <2>1 DEF IsInjective
  <1>13. ASSUME NEW e \in ToSet(r) PROVE e \in ToSet(s) \ {c}
    <2>1. PICK i \in 1..(n - 1) : e = r[i]
      BY <1>11 DEF ToSet
    <2>2. PICK j \in 1..n : e = s[j] /\ j # k
      BY <1>2, <1>3, <1>10, <2>1
    <2>3. QED
      BY <1>1, <1>2, <1>3, <1>4, <2>2 DEF ToSet
  <1>14. ASSUME NEW e \in ToSet(s), e # c PROVE e \in ToSet(r)
    <2>1. PICK j \in 1..n : e = s[j] /\ j # k
      BY <1>1, <1>2, <1>3, <1>14 DEF ToSet
    <2>2. PICK i \in 1..(n - 1) : r[i] = e
      <3>1. CASE j < k
        <4>1. j \in 1..(n - 1) /\ r[j] = e
          BY <1>2, <1>3, <1>10, <2>1, <3>1
        <4>2. QED
          BY <4>1
      <3>2. CASE j > k
        <4>1. j - 1 \in 1..(n - 1) /\ ~(j - 1 < k) /\ (j - 1) + 1 = j
          BY <1>2, <1>3, <2>1, <3>2
        <4>2. r[j - 1] = e
          BY <1>10, <2>1, <4>1
        <4>3. QED
          BY <4>1, <4>2
      <3>3. QED
        BY <1>3, <2>1, <3>1, <3>2
    <2>3. QED
      BY <1>11, <2>2 DEF ToSet
  <1>15. ToSet(r) = ToSet(s) \ {c}
    BY <1>13, <1>14
  <1>16. QED
    BY <1>2, <1>11, <1>12, <1>15

-----------------------------------------------------------------------------
(* The inductive invariant. *)

(* Where a request is, is what its fields say: it has its batch exactly while it
   waits, nobody decides it before it is claimed, and once without a batch it is
   claimed until it is answered.  The request of a leader that panicked before
   claiming it waits on without its caller.                                 *)
RequestInv ==
    \A c \in Callers :
        /\ batch[c] <=> c \in ToSet(waiting)
        /\ batch[c] => c \notin ToSet(tickets) /\ c \notin written
        /\ batch[c] \/ c \in ToSet(tickets) => /\ pc[c] # "idle"
                                              /\ result[c] = "none"
                                              /\ answer[c] \in {"none", "panic"}
        /\ pc[c] = "idle" => result[c] = "none" /\ c \notin written
        /\ pc[c] # "returned" => answer[c] = "none"
        /\ pc[c] \in {"waiting", "leading"} /\ ~batch[c] /\ result[c] = "none"
           => c \in ToSet(tickets)

(* What is in the WAL was never, and is not about to be, called off. *)
WrittenInv ==
    \A c \in written : {answer[c], result[c]} \intersect {"expired", "limit"} = {}

(* There is one leader while running is set, and a group only after a claim. *)
LeaderInv ==
    /\ running <=> stage # "none"
    /\ stage \in {"none", "locking", "gathering"} => tickets = <<>>
    /\ \A c \in Callers : pc[c] = "leading" => running
    /\ \A c, d \in Callers : pc[c] = "leading" /\ pc[d] = "leading" => c = d

IInv == TypeOK /\ RequestInv /\ WrittenInv /\ LeaderInv /\ CapacityIsExact

(* The counters in terms of sums. *)
LEMMA Capacity ==
    /\ CapacityIsExact <=> /\ count = Len(waiting) + Len(tickets)
                           /\ bytes = SumOf(size, ToSet(waiting)) + SumOf(size, ToSet(tickets))
    /\ CapacityIsExact' <=> /\ count' = Len(waiting') + Len(tickets')
                            /\ bytes' = SumOf(size', ToSet(waiting')) + SumOf(size', ToSet(tickets'))
    /\ \A s : Total(s) = SumOf(size, ToSet(s))
  <1>1. CapacityIsExact <=> /\ count = Len(waiting) + Len(tickets)
                            /\ bytes = SumOf(size, ToSet(waiting)) + SumOf(size, ToSet(tickets))
    BY DEF CapacityIsExact, Total, SumOf
  <1>2. CapacityIsExact' <=> /\ count' = Len(waiting') + Len(tickets')
                             /\ bytes' = SumOf(size', ToSet(waiting')) + SumOf(size', ToSet(tickets'))
    BY Zenon DEF CapacityIsExact, Total, SumOf, MapThenSumSet, MapThenFoldSet
  <1>3. ASSUME NEW s PROVE Total(s) = SumOf(size, ToSet(s))
    BY DEF Total, SumOf
  <1>4. QED
    BY <1>1, <1>2, <1>3

(* What the counters consist of. *)
LEMMA CountersAreNatural ==
    ASSUME IInv
    PROVE  /\ Len(waiting) \in Nat /\ Len(tickets) \in Nat
           /\ IsFiniteSet(ToSet(waiting)) /\ IsFiniteSet(ToSet(tickets))
           /\ ToSet(waiting) \subseteq Callers /\ ToSet(tickets) \subseteq Callers
           /\ \A c \in Callers : size[c] \in Nat
           /\ SumOf(size, ToSet(waiting)) \in Nat /\ SumOf(size, ToSet(tickets)) \in Nat
           /\ count = Len(waiting) + Len(tickets)
           /\ bytes = SumOf(size, ToSet(waiting)) + SumOf(size, ToSet(tickets))
  <1>1. waiting \in Seq(Callers) /\ tickets \in Seq(Callers) /\ size \in [Callers -> Sizes \union {0}]
    BY DEF IInv, TypeOK
  <1>2. Len(waiting) \in Nat /\ Len(tickets) \in Nat
    BY <1>1, LenProperties
  <1>3. /\ IsFiniteSet(ToSet(waiting)) /\ IsFiniteSet(ToSet(tickets))
        /\ ToSet(waiting) \subseteq Callers /\ ToSet(tickets) \subseteq Callers
    BY <1>1, QueueIsFinite
  <1>4. ASSUME NEW c \in Callers PROVE size[c] \in Nat
    <2>1. size[c] \in Sizes \/ size[c] = 0
      BY <1>1
    <2>2. CASE size[c] \in Sizes
      BY <2>2, SizesAssumption
    <2>3. QED
      BY <2>1, <2>2
  <1>5. SumOf(size, ToSet(waiting)) \in Nat
    <2>1. \A c \in ToSet(waiting) : size[c] \in Nat
      BY <1>3, <1>4
    <2>2. QED
      BY <1>3, <2>1, SumIsNatural
  <1>6. SumOf(size, ToSet(tickets)) \in Nat
    <2>1. \A c \in ToSet(tickets) : size[c] \in Nat
      BY <1>3, <1>4
    <2>2. QED
      BY <1>3, <2>1, SumIsNatural
  <1>7. CapacityIsExact
    BY DEF IInv
  <1>8. QED
    BY <1>2, <1>3, <1>4, <1>5, <1>6, <1>7, Capacity

LEMMA InitHolds == Init => IInv
  <1>1. SUFFICES ASSUME Init PROVE IInv
    OBVIOUS
  <1>2. waiting = <<>> /\ tickets = <<>>
    BY <1>1 DEF Init
  <1>3. ToSet(waiting) = {} /\ ToSet(tickets) = {} /\ IsInjective(waiting) /\ IsInjective(tickets)
    BY <1>2 DEF ToSet, IsInjective
  <1>4. TypeOK
    <2>1. <<>> \in Seq(Callers)
      BY EmptySeq
    <2>2. 0 \in 0..MaxQueued /\ 0 \in 0..MaxQueuedBytes
      BY QueueLimitsAssumption
    <2>3. QED
      BY <1>1, <1>2, <1>3, <2>1, <2>2 DEF Init, TypeOK, Results
  <1>5. RequestInv /\ WrittenInv /\ LeaderInv
    BY <1>1, <1>3 DEF Init, RequestInv, WrittenInv, LeaderInv
  <1>6. CapacityIsExact
    <2>1. SumOf(size, {}) = 0
      BY SumOfNothing
    <2>2. Len(waiting) = 0 /\ Len(tickets) = 0 /\ count = 0 /\ bytes = 0
      BY <1>1 DEF Init
    <2>3. QED
      BY <1>3, <2>1, <2>2, Capacity
  <1>7. QED
    BY <1>4, <1>5, <1>6 DEF IInv

(* Steps that leave the queue and the group alone. *)
LEMMA CapacityStays ==
    ASSUME IInv, UNCHANGED <<size, waiting, count, bytes, tickets>>
    PROVE  CapacityIsExact'
  <1>1. CapacityIsExact
    BY DEF IInv
  <1>2. QED
    BY <1>1, Capacity

LEMMA SubmitKeeps ==
    ASSUME IInv, NEW c \in Callers, Submit(c)
    PROVE  IInv'
  <1>1. PICK n \in Sizes : /\ FitsQueue(n)
                           /\ size' = [size EXCEPT ![c] = n]
                           /\ bytes' = bytes + n
    BY DEF Submit
  <1>2. c \notin ToSet(waiting) /\ c \notin ToSet(tickets) /\ ~batch[c]
    BY DEF IInv, RequestInv, Submit
  <1>3. /\ waiting' \in Seq(Callers) /\ IsInjective(waiting')
        /\ ToSet(waiting') = ToSet(waiting) \union {c}
        /\ Len(waiting') = Len(waiting) + 1
    <2>1. waiting \in Seq(Callers) /\ IsInjective(waiting)
      BY DEF IInv, TypeOK
    <2>2. waiting' = Append(waiting, c)
      BY DEF Submit
    <2>3. QED
      BY <1>2, <2>1, <2>2, QueueAppends
  <1>4. n \in Nat
    BY SizesAssumption
  <1>5. TypeOK'
    <2>1. count \in Nat /\ bytes \in Nat
      BY CountersAreNatural
    <2>2. count' \in 0..MaxQueued /\ bytes' \in 0..MaxQueuedBytes
      BY <1>1, <1>4, <2>1, QueueLimitsAssumption DEF Submit, FitsQueue
    <2>3. QED
      BY <1>1, <1>3, <2>2 DEF IInv, TypeOK, Submit, leader
  <1>6. RequestInv'
    BY <1>2, <1>3 DEF IInv, TypeOK, RequestInv, Submit, leader
  <1>7. WrittenInv' /\ LeaderInv'
    BY DEF IInv, TypeOK, WrittenInv, LeaderInv, Submit, leader
  <1>8. CapacityIsExact'
    <2>1. PICK W, T : W = ToSet(waiting) /\ T = ToSet(tickets)
      OBVIOUS
    <2>2. /\ IsFiniteSet(W) /\ IsFiniteSet(T) /\ W \subseteq Callers /\ T \subseteq Callers
          /\ SumOf(size, W) \in Nat /\ SumOf(size, T) \in Nat
          /\ bytes = SumOf(size, W) + SumOf(size, T)
          /\ count = Len(waiting) + Len(tickets) /\ Len(waiting) \in Nat /\ Len(tickets) \in Nat
          /\ \A d \in Callers : size[d] \in Nat
      BY <2>1, CountersAreNatural
    <2>3. size'[c] = n /\ (\A d \in W : size'[d] = size[d]) /\ (\A d \in T : size'[d] = size[d])
      BY <1>1, <1>2, <2>1, <2>2 DEF IInv, TypeOK
    <2>4. SumOf(size', W) = SumOf(size, W) /\ SumOf(size', T) = SumOf(size, T)
      BY <2>2, <2>3, SumDependsOnWeights
    <2>5. SumOf(size', W \union {c}) = n + SumOf(size', W)
      <3>1. IsFiniteSet(W \union {c}) /\ (W \union {c}) \ {c} = W
        BY <1>2, <2>1, <2>2, FS_AddElement
      <3>2. \A d \in W \union {c} : size'[d] \in Nat
        BY <1>4, <2>2, <2>3
      <3>3. SumOf(size', W \union {c}) = size'[c] + SumOf(size', (W \union {c}) \ {c})
        BY <3>1, <3>2, SumRemoves
      <3>4. QED
        BY <2>3, <3>1, <3>3
    <2>6. bytes' = SumOf(size', W \union {c}) + SumOf(size', T)
      BY <1>1, <1>4, <2>2, <2>4, <2>5
    <2>7. tickets' = tickets /\ count' = count + 1
      BY DEF Submit, leader
    <2>8. count' = Len(waiting') + Len(tickets')
      BY <1>3, <2>2, <2>7
    <2>9. QED
      BY <1>3, <2>1, <2>6, <2>7, <2>8, Capacity
  <1>9. QED
    BY <1>5, <1>6, <1>7, <1>8 DEF IInv

LEMMA CancelKeeps ==
    ASSUME IInv, NEW c \in Callers, Cancel(c)
    PROVE  IInv'
  <1>1. c \in ToSet(waiting) /\ c \notin ToSet(tickets) /\ c \notin written
    BY DEF IInv, RequestInv, Cancel
  <1>2. /\ waiting' \in Seq(Callers) /\ IsInjective(waiting')
        /\ ToSet(waiting') = ToSet(waiting) \ {c}
        /\ Len(waiting') = Len(waiting) - 1
    <2>1. waiting \in Seq(Callers) /\ IsInjective(waiting)
      BY DEF IInv, TypeOK
    <2>2. waiting' = RemoveFirst(waiting, c)
      BY DEF Cancel
    <2>3. QED
      BY <1>1, <2>1, <2>2, QueueRemoves
  <1>3. tickets' = tickets /\ size' = size /\ count' = count - 1 /\ bytes' = bytes - size[c]
    BY DEF Cancel, leader
  <1>4. /\ bytes' = SumOf(size, ToSet(waiting')) + SumOf(size, ToSet(tickets))
        /\ SumOf(size, ToSet(waiting')) \in Nat
        /\ bytes' \in Nat /\ bytes' <= bytes
    <2>1. PICK W, T : W = ToSet(waiting) /\ T = ToSet(tickets)
      OBVIOUS
    <2>2. /\ IsFiniteSet(W) /\ W \subseteq Callers
          /\ SumOf(size, T) \in Nat
          /\ bytes = SumOf(size, W) + SumOf(size, T)
          /\ \A d \in Callers : size[d] \in Nat
      BY <2>1, CountersAreNatural
    <2>3. \A d \in W : size[d] \in Nat
      BY <2>2
    <2>4. SumOf(size, W) = size[c] + SumOf(size, W \ {c})
      BY <1>1, <2>1, <2>2, <2>3, SumRemoves
    <2>5. SumOf(size, W \ {c}) \in Nat
      <3>1. IsFiniteSet(W \ {c})
        BY <2>2, FS_RemoveElement
      <3>2. \A d \in W \ {c} : size[d] \in Nat
        BY <2>3
      <3>3. QED
        BY <3>1, <3>2, SumIsNatural
    <2>6. PICK u, v, x, y \in Nat : /\ u = SumOf(size, W \ {c}) /\ v = SumOf(size, T)
                                    /\ x = size[c] /\ y = x + u
      BY <2>2, <2>5
    <2>7. bytes = y + v /\ bytes' = bytes - x
      BY <1>3, <2>2, <2>4, <2>6
    <2>8. bytes' = u + v /\ bytes' \in Nat /\ bytes' <= bytes
      BY <2>6, <2>7
    <2>9. QED
      BY <1>2, <2>1, <2>6, <2>8
  <1>5. TypeOK'
    <2>1. count = Len(waiting) + Len(tickets) /\ Len(tickets) \in Nat /\ Len(waiting') \in Nat
      BY <1>2, CountersAreNatural, LenProperties
    <2>2. count' \in 0..MaxQueued
      <3>1. count \in 0..MaxQueued
        BY DEF IInv, TypeOK
      <3>2. count = (Len(waiting') + 1) + Len(tickets)
        BY <1>2, <2>1, CountersAreNatural
      <3>3. QED
        BY <1>3, <2>1, <3>1, <3>2, QueueLimitsAssumption
    <2>3. bytes' \in 0..MaxQueuedBytes
      <3>1. bytes \in 0..MaxQueuedBytes
        BY DEF IInv, TypeOK
      <3>2. QED
        BY <1>4, <3>1, QueueLimitsAssumption
    <2>4. QED
      BY <1>2, <1>3, <2>2, <2>3 DEF IInv, TypeOK, Cancel, leader, Results
  <1>6. RequestInv'
    BY <1>1, <1>2 DEF IInv, TypeOK, RequestInv, Cancel, leader
  <1>7. WrittenInv'
    BY <1>1 DEF IInv, TypeOK, WrittenInv, Cancel, leader
  <1>8. LeaderInv'
    BY DEF IInv, TypeOK, LeaderInv, Cancel, leader
  <1>9. CapacityIsExact'
    <2>1. count' = Len(waiting') + Len(tickets')
      BY <1>2, <1>3, CountersAreNatural
    <2>2. QED
      BY <1>3, <1>4, <2>1, Capacity
  <1>10. QED
    BY <1>5, <1>6, <1>7, <1>8, <1>9 DEF IInv

(* A group is some of the first requests of the queue. *)
LEMMA ClaimSizeFits ==
    ASSUME waiting \in Seq(Callers)
    PROVE  ClaimSize \in 0..Len(waiting)
  <1>1. Len(waiting) \in Nat
    BY LenProperties
  <1>2. CASE waiting = <<>>
    BY <1>1, <1>2 DEF ClaimSize
  <1>3. CASE waiting # <<>>
    <2> DEFINE G == {n \in 1..Len(waiting) : \A m \in 1..n : FitsGroup(m)}
    <2>1. ClaimSize = Max(G)
      BY <1>3 DEF ClaimSize
    <2>2. 1 \in G
      <3>1. 1 \in 1..Len(waiting)
        BY <1>3, EmptySeq
      <3>2. ASSUME NEW m \in 1..1 PROVE FitsGroup(m)
        <4>1. m = 1
          OBVIOUS
        <4>2. QED
          BY <4>1 DEF FitsGroup
      <3>3. QED
        BY <3>1, <3>2
    <2>3. G \subseteq 1..Len(waiting)
      OBVIOUS
    <2> HIDE DEF G
    <2>4. PICK k \in G : \A y \in G : k >= y
      <3> DEFINE U == {Len(waiting) - n : n \in G}
      <3>1. U \subseteq Nat /\ U # {}
        BY <1>1, <2>2, <2>3
      <3>2. PICK u \in U : \A y \in U : u <= y
        BY <3>1, LeastNatural
      <3>3. PICK n \in G : u = Len(waiting) - n
        BY <3>2
      <3>4. ASSUME NEW y \in G PROVE n >= y
        <4>1. Len(waiting) - y \in U
          OBVIOUS
        <4>2. Len(waiting) - n <= Len(waiting) - y
          BY <3>2, <3>3, <4>1
        <4>3. n \in Int /\ y \in Int
          BY <2>3
        <4>4. QED
          BY <1>1, <4>2, <4>3
      <3>5. QED
        BY <3>4
    <2>5. Max(G) \in G
      BY <2>4 DEF Max
    <2>6. Max(G) \in 1..Len(waiting)
      BY <2>3, <2>5
    <2>7. QED
      BY <1>1, <2>1, <2>6
  <1>4. QED
    BY <1>2, <1>3

(* What claiming a group does to everything a request is about. *)
LEMMA ClaimKeeps ==
    ASSUME IInv, ClaimGroup, stage \in {"locking", "gathering"},
           stage' \in {"working", "failing"},
           UNCHANGED <<pc, late, size, result, answer, running, count, bytes, mutex,
                       poisoned, written>>
    PROVE  IInv'
  <1>1. waiting \in Seq(Callers) /\ IsInjective(waiting)
    BY DEF IInv, TypeOK
  <1>2. PICK k \in 0..Len(waiting) : k = ClaimSize
    BY <1>1, ClaimSizeFits
  <1>3. tickets' = SubSeq(waiting, 1, k) /\ waiting' = SubSeq(waiting, k + 1, Len(waiting))
    BY <1>2 DEF ClaimGroup
  <1>4. /\ tickets' \in Seq(Callers) /\ waiting' \in Seq(Callers)
        /\ Divides(waiting, tickets', waiting')
        /\ Len(waiting) = Len(tickets') + Len(waiting')
    <2>1. HalvesOf(Callers, waiting, k, SubSeq(waiting, 1, k), SubSeq(waiting, k + 1, Len(waiting)))
      BY <1>1, QueueSplits
    <2>2. HalvesOf(Callers, waiting, k, tickets', waiting')
      BY <1>3, <2>1
    <2>3. QED
      BY <2>2 DEF HalvesOf
  <1>5. \A c \in Callers : batch'[c] = (batch[c] /\ c \notin ToSet(tickets'))
    BY DEF ClaimGroup
  <1>6. tickets = <<>>
    BY DEF IInv, LeaderInv
  <1>7. TypeOK'
    <2>1. batch' \in [Callers -> BOOLEAN]
      BY DEF IInv, TypeOK, ClaimGroup
    <2>2. QED
      BY <1>4, <2>1 DEF IInv, TypeOK, Divides
  <1>8. RequestInv'
    <2>1. ToSet(tickets) = {}
      BY <1>6 DEF ToSet
    <2>2. /\ ToSet(waiting) = ToSet(tickets') \union ToSet(waiting')
          /\ ToSet(tickets') \intersect ToSet(waiting') = {}
      BY <1>4 DEF Divides
    <2>3. QED
      BY <1>5, <2>1, <2>2 DEF IInv, TypeOK, RequestInv
  <1>9. WrittenInv' /\ LeaderInv'
    BY DEF IInv, TypeOK, WrittenInv, LeaderInv
  <1>10. CapacityIsExact'
    <2>1. PICK W, A, B : W = ToSet(waiting) /\ A = ToSet(tickets') /\ B = ToSet(waiting')
      OBVIOUS
    <2>2. /\ IsFiniteSet(W) /\ W \subseteq Callers /\ SumOf(size, W) \in Nat
          /\ bytes = SumOf(size, W) + SumOf(size, ToSet(tickets))
          /\ count = Len(waiting) + Len(tickets) /\ Len(waiting) \in Nat
          /\ \A d \in Callers : size[d] \in Nat
      BY <2>1, CountersAreNatural
    <2>3. W = A \union B /\ A \intersect B = {}
      BY <1>4, <2>1 DEF Divides
    <2>4. SumOf(size, W) = SumOf(size, A) + SumOf(size, B)
      <3>1. W \ A = B /\ A \in SUBSET W
        BY <2>3
      <3>2. \A d \in W : size[d] \in Nat
        BY <2>2
      <3>3. SumOf(size, W) = SumOf(size, A) + SumOf(size, W \ A)
        BY <2>2, <3>1, <3>2, SumOfUnion
      <3>4. QED
        BY <3>1, <3>3
    <2>5. SumOf(size, ToSet(tickets)) = 0 /\ Len(tickets) = 0
      <3>1. ToSet(tickets) = {}
        BY <1>6 DEF ToSet
      <3>2. QED
        BY <1>6, <3>1, SumOfNothing
    <2>6. SumOf(size, A) \in Nat /\ SumOf(size, B) \in Nat
      <3>1. A \in SUBSET W /\ B \in SUBSET W
        BY <2>3
      <3>2. IsFiniteSet(A) /\ IsFiniteSet(B)
        BY <2>2, <3>1, FS_Subset
      <3>3. (\A d \in A : size[d] \in Nat) /\ (\A d \in B : size[d] \in Nat)
        BY <2>2, <3>1
      <3>4. QED
        BY <3>2, <3>3, SumIsNatural
    <2>7. bytes = SumOf(size, B) + SumOf(size, A)
      BY <2>2, <2>4, <2>5, <2>6
    <2>8. count = Len(waiting') + Len(tickets')
      <3>1. Len(waiting') \in Nat /\ Len(tickets') \in Nat
        BY <1>4, LenProperties
      <3>2. QED
        BY <1>4, <2>2, <2>5, <3>1
    <2>9. QED
      BY <2>1, <2>7, <2>8, Capacity
  <1>11. QED
    BY <1>7, <1>8, <1>9, <1>10 DEF IInv

(* Answering a group and ending the leadership; nobody leads afterwards. *)
LEMMA FinishKeeps ==
    ASSUME IInv, NEW group, NEW value,
           FinishQueue(group, value), group = tickets,
           \A c \in ToSet(tickets) :
               /\ value[c] \in Results \ {"none", "expired", "limit"},
           pc' \in [Callers -> {"idle", "waiting", "leading", "returned"}],
           \A c \in Callers : pc'[c] = IF pc[c] = "leading" THEN "waiting" ELSE pc[c],
           running,
           UNCHANGED <<late, size, batch, answer, waiting, mutex, poisoned, written>>
    PROVE  IInv'
  <1>1. PICK W, T : W = ToSet(waiting) /\ T = ToSet(tickets)
    OBVIOUS
  <1>2. tickets' = <<>> /\ ToSet(tickets') = {} /\ Len(tickets') = 0 /\ IsInjective(tickets')
        /\ tickets' \in Seq(Callers)
    <2>1. tickets' = <<>>
      BY DEF FinishQueue
    <2>2. QED
      BY <2>1, EmptySeq DEF ToSet, IsInjective
  <1>3. /\ Len(waiting) \in Nat /\ Len(tickets) \in Nat
        /\ SumOf(size, W) \in Nat /\ SumOf(size, T) \in Nat
        /\ count = Len(waiting) + Len(tickets)
        /\ bytes = SumOf(size, W) + SumOf(size, T)
    BY <1>1, CountersAreNatural
  <1>4. count' = Len(waiting) /\ bytes' = SumOf(size, W)
    <2>1. count' = count - Len(tickets)
      BY DEF FinishQueue
    <2>2. bytes' = bytes - SumOf(size, T)
      BY <1>1, Capacity DEF FinishQueue
    <2>3. QED
      BY <1>3, <2>1, <2>2
  <1>5. \A c \in Callers : result'[c] = IF c \in T THEN value[c] ELSE result[c]
    BY <1>1 DEF FinishQueue
  <1>6. running' = FALSE /\ stage' = "none"
    BY DEF FinishQueue
  <1>7. TypeOK'
    <2>1. count' \in 0..MaxQueued
      <3>1. count \in 0..MaxQueued
        BY DEF IInv, TypeOK
      <3>2. QED
        BY <1>3, <1>4, <3>1, QueueLimitsAssumption
    <2>2. bytes' \in 0..MaxQueuedBytes
      <3>1. bytes \in 0..MaxQueuedBytes
        BY DEF IInv, TypeOK
      <3>2. QED
        BY <1>3, <1>4, <3>1, QueueLimitsAssumption
    <2>3. result' \in [Callers -> Results]
      <3>1. ASSUME NEW c \in Callers PROVE (IF c \in T THEN value[c] ELSE result[c]) \in Results
        BY <1>1 DEF IInv, TypeOK
      <3>2. result' = [c \in Callers |-> IF c \in T THEN value[c] ELSE result[c]]
        BY <1>1 DEF FinishQueue
      <3>3. QED
        BY <3>1, <3>2
    <2>4. QED
      BY <1>2, <1>6, <2>1, <2>2, <2>3 DEF IInv, TypeOK
  <1>8. RequestInv'
    BY <1>1, <1>2, <1>5 DEF IInv, TypeOK, RequestInv
  <1>9. WrittenInv'
    <2>1. written \subseteq Callers
      BY DEF IInv, TypeOK
    <2>2. QED
      BY <1>1, <1>5, <2>1 DEF IInv, WrittenInv
  <1>10. LeaderInv'
    BY <1>2, <1>6 DEF IInv, TypeOK, LeaderInv
  <1>11. CapacityIsExact'
    <2>1. SumOf(size', ToSet(tickets')) = 0
      BY <1>2, SumOfNothing
    <2>2. count' = Len(waiting') + Len(tickets')
      BY <1>2, <1>3, <1>4
    <2>3. bytes' = SumOf(size', ToSet(waiting')) + SumOf(size', ToSet(tickets'))
      BY <1>1, <1>3, <1>4, <2>1
    <2>4. QED
      BY <2>2, <2>3, Capacity
  <1>12. QED
    BY <1>7, <1>8, <1>9, <1>10, <1>11 DEF IInv

(* A leader that returns to its loop is the only one there was. *)
LEMMA OnlyLeader ==
    ASSUME IInv, NEW c \in Callers, pc[c] = "leading", pc' = [pc EXCEPT ![c] = "waiting"]
    PROVE  /\ running
           /\ pc' \in [Callers -> {"idle", "waiting", "leading", "returned"}]
           /\ \A d \in Callers : pc'[d] = IF pc[d] = "leading" THEN "waiting" ELSE pc[d]
  BY DEF IInv, TypeOK, LeaderInv

LEMMA GiveUpKeeps ==
    ASSUME IInv, NEW c \in Callers, GiveUp(c)
    PROVE  IInv'
  <1>1. tickets = <<>> /\ ToSet(tickets) = {}
    BY DEF IInv, LeaderInv, GiveUp, ToSet
  <1>2. FinishQueue(tickets, result)
    BY <1>1 DEF GiveUp
  <1>3. pc[c] = "leading" /\ pc' = [pc EXCEPT ![c] = "waiting"]
    BY DEF GiveUp
  <1>4. /\ running
        /\ pc' \in [Callers -> {"idle", "waiting", "leading", "returned"}]
        /\ \A d \in Callers : pc'[d] = IF pc[d] = "leading" THEN "waiting" ELSE pc[d]
    BY <1>3, OnlyLeader
  <1>5. UNCHANGED <<late, size, batch, answer, waiting, mutex, poisoned, written>>
    BY DEF GiveUp
  <1>6. QED
    BY <1>1, <1>2, <1>4, <1>5, FinishKeeps

LEMMA FinishActionKeeps ==
    ASSUME IInv, NEW c \in Callers, Finish(c)
    PROVE  IInv'
  <1>1. PICK value : value = [d \in Callers |-> IF d \in written THEN "ok" ELSE "refused"]
    OBVIOUS
  <1>2. FinishQueue(tickets, value)
    BY <1>1 DEF Finish
  <1>3. \A d \in ToSet(tickets) : value[d] \in Results \ {"none", "expired", "limit"}
    <2>1. ToSet(tickets) \subseteq Callers
      BY CountersAreNatural
    <2>2. QED
      BY <1>1, <2>1 DEF Results
  <1>4. pc[c] = "leading" /\ pc' = [pc EXCEPT ![c] = "waiting"]
    BY DEF Finish
  <1>5. /\ running
        /\ pc' \in [Callers -> {"idle", "waiting", "leading", "returned"}]
        /\ \A d \in Callers : pc'[d] = IF pc[d] = "leading" THEN "waiting" ELSE pc[d]
    BY <1>4, OnlyLeader
  <1>6. UNCHANGED <<late, size, batch, answer, waiting, mutex, poisoned, written>>
    BY DEF Finish
  <1>7. QED
    BY <1>2, <1>3, <1>5, <1>6, FinishKeeps

LEMMA LeadershipDropKeeps ==
    ASSUME IInv, LeadershipDrop
    PROVE  IInv'
  <1>1. PICK value : value = [d \in Callers |-> "recovery"]
    OBVIOUS
  <1>2. FinishQueue(tickets, value)
    BY <1>1 DEF LeadershipDrop
  <1>3. \A d \in ToSet(tickets) : value[d] \in Results \ {"none", "expired", "limit"}
    <2>1. ToSet(tickets) \subseteq Callers
      BY CountersAreNatural
    <2>2. QED
      BY <1>1, <2>1 DEF Results
  <1>4. /\ running
        /\ pc' \in [Callers -> {"idle", "waiting", "leading", "returned"}]
        /\ \A d \in Callers : pc'[d] = IF pc[d] = "leading" THEN "waiting" ELSE pc[d]
    BY DEF IInv, TypeOK, LeaderInv, LeadershipDrop
  <1>5. UNCHANGED <<late, size, batch, answer, waiting, mutex, poisoned, written>>
    BY DEF LeadershipDrop
  <1>6. QED
    BY <1>2, <1>3, <1>4, <1>5, FinishKeeps

(* The steps that neither queue, claim nor answer a request. *)
LEMMA OtherStepsKeep ==
    ASSUME IInv,
           \/ \E c \in Callers : DeadlinePasses(c) \/ TurnAway(c) \/ TakeResult(c) \/ Lead(c)
                                 \/ TryLock(c) \/ Work(c) \/ Panic(c)
           \/ MaintenanceLock \/ MaintenanceUnlock
           \/ UNCHANGED vars
    PROVE  IInv'
  <1> USE DEF requests, queue, leader, Return
  <1>1. CapacityIsExact'
    <2>1. UNCHANGED <<size, waiting, count, bytes, tickets>>
      BY DEF DeadlinePasses, TurnAway, TakeResult, Lead, TryLock, Work, Panic,
             MaintenanceLock, MaintenanceUnlock, vars
    <2>2. QED
      BY <2>1, CapacityStays
  <1>2. ToSet(tickets) \subseteq Callers
    BY CountersAreNatural
  <1>3. SUFFICES TypeOK' /\ RequestInv' /\ WrittenInv' /\ LeaderInv'
    BY <1>1 DEF IInv
  <1>4. TypeOK /\ RequestInv /\ WrittenInv /\ LeaderInv
    BY DEF IInv
  <1>5. ASSUME NEW c \in Callers, DeadlinePasses(c)
        PROVE  TypeOK' /\ RequestInv' /\ WrittenInv' /\ LeaderInv'
    BY <1>4, <1>5 DEF TypeOK, RequestInv, WrittenInv, LeaderInv, DeadlinePasses
  <1>6. ASSUME NEW c \in Callers, TurnAway(c)
        PROVE  TypeOK' /\ RequestInv' /\ WrittenInv' /\ LeaderInv'
    <2>1. TypeOK'
      BY <1>4, <1>6 DEF TypeOK, TurnAway, Results
    <2>2. RequestInv'
      BY <1>4, <1>6 DEF TypeOK, RequestInv, TurnAway
    <2>3. WrittenInv' /\ LeaderInv'
      BY <1>4, <1>6 DEF TypeOK, RequestInv, WrittenInv, LeaderInv, TurnAway
    <2>4. QED
      BY <2>1, <2>2, <2>3
  <1>7. ASSUME NEW c \in Callers, TakeResult(c)
        PROVE  TypeOK' /\ RequestInv' /\ WrittenInv' /\ LeaderInv'
    <2>1. TypeOK'
      BY <1>4, <1>7 DEF TypeOK, TakeResult, Results
    <2>2. RequestInv'
      BY <1>4, <1>7 DEF TypeOK, RequestInv, TakeResult
    <2>3. WrittenInv' /\ LeaderInv'
      BY <1>4, <1>7 DEF TypeOK, RequestInv, WrittenInv, LeaderInv, TakeResult
    <2>4. QED
      BY <2>1, <2>2, <2>3
  <1>8. ASSUME NEW c \in Callers, Lead(c)
        PROVE  TypeOK' /\ RequestInv' /\ WrittenInv' /\ LeaderInv'
    <2>1. TypeOK'
      BY <1>4, <1>8 DEF TypeOK, Lead
    <2>2. RequestInv' /\ WrittenInv' /\ LeaderInv'
      BY <1>4, <1>8 DEF TypeOK, RequestInv, WrittenInv, LeaderInv, Lead
    <2>3. QED
      BY <2>1, <2>2
  <1>9. ASSUME NEW c \in Callers, TryLock(c)
        PROVE  TypeOK' /\ RequestInv' /\ WrittenInv' /\ LeaderInv'
    BY <1>4, <1>9 DEF TypeOK, RequestInv, WrittenInv, LeaderInv, TryLock
  <1>10. ASSUME NEW accepted \in SUBSET ToSet(tickets), written' = written \union accepted,
                UNCHANGED <<result, batch, waiting, tickets>>,
                \A d \in Callers : /\ pc'[d] = "idle" => pc[d] = "idle"
                                   /\ pc'[d] \in {"waiting", "leading"} => pc[d] = pc'[d]
                                   /\ answer'[d] = answer[d] \/
                                        (answer'[d] = "panic" /\ pc'[d] = "returned" /\ answer[d] = "none")
                                   /\ pc'[d] # "returned" => pc[d] # "returned"
         PROVE  RequestInv' /\ WrittenInv'
    <2>1. RequestInv'
      <3>1. ASSUME NEW d \in Callers PROVE d \in accepted => ~batch[d] /\ pc[d] # "idle"
        BY <1>4 DEF RequestInv
      <3>2. QED
        BY <1>4, <1>10, <3>1 DEF TypeOK, RequestInv
    <2>2. WrittenInv'
      <3>1. ASSUME NEW d \in written' PROVE {answer'[d], result'[d]} \intersect {"expired", "limit"} = {}
        <4>1. d \in Callers
          BY <1>2, <1>4, <1>10 DEF TypeOK
        <4>2. CASE d \in written
          BY <1>4, <1>10, <4>1, <4>2 DEF WrittenInv
        <4>3. CASE d \in ToSet(tickets)
          BY <1>4, <1>10, <4>1, <4>3 DEF RequestInv
        <4>4. QED
          BY <1>10, <4>2, <4>3
      <3>2. QED
        BY <3>1 DEF WrittenInv
    <2>3. QED
      BY <2>1, <2>2
  <1>11. ASSUME NEW c \in Callers, Work(c)
         PROVE  TypeOK' /\ RequestInv' /\ WrittenInv' /\ LeaderInv'
    <2>1. PICK accepted \in SUBSET ToSet(tickets) : written' = written \union accepted
      BY <1>11 DEF Work
    <2>2. TypeOK' /\ LeaderInv'
      BY <1>2, <1>4, <1>11, <2>1 DEF TypeOK, LeaderInv, Work
    <2>3. RequestInv' /\ WrittenInv'
      BY <1>10, <1>11, <2>1 DEF Work
    <2>4. QED
      BY <2>2, <2>3
  <1>12. ASSUME NEW c \in Callers, Panic(c)
         PROVE  TypeOK' /\ RequestInv' /\ WrittenInv' /\ LeaderInv'
    <2>1. PICK accepted \in SUBSET ToSet(tickets) : written' = written \union accepted
      BY <1>12 DEF Panic
    <2>2. TypeOK'
      BY <1>2, <1>4, <1>12, <2>1 DEF TypeOK, Panic, Results
    <2>3. LeaderInv'
      BY <1>4, <1>12 DEF TypeOK, LeaderInv, Panic
    <2>4. RequestInv' /\ WrittenInv'
      <3>1. answer[c] = "none"
        BY <1>4, <1>12 DEF RequestInv, Panic
      <3>2. \A d \in Callers : /\ pc'[d] = "idle" => pc[d] = "idle"
                               /\ pc'[d] \in {"waiting", "leading"} => pc[d] = pc'[d]
                               /\ answer'[d] = answer[d] \/
                                    (answer'[d] = "panic" /\ pc'[d] = "returned" /\ answer[d] = "none")
                               /\ pc'[d] # "returned" => pc[d] # "returned"
        BY <1>4, <1>12, <3>1 DEF TypeOK, Panic
      <3>3. UNCHANGED <<result, batch, waiting, tickets>>
        BY <1>12 DEF Panic
      <3>4. QED
        BY <1>10, <2>1, <3>2, <3>3
    <2>5. QED
      BY <2>2, <2>3, <2>4
  <1>13. ASSUME MaintenanceLock \/ MaintenanceUnlock \/ UNCHANGED vars
         PROVE  TypeOK' /\ RequestInv' /\ WrittenInv' /\ LeaderInv'
    BY <1>4, <1>13 DEF TypeOK, RequestInv, WrittenInv, LeaderInv, MaintenanceLock,
                       MaintenanceUnlock, vars
  <1>14. QED
    BY <1>5, <1>6, <1>7, <1>8, <1>9, <1>11, <1>12, <1>13

LEMMA StepKeeps == IInv /\ [Next]_vars => IInv'
  <1>1. SUFFICES ASSUME IInv, [Next]_vars PROVE IInv'
    OBVIOUS
  <1>2. ASSUME NEW c \in Callers, Submit(c) PROVE IInv'
    BY <1>1, <1>2, SubmitKeeps
  <1>3. ASSUME NEW c \in Callers, Cancel(c) PROVE IInv'
    BY <1>1, <1>3, CancelKeeps
  <1>4. ASSUME NEW c \in Callers, Claim(c) PROVE IInv'
    BY <1>1, <1>4, ClaimKeeps DEF Claim
  <1>5. ASSUME NEW c \in Callers, ClaimPoisoned(c) PROVE IInv'
    BY <1>1, <1>5, ClaimKeeps DEF ClaimPoisoned
  <1>6. ASSUME NEW c \in Callers, GiveUp(c) PROVE IInv'
    BY <1>1, <1>6, GiveUpKeeps
  <1>7. ASSUME NEW c \in Callers, Finish(c) PROVE IInv'
    BY <1>1, <1>7, FinishActionKeeps
  <1>8. CASE LeadershipDrop
    BY <1>1, <1>8, LeadershipDropKeeps
  <1>9. QED
    BY <1>1, <1>2, <1>3, <1>4, <1>5, <1>6, <1>7, <1>8, OtherStepsKeep
       DEF Next, CallerStep, LeaderStep

LEMMA Inductive == Spec => []IInv
  <1>1. QED
    BY InitHolds, StepKeeps, PTL DEF Spec

-----------------------------------------------------------------------------
(* Every variable of the queue keeps its type: the counters stay within the limits
   of admission and never go below zero, and no request is queued or claimed twice. *)
THEOREM QueueTypes == Spec => []TypeOK
  <1>1. IInv => TypeOK
    BY DEF IInv
  <1>2. QED
    BY <1>1, Inductive, PTL

(* The counters that admit requests count exactly the waiting and the claimed ones,
   in number and in bytes, through cancellations, claims, refusals and panics. *)
THEOREM CountersAreExact == Spec => []CapacityIsExact
  <1>1. IInv => CapacityIsExact
    BY DEF IInv
  <1>2. QED
    BY <1>1, Inductive, PTL

(* A request without a batch and without an answer is in the group of a leader that
   has not answered yet.                                                    *)
THEOREM ClaimedAreLed == Spec => []ClaimedHaveALeader
  <1>1. IInv => ClaimedHaveALeader
    <2>1. SUFFICES ASSUME IInv PROVE ClaimedHaveALeader
      OBVIOUS
    <2>2. ASSUME NEW c \in Callers, c \in ToSet(tickets) PROVE running
      <3>1. tickets # <<>>
        BY <2>2 DEF ToSet
      <3>2. QED
        BY <2>1, <3>1 DEF IInv, TypeOK, LeaderInv
    <2>3. QED
      BY <2>1, <2>2 DEF IInv, RequestInv, ClaimedHaveALeader
  <1>2. QED
    BY <1>1, Inductive, PTL

(* A caller told that its deadline passed or that the queue was full has nothing in
   the WAL: cancellation and claim exclude each other.                      *)
THEOREM ExpiredIsNotWritten == Spec => []ExpiredNeverCommits
  <1>1. IInv => ExpiredNeverCommits
    BY DEF IInv, WrittenInv, ExpiredNeverCommits
  <1>2. QED
    BY <1>1, Inductive, PTL
=============================================================================
