------------------------- MODULE StatusHead_proofs -------------------------
(***************************************************************************)
(* Proofs about StatusMerkle and StatusHead.                               *)
(*                                                                         *)
(* The tree: its roots and its proofs of inclusion and of consistency are  *)
(* sound for any leaves in any number.  The recursive functions of         *)
(* StatusMerkle are first shown to satisfy their equations; all else       *)
(* follows by induction on the number of leaves.                           *)
(*                                                                         *)
(* The consumer: what it can rely on, for any number of operations and any *)
(* bounds.  That the tree is sound is all it needs to know of the tree.    *)
(***************************************************************************)
EXTENDS StatusHead, FiniteSetTheorems, TLAPS

\* Induction, from the pigeonhole principle: what is closed under successor and holds at 0
\* leaves no number out, or the numbers left out up to some n would fit, each one lower,
\* among those without n.
LEMMA Induction ==
    ASSUME NEW T, 0 \in T, \A n \in Nat : n \in T => n + 1 \in T
    PROVE  \A n \in Nat : n \in T
<1>1. SUFFICES ASSUME NEW n \in Nat, n \notin T PROVE FALSE
  OBVIOUS
<1>. DEFINE U == (0..n) \ T
            V == U \ {n}
            f == [x \in U |-> x - 1]
<1>2. IsFiniteSet(U)
  <2>1. IsFiniteSet(0..n) /\ U \in SUBSET (0..n)
    BY FS_Interval
  <2>. HIDE DEF U
  <2>. QED BY <2>1, FS_Subset
<1>3. IsFiniteSet(V) /\ Cardinality(V) < Cardinality(U)
  <2>1. n \in U
    BY <1>1
  <2>2. Cardinality(U) \in Nat
    BY <1>2, FS_CardinalityType
  <2>3. IsFiniteSet(V) /\ Cardinality(V) = Cardinality(U) - 1
    <3>. HIDE DEF U
    <3>. QED BY <1>2, <2>1, FS_RemoveElement
  <2>. QED BY <2>2, <2>3
<1>4. f \in [U -> V]
  <2>. SUFFICES ASSUME NEW x \in U PROVE x - 1 \in V
    OBVIOUS
  <2>. QED OBVIOUS
<1>5. \A x, y \in U : x # y => f[x] # f[y]
  OBVIOUS
<1>. HIDE DEF U, V, f
<1>. QED BY <1>2, <1>3, <1>4, <1>5, FS_PigeonHole

----------------------------------------------------------------------------
(***************************************************************************)
(* The recursive functions are the functions their equations describe.     *)
(* Each proof takes the same steps: a function that satisfies the equation *)
(* for the arguments up to some size; that two such functions agree; and   *)
(* the function that takes each of its values from one of them.            *)
(***************************************************************************)
powerOf(f, k) == IF k = 0 THEN 1 ELSE 2 * f[k - 1]
isPower(f, n) == \A k \in 0..n : f[k] = powerOf(f, k)

LEMMA Pow2Exists ==
    \A n \in Nat : \E f : isPower(f, n)
<1>. DEFINE T == {n \in Nat : \E f : isPower(f, n)}
<1>1. 0 \in T
  <2>1. isPower([k \in {0} |-> 1], 0)
    BY DEF isPower, powerOf
  <2>. QED BY <2>1
<1>2. ASSUME NEW n \in Nat, n \in T PROVE n + 1 \in T
  <2>1. PICK f : isPower(f, n)
    BY <1>2
  <2>. DEFINE g == [k \in 0..(n + 1) |-> IF k <= n THEN f[k] ELSE powerOf(f, k)]
  <2>2. \A k \in 0..(n + 1) : g[k] = powerOf(g, k)
    BY <2>1 DEF isPower, powerOf
  <2>. HIDE DEF g
  <2>. QED BY <2>2 DEF isPower
<1>. HIDE DEF T
<1>3. \A n \in Nat : n \in T
  BY <1>1, <1>2, Induction
<1>. QED BY <1>3 DEF T

LEMMA Pow2Unique ==
    ASSUME NEW f, NEW n \in Nat, isPower(f, n), NEW g, NEW m \in Nat, isPower(g, m)
    PROVE  \A k \in Nat : k <= n /\ k <= m => f[k] = g[k]
<1>. DEFINE T == {k \in Nat : k <= n /\ k <= m => f[k] = g[k]}
<1>1. 0 \in T
  BY DEF isPower, powerOf
<1>2. ASSUME NEW k \in Nat, k \in T PROVE k + 1 \in T
  <2>1. SUFFICES ASSUME k + 1 <= n, k + 1 <= m PROVE f[k + 1] = g[k + 1]
    OBVIOUS
  <2>2. f[k] = g[k] /\ k + 1 \in 0..n /\ k + 1 \in 0..m /\ k + 1 # 0 /\ (k + 1) - 1 = k
    BY <1>2, <2>1
  <2>. QED BY <2>2 DEF isPower, powerOf
<1>. HIDE DEF T
<1>3. \A k \in Nat : k \in T
  BY <1>1, <1>2, Induction
<1>. QED BY <1>3 DEF T

LEMMA Pow2Def ==
    pow2 = [k \in Nat |-> IF k = 0 THEN 1 ELSE 2 * pow2[k - 1]]
<1>. DEFINE part(n) == CHOOSE f : isPower(f, n)
            F == [k \in Nat |-> part(k)[k]]
<1>1. \A n \in Nat : isPower(part(n), n)
  BY Pow2Exists
<1>2. \A n, m \in Nat : \A k \in Nat : k <= n /\ k <= m => part(n)[k] = part(m)[k]
  <2>. HIDE DEF part
  <2>. QED BY <1>1, Pow2Unique
<1>. HIDE DEF part
<1>3. ASSUME NEW k \in Nat PROVE F[k] = IF k = 0 THEN 1 ELSE 2 * F[k - 1]
  <2>1. part(k)[k] = powerOf(part(k), k)
    BY <1>1 DEF isPower
  <2>2. CASE k = 0
    BY <2>1, <2>2 DEF powerOf
  <2>3. CASE k # 0
    <3>1. k - 1 \in Nat /\ part(k)[k - 1] = part(k - 1)[k - 1]
      BY <1>2, <2>3
    <3>. QED BY <2>1, <2>3, <3>1 DEF powerOf
  <2>. QED BY <2>2, <2>3
<1>4. F = [k \in Nat |-> IF k = 0 THEN 1 ELSE 2 * F[k - 1]]
  <2>1. F = [k \in Nat |-> F[k]]
    OBVIOUS
  <2>. HIDE DEF F
  <2>. QED BY <1>3, <2>1
<1>. HIDE DEF F
<1>. QED BY <1>4 DEF pow2

----------------------------------------------------------------------------
(***************************************************************************)
(* Powers of two, and where a tree is split.                               *)
(***************************************************************************)
LEMMA Pow2Step ==
    /\ pow2[0] = 1
    /\ \A k \in Nat : pow2[k] \in Nat /\ pow2[k] > 0 /\ pow2[k + 1] = 2 * pow2[k]
<1>1. \A k \in Nat : pow2[k] = IF k = 0 THEN 1 ELSE 2 * pow2[k - 1]
  BY Pow2Def
<1>2. pow2[0] = 1
  BY <1>1
<1>3. ASSUME NEW k \in Nat PROVE pow2[k + 1] = 2 * pow2[k]
  <2>1. k + 1 \in Nat /\ k + 1 # 0 /\ (k + 1) - 1 = k
    OBVIOUS
  <2>. QED BY <1>1, <2>1
<1>. DEFINE T == {k \in Nat : pow2[k] \in Nat /\ pow2[k] > 0}
<1>4. 0 \in T /\ \A k \in Nat : k \in T => k + 1 \in T
  BY <1>2, <1>3
<1>. HIDE DEF T
<1>5. \A k \in Nat : k \in T
  BY <1>4, Induction
<1>. QED BY <1>2, <1>3, <1>5 DEF T

LEMMA Pow2Grows ==
    ASSUME NEW j \in Nat
    PROVE  \A k \in Nat : pow2[j] <= pow2[j + k]
<1>. DEFINE T == {k \in Nat : pow2[j] <= pow2[j + k]}
<1>1. 0 \in T
  BY Pow2Step
<1>2. ASSUME NEW k \in Nat, k \in T PROVE k + 1 \in T
  <2>1. j + k \in Nat /\ (j + k) + 1 = j + (k + 1)
    OBVIOUS
  <2>2. pow2[j + (k + 1)] = 2 * pow2[j + k] /\ pow2[j + k] \in Nat /\ pow2[j] \in Nat
    BY <2>1, Pow2Step
  <2>. QED BY <1>2, <2>2
<1>. HIDE DEF T
<1>3. \A k \in Nat : k \in T
  BY <1>1, <1>2, Induction
<1>. QED BY <1>3 DEF T

\* Between one power of two and the next there is every number, and once.
LEMMA Pow2Unambiguous ==
    ASSUME NEW x \in Nat, NEW j \in Nat, NEW k \in Nat,
           pow2[j] <= x, x < pow2[j + 1], pow2[k] <= x, x < pow2[k + 1]
    PROVE  j = k
<1>1. ASSUME NEW a \in Nat, NEW b \in Nat, a < b PROVE pow2[a + 1] <= pow2[b]
  <2>1. a + 1 \in Nat /\ b - (a + 1) \in Nat /\ (a + 1) + (b - (a + 1)) = b
    BY <1>1
  <2>. QED BY <2>1, Pow2Grows
<1>2. pow2[j] \in Nat /\ pow2[k] \in Nat /\ pow2[j + 1] \in Nat /\ pow2[k + 1] \in Nat
  BY Pow2Step
<1>3. ~(j < k)
  BY <1>1, <1>2
<1>4. ~(k < j)
  BY <1>1, <1>2
<1>. QED BY <1>3, <1>4

LEMMA Pow2Covers ==
    ASSUME NEW n \in Nat \ {0}
    PROVE  \E k \in 0..n : pow2[k] <= n /\ n < pow2[k + 1]
<1>. DEFINE T == {m \in Nat : m # 0 => \E k \in 0..m : pow2[k] <= m /\ m < pow2[k + 1]}
<1>1. 0 \in T
  OBVIOUS
<1>2. ASSUME NEW m \in Nat, m \in T PROVE m + 1 \in T
  <2>1. CASE m = 0
    <3>1. pow2[0] = 1 /\ pow2[0 + 1] = 2
      BY Pow2Step
    <3>2. 0 \in 0..(m + 1) /\ pow2[0] <= m + 1 /\ m + 1 < pow2[0 + 1]
      BY <2>1, <3>1
    <3>. QED BY <3>2
  <2>2. CASE m # 0
    <3>1. PICK k \in 0..m : pow2[k] <= m /\ m < pow2[k + 1]
      BY <1>2, <2>2
    <3>2. k \in Nat /\ k + 1 \in Nat
      OBVIOUS
    <3>3. pow2[k] \in Nat /\ pow2[k + 1] \in Nat /\ pow2[(k + 1) + 1] = 2 * pow2[k + 1]
          /\ pow2[k + 1] > 0
      BY <3>2, Pow2Step
    <3>4. CASE m + 1 < pow2[k + 1]
      <4>1. k \in 0..(m + 1) /\ pow2[k] <= m + 1
        BY <3>1, <3>3
      <4>. QED BY <3>4, <4>1
    <3>5. CASE m + 1 = pow2[k + 1]
      <4>1. k + 1 \in 0..(m + 1) /\ pow2[k + 1] <= m + 1 /\ m + 1 < pow2[(k + 1) + 1]
        BY <3>3, <3>5
      <4>. QED BY <4>1
    <3>. QED BY <3>1, <3>3, <3>4, <3>5
  <2>. QED BY <2>1, <2>2
<1>. HIDE DEF T
<1>3. \A m \in Nat : m \in T
  BY <1>1, <1>2, Induction
<1>4. n \in T
  BY <1>3
<1>. QED BY <1>4 DEF T

\* A tree is split at the power of two that its size is above, and not above the double of.
LEMMA SplitAt ==
    ASSUME NEW k \in Nat, NEW n \in Nat, pow2[k] < n, n <= pow2[k + 1]
    PROVE  _split(n) = pow2[k]
<1>. DEFINE at(j) == pow2[j] <= n - 1 /\ n - 1 < pow2[j + 1]
            J == CHOOSE j \in 0..(n - 1) : at(j)
<1>1. pow2[k] \in Nat /\ pow2[k] > 0 /\ pow2[k + 1] \in Nat
  BY Pow2Step
<1>2. n - 1 \in Nat \ {0} /\ at(k)
  BY <1>1
<1>3. J \in 0..(n - 1) /\ at(J)
  BY <1>2, Pow2Covers
<1>4. J \in Nat
  BY <1>3
<1>5. J = k
  BY <1>2, <1>3, <1>4, Pow2Unambiguous
<1>. QED BY <1>5 DEF _split

LEMMA SplitFacts ==
    ASSUME NEW n \in Nat, n >= 2
    PROVE  \E k \in Nat : /\ _split(n) = pow2[k] /\ pow2[k] < n /\ n <= pow2[k + 1]
                          /\ pow2[k] \in 1..(n - 1)
<1>1. n - 1 \in Nat \ {0}
  OBVIOUS
<1>2. PICK k \in 0..(n - 1) : pow2[k] <= n - 1 /\ n - 1 < pow2[k + 1]
  BY <1>1, Pow2Covers
<1>3. k \in Nat /\ pow2[k] \in Nat /\ pow2[k] > 0 /\ pow2[k + 1] \in Nat
  BY <1>2, Pow2Step
<1>4. pow2[k] < n /\ n <= pow2[k + 1] /\ pow2[k] \in 1..(n - 1)
  BY <1>2, <1>3
<1>. QED BY <1>3, <1>4, SplitAt

LEMMA Sizes ==
    ASSUME NEW l \in Seq(Leaf)
    PROVE  /\ Len(l) >= 2 \/ Len(l) = 1 \/ Len(l) = 0
           /\ Len(l) >= 2 => Len(l) # 1 /\ Len(l) # 0
<1>1. Len(l) \in Nat
  OBVIOUS
<1>2. \A n \in Nat : (n >= 2 \/ n = 1 \/ n = 0) /\ (n >= 2 => n # 1 /\ n # 0)
  OBVIOUS
<1>. QED BY <1>1, <1>2, Zenon

\* The parts of a sequence of two leaves or more, and what is at their places.
LEMMA Parts ==
    ASSUME NEW l \in Seq(Leaf), Len(l) >= 2
    PROVE  /\ _split(Len(l)) \in 1..(Len(l) - 1)
           /\ firstPart(l) \in Seq(Leaf) /\ Len(firstPart(l)) = _split(Len(l))
           /\ secondPart(l) \in Seq(Leaf) /\ Len(secondPart(l)) = Len(l) - _split(Len(l))
           /\ \A i \in 1.._split(Len(l)) : firstPart(l)[i] = l[i]
           /\ \A i \in 1..(Len(l) - _split(Len(l))) : secondPart(l)[i] = l[_split(Len(l)) + i]
<1>1. Len(l) \in Nat
  OBVIOUS
<1>2. _split(Len(l)) \in 1..(Len(l) - 1)
  BY <1>1, SplitFacts
<1>. DEFINE s == _split(Len(l))
<1>. HIDE DEF s
<1>3. s \in 1..(Len(l) - 1)
  BY <1>2 DEF s
<1>4. /\ SubSeq(l, 1, s) \in Seq(Leaf) /\ Len(SubSeq(l, 1, s)) = s
      /\ \A i \in 1..s : SubSeq(l, 1, s)[i] = l[i]
  BY <1>1, <1>3
<1>5. /\ SubSeq(l, s + 1, Len(l)) \in Seq(Leaf)
      /\ Len(SubSeq(l, s + 1, Len(l))) = Len(l) - s
      /\ \A i \in 1..(Len(l) - s) : SubSeq(l, s + 1, Len(l))[i] = l[s + i]
  BY <1>1, <1>3
<1>. QED BY <1>3, <1>4, <1>5 DEF firstPart, secondPart, s

----------------------------------------------------------------------------
rootOf(f, leaves) ==
    CASE Len(leaves) = 0 -> "empty"
      [] Len(leaves) = 1 -> leaves[1]
      [] OTHER -> node_digest(f[firstPart(leaves)], f[secondPart(leaves)])
isRoot(f, n) == \A l \in Seq(Leaf) : Len(l) <= n => f[l] = rootOf(f, l)

LEMMA RootSame ==
    ASSUME NEW f, NEW g, NEW l \in Seq(Leaf),
           Len(l) >= 2 => f[firstPart(l)] = g[firstPart(l)] /\ f[secondPart(l)] = g[secondPart(l)]
    PROVE  rootOf(f, l) = rootOf(g, l)
<1>1. Len(l) >= 2 \/ Len(l) = 1 \/ Len(l) = 0
  BY Sizes
<1>2. CASE Len(l) >= 2
  <2>1. f[firstPart(l)] = g[firstPart(l)] /\ f[secondPart(l)] = g[secondPart(l)]
    BY <1>2
  <2>. QED BY <1>1, <1>2, <2>1 DEF rootOf
<1>3. CASE Len(l) = 1
  BY <1>3 DEF rootOf
<1>4. CASE Len(l) = 0
  BY <1>4 DEF rootOf
<1>. QED BY <1>1, <1>2, <1>3, <1>4

LEMMA RootExists ==
    \A n \in Nat : \E f : isRoot(f, n)
<1>. DEFINE T == {n \in Nat : \E f : isRoot(f, n)}
            g(f, n) == [l \in Seq(Leaf) |-> IF Len(l) < n THEN f[l] ELSE rootOf(f, l)]
<1>1. ASSUME NEW f, NEW n \in Nat, \A l \in Seq(Leaf) : Len(l) < n => f[l] = rootOf(f, l)
      PROVE  isRoot(g(f, n), n)
  <2>. DEFINE h == g(f, n)
  <2>1. \A l \in Seq(Leaf) : h[l] = IF Len(l) < n THEN f[l] ELSE rootOf(f, l)
    OBVIOUS
  <2>. HIDE DEF h
  <2>2. ASSUME NEW l \in Seq(Leaf), Len(l) <= n PROVE h[l] = rootOf(h, l)
    <3>1. h[l] = rootOf(f, l)
      BY <1>1, <2>1
    <3>2. ASSUME Len(l) >= 2
          PROVE  f[firstPart(l)] = h[firstPart(l)] /\ f[secondPart(l)] = h[secondPart(l)]
      <4>1. /\ firstPart(l) \in Seq(Leaf) /\ Len(firstPart(l)) < n
            /\ secondPart(l) \in Seq(Leaf) /\ Len(secondPart(l)) < n
        BY <2>2, <3>2, Parts
      <4>. QED BY <2>1, <4>1
    <3>3. rootOf(f, l) = rootOf(h, l)
      BY <3>2, RootSame
    <3>. QED BY <3>1, <3>3
  <2>3. isRoot(h, n)
    BY <2>2 DEF isRoot
  <2>. QED BY <2>3 DEF h
<1>. HIDE DEF g
<1>2. 0 \in T
  <2>1. \A l \in Seq(Leaf) : Len(l) < 0 => << >>[l] = rootOf(<< >>, l)
    OBVIOUS
  <2>2. isRoot(g(<< >>, 0), 0)
    BY <1>1, <2>1
  <2>. QED BY <2>2
<1>3. ASSUME NEW n \in Nat, n \in T PROVE n + 1 \in T
  <2>1. PICK f : isRoot(f, n)
    BY <1>3
  <2>2. \A l \in Seq(Leaf) : Len(l) < n + 1 => f[l] = rootOf(f, l)
    BY <2>1 DEF isRoot
  <2>3. isRoot(g(f, n + 1), n + 1)
    BY <1>1, <2>2
  <2>. QED BY <2>3
<1>. HIDE DEF T
<1>4. \A n \in Nat : n \in T
  BY <1>2, <1>3, Induction
<1>. QED BY <1>4 DEF T

LEMMA RootUnique ==
    ASSUME NEW f, NEW n \in Nat, isRoot(f, n), NEW g, NEW m \in Nat, isRoot(g, m)
    PROVE  \A l \in Seq(Leaf) : Len(l) <= n /\ Len(l) <= m => f[l] = g[l]
<1>. DEFINE T == {k \in Nat : \A l \in Seq(Leaf) :
                     Len(l) < k /\ Len(l) <= n /\ Len(l) <= m => f[l] = g[l]}
<1>1. 0 \in T
  OBVIOUS
<1>2. ASSUME NEW k \in Nat, k \in T PROVE k + 1 \in T
  <2>1. SUFFICES ASSUME NEW l \in Seq(Leaf), Len(l) < k + 1, Len(l) <= n, Len(l) <= m
                 PROVE  f[l] = g[l]
    OBVIOUS
  <2>2. f[l] = rootOf(f, l) /\ g[l] = rootOf(g, l)
    BY <2>1 DEF isRoot
  <2>3. ASSUME Len(l) >= 2
        PROVE  f[firstPart(l)] = g[firstPart(l)] /\ f[secondPart(l)] = g[secondPart(l)]
    <3>1. /\ firstPart(l) \in Seq(Leaf) /\ Len(firstPart(l)) < Len(l)
          /\ secondPart(l) \in Seq(Leaf) /\ Len(secondPart(l)) < Len(l)
          /\ Len(firstPart(l)) \in Nat /\ Len(secondPart(l)) \in Nat /\ Len(l) \in Nat
      BY <2>3, Parts
    <3>. QED BY <1>2, <2>1, <3>1
  <2>. QED BY <2>2, <2>3, RootSame
<1>. HIDE DEF T
<1>3. \A k \in Nat : k \in T
  BY <1>1, <1>2, Induction
<1>4. SUFFICES ASSUME NEW l \in Seq(Leaf), Len(l) <= n, Len(l) <= m PROVE f[l] = g[l]
  OBVIOUS
<1>5. Len(l) + 1 \in T /\ Len(l) < Len(l) + 1
  BY <1>3
<1>. QED BY <1>4, <1>5 DEF T

LEMMA RootDef ==
    \A l \in Seq(Leaf) : merkle_root[l] = rootOf(merkle_root, l)
<1>. DEFINE part(n) == CHOOSE f : isRoot(f, n)
            F == [l \in Seq(Leaf) |-> part(Len(l))[l]]
<1>1. \A n \in Nat : isRoot(part(n), n)
  BY RootExists
<1>2. \A n, m \in Nat : \A l \in Seq(Leaf) :
          Len(l) <= n /\ Len(l) <= m => part(n)[l] = part(m)[l]
  <2>. HIDE DEF part
  <2>. QED BY <1>1, RootUnique
<1>. HIDE DEF part
<1>3. \A l \in Seq(Leaf) : F[l] = part(Len(l))[l]
  OBVIOUS
<1>4. F = [l \in Seq(Leaf) |-> F[l]]
  OBVIOUS
<1>. HIDE DEF F
<1>5. ASSUME NEW l \in Seq(Leaf) PROVE F[l] = rootOf(F, l)
  <2>. DEFINE n == Len(l)
  <2>1. n \in Nat /\ F[l] = rootOf(part(n), l)
    BY <1>1, <1>3 DEF isRoot
  <2>2. ASSUME n >= 2
        PROVE  /\ part(n)[firstPart(l)] = F[firstPart(l)]
               /\ part(n)[secondPart(l)] = F[secondPart(l)]
    <3>1. /\ firstPart(l) \in Seq(Leaf) /\ Len(firstPart(l)) <= n
          /\ secondPart(l) \in Seq(Leaf) /\ Len(secondPart(l)) <= n
          /\ Len(firstPart(l)) \in Nat /\ Len(secondPart(l)) \in Nat
      BY <2>2, Parts
    <3>. QED BY <1>2, <1>3, <2>1, <3>1
  <2>3. rootOf(part(n), l) = rootOf(F, l)
    BY <2>2, RootSame
  <2>. QED BY <2>1, <2>3
<1>6. F = [l \in Seq(Leaf) |-> rootOf(F, l)]
  BY <1>4, <1>5
<1>7. merkle_root = [l \in Seq(Leaf) |-> rootOf(merkle_root, l)]
  BY <1>6 DEF merkle_root, rootOf
<1>. QED BY <1>7

----------------------------------------------------------------------------
inclusionOf(f, leaves) ==
    [leaf_index \in 0..(Len(leaves) - 1) |->
        LET split == _split(Len(leaves))
        IN IF Len(leaves) = 1 THEN << >>
           ELSE IF leaf_index < split
           THEN Append(f[firstPart(leaves)][leaf_index], merkle_root[secondPart(leaves)])
           ELSE Append(f[secondPart(leaves)][leaf_index - split],
                       merkle_root[firstPart(leaves)])]
isInclusion(f, n) == \A l \in Seq(Leaf) : Len(l) <= n => f[l] = inclusionOf(f, l)

LEMMA InclusionSame ==
    ASSUME NEW f, NEW g, NEW l \in Seq(Leaf),
           Len(l) >= 2 => f[firstPart(l)] = g[firstPart(l)] /\ f[secondPart(l)] = g[secondPart(l)]
    PROVE  inclusionOf(f, l) = inclusionOf(g, l)
<1>1. Len(l) >= 2 \/ Len(l) = 1 \/ Len(l) = 0
  BY Sizes
<1>2. CASE Len(l) >= 2
  <2>1. f[firstPart(l)] = g[firstPart(l)] /\ f[secondPart(l)] = g[secondPart(l)]
    BY <1>2
  <2>. QED BY <1>1, <1>2, <2>1 DEF inclusionOf
<1>3. CASE Len(l) = 1
  BY <1>3 DEF inclusionOf
<1>4. CASE Len(l) = 0
  <2>1. 0..(Len(l) - 1) = {}
    BY <1>4
  <2>. QED BY <2>1 DEF inclusionOf
<1>. QED BY <1>1, <1>2, <1>3, <1>4

LEMMA InclusionExists ==
    \A n \in Nat : \E f : isInclusion(f, n)
<1>. DEFINE T == {n \in Nat : \E f : isInclusion(f, n)}
            g(f, n) == [l \in Seq(Leaf) |-> IF Len(l) < n THEN f[l] ELSE inclusionOf(f, l)]
<1>1. ASSUME NEW f, NEW n \in Nat, \A l \in Seq(Leaf) : Len(l) < n => f[l] = inclusionOf(f, l)
      PROVE  isInclusion(g(f, n), n)
  <2>. DEFINE h == g(f, n)
  <2>1. \A l \in Seq(Leaf) : h[l] = IF Len(l) < n THEN f[l] ELSE inclusionOf(f, l)
    OBVIOUS
  <2>. HIDE DEF h
  <2>2. ASSUME NEW l \in Seq(Leaf), Len(l) <= n PROVE h[l] = inclusionOf(h, l)
    <3>1. h[l] = inclusionOf(f, l)
      BY <1>1, <2>1
    <3>2. ASSUME Len(l) >= 2
          PROVE  f[firstPart(l)] = h[firstPart(l)] /\ f[secondPart(l)] = h[secondPart(l)]
      <4>1. /\ firstPart(l) \in Seq(Leaf) /\ Len(firstPart(l)) < n
            /\ secondPart(l) \in Seq(Leaf) /\ Len(secondPart(l)) < n
        BY <2>2, <3>2, Parts
      <4>. QED BY <2>1, <4>1
    <3>3. inclusionOf(f, l) = inclusionOf(h, l)
      BY <3>2, InclusionSame
    <3>. QED BY <3>1, <3>3
  <2>3. isInclusion(h, n)
    BY <2>2 DEF isInclusion
  <2>. QED BY <2>3 DEF h
<1>. HIDE DEF g
<1>2. 0 \in T
  <2>1. \A l \in Seq(Leaf) : Len(l) < 0 => << >>[l] = inclusionOf(<< >>, l)
    OBVIOUS
  <2>2. isInclusion(g(<< >>, 0), 0)
    BY <1>1, <2>1
  <2>. QED BY <2>2
<1>3. ASSUME NEW n \in Nat, n \in T PROVE n + 1 \in T
  <2>1. PICK f : isInclusion(f, n)
    BY <1>3
  <2>2. \A l \in Seq(Leaf) : Len(l) < n + 1 => f[l] = inclusionOf(f, l)
    BY <2>1 DEF isInclusion
  <2>3. isInclusion(g(f, n + 1), n + 1)
    BY <1>1, <2>2
  <2>. QED BY <2>3
<1>. HIDE DEF T
<1>4. \A n \in Nat : n \in T
  BY <1>2, <1>3, Induction
<1>. QED BY <1>4 DEF T

LEMMA InclusionUnique ==
    ASSUME NEW f, NEW n \in Nat, isInclusion(f, n), NEW g, NEW m \in Nat, isInclusion(g, m)
    PROVE  \A l \in Seq(Leaf) : Len(l) <= n /\ Len(l) <= m => f[l] = g[l]
<1>. DEFINE T == {k \in Nat : \A l \in Seq(Leaf) :
                     Len(l) < k /\ Len(l) <= n /\ Len(l) <= m => f[l] = g[l]}
<1>1. 0 \in T
  OBVIOUS
<1>2. ASSUME NEW k \in Nat, k \in T PROVE k + 1 \in T
  <2>1. SUFFICES ASSUME NEW l \in Seq(Leaf), Len(l) < k + 1, Len(l) <= n, Len(l) <= m
                 PROVE  f[l] = g[l]
    OBVIOUS
  <2>2. f[l] = inclusionOf(f, l) /\ g[l] = inclusionOf(g, l)
    BY <2>1 DEF isInclusion
  <2>3. ASSUME Len(l) >= 2
        PROVE  f[firstPart(l)] = g[firstPart(l)] /\ f[secondPart(l)] = g[secondPart(l)]
    <3>1. /\ firstPart(l) \in Seq(Leaf) /\ Len(firstPart(l)) < Len(l)
          /\ secondPart(l) \in Seq(Leaf) /\ Len(secondPart(l)) < Len(l)
          /\ Len(firstPart(l)) \in Nat /\ Len(secondPart(l)) \in Nat /\ Len(l) \in Nat
      BY <2>3, Parts
    <3>. QED BY <1>2, <2>1, <3>1
  <2>. QED BY <2>2, <2>3, InclusionSame
<1>. HIDE DEF T
<1>3. \A k \in Nat : k \in T
  BY <1>1, <1>2, Induction
<1>4. SUFFICES ASSUME NEW l \in Seq(Leaf), Len(l) <= n, Len(l) <= m PROVE f[l] = g[l]
  OBVIOUS
<1>5. Len(l) + 1 \in T /\ Len(l) < Len(l) + 1
  BY <1>3
<1>. QED BY <1>4, <1>5 DEF T

LEMMA InclusionDef ==
    \A l \in Seq(Leaf) : inclusion_proof[l] = inclusionOf(inclusion_proof, l)
<1>. DEFINE part(n) == CHOOSE f : isInclusion(f, n)
            F == [l \in Seq(Leaf) |-> part(Len(l))[l]]
<1>1. \A n \in Nat : isInclusion(part(n), n)
  BY InclusionExists
<1>2. \A n, m \in Nat : \A l \in Seq(Leaf) :
          Len(l) <= n /\ Len(l) <= m => part(n)[l] = part(m)[l]
  <2>. HIDE DEF part
  <2>. QED BY <1>1, InclusionUnique
<1>. HIDE DEF part
<1>3. \A l \in Seq(Leaf) : F[l] = part(Len(l))[l]
  OBVIOUS
<1>4. F = [l \in Seq(Leaf) |-> F[l]]
  OBVIOUS
<1>. HIDE DEF F
<1>5. ASSUME NEW l \in Seq(Leaf) PROVE F[l] = inclusionOf(F, l)
  <2>. DEFINE n == Len(l)
  <2>1. n \in Nat /\ F[l] = inclusionOf(part(n), l)
    BY <1>1, <1>3 DEF isInclusion
  <2>2. ASSUME n >= 2
        PROVE  /\ part(n)[firstPart(l)] = F[firstPart(l)]
               /\ part(n)[secondPart(l)] = F[secondPart(l)]
    <3>1. /\ firstPart(l) \in Seq(Leaf) /\ Len(firstPart(l)) <= n
          /\ secondPart(l) \in Seq(Leaf) /\ Len(secondPart(l)) <= n
          /\ Len(firstPart(l)) \in Nat /\ Len(secondPart(l)) \in Nat
      BY <2>2, Parts
    <3>. QED BY <1>2, <1>3, <2>1, <3>1
  <2>3. inclusionOf(part(n), l) = inclusionOf(F, l)
    BY <2>2, InclusionSame
  <2>. QED BY <2>1, <2>3
<1>6. F = [l \in Seq(Leaf) |-> inclusionOf(F, l)]
  BY <1>4, <1>5
<1>7. inclusion_proof = [l \in Seq(Leaf) |-> inclusionOf(inclusion_proof, l)]
  BY <1>6 DEF inclusion_proof, inclusionOf
<1>. QED BY <1>7

----------------------------------------------------------------------------
subproofOf(f, nodes) ==
    [prefix_size \in 1..Len(nodes) |-> [complete \in BOOLEAN |->
        LET split == _split(Len(nodes))
        IN IF prefix_size = Len(nodes)
           THEN IF complete THEN << >> ELSE <<merkle_root[nodes]>>
           ELSE IF prefix_size <= split
           THEN Append(f[firstPart(nodes)][prefix_size][complete],
                       merkle_root[secondPart(nodes)])
           ELSE Append(f[secondPart(nodes)][prefix_size - split][FALSE],
                       merkle_root[firstPart(nodes)])]]
isSubproof(f, n) == \A l \in Seq(Leaf) : Len(l) <= n => f[l] = subproofOf(f, l)

LEMMA SubproofSame ==
    ASSUME NEW f, NEW g, NEW l \in Seq(Leaf),
           Len(l) >= 2 => f[firstPart(l)] = g[firstPart(l)] /\ f[secondPart(l)] = g[secondPart(l)]
    PROVE  subproofOf(f, l) = subproofOf(g, l)
<1>1. Len(l) >= 2 \/ Len(l) = 1 \/ Len(l) = 0
  BY Sizes
<1>2. CASE Len(l) >= 2
  <2>1. f[firstPart(l)] = g[firstPart(l)] /\ f[secondPart(l)] = g[secondPart(l)]
    BY <1>2
  <2>. QED BY <1>1, <1>2, <2>1 DEF subproofOf
<1>3. CASE Len(l) = 1
  <2>1. 1..Len(l) = {1}
    BY <1>3
  <2>. QED BY <1>3, <2>1 DEF subproofOf
<1>4. CASE Len(l) = 0
  <2>1. 1..Len(l) = {}
    BY <1>4
  <2>. QED BY <2>1 DEF subproofOf
<1>. QED BY <1>1, <1>2, <1>3, <1>4

LEMMA SubproofExists ==
    \A n \in Nat : \E f : isSubproof(f, n)
<1>. DEFINE T == {n \in Nat : \E f : isSubproof(f, n)}
            g(f, n) == [l \in Seq(Leaf) |-> IF Len(l) < n THEN f[l] ELSE subproofOf(f, l)]
<1>1. ASSUME NEW f, NEW n \in Nat, \A l \in Seq(Leaf) : Len(l) < n => f[l] = subproofOf(f, l)
      PROVE  isSubproof(g(f, n), n)
  <2>. DEFINE h == g(f, n)
  <2>1. \A l \in Seq(Leaf) : h[l] = IF Len(l) < n THEN f[l] ELSE subproofOf(f, l)
    OBVIOUS
  <2>. HIDE DEF h
  <2>2. ASSUME NEW l \in Seq(Leaf), Len(l) <= n PROVE h[l] = subproofOf(h, l)
    <3>1. h[l] = subproofOf(f, l)
      BY <1>1, <2>1
    <3>2. ASSUME Len(l) >= 2
          PROVE  f[firstPart(l)] = h[firstPart(l)] /\ f[secondPart(l)] = h[secondPart(l)]
      <4>1. /\ firstPart(l) \in Seq(Leaf) /\ Len(firstPart(l)) < n
            /\ secondPart(l) \in Seq(Leaf) /\ Len(secondPart(l)) < n
        BY <2>2, <3>2, Parts
      <4>. QED BY <2>1, <4>1
    <3>3. subproofOf(f, l) = subproofOf(h, l)
      BY <3>2, SubproofSame
    <3>. QED BY <3>1, <3>3
  <2>3. isSubproof(h, n)
    BY <2>2 DEF isSubproof
  <2>. QED BY <2>3 DEF h
<1>. HIDE DEF g
<1>2. 0 \in T
  <2>1. \A l \in Seq(Leaf) : Len(l) < 0 => << >>[l] = subproofOf(<< >>, l)
    OBVIOUS
  <2>2. isSubproof(g(<< >>, 0), 0)
    BY <1>1, <2>1
  <2>. QED BY <2>2
<1>3. ASSUME NEW n \in Nat, n \in T PROVE n + 1 \in T
  <2>1. PICK f : isSubproof(f, n)
    BY <1>3
  <2>2. \A l \in Seq(Leaf) : Len(l) < n + 1 => f[l] = subproofOf(f, l)
    BY <2>1 DEF isSubproof
  <2>3. isSubproof(g(f, n + 1), n + 1)
    BY <1>1, <2>2
  <2>. QED BY <2>3
<1>. HIDE DEF T
<1>4. \A n \in Nat : n \in T
  BY <1>2, <1>3, Induction
<1>. QED BY <1>4 DEF T

LEMMA SubproofUnique ==
    ASSUME NEW f, NEW n \in Nat, isSubproof(f, n), NEW g, NEW m \in Nat, isSubproof(g, m)
    PROVE  \A l \in Seq(Leaf) : Len(l) <= n /\ Len(l) <= m => f[l] = g[l]
<1>. DEFINE T == {k \in Nat : \A l \in Seq(Leaf) :
                     Len(l) < k /\ Len(l) <= n /\ Len(l) <= m => f[l] = g[l]}
<1>1. 0 \in T
  OBVIOUS
<1>2. ASSUME NEW k \in Nat, k \in T PROVE k + 1 \in T
  <2>1. SUFFICES ASSUME NEW l \in Seq(Leaf), Len(l) < k + 1, Len(l) <= n, Len(l) <= m
                 PROVE  f[l] = g[l]
    OBVIOUS
  <2>2. f[l] = subproofOf(f, l) /\ g[l] = subproofOf(g, l)
    BY <2>1 DEF isSubproof
  <2>3. ASSUME Len(l) >= 2
        PROVE  f[firstPart(l)] = g[firstPart(l)] /\ f[secondPart(l)] = g[secondPart(l)]
    <3>1. /\ firstPart(l) \in Seq(Leaf) /\ Len(firstPart(l)) < Len(l)
          /\ secondPart(l) \in Seq(Leaf) /\ Len(secondPart(l)) < Len(l)
          /\ Len(firstPart(l)) \in Nat /\ Len(secondPart(l)) \in Nat /\ Len(l) \in Nat
      BY <2>3, Parts
    <3>. QED BY <1>2, <2>1, <3>1
  <2>. QED BY <2>2, <2>3, SubproofSame
<1>. HIDE DEF T
<1>3. \A k \in Nat : k \in T
  BY <1>1, <1>2, Induction
<1>4. SUFFICES ASSUME NEW l \in Seq(Leaf), Len(l) <= n, Len(l) <= m PROVE f[l] = g[l]
  OBVIOUS
<1>5. Len(l) + 1 \in T /\ Len(l) < Len(l) + 1
  BY <1>3
<1>. QED BY <1>4, <1>5 DEF T

LEMMA SubproofDef ==
    \A l \in Seq(Leaf) : subproof[l] = subproofOf(subproof, l)
<1>. DEFINE part(n) == CHOOSE f : isSubproof(f, n)
            F == [l \in Seq(Leaf) |-> part(Len(l))[l]]
<1>1. \A n \in Nat : isSubproof(part(n), n)
  BY SubproofExists
<1>2. \A n, m \in Nat : \A l \in Seq(Leaf) :
          Len(l) <= n /\ Len(l) <= m => part(n)[l] = part(m)[l]
  <2>. HIDE DEF part
  <2>. QED BY <1>1, SubproofUnique
<1>. HIDE DEF part
<1>3. \A l \in Seq(Leaf) : F[l] = part(Len(l))[l]
  OBVIOUS
<1>4. F = [l \in Seq(Leaf) |-> F[l]]
  OBVIOUS
<1>. HIDE DEF F
<1>5. ASSUME NEW l \in Seq(Leaf) PROVE F[l] = subproofOf(F, l)
  <2>. DEFINE n == Len(l)
  <2>1. n \in Nat /\ F[l] = subproofOf(part(n), l)
    BY <1>1, <1>3 DEF isSubproof
  <2>2. ASSUME n >= 2
        PROVE  /\ part(n)[firstPart(l)] = F[firstPart(l)]
               /\ part(n)[secondPart(l)] = F[secondPart(l)]
    <3>1. /\ firstPart(l) \in Seq(Leaf) /\ Len(firstPart(l)) <= n
          /\ secondPart(l) \in Seq(Leaf) /\ Len(secondPart(l)) <= n
          /\ Len(firstPart(l)) \in Nat /\ Len(secondPart(l)) \in Nat
      BY <2>2, Parts
    <3>. QED BY <1>2, <1>3, <2>1, <3>1
  <2>3. subproofOf(part(n), l) = subproofOf(F, l)
    BY <2>2, SubproofSame
  <2>. QED BY <2>1, <2>3
<1>6. F = [l \in Seq(Leaf) |-> subproofOf(F, l)]
  BY <1>4, <1>5
<1>7. subproof = [l \in Seq(Leaf) |-> subproofOf(subproof, l)]
  BY <1>6 DEF subproof, subproofOf
<1>. QED BY <1>7

----------------------------------------------------------------------------
shiftOf(f, fn) ==
    [sn \in Nat |-> [bit \in 0..1 |->
        IF fn > 0 /\ fn % 2 = bit THEN f[fn \div 2][sn \div 2][bit]
        ELSE [fn |-> fn, sn |-> sn]]]
isShift(f, n) == \A x \in Nat : x <= n => f[x] = shiftOf(f, x)

LEMMA Halves ==
    /\ \A x \in Nat : x \div 2 \in Nat /\ x % 2 \in 0..1 /\ (x > 0 => x \div 2 < x)
    /\ \A x \in Nat : (2 * x) \div 2 = x /\ (2 * x) % 2 = 0
    /\ \A x \in Nat : (2 * x + 1) \div 2 = x /\ (2 * x + 1) % 2 = 1
OBVIOUS

LEMMA ShiftSame ==
    ASSUME NEW f, NEW g, NEW x \in Nat, x > 0 => f[x \div 2] = g[x \div 2]
    PROVE  shiftOf(f, x) = shiftOf(g, x)
<1>1. CASE x > 0
  <2>1. f[x \div 2] = g[x \div 2]
    BY <1>1
  <2>. QED BY <2>1, Zenon DEF shiftOf
<1>2. CASE ~(x > 0)
  BY <1>2, Zenon DEF shiftOf
<1>. QED BY <1>1, <1>2

LEMMA ShiftExists ==
    \A n \in Nat : \E f : isShift(f, n)
<1>. DEFINE T == {n \in Nat : \E f : isShift(f, n)}
            g(f, n) == [x \in Nat |-> IF x < n THEN f[x] ELSE shiftOf(f, x)]
<1>1. ASSUME NEW f, NEW n \in Nat, \A x \in Nat : x < n => f[x] = shiftOf(f, x)
      PROVE  isShift(g(f, n), n)
  <2>. DEFINE h == g(f, n)
  <2>1. \A x \in Nat : h[x] = IF x < n THEN f[x] ELSE shiftOf(f, x)
    OBVIOUS
  <2>. HIDE DEF h
  <2>2. ASSUME NEW x \in Nat, x <= n PROVE h[x] = shiftOf(h, x)
    <3>1. h[x] = shiftOf(f, x)
      BY <1>1, <2>1
    <3>2. ASSUME x > 0 PROVE f[x \div 2] = h[x \div 2]
      <4>1. x \div 2 \in Nat /\ x \div 2 < n
        BY <2>2, <3>2, Halves
      <4>. QED BY <2>1, <4>1
    <3>3. shiftOf(f, x) = shiftOf(h, x)
      BY <3>2, ShiftSame
    <3>. QED BY <3>1, <3>3
  <2>3. isShift(h, n)
    BY <2>2 DEF isShift
  <2>. QED BY <2>3 DEF h
<1>. HIDE DEF g
<1>2. 0 \in T
  <2>1. \A x \in Nat : x < 0 => << >>[x] = shiftOf(<< >>, x)
    OBVIOUS
  <2>2. isShift(g(<< >>, 0), 0)
    BY <1>1, <2>1
  <2>. QED BY <2>2
<1>3. ASSUME NEW n \in Nat, n \in T PROVE n + 1 \in T
  <2>1. PICK f : isShift(f, n)
    BY <1>3
  <2>2. \A x \in Nat : x < n + 1 => f[x] = shiftOf(f, x)
    BY <2>1 DEF isShift
  <2>3. isShift(g(f, n + 1), n + 1)
    BY <1>1, <2>2
  <2>. QED BY <2>3
<1>. HIDE DEF T
<1>4. \A n \in Nat : n \in T
  BY <1>2, <1>3, Induction
<1>. QED BY <1>4 DEF T

LEMMA ShiftUnique ==
    ASSUME NEW f, NEW n \in Nat, isShift(f, n), NEW g, NEW m \in Nat, isShift(g, m)
    PROVE  \A x \in Nat : x <= n /\ x <= m => f[x] = g[x]
<1>. DEFINE T == {k \in Nat : \A x \in Nat : x < k /\ x <= n /\ x <= m => f[x] = g[x]}
<1>1. 0 \in T
  OBVIOUS
<1>2. ASSUME NEW k \in Nat, k \in T PROVE k + 1 \in T
  <2>1. SUFFICES ASSUME NEW x \in Nat, x < k + 1, x <= n, x <= m PROVE f[x] = g[x]
    OBVIOUS
  <2>2. f[x] = shiftOf(f, x) /\ g[x] = shiftOf(g, x)
    BY <2>1 DEF isShift
  <2>3. ASSUME x > 0 PROVE f[x \div 2] = g[x \div 2]
    <3>1. x \div 2 \in Nat /\ x \div 2 < x
      BY <2>3, Halves
    <3>. QED BY <1>2, <2>1, <3>1
  <2>. QED BY <2>2, <2>3, ShiftSame
<1>. HIDE DEF T
<1>3. \A k \in Nat : k \in T
  BY <1>1, <1>2, Induction
<1>4. SUFFICES ASSUME NEW x \in Nat, x <= n, x <= m PROVE f[x] = g[x]
  OBVIOUS
<1>5. x + 1 \in T /\ x < x + 1
  BY <1>3
<1>. QED BY <1>4, <1>5 DEF T

LEMMA ShiftDef ==
    \A x \in Nat : shiftWhile[x] = shiftOf(shiftWhile, x)
<1>. DEFINE part(n) == CHOOSE f : isShift(f, n)
            F == [x \in Nat |-> part(x)[x]]
<1>1. \A n \in Nat : isShift(part(n), n)
  BY ShiftExists
<1>2. \A n, m \in Nat : \A x \in Nat : x <= n /\ x <= m => part(n)[x] = part(m)[x]
  <2>. HIDE DEF part
  <2>. QED BY <1>1, ShiftUnique
<1>. HIDE DEF part
<1>3. \A x \in Nat : F[x] = part(x)[x]
  OBVIOUS
<1>4. F = [x \in Nat |-> F[x]]
  OBVIOUS
<1>. HIDE DEF F
<1>5. ASSUME NEW x \in Nat PROVE F[x] = shiftOf(F, x)
  <2>1. F[x] = shiftOf(part(x), x)
    BY <1>1, <1>3 DEF isShift
  <2>2. ASSUME x > 0 PROVE part(x)[x \div 2] = F[x \div 2]
    <3>1. x \div 2 \in Nat /\ x \div 2 <= x
      BY <2>2, Halves
    <3>. QED BY <1>2, <1>3, <3>1
  <2>3. shiftOf(part(x), x) = shiftOf(F, x)
    BY <2>2, ShiftSame
  <2>. QED BY <2>1, <2>3
<1>6. F = [x \in Nat |-> shiftOf(F, x)]
  BY <1>4, <1>5
<1>7. shiftWhile = [x \in Nat |-> shiftOf(shiftWhile, x)]
  BY <1>6 DEF shiftWhile, shiftOf
<1>. QED BY <1>7

\* A turn of an inner loop, and its end.
LEMMA ShiftStep ==
    ASSUME NEW fn \in Nat, NEW sn \in Nat, NEW bit \in 0..1
    PROVE  /\ fn > 0 /\ fn % 2 = bit
                => shiftWhile[fn][sn][bit] = shiftWhile[fn \div 2][sn \div 2][bit]
           /\ ~(fn > 0 /\ fn % 2 = bit) => shiftWhile[fn][sn][bit] = [fn |-> fn, sn |-> sn]
<1>1. shiftWhile[fn][sn][bit] =
        IF fn > 0 /\ fn % 2 = bit THEN shiftWhile[fn \div 2][sn \div 2][bit]
        ELSE [fn |-> fn, sn |-> sn]
  <2>1. shiftWhile[fn] = shiftOf(shiftWhile, fn)
    BY ShiftDef
  <2>2. shiftOf(shiftWhile, fn)[sn][bit] =
          IF fn > 0 /\ fn % 2 = bit THEN shiftWhile[fn \div 2][sn \div 2][bit]
          ELSE [fn |-> fn, sn |-> sn]
    BY Zenon DEF shiftOf
  <2>. QED BY <2>1, <2>2, Zenon
<1>. QED BY <1>1, Zenon

----------------------------------------------------------------------------
\* The root of a leaf, and of a tree of two parts.
LEMMA RootStep ==
    ASSUME NEW l \in Seq(Leaf)
    PROVE  /\ Len(l) = 1 => merkle_root[l] = l[1]
           /\ Len(l) >= 2 =>
                merkle_root[l] =
                  node_digest(merkle_root[firstPart(l)], merkle_root[secondPart(l)])
<1>1. merkle_root[l] = rootOf(merkle_root, l)
  BY RootDef
<1>2. Len(l) >= 2 => Len(l) # 0 /\ Len(l) # 1
  BY Sizes
<1>3. Len(l) = 1 => Len(l) # 0
  OBVIOUS
<1>. QED BY <1>1, <1>2, <1>3, Zenon DEF rootOf

LEMMA InclusionStep ==
    ASSUME NEW l \in Seq(Leaf), NEW i \in 0..(Len(l) - 1)
    PROVE  /\ Len(l) = 1 => inclusion_proof[l][i] = << >>
           /\ Len(l) >= 2 /\ i < _split(Len(l)) =>
                inclusion_proof[l][i] =
                  Append(inclusion_proof[firstPart(l)][i], merkle_root[secondPart(l)])
           /\ Len(l) >= 2 /\ ~(i < _split(Len(l))) =>
                inclusion_proof[l][i] =
                  Append(inclusion_proof[secondPart(l)][i - _split(Len(l))],
                         merkle_root[firstPart(l)])
<1>1. inclusion_proof[l][i] = inclusionOf(inclusion_proof, l)[i]
  BY InclusionDef
<1>2. Len(l) >= 2 => Len(l) # 1
  BY Sizes
<1>. QED BY <1>1, <1>2, Zenon DEF inclusionOf

LEMMA SubproofStep ==
    ASSUME NEW l \in Seq(Leaf), NEW m \in 1..Len(l), NEW complete \in BOOLEAN
    PROVE  /\ m = Len(l) => subproof[l][m][complete] =
                              IF complete THEN << >> ELSE <<merkle_root[l]>>
           /\ m # Len(l) /\ m <= _split(Len(l)) =>
                subproof[l][m][complete] =
                  Append(subproof[firstPart(l)][m][complete], merkle_root[secondPart(l)])
           /\ m # Len(l) /\ ~(m <= _split(Len(l))) =>
                subproof[l][m][complete] =
                  Append(subproof[secondPart(l)][m - _split(Len(l))][FALSE],
                         merkle_root[firstPart(l)])
<1>1. subproof[l][m][complete] = subproofOf(subproof, l)[m][complete]
  BY SubproofDef
<1>. QED BY <1>1, Zenon DEF subproofOf

----------------------------------------------------------------------------
(***************************************************************************)
(* The root determines the leaves.                                         *)
(***************************************************************************)
LEMMA PartsDetermine ==
    ASSUME NEW l \in Seq(Leaf), NEW m \in Seq(Leaf), Len(l) >= 2, Len(m) = Len(l),
           firstPart(l) = firstPart(m), secondPart(l) = secondPart(m)
    PROVE  l = m
<1>. DEFINE s == _split(Len(l))
            n == Len(l)
<1>1. s \in 1..(n - 1) /\ n \in Nat
  BY Parts
<1>2. /\ \A i \in 1..s : firstPart(l)[i] = l[i] /\ firstPart(m)[i] = m[i]
      /\ \A i \in 1..(n - s) : secondPart(l)[i] = l[s + i] /\ secondPart(m)[i] = m[s + i]
  BY Parts
<1>. HIDE DEF s
<1>3. ASSUME NEW i \in 1..n PROVE l[i] = m[i]
  <2>1. CASE i <= s
    <3>1. i \in 1..s
      BY <1>1, <2>1
    <3>. QED BY <1>2, <3>1
  <2>2. CASE i > s
    <3>1. i - s \in 1..(n - s) /\ s + (i - s) = i
      BY <1>1, <2>2
    <3>2. secondPart(l)[i - s] = l[i] /\ secondPart(m)[i - s] = m[i]
      BY <1>2, <3>1
    <3>. QED BY <3>2
  <2>. QED BY <1>1, <2>1, <2>2
<1>. QED BY <1>3

LEMMA NodeInjective ==
    ASSUME NEW a, NEW b, NEW c, NEW d
    PROVE  node_digest(a, b) = node_digest(c, d) <=> a = c /\ b = d
BY DEF node_digest

\* Of two logs of one size, the roots are equal only if the logs are: no other history of
\* the same length has the root a consumer accepted (merkle_root).
THEOREM RootDeterminesLeaves ==
    ASSUME NEW l \in Seq(Leaf), NEW m \in Seq(Leaf), Len(l) = Len(m),
           merkle_root[l] = merkle_root[m]
    PROVE  l = m
<1>. DEFINE T == {n \in Nat : \A a, b \in Seq(Leaf) :
                     /\ Len(a) < n /\ Len(b) = Len(a)
                     /\ merkle_root[a] = merkle_root[b]
                     => a = b}
<1>1. 0 \in T
  OBVIOUS
<1>2. ASSUME NEW n \in Nat, n \in T PROVE n + 1 \in T
  <2>1. SUFFICES ASSUME NEW a \in Seq(Leaf), NEW b \in Seq(Leaf), Len(a) < n + 1,
                        Len(b) = Len(a), merkle_root[a] = merkle_root[b]
                 PROVE  a = b
    OBVIOUS
  <2>2. CASE Len(a) = 0
    BY <2>1, <2>2
  <2>3. CASE Len(a) = 1
    <3>1. a[1] = b[1]
      BY <2>1, <2>3, RootStep
    <3>. QED BY <2>1, <2>3, <3>1
  <2>4. CASE Len(a) >= 2
    <3>1. /\ firstPart(a) \in Seq(Leaf) /\ Len(firstPart(a)) < n
          /\ secondPart(a) \in Seq(Leaf) /\ Len(secondPart(a)) < n
          /\ firstPart(b) \in Seq(Leaf) /\ Len(firstPart(b)) = Len(firstPart(a))
          /\ secondPart(b) \in Seq(Leaf) /\ Len(secondPart(b)) = Len(secondPart(a))
      BY <2>1, <2>4, Parts
    <3>2. /\ merkle_root[firstPart(a)] = merkle_root[firstPart(b)]
          /\ merkle_root[secondPart(a)] = merkle_root[secondPart(b)]
      <4>1. Len(b) >= 2
        BY <2>1, <2>4
      <4>2. node_digest(merkle_root[firstPart(a)], merkle_root[secondPart(a)])
              = node_digest(merkle_root[firstPart(b)], merkle_root[secondPart(b)])
        BY <2>1, <2>4, <4>1, RootStep
      <4>. QED BY <4>2, NodeInjective
    <3>3. firstPart(a) = firstPart(b) /\ secondPart(a) = secondPart(b)
      BY <1>2, <3>1, <3>2
    <3>. QED BY <2>1, <2>4, <3>3, PartsDetermine
  <2>. QED BY <2>2, <2>3, <2>4, Sizes
<1>. HIDE DEF T
<1>3. \A n \in Nat : n \in T
  BY <1>1, <1>2, Induction
<1>4. Len(l) + 1 \in T /\ Len(l) < Len(l) + 1
  BY <1>3
<1>. QED BY <1>4 DEF T

----------------------------------------------------------------------------
(***************************************************************************)
(* Paths: sequences of roots, of which a part of the tree takes the first. *)
(***************************************************************************)
Roots == {merkle_root[l] : l \in Seq(Leaf)}

Begins(path, p) == Len(p) <= Len(path) /\ \A j \in 1..Len(p) : path[j] = p[j]

LEMMA BeginsAppend ==
    ASSUME NEW p \in Seq(Roots), NEW r \in Roots, NEW path \in Seq(Roots),
           Begins(path, Append(p, r))
    PROVE  /\ Append(p, r) \in Seq(Roots) /\ Len(Append(p, r)) = Len(p) + 1
           /\ Begins(path, p) /\ path[Len(p) + 1] = r /\ Len(p) + 1 \in 1..Len(path)
<1>1. /\ Append(p, r) \in Seq(Roots) /\ Len(Append(p, r)) = Len(p) + 1 /\ Len(p) \in Nat
      /\ Append(p, r)[Len(p) + 1] = r /\ \A j \in 1..Len(p) : Append(p, r)[j] = p[j]
  OBVIOUS
<1>2. Len(path) \in Nat /\ Len(p) + 1 <= Len(path)
      /\ \A j \in 1..(Len(p) + 1) : path[j] = Append(p, r)[j]
  BY <1>1 DEF Begins
<1>. QED BY <1>1, <1>2 DEF Begins

LEMMA InclusionIsPath ==
    \A l \in Seq(Leaf) : \A i \in 0..(Len(l) - 1) : inclusion_proof[l][i] \in Seq(Roots)
<1>. DEFINE T == {n \in Nat : \A l \in Seq(Leaf) : Len(l) < n =>
                     \A i \in 0..(Len(l) - 1) : inclusion_proof[l][i] \in Seq(Roots)}
<1>1. 0 \in T
  OBVIOUS
<1>2. ASSUME NEW n \in Nat, n \in T PROVE n + 1 \in T
  <2>1. SUFFICES ASSUME NEW l \in Seq(Leaf), Len(l) < n + 1, NEW i \in 0..(Len(l) - 1)
                 PROVE  inclusion_proof[l][i] \in Seq(Roots)
    OBVIOUS
  <2>2. CASE Len(l) = 0
    BY <2>2
  <2>3. CASE Len(l) = 1
    <3>1. inclusion_proof[l][i] = << >>
      BY <2>3, InclusionStep
    <3>. QED BY <3>1
  <2>4. CASE Len(l) >= 2
    <3>. DEFINE s == _split(Len(l))
    <3>1. /\ firstPart(l) \in Seq(Leaf) /\ Len(firstPart(l)) = s /\ Len(firstPart(l)) < n
          /\ secondPart(l) \in Seq(Leaf) /\ Len(secondPart(l)) = Len(l) - s
          /\ Len(secondPart(l)) < n /\ s \in 1..(Len(l) - 1)
      BY <2>1, <2>4, Parts
    <3>2. merkle_root[firstPart(l)] \in Roots /\ merkle_root[secondPart(l)] \in Roots
      BY <3>1 DEF Roots
    <3>3. CASE i < s
      <4>1. inclusion_proof[firstPart(l)][i] \in Seq(Roots)
        BY <1>2, <3>1, <3>3
      <4>2. inclusion_proof[l][i] = Append(inclusion_proof[firstPart(l)][i],
                                           merkle_root[secondPart(l)])
        BY <2>4, <3>3, InclusionStep
      <4>. QED BY <3>2, <4>1, <4>2
    <3>4. CASE ~(i < s)
      <4>1. inclusion_proof[secondPart(l)][i - s] \in Seq(Roots)
        BY <1>2, <3>1, <3>4
      <4>2. inclusion_proof[l][i] = Append(inclusion_proof[secondPart(l)][i - s],
                                           merkle_root[firstPart(l)])
        BY <2>4, <3>4, InclusionStep
      <4>. QED BY <3>2, <4>1, <4>2
    <3>. QED BY <3>3, <3>4
  <2>. QED BY <2>2, <2>3, <2>4, Sizes
<1>. HIDE DEF T
<1>3. \A n \in Nat : n \in T
  BY <1>1, <1>2, Induction
<1>4. SUFFICES ASSUME NEW l \in Seq(Leaf)
               PROVE \A i \in 0..(Len(l) - 1) : inclusion_proof[l][i] \in Seq(Roots)
  OBVIOUS
<1>5. Len(l) + 1 \in T /\ Len(l) < Len(l) + 1
  BY <1>3
<1>. QED BY <1>5 DEF T

LEMMA AppendPath ==
    \A p \in Seq(Roots), r \in Roots : Append(p, r) \in Seq(Roots)
OBVIOUS

LEMMA SubproofIsPath ==
    \A l \in Seq(Leaf) : \A m \in 1..Len(l), complete \in BOOLEAN :
        subproof[l][m][complete] \in Seq(Roots)
<1>. DEFINE T == {n \in Nat : \A l \in Seq(Leaf) : Len(l) < n =>
                     \A m \in 1..Len(l), complete \in BOOLEAN :
                        subproof[l][m][complete] \in Seq(Roots)}
<1>1. 0 \in T
  OBVIOUS
<1>2. ASSUME NEW n \in Nat, n \in T PROVE n + 1 \in T
  <2>1. SUFFICES ASSUME NEW l \in Seq(Leaf), Len(l) < n + 1, NEW m \in 1..Len(l),
                        NEW complete \in BOOLEAN
                 PROVE  subproof[l][m][complete] \in Seq(Roots)
    OBVIOUS
  <2>. DEFINE s == _split(Len(l))
  <2>2. CASE m = Len(l)
    <3>1. subproof[l][m][complete] = IF complete THEN << >> ELSE <<merkle_root[l]>>
      BY <2>2, SubproofStep
    <3>2. merkle_root[l] \in Roots
      BY DEF Roots
    <3>. QED BY <3>1, <3>2
  <2>3. CASE m # Len(l)
    <3>1. Len(l) >= 2
      BY <2>3
    <3>2. /\ firstPart(l) \in Seq(Leaf) /\ Len(firstPart(l)) = s /\ Len(firstPart(l)) < n
          /\ secondPart(l) \in Seq(Leaf) /\ Len(secondPart(l)) = Len(l) - s
          /\ Len(secondPart(l)) < n /\ s \in 1..(Len(l) - 1)
      BY <2>1, <3>1, Parts
    <3>3. merkle_root[firstPart(l)] \in Roots /\ merkle_root[secondPart(l)] \in Roots
      BY <3>2 DEF Roots
    <3>4. CASE m <= s
      <4>1. subproof[firstPart(l)][m][complete] \in Seq(Roots)
        <5>1. m \in 1..Len(firstPart(l))
          BY <3>2, <3>4
        <5>. QED BY <1>2, <3>2, <5>1
      <4>2. subproof[l][m][complete] =
              Append(subproof[firstPart(l)][m][complete], merkle_root[secondPart(l)])
        BY <2>3, <3>4, SubproofStep
      <4>. QED BY <3>3, <4>1, <4>2, AppendPath, Zenon
    <3>5. CASE ~(m <= s)
      <4>1. subproof[secondPart(l)][m - s][FALSE] \in Seq(Roots)
        <5>1. m - s \in 1..Len(secondPart(l))
          BY <3>2, <3>5
        <5>. QED BY <1>2, <3>2, <5>1
      <4>2. subproof[l][m][complete] =
              Append(subproof[secondPart(l)][m - s][FALSE], merkle_root[firstPart(l)])
        BY <2>3, <3>5, SubproofStep
      <4>. QED BY <3>3, <4>1, <4>2, AppendPath, Zenon
    <3>. QED BY <3>4, <3>5
  <2>. QED BY <2>2, <2>3
<1>. HIDE DEF T
<1>3. \A n \in Nat : n \in T
  BY <1>1, <1>2, Induction
<1>4. SUFFICES ASSUME NEW l \in Seq(Leaf)
               PROVE \A m \in 1..Len(l), complete \in BOOLEAN :
                        subproof[l][m][complete] \in Seq(Roots)
  OBVIOUS
<1>5. Len(l) + 1 \in T /\ Len(l) < Len(l) + 1
  BY <1>3
<1>. QED BY <1>5 DEF T

LEMMA SubproofNotEmpty ==
    ASSUME NEW l \in Seq(Leaf), NEW m \in 1..Len(l)
    PROVE  Len(subproof[l][m][FALSE]) \in Nat /\ Len(subproof[l][m][FALSE]) > 0
<1>. DEFINE s == _split(Len(l))
            p == subproof[l][m][FALSE]
<1>1. \A q \in Seq(Roots), r \in Roots : Len(Append(q, r)) > 0
  OBVIOUS
<1>2. p \in Seq(Roots) /\ FALSE \in BOOLEAN
  BY SubproofIsPath
<1>3. CASE m = Len(l)
  <2>1. p = <<merkle_root[l]>>
    BY <1>2, <1>3, SubproofStep
  <2>. HIDE DEF p
  <2>2. Len(p) = 1
    BY <2>1
  <2>. QED BY <2>2 DEF p
<1>4. CASE m # Len(l) /\ m <= s
  <2>1. Len(l) >= 2
    BY <1>4
  <2>2. firstPart(l) \in Seq(Leaf) /\ m \in 1..Len(firstPart(l)) /\ secondPart(l) \in Seq(Leaf)
    BY <1>4, <2>1, Parts
  <2>3. subproof[firstPart(l)][m][FALSE] \in Seq(Roots) /\ merkle_root[secondPart(l)] \in Roots
    BY <2>2, SubproofIsPath DEF Roots
  <2>4. p = Append(subproof[firstPart(l)][m][FALSE], merkle_root[secondPart(l)])
    BY <1>4, SubproofStep
  <2>. HIDE DEF p
  <2>5. Len(p) > 0
    BY <1>1, <2>3, <2>4
  <2>6. Len(p) \in Nat
    BY <1>2
  <2>. QED BY <2>5, <2>6 DEF p
<1>5. CASE m # Len(l) /\ ~(m <= s)
  <2>1. Len(l) >= 2
    BY <1>5
  <2>2. /\ secondPart(l) \in Seq(Leaf) /\ m - s \in 1..Len(secondPart(l))
        /\ firstPart(l) \in Seq(Leaf)
    BY <1>5, <2>1, Parts
  <2>3. /\ subproof[secondPart(l)][m - s][FALSE] \in Seq(Roots)
        /\ merkle_root[firstPart(l)] \in Roots
    BY <2>2, SubproofIsPath DEF Roots
  <2>4. p = Append(subproof[secondPart(l)][m - s][FALSE], merkle_root[firstPart(l)])
    BY <1>5, SubproofStep
  <2>. HIDE DEF p
  <2>5. Len(p) > 0
    BY <1>1, <2>3, <2>4
  <2>6. Len(p) \in Nat
    BY <1>2
  <2>. QED BY <2>5, <2>6 DEF p
<1>. QED BY <1>3, <1>4, <1>5

----------------------------------------------------------------------------
(***************************************************************************)
(* Inclusion.                                                              *)
(***************************************************************************)
AllLeft(X, sibling) == {node_digest(n, sibling) : n \in X}
AllRight(sibling, X) == {node_digest(sibling, n) : n \in X}

rebuildOf(leaf, path, before, nodes) ==
    [size \in Nat |-> [index \in Nat |->
        IF size = 1 THEN IF nodes = 0 THEN {leaf} ELSE {}
        ELSE IF nodes = 0 THEN {}
        ELSE LET split == _split(size)
                 sibling == path[nodes]
             IN IF index < split
                THEN AllLeft(before[split][index], sibling)
                ELSE AllRight(sibling, before[size - split][index - split])]]

LEMMA RebuildDef ==
    ASSUME NEW leaf, NEW path, Len(path) \in Nat
    PROVE  rebuild(leaf, path) =
             [i \in 0..Len(path) |-> rebuildOf(leaf, path, rebuild(leaf, path)[i - 1], i)]
<1>. DEFINE IsWay(g, m) == g = [i \in 0..m |-> rebuildOf(leaf, path, g[i - 1], i)]
            T == {m \in Nat : \E g : IsWay(g, m)}
<1>1. \A x, y : rebuildOf(leaf, path, x, 0) = rebuildOf(leaf, path, y, 0)
  BY DEF rebuildOf
<1>2. 0 \in T
  <2>. DEFINE g == [i \in 0..0 |-> rebuildOf(leaf, path, << >>, 0)]
  <2>1. \A i \in 0..0 : g[i] = rebuildOf(leaf, path, g[i - 1], i)
    BY <1>1
  <2>2. g = [i \in 0..0 |-> g[i]]
    OBVIOUS
  <2>3. IsWay(g, 0)
    <3>. HIDE DEF g
    <3>. QED BY <2>1, <2>2
  <2>. HIDE DEF IsWay
  <2>. QED BY <2>3
<1>3. ASSUME NEW m \in Nat, m \in T PROVE m + 1 \in T
  <2>1. PICK g : IsWay(g, m)
    BY <1>3
  <2>. DEFINE h == [i \in 0..(m + 1) |->
                      IF i <= m THEN g[i] ELSE rebuildOf(leaf, path, g[m], i)]
  <2>2. \A i \in 0..m : g[i] = rebuildOf(leaf, path, g[i - 1], i)
    BY <2>1
  <2>3. ASSUME NEW i \in 0..(m + 1) PROVE h[i] = rebuildOf(leaf, path, h[i - 1], i)
    <3>1. CASE i = 0
      BY <1>1, <2>2, <3>1
    <3>2. CASE i \in 1..m
      <4>1. h[i] = g[i] /\ h[i - 1] = g[i - 1] /\ i \in 0..m
        BY <3>2
      <4>. QED BY <2>2, <4>1
    <3>3. CASE i = m + 1
      <4>1. h[i] = rebuildOf(leaf, path, g[m], i) /\ i - 1 = m /\ h[m] = g[m]
        BY <3>3
      <4>. QED BY <4>1
    <3>. QED BY <3>1, <3>2, <3>3
  <2>4. h = [i \in 0..(m + 1) |-> h[i]]
    OBVIOUS
  <2>5. IsWay(h, m + 1)
    <3>. HIDE DEF h
    <3>. QED BY <2>3, <2>4
  <2>. HIDE DEF IsWay
  <2>. QED BY <2>5
<1>. HIDE DEF T
<1>4. Len(path) \in T
  BY <1>2, <1>3, Induction
<1>. QED BY <1>4 DEF T, rebuild, rebuildOf, AllLeft, AllRight

\* The roots that the first i nodes of a path lead to.
From(leaf, path, i, size, index) == rebuild(leaf, path)[i][size][index]

LEMMA RebuildLeaf ==
    ASSUME NEW leaf, NEW path, Len(path) \in Nat
    PROVE  From(leaf, path, 0, 1, 0) = {leaf}
<1>. DEFINE R == rebuild(leaf, path)
<1>1. R = [i \in 0..Len(path) |-> rebuildOf(leaf, path, R[i - 1], i)]
  BY RebuildDef
<1>. HIDE DEF R
<1>2. R[0] = rebuildOf(leaf, path, R[0 - 1], 0)
  BY <1>1
<1>3. ASSUME NEW before PROVE rebuildOf(leaf, path, before, 0)[1][0] = {leaf}
  BY DEF rebuildOf
<1>. QED BY <1>2, <1>3 DEF R, From

LEMMA RebuildNode ==
    ASSUME NEW leaf, NEW path, Len(path) \in Nat, NEW size \in Nat, NEW index \in Nat,
           NEW i \in Nat, i + 1 <= Len(path), size >= 2
    PROVE  /\ index < _split(size) =>
                From(leaf, path, i + 1, size, index) =
                  AllLeft(From(leaf, path, i, _split(size), index), path[i + 1])
           /\ ~(index < _split(size)) =>
                From(leaf, path, i + 1, size, index) =
                  AllRight(path[i + 1],
                           From(leaf, path, i, size - _split(size), index - _split(size)))
<1>. DEFINE R == rebuild(leaf, path)
<1>1. R = [j \in 0..Len(path) |-> rebuildOf(leaf, path, R[j - 1], j)]
  BY RebuildDef
<1>. HIDE DEF R
<1>2. i + 1 \in 0..Len(path) /\ i + 1 # 0 /\ (i + 1) - 1 = i /\ size # 1
  OBVIOUS
<1>3. R[i + 1] = rebuildOf(leaf, path, R[i], i + 1)
  BY <1>1, <1>2
<1>4. ASSUME NEW before, NEW j, j # 0
      PROVE  rebuildOf(leaf, path, before, j)[size][index] =
               IF index < _split(size)
               THEN AllLeft(before[_split(size)][index], path[j])
               ELSE AllRight(path[j], before[size - _split(size)][index - _split(size)])
  BY <1>2, <1>4, Zenon DEF rebuildOf
<1>5. R[i + 1][size][index] =
        IF index < _split(size)
        THEN AllLeft(R[i][_split(size)][index], path[i + 1])
        ELSE AllRight(path[i + 1], R[i][size - _split(size)][index - _split(size)])
  BY <1>2, <1>3, <1>4
<1>. QED BY <1>5 DEF R, From

LEMMA OfOne ==
    ASSUME NEW r, NEW d
    PROVE  AllLeft({r}, d) = {node_digest(r, d)} /\ AllRight(d, {r}) = {node_digest(d, r)}
BY DEF AllLeft, AllRight

\* From the leaf at an index of a tree and a path that begins with the leaf's, there is one
\* way up, to the root of the tree if the leaf is the tree's, and else to another root.
Leads(leaf, path, l, i) ==
    \E r : /\ From(leaf, path, Len(inclusion_proof[l][i]), Len(l), i) = {r}
           /\ r = merkle_root[l] <=> leaf = l[i + 1]

LEMMA InclusionLeads ==
    ASSUME NEW leaf, NEW path \in Seq(Roots)
    PROVE  \A n \in Nat : \A l \in Seq(Leaf) : Len(l) < n =>
              \A i \in 0..(Len(l) - 1) :
                 Begins(path, inclusion_proof[l][i]) => Leads(leaf, path, l, i)
<1>. DEFINE T == {n \in Nat : \A l \in Seq(Leaf) : Len(l) < n =>
                     \A i \in 0..(Len(l) - 1) :
                        Begins(path, inclusion_proof[l][i]) => Leads(leaf, path, l, i)}
<1>0. Len(path) \in Nat
  OBVIOUS
<1>1. 0 \in T
  OBVIOUS
<1>2. ASSUME NEW n \in Nat, n \in T PROVE n + 1 \in T
  <2>1. SUFFICES ASSUME NEW l \in Seq(Leaf), Len(l) < n + 1, NEW i \in 0..(Len(l) - 1),
                        Begins(path, inclusion_proof[l][i])
                 PROVE  Leads(leaf, path, l, i)
    OBVIOUS
  <2>. DEFINE s == _split(Len(l))
              first == firstPart(l)
              second == secondPart(l)
  <2>2. CASE Len(l) = 1
    <3>0. i = 0
      BY <2>2
    <3>1. inclusion_proof[l][i] = << >> /\ merkle_root[l] = l[1]
      BY <2>2, InclusionStep, RootStep, Zenon
    <3>2. From(leaf, path, 0, 1, 0) = {leaf}
      BY <1>0, RebuildLeaf
    <3>3. Len(<< >>) = 0 /\ i + 1 = 1
      BY <3>0
    <3>. QED BY <2>2, <3>0, <3>1, <3>2, <3>3, Zenon DEF Leads
  <2>3. CASE Len(l) >= 2
    <3>1. /\ first \in Seq(Leaf) /\ Len(first) = s /\ Len(first) < n
          /\ second \in Seq(Leaf) /\ Len(second) = Len(l) - s /\ Len(second) < n
          /\ s \in 1..(Len(l) - 1)
          /\ \A j \in 1..s : first[j] = l[j]
          /\ \A j \in 1..(Len(l) - s) : second[j] = l[s + j]
      BY <2>1, <2>3, Parts
    <3>2. /\ merkle_root[first] \in Roots /\ merkle_root[second] \in Roots
          /\ merkle_root[l] = node_digest(merkle_root[first], merkle_root[second])
      BY <2>3, <3>1, RootStep DEF Roots
    <3>3. CASE i < s
      <4>. DEFINE p == inclusion_proof[first][i]
      <4>1. i \in 0..(Len(first) - 1) /\ first[i + 1] = l[i + 1]
        BY <3>1, <3>3
      <4>2. p \in Seq(Roots)
        BY <3>1, <4>1, InclusionIsPath
      <4>3. inclusion_proof[l][i] = Append(p, merkle_root[second])
        BY <2>3, <3>3, InclusionStep
      <4>. HIDE DEF p
      <4>4. /\ Len(inclusion_proof[l][i]) = Len(p) + 1 /\ Begins(path, p)
            /\ path[Len(p) + 1] = merkle_root[second] /\ Len(p) + 1 \in 1..Len(path)
        BY <2>1, <3>2, <4>2, <4>3, BeginsAppend
      <4>5. PICK r : /\ From(leaf, path, Len(p), s, i) = {r}
                     /\ r = merkle_root[first] <=> leaf = l[i + 1]
        <5>1. Leads(leaf, path, first, i)
          BY <1>2, <3>1, <4>1, <4>4 DEF p
        <5>. QED BY <3>1, <4>1, <5>1 DEF Leads, p
      <4>6. From(leaf, path, Len(p) + 1, Len(l), i) = {node_digest(r, merkle_root[second])}
        <5>1. Len(l) \in Nat /\ i \in Nat /\ Len(p) \in Nat /\ Len(p) + 1 <= Len(path)
          BY <4>2, <4>4
        <5>2. From(leaf, path, Len(p) + 1, Len(l), i) =
                AllLeft(From(leaf, path, Len(p), s, i), path[Len(p) + 1])
          BY <1>0, <2>3, <3>3, <5>1, RebuildNode
        <5>3. From(leaf, path, Len(p) + 1, Len(l), i) = AllLeft({r}, merkle_root[second])
          BY <4>4, <4>5, <5>2
        <5>. QED BY <5>3, OfOne
      <4>7. node_digest(r, merkle_root[second]) = merkle_root[l] <=> leaf = l[i + 1]
        BY <3>2, <4>5, NodeInjective
      <4>. QED BY <4>4, <4>6, <4>7 DEF Leads
    <3>4. CASE ~(i < s)
      <4>. DEFINE p == inclusion_proof[second][i - s]
      <4>1. i - s \in 0..(Len(second) - 1) /\ second[(i - s) + 1] = l[i + 1]
        <5>1. (i - s) + 1 \in 1..(Len(l) - s) /\ s + ((i - s) + 1) = i + 1
          BY <3>1, <3>4
        <5>2. i - s \in 0..(Len(second) - 1)
          <6>. HIDE DEF s, second
          <6>. QED BY <3>1, <3>4
        <5>3. second[(i - s) + 1] = l[i + 1]
          <6>1. second[(i - s) + 1] = l[s + ((i - s) + 1)]
            <7>. HIDE DEF s, second
            <7>. QED BY <3>1, <5>1
          <6>. QED BY <5>1, <6>1
        <5>. QED BY <5>2, <5>3
      <4>2. p \in Seq(Roots)
        BY <3>1, <4>1, InclusionIsPath
      <4>3. inclusion_proof[l][i] = Append(p, merkle_root[first])
        BY <2>3, <3>4, InclusionStep
      <4>. HIDE DEF p
      <4>4. /\ Len(inclusion_proof[l][i]) = Len(p) + 1 /\ Begins(path, p)
            /\ path[Len(p) + 1] = merkle_root[first] /\ Len(p) + 1 \in 1..Len(path)
        BY <2>1, <3>2, <4>2, <4>3, BeginsAppend
      <4>5. PICK r : /\ From(leaf, path, Len(p), Len(l) - s, i - s) = {r}
                     /\ r = merkle_root[second] <=> leaf = l[i + 1]
        <5>1. Leads(leaf, path, second, i - s)
          BY <1>2, <3>1, <4>1, <4>4 DEF p
        <5>. QED BY <3>1, <4>1, <5>1 DEF Leads, p
      <4>6. From(leaf, path, Len(p) + 1, Len(l), i) = {node_digest(merkle_root[first], r)}
        <5>1. Len(l) \in Nat /\ i \in Nat /\ Len(p) \in Nat /\ Len(p) + 1 <= Len(path)
          BY <4>2, <4>4
        <5>2. From(leaf, path, Len(p) + 1, Len(l), i) =
                AllRight(path[Len(p) + 1], From(leaf, path, Len(p), Len(l) - s, i - s))
          BY <1>0, <2>3, <3>4, <5>1, RebuildNode
        <5>. QED BY <4>4, <4>5, <5>2, OfOne
      <4>7. node_digest(merkle_root[first], r) = merkle_root[l] <=> leaf = l[i + 1]
        BY <3>2, <4>5, NodeInjective
      <4>. QED BY <4>4, <4>6, <4>7 DEF Leads
    <3>. QED BY <3>3, <3>4
  <2>4. Len(l) # 0
    OBVIOUS
  <2>. QED BY <2>2, <2>3, <2>4, Sizes
<1>. HIDE DEF T
<1>3. \A n \in Nat : n \in T
  BY <1>1, <1>2, Induction
<1>. QED BY <1>3 DEF T

\* The proof of inclusion of an index of a log verifies for the leaf that is there, and for
\* no other (inclusion_proof, verify_inclusion).
THEOREM InclusionSound ==
    ASSUME NEW l \in Seq(Leaf), NEW i \in 0..(Len(l) - 1), NEW leaf
    PROVE  verify_inclusion(leaf, i, Len(l), inclusion_proof[l][i], merkle_root[l])
             <=> leaf = l[i + 1]
<1>. DEFINE p == inclusion_proof[l][i]
<1>1. p \in Seq(Roots)
  BY InclusionIsPath
<1>2. Begins(p, p)
  BY <1>1 DEF Begins
<1>3. Leads(leaf, p, l, i)
  <2>1. Len(l) + 1 \in Nat /\ Len(l) < Len(l) + 1
    OBVIOUS
  <2>. QED BY <1>1, <1>2, <2>1, InclusionLeads
<1>4. Len(l) > 0
  OBVIOUS
<1>. HIDE DEF p
<1>5. merkle_root[l] \in From(leaf, p, Len(p), Len(l), i) <=> leaf = l[i + 1]
  BY <1>3 DEF Leads, p
<1>. QED BY <1>4, <1>5 DEF verify_inclusion, From, p

LEMMA RebuildEnds ==
    ASSUME NEW leaf, NEW path, Len(path) \in Nat, NEW index \in Nat
    PROVE  /\ \A i \in 0..Len(path) : From(leaf, path, i, 1, index) \subseteq {leaf}
           /\ \A size \in Nat : size >= 2 => From(leaf, path, 0, size, index) = {}
<1>. DEFINE R == rebuild(leaf, path)
<1>1. R = [j \in 0..Len(path) |-> rebuildOf(leaf, path, R[j - 1], j)]
  BY RebuildDef
<1>. HIDE DEF R
<1>2. \A i \in 0..Len(path) : R[i] = rebuildOf(leaf, path, R[i - 1], i)
  BY <1>1
<1>3. ASSUME NEW before, NEW i
      PROVE  rebuildOf(leaf, path, before, i)[1][index] = IF i = 0 THEN {leaf} ELSE {}
  BY DEF rebuildOf
<1>4. ASSUME NEW before, NEW size \in Nat, size >= 2
      PROVE  rebuildOf(leaf, path, before, 0)[size][index] = {}
  <2>1. size # 1
    BY <1>4
  <2>. QED BY <2>1 DEF rebuildOf
<1>5. ASSUME NEW i \in 0..Len(path) PROVE From(leaf, path, i, 1, index) \subseteq {leaf}
  BY <1>2, <1>3 DEF From, R
<1>6. ASSUME NEW size \in Nat, size >= 2 PROVE From(leaf, path, 0, size, index) = {}
  <2>1. 0 \in 0..Len(path)
    OBVIOUS
  <2>. QED BY <1>2, <1>4, <1>6, <2>1 DEF From, R
<1>. QED BY <1>5, <1>6

LEMMA RootBinds ==
    ASSUME NEW leaf, NEW path, Len(path) \in Nat
    PROVE  \A n \in Nat : \A l \in Seq(Leaf) : Len(l) < n =>
              \A i \in 0..(Len(l) - 1), k \in 0..Len(path) :
                 merkle_root[l] \in From(leaf, path, k, Len(l), i) => leaf = l[i + 1]
<1>. DEFINE Q(l) == \A i \in 0..(Len(l) - 1), k \in 0..Len(path) :
                       merkle_root[l] \in From(leaf, path, k, Len(l), i) => leaf = l[i + 1]
            T == {n \in Nat : \A l \in Seq(Leaf) : Len(l) < n => Q(l)}
<1>1. 0 \in T
  <2>. HIDE DEF Q
  <2>. QED OBVIOUS
<1>2. ASSUME NEW n \in Nat, n \in T PROVE n + 1 \in T
  <2>0. SUFFICES ASSUME NEW l \in Seq(Leaf), Len(l) < n + 1 PROVE Q(l)
    <3>. HIDE DEF Q
    <3>. QED OBVIOUS
  <2>1. SUFFICES ASSUME NEW i \in 0..(Len(l) - 1), NEW k \in 0..Len(path),
                        merkle_root[l] \in From(leaf, path, k, Len(l), i)
                 PROVE  leaf = l[i + 1]
    OBVIOUS
  <2>2. Len(l) \in Nat /\ i \in Nat /\ i < Len(l)
    OBVIOUS
  <2>3. CASE Len(l) = 1
    <3>1. i = 0 /\ i + 1 = 1
      BY <2>2, <2>3
    <3>2. merkle_root[l] = l[1]
      BY <2>3, RootStep
    <3>3. From(leaf, path, k, 1, i) \subseteq {leaf}
      BY <2>2, RebuildEnds
    <3>. QED BY <2>1, <2>3, <3>1, <3>2, <3>3
  <2>4. CASE Len(l) >= 2
    <3>. DEFINE s == _split(Len(l))
                first == firstPart(l)
                second == secondPart(l)
                r == merkle_root[l]
    <3>1. k # 0
      BY <2>1, <2>2, <2>4, RebuildEnds
    <3>2. k - 1 \in 0..Len(path) /\ k - 1 \in Nat /\ (k - 1) + 1 = k /\ k <= Len(path)
      BY <3>1
    <3>3. /\ s \in 1..(Len(l) - 1)
          /\ first \in Seq(Leaf) /\ Len(first) = s
          /\ second \in Seq(Leaf) /\ Len(second) = Len(l) - s
          /\ \A j \in 1..s : first[j] = l[j]
          /\ \A j \in 1..(Len(l) - s) : second[j] = l[s + j]
      BY <2>4, Parts, Zenon
    <3>4. r = node_digest(merkle_root[first], merkle_root[second])
      BY <2>4, RootStep, Zenon
    <3>5. \A w \in Seq(Leaf) : Len(w) < n => Q(w)
      BY <1>2
    <3>6. CASE i < s
      <4>1. r \in AllLeft(From(leaf, path, k - 1, s, i), path[k])
        <5>1. From(leaf, path, (k - 1) + 1, Len(l), i)
                = AllLeft(From(leaf, path, k - 1, s, i), path[(k - 1) + 1])
          BY <2>2, <2>4, <3>2, <3>6, RebuildNode
        <5>. QED BY <2>1, <3>2, <5>1
      <4>2. merkle_root[first] \in From(leaf, path, k - 1, s, i)
        <5>. HIDE DEF r, first, second, s
        <5>1. PICK x \in From(leaf, path, k - 1, s, i) : r = node_digest(x, path[k])
          BY <4>1 DEF AllLeft
        <5>2. node_digest(x, path[k]) = node_digest(merkle_root[first], merkle_root[second])
          BY <3>4, <5>1, Zenon
        <5>3. x = merkle_root[first]
          <6>. DEFINE a == merkle_root[first]
                      b == merkle_root[second]
                      d == path[k]
          <6>1. node_digest(x, d) = node_digest(a, b)
            BY <5>2
          <6>. HIDE DEF a, b, d
          <6>2. x = a
            BY <6>1, NodeInjective
          <6>. QED BY <6>2 DEF a
        <5>. QED BY <5>3
      <4>. HIDE DEF first, second, s, r
      <4>3. i \in 0..(Len(first) - 1) /\ i + 1 \in 1..s /\ Len(first) < n
        BY <2>0, <2>2, <3>3, <3>6
      <4>4. leaf = first[i + 1]
        BY <3>2, <3>3, <3>5, <4>2, <4>3
      <4>. QED BY <3>3, <4>3, <4>4
    <3>7. CASE ~(i < s)
      <4>1. r \in AllRight(path[k], From(leaf, path, k - 1, Len(l) - s, i - s))
        <5>1. From(leaf, path, (k - 1) + 1, Len(l), i)
                = AllRight(path[(k - 1) + 1], From(leaf, path, k - 1, Len(l) - s, i - s))
          BY <2>2, <2>4, <3>2, <3>7, RebuildNode
        <5>. QED BY <2>1, <3>2, <5>1
      <4>2. merkle_root[second] \in From(leaf, path, k - 1, Len(l) - s, i - s)
        <5>. HIDE DEF r, first, second, s
        <5>1. PICK x \in From(leaf, path, k - 1, Len(l) - s, i - s) :
                r = node_digest(path[k], x)
          BY <4>1 DEF AllRight
        <5>2. node_digest(path[k], x) = node_digest(merkle_root[first], merkle_root[second])
          BY <3>4, <5>1, Zenon
        <5>3. x = merkle_root[second]
          <6>. DEFINE a == merkle_root[first]
                      b == merkle_root[second]
                      d == path[k]
          <6>1. node_digest(d, x) = node_digest(a, b)
            BY <5>2
          <6>. HIDE DEF a, b, d
          <6>2. x = b
            BY <6>1, NodeInjective
          <6>. QED BY <6>2 DEF b
        <5>. QED BY <5>3
      <4>. HIDE DEF first, second, s, r
      <4>3. /\ i - s \in 0..(Len(second) - 1) /\ (i - s) + 1 \in 1..(Len(l) - s)
            /\ s + ((i - s) + 1) = i + 1 /\ Len(second) < n
        BY <2>0, <2>2, <3>3, <3>7
      <4>4. leaf = second[(i - s) + 1]
        BY <3>2, <3>3, <3>5, <4>2, <4>3
      <4>5. second[(i - s) + 1] = l[s + ((i - s) + 1)]
        BY <3>3, <4>3
      <4>. QED BY <4>3, <4>4, <4>5
    <3>. QED BY <3>6, <3>7
  <2>5. Len(l) # 0
    BY <2>2
  <2>. QED BY <2>3, <2>4, <2>5, Sizes
<1>. HIDE DEF T
<1>3. \A n \in Nat : n \in T
  BY <1>1, <1>2, Induction
<1>. QED BY <1>3 DEF T

\* Whatever path is sent, of whatever length, no leaf verifies at an index but the leaf that
\* is there, and none outside the log (verify_inclusion).
THEOREM NoPathToAnotherLeaf ==
    ASSUME NEW l \in Seq(Leaf), NEW i, NEW leaf, NEW path, Len(path) \in Nat,
           verify_inclusion(leaf, i, Len(l), path, merkle_root[l])
    PROVE  i \in 0..(Len(l) - 1) /\ leaf = l[i + 1]
<1>1. i \in 0..(Len(l) - 1) /\ merkle_root[l] \in From(leaf, path, Len(path), Len(l), i)
  BY DEF verify_inclusion, From
<1>2. Len(l) + 1 \in Nat /\ Len(l) < Len(l) + 1 /\ Len(path) \in 0..Len(path)
  OBVIOUS
<1>. QED BY <1>1, <1>2, RootBinds

----------------------------------------------------------------------------
(***************************************************************************)
(* The inner loops of verify_consistency.                                  *)
(***************************************************************************)
LEMMA ShiftOne ==
    ASSUME NEW x \in Nat, NEW s \in Nat
    PROVE  shiftWhile[2 * x + 1][s][1] = shiftWhile[x][s \div 2][1]
<1>. DEFINE y == 2 * x + 1
<1>1. y \in Nat /\ y > 0 /\ y % 2 = 1 /\ y \div 2 = x /\ 1 \in 0..1
  BY Halves
<1>. HIDE DEF y
<1>2. shiftWhile[y][s][1] = shiftWhile[y \div 2][s \div 2][1]
  BY <1>1, ShiftStep
<1>. QED BY <1>1, <1>2 DEF y

LEMMA ShiftZero ==
    ASSUME NEW x \in Nat, x > 0
    PROVE  shiftWhile[2 * x][2 * x][0] = shiftWhile[x][x][0]
<1>. DEFINE y == 2 * x
<1>1. y \in Nat /\ y > 0 /\ y % 2 = 0 /\ y \div 2 = x /\ 0 \in 0..1
  BY Halves
<1>. HIDE DEF y
<1>2. shiftWhile[y][y][0] = shiftWhile[y \div 2][y \div 2][0]
  BY <1>1, ShiftStep
<1>. QED BY <1>1, <1>2 DEF y

LEMMA ShiftOdd ==
    ASSUME NEW x \in Nat, NEW s \in Nat, x % 2 = 1
    PROVE  shiftWhile[x][s][0] = [fn |-> x, sn |-> s]
<1>1. 0 \in 0..1 /\ ~(x % 2 = 0)
  OBVIOUS
<1>. QED BY <1>1, ShiftStep

\* All last bits of fn that are 1 are taken off: k of them, if the number above is even.
LEMMA ShiftOnes ==
    \A k \in Nat : \A h, g \in Nat : \A t \in 0..(pow2[k] - 1) :
        h % 2 = 0 => shiftWhile[h * pow2[k] + pow2[k] - 1][g * pow2[k] + t][1]
                       = [fn |-> h, sn |-> g]
<1>. DEFINE P(k) == \A h, g \in Nat : \A t \in 0..(pow2[k] - 1) :
                      h % 2 = 0 => shiftWhile[h * pow2[k] + pow2[k] - 1][g * pow2[k] + t][1]
                                     = [fn |-> h, sn |-> g]
            T == {k \in Nat : P(k)}
<1>1. 0 \in T
  <2>1. SUFFICES ASSUME NEW h \in Nat, NEW g \in Nat, NEW t \in 0..(pow2[0] - 1), h % 2 = 0
                 PROVE  shiftWhile[h * pow2[0] + pow2[0] - 1][g * pow2[0] + t][1]
                          = [fn |-> h, sn |-> g]
    OBVIOUS
  <2>2. pow2[0] = 1
    BY Pow2Step
  <2>3. h * pow2[0] + pow2[0] - 1 = h /\ g * pow2[0] + t = g
    BY <2>2
  <2>4. shiftWhile[h][g][1] = [fn |-> h, sn |-> g]
    BY <2>1, ShiftStep
  <2>. QED BY <2>3, <2>4
<1>2. ASSUME NEW k \in Nat, k \in T PROVE k + 1 \in T
  <2>1. SUFFICES ASSUME NEW h \in Nat, NEW g \in Nat, NEW t \in 0..(pow2[k + 1] - 1),
                        h % 2 = 0
                 PROVE  shiftWhile[h * pow2[k + 1] + pow2[k + 1] - 1]
                                  [g * pow2[k + 1] + t][1] = [fn |-> h, sn |-> g]
    OBVIOUS
  <2>. DEFINE p == pow2[k]
              x == h * p
              y == g * p
              u == t \div 2
  <2>2. p \in Nat /\ p > 0 /\ pow2[k + 1] = 2 * p
    BY Pow2Step
  <2>. HIDE DEF p
  <2>3. x \in Nat /\ y \in Nat /\ h * (2 * p) = 2 * x /\ g * (2 * p) = 2 * y
    BY <2>2
  <2>4. t \in Nat /\ t < 2 * p
    BY <2>2
  <2>. HIDE DEF x, y
  <2>5. u \in 0..(p - 1) /\ (2 * y + t) \div 2 = y + u /\ 2 * y + t \in Nat
    BY <2>2, <2>3, <2>4
  <2>6. 2 * x + 2 * p - 1 = 2 * (x + p - 1) + 1 /\ x + p - 1 \in Nat
    BY <2>2, <2>3
  <2>8. shiftWhile[2 * x + 2 * p - 1][2 * y + t][1] = shiftWhile[x + p - 1][y + u][1]
    <3>1. shiftWhile[2 * (x + p - 1) + 1][2 * y + t][1]
            = shiftWhile[x + p - 1][(2 * y + t) \div 2][1]
      <4>. DEFINE z == x + p - 1
                  v == 2 * y + t
      <4>1. z \in Nat /\ v \in Nat
        BY <2>5, <2>6
      <4>. HIDE DEF z, v
      <4>2. shiftWhile[2 * z + 1][v][1] = shiftWhile[z][v \div 2][1]
        BY <4>1, ShiftOne
      <4>. QED BY <4>2 DEF z, v
    <3>. QED BY <2>5, <2>6, <3>1
  <2>9. shiftWhile[x + p - 1][y + u][1] = [fn |-> h, sn |-> g]
    BY <1>2, <2>1, <2>5 DEF x, y, p
  <2>. QED BY <2>2, <2>3, <2>8, <2>9
<1>. HIDE DEF T
<1>3. \A k \in Nat : k \in T
  BY <1>1, <1>2, Induction
<1>. QED BY <1>3 DEF T

\* All last bits that are 0 are taken off, of equal numbers that are not 0.
LEMMA ShiftZeros ==
    ASSUME NEW h \in Nat, h % 2 = 1
    PROVE  \A d \in Nat : shiftWhile[h * pow2[d]][h * pow2[d]][0] = [fn |-> h, sn |-> h]
<1>. DEFINE T == {d \in Nat : shiftWhile[h * pow2[d]][h * pow2[d]][0] = [fn |-> h, sn |-> h]}
<1>1. 0 \in T
  <2>1. h * pow2[0] = h
    BY Pow2Step
  <2>2. shiftWhile[h][h][0] = [fn |-> h, sn |-> h]
    <3>1. 0 \in 0..1 /\ ~(h % 2 = 0)
      OBVIOUS
    <3>. QED BY <3>1, ShiftStep
  <2>. QED BY <2>1, <2>2
<1>2. ASSUME NEW d \in Nat, d \in T PROVE d + 1 \in T
  <2>. DEFINE x == h * pow2[d]
  <2>1. pow2[d] \in Nat /\ pow2[d] > 0 /\ pow2[d + 1] = 2 * pow2[d]
    BY Pow2Step
  <2>2. h \in Nat /\ h > 0
    OBVIOUS
  <2>3. x \in Nat /\ h * pow2[d + 1] = 2 * x
    BY <2>1, <2>2
  <2>4. x > 0
    BY <2>1, <2>2
  <2>5. shiftWhile[x][x][0] = [fn |-> h, sn |-> h]
    BY <1>2
  <2>. HIDE DEF x
  <2>7. shiftWhile[2 * x][2 * x][0] = shiftWhile[x][x][0]
    BY <2>3, <2>4, ShiftZero
  <2>. QED BY <2>3, <2>5, <2>7
<1>. HIDE DEF T
<1>3. \A d \in Nat : d \in T
  BY <1>1, <1>2, Induction
<1>. QED BY <1>3 DEF T

\* Nothing is left of fn if and only if the old size is a power of two.
LEMMA ShiftToZero ==
    ASSUME NEW j \in Nat
    PROVE  \A s \in Nat : shiftWhile[pow2[j] - 1][s][1].fn = 0
<1>. DEFINE T == {k \in Nat : \A s \in Nat : shiftWhile[pow2[k] - 1][s][1].fn = 0}
<1>0. 1 \in 0..1
  OBVIOUS
<1>1. 0 \in T
  <2>1. ASSUME NEW s \in Nat PROVE shiftWhile[0][s][1].fn = 0
    <3>1. shiftWhile[0][s][1] = [fn |-> 0, sn |-> s]
      BY <1>0, ShiftStep
    <3>. QED BY <3>1
  <2>2. pow2[0] - 1 = 0
    BY Pow2Step
  <2>3. \A s \in Nat : shiftWhile[0][s][1].fn = 0
    BY <2>1, Zenon
  <2>4. \A s \in Nat : shiftWhile[pow2[0] - 1][s][1].fn = 0
    BY <2>2, <2>3, Zenon
  <2>. QED BY <2>4
<1>2. ASSUME NEW k \in Nat, k \in T PROVE k + 1 \in T
  <2>. DEFINE x == pow2[k] - 1
  <2>1. x \in Nat /\ pow2[k + 1] - 1 = 2 * x + 1
    BY Pow2Step
  <2>2. \A s \in Nat : shiftWhile[x][s][1].fn = 0
    BY <1>2
  <2>. HIDE DEF x
  <2>3. ASSUME NEW s \in Nat PROVE shiftWhile[2 * x + 1][s][1].fn = 0
    <3>1. shiftWhile[2 * x + 1][s][1] = shiftWhile[x][s \div 2][1]
      BY <2>1, ShiftOne
    <3>2. s \div 2 \in Nat
      BY Halves
    <3>. QED BY <2>2, <3>1, <3>2
  <2>. QED BY <2>1, <2>3
<1>. HIDE DEF T
<1>3. \A k \in Nat : k \in T
  BY <1>1, <1>2, Induction
<1>. QED BY <1>3 DEF T

LEMMA ZeroIsPower ==
    ASSUME NEW x \in Nat, NEW s \in Nat, shiftWhile[x][s][1].fn = 0
    PROVE  \E j \in Nat : x + 1 = pow2[j]
<1>. DEFINE T == {n \in Nat : \A y, z \in Nat : y < n /\ shiftWhile[y][z][1].fn = 0
                                  => \E j \in Nat : y + 1 = pow2[j]}
<1>0. 1 \in 0..1
  OBVIOUS
<1>1. 0 \in T
  OBVIOUS
<1>2. ASSUME NEW n \in Nat, n \in T PROVE n + 1 \in T
  <2>1. SUFFICES ASSUME NEW y \in Nat, NEW z \in Nat, y < n + 1,
                        shiftWhile[y][z][1].fn = 0
                 PROVE  \E j \in Nat : y + 1 = pow2[j]
    OBVIOUS
  <2>2. CASE y > 0 /\ y % 2 = 1
    <3>1. shiftWhile[y][z][1] = shiftWhile[y \div 2][z \div 2][1]
      BY <1>0, <2>2, ShiftStep
    <3>2. y \div 2 \in Nat /\ y \div 2 < n /\ z \div 2 \in Nat /\ y = 2 * (y \div 2) + 1
      BY <2>1, <2>2, Halves
    <3>3. PICK j \in Nat : (y \div 2) + 1 = pow2[j]
      BY <1>2, <2>1, <3>1, <3>2
    <3>4. j + 1 \in Nat /\ pow2[j + 1] = 2 * pow2[j] /\ pow2[j] \in Nat
      BY Pow2Step
    <3>5. y + 1 = pow2[j + 1]
      BY <3>2, <3>3, <3>4
    <3>. QED BY <3>4, <3>5
  <2>3. CASE ~(y > 0 /\ y % 2 = 1)
    <3>1. shiftWhile[y][z][1] = [fn |-> y, sn |-> z]
      BY <1>0, <2>3, ShiftStep
    <3>2. y = 0
      BY <2>1, <3>1
    <3>3. y + 1 = pow2[0]
      BY <3>2, Pow2Step
    <3>. QED BY <3>3
  <2>. QED BY <2>2, <2>3
<1>. HIDE DEF T
<1>3. \A n \in Nat : n \in T
  BY <1>1, <1>2, Induction
<1>4. x + 1 \in T /\ x < x + 1
  BY <1>3
<1>. QED BY <1>4 DEF T

----------------------------------------------------------------------------
(***************************************************************************)
(* The loop over the path.                                                 *)
(***************************************************************************)
startOf(n, path) == [fn |-> n.fn, sn |-> n.sn, first |-> path[1], second |-> path[1]]

LEMMA ClimbDef ==
    ASSUME NEW n, NEW path, Len(path) \in Nat \ {0}
    PROVE  climb(n, path) =
             [i \in 1..Len(path) |->
                IF i = 1 THEN startOf(n, path) ELSE turn(climb(n, path)[i - 1], path[i])]
<1>. DEFINE IsWay(g, m) == g = [i \in 1..m |->
                              IF i = 1 THEN startOf(n, path) ELSE turn(g[i - 1], path[i])]
            T == {m \in Nat : m # 0 => \E g : IsWay(g, m)}
<1>1. 0 \in T
  OBVIOUS
<1>2. ASSUME NEW m \in Nat, m \in T PROVE m + 1 \in T
  <2>1. CASE m = 0
    <3>. DEFINE g == [i \in 1..1 |-> startOf(n, path)]
    <3>1. \A i \in 1..1 : g[i] = IF i = 1 THEN startOf(n, path)
                                 ELSE turn(g[i - 1], path[i])
      OBVIOUS
    <3>2. g = [i \in 1..1 |-> g[i]]
      OBVIOUS
    <3>3. IsWay(g, 1)
      <4>. HIDE DEF g
      <4>. QED BY <3>1, <3>2
    <3>. HIDE DEF IsWay
    <3>. QED BY <2>1, <3>3
  <2>2. CASE m # 0
    <3>1. PICK g : IsWay(g, m)
      BY <1>2, <2>2
    <3>2. \A i \in 1..m : g[i] = IF i = 1 THEN startOf(n, path)
                                 ELSE turn(g[i - 1], path[i])
      BY <3>1
    <3>. DEFINE h == [i \in 1..(m + 1) |->
                        IF i <= m THEN g[i] ELSE turn(g[m], path[i])]
    <3>3. ASSUME NEW i \in 1..(m + 1)
          PROVE  h[i] = IF i = 1 THEN startOf(n, path) ELSE turn(h[i - 1], path[i])
      <4>1. CASE i = 1
        <5>1. h[i] = g[i] /\ i \in 1..m
          BY <2>2, <4>1
        <5>. QED BY <3>2, <4>1, <5>1
      <4>2. CASE i \in 2..m
        <5>1. h[i] = g[i] /\ h[i - 1] = g[i - 1] /\ i \in 1..m
          BY <4>2
        <5>. QED BY <3>2, <4>2, <5>1
      <4>3. CASE i = m + 1
        <5>1. h[i] = turn(g[m], path[i]) /\ i - 1 = m /\ h[m] = g[m] /\ i # 1
          BY <2>2, <4>3
        <5>. QED BY <5>1
      <4>. QED BY <4>1, <4>2, <4>3
    <3>4. h = [i \in 1..(m + 1) |-> h[i]]
      OBVIOUS
    <3>5. IsWay(h, m + 1)
      <4>. HIDE DEF h
      <4>. QED BY <3>3, <3>4
    <3>. HIDE DEF IsWay
    <3>. QED BY <3>5
  <2>. QED BY <2>1, <2>2
<1>. HIDE DEF T
<1>3. Len(path) \in T
  BY <1>1, <1>2, Induction
<1>. QED BY <1>3 DEF T, climb, startOf

LEMMA ClimbStep ==
    ASSUME NEW n, NEW path, Len(path) \in Nat \ {0}
    PROVE  /\ climb(n, path)[1] = startOf(n, path)
           /\ \A i \in 1..Len(path) : i + 1 <= Len(path) =>
                climb(n, path)[i + 1] = turn(climb(n, path)[i], path[i + 1])
<1>. DEFINE C == climb(n, path)
<1>1. C = [i \in 1..Len(path) |->
             IF i = 1 THEN startOf(n, path) ELSE turn(C[i - 1], path[i])]
  BY ClimbDef
<1>. HIDE DEF C
<1>2. C[1] = startOf(n, path)
  BY <1>1
<1>3. ASSUME NEW i \in 1..Len(path), i + 1 <= Len(path)
      PROVE  C[i + 1] = turn(C[i], path[i + 1])
  <2>1. i + 1 \in 1..Len(path) /\ i + 1 # 1 /\ (i + 1) - 1 = i
    BY <1>3
  <2>. QED BY <1>1, <2>1
<1>. QED BY <1>2, <1>3 DEF C

\* Where a climb stands: the node numbers, and the roots of the old and the new tree.
Stand(fn, sn, first, second) == [fn |-> fn, sn |-> sn, first |-> first, second |-> second]

\* A turn with a sibling on the right, on the left, and on the left at equal numbers.
LEMMA TurnRight ==
    ASSUME NEW fn \in Nat, NEW sn \in Nat, NEW a, NEW b, NEW d, fn % 2 = 0, fn # sn
    PROVE  turn(Stand(fn, sn, a, b), d) =
             Stand(fn \div 2, sn \div 2, a, node_digest(b, d))
<1>1. ~(fn % 2 = 1 \/ fn = sn)
  OBVIOUS
<1>. QED BY <1>1 DEF turn, Stand

LEMMA TurnLeft ==
    ASSUME NEW fn \in Nat, NEW sn \in Nat, NEW a, NEW b, NEW d,
           fn % 2 = 1 \/ fn = sn, NEW f \in Nat, NEW s \in Nat,
           shiftWhile[fn][sn][0] = [fn |-> f, sn |-> s]
    PROVE  turn(Stand(fn, sn, a, b), d) =
             Stand(f \div 2, s \div 2, node_digest(d, a), node_digest(d, b))
BY DEF turn, Stand

----------------------------------------------------------------------------
(***************************************************************************)
(* Consistency: along the path of a part of the new tree, the climb comes  *)
(* to the roots of both trees over that part.                              *)
(***************************************************************************)
Prefix(l, m) == SubSeq(l, 1, m)

LEMMA PrefixLeaves ==
    ASSUME NEW l \in Seq(Leaf), NEW m \in 0..Len(l)
    PROVE  /\ Prefix(l, m) \in Seq(Leaf) /\ Len(Prefix(l, m)) = m
           /\ \A i \in 1..m : Prefix(l, m)[i] = l[i]
BY DEF Prefix

LEMMA PrefixWhole ==
    ASSUME NEW l \in Seq(Leaf)
    PROVE  Prefix(l, Len(l)) = l
BY DEF Prefix

\* The root of the old tree: up to the split, it is one over the first part of the new tree;
\* above, it is split where the new one is.
LEMMA PrefixInFirst ==
    ASSUME NEW l \in Seq(Leaf), Len(l) >= 2, NEW m \in 1.._split(Len(l))
    PROVE  Prefix(firstPart(l), m) = Prefix(l, m)
<1>. DEFINE a == Prefix(firstPart(l), m)
            b == Prefix(l, m)
<1>1. /\ firstPart(l) \in Seq(Leaf) /\ m \in 0..Len(firstPart(l)) /\ m \in 0..Len(l)
      /\ \A i \in 1..m : firstPart(l)[i] = l[i]
  <2>. DEFINE f == firstPart(l)
              s == _split(Len(l))
  <2>1. /\ s \in 1..(Len(l) - 1) /\ f \in Seq(Leaf) /\ Len(f) = s
        /\ \A i \in 1..s : f[i] = l[i]
    BY Parts, Zenon
  <2>2. Len(l) \in Nat /\ m \in 1..s
    OBVIOUS
  <2>. HIDE DEF f, s
  <2>3. m \in 0..Len(f) /\ m \in 0..Len(l) /\ \A i \in 1..m : i \in 1..s
    BY <2>1, <2>2
  <2>4. \A i \in 1..m : f[i] = l[i]
    BY <2>1, <2>3
  <2>. QED BY <2>1, <2>3, <2>4 DEF f
<1>2. /\ a \in Seq(Leaf) /\ Len(a) = m /\ b \in Seq(Leaf) /\ Len(b) = m
      /\ \A i \in 1..m : a[i] = firstPart(l)[i] /\ b[i] = l[i]
  BY <1>1, PrefixLeaves
<1>. HIDE DEF a, b
<1>3. \A i \in 1..m : a[i] = b[i]
  BY <1>1, <1>2
<1>4. a = b
  BY <1>2, <1>3
<1>. QED BY <1>4 DEF a, b

LEMMA PrefixAcross ==
    ASSUME NEW l \in Seq(Leaf), NEW k \in Nat, pow2[k] < Len(l), Len(l) <= pow2[k + 1],
           NEW m \in 1..Len(l), m > pow2[k]
    PROVE  merkle_root[Prefix(l, m)] =
             node_digest(merkle_root[firstPart(l)],
                         merkle_root[Prefix(secondPart(l), m - pow2[k])])
<1>. DEFINE s == pow2[k]
            b == Prefix(l, m)
            c == Prefix(secondPart(l), m - s)
<1>0. s \in Nat /\ s > 0 /\ pow2[k + 1] \in Nat /\ Len(l) \in Nat /\ m \in Nat
  <2>1. k + 1 \in Nat
    OBVIOUS
  <2>2. pow2[k] \in Nat /\ pow2[k] > 0
    BY Pow2Step
  <2>3. pow2[k + 1] \in Nat
    BY <2>1, Pow2Step
  <2>4. Len(l) \in Nat /\ m \in Nat
    OBVIOUS
  <2>. QED BY <2>2, <2>3, <2>4
<1>1. _split(Len(l)) = s /\ _split(m) = s /\ Len(l) >= 2
  BY <1>0, SplitAt
<1>2. /\ b \in Seq(Leaf) /\ Len(b) = m
      /\ \A i \in 1..m : b[i] = l[i]
  BY PrefixLeaves
<1>3. /\ firstPart(l) \in Seq(Leaf) /\ Len(firstPart(l)) = s
      /\ secondPart(l) \in Seq(Leaf) /\ Len(secondPart(l)) = Len(l) - s
      /\ \A i \in 1..s : firstPart(l)[i] = l[i]
      /\ \A i \in 1..(Len(l) - s) : secondPart(l)[i] = l[s + i]
  BY <1>1, Parts
<1>4. /\ firstPart(b) \in Seq(Leaf) /\ Len(firstPart(b)) = s
      /\ secondPart(b) \in Seq(Leaf) /\ Len(secondPart(b)) = m - s
      /\ \A i \in 1..s : firstPart(b)[i] = b[i]
      /\ \A i \in 1..(m - s) : secondPart(b)[i] = b[s + i]
  <2>1. Len(b) >= 2 /\ _split(Len(b)) = s
    BY <1>0, <1>1, <1>2
  <2>. HIDE DEF b, s
  <2>. QED BY <1>2, <2>1, Parts
<1>5. /\ c \in Seq(Leaf) /\ Len(c) = m - s
      /\ \A i \in 1..(m - s) : c[i] = secondPart(l)[i]
  <2>1. m - s \in 0..Len(secondPart(l))
    BY <1>0, <1>3
  <2>. QED BY <1>3, <2>1, PrefixLeaves
<1>. HIDE DEF s, b, c
<1>6. firstPart(b) = firstPart(l)
  <2>. DEFINE x == firstPart(b)
              y == firstPart(l)
  <2>1. ASSUME NEW i \in 1..s PROVE firstPart(b)[i] = firstPart(l)[i]
    <3>1. i \in 1..m
      BY <1>0 DEF s
    <3>. QED BY <1>2, <1>3, <1>4, <3>1
  <2>2. x \in Seq(Leaf) /\ Len(x) = s /\ y \in Seq(Leaf) /\ Len(y) = s
    BY <1>3, <1>4
  <2>3. \A i \in 1..s : x[i] = y[i]
    BY <2>1
  <2>. HIDE DEF x, y
  <2>4. x = y
    BY <2>2, <2>3
  <2>. QED BY <2>4 DEF x, y
<1>7. secondPart(b) = c
  <2>1. ASSUME NEW i \in 1..(m - s) PROVE secondPart(b)[i] = c[i]
    <3>1. s + i \in 1..m /\ i \in 1..(Len(l) - s)
      BY <1>0
    <3>. QED BY <1>2, <1>3, <1>4, <1>5, <3>1
  <2>. QED BY <1>4, <1>5, <2>1
<1>8. merkle_root[b] = node_digest(merkle_root[firstPart(b)], merkle_root[secondPart(b)])
  <2>1. Len(b) >= 2
    BY <1>0, <1>2 DEF s
  <2>. QED BY <1>2, <2>1, RootStep
<1>. QED BY <1>6, <1>7, <1>8 DEF s, b, c

\* After the first nodes of a path, those of the proof from a part of the new tree, the
\* climb from the numbers x and y has come to the roots over that part of both trees.
Comes(path, x, y, l, m, fn, sn) ==
    climb(shiftWhile[x][y][1], path)[Len(subproof[l][m][FALSE])]
      = Stand(fn, sn, merkle_root[Prefix(l, m)], merkle_root[l])

\* The part is the old tree itself.
LEMMA ComesWhole ==
    ASSUME NEW path \in Seq(Roots), NEW l \in Seq(Leaf), Len(l) > 0,
           Begins(path, subproof[l][Len(l)][FALSE]),
           NEW x, NEW y, NEW fn, NEW sn, shiftWhile[x][y][1] = [fn |-> fn, sn |-> sn]
    PROVE  Comes(path, x, y, l, Len(l), fn, sn)
<1>. DEFINE r == merkle_root[l]
            n == shiftWhile[x][y][1]
<1>1. Len(l) \in 1..Len(l) /\ FALSE \in BOOLEAN
  OBVIOUS
<1>2. subproof[l][Len(l)][FALSE] = <<r>>
  BY <1>1, SubproofStep
<1>. HIDE DEF r, n
<1>3. Len(path) \in Nat \ {0} /\ path[1] = r /\ Len(<<r>>) = 1
  BY <1>2 DEF Begins
<1>4. climb(n, path)[1] = startOf(n, path)
  BY <1>3, ClimbStep
<1>5. startOf(n, path) = Stand(fn, sn, r, r)
  BY <1>3 DEF startOf, Stand, n
<1>6. climb(n, path)[1] = Stand(fn, sn, r, r)
  BY <1>4, <1>5
<1>7. climb(shiftWhile[x][y][1], path)[Len(subproof[l][Len(l)][FALSE])]
        = Stand(fn, sn, merkle_root[l], merkle_root[l])
  BY <1>2, <1>3, <1>6 DEF n, r
<1>8. Prefix(l, Len(l)) = l
  BY PrefixWhole
<1>. QED BY <1>7, <1>8 DEF Comes

\* What the proof from a tree of two parts adds to the proof from one of them.
LEMMA BeginsFirst ==
    ASSUME NEW path \in Seq(Roots), NEW l \in Seq(Leaf), Len(l) >= 2,
           NEW m \in 1.._split(Len(l)), Begins(path, subproof[l][m][FALSE])
    PROVE  /\ Begins(path, subproof[firstPart(l)][m][FALSE])
           /\ Len(subproof[firstPart(l)][m][FALSE]) \in Nat
           /\ Len(subproof[l][m][FALSE]) = Len(subproof[firstPart(l)][m][FALSE]) + 1
           /\ Len(subproof[firstPart(l)][m][FALSE]) + 1 \in 1..Len(path)
           /\ path[Len(subproof[firstPart(l)][m][FALSE]) + 1] = merkle_root[secondPart(l)]
<1>. DEFINE p == subproof[firstPart(l)][m][FALSE]
            r == merkle_root[secondPart(l)]
<1>1. /\ firstPart(l) \in Seq(Leaf) /\ secondPart(l) \in Seq(Leaf)
      /\ m \in 1..Len(firstPart(l)) /\ m \in 1..Len(l) /\ m # Len(l) /\ m <= _split(Len(l))
  BY Parts
<1>2. p \in Seq(Roots) /\ r \in Roots
  BY <1>1, SubproofIsPath DEF Roots
<1>3. subproof[l][m][FALSE] = Append(p, r)
  BY <1>1, SubproofStep
<1>. HIDE DEF p, r
<1>4. Len(p) \in Nat
  BY <1>2
<1>5. /\ Len(Append(p, r)) = Len(p) + 1 /\ Begins(path, p) /\ path[Len(p) + 1] = r
      /\ Len(p) + 1 \in 1..Len(path)
  BY <1>2, <1>3, BeginsAppend
<1>. QED BY <1>3, <1>4, <1>5 DEF p, r

LEMMA BeginsSecond ==
    ASSUME NEW path \in Seq(Roots), NEW l \in Seq(Leaf), Len(l) >= 2,
           NEW m \in 1..(Len(l) - 1), m > _split(Len(l)), Begins(path, subproof[l][m][FALSE])
    PROVE  LET q == subproof[secondPart(l)][m - _split(Len(l))][FALSE]
           IN /\ Begins(path, q) /\ Len(q) \in Nat
              /\ Len(subproof[l][m][FALSE]) = Len(q) + 1
              /\ Len(q) + 1 \in 1..Len(path)
              /\ path[Len(q) + 1] = merkle_root[firstPart(l)]
<1>. DEFINE p == subproof[secondPart(l)][m - _split(Len(l))][FALSE]
            r == merkle_root[firstPart(l)]
<1>1. /\ firstPart(l) \in Seq(Leaf) /\ secondPart(l) \in Seq(Leaf)
      /\ m - _split(Len(l)) \in 1..Len(secondPart(l)) /\ m \in 1..Len(l) /\ m # Len(l)
      /\ ~(m <= _split(Len(l)))
  BY Parts
<1>2. p \in Seq(Roots) /\ r \in Roots
  BY <1>1, SubproofIsPath DEF Roots
<1>3. subproof[l][m][FALSE] = Append(p, r)
  BY <1>1, SubproofStep
<1>. HIDE DEF p, r
<1>4. Len(p) \in Nat
  BY <1>2
<1>5. /\ Len(Append(p, r)) = Len(p) + 1 /\ Begins(path, p) /\ path[Len(p) + 1] = r
      /\ Len(p) + 1 \in 1..Len(path)
  BY <1>2, <1>3, BeginsAppend
<1>. QED BY <1>3, <1>4, <1>5 DEF p, r

\* From the first part to both: the new tree alone grows, on the right.
LEMMA ComesRight ==
    ASSUME NEW path \in Seq(Roots), NEW l \in Seq(Leaf), Len(l) >= 2,
           NEW m \in 1.._split(Len(l)), Begins(path, subproof[l][m][FALSE]),
           NEW x, NEW y, NEW h \in Nat, NEW g \in Nat, 2 * h # g,
           Comes(path, x, y, firstPart(l), m, 2 * h, g)
    PROVE  Comes(path, x, y, l, m, h, g \div 2)
<1>. DEFINE n == shiftWhile[x][y][1]
            i == Len(subproof[firstPart(l)][m][FALSE])
            d == merkle_root[secondPart(l)]
            a == merkle_root[Prefix(l, m)]
            b == merkle_root[firstPart(l)]
            e == 2 * h
<1>1. /\ i \in Nat /\ Len(subproof[l][m][FALSE]) = i + 1 /\ i + 1 \in 1..Len(path)
      /\ path[i + 1] = d
  BY BeginsFirst, Zenon
<1>2. climb(n, path)[i] = Stand(e, g, a, b)
  BY PrefixInFirst DEF Comes
<1>3. i > 0
  <2>1. firstPart(l) \in Seq(Leaf) /\ m \in 1..Len(firstPart(l))
    BY Parts
  <2>. QED BY <2>1, SubproofNotEmpty
<1>4. e \in Nat /\ e % 2 = 0 /\ e \div 2 = h /\ e # g
  BY Halves
<1>5. merkle_root[l] = node_digest(b, d)
  BY RootStep
<1>. HIDE DEF n, i, d, a, b, e
<1>6. climb(n, path)[i + 1] = turn(climb(n, path)[i], path[i + 1])
  <2>1. i \in 1..Len(path) /\ i + 1 <= Len(path) /\ Len(path) \in Nat \ {0}
    BY <1>1, <1>3
  <2>. QED BY <2>1, ClimbStep
<1>7. turn(Stand(e, g, a, b), d) = Stand(e \div 2, g \div 2, a, node_digest(b, d))
  BY <1>4, TurnRight
<1>8. climb(n, path)[i + 1] = Stand(h, g \div 2, a, merkle_root[l])
  BY <1>1, <1>2, <1>4, <1>5, <1>6, <1>7
<1>. QED BY <1>1, <1>8 DEF Comes, n, a

\* From the second part to both: both trees grow, on the left.
LEMMA ComesLeft ==
    ASSUME NEW path \in Seq(Roots), NEW l \in Seq(Leaf), Len(l) >= 2,
           NEW m \in 1..(Len(l) - 1), m > _split(Len(l)),
           Begins(path, subproof[l][m][FALSE]),
           NEW x, NEW y, NEW fn \in Nat, NEW sn \in Nat, fn % 2 = 1 \/ fn = sn,
           NEW f \in Nat, NEW s \in Nat, shiftWhile[fn][sn][0] = [fn |-> f, sn |-> s],
           Comes(path, x, y, secondPart(l), m - _split(Len(l)), fn, sn)
    PROVE  Comes(path, x, y, l, m, f \div 2, s \div 2)
<1>. DEFINE n == shiftWhile[x][y][1]
            i == Len(subproof[secondPart(l)][m - _split(Len(l))][FALSE])
            d == merkle_root[firstPart(l)]
            a == merkle_root[Prefix(secondPart(l), m - _split(Len(l)))]
            b == merkle_root[secondPart(l)]
<1>1. /\ i \in Nat /\ Len(subproof[l][m][FALSE]) = i + 1 /\ i + 1 \in 1..Len(path)
      /\ path[i + 1] = d
  BY BeginsSecond, Zenon
<1>2. climb(n, path)[i] = Stand(fn, sn, a, b)
  BY DEF Comes
<1>3. i > 0
  <2>1. secondPart(l) \in Seq(Leaf) /\ m - _split(Len(l)) \in 1..Len(secondPart(l))
    BY Parts
  <2>. QED BY <2>1, SubproofNotEmpty
<1>4. merkle_root[l] = node_digest(d, b)
  BY RootStep
<1>5. merkle_root[Prefix(l, m)] = node_digest(d, a)
  <2>1. PICK k \in Nat : /\ _split(Len(l)) = pow2[k] /\ pow2[k] < Len(l)
                         /\ Len(l) <= pow2[k + 1]
    <3>1. Len(l) \in Nat
      OBVIOUS
    <3>. QED BY <3>1, SplitFacts
  <2>2. m \in 1..Len(l) /\ m > pow2[k]
    BY <2>1
  <2>. HIDE DEF a, d
  <2>3. merkle_root[Prefix(l, m)] =
          node_digest(merkle_root[firstPart(l)],
                      merkle_root[Prefix(secondPart(l), m - pow2[k])])
    BY <2>1, <2>2, PrefixAcross
  <2>. QED BY <2>1, <2>3 DEF a, d
<1>. HIDE DEF n, i, d, a, b
<1>6. climb(n, path)[i + 1] = turn(climb(n, path)[i], path[i + 1])
  <2>1. i \in 1..Len(path) /\ i + 1 <= Len(path) /\ Len(path) \in Nat \ {0}
    BY <1>1, <1>3
  <2>. QED BY <2>1, ClimbStep
<1>7. turn(Stand(fn, sn, a, b), d)
        = Stand(f \div 2, s \div 2, node_digest(d, a), node_digest(d, b))
  BY DEF turn, Stand
<1>8. climb(n, path)[i + 1]
        = Stand(f \div 2, s \div 2, merkle_root[Prefix(l, m)], merkle_root[l])
  BY <1>1, <1>2, <1>4, <1>5, <1>6, <1>7
<1>. QED BY <1>1, <1>8 DEF Comes, n

\* A part that is a power of two leaves, at some place of the new tree, while the old tree
\* ends inside it: the climb leaves it with the numbers of its place.
Inside(k, path) ==
    \A l \in Seq(Leaf), h, g \in Nat :
        \A m \in 1..pow2[k], t \in 0..(pow2[k] - 1) :
            /\ Len(l) = pow2[k] /\ h # g /\ (m = pow2[k] => h % 2 = 0)
            /\ Begins(path, subproof[l][m][FALSE])
            => Comes(path, h * pow2[k] + m - 1, g * pow2[k] + t, l, m, h, g)

LEMMA InsideWhole ==
    ASSUME NEW path \in Seq(Roots), NEW k \in Nat, NEW l \in Seq(Leaf), NEW h \in Nat,
           NEW g \in Nat, NEW t \in 0..(pow2[k] - 1), Len(l) = pow2[k], h % 2 = 0,
           Begins(path, subproof[l][pow2[k]][FALSE])
    PROVE  Comes(path, h * pow2[k] + pow2[k] - 1, g * pow2[k] + t, l, pow2[k], h, g)
<1>. DEFINE x == h * pow2[k] + pow2[k] - 1
            y == g * pow2[k] + t
<1>1. shiftWhile[x][y][1] = [fn |-> h, sn |-> g]
  BY ShiftOnes
<1>2. Len(l) > 0
  BY Pow2Step
<1>. HIDE DEF x, y
<1>3. Comes(path, x, y, l, Len(l), h, g)
  BY <1>1, <1>2, ComesWhole
<1>. QED BY <1>3 DEF x, y

LEMMA InsideAll ==
    ASSUME NEW path \in Seq(Roots)
    PROVE  \A k \in Nat : Inside(k, path)
<1>. DEFINE T == {k \in Nat : Inside(k, path)}
<1>1. 0 \in T
  <2>1. ASSUME NEW l \in Seq(Leaf), NEW h \in Nat, NEW g \in Nat, NEW m \in 1..pow2[0],
               NEW t \in 0..(pow2[0] - 1),
               Len(l) = pow2[0] /\ h # g /\ (m = pow2[0] => h % 2 = 0),
               Begins(path, subproof[l][m][FALSE])
        PROVE  Comes(path, h * pow2[0] + m - 1, g * pow2[0] + t, l, m, h, g)
    <3>1. m = pow2[0] /\ 0 \in Nat
      BY Pow2Step
    <3>. QED BY <2>1, <3>1, InsideWhole
  <2>. QED BY <2>1 DEF Inside
<1>2. ASSUME NEW k \in Nat, k \in T PROVE k + 1 \in T
  <2>0. SUFFICES Inside(k + 1, path)
    OBVIOUS
  <2>1. SUFFICES ASSUME NEW l \in Seq(Leaf), NEW h \in Nat, NEW g \in Nat,
                        NEW m \in 1..pow2[k + 1], NEW t \in 0..(pow2[k + 1] - 1),
                        Len(l) = pow2[k + 1], h # g, m = pow2[k + 1] => h % 2 = 0,
                        Begins(path, subproof[l][m][FALSE])
                 PROVE  Comes(path, h * pow2[k + 1] + m - 1, g * pow2[k + 1] + t, l, m, h, g)
    BY Zenon DEF Inside
  <2>. DEFINE p == pow2[k]
              x == h * p
              z == g * p
              X == 2 * x + m - 1
              Z == 2 * z + t
              u == IF t < p THEN t ELSE t - p
              v == IF t < p THEN 2 * g ELSE 2 * g + 1
  <2>2. p \in Nat /\ p > 0 /\ pow2[k + 1] = 2 * p /\ k + 1 \in Nat
    <3>1. pow2[k] \in Nat /\ pow2[k] > 0 /\ pow2[k + 1] = 2 * pow2[k]
      BY Pow2Step
    <3>. QED BY <3>1
  <2>3. Inside(k, path)
    BY <1>2
  <2>4. CASE m = pow2[k + 1]
    <3>. HIDE DEF p
    <3>. QED BY <2>1, <2>2, <2>4, InsideWhole
  <2>5. CASE m # pow2[k + 1]
    <3>1. m \in Nat /\ m >= 1 /\ m < 2 * p /\ t \in Nat /\ t < 2 * p
      BY <2>2, <2>5
    <3>2. _split(Len(l)) = p /\ Len(l) = 2 * p /\ Len(l) >= 2 /\ m \in 1..(Len(l) - 1)
      <4>1. Len(l) \in Nat /\ pow2[k] < Len(l) /\ Len(l) <= pow2[k + 1]
        BY <2>1, <2>2
      <4>2. _split(Len(l)) = p
        BY <4>1, SplitAt
      <4>. HIDE DEF p
      <4>. QED BY <2>1, <2>2, <3>1, <4>2
    <3>3. /\ firstPart(l) \in Seq(Leaf) /\ Len(firstPart(l)) = p
          /\ secondPart(l) \in Seq(Leaf) /\ Len(secondPart(l)) = p
      <4>1. /\ firstPart(l) \in Seq(Leaf) /\ Len(firstPart(l)) = _split(Len(l))
            /\ secondPart(l) \in Seq(Leaf)
            /\ Len(secondPart(l)) = Len(l) - _split(Len(l))
        BY <3>2, Parts, Zenon
      <4>2. 2 * p - p = p
        BY <2>2
      <4>. HIDE DEF p
      <4>. QED BY <3>2, <4>1, <4>2
    <3>. HIDE DEF p
    <3>4. x \in Nat /\ z \in Nat /\ h * (2 * p) = 2 * x /\ g * (2 * p) = 2 * z
          /\ (2 * h) * p = 2 * x /\ (2 * h + 1) * p = 2 * x + p
          /\ (2 * g) * p = 2 * z /\ (2 * g + 1) * p = 2 * z + p
      BY <2>2
    <3>5. /\ u \in 0..(p - 1) /\ v \in Nat /\ v \div 2 = g /\ 2 * h # v /\ 2 * h + 1 # v
          /\ 2 * h \in Nat /\ 2 * h + 1 \in Nat /\ (2 * h) % 2 = 0
      BY <2>1, <2>2, <3>1
    <3>6. v * p + u = Z
      BY <2>2, <3>1, <3>4
    <3>7. CASE m <= p
      <4>1. m \in 1.._split(Len(l)) /\ m \in 1..p
        BY <3>1, <3>2, <3>7
      <4>2. Begins(path, subproof[firstPart(l)][m][FALSE])
        BY <2>1, <3>2, <4>1, BeginsFirst
      <4>. HIDE DEF u, v
      <4>3. Comes(path, (2 * h) * p + m - 1, v * p + u, firstPart(l), m, 2 * h, v)
        BY <2>3, <3>3, <3>5, <4>1, <4>2 DEF Inside, p
      <4>4. (2 * h) * p + m - 1 = X
        BY <3>4
      <4>. HIDE DEF X, Z
      <4>5. Comes(path, X, Z, firstPart(l), m, 2 * h, v)
        BY <3>6, <4>3, <4>4
      <4>6. Comes(path, X, Z, l, m, h, v \div 2)
        BY <2>1, <3>2, <3>5, <4>1, <4>5, ComesRight
      <4>. QED BY <2>2, <3>4, <3>5, <4>6 DEF X, Z
    <3>8. CASE ~(m <= p)
      <4>1. m > _split(Len(l)) /\ m - p \in 1..p /\ m - p # p
        BY <2>2, <3>1, <3>2, <3>8
      <4>2. Begins(path, subproof[secondPart(l)][m - p][FALSE])
        BY <2>1, <3>2, <4>1, BeginsSecond
      <4>. HIDE DEF u, v
      <4>3. Comes(path, (2 * h + 1) * p + (m - p) - 1, v * p + u, secondPart(l), m - p,
                  2 * h + 1, v)
        BY <2>3, <3>3, <3>5, <4>1, <4>2 DEF Inside, p
      <4>4. (2 * h + 1) * p + (m - p) - 1 = X
        BY <2>2, <3>1, <3>4
      <4>. HIDE DEF X, Z
      <4>5. Comes(path, X, Z, secondPart(l), m - _split(Len(l)), 2 * h + 1, v)
        BY <3>2, <3>6, <4>3, <4>4
      <4>. DEFINE w == 2 * h + 1
      <4>6. w \in Nat /\ w % 2 = 1 /\ w \div 2 = h
        BY Halves
      <4>. HIDE DEF w
      <4>7. shiftWhile[w][v][0] = [fn |-> w, sn |-> v]
        <5>1. w \in Nat /\ w % 2 = 1 /\ v \in Nat
          BY <3>5, <4>6
        <5>. HIDE DEF v
        <5>. QED BY <5>1, ShiftOdd, Zenon
      <4>8. Comes(path, X, Z, l, m, w \div 2, v \div 2)
        BY <2>1, <3>2, <3>5, <4>1, <4>5, <4>6, <4>7, ComesLeft DEF w
      <4>. QED BY <2>2, <3>4, <3>5, <4>6, <4>8 DEF X, Z
    <3>. QED BY <3>7, <3>8
  <2>. QED BY <2>4, <2>5
<1>. HIDE DEF T
<1>3. \A k \in Nat : k \in T
  BY <1>1, <1>2, Induction
<1>. QED BY <1>3 DEF T

\* A part at the right end of the new tree, of up to a power of two leaves, where the old
\* tree ends before it does: the climb leaves it with equal numbers, those of its place up
\* to zeros at their end.
Rightmost(k, path) ==
    \A l \in Seq(Leaf), h \in Nat :
        \A m \in 1..(Len(l) - 1) :
            Len(l) <= pow2[k] /\ Begins(path, subproof[l][m][FALSE])
            => \E d \in Nat :
                  Comes(path, h * pow2[k] + m - 1, h * pow2[k] + Len(l) - 1, l, m,
                        h * pow2[d], h * pow2[d])

LEMMA RightmostAll ==
    ASSUME NEW path \in Seq(Roots)
    PROVE  \A k \in Nat : Rightmost(k, path)
<1>. DEFINE T == {k \in Nat : Rightmost(k, path)}
<1>1. 0 \in T
  <2>1. ASSUME NEW l \in Seq(Leaf), Len(l) <= pow2[0], NEW m \in 1..(Len(l) - 1)
        PROVE  FALSE
    <3>1. pow2[0] = 1
      BY Pow2Step
    <3>2. Len(l) \in Nat /\ Len(l) <= 1
      BY <2>1, <3>1
    <3>. QED BY <3>2
  <2>2. Rightmost(0, path)
    BY <2>1, Zenon DEF Rightmost
  <2>. QED BY <2>2
<1>2. ASSUME NEW k \in Nat, k \in T PROVE k + 1 \in T
  <2>0. SUFFICES Rightmost(k + 1, path)
    OBVIOUS
  <2>1. SUFFICES ASSUME NEW l \in Seq(Leaf), NEW h \in Nat, NEW m \in 1..(Len(l) - 1),
                        Len(l) <= pow2[k + 1], Begins(path, subproof[l][m][FALSE])
                 PROVE  \E d \in Nat :
                           Comes(path, h * pow2[k + 1] + m - 1,
                                 h * pow2[k + 1] + Len(l) - 1, l, m,
                                 h * pow2[d], h * pow2[d])
    BY Zenon DEF Rightmost
  <2>. DEFINE p == pow2[k]
              x == h * p
              X == 2 * x + m - 1
              Z == 2 * x + Len(l) - 1
  <2>2. p \in Nat /\ p > 0 /\ pow2[k + 1] = 2 * p /\ k + 1 \in Nat
    <3>1. pow2[k] \in Nat /\ pow2[k] > 0 /\ pow2[k + 1] = 2 * pow2[k]
      BY Pow2Step
    <3>. QED BY <3>1
  <2>3. Rightmost(k, path) /\ Inside(k, path)
    BY <1>2, InsideAll
  <2>4. Len(l) \in Nat /\ Len(l) >= 2 /\ m \in Nat /\ m >= 1 /\ m < Len(l)
    OBVIOUS
  <2>5. pow2[0] = 1 /\ 0 \in Nat
    BY Pow2Step
  <2>6. /\ x \in Nat /\ h * (2 * p) = 2 * x /\ (2 * h) * p = 2 * x
        /\ (2 * h + 1) * p = 2 * x + p /\ 2 * h \in Nat /\ 2 * h + 1 \in Nat
    <3>. HIDE DEF p
    <3>. QED BY <2>2
  <2>7. SUFFICES \E d \in Nat : Comes(path, X, Z, l, m, h * pow2[d], h * pow2[d])
    <3>1. h * pow2[k + 1] + m - 1 = X /\ h * pow2[k + 1] + Len(l) - 1 = Z
      <4>. HIDE DEF p, x
      <4>. QED BY <2>2, <2>6
    <3>. QED BY <3>1
  <2>8. CASE Len(l) <= p
    <3>1. PICK d \in Nat : Comes(path, (2 * h) * p + m - 1, (2 * h) * p + Len(l) - 1, l, m,
                                 (2 * h) * pow2[d], (2 * h) * pow2[d])
      BY <2>1, <2>3, <2>6, <2>8 DEF Rightmost
    <3>2. d + 1 \in Nat /\ (2 * h) * pow2[d] = h * pow2[d + 1]
      <4>1. pow2[d] \in Nat /\ pow2[d + 1] = 2 * pow2[d]
        BY Pow2Step
      <4>. QED BY <4>1
    <3>3. (2 * h) * p + m - 1 = X /\ (2 * h) * p + Len(l) - 1 = Z
      BY <2>6
    <3>. HIDE DEF p, X, Z
    <3>4. Comes(path, X, Z, l, m, h * pow2[d + 1], h * pow2[d + 1])
      BY <3>1, <3>2, <3>3
    <3>. QED BY <3>2, <3>4
  <2>9. CASE ~(Len(l) <= p)
    <3>1. _split(Len(l)) = p
      <4>1. pow2[k] < Len(l)
        BY <2>2, <2>4, <2>9
      <4>. QED BY <2>1, <2>4, <4>1, SplitAt
    <3>2. /\ firstPart(l) \in Seq(Leaf) /\ Len(firstPart(l)) = p
          /\ secondPart(l) \in Seq(Leaf) /\ Len(secondPart(l)) = Len(l) - p
      <4>1. /\ firstPart(l) \in Seq(Leaf) /\ Len(firstPart(l)) = _split(Len(l))
            /\ secondPart(l) \in Seq(Leaf)
            /\ Len(secondPart(l)) = Len(l) - _split(Len(l))
        BY <2>4, Parts, Zenon
      <4>. HIDE DEF p
      <4>. QED BY <3>1, <4>1
    <3>. DEFINE n == Len(l)
                w == 2 * h + 1
    <3>3. n \in Nat /\ n > p /\ n <= 2 * p
      BY <2>1, <2>2, <2>4, <2>9
    <3>4. w \in Nat /\ w % 2 = 1 /\ w \div 2 = h
      BY Halves
    <3>5. CASE m <= p
      <4>1. m \in 1.._split(Len(l)) /\ m \in 1..p
        BY <2>2, <2>4, <3>1, <3>5
      <4>2. Begins(path, subproof[firstPart(l)][m][FALSE])
        BY <2>1, <2>4, <4>1, BeginsFirst
      <4>3. /\ n - p - 1 \in 0..(p - 1) /\ 2 * h # w /\ (2 * h) % 2 = 0
            /\ (2 * h) * p + m - 1 = X /\ w * p + (n - p - 1) = Z
        <5>. HIDE DEF p, x
        <5>. QED BY <2>2, <2>4, <2>6, <3>3
      <4>4. Comes(path, (2 * h) * p + m - 1, w * p + (n - p - 1), firstPart(l), m, 2 * h, w)
        <5>. HIDE DEF w, n
        <5>. QED BY <2>3, <2>6, <3>2, <3>4, <4>1, <4>2, <4>3 DEF Inside
      <4>. HIDE DEF X, Z, w, p
      <4>5. Comes(path, X, Z, firstPart(l), m, 2 * h, w)
        BY <4>3, <4>4
      <4>6. Comes(path, X, Z, l, m, h, w \div 2)
        BY <2>1, <2>4, <3>4, <4>1, <4>3, <4>5, ComesRight
      <4>7. h * pow2[0] = h
        BY <2>5
      <4>8. Comes(path, X, Z, l, m, h * pow2[0], h * pow2[0])
        BY <3>4, <4>6, <4>7
      <4>. QED BY <2>5, <4>8
    <3>6. CASE ~(m <= p)
      <4>1. m > _split(Len(l)) /\ m - p \in 1..(Len(secondPart(l)) - 1)
        <5>1. m > p /\ m - p \in 1..(n - p - 1)
          <6>. HIDE DEF p
          <6>. QED BY <2>2, <2>4, <3>6
        <5>. HIDE DEF p
        <5>. QED BY <3>1, <3>2, <5>1
      <4>2. Begins(path, subproof[secondPart(l)][m - p][FALSE])
        BY <2>1, <2>4, <3>1, <4>1, BeginsSecond
      <4>3. /\ Len(secondPart(l)) <= p
            /\ w * p + (m - p) - 1 = X /\ w * p + (n - p) - 1 = Z
        <5>. HIDE DEF p, x
        <5>. QED BY <2>2, <2>4, <2>6, <3>2, <3>3
      <4>4. PICK d \in Nat : Comes(path, w * p + (m - p) - 1,
                                   w * p + Len(secondPart(l)) - 1, secondPart(l), m - p,
                                   w * pow2[d], w * pow2[d])
        <5>. HIDE DEF w, n
        <5>. QED BY <2>3, <3>2, <3>4, <4>1, <4>2, <4>3 DEF Rightmost
      <4>. DEFINE y == w * pow2[d]
      <4>5. y \in Nat
        <5>1. pow2[d] \in Nat
          BY Pow2Step
        <5>2. \A a, b \in Nat : a * b \in Nat
          OBVIOUS
        <5>. HIDE DEF w
        <5>. QED BY <3>4, <5>1, <5>2, Zenon
      <4>6. shiftWhile[y][y][0] = [fn |-> w, sn |-> w]
        <5>. HIDE DEF w
        <5>. QED BY <3>4, ShiftZeros
      <4>. HIDE DEF X, Z, w, p, y
      <4>7. Comes(path, X, Z, secondPart(l), m - _split(Len(l)), y, y)
        BY <3>1, <3>2, <4>3, <4>4 DEF y
      <4>8. Comes(path, X, Z, l, m, w \div 2, w \div 2)
        BY <2>1, <2>4, <3>4, <4>1, <4>5, <4>6, <4>7, ComesLeft
      <4>9. h * pow2[0] = h
        BY <2>5
      <4>10. Comes(path, X, Z, l, m, h * pow2[0], h * pow2[0])
        BY <3>4, <4>8, <4>9
      <4>. QED BY <2>5, <4>10
    <3>. QED BY <3>5, <3>6
  <2>. QED BY <2>8, <2>9
<1>. HIDE DEF T
<1>3. \A k \in Nat : k \in T
  BY <1>1, <1>2, Induction
<1>. QED BY <1>3 DEF T

\* Along the proof from a new tree, not complete, the climb ends at the roots of both.
LEMMA ClimbsToRoots ==
    ASSUME NEW l \in Seq(Leaf), NEW m \in 1..(Len(l) - 1)
    PROVE  LET p == subproof[l][m][FALSE]
           IN climb(shiftWhile[m - 1][Len(l) - 1][1], p)[Len(p)]
                = Stand(0, 0, merkle_root[Prefix(l, m)], merkle_root[l])
<1>. DEFINE p == subproof[l][m][FALSE]
<1>1. p \in Seq(Roots)
  <2>1. m \in 1..Len(l) /\ FALSE \in BOOLEAN
    OBVIOUS
  <2>. QED BY <2>1, SubproofIsPath
<1>2. Begins(p, p)
  BY <1>1 DEF Begins
<1>3. PICK k \in Nat : Len(l) <= pow2[k]
  <2>1. Len(l) \in Nat \ {0}
    OBVIOUS
  <2>2. PICK k \in 0..Len(l) : Len(l) < pow2[k + 1]
    BY <2>1, Pow2Covers
  <2>3. k + 1 \in Nat /\ pow2[k + 1] \in Nat /\ Len(l) <= pow2[k + 1]
    <3>1. k \in Nat /\ k + 1 \in Nat
      BY <2>1
    <3>2. pow2[k + 1] \in Nat
      BY <3>1, Pow2Step
    <3>. QED BY <2>1, <2>2, <3>1, <3>2
  <2>. QED BY <2>3
<1>4. Rightmost(k, p) /\ 0 \in Nat
  BY <1>1, RightmostAll
<1>5. PICK d \in Nat : Comes(p, 0 * pow2[k] + m - 1, 0 * pow2[k] + Len(l) - 1, l, m,
                             0 * pow2[d], 0 * pow2[d])
  <2>1. Begins(p, subproof[l][m][FALSE])
    BY <1>2
  <2>. HIDE DEF p
  <2>. QED BY <1>3, <1>4, <2>1, Zenon DEF Rightmost
<1>6. 0 * pow2[k] + m - 1 = m - 1 /\ 0 * pow2[k] + Len(l) - 1 = Len(l) - 1
      /\ 0 * pow2[d] = 0
  <2>1. pow2[k] \in Nat /\ pow2[d] \in Nat
    BY Pow2Step
  <2>2. \A q \in Nat : 0 * q = 0
    OBVIOUS
  <2>3. 0 * pow2[k] = 0 /\ 0 * pow2[d] = 0
    BY <2>1, <2>2
  <2>. QED BY <2>3
<1>. HIDE DEF p
<1>7. Comes(p, m - 1, Len(l) - 1, l, m, 0, 0)
  BY <1>5, <1>6
<1>. QED BY <1>7 DEF Comes, p

----------------------------------------------------------------------------
(***************************************************************************)
(* What the proof leaves out: the root of the old tree, when it is a part  *)
(* of the new one, that is, when its size is a power of two.               *)
(***************************************************************************)
LEMMA AppendAfter ==
    ASSUME NEW q \in Seq(Roots), NEW r \in Roots, NEW t \in Roots
    PROVE  Append(<<r>> \o q, t) = <<r>> \o Append(q, t)
<1>. DEFINE a == Append(<<r>> \o q, t)
            b == <<r>> \o Append(q, t)
<1>1. /\ a \in Seq(Roots) /\ Len(a) = Len(q) + 2 /\ b \in Seq(Roots) /\ Len(b) = Len(q) + 2
  OBVIOUS
<1>2. \A i \in 1..(Len(q) + 2) : a[i] = b[i]
  OBVIOUS
<1>. HIDE DEF a, b
<1>3. a = b
  BY <1>1, <1>2
<1>. QED BY <1>3 DEF a, b

\* Of a size that is not a power of two, the subtree of the old leaves alone is never met.
LEMMA NeverComplete ==
    \A l \in Seq(Leaf) : \A m \in 1..(Len(l) - 1) :
        (\A j \in Nat : m # pow2[j]) => subproof[l][m][TRUE] = subproof[l][m][FALSE]
<1>. DEFINE Q(l) == \A m \in 1..(Len(l) - 1) :
                       (\A j \in Nat : m # pow2[j]) =>
                          subproof[l][m][TRUE] = subproof[l][m][FALSE]
            T == {n \in Nat : \A l \in Seq(Leaf) : Len(l) < n => Q(l)}
<1>1. 0 \in T
  <2>. HIDE DEF Q
  <2>. QED OBVIOUS
<1>2. ASSUME NEW n \in Nat, n \in T PROVE n + 1 \in T
  <2>0. SUFFICES ASSUME NEW l \in Seq(Leaf), Len(l) < n + 1 PROVE Q(l)
    <3>. HIDE DEF Q
    <3>. QED OBVIOUS
  <2>1. SUFFICES ASSUME NEW m \in 1..(Len(l) - 1), \A j \in Nat : m # pow2[j]
                 PROVE  subproof[l][m][TRUE] = subproof[l][m][FALSE]
    OBVIOUS
  <2>2. /\ Len(l) \in Nat /\ Len(l) >= 2 /\ m \in 1..Len(l) /\ m # Len(l)
        /\ TRUE \in BOOLEAN /\ FALSE \in BOOLEAN
    OBVIOUS
  <2>3. PICK k \in Nat : _split(Len(l)) = pow2[k]
    BY <2>2, SplitFacts
  <2>4. CASE m <= _split(Len(l))
    <3>1. /\ firstPart(l) \in Seq(Leaf) /\ Len(firstPart(l)) < n
          /\ m \in 1..(Len(firstPart(l)) - 1)
      <4>1. /\ firstPart(l) \in Seq(Leaf) /\ Len(firstPart(l)) = _split(Len(l))
            /\ _split(Len(l)) \in 1..(Len(l) - 1)
        BY <2>2, Parts
      <4>2. m # _split(Len(l))
        BY <2>1, <2>3
      <4>. QED BY <2>0, <2>4, <4>1, <4>2
    <3>2. subproof[firstPart(l)][m][TRUE] = subproof[firstPart(l)][m][FALSE]
      BY <1>2, <2>1, <3>1
    <3>3. ASSUME NEW c \in BOOLEAN
          PROVE  subproof[l][m][c] =
                   Append(subproof[firstPart(l)][m][c], merkle_root[secondPart(l)])
      BY <2>2, <2>4, SubproofStep
    <3>. QED BY <2>2, <3>2, <3>3
  <2>5. CASE ~(m <= _split(Len(l)))
    <3>1. ASSUME NEW c \in BOOLEAN
          PROVE  subproof[l][m][c] =
                   Append(subproof[secondPart(l)][m - _split(Len(l))][FALSE],
                          merkle_root[firstPart(l)])
      BY <2>2, <2>5, SubproofStep
    <3>. QED BY <2>2, <3>1
  <2>. QED BY <2>4, <2>5
<1>. HIDE DEF T
<1>3. \A n \in Nat : n \in T
  BY <1>1, <1>2, Induction
<1>4. SUFFICES ASSUME NEW l \in Seq(Leaf)
               PROVE \A m \in 1..(Len(l) - 1) :
                        (\A j \in Nat : m # pow2[j]) =>
                           subproof[l][m][TRUE] = subproof[l][m][FALSE]
  OBVIOUS
<1>5. Len(l) + 1 \in T /\ Len(l) < Len(l) + 1
  BY <1>3
<1>. QED BY <1>5 DEF T

\* Two logs of one size with the same leaves after the first m.
SameAfter(m, l, w) == Len(l) = Len(w) /\ \A i \in 1..Len(l) : i > m => l[i] = w[i]

\* Of a size that is a power of two, only that root is missing, and the rest does not
\* depend on the old leaves.
LEMMA FirstMissing ==
    ASSUME NEW j \in Nat
    PROVE  \A l, w \in Seq(Leaf) : pow2[j] <= Len(l) /\ SameAfter(pow2[j], l, w) =>
              subproof[w][pow2[j]][FALSE] =
                <<merkle_root[Prefix(w, pow2[j])]>> \o subproof[l][pow2[j]][TRUE]
<1>. DEFINE m == pow2[j]
            P(l, w) == subproof[w][m][FALSE] =
                         <<merkle_root[Prefix(w, m)]>> \o subproof[l][m][TRUE]
            T == {n \in Nat : \A l, w \in Seq(Leaf) :
                     Len(l) < n /\ m <= Len(l) /\ SameAfter(m, l, w) => P(l, w)}
<1>0. m \in Nat /\ m > 0
  BY Pow2Step
<1>1. 0 \in T
  <2>. HIDE DEF P, m
  <2>. QED OBVIOUS
<1>2. ASSUME NEW n \in Nat, n \in T PROVE n + 1 \in T
  <2>0. \A l, w \in Seq(Leaf) : Len(l) < n /\ m <= Len(l) /\ SameAfter(m, l, w) => P(l, w)
    BY <1>2
  <2>1. SUFFICES ASSUME NEW l \in Seq(Leaf), NEW w \in Seq(Leaf), Len(l) < n + 1,
                        m <= Len(l), SameAfter(m, l, w)
                 PROVE  P(l, w)
    <3>. HIDE DEF P
    <3>. QED OBVIOUS
  <2>2. Len(l) = Len(w) /\ m \in 1..Len(l) /\ m \in 1..Len(w) /\ Len(l) \in Nat
    BY <1>0, <2>1 DEF SameAfter
  <2>3. CASE m = Len(l)
    <3>. HIDE DEF m
    <3>1. subproof[w][m][FALSE] = <<merkle_root[w]>> /\ subproof[l][m][TRUE] = << >>
      BY <2>2, <2>3, SubproofStep
    <3>2. Prefix(w, m) = w
      BY <2>2, <2>3, PrefixWhole
    <3>3. merkle_root[w] \in Roots
      BY DEF Roots
    <3>4. <<merkle_root[w]>> \o << >> = <<merkle_root[w]>>
      BY <3>3
    <3>. QED BY <3>1, <3>2, <3>4
  <2>4. CASE m # Len(l)
    <3>. DEFINE s == _split(Len(l))
                r == merkle_root[Prefix(w, m)]
                q == subproof[firstPart(l)][m][TRUE]
                t == merkle_root[secondPart(l)]
    <3>1. Len(l) >= 2 /\ Len(w) >= 2
      BY <1>0, <2>2, <2>4
    <3>2. s \in 1..(Len(l) - 1) /\ m <= s
      <4>1. PICK k \in Nat : /\ _split(Len(l)) = pow2[k] /\ Len(l) <= pow2[k + 1]
                             /\ pow2[k] \in 1..(Len(l) - 1)
        BY <2>2, <3>1, SplitFacts
      <4>2. CASE j <= k
        <5>1. k - j \in Nat /\ j + (k - j) = k
          BY <4>2
        <5>2. pow2[j] <= pow2[k]
          BY <5>1, Pow2Grows
        <5>. QED BY <4>1, <5>2
      <4>3. CASE ~(j <= k)
        <5>1. k + 1 \in Nat /\ j - (k + 1) \in Nat /\ (k + 1) + (j - (k + 1)) = j
          BY <4>3
        <5>2. pow2[k + 1] <= pow2[j] /\ pow2[k + 1] \in Nat
          BY <5>1, Pow2Grows, Pow2Step
        <5>3. FALSE
          BY <1>0, <2>2, <2>4, <4>1, <5>2
        <5>. QED BY <5>3
      <4>. QED BY <4>2, <4>3
    <3>. HIDE DEF m
    <3>3. /\ firstPart(l) \in Seq(Leaf) /\ Len(firstPart(l)) = s
          /\ firstPart(w) \in Seq(Leaf) /\ Len(firstPart(w)) = s
          /\ secondPart(l) \in Seq(Leaf) /\ Len(secondPart(l)) = Len(l) - s
          /\ secondPart(w) \in Seq(Leaf) /\ Len(secondPart(w)) = Len(l) - s
          /\ \A i \in 1..s : firstPart(l)[i] = l[i] /\ firstPart(w)[i] = w[i]
          /\ \A i \in 1..(Len(l) - s) : /\ secondPart(l)[i] = l[s + i]
                                        /\ secondPart(w)[i] = w[s + i]
      BY <2>2, <3>1, Parts
    <3>4. SameAfter(m, firstPart(l), firstPart(w))
      <4>1. \A i \in 1..s : i \in 1..Len(l)
        BY <3>2
      <4>2. ASSUME NEW i \in 1..s, i > m PROVE firstPart(l)[i] = firstPart(w)[i]
        BY <2>1, <3>3, <4>1, <4>2 DEF SameAfter
      <4>. HIDE DEF s
      <4>. QED BY <3>3, <4>2 DEF SameAfter
    <3>5. secondPart(l) = secondPart(w)
      <4>. DEFINE a == secondPart(l)
                  b == secondPart(w)
      <4>1. ASSUME NEW i \in 1..(Len(l) - s) PROVE a[i] = b[i]
        <5>1. s + i \in 1..Len(l) /\ s + i > m
          <6>. HIDE DEF s
          <6>. QED BY <1>0, <2>2, <3>2
        <5>2. l[s + i] = w[s + i]
          BY <2>1, <5>1 DEF SameAfter
        <5>. QED BY <3>3, <5>2
      <4>2. /\ a \in Seq(Leaf) /\ Len(a) = Len(l) - s /\ b \in Seq(Leaf)
            /\ Len(b) = Len(l) - s
        BY <3>3
      <4>. HIDE DEF a, b, s
      <4>3. a = b
        BY <4>1, <4>2
      <4>. QED BY <4>3 DEF a, b
    <3>6. Prefix(firstPart(w), m) = Prefix(w, m)
      <4>1. m \in 1.._split(Len(w))
        BY <2>2, <3>2
      <4>. QED BY <3>1, <4>1, PrefixInFirst
    <3>7. subproof[firstPart(w)][m][FALSE] = <<r>> \o q
      <4>1. Len(firstPart(l)) < n /\ m <= Len(firstPart(l))
        <5>1. s < n
          BY <2>1, <2>2, <3>2
        <5>. QED BY <3>2, <3>3, <5>1
      <4>2. P(firstPart(l), firstPart(w))
        <5>. HIDE DEF P
        <5>. QED BY <2>0, <3>3, <3>4, <4>1
      <4>. QED BY <3>6, <4>2
    <3>8. /\ subproof[l][m][TRUE] = Append(q, t)
          /\ subproof[w][m][FALSE] = Append(subproof[firstPart(w)][m][FALSE],
                                            merkle_root[secondPart(w)])
      BY <2>2, <2>4, <3>2, SubproofStep
    <3>9. q \in Seq(Roots) /\ r \in Roots /\ t \in Roots
      <4>1. m \in 1..Len(firstPart(l)) /\ m \in 0..Len(w) /\ TRUE \in BOOLEAN
        BY <2>2, <3>2, <3>3
      <4>2. Prefix(w, m) \in Seq(Leaf)
        BY <4>1, PrefixLeaves
      <4>. QED BY <3>3, <4>1, <4>2, SubproofIsPath DEF Roots
    <3>. HIDE DEF q, r, t
    <3>10. Append(<<r>> \o q, t) = <<r>> \o Append(q, t)
      BY <3>9, AppendAfter
    <3>11. subproof[w][m][FALSE] = <<r>> \o subproof[l][m][TRUE]
      BY <3>5, <3>7, <3>8, <3>10 DEF t
    <3>. QED BY <3>11 DEF r
  <2>. QED BY <2>3, <2>4
<1>. HIDE DEF T
<1>3. \A n \in Nat : n \in T
  BY <1>1, <1>2, Induction
<1>4. SUFFICES ASSUME NEW l \in Seq(Leaf), NEW w \in Seq(Leaf), m <= Len(l),
                      SameAfter(m, l, w)
               PROVE  P(l, w)
  <2>. HIDE DEF P
  <2>1. \A l, w \in Seq(Leaf) : m <= Len(l) /\ SameAfter(m, l, w) => P(l, w)
    OBVIOUS
  <2>. QED BY <2>1 DEF P
<1>5. Len(l) + 1 \in T /\ Len(l) < Len(l) + 1
  BY <1>3
<1>. HIDE DEF P
<1>. QED BY <1>4, <1>5 DEF T

----------------------------------------------------------------------------
\* The proof of consistency of two sizes of a log verifies with the roots of any two logs
\* of these sizes, where the new one issued it, exactly if the old one begins the new one
\* (consistency_proof, verify_consistency): a rewritten history never verifies.
THEOREM ConsistencySound ==
    ASSUME NEW l \in Seq(Leaf), NEW w \in Seq(Leaf), Len(l) > 0, Len(l) <= Len(w)
    PROVE  verify_consistency(Len(l), Len(w), merkle_root[l], merkle_root[w],
                              consistency_proof(w, Len(l)))
             <=> l = Prefix(w, Len(l))
<1>. DEFINE m == Len(l)
            v == Len(w)
            c == subproof[w][m][TRUE]
            n == shiftWhile[m - 1][v - 1][1]
            nodes == IF n.fn = 0 THEN <<merkle_root[l]>> \o c ELSE c
            top == climb(n, nodes)[Len(nodes)]
            same == l = Prefix(w, m)
<1>1. m \in 1..v /\ m \in 0..v /\ v \in Nat
  OBVIOUS
<1>2. Prefix(w, m) \in Seq(Leaf) /\ Len(Prefix(w, m)) = m
  BY <1>1, PrefixLeaves
<1>3. CASE m = v
  <2>. HIDE DEF m, v, c
  <2>1. c = << >>
    <3>1. m \in 1..Len(w) /\ m = Len(w) /\ TRUE \in BOOLEAN
      BY <1>1, <1>3 DEF v
    <3>. QED BY <3>1, SubproofStep, Zenon DEF c
  <2>2. Prefix(w, m) = w
    BY <1>3, PrefixWhole DEF v
  <2>3. merkle_root[l] = merkle_root[w] <=> l = w
    BY <1>3, RootDeterminesLeaves DEF m, v
  <2>4. 0 < m /\ m <= v
    BY <1>1
  <2>5. verify_consistency(m, v, merkle_root[l], merkle_root[w], c) <=> l = w
    BY <1>3, <2>1, <2>3, <2>4 DEF verify_consistency
  <2>. QED BY <2>2, <2>5 DEF consistency_proof, m, v, c
<1>4. CASE m # v
  <2>1. m \in 1..(v - 1) /\ 0 < m /\ m <= v
    BY <1>1, <1>4
  <2>2. nodes # << >> /\ top.fn = 0
        /\ (top.first = merkle_root[l] /\ top.second = merkle_root[w] <=> same)
    <3>1. CASE \E j \in Nat : m = pow2[j]
      <4>1. PICK j \in Nat : m = pow2[j]
        BY <3>1
      <4>. DEFINE u == [i \in 1..v |-> IF i <= m THEN l[i] ELSE w[i]]
                  p == subproof[u][m][FALSE]
      <4>2. u \in Seq(Leaf) /\ Len(u) = v
        <5>1. u \in [1..v -> Leaf]
          OBVIOUS
        <5>. QED BY <1>1, <5>1
      <4>3. /\ \A i \in 1..m : u[i] = l[i]
            /\ \A i \in 1..v : i > m => u[i] = w[i]
        BY <1>1
      <4>. HIDE DEF u
      <4>4. Prefix(u, m) = l
        <5>. DEFINE a == Prefix(u, m)
        <5>1. a \in Seq(Leaf) /\ Len(a) = m /\ \A i \in 1..m : a[i] = u[i]
          BY <1>1, <4>2, PrefixLeaves
        <5>. HIDE DEF a
        <5>2. a = l
          BY <4>3, <5>1
        <5>. QED BY <5>2 DEF a
      <4>5. n.fn = 0
        <5>1. v - 1 \in Nat
          BY <2>1
        <5>. HIDE DEF m, v
        <5>. QED BY <4>1, <5>1, ShiftToZero
      <4>6. p = <<merkle_root[l]>> \o c
        <5>1. SameAfter(m, w, u) /\ m <= Len(w)
          BY <1>1, <4>2, <4>3 DEF SameAfter
        <5>. HIDE DEF m
        <5>2. p = <<merkle_root[Prefix(u, m)]>> \o subproof[w][m][TRUE]
          BY <4>1, <4>2, <5>1, FirstMissing
        <5>. QED BY <4>4, <5>2
      <4>7. nodes = p
        <5>. HIDE DEF p, c, n
        <5>. QED BY <4>5, <4>6
      <4>8. climb(n, p)[Len(p)] = Stand(0, 0, merkle_root[l], merkle_root[u])
        <5>1. m \in 1..(Len(u) - 1)
          BY <2>1, <4>2
        <5>. HIDE DEF m, v
        <5>. QED BY <4>2, <4>4, <5>1, ClimbsToRoots
      <4>9. p # << >>
        <5>1. m \in 1..Len(u)
          BY <1>1, <4>2
        <5>2. Len(p) > 0
          <6>. HIDE DEF m
          <6>. QED BY <4>2, <5>1, SubproofNotEmpty
        <5>. HIDE DEF p
        <5>. QED BY <5>2
      <4>10. merkle_root[u] = merkle_root[w] <=> u = w
        BY <4>2, RootDeterminesLeaves
      <4>11. u = w <=> same
        <5>1. ASSUME u = w PROVE same
          BY <4>4, <5>1
        <5>2. ASSUME same PROVE u = w
          <6>1. \A i \in 1..m : w[i] = l[i]
            <7>. DEFINE a == Prefix(w, m)
            <7>1. \A i \in 1..m : a[i] = w[i]
              BY <1>1, PrefixLeaves
            <7>2. a = l
              BY <5>2
            <7>. HIDE DEF a
            <7>. QED BY <7>1, <7>2
          <6>2. \A i \in 1..v : u[i] = w[i]
            <7>1. ASSUME NEW i \in 1..v PROVE u[i] = w[i]
              <8>1. CASE i <= m
                <9>1. i \in 1..m
                  BY <1>1, <8>1
                <9>. QED BY <4>3, <6>1, <9>1
              <8>2. CASE ~(i <= m)
                <9>1. i > m
                  BY <1>1, <8>2
                <9>. QED BY <4>3, <9>1
              <8>. QED BY <8>1, <8>2
            <7>. QED BY <7>1
          <6>. QED BY <4>2, <6>2
        <5>. QED BY <5>1, <5>2
      <4>. HIDE DEF p, n, c, same, nodes
      <4>12. top = Stand(0, 0, merkle_root[l], merkle_root[u])
        BY <4>7, <4>8
      <4>. HIDE DEF top
      <4>13. top.fn = 0 /\ top.first = merkle_root[l] /\ top.second = merkle_root[u]
        BY <4>12 DEF Stand
      <4>. QED BY <4>7, <4>9, <4>10, <4>11, <4>13
    <3>2. CASE ~(\E j \in Nat : m = pow2[j])
      <4>. DEFINE p == subproof[w][m][FALSE]
                  o == merkle_root[Prefix(w, m)]
      <4>1. n.fn # 0
        <5>1. m - 1 \in Nat /\ v - 1 \in Nat /\ (m - 1) + 1 = m
          BY <1>1
        <5>. HIDE DEF m, v
        <5>. QED BY <3>2, <5>1, ZeroIsPower
      <4>2. c = p
        <5>. HIDE DEF m
        <5>. QED BY <2>1, <3>2, NeverComplete
      <4>3. nodes = p
        <5>. HIDE DEF p, c, n
        <5>. QED BY <4>1, <4>2
      <4>4. climb(n, p)[Len(p)] = Stand(0, 0, o, merkle_root[w])
        <5>. HIDE DEF m
        <5>. QED BY <2>1, ClimbsToRoots
      <4>5. p # << >>
        <5>1. Len(p) > 0
          <6>. HIDE DEF m
          <6>. QED BY <1>1, SubproofNotEmpty
        <5>. HIDE DEF p
        <5>. QED BY <5>1
      <4>6. o = merkle_root[l] <=> same
        <5>1. Prefix(w, m) = l <=> merkle_root[Prefix(w, m)] = merkle_root[l]
          BY <1>2, RootDeterminesLeaves
        <5>. QED BY <5>1
      <4>. HIDE DEF p, n, c, same, nodes, o
      <4>7. top = Stand(0, 0, o, merkle_root[w])
        BY <4>3, <4>4
      <4>. HIDE DEF top
      <4>8. top.fn = 0 /\ top.first = o /\ top.second = merkle_root[w]
        BY <4>7 DEF Stand
      <4>. QED BY <4>3, <4>5, <4>6, <4>8
    <3>. QED BY <3>1, <3>2
  <2>3. verify_consistency(m, v, merkle_root[l], merkle_root[w], c)
          <=> nodes # << >> /\ top.fn = 0 /\ top.first = merkle_root[l]
              /\ top.second = merkle_root[w]
    <3>. HIDE DEF m, v, c
    <3>. QED BY <1>4, <2>1 DEF verify_consistency
  <2>. HIDE DEF nodes, top, same
  <2>4. verify_consistency(m, v, merkle_root[l], merkle_root[w], c) <=> same
    BY <2>2, <2>3
  <2>. QED BY <2>4 DEF consistency_proof, same
<1>. QED BY <1>3, <1>4

----------------------------------------------------------------------------
(***************************************************************************)
(* Paths nobody made.  Whatever nodes are sent and whatever sizes are      *)
(* claimed, both roots of a climb take the same siblings on the left and   *)
(* only the new one takes siblings on the right: the leaves below the one  *)
(* always begin the leaves below the other.                                *)
(***************************************************************************)
LEMMA LeafIsNoNode ==
    ASSUME NEW leaf \in Leaf, NEW a, NEW b
    PROVE  leaf # node_digest(a, b)
<1>1. DOMAIN leaf = {"sequence", "epoch", "head"}
  BY DEF Leaf
<1>2. DOMAIN node_digest(a, b) = {"left", "right"}
  BY DEF node_digest
<1>3. "epoch" \notin {"left", "right"}
  OBVIOUS
<1>. QED BY <1>1, <1>2, <1>3

LEMMA RootTellsSize ==
    ASSUME NEW l \in Seq(Leaf), NEW m \in Seq(Leaf), Len(l) > 0, Len(m) > 0,
           merkle_root[l] = merkle_root[m]
    PROVE  Len(l) = Len(m)
<1>. DEFINE T == {n \in Nat : \A a, b \in Seq(Leaf) :
                     /\ Len(a) < n /\ Len(a) > 0 /\ Len(b) > 0
                     /\ merkle_root[a] = merkle_root[b]
                     => Len(a) = Len(b)}
<1>0. ASSUME NEW a \in Seq(Leaf), Len(a) = 1, NEW b \in Seq(Leaf), Len(b) >= 2
      PROVE  merkle_root[a] # merkle_root[b]
  <2>1. a[1] \in Leaf /\ merkle_root[a] = a[1]
    BY <1>0, RootStep
  <2>2. merkle_root[b] = node_digest(merkle_root[firstPart(b)], merkle_root[secondPart(b)])
    BY <1>0, RootStep
  <2>3. a[1] # node_digest(merkle_root[firstPart(b)], merkle_root[secondPart(b)])
    BY <2>1, LeafIsNoNode
  <2>. QED BY <2>1, <2>2, <2>3
<1>1. 0 \in T
  OBVIOUS
<1>2. ASSUME NEW n \in Nat, n \in T PROVE n + 1 \in T
  <2>1. SUFFICES ASSUME NEW a \in Seq(Leaf), NEW b \in Seq(Leaf), Len(a) < n + 1,
                        Len(a) > 0, Len(b) > 0, merkle_root[a] = merkle_root[b]
                 PROVE  Len(a) = Len(b)
    OBVIOUS
  <2>2. /\ Len(a) \in Nat /\ (Len(a) = 1 \/ Len(a) >= 2)
        /\ Len(b) \in Nat /\ (Len(b) = 1 \/ Len(b) >= 2)
    <3>1. Len(a) # 0 /\ Len(b) # 0
      BY <2>1
    <3>. QED BY <3>1, Sizes
  <2>3. CASE Len(a) = 1 /\ Len(b) = 1
    BY <2>3
  <2>4. CASE Len(a) >= 2 /\ Len(b) >= 2
    <3>1. /\ firstPart(a) \in Seq(Leaf) /\ secondPart(a) \in Seq(Leaf)
          /\ Len(firstPart(a)) \in 1..(Len(a) - 1)
          /\ Len(secondPart(a)) = Len(a) - Len(firstPart(a))
      BY <2>2, <2>4, Parts
    <3>2. /\ firstPart(b) \in Seq(Leaf) /\ secondPart(b) \in Seq(Leaf)
          /\ Len(firstPart(b)) \in 1..(Len(b) - 1)
          /\ Len(secondPart(b)) = Len(b) - Len(firstPart(b))
      BY <2>2, <2>4, Parts
    <3>3. node_digest(merkle_root[firstPart(a)], merkle_root[secondPart(a)])
            = node_digest(merkle_root[firstPart(b)], merkle_root[secondPart(b)])
      BY <2>1, <2>4, RootStep
    <3>4. /\ merkle_root[firstPart(a)] = merkle_root[firstPart(b)]
          /\ merkle_root[secondPart(a)] = merkle_root[secondPart(b)]
      BY <3>3, NodeInjective
    <3>5. /\ Len(firstPart(a)) < n /\ Len(firstPart(a)) > 0 /\ Len(firstPart(b)) > 0
          /\ Len(secondPart(a)) < n /\ Len(secondPart(a)) > 0 /\ Len(secondPart(b)) > 0
      BY <2>1, <2>2, <3>1, <3>2
    <3>6. /\ Len(firstPart(a)) = Len(firstPart(b))
          /\ Len(secondPart(a)) = Len(secondPart(b))
      BY <1>2, <3>1, <3>2, <3>4, <3>5
    <3>7. Len(a) = Len(firstPart(a)) + Len(secondPart(a))
      BY <2>2, <3>1
    <3>8. Len(b) = Len(firstPart(b)) + Len(secondPart(b))
      BY <2>2, <3>2
    <3>. QED BY <3>6, <3>7, <3>8
  <2>5. CASE Len(a) = 1 /\ Len(b) >= 2
    BY <1>0, <2>1, <2>5
  <2>6. CASE Len(a) >= 2 /\ Len(b) = 1
    BY <1>0, <2>1, <2>6
  <2>. QED BY <2>2, <2>3, <2>4, <2>5, <2>6
<1>. HIDE DEF T
<1>3. \A n \in Nat : n \in T
  BY <1>1, <1>2, Induction
<1>4. Len(l) + 1 \in T /\ Len(l) < Len(l) + 1
  BY <1>3
<1>. QED BY <1>4 DEF T

\* The leaves of l are the first of w.
Starts(l, w) == Len(l) <= Len(w) /\ \A i \in 1..Len(l) : l[i] = w[i]

\* If an old and a new tree have these roots, the old leaves are the first of the new ones.
Continues(first, second) ==
    \A l, w \in Seq(Leaf) :
        /\ Len(l) > 0 /\ Len(w) > 0
        /\ merkle_root[l] = first /\ merkle_root[w] = second
        => Starts(l, w)

LEMMA ContinuesItself ==
    ASSUME NEW x PROVE Continues(x, x)
<1>1. SUFFICES ASSUME NEW l \in Seq(Leaf), NEW w \in Seq(Leaf), Len(l) > 0, Len(w) > 0,
                      merkle_root[l] = merkle_root[w]
               PROVE  Starts(l, w)
  BY DEF Continues
<1>2. l = w
  BY <1>1, RootTellsSize, RootDeterminesLeaves
<1>. QED BY <1>2 DEF Starts

\* A tree with a node for its root has two parts with the roots below that node.
LEMMA NodeHasParts ==
    ASSUME NEW l \in Seq(Leaf), Len(l) > 0, NEW a, NEW b,
           merkle_root[l] = node_digest(a, b)
    PROVE  /\ Len(l) >= 2
           /\ merkle_root[firstPart(l)] = a /\ merkle_root[secondPart(l)] = b
<1>1. Len(l) >= 2
  <2>1. Len(l) # 1
    <3>1. SUFFICES ASSUME Len(l) = 1 PROVE FALSE
      OBVIOUS
    <3>2. l[1] \in Leaf /\ merkle_root[l] = l[1]
      BY <3>1, RootStep
    <3>. QED BY <3>2, LeafIsNoNode
  <2>2. Len(l) # 0
    OBVIOUS
  <2>. QED BY <2>1, <2>2, Sizes
<1>2. node_digest(a, b) = node_digest(merkle_root[firstPart(l)], merkle_root[secondPart(l)])
  BY <1>1, RootStep
<1>3. a = merkle_root[firstPart(l)] /\ b = merkle_root[secondPart(l)]
  <2>. DEFINE c == merkle_root[firstPart(l)]
              d == merkle_root[secondPart(l)]
  <2>1. node_digest(a, b) = node_digest(c, d)
    BY <1>2
  <2>. HIDE DEF c, d
  <2>2. a = c /\ b = d
    BY <2>1, NodeInjective
  <2>. QED BY <2>2 DEF c, d
<1>. QED BY <1>1, <1>3

LEMMA ContinuesRight ==
    ASSUME NEW x, NEW y, Continues(x, y), NEW d
    PROVE  Continues(x, node_digest(y, d))
<1>1. SUFFICES ASSUME NEW l \in Seq(Leaf), NEW w \in Seq(Leaf), Len(l) > 0, Len(w) > 0,
                      merkle_root[l] = x, merkle_root[w] = node_digest(y, d)
               PROVE  Starts(l, w)
  BY DEF Continues
<1>2. Len(w) >= 2 /\ merkle_root[firstPart(w)] = y
  BY <1>1, NodeHasParts
<1>. DEFINE f == firstPart(w)
            s == _split(Len(w))
<1>3. /\ s \in 1..(Len(w) - 1) /\ f \in Seq(Leaf) /\ Len(f) = s
      /\ \A i \in 1..s : f[i] = w[i]
  BY <1>2, Parts, Zenon
<1>4. merkle_root[f] = y
  BY <1>2
<1>. HIDE DEF f, s
<1>5. Len(f) > 0
  BY <1>3
<1>6. Starts(l, f)
  BY <1>1, <1>3, <1>4, <1>5 DEF Continues
<1>7. Len(l) \in Nat /\ Len(w) \in Nat
  OBVIOUS
<1>8. Len(l) <= Len(w) /\ \A i \in 1..Len(l) : i \in 1..s
  BY <1>3, <1>6, <1>7 DEF Starts
<1>. QED BY <1>3, <1>6, <1>8 DEF Starts

LEMMA ContinuesLeft ==
    ASSUME NEW x, NEW y, Continues(x, y), NEW d
    PROVE  Continues(node_digest(d, x), node_digest(d, y))
<1>1. SUFFICES ASSUME NEW l \in Seq(Leaf), NEW w \in Seq(Leaf), Len(l) > 0, Len(w) > 0,
                      merkle_root[l] = node_digest(d, x), merkle_root[w] = node_digest(d, y)
               PROVE  Starts(l, w)
  BY DEF Continues
<1>2. /\ Len(l) >= 2 /\ merkle_root[firstPart(l)] = d /\ merkle_root[secondPart(l)] = x
      /\ Len(w) >= 2 /\ merkle_root[firstPart(w)] = d /\ merkle_root[secondPart(w)] = y
  BY <1>1, NodeHasParts
<1>. DEFINE s == _split(Len(l))
            t == _split(Len(w))
            a == firstPart(l)
            b == secondPart(l)
            c == firstPart(w)
            e == secondPart(w)
<1>3. /\ s \in 1..(Len(l) - 1)
      /\ a \in Seq(Leaf) /\ Len(a) = s /\ \A i \in 1..s : a[i] = l[i]
      /\ b \in Seq(Leaf) /\ Len(b) = Len(l) - s
      /\ \A i \in 1..(Len(l) - s) : b[i] = l[s + i]
  BY <1>2, Parts, Zenon
<1>4. /\ t \in 1..(Len(w) - 1)
      /\ c \in Seq(Leaf) /\ Len(c) = t /\ \A i \in 1..t : c[i] = w[i]
      /\ e \in Seq(Leaf) /\ Len(e) = Len(w) - t
      /\ \A i \in 1..(Len(w) - t) : e[i] = w[t + i]
  BY <1>2, Parts, Zenon
<1>5. /\ merkle_root[a] = d /\ merkle_root[c] = d
      /\ merkle_root[b] = x /\ merkle_root[e] = y
  BY <1>2
<1>. HIDE DEF s, t, a, b, c, e
<1>6. Len(l) \in Nat /\ Len(w) \in Nat
  OBVIOUS
<1>7. Len(a) > 0 /\ Len(b) > 0 /\ Len(c) > 0 /\ Len(e) > 0
  BY <1>3, <1>4, <1>6
<1>8. Len(a) = Len(c)
  BY <1>3, <1>4, <1>5, <1>7, RootTellsSize
<1>9. a = c /\ s = t
  BY <1>3, <1>4, <1>5, <1>8, RootDeterminesLeaves
<1>10. Starts(b, e)
  BY <1>3, <1>4, <1>5, <1>7 DEF Continues
<1>11. Len(l) <= Len(w)
  BY <1>3, <1>4, <1>6, <1>9, <1>10 DEF Starts
<1>12. ASSUME NEW i \in 1..Len(l) PROVE l[i] = w[i]
  <2>1. CASE i <= s
    <3>1. i \in 1..s
      BY <1>3, <1>6, <2>1
    <3>. QED BY <1>3, <1>4, <1>9, <3>1
  <2>2. CASE ~(i <= s)
    <3>1. i - s \in 1..(Len(l) - s) /\ s + (i - s) = i
      BY <1>3, <1>6, <2>2
    <3>2. Len(l) - s <= Len(w) - s /\ \A j \in 1..(Len(l) - s) : b[j] = e[j]
      BY <1>3, <1>4, <1>9, <1>10 DEF Starts
    <3>3. i - s \in 1..(Len(w) - s)
      BY <1>3, <1>6, <1>11, <3>1
    <3>4. b[i - s] = l[i] /\ e[i - s] = w[i]
      BY <1>3, <1>4, <1>9, <3>1, <3>3
    <3>. QED BY <3>1, <3>2, <3>4
  <2>. QED BY <2>1, <2>2
<1>. QED BY <1>11, <1>12 DEF Starts

LEMMA ClimbContinues ==
    ASSUME NEW n, NEW path, Len(path) \in Nat \ {0}
    PROVE  \A i \in 1..Len(path) :
              Continues(climb(n, path)[i].first, climb(n, path)[i].second)
<1>. DEFINE C == climb(n, path)
            T == {i \in Nat : i \in 1..Len(path) => Continues(C[i].first, C[i].second)}
<1>0. /\ C[1] = startOf(n, path)
      /\ \A i \in 1..Len(path) : i + 1 <= Len(path) => C[i + 1] = turn(C[i], path[i + 1])
  BY ClimbStep
<1>. HIDE DEF C
<1>1. 0 \in T
  OBVIOUS
<1>2. ASSUME NEW i \in Nat, i \in T PROVE i + 1 \in T
  <2>1. SUFFICES ASSUME i + 1 \in 1..Len(path)
                 PROVE  Continues(C[i + 1].first, C[i + 1].second)
    OBVIOUS
  <2>2. CASE i = 0
    <3>1. C[i + 1].first = path[1] /\ C[i + 1].second = path[1]
      BY <1>0, <2>2 DEF startOf
    <3>. QED BY <3>1, ContinuesItself
  <2>3. CASE i # 0
    <3>. DEFINE at == C[i]
                d == path[i + 1]
    <3>1. i \in 1..Len(path) /\ i + 1 <= Len(path)
      BY <2>1, <2>3
    <3>2. C[i + 1] = turn(at, d)
      BY <1>0, <3>1
    <3>3. Continues(at.first, at.second)
      BY <1>2, <3>1
    <3>. HIDE DEF at, d
    <3>4. \/ /\ turn(at, d).first = node_digest(d, at.first)
             /\ turn(at, d).second = node_digest(d, at.second)
          \/ /\ turn(at, d).first = at.first
             /\ turn(at, d).second = node_digest(at.second, d)
      BY DEF turn
    <3>5. Continues(turn(at, d).first, turn(at, d).second)
      BY <3>3, <3>4, ContinuesLeft, ContinuesRight
    <3>. QED BY <3>2, <3>5
  <2>. QED BY <2>2, <2>3
<1>. HIDE DEF T
<1>3. \A i \in Nat : i \in T
  BY <1>1, <1>2, Induction
<1>. QED BY <1>3 DEF T, C

\* Whatever path is sent, of whatever length, and whatever sizes are claimed: if it verifies
\* with the roots of two logs, the one log begins the other.  The code asks at the end of a
\* path that fn is 0 and not that sn is: a path that is too short or too long for the sizes
\* is not refused for its length, but it proves nothing false (verify_consistency).
THEOREM NoPathToAnotherHistory ==
    ASSUME NEW l \in Seq(Leaf), NEW w \in Seq(Leaf), Len(l) > 0, Len(w) > 0,
           NEW old_size, NEW new_size, NEW S, NEW path \in Seq(S),
           verify_consistency(old_size, new_size, merkle_root[l], merkle_root[w], path)
    PROVE  Len(l) <= Len(w) /\ l = Prefix(w, Len(l))
<1>. DEFINE r == merkle_root[l]
            n == shiftWhile[old_size - 1][new_size - 1][1]
            nodes == IF n.fn = 0 THEN <<r>> \o path ELSE path
<1>1. Starts(l, w)
  <2>1. CASE old_size = new_size
    <3>1. merkle_root[l] = merkle_root[w]
      BY <2>1 DEF verify_consistency
    <3>2. Continues(r, r)
      BY ContinuesItself
    <3>. QED BY <3>1, <3>2 DEF Continues
  <2>2. CASE old_size # new_size
    <3>1. /\ nodes # << >>
          /\ climb(n, nodes)[Len(nodes)].first = r
          /\ climb(n, nodes)[Len(nodes)].second = merkle_root[w]
      BY <2>2 DEF verify_consistency
    <3>. HIDE DEF n, r
    <3>2. nodes \in Seq(S \cup {r})
      <4>1. path \in Seq(S \cup {r})
        OBVIOUS
      <4>2. <<r>> \in Seq(S \cup {r})
        OBVIOUS
      <4>3. <<r>> \o path \in Seq(S \cup {r})
        BY <4>1, <4>2
      <4>. QED BY <4>1, <4>3
    <3>. HIDE DEF nodes
    <3>3. Len(nodes) \in Nat \ {0} /\ Len(nodes) \in 1..Len(nodes)
      BY <3>1, <3>2
    <3>4. Continues(r, merkle_root[w])
      BY <3>1, <3>3, ClimbContinues
    <3>. QED BY <3>4 DEF Continues, r
  <2>. QED BY <2>1, <2>2
<1>2. Len(l) \in 0..Len(w)
  BY <1>1 DEF Starts
<1>. DEFINE a == Prefix(w, Len(l))
<1>3. a \in Seq(Leaf) /\ Len(a) = Len(l) /\ \A i \in 1..Len(l) : a[i] = w[i]
  BY <1>2, PrefixLeaves
<1>. HIDE DEF a
<1>4. l = a
  BY <1>1, <1>3 DEF Starts
<1>. QED BY <1>1, <1>4 DEF Starts, a

----------------------------------------------------------------------------
(***************************************************************************)
(* The consumer.                                                           *)
(***************************************************************************)
\* What it is to be a log.
LEMMA LogFacts ==
    ASSUME NEW l \in Logs
    PROVE  /\ l \in Seq(Entry) /\ Len(l) \in 0..MaxSize
           /\ l = << >> <=> Len(l) = 0
           /\ \A i, j \in 1..Len(l) : i <= j => l[i].epoch <= l[j].epoch
<1>1. PICK n \in 0..MaxSize : l \in [1..n -> Entry]
  BY DEF Logs
<1>2. l \in Seq(Entry) /\ Len(l) = n
  BY <1>1, BoundAssumption
<1> QED
  BY <1>2 DEF Logs

LEMMA LogIntro ==
    ASSUME NEW l \in Seq(Entry), Len(l) <= MaxSize,
           \A i, j \in 1..Len(l) : i <= j => l[i].epoch <= l[j].epoch
    PROVE  l \in Logs
<1>1. Len(l) \in 0..MaxSize /\ l \in [1..Len(l) -> Entry]
  BY BoundAssumption
<1> QED
  BY <1>1 DEF Logs

\* IsPrefix, index by index, and its transitivity.
LEMMA PrefixFacts ==
    ASSUME NEW S, NEW s \in Seq(S), NEW t \in Seq(S)
    PROVE  IsPrefix(s, t) <=>
             Len(s) <= Len(t) /\ \A i \in 1..Len(s) : s[i] = t[i]
  BY DEF IsPrefix

LEMMA PrefixTransitive ==
    ASSUME NEW S, NEW s \in Seq(S), NEW t \in Seq(S), NEW u \in Seq(S),
           IsPrefix(s, t), IsPrefix(t, u)
    PROVE  IsPrefix(s, u)
<1>1. \A i \in 1..Len(s) : i \in 1..Len(t)
  BY PrefixFacts
<1> QED
  BY <1>1, PrefixFacts

\* A log is the beginning of itself, and of no other log of its size.
LEMMA PrefixOfSameSize ==
    ASSUME NEW l \in Logs, NEW m \in Logs, Len(l) = Len(m)
    PROVE  IsPrefix(l, m) <=> l = m
<1>1. l \in Seq(Entry) /\ m \in Seq(Entry)
  BY LogFacts
<1>2. IsPrefix(l, m) <=> \A i \in 1..Len(l) : l[i] = m[i]
  BY <1>1, PrefixFacts
<1> QED
  BY <1>1, <1>2

\* A log and the leaves of its tree determine each other, entry by entry.
LEMMA LeavesFacts ==
    ASSUME NEW l \in Logs
    PROVE  /\ log_leaves(l) \in Seq(Leaf) /\ Len(log_leaves(l)) = Len(l)
           /\ \A i \in 1..Len(l) :
                 log_leaves(l)[i] = status_leaf_digest(i, l[i].epoch, status(l, i))
<1>1. l \in Seq(Entry) /\ Len(l) \in Nat
  BY LogFacts
<1>2. ASSUME NEW i \in 1..Len(l)
      PROVE  status_leaf_digest(i, l[i].epoch, status(l, i)) \in Leaf
  <2>1. l[i] \in Entry
    BY <1>1
  <2>2. l[i].epoch \in Nat /\ l[i].status \in Statuses
    BY <2>1, BoundAssumption DEF Entry
  <2> QED
    BY <2>2 DEF status_leaf_digest, status, Leaf
<1>3. log_leaves(l) \in [1..Len(l) -> Leaf]
  BY <1>2 DEF log_leaves
<1> QED
  BY <1>1, <1>3 DEF log_leaves

LEMMA LeafDetermines ==
    ASSUME NEW l \in Logs, NEW m \in Logs, NEW i \in 1..Len(l), i \in 1..Len(m)
    PROVE  log_leaves(l)[i] = log_leaves(m)[i] <=> l[i] = m[i]
<1>1. /\ log_leaves(l)[i] = status_leaf_digest(i, l[i].epoch, status(l, i))
      /\ log_leaves(m)[i] = status_leaf_digest(i, m[i].epoch, status(m, i))
  BY LeavesFacts
<1>2. l[i] \in Entry /\ m[i] \in Entry
  <2>1. l \in Seq(Entry) /\ m \in Seq(Entry)
    BY LogFacts
  <2> QED
    BY <2>1
<1>3. l[i] = m[i] <=> l[i].epoch = m[i].epoch /\ l[i].status = m[i].status
  BY <1>2 DEF Entry
<1> QED
  BY <1>1, <1>3 DEF status_leaf_digest, status

\* Logs of one size with one root are one log.
LEMMA RootDeterminesLog ==
    ASSUME NEW l \in Logs, NEW m \in Logs, Len(l) = Len(m)
    PROVE  logRootDigest(l) = logRootDigest(m) <=> l = m
<1>1. /\ log_leaves(l) \in Seq(Leaf) /\ Len(log_leaves(l)) = Len(l)
      /\ log_leaves(m) \in Seq(Leaf) /\ Len(log_leaves(m)) = Len(l)
  BY LeavesFacts
<1>2. ASSUME logRootDigest(l) = logRootDigest(m) PROVE l = m
  <2>1. log_leaves(l) = log_leaves(m)
    BY <1>1, <1>2, RootDeterminesLeaves DEF logRootDigest
  <2>2. \A i \in 1..Len(l) : l[i] = m[i]
    BY <2>1, LeafDetermines
  <2> QED
    BY <2>2, LogFacts
<1> QED
  BY <1>2

\* That the tree of m continues the tree of l, as its proof of consistency says.
proves(l, m) ==
    verify_consistency(Len(l), Len(m), logRootDigest(l), logRootDigest(m),
                       consistency_proof(log_leaves(m), Len(l)))

\* The proof of consistency with a log verifies exactly if the other continues it.
LEMMA ProvesContinuation ==
    ASSUME NEW l \in Logs \ {<< >>}, NEW m \in Logs \ {<< >>}, Len(l) <= Len(m)
    PROVE  proves(l, m) <=> IsPrefix(l, m)
<1> DEFINE a == log_leaves(l)
           b == log_leaves(m)
           p == Prefix(b, Len(l))
<1>1. /\ a \in Seq(Leaf) /\ Len(a) = Len(l) /\ b \in Seq(Leaf) /\ Len(b) = Len(m)
      /\ Len(l) > 0 /\ Len(l) \in 0..Len(m)
  BY LeavesFacts, LogFacts
<1>2. proves(l, m) <=> a = p
  <2> HIDE DEF a, b
  <2> QED
    BY <1>1, ConsistencySound DEF proves, logRootDigest, a, b
<1>3. p \in Seq(Leaf) /\ Len(p) = Len(l) /\ \A i \in 1..Len(l) : p[i] = b[i]
  <2> HIDE DEF b
  <2> QED
    BY <1>1, PrefixLeaves
<1>4. \A i \in 1..Len(l) : a[i] = b[i] <=> l[i] = m[i]
  <2>1. \A i \in 1..Len(l) : i \in 1..Len(m)
    BY <1>1
  <2> QED
    BY <2>1, LeafDetermines
<1>5. IsPrefix(l, m) <=> \A i \in 1..Len(l) : l[i] = m[i]
  <2>1. l \in Seq(Entry) /\ m \in Seq(Entry)
    BY LogFacts
  <2> QED
    BY <2>1, PrefixFacts
<1> HIDE DEF a, b, p
<1>6. a = p <=> \A i \in 1..Len(l) : a[i] = p[i]
  BY <1>1, <1>3
<1> QED
  BY <1>2, <1>3, <1>4, <1>5, <1>6

\* The fields of a head.
LEMMA HeadFacts ==
    ASSUME NEW q, NEW l
    PROVE  /\ headOf(q, l).requestNonce = q
           /\ headOf(q, l).treeSize = Len(l)
           /\ headOf(q, l).epoch = l[Len(l)].epoch
           /\ headOf(q, l).head = status(l, Len(l))
           /\ headOf(q, l).headLeafDigest = headLeafDigest(l)
           /\ headOf(q, l).logRootDigest = logRootDigest(l)
           /\ headOf(q, l).headInclusionProof = inclusion_proof[log_leaves(l)][Len(l) - 1]
  BY DEF headOf

\* The fields of a checkpoint.
LEMMA CheckpointFacts ==
    ASSUME NEW q, NEW l, NEW p, NEW t, NEW a
    PROVE  LET c == checkpoint(q, l, p, t, a)
           IN /\ c.base = headOf(q, l) /\ c.clientPriorState = p
              /\ c.consistencyProof = consistencyProof(headOf(q, l), l, p)
              /\ c.verifiedAt = t /\ c.log = l /\ c.asked = a
  BY DEF checkpoint

\* The fields of a checkpoint on its way.
LEMMA AnswerFacts ==
    ASSUME TypeOK, NEW c \in answers
    PROVE  /\ c.base.requestNonce \in DOMAIN priors
           /\ c.base = headOf(c.base.requestNonce, c.log)
           /\ c.clientPriorState = priors[c.base.requestNonce]
           /\ c.consistencyProof = consistencyProof(c.base, c.log, c.clientPriorState)
           /\ c.log \in Logs \ {<< >>}
<1> DEFINE q == c.base.requestNonce
<1>1. /\ c = checkpoint(q, c.log, priors[q], c.verifiedAt, c.asked)
      /\ q \in DOMAIN priors /\ c.log \in Logs \ {<< >>}
  BY DEF TypeOK
<1>2. /\ c.base = headOf(q, c.log) /\ c.clientPriorState = priors[q]
      /\ c.consistencyProof = consistencyProof(headOf(q, c.log), c.log, priors[q])
  BY <1>1, CheckpointFacts
<1> QED
  BY <1>1, <1>2

(***************************************************************************)
(* TypeOK is inductive: nothing that the consumer holds, and nothing in    *)
(* the network, is anything but the head of a log.                         *)
(***************************************************************************)
\* Every prior state is one of the heads accepted so far, whatever was accepted since.
headOfViews(p) == \E q \in done, i \in 1..Len(views) : p = headOf(q, views[i])

LEMMA InitType == Init => TypeOK
<1> SUFFICES ASSUME Init PROVE TypeOK
  OBVIOUS
<1>1. log \in Seq(Entry) /\ Len(log) = 0
  BY DEF Init
<1>2. Len(log) <= MaxSize /\ \A i, j \in 1..Len(log) : i <= j => log[i].epoch <= log[j].epoch
  BY <1>1, BoundAssumption
<1>3. log \in Logs
  BY <1>1, <1>2, LogIntro
<1> QED
  BY <1>3, BoundAssumption DEF Init, TypeOK

\* The steps of the authority alone.
LEMMA LogStatusLog == TypeOK /\ LogStatus => log' \in Logs
<1> SUFFICES ASSUME TypeOK, LogStatus PROVE log' \in Logs
  OBVIOUS
<1>1. PICK e \in Entry : (log # << >> => log[Len(log)].epoch <= e.epoch) /\ log' = Append(log, e)
  BY DEF LogStatus
<1>2. log \in Logs
  BY DEF TypeOK
<1>3. log \in Seq(Entry) /\ Len(log) < MaxSize
  BY <1>2, LogFacts DEF LogStatus
<1>4. log' \in Seq(Entry) /\ Len(log') = Len(log) + 1
  BY <1>1, <1>3
<1>5. (\A i \in 1..Len(log) : log'[i] = log[i]) /\ log'[Len(log) + 1] = e
  BY <1>1, <1>3
<1>6. \A i, j \in 1..Len(log) : i <= j => log[i].epoch <= log[j].epoch
  BY <1>2, LogFacts
<1>7. \A i \in 1..Len(log) : log[i].epoch <= e.epoch
  <2> SUFFICES ASSUME NEW i \in 1..Len(log) PROVE log[i].epoch <= e.epoch
    OBVIOUS
  <2>1. Len(log) \in 1..Len(log) /\ log # << >>
    BY <1>3
  <2>2. log[i].epoch <= log[Len(log)].epoch
    BY <1>6, <2>1
  <2>3. log[i] \in Entry /\ log[Len(log)] \in Entry
    BY <1>3, <2>1
  <2>4. log[i].epoch \in Int /\ log[Len(log)].epoch \in Int /\ e.epoch \in Int
    BY <2>3 DEF Entry
  <2> QED
    BY <1>1, <2>1, <2>2, <2>4
<1>8. \A i, j \in 1..Len(log') : i <= j => log'[i].epoch <= log'[j].epoch
  <2> SUFFICES ASSUME NEW i \in 1..Len(log'), NEW j \in 1..Len(log'), i <= j
               PROVE  log'[i].epoch <= log'[j].epoch
    OBVIOUS
  <2>1. e.epoch <= e.epoch
    BY DEF Entry
  <2>2. CASE j = Len(log) + 1
    BY <1>3, <1>4, <1>5, <1>7, <2>1, <2>2
  <2>3. CASE j # Len(log) + 1
    BY <1>3, <1>4, <1>5, <1>6, <2>3
  <2> QED
    BY <2>2, <2>3
<1>9. Len(log') <= MaxSize
  BY <1>3, <1>4, BoundAssumption
<1> QED
  BY <1>4, <1>8, <1>9, LogIntro

LEMMA RestoreLog == TypeOK /\ Restore => log' \in Logs
<1> SUFFICES ASSUME TypeOK, Restore PROVE log' \in Logs
  OBVIOUS
<1>1. PICK n \in 0..(Len(log) - 1) : log' = SubSeq(log, 1, n)
  BY DEF Restore
<1>2. log \in Logs
  BY DEF TypeOK
<1>3. log \in Seq(Entry) /\ Len(log) \in 0..MaxSize
  BY <1>2, LogFacts
<1>4. \A i, j \in 1..Len(log) : i <= j => log[i].epoch <= log[j].epoch
  BY <1>2, LogFacts
<1>5. /\ log' \in Seq(Entry) /\ Len(log') = n
      /\ \A i \in 1..n : log'[i] = log[i]
  BY <1>1, <1>3
<1>6. n <= MaxSize /\ \A i \in 1..n : i \in 1..Len(log)
  BY <1>3, BoundAssumption
<1>7. \A i, j \in 1..Len(log') : i <= j => log'[i].epoch <= log'[j].epoch
  BY <1>4, <1>5, <1>6
<1> QED
  BY <1>5, <1>6, <1>7, LogIntro

\* A request keeps the priors of the other operations.
LEMMA RequestPriors ==
    ASSUME TypeOK, NEW q \in Operations, Request(q)
    PROVE  /\ DOMAIN priors' = DOMAIN priors \cup {q}
           /\ \A x \in DOMAIN priors : priors'[x] = priors[x]
           /\ priors'[q] = accepted
  BY DEF Request

LEMMA RequestType == ASSUME TypeOK, NEW q \in Operations, Request(q) PROVE TypeOK'
<1>1. /\ log' \in Logs /\ now' \in 0..MaxTime
      /\ DOMAIN priors' \subseteq Operations /\ done' \subseteq DOMAIN priors'
      /\ views' \in Seq(Logs \ {<< >>})
  BY RequestPriors DEF TypeOK, authorityVars, Request
<1>2. IF views' = << >> THEN accepted' = None
      ELSE \E x \in done' : accepted' = headOf(x, Last(views'))
  BY DEF TypeOK, Request
<1>3. accepted = None \/ headOfViews(accepted)
  <2>1. CASE views # << >>
    <3>1. Len(views) \in 1..Len(views)
      BY <2>1 DEF TypeOK
    <3> QED
      BY <2>1, <3>1 DEF TypeOK, headOfViews, Last
  <2> QED
    BY <2>1 DEF TypeOK
<1>4. \A x \in DOMAIN priors' :
         priors'[x] = None \/ \E y \in done', i \in 1..Len(views') : priors'[x] = headOf(y, views'[i])
  BY <1>3, RequestPriors DEF TypeOK, headOfViews, Request
<1>5. \A c \in answers' :
          /\ c.base.requestNonce \in c.asked
          /\ c.asked \subseteq DOMAIN priors'
          /\ c.log \in Logs \ {<< >>}
          /\ c = checkpoint(c.base.requestNonce, c.log, priors'[c.base.requestNonce],
                            c.verifiedAt, c.asked)
          /\ c.verifiedAt \in 0..now'
  BY RequestPriors DEF TypeOK, authorityVars, Request
<1> QED
  BY <1>1, <1>2, <1>4, <1>5 DEF TypeOK

LEMMA RefreshType == ASSUME TypeOK, NEW q \in Operations, Refresh(q) PROVE TypeOK'
<1> DEFINE k == checkpoint(q, log, priors[q], now, DOMAIN priors)
<1>1. answers' = {c \in answers : c.base.requestNonce # q} \cup {k}
  BY DEF Refresh
<1>2. /\ k.base.requestNonce = q /\ k.log = log /\ k.asked = DOMAIN priors /\ k.verifiedAt = now
  BY CheckpointFacts, HeadFacts
<1>3. log # << >> /\ q \in DOMAIN priors
  BY DEF Refresh, canRefresh
<1>4. UNCHANGED <<log, now, priors, done, accepted, views>>
  BY DEF Refresh, authorityVars, consumerVars
<1>5. now \in 0..now
  BY DEF TypeOK
<1> HIDE DEF k
<1>6. k = checkpoint(k.base.requestNonce, k.log, priors[k.base.requestNonce], k.verifiedAt, k.asked)
  BY <1>2 DEF k
<1>7. \A c \in answers' :
          /\ c.base.requestNonce \in c.asked
          /\ c.asked \subseteq DOMAIN priors
          /\ c.log \in Logs \ {<< >>}
          /\ c = checkpoint(c.base.requestNonce, c.log, priors[c.base.requestNonce],
                            c.verifiedAt, c.asked)
          /\ c.verifiedAt \in 0..now
  BY <1>1, <1>2, <1>3, <1>5, <1>6 DEF TypeOK
<1> QED
  BY <1>4, <1>7 DEF TypeOK

LEMMA AcceptType == ASSUME TypeOK, NEW q \in Operations, Accept(q) PROVE TypeOK'
<1>1. PICK c \in answers : /\ usable(c, q) /\ proofsValid(c)
                           /\ accepted' = c.base /\ views' = Append(views, c.log)
  BY DEF Accept
<1>2. /\ done' = done \cup {q} /\ q \in DOMAIN priors
      /\ UNCHANGED <<log, now, priors, answers>>
  BY DEF Accept, authorityVars
<1>3. c.base = headOf(q, c.log) /\ c.log \in Logs \ {<< >>}
  BY <1>1, AnswerFacts DEF usable, validate_status_head_use
<1>4. views \in Seq(Logs \ {<< >>})
  BY DEF TypeOK
<1>5. /\ views' \in Seq(Logs \ {<< >>}) /\ Len(views') = Len(views) + 1
      /\ \A i \in 1..Len(views) : views'[i] = views[i]
      /\ views'[Len(views) + 1] = c.log
  BY <1>1, <1>3, <1>4
<1>6. views' # << >> /\ Last(views') = c.log
  BY <1>5, <1>4 DEF Last
<1>7. IF views' = << >> THEN accepted' = None
      ELSE \E x \in done' : accepted' = headOf(x, Last(views'))
  BY <1>1, <1>2, <1>3, <1>6
<1>8. \A x \in DOMAIN priors' :
         priors'[x] = None \/ \E y \in done', i \in 1..Len(views') : priors'[x] = headOf(y, views'[i])
  <2> SUFFICES ASSUME NEW x \in DOMAIN priors, priors[x] # None
               PROVE  \E y \in done', i \in 1..Len(views') : priors[x] = headOf(y, views'[i])
    BY <1>2
  <2>1. PICK y \in done, i \in 1..Len(views) : priors[x] = headOf(y, views[i])
    BY DEF TypeOK
  <2>2. y \in done' /\ i \in 1..Len(views') /\ views'[i] = views[i]
    BY <1>2, <1>4, <1>5
  <2> QED
    BY <2>1, <2>2
<1>9. log' \in Logs /\ now' \in 0..MaxTime /\ DOMAIN priors' \subseteq Operations
      /\ done' \subseteq DOMAIN priors'
  BY <1>2 DEF TypeOK
<1>10. \A d \in answers' :
          /\ d.base.requestNonce \in d.asked
          /\ d.asked \subseteq DOMAIN priors'
          /\ d.log \in Logs \ {<< >>}
          /\ d = checkpoint(d.base.requestNonce, d.log, priors'[d.base.requestNonce],
                            d.verifiedAt, d.asked)
          /\ d.verifiedAt \in 0..now'
  BY <1>2 DEF TypeOK
<1> QED
  BY <1>5, <1>7, <1>8, <1>9, <1>10 DEF TypeOK

LEMMA StepType == TypeOK /\ [Next]_vars => TypeOK'
<1> SUFFICES ASSUME TypeOK, [Next]_vars PROVE TypeOK'
  OBVIOUS
<1>1. CASE LogStatus
  BY <1>1, LogStatusLog DEF TypeOK, LogStatus, consumerVars
<1>2. CASE Restore
  BY <1>2, RestoreLog DEF TypeOK, Restore, consumerVars
<1>3. CASE Tick
  <2>1. now' \in 0..MaxTime /\ \A t \in 0..now : t \in 0..now'
    BY <1>3, BoundAssumption DEF TypeOK, Tick
  <2> QED
    BY <1>3, <2>1 DEF TypeOK, Tick, consumerVars
<1>4. ASSUME NEW q \in Operations, Request(q) PROVE TypeOK'
  BY <1>4, RequestType
<1>5. ASSUME NEW q \in Operations, Refresh(q) PROVE TypeOK'
  BY <1>5, RefreshType
<1>6. ASSUME NEW q \in Operations, Accept(q) PROVE TypeOK'
  BY <1>6, AcceptType
<1>7. CASE UNCHANGED vars
  BY <1>7 DEF TypeOK, vars
<1> QED
  BY <1>1, <1>2, <1>3, <1>4, <1>5, <1>6, <1>7 DEF Next

\* The consumer holds the head of a log it saw, and every answer in the network was
\* built by the authority for an operation that had asked.
THEOREM TypeCorrect == Spec => []TypeOK
  BY InitType, StepType, PTL DEF Spec

(***************************************************************************)
(* The proofs that come with an answer decide exactly whether its log      *)
(* continues the one behind the head accepted last.                        *)
(***************************************************************************)
\* The head accepted last, when there is one.
LEMMA AcceptedFacts ==
    ASSUME TypeOK, accepted # None
    PROVE  /\ views # << >> /\ Last(views) \in Logs \ {<< >>}
           /\ \E q \in Operations : accepted = headOf(q, Last(views))
<1>1. views # << >> /\ views \in Seq(Logs \ {<< >>})
  BY DEF TypeOK
<1>2. Last(views) \in Logs \ {<< >>}
  BY <1>1 DEF Last
<1> QED
  BY <1>1, <1>2 DEF TypeOK

LEMMA NothingAccepted ==
    ASSUME TypeOK, accepted = None
    PROVE  views = << >>
<1> SUFFICES ASSUME views # << >> PROVE FALSE
  OBVIOUS
<1>1. PICK q \in done : accepted = headOf(q, Last(views))
  BY DEF TypeOK
<1>2. q \in Operations /\ views \in Seq(Logs \ {<< >>})
  BY DEF TypeOK
<1>3. Last(views) \in Logs \ {<< >>}
  BY <1>2 DEF Last
<1> QED
  BY <1>1, <1>2, <1>3, NoneAssumption

LEMMA InclusionHolds ==
    ASSUME NEW q, NEW l \in Logs \ {<< >>}
    PROVE  validate_status_head_inclusion(headOf(q, l))
<1>1. Len(l) \in 1..Len(l)
  BY LogFacts
<1>2. headLeafDigest(l) = status_leaf_digest(Len(l), l[Len(l)].epoch, status(l, Len(l)))
  BY <1>1 DEF headLeafDigest, log_leaves
<1>3. verify_inclusion(headLeafDigest(l), Len(l) - 1, Len(l),
                       inclusion_proof[log_leaves(l)][Len(l) - 1], logRootDigest(l))
  <2> DEFINE a == log_leaves(l)
             i == Len(l) - 1
  <2>1. a \in Seq(Leaf) /\ Len(a) = Len(l) /\ i \in 0..(Len(a) - 1) /\ i + 1 = Len(l)
    BY <1>1, LeavesFacts
  <2>2. headLeafDigest(l) = a[i + 1]
    BY <2>1 DEF headLeafDigest
  <2> HIDE DEF a, i
  <2>3. verify_inclusion(headLeafDigest(l), i, Len(a), inclusion_proof[a][i], merkle_root[a])
    BY <2>1, <2>2, InclusionSound
  <2> QED
    BY <2>1, <2>3 DEF a, i, logRootDigest
<1> QED
  BY <1>2, <1>3, HeadFacts DEF validate_status_head_inclusion

\* Heads of logs of different sizes differ; heads of one log do not.
LEMMA UnchangedFacts ==
    ASSUME NEW q, NEW r, NEW l, NEW m
    PROVE  /\ l = m => unchanged(headOf(q, l), headOf(r, m))
           /\ unchanged(headOf(q, l), headOf(r, m)) =>
                Len(l) = Len(m) /\ logRootDigest(l) = logRootDigest(m)
<1> DEFINE c == headOf(q, l)
           p == headOf(r, m)
<1>1. l = m => /\ c.treeSize = p.treeSize /\ c.epoch = p.epoch /\ c.head = p.head
               /\ c.logRootDigest = p.logRootDigest /\ c.headLeafDigest = p.headLeafDigest
  BY HeadFacts
<1>2. c.treeSize = Len(l) /\ p.treeSize = Len(m)
      /\ c.logRootDigest = logRootDigest(l) /\ p.logRootDigest = logRootDigest(m)
  BY HeadFacts
<1> HIDE DEF c, p
<1>3. endpoint(c) = endpoint(p) => c.treeSize = p.treeSize /\ c.logRootDigest = p.logRootDigest
  BY DEF endpoint
<1>4. l = m => unchanged(c, p)
  BY <1>1 DEF unchanged, endpoint
<1>5. unchanged(c, p) => Len(l) = Len(m) /\ logRootDigest(l) = logRootDigest(m)
  BY <1>2, <1>3 DEF unchanged
<1> QED
  BY <1>4, <1>5 DEF c, p

\* A longer continuation advances: the epoch never goes back within a log.
LEMMA ContinuationAdvances ==
    ASSUME NEW q, NEW r, NEW l \in Logs \ {<< >>}, NEW m \in Logs \ {<< >>},
           IsPrefix(l, m), Len(l) < Len(m)
    PROVE  advances(headOf(q, m), headOf(r, l))
<1>1. l \in Seq(Entry) /\ m \in Seq(Entry) /\ Len(l) \in Nat /\ Len(m) \in Nat
  BY LogFacts
<1>2. Len(l) # 0
  BY LogFacts
<1>3. Len(l) \in 1..Len(l) /\ Len(l) \in 1..Len(m) /\ Len(m) \in 1..Len(m) /\ Len(l) <= Len(m)
  BY <1>1, <1>2
<1>4. m[Len(l)].epoch <= m[Len(m)].epoch
  BY <1>3, LogFacts
<1>5. l[Len(l)] = m[Len(l)]
  BY <1>1, <1>3, PrefixFacts
<1>6. l[Len(l)] \in Entry /\ m[Len(m)] \in Entry
  BY <1>1, <1>3
<1>7. m[Len(m)].epoch >= l[Len(l)].epoch
  BY <1>4, <1>5, <1>6 DEF Entry
<1> QED
  BY <1>1, <1>7, HeadFacts DEF advances

LEMMA ProofsExact ==
    ASSUME TypeOK, NEW c \in answers, c.clientPriorState = accepted
    PROVE  proofsValid(c) <=> accepted = None \/ IsPrefix(Last(views), c.log)
<1> DEFINE q == c.base.requestNonce
           m == c.log
           L == Last(views)
<1>1. /\ q \in Operations /\ c.base = headOf(q, m) /\ m \in Logs \ {<< >>}
      /\ c.consistencyProof = consistencyProof(c.base, m, accepted)
  BY AnswerFacts DEF TypeOK
<1>2. validate_status_head_inclusion(c.base)
  BY <1>1, InclusionHolds
<1>3. c.base.head.sequence = c.base.treeSize
  <2>1. c.base.head = status(m, Len(m)) /\ c.base.treeSize = Len(m)
    BY <1>1, HeadFacts
  <2> QED
    BY <2>1 DEF status
<1>4. CASE accepted = None
  BY <1>1, <1>2, <1>3, <1>4 DEF proofsValid, consistencyProof
<1>5. CASE accepted # None
  <2>1. L \in Logs \ {<< >>} /\ \E r \in Operations : accepted = headOf(r, L)
    BY <1>5, AcceptedFacts
  <2>2. PICK r \in Operations : accepted = headOf(r, L)
    BY <2>1
  <2>3. validate_status_head_inclusion(accepted)
    BY <2>1, <2>2, InclusionHolds
  <2>4. proofsValid(c) <=> validate_status_head_high_water(c.consistencyProof, c.base, accepted)
    BY <1>2, <1>3, <1>5, <2>3 DEF proofsValid
  <2>5. /\ c.base.treeSize = Len(m) /\ accepted.treeSize = Len(L)
        /\ c.base.logRootDigest = logRootDigest(m) /\ accepted.logRootDigest = logRootDigest(L)
    BY <1>1, <2>2, HeadFacts
  <2>6. Len(m) \in Nat /\ Len(L) \in Nat /\ m \in Seq(Entry) /\ L \in Seq(Entry)
    BY <1>1, <2>1, LogFacts
  <2>7. CASE Len(m) = Len(L)
    <3>1. unchanged(c.base, accepted) <=> L = m
      BY <1>1, <2>1, <2>2, <2>7, UnchangedFacts, RootDeterminesLog
    <3>2. unchanged(c.base, accepted) => c.consistencyProof = None
      BY <1>1 DEF consistencyProof
    <3>3. proofsValid(c) <=> L = m
      BY <2>4, <2>5, <2>7, <3>1, <3>2 DEF validate_status_head_high_water
    <3> QED
      BY <1>1, <1>5, <2>1, <2>7, <3>3, PrefixOfSameSize
  <2>8. CASE Len(m) # Len(L)
    <3>1. ~unchanged(c.base, accepted)
      BY <1>1, <2>2, <2>8, UnchangedFacts
    <3>2. c.consistencyProof = [from |-> endpoint(accepted), to |-> endpoint(c.base),
                  auditPath |-> consistency_proof(log_leaves(m), accepted.treeSize)]
      BY <1>1, <1>5, <3>1 DEF consistencyProof
    <3>3. /\ c.consistencyProof.from = endpoint(accepted)
          /\ c.consistencyProof.to = endpoint(c.base)
          /\ c.consistencyProof.auditPath = consistency_proof(log_leaves(m), Len(L))
      BY <2>5, <3>2
    <3>4. proofsValid(c) <=> /\ advances(c.base, accepted) /\ c.consistencyProof # None
                             /\ proves(L, m)
      BY <2>4, <2>5, <2>8, <3>3
      DEF validate_status_head_high_water, validate_status_consistency_proof, proves
    <3>5. ASSUME proofsValid(c) PROVE IsPrefix(L, m)
      <4>1. Len(L) < Len(m)
        BY <2>5, <2>6, <3>4, <3>5 DEF advances
      <4> QED
        BY <1>1, <2>1, <2>6, <3>4, <3>5, <4>1, ProvesContinuation
    <3>6. ASSUME IsPrefix(L, m) PROVE proofsValid(c)
      <4>1. Len(L) < Len(m)
        BY <2>6, <2>8, <3>6, PrefixFacts
      <4>2. advances(c.base, accepted)
        BY <1>1, <2>1, <2>2, <3>6, <4>1, ContinuationAdvances
      <4>3. c.consistencyProof # None
        BY <1>1, <2>1, <2>2, <4>1, NoneAssumption
      <4>4. proves(L, m)
        BY <1>1, <2>1, <2>6, <3>6, <4>1, ProvesContinuation
      <4> QED
        BY <3>4, <4>2, <4>3, <4>4
    <3> QED
      BY <1>5, <3>5, <3>6
  <2> QED
    BY <2>7, <2>8
<1> QED
  BY <1>4, <1>5

\* The authority refuses no consumer whose log its own continues.
LEMMA RefreshesContinuations ==
    ASSUME TypeOK, NEW q, log # << >>, accepted = None \/ IsPrefix(Last(views), log)
    PROVE  canRefresh(q, log, accepted)
<1>1. CASE accepted = None
  BY <1>1 DEF canRefresh
<1>2. CASE accepted # None
  <2> DEFINE L == Last(views)
  <2>1. L \in Logs \ {<< >>} /\ \E r \in Operations : accepted = headOf(r, L)
    BY <1>2, AcceptedFacts
  <2>2. PICK r \in Operations : accepted = headOf(r, L)
    BY <2>1
  <2>3. log \in Logs \ {<< >>}
    BY DEF TypeOK
  <2>4. L \in Seq(Entry) /\ log \in Seq(Entry) /\ Len(L) \in Nat /\ Len(log) \in Nat
    BY <2>1, <2>3, LogFacts
  <2>5. Len(L) <= Len(log)
    BY <1>2, <2>4, PrefixFacts
  <2>6. CASE Len(L) = Len(log)
    <3>1. L = log
      BY <1>2, <2>1, <2>3, <2>6, PrefixOfSameSize
    <3> QED
      BY <2>2, <2>3, <3>1, UnchangedFacts DEF canRefresh
  <2>7. CASE Len(L) < Len(log)
    BY <1>2, <2>1, <2>2, <2>3, <2>7, ContinuationAdvances DEF canRefresh
  <2> QED
    BY <2>4, <2>5, <2>6, <2>7
<1> QED
  BY <1>1, <1>2

\* No false alarm and no missed fork: in every state an answer's proofs are valid
\* exactly when its log continues the consumer's.
THEOREM AlarmsAreExact == Spec => []OnlyForksAreRefused
<1>1. TypeOK => OnlyForksAreRefused
  BY ProofsExact, RefreshesContinuations DEF OnlyForksAreRefused
<1> QED
  BY <1>1, TypeCorrect, PTL

(***************************************************************************)
(* The consumer's view.                                                    *)
(***************************************************************************)
LEMMA AcceptGrows ==
    ASSUME TypeOK, ViewOnlyGrows, NEW q \in Operations, Accept(q)
    PROVE  ViewOnlyGrows'
<1>1. PICK c \in answers : usable(c, q) /\ proofsValid(c) /\ views' = Append(views, c.log)
  BY DEF Accept
<1>2. c.log \in Logs \ {<< >>} /\ c.clientPriorState = accepted
  BY <1>1, AnswerFacts DEF usable
<1>3. views \in Seq(Logs \ {<< >>})
  BY DEF TypeOK
<1>4. /\ Len(views') = Len(views) + 1 /\ views'[Len(views) + 1] = c.log
      /\ \A i \in 1..Len(views) : views'[i] = views[i]
  BY <1>1, <1>2, <1>3
<1>5. c.log \in Seq(Entry) /\ IsPrefix(c.log, c.log)
  BY <1>2, LogFacts, PrefixOfSameSize
<1>6. \A i \in 1..Len(views) : IsPrefix(views[i], c.log)
  <2> SUFFICES ASSUME NEW i \in 1..Len(views) PROVE IsPrefix(views[i], c.log)
    OBVIOUS
  <2>1. Len(views) \in 1..Len(views) /\ i <= Len(views) /\ views # << >>
    BY <1>3
  <2>2. views[i] \in Seq(Entry) /\ views[Len(views)] \in Seq(Entry)
    BY <1>3, <2>1, LogFacts
  <2>3. IsPrefix(views[i], views[Len(views)])
    BY <2>1 DEF ViewOnlyGrows
  <2>4. IsPrefix(views[Len(views)], c.log)
    <3>1. accepted # None
      BY <2>1, NothingAccepted
    <3> QED
      BY <1>1, <1>2, <3>1, ProofsExact DEF Last
  <2> QED
    BY <1>5, <2>2, <2>3, <2>4, PrefixTransitive
<1> QED
  <2> SUFFICES ASSUME NEW i \in 1..Len(views'), NEW j \in 1..Len(views'), i <= j
               PROVE  IsPrefix(views'[i], views'[j])
    BY DEF ViewOnlyGrows
  <2>1. CASE j \in 1..Len(views)
    <3>1. i \in 1..Len(views)
      BY <2>1
    <3> QED
      BY <1>4, <2>1, <3>1 DEF ViewOnlyGrows
  <2>2. CASE j = Len(views) + 1 /\ i \in 1..Len(views)
    BY <1>4, <1>6, <2>2
  <2>3. CASE j = Len(views) + 1 /\ i = Len(views) + 1
    BY <1>4, <1>5, <2>3
  <2> QED
    BY <1>3, <1>4, <2>1, <2>2, <2>3

\* Whatever is restored, logged anew, repeated or delayed, the heads a consumer accepts
\* are heads of one growing log.
THEOREM NeverBack == Spec => []ViewOnlyGrows
<1>1. Init => ViewOnlyGrows
  BY DEF Init, ViewOnlyGrows
<1>2. TypeOK /\ ViewOnlyGrows /\ [Next]_vars => ViewOnlyGrows'
  <2> SUFFICES ASSUME TypeOK, ViewOnlyGrows, [Next]_vars PROVE ViewOnlyGrows'
    OBVIOUS
  <2>1. ASSUME NEW q \in Operations, Accept(q) PROVE ViewOnlyGrows'
    BY <2>1, AcceptGrows
  <2>2. CASE views' = views
    BY <2>2 DEF ViewOnlyGrows
  <2>3. views' = views \/ \E q \in Operations : Accept(q)
    BY DEF Next, LogStatus, Restore, Tick, Request, Refresh, consumerVars, vars
  <2> QED
    BY <2>1, <2>2, <2>3
<1> QED
  BY <1>1, <1>2, TypeCorrect, PTL DEF Spec

\* The answer an operation uses was built after the operation asked, and is in time.
THEOREM AnswersAreFresh == Spec => FreshAtUse
<1>1. TypeOK /\ [Next]_vars => [usesFreshly]_vars
  <2> SUFFICES ASSUME TypeOK, [Next]_vars, NEW q \in done' \ done
               PROVE  \E c \in answers :
                        accepted' = c.base /\ q \in c.asked /\ now - c.verifiedAt < Freshness
    BY DEF usesFreshly
  <2>1. Accept(q)
    BY DEF Next, LogStatus, Restore, Tick, Request, Refresh, Accept, consumerVars, vars
  <2>2. PICK c \in answers : usable(c, q) /\ accepted' = c.base
    BY <2>1 DEF Accept
  <2>3. c.base.requestNonce = q /\ now < c.verifiedAt + Freshness
    BY <2>2 DEF usable, validate_status_head_use
  <2>4. q \in c.asked /\ c.verifiedAt \in Int /\ now \in Int
    BY <2>3 DEF TypeOK
  <2> QED
    BY <2>2, <2>3, <2>4, BoundAssumption
<1> QED
  BY <1>1, TypeCorrect, PTL DEF Spec, FreshAtUse
=============================================================================
