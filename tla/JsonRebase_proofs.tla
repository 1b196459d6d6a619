------------------------- MODULE JsonRebase_proofs --------------------------
(***************************************************************************)
(* RebaseJSONPatch is a three-way merge, whatever the documents and        *)
(* whatever the operations do to the members they start at.                *)
(*                                                                         *)
(* The comparison before each operation looks at working copies; that it   *)
(* says something about the sources needs the two facts RebaseInv keeps    *)
(* together: a member not operated on is still as in the source on both    *)
(* sides, and one operated on is the same on both sides.                   *)
(*                                                                         *)
(* The second part is about ApplyJSONPatch, whose operations each go down  *)
(* and up one pointer: for documents of any size and pointers of any       *)
(* length, each applies exactly when it is legal and changes its target    *)
(* only.  The way down and the way up are recursive functions, and what is *)
(* said of them is proved by induction on the length of the way, which is  *)
(* itself a lemma here (Induction).                                        *)
(***************************************************************************)
EXTENDS RebasePatch, FiniteSetTheorems, SequenceTheorems, TLAPS

RebaseInv ==
    /\ TypeOK
    /\ NoHiddenConflict
    /\ OnlyTheDeltaIsAdded
    /\ ConflictsAreReal

\* What an applied operation leaves is a whole document.
LEMMA AfterIsWhole ==
    ASSUME NEW d, WholeDocument(d), NEW o \in Operations, applies(o, d)
    PROVE  WholeDocument(after(o, d))
<1>1. after(o, d) = [m \in Members |-> after(o, d)[m]]
  BY DEF after
<1>2. \A m \in Members : after(o, d)[m] # Error
  BY OperationAssumption DEF after, applies, WholeDocument
<1>. QED  BY <1>1, <1>2 DEF WholeDocument

\* A member on which both sides agree is not the reason of any refusal on the proposed
\* side alone, and is made the same on both.
LEMMA SameMemberSameEffect ==
    ASSUME NEW o \in Operations, stableRebasePath(o), applies(o, previousWorking)
    PROVE  /\ applies(o, proposedWorking)
           /\ \A m \in Members :
                IF m = MemberOf[o]
                THEN after(o, previousWorking)[m] = after(o, proposedWorking)[m]
                ELSE /\ after(o, previousWorking)[m] = previousWorking[m]
                     /\ after(o, proposedWorking)[m] = proposedWorking[m]
BY OperationAssumption DEF stableRebasePath, applies, after

LEMMA RebaseInit == Init => RebaseInv
<1>. SUFFICES ASSUME Init PROVE RebaseInv
  OBVIOUS
<1>1. TypeOK
  BY DocumentAssumption, BoundAssumption DEF Init, TypeOK, WholeDocument, Statuses
<1>. QED  BY <1>1 DEF Init, RebaseInv, NoHiddenConflict, OnlyTheDeltaIsAdded, ConflictsAreReal

LEMMA RebaseStep == RebaseInv /\ [Next]_vars => RebaseInv'
<1>. SUFFICES ASSUME RebaseInv, [Next]_vars PROVE RebaseInv'
  OBVIOUS
<1>. USE DEF RebaseInv
<1>1. CASE Begin
  BY <1>1 DEF Begin, inputs, copies, TypeOK, WholeDocument, Statuses, Failures,
     NoHiddenConflict, OnlyTheDeltaIsAdded, ConflictsAreReal
<1>2. CASE Finish
  BY <1>2 DEF Finish, inputs, copies, TypeOK, WholeDocument, Statuses,
     NoHiddenConflict, OnlyTheDeltaIsAdded, ConflictsAreReal
<1>3. ASSUME NEW o \in Operations, Operate(o)
      PROVE  RebaseInv'
  <2>. DEFINE k == MemberOf[o]
  <2>1. /\ k \in Members /\ stableRebasePath(o) /\ applies(o, previousWorking)
        /\ applies(o, proposedWorking)
        /\ previousWorking' = after(o, previousWorking)
        /\ proposedWorking' = after(o, proposedWorking)
        /\ touched' = touched \cup {k} /\ at' = k
        /\ previous' = previous /\ proposed' = proposed /\ status' = status
    BY <1>3, OperationAssumption DEF Operate, Verdict, afterOnPrevious, inputs
  <2>2. TypeOK'
    <3>1. WholeDocument(previousWorking') /\ WholeDocument(proposedWorking')
      BY <2>1, AfterIsWhole DEF TypeOK
    <3>2. count' \in 0..MaxOperations
      BY <1>3, BoundAssumption DEF Operate, TypeOK
    <3>. QED  BY <2>1, <3>1, <3>2 DEF TypeOK, WholeDocument
  <2>3. NoHiddenConflict'
    <3>1. ASSUME k \notin touched PROVE previous[k] = proposed[k]
      BY <2>1, <3>1 DEF stableRebasePath, OnlyTheDeltaIsAdded
    <3>. QED  BY <2>1, <3>1 DEF NoHiddenConflict
  <2>4. OnlyTheDeltaIsAdded'
    BY <2>1, SameMemberSameEffect DEF OnlyTheDeltaIsAdded
  <2>5. ConflictsAreReal'
    BY <1>3, <2>1 DEF ConflictsAreReal, Operate
  <2>. QED  BY <2>2, <2>3, <2>4, <2>5
<1>4. ASSUME NEW o \in Operations, Fail(o)
      PROVE  RebaseInv'
  <2>1. /\ UNCHANGED <<inputs, copies, touched, count>> /\ MemberOf[o] \in Members
        /\ status' = Verdict(o) /\ at' = MemberOf[o] /\ Verdict(o) # "applied"
    BY <1>4, OperationAssumption DEF Fail
  <2>2. Verdict(o) # "proposed_inapplicable"
    BY SameMemberSameEffect DEF Verdict
  <2>3. Verdict(o) \in Failures
    BY <2>1 DEF Verdict, Failures
  <2>4. Verdict(o) = "conflict" => previous[MemberOf[o]] # proposed[MemberOf[o]]
    <3>1. ASSUME Verdict(o) = "conflict"
          PROVE  previousWorking[MemberOf[o]] # proposedWorking[MemberOf[o]]
      BY <3>1 DEF Verdict, stableRebasePath
    <3>. QED  BY <2>1, <3>1 DEF OnlyTheDeltaIsAdded, NoHiddenConflict
  <2>. QED
    BY <2>1, <2>2, <2>3, <2>4 DEF inputs, copies, TypeOK, WholeDocument, Statuses,
       NoHiddenConflict, OnlyTheDeltaIsAdded, ConflictsAreReal
<1>5. CASE UNCHANGED vars
  BY <1>5 DEF vars, TypeOK, WholeDocument, NoHiddenConflict, OnlyTheDeltaIsAdded,
     ConflictsAreReal
<1>. QED  BY <1>1, <1>2, <1>3, <1>4, <1>5 DEF Next

THEOREM RebaseInvariant == Spec => []RebaseInv
<1>. QED  BY RebaseInit, RebaseStep, PTL DEF Spec

\* No operation of a patch hides a difference the two sources started with
\* (stableRebasePath on working copies, after any number of operations).
THEOREM NoConflictIsHidden == Spec => []NoHiddenConflict
<1>1. RebaseInv => NoHiddenConflict
  BY DEF RebaseInv
<1>. QED  BY <1>1, RebaseInvariant, PTL

\* A rebase carries the delta over and nothing else: a three-way merge by top-level
\* member.
THEOREM RebaseIsThreeWay == Spec => []OnlyTheDeltaIsAdded
<1>1. RebaseInv => OnlyTheDeltaIsAdded
  BY DEF RebaseInv
<1>. QED  BY <1>1, RebaseInvariant, PTL

\* No update is sent to a human for a conflict that is not one, and the second
\* application of an operation never fails where the first succeeded.
THEOREM NoFalseConflict == Spec => []ConflictsAreReal
<1>1. RebaseInv => ConflictsAreReal
  BY DEF RebaseInv
<1>. QED  BY <1>1, RebaseInvariant, PTL

----------------------------------------------------------------------------
\* Induction, from the pigeonhole principle: what is closed under successor and holds at 0
\* leaves no number out, or the numbers left out up to some n would fit, each one lower,
\* among those without n.
LEMMA Induction ==
    ASSUME NEW T, 0 \in T, \A n \in Nat : n \in T => n + 1 \in T
    PROVE  \A n \in Nat : n \in T
<1>1. SUFFICES ASSUME NEW n \in Nat, n \notin T PROVE FALSE
  OBVIOUS
<1>. DEFINE U == (0..n) \ T
            V == U \ {n}
            f == [x \in U |-> x - 1]
<1>2. IsFiniteSet(U)
  <2>1. IsFiniteSet(0..n) /\ U \in SUBSET (0..n)
    BY FS_Interval
  <2>. HIDE DEF U
  <2>. QED BY <2>1, FS_Subset
<1>3. IsFiniteSet(V) /\ Cardinality(V) < Cardinality(U)
  <2>1. n \in U
    BY <1>1
  <2>2. Cardinality(U) \in Nat
    BY <1>2, FS_CardinalityType
  <2>3. IsFiniteSet(V) /\ Cardinality(V) = Cardinality(U) - 1
    <3>. HIDE DEF U
    <3>. QED BY <1>2, <2>1, FS_RemoveElement
  <2>. QED BY <2>2, <2>3
<1>4. f \in [U -> V]
  <2>. SUFFICES ASSUME NEW x \in U PROVE x - 1 \in V
    OBVIOUS
  <2>. QED OBVIOUS
<1>5. \A x, y \in U : x # y => f[x] # f[y]
  OBVIOUS
<1>. HIDE DEF U, V, f
<1>. QED BY <1>2, <1>3, <1>4, <1>5, FS_PigeonHole

----------------------------------------------------------------------------
\* The recursive functions are the functions their equations describe.
LEMMA DescendDef ==
    ASSUME NEW node, NEW path, Len(path) \in Nat \ {0}
    PROVE  descend(node, path) =
             [i \in 0..(Len(path) - 1) |->
                IF i = 0 THEN node ELSE childAt(descend(node, path)[i - 1], path[i])]
<1>. DEFINE IsWay(g, m) ==
              g = [i \in 0..m |-> IF i = 0 THEN node ELSE childAt(g[i - 1], path[i])]
            T == {m \in Nat : \E g : IsWay(g, m)}
<1>1. 0 \in T
  <2>1. IsWay([i \in 0..0 |-> node], 0)
    OBVIOUS
  <2>. QED BY <2>1
<1>2. ASSUME NEW m \in Nat, m \in T PROVE m + 1 \in T
  <2>1. PICK g : IsWay(g, m)
    BY <1>2
  <2>. DEFINE h == [i \in 0..(m + 1) |->
                      IF i <= m THEN g[i] ELSE childAt(g[m], path[m + 1])]
  <2>2. \A i \in 0..(m + 1) :
            h[i] = IF i = 0 THEN node ELSE childAt(h[i - 1], path[i])
    BY <2>1
  <2>3. h = [i \in 0..(m + 1) |-> h[i]]
    OBVIOUS
  <2>4. IsWay(h, m + 1)
    <3>. HIDE DEF h
    <3>. QED BY <2>2, <2>3
  <2>. HIDE DEF IsWay
  <2>. QED BY <2>4
<1>. HIDE DEF T
<1>3. Len(path) - 1 \in T
  BY <1>1, <1>2, Induction
<1>. USE DEF T
<1>. QED BY <1>3 DEF descend

\* What stands one token below any value of a set.
BelowAny(X, t) == UNION {Below(x, t) : x \in X}

LEMMA AlongDef ==
    ASSUME NEW v, NEW path, Len(path) \in Nat
    PROVE  Along(v, path) =
             [i \in 0..Len(path) |->
                IF i = 0 THEN {v} ELSE BelowAny(Along(v, path)[i - 1], path[i])]
<1>. DEFINE IsWay(g, m) ==
              g = [i \in 0..m |-> IF i = 0 THEN {v} ELSE BelowAny(g[i - 1], path[i])]
            T == {m \in Nat : \E g : IsWay(g, m)}
<1>1. 0 \in T
  <2>1. IsWay([i \in 0..0 |-> {v}], 0)
    OBVIOUS
  <2>. QED BY <2>1
<1>2. ASSUME NEW m \in Nat, m \in T PROVE m + 1 \in T
  <2>1. PICK g : IsWay(g, m)
    BY <1>2
  <2>. DEFINE h == [i \in 0..(m + 1) |->
                      IF i <= m THEN g[i] ELSE BelowAny(g[m], path[m + 1])]
  <2>2. \A i \in 0..(m + 1) :
            h[i] = IF i = 0 THEN {v} ELSE BelowAny(h[i - 1], path[i])
    <3>1. \A i \in 0..m : g[i] = IF i = 0 THEN {v} ELSE BelowAny(g[i - 1], path[i])
      BY <2>1
    <3>. SUFFICES ASSUME NEW i \in 0..(m + 1)
                  PROVE  h[i] = IF i = 0 THEN {v} ELSE BelowAny(h[i - 1], path[i])
      OBVIOUS
    <3>2. CASE i = 0
      <4>1. g[i] = {v} /\ h[i] = g[i]
        BY <3>1, <3>2
      <4>. QED BY <3>2, <4>1
    <3>3. CASE i # 0 /\ i <= m
      <4>1. h[i] = g[i] /\ h[i - 1] = g[i - 1] /\ i \in 0..m
        BY <3>3
      <4>. HIDE DEF h
      <4>2. g[i] = BelowAny(g[i - 1], path[i])
        BY <3>1, <3>3, <4>1
      <4>. QED BY <3>3, <4>1, <4>2
    <3>4. CASE i = m + 1
      <4>1. h[i] = BelowAny(g[m], path[m + 1]) /\ h[i - 1] = g[m]
        BY <3>4
      <4>. HIDE DEF h
      <4>. QED BY <3>4, <4>1
    <3>. QED BY <3>2, <3>3, <3>4
  <2>3. h = [i \in 0..(m + 1) |-> h[i]]
    OBVIOUS
  <2>4. IsWay(h, m + 1)
    <3>. HIDE DEF h
    <3>. QED BY <2>2, <2>3
  <2>. HIDE DEF IsWay
  <2>. QED BY <2>4
<1>. HIDE DEF T
<1>3. Len(path) \in T
  BY <1>1, <1>2, Induction
<1>. USE DEF T
<1>. QED BY <1>3 DEF Along, BelowAny

LEMMA AlongStep ==
    ASSUME NEW v, NEW path, Len(path) \in Nat
    PROVE  /\ Along(v, path)[0] = {v}
           /\ \A k \in Nat : k < Len(path) =>
                 Along(v, path)[k + 1] = BelowAny(Along(v, path)[k], path[k + 1])
<1>. DEFINE A == Along(v, path)
            n == Len(path)
<1>1. A = [i \in 0..n |-> IF i = 0 THEN {v} ELSE BelowAny(A[i - 1], path[i])]
  BY AlongDef
<1>. HIDE DEF A
<1>. SUFFICES A[0] = {v} /\ \A k \in Nat : k < n => A[k + 1] = BelowAny(A[k], path[k + 1])
  BY DEF A
<1>. HIDE DEF n
<1>2. n \in Nat
  BY DEF n
<1>3. \A i \in 0..n : A[i] = IF i = 0 THEN {v} ELSE BelowAny(A[i - 1], path[i])
  BY <1>1
<1>4. A[0] = {v}
  BY <1>3, <1>2
<1>5. ASSUME NEW k \in Nat, k < n PROVE A[k + 1] = BelowAny(A[k], path[k + 1])
  <2>1. k + 1 \in 0..n /\ k + 1 # 0 /\ k + 1 - 1 = k
    BY <1>2, <1>5
  <2>2. A[k + 1] = BelowAny(A[k + 1 - 1], path[k + 1])
    BY <1>3, <2>1
  <2>. QED BY <2>1, <2>2
<1>. QED BY <1>4, <1>5

\* The node that is rebuilt i tokens from the end of the pointer.
RebuiltFrom(node, path, child, i) ==
    IF child = Failure THEN Failure
    ELSE withChild(descend(node, path)[Len(path) - i], path[Len(path) - i + 1], child)

LEMMA RebuildDef ==
    ASSUME NEW node, NEW path, NEW op, NEW v, Len(path) \in Nat \ {0}
    PROVE  rebuild(node, path, op, v) =
             [i \in 1..Len(path) |->
                IF i = 1
                THEN applyJSONLeaf(descend(node, path)[Len(path) - 1], path[Len(path)], op, v)
                ELSE RebuiltFrom(node, path, rebuild(node, path, op, v)[i - 1], i)]
<1>. DEFINE IsWay(g, m) ==
              g = [i \in 1..m |->
                     IF i = 1
                     THEN applyJSONLeaf(descend(node, path)[Len(path) - 1], path[Len(path)], op, v)
                     ELSE RebuiltFrom(node, path, g[i - 1], i)]
            T == {m \in Nat : \E g : IsWay(g, m)}
<1>1. 0 \in T
  <2>1. IsWay([i \in 1..0 |->
                 applyJSONLeaf(descend(node, path)[Len(path) - 1], path[Len(path)], op, v)], 0)
    OBVIOUS
  <2>. QED BY <2>1
<1>2. ASSUME NEW m \in Nat, m \in T PROVE m + 1 \in T
  <2>1. PICK g : IsWay(g, m)
    BY <1>2
  <2>. DEFINE h == [i \in 1..(m + 1) |->
                      IF i <= m THEN g[i]
                      ELSE IF m = 0
                      THEN applyJSONLeaf(descend(node, path)[Len(path) - 1], path[Len(path)], op, v)
                      ELSE RebuiltFrom(node, path, g[m], m + 1)]
  <2>2. \A i \in 1..(m + 1) :
            h[i] = IF i = 1
                   THEN applyJSONLeaf(descend(node, path)[Len(path) - 1], path[Len(path)], op, v)
                   ELSE RebuiltFrom(node, path, h[i - 1], i)
    BY <2>1
  <2>3. h = [i \in 1..(m + 1) |-> h[i]]
    OBVIOUS
  <2>4. IsWay(h, m + 1)
    <3>. HIDE DEF h
    <3>. QED BY <2>2, <2>3
  <2>. HIDE DEF IsWay
  <2>. QED BY <2>4
<1>. HIDE DEF T
<1>3. Len(path) \in T
  BY <1>1, <1>2, Induction
<1>. USE DEF T
<1>. QED BY <1>3 DEF rebuild, RebuiltFrom

----------------------------------------------------------------------------
\* A document is proper if it is part of a set of values that contains the parts of all its
\* members, whose arrays are sequences.
Closed(S) ==
    \A x \in S : /\ x.kind \in {"scalar", "object", "array"}
                 /\ Parts(x) \subseteq S
                 /\ x.kind = "array" => x.items \in Seq(S)
Proper(d) == \E S : Closed(S) /\ d \in S

\* One step down: the code and the reference find the same child.
LEMMA BelowChild ==
    ASSUME NEW S, Closed(S), NEW x \in S, NEW t
    PROVE  \/ Below(x, t) = {childAt(x, t)} /\ childAt(x, t) \in S
           \/ Below(x, t) = {} /\ childAt(x, t) = Failure
<1>1. CASE x.kind = "object"
  <2>1. Below(x, t) = {x.members[u] : u \in DOMAIN x.members \cap {t}}
    BY <1>1 DEF Below
  <2>2. \A u \in DOMAIN x.members : x.members[u] \in S
    BY <1>1 DEF Closed, Parts
  <2>3. CASE t \in DOMAIN x.members
    <3>1. Below(x, t) = {x.members[t]} /\ childAt(x, t) = x.members[t]
      BY <1>1, <2>1, <2>3 DEF childAt
    <3>. QED BY <2>2, <2>3, <3>1
  <2>4. CASE t \notin DOMAIN x.members
    <3>1. Below(x, t) = {}
      BY <2>1, <2>4
    <3>2. childAt(x, t) = Failure
      BY <1>1, <2>4 DEF childAt
    <3>. QED BY <3>1, <3>2
  <2>. QED BY <2>3, <2>4
<1>2. CASE x.kind = "array"
  <2>1. x.items \in Seq(S) /\ Len(x.items) \in Nat
    BY <1>2 DEF Closed
  <2>2. CASE existingArrayIndex(t, Len(x.items))
    <3>1. t \in DOMAIN Numeral /\ position(t) \in 1..Len(x.items)
      BY <2>1, <2>2, NumeralAssumption DEF existingArrayIndex, position
    <3>2. Below(x, t) = {x.items[i] : i \in (1..Len(x.items)) \cap {position(t)}}
      BY <1>2, <3>1 DEF Below
    <3>3. Below(x, t) = {x.items[position(t)]}
      BY <3>1, <3>2
    <3>4. childAt(x, t) = x.items[position(t)]
      BY <1>2, <2>2 DEF childAt
    <3>. QED BY <2>1, <3>1, <3>3, <3>4
  <2>3. CASE ~existingArrayIndex(t, Len(x.items))
    <3>1. t \in DOMAIN Numeral => position(t) \notin 1..Len(x.items)
      BY <2>1, <2>3, NumeralAssumption DEF existingArrayIndex, position
    <3>2. Below(x, t) = {}
      BY <1>2, <3>1 DEF Below
    <3>3. childAt(x, t) = Failure
      BY <1>2, <2>3 DEF childAt
    <3>. QED BY <3>2, <3>3
  <2>. QED BY <2>2, <2>3
<1>3. CASE x.kind \notin {"object", "array"}
  <2>1. Below(x, t) = {}
    BY <1>3 DEF Below
  <2>2. childAt(x, t) = Failure
    BY <1>3 DEF childAt
  <2>. QED BY <2>1, <2>2
<1>. QED BY <1>1, <1>2, <1>3

LEMMA BelowFailure ==
    ASSUME NEW t
    PROVE  Below(Failure, t) = {} /\ childAt(Failure, t) = Failure
<1>1. Failure.kind = "failure"
  BY DEF Failure
<1>. HIDE DEF Failure
<1>. QED BY <1>1 DEF Below, childAt

\* What a pointer is, and its parent.
LEMMA PathFacts ==
    ASSUME NEW path, NEW P, path \in Seq(P), path # << >>
    PROVE  /\ Len(path) \in Nat \ {0}
           /\ Len(parentOf(path)) = Len(path) - 1
           /\ \A i \in 1..(Len(path) - 1) : parentOf(path)[i] = path[i]
           /\ parentOf(path) \in Seq(P)
<1>. DEFINE n == Len(path)
<1>1. n \in Nat \ {0}
  BY EmptySeq
<1>2. \A i \in 1..(n - 1) : path[i] \in P
  BY <1>1
<1>. HIDE DEF n
<1>3. /\ SubSeq(path, 1, n - 1) \in Seq(P)
      /\ Len(SubSeq(path, 1, n - 1)) = IF 1 <= n - 1 THEN n - 1 - 1 + 1 ELSE 0
      /\ \A i \in 1..(n - 1 - 1 + 1) : SubSeq(path, 1, n - 1)[i] = path[1 + i - 1]
  BY <1>1, <1>2, SubSeqProperties
<1>4. /\ SubSeq(path, 1, n - 1) \in Seq(P)
      /\ Len(SubSeq(path, 1, n - 1)) = n - 1
  BY <1>1, <1>3
<1>5. ASSUME NEW i \in 1..(n - 1) PROVE SubSeq(path, 1, n - 1)[i] = path[i]
  <2>1. i \in 1..(n - 1 - 1 + 1) /\ 1 + i - 1 = i
    BY <1>1
  <2>2. SubSeq(path, 1, n - 1)[i] = path[1 + i - 1]
    BY <1>3, <2>1
  <2>. QED BY <2>1, <2>2
<1>6. parentOf(path) = SubSeq(path, 1, n - 1)
  BY DEF parentOf, n
<1>. QED BY <1>1, <1>4, <1>5, <1>6 DEF n

\* The way down is the way along the parent's pointer, as far as there is one.
LEMMA WayDown ==
    ASSUME NEW S, Closed(S), NEW d \in S, NEW path, NEW P, path \in Seq(P), path # << >>
    PROVE  \A i \in 0..(Len(path) - 1) :
              LET x == descend(d, path)[i]  X == Along(d, parentOf(path))[i]
              IN (X = {x} /\ x \in S) \/ (X = {} /\ x = Failure)
<1>. DEFINE n == Len(path)
            D == descend(d, path)
            A == Along(d, parentOf(path))
            Same(i) == (A[i] = {D[i]} /\ D[i] \in S) \/ (A[i] = {} /\ D[i] = Failure)
            T == {i \in Nat : i < n => Same(i)}
<1>1. /\ n \in Nat \ {0} /\ Len(parentOf(path)) = n - 1
      /\ \A i \in 1..(n - 1) : parentOf(path)[i] = path[i]
  BY PathFacts
<1>2. /\ D[0] = d
      /\ \A i \in Nat : i + 1 < n => D[i + 1] = childAt(D[i], path[i + 1])
  <2>1. D = [i \in 0..(n - 1) |-> IF i = 0 THEN d ELSE childAt(D[i - 1], path[i])]
    BY <1>1, DescendDef
  <2>. HIDE DEF D, n
  <2>. QED BY <1>1, <2>1
<1>3. /\ A[0] = {d}
      /\ \A i \in Nat : i + 1 < n => A[i + 1] = UNION {Below(x, path[i + 1]) : x \in A[i]}
  <2>1. Len(parentOf(path)) \in Nat
    BY <1>1
  <2>2. /\ A[0] = {d}
        /\ \A i \in Nat : i < Len(parentOf(path)) => A[i + 1] = BelowAny(A[i], parentOf(path)[i + 1])
    BY <2>1, AlongStep
  <2>. HIDE DEF A, n
  <2>3. ASSUME NEW i \in Nat, i + 1 < n
        PROVE  A[i + 1] = BelowAny(A[i], path[i + 1])
    <3>1. i < Len(parentOf(path)) /\ parentOf(path)[i + 1] = path[i + 1]
      BY <1>1, <2>3
    <3>. QED BY <2>2, <3>1
  <2>. QED BY <2>2, <2>3 DEF BelowAny
<1>. HIDE DEF D, A, n
<1>4. 0 \in T
  BY <1>2, <1>3
<1>5. ASSUME NEW i \in Nat, i \in T PROVE i + 1 \in T
  <2>. SUFFICES ASSUME i + 1 < n PROVE Same(i + 1)
    OBVIOUS
  <2>1. Same(i)
    BY <1>1, <1>5
  <2>2. A[i + 1] = UNION {Below(x, path[i + 1]) : x \in A[i]}
    BY <1>3
  <2>3. D[i + 1] = childAt(D[i], path[i + 1])
    BY <1>2
  <2>4. CASE A[i] = {D[i]} /\ D[i] \in S
    <3>1. A[i + 1] = Below(D[i], path[i + 1])
      BY <2>2, <2>4
    <3>. QED BY <2>3, <2>4, <3>1, BelowChild
  <2>5. CASE A[i] = {} /\ D[i] = Failure
    <3>1. A[i + 1] = {}
      BY <2>2, <2>5
    <3>. QED BY <2>3, <2>5, <3>1, BelowFailure
  <2>. QED BY <2>1, <2>4, <2>5
<1>. HIDE DEF T
<1>6. \A i \in Nat : i \in T
  BY <1>4, <1>5, Induction
<1>. QED BY <1>1, <1>6 DEF T, D, A, n

----------------------------------------------------------------------------
\* A container stays a container of its kind, at the parent and above it.
LEMMA LeafKind ==
    ASSUME NEW x, NEW t, NEW op, NEW v, applyJSONLeaf(x, t, op, v) # Failure
    PROVE  x.kind \in {"object", "array"} /\ applyJSONLeaf(x, t, op, v).kind = x.kind
<1>1. \A f : Object(f).kind = "object" /\ Array(f).kind = "array"
  BY DEF Object, Array
<1>2. CASE x.kind = "object"
  BY <1>1, <1>2 DEF applyJSONLeaf, applyToObject
<1>3. CASE x.kind = "array"
  BY <1>1, <1>3 DEF applyJSONLeaf, applyToArray
<1>4. CASE x.kind \notin {"object", "array"}
  BY <1>4 DEF applyJSONLeaf
<1>. QED BY <1>2, <1>3, <1>4

LEMMA ChildKind ==
    ASSUME NEW x, NEW t, NEW child
    PROVE  /\ withChild(x, t, child) # Failure
           /\ withChild(x, t, child).kind = IF x.kind = "object" THEN "object" ELSE "array"
<1>1. \A f : Object(f).kind = "object" /\ Array(f).kind = "array" /\ Failure.kind = "failure"
  BY DEF Object, Array, Failure
<1>. QED BY <1>1 DEF withChild

\* What the calls return, the last but i tokens done: the way back.
LEMMA WayBack ==
    ASSUME NEW d, NEW path, NEW P, path \in Seq(P), path # << >>, NEW op, NEW v
    PROVE  LET n == Len(path)  D == descend(d, path)  R == rebuild(d, path, op, v)
           IN /\ n \in Nat \ {0}
              /\ R[1] = applyJSONLeaf(D[n - 1], path[n], op, v)
              /\ \A i \in 1..(n - 1) : R[i + 1] =
                    IF R[i] = Failure THEN Failure
                    ELSE withChild(D[n - 1 - i], path[n - i], R[i])
              /\ \A i \in 1..n : R[i] # Failure <=> R[1] # Failure
<1>. DEFINE n == Len(path)
            D == descend(d, path)
            R == rebuild(d, path, op, v)
<1>1. n \in Nat \ {0}
  BY PathFacts
<1>2. R = [i \in 1..n |-> IF i = 1 THEN applyJSONLeaf(D[n - 1], path[n], op, v)
                          ELSE RebuiltFrom(d, path, R[i - 1], i)]
  BY <1>1, RebuildDef
<1>3. R[1] = applyJSONLeaf(D[n - 1], path[n], op, v)
  <2>. HIDE DEF n, R
  <2>. QED BY <1>1, <1>2
<1>4. ASSUME NEW i \in 1..(n - 1)
      PROVE  R[i + 1] = IF R[i] = Failure THEN Failure
                        ELSE withChild(D[n - 1 - i], path[n - i], R[i])
  <2>1. R[i + 1] = RebuiltFrom(d, path, R[i + 1 - 1], i + 1)
    <3>. HIDE DEF n, R
    <3>. QED BY <1>1, <1>2
  <2>2. i + 1 - 1 = i /\ n - (i + 1) = n - 1 - i /\ n - (i + 1) + 1 = n - i
    <3>. HIDE DEF n
    <3>. QED BY <1>1
  <2>. QED BY <2>1, <2>2 DEF RebuiltFrom
<1>. DEFINE T == {i \in Nat : i < n => (R[i + 1] # Failure <=> R[1] # Failure)}
<1>. HIDE DEF n, D, R
<1>5. 0 \in T
  BY <1>1
<1>6. ASSUME NEW i \in Nat, i \in T PROVE i + 1 \in T
  <2>. SUFFICES ASSUME i + 1 < n PROVE R[i + 1 + 1] # Failure <=> R[1] # Failure
    OBVIOUS
  <2>1. R[i + 1] # Failure <=> R[1] # Failure
    BY <1>1, <1>6
  <2>2. i + 1 \in 1..(n - 1)
    BY <1>1
  <2>3. R[i + 1 + 1] = IF R[i + 1] = Failure THEN Failure
                       ELSE withChild(D[n - 1 - (i + 1)], path[n - (i + 1)], R[i + 1])
    BY <1>4, <2>2
  <2>4. CASE R[i + 1] = Failure
    BY <2>1, <2>3, <2>4
  <2>5. CASE R[i + 1] # Failure
    <3>1. R[i + 1 + 1] = withChild(D[n - 1 - (i + 1)], path[n - (i + 1)], R[i + 1])
      BY <2>3, <2>5
    <3>2. R[i + 1 + 1] # Failure
      BY <3>1, ChildKind
    <3>. QED BY <2>1, <2>5, <3>2
  <2>. QED BY <2>4, <2>5
<1>. HIDE DEF T
<1>7. \A i \in Nat : i \in T
  BY <1>5, <1>6, Induction
<1>8. ASSUME NEW i \in 1..n PROVE R[i] # Failure <=> R[1] # Failure
  <2>1. i - 1 \in Nat /\ i - 1 < n /\ i - 1 + 1 = i
    BY <1>1
  <2>2. i - 1 \in T
    BY <1>7, <2>1
  <2>. QED BY <2>1, <2>2 DEF T
<1>. QED BY <1>1, <1>3, <1>4, <1>8 DEF n, D, R

\* An operation at a token applies exactly to a container where the token may be.
LEMMA LeafApplies ==
    ASSUME NEW S, Closed(S), NEW x \in S, NEW t, NEW op \in Ops, NEW v
    PROVE  applyJSONLeaf(x, t, op, v) # Failure <=>
             \/ x.kind = "object" /\ ((op = "add") <=> (Below(x, t) = {}))
             \/ x.kind = "array" /\ (IF op = "add" THEN t = Dash ELSE Below(x, t) # {})
<1>1. \A f : Object(f).kind = "object" /\ Array(f).kind = "array" /\ Failure.kind = "failure"
  BY DEF Object, Array, Failure
<1>2. CASE x.kind = "object"
  <2>1. Below(x, t) = {} <=> t \notin DOMAIN x.members
    BY <1>2 DEF Below
  <2>2. applyJSONLeaf(x, t, op, v) = applyToObject(x.members, t, op, v)
    BY <1>2 DEF applyJSONLeaf
  <2>3. applyToObject(x.members, t, op, v) # Failure <=> ((op = "add") <=> t \notin DOMAIN x.members)
    BY <1>1 DEF applyToObject
  <2>. QED BY <1>2, <2>1, <2>2, <2>3
<1>3. CASE x.kind = "array"
  <2>1. x.items \in Seq(S) /\ Len(x.items) \in Nat
    BY <1>3 DEF Closed
  <2>2. Below(x, t) # {} <=> existingArrayIndex(t, Len(x.items))
    <3>1. existingArrayIndex(t, Len(x.items)) <=>
            t \in DOMAIN Numeral /\ position(t) \in 1..Len(x.items)
      BY <2>1, NumeralAssumption DEF existingArrayIndex, position
    <3>. QED BY <1>3, <3>1 DEF Below
  <2>3. applyJSONLeaf(x, t, op, v) = applyToArray(x.items, t, op, v)
    BY <1>3 DEF applyJSONLeaf
  <2>4. applyToArray(x.items, t, op, v) # Failure <=>
          (IF op = "add" THEN t = Dash ELSE existingArrayIndex(t, Len(x.items)))
    BY <1>1 DEF applyToArray
  <2>. QED BY <1>3, <2>2, <2>3, <2>4
<1>4. CASE x.kind \notin {"object", "array"}
  BY <1>4 DEF applyJSONLeaf
<1>. QED BY <1>2, <1>3, <1>4

\* applyJSONOperation succeeds exactly when the reference calls the operation legal: on
\* documents of any size and at pointers of any length.
THEOREM OperationAppliesWhenLegal ==
    ASSUME NEW d, Proper(d), NEW P, NEW path \in Seq(P), path # << >>, NEW op \in Ops, NEW v
    PROVE  applyJSONOperation(d, path, op, v) # Failure <=> Legal(d, op, path)
<1>. DEFINE n == Len(path)
            x == descend(d, path)[n - 1]
            X == Standing(d, parentOf(path))
            allowed(y) ==
              \/ y.kind = "object" /\ ((op = "add") <=> (Below(y, path[n]) = {}))
              \/ y.kind = "array" /\ (IF op = "add" THEN path[n] = Dash ELSE Below(y, path[n]) # {})
<1>1. PICK S : Closed(S) /\ d \in S
  BY DEF Proper
<1>2. n \in Nat \ {0} /\ Len(parentOf(path)) = n - 1
  BY PathFacts
<1>3. (X = {x} /\ x \in S) \/ (X = {} /\ x = Failure)
  <2>1. n - 1 \in 0..(n - 1)
    BY <1>2
  <2>. QED BY <1>1, <1>2, <2>1, WayDown DEF Standing
<1>4. applyJSONOperation(d, path, op, v) # Failure <=> applyJSONLeaf(x, path[n], op, v) # Failure
  <2>1. n \in 1..n
    BY <1>2
  <2>. QED BY <2>1, WayBack DEF applyJSONOperation
<1>5. Legal(d, op, path) <=> \E y \in X : allowed(y)
  BY DEF Legal, lastOf
<1>6. CASE X = {x} /\ x \in S
  <2>1. applyJSONLeaf(x, path[n], op, v) # Failure <=> allowed(x)
    <3>. HIDE DEF x
    <3>. QED BY <1>1, <1>6, LeafApplies
  <2>. QED BY <1>4, <1>5, <1>6, <2>1
<1>7. CASE X = {} /\ x = Failure
  <2>1. Failure.kind = "failure"
    BY DEF Failure
  <2>2. applyJSONLeaf(x, path[n], op, v) = Failure
    BY <1>7, <2>1 DEF applyJSONLeaf
  <2>. QED BY <1>4, <1>5, <1>7, <2>2
<1>. QED BY <1>3, <1>6, <1>7

----------------------------------------------------------------------------
\* What stands below a rebuilt container: the new child at its token, and all else as before.
LEMMA BelowWithChild ==
    ASSUME NEW S, Closed(S), NEW x \in S, NEW t, NEW child, childAt(x, t) # Failure, NEW u
    PROVE  Below(withChild(x, t, child), u) = IF u = t THEN {child} ELSE Below(x, u)
<1>1. CASE x.kind = "object"
  <2>. DEFINE f == x.members
              g == putMember(f, t, child)
  <2>1. withChild(x, t, child).kind = "object" /\ withChild(x, t, child).members = g
    BY <1>1 DEF withChild, Object
  <2>2. t \in DOMAIN f
    BY <1>1 DEF childAt
  <2>3. DOMAIN g = DOMAIN f /\ g[t] = child /\ \A z \in DOMAIN f : z # t => g[z] = f[z]
    BY <2>2 DEF putMember
  <2>4. Below(withChild(x, t, child), u) = {g[z] : z \in DOMAIN g \cap {u}}
    <3>. HIDE DEF g
    <3>. QED BY <2>1 DEF Below
  <2>5. Below(x, u) = {f[z] : z \in DOMAIN f \cap {u}}
    BY <1>1 DEF Below
  <2>. HIDE DEF f, g
  <2>6. CASE u = t
    BY <2>2, <2>3, <2>4, <2>6
  <2>7. CASE u # t
    <3>1. {g[z] : z \in DOMAIN g \cap {u}} = {f[z] : z \in DOMAIN f \cap {u}}
      BY <2>3, <2>7
    <3>. QED BY <2>4, <2>5, <2>7, <3>1
  <2>. QED BY <2>6, <2>7
<1>2. CASE x.kind = "array"
  <2>. DEFINE f == x.items
              g == [f EXCEPT ![position(t)] = child]
  <2>1. withChild(x, t, child).kind = "array" /\ withChild(x, t, child).items = g
    BY <1>2 DEF withChild, Array
  <2>2. f \in Seq(S) /\ Len(f) \in Nat /\ DOMAIN f = 1..Len(f)
    BY <1>2 DEF Closed
  <2>3. t \in DOMAIN Numeral /\ position(t) \in 1..Len(f)
    <3>1. existingArrayIndex(t, Len(f))
      BY <1>2 DEF childAt
    <3>. QED BY <2>2, <3>1, NumeralAssumption DEF existingArrayIndex, position
  <2>4. /\ Len(g) = Len(f) /\ g[position(t)] = child
        /\ \A i \in 1..Len(f) : i # position(t) => g[i] = f[i]
    <3>1. g \in Seq(S \cup {child}) /\ Len(g) = Len(f)
      <4>1. f \in Seq(S \cup {child})
        BY <2>2
      <4>. HIDE DEF f
      <4>. QED BY <2>3, <4>1
    <3>. QED BY <2>2, <2>3, <3>1
  <2>5. Below(withChild(x, t, child), u) =
          {g[i] : i \in IF u \in DOMAIN Numeral THEN (1..Len(g)) \cap {position(u)} ELSE {}}
    <3>. HIDE DEF g
    <3>. QED BY <2>1 DEF Below
  <2>6. Below(x, u) =
          {f[i] : i \in IF u \in DOMAIN Numeral THEN (1..Len(f)) \cap {position(u)} ELSE {}}
    BY <1>2 DEF Below
  <2>7. u \in DOMAIN Numeral /\ u # t => position(u) # position(t)
    BY <2>3, NumeralAssumption DEF position
  <2>. HIDE DEF f, g
  <2>8. CASE u = t
    BY <2>3, <2>4, <2>5, <2>8
  <2>9. CASE u # t
    <3>. DEFINE I == IF u \in DOMAIN Numeral THEN (1..Len(f)) \cap {position(u)} ELSE {}
    <3>1. \A i \in I : g[i] = f[i]
      BY <2>4, <2>7, <2>9
    <3>2. {g[i] : i \in I} = {f[i] : i \in I}
      BY <3>1
    <3>. QED BY <2>4, <2>5, <2>6, <2>9, <3>2
  <2>. QED BY <2>8, <2>9
<1>3. CASE x.kind \notin {"object", "array"}
  BY <1>3 DEF childAt
<1>. QED BY <1>1, <1>2, <1>3

\* What stands below the parent after the operation.
LEMMA BelowLeaf ==
    ASSUME NEW S, Closed(S), NEW x \in S, NEW t, NEW op \in Ops, NEW v,
           applyJSONLeaf(x, t, op, v) # Failure, NEW u
    PROVE  Below(applyJSONLeaf(x, t, op, v), u) = Replaced(x, op, t, v, u)
<1>. DEFINE r == applyJSONLeaf(x, t, op, v)
<1>1. CASE x.kind = "object"
  <2>. DEFINE f == x.members
              g == IF op = "remove" THEN dropMember(f, t) ELSE putMember(f, t, v)
  <2>1. r = applyToObject(f, t, op, v)
    BY <1>1 DEF applyJSONLeaf
  <2>2. r.kind = "object" /\ r.members = g
    BY <2>1 DEF applyToObject, Object
  <2>3. Below(r, u) = {g[z] : z \in DOMAIN g \cap {u}}
    <3>. HIDE DEF g, r
    <3>. QED BY <2>2 DEF Below
  <2>4. Below(x, u) = {f[z] : z \in DOMAIN f \cap {u}}
    BY <1>1 DEF Below
  <2>5. Replaced(x, op, t, v, u) =
          IF u # t THEN Below(x, u) ELSE IF op = "remove" THEN {} ELSE {v}
    BY <1>1 DEF Replaced
  <2>6. CASE op = "remove"
    <3>1. DOMAIN g = DOMAIN f \ {t} /\ \A z \in DOMAIN g : g[z] = f[z]
      BY <2>6 DEF dropMember
    <3>. HIDE DEF f, g, r
    <3>2. {g[z] : z \in DOMAIN g \cap {u}} = IF u = t THEN {} ELSE {f[z] : z \in DOMAIN f \cap {u}}
      BY <3>1
    <3>. QED BY <2>3, <2>4, <2>5, <2>6, <3>2 DEF r
  <2>7. CASE op # "remove"
    <3>1. DOMAIN g = DOMAIN f \cup {t} /\ g[t] = v /\ \A z \in DOMAIN f : z # t => g[z] = f[z]
      BY <2>7 DEF putMember
    <3>. HIDE DEF f, g, r
    <3>2. CASE u = t
      <4>1. {g[z] : z \in DOMAIN g \cap {u}} = {v}
        BY <3>1, <3>2
      <4>. QED BY <2>3, <2>5, <2>7, <3>2, <4>1 DEF r
    <3>3. CASE u # t
      <4>1. {g[z] : z \in DOMAIN g \cap {u}} = {f[z] : z \in DOMAIN f \cap {u}}
        BY <3>1, <3>3
      <4>. QED BY <2>3, <2>4, <2>5, <3>3, <4>1 DEF r
    <3>. QED BY <3>2, <3>3
  <2>. QED BY <2>6, <2>7
<1>2. CASE x.kind = "array"
  <2>. DEFINE f == x.items
              index == IF u \in DOMAIN Numeral THEN Numeral[u] ELSE -1
  <2>1. f \in Seq(S) /\ Len(f) \in Nat /\ DOMAIN f = 1..Len(f)
    BY <1>2 DEF Closed
  <2>2. r = applyToArray(f, t, op, v)
    BY <1>2 DEF applyJSONLeaf
  <2>3. \A g : Below(Array(g), u) = {g[i] : i \in (1..Len(g)) \cap {index + 1}}
    <3>. SUFFICES ASSUME NEW g
                  PROVE  Below(Array(g), u) = {g[i] : i \in (1..Len(g)) \cap {index + 1}}
      OBVIOUS
    <3>1. Array(g).kind = "array" /\ Array(g).items = g
      BY DEF Array
    <3>2. Below(Array(g), u) =
            {g[i] : i \in IF u \in DOMAIN Numeral THEN (1..Len(g)) \cap {position(u)} ELSE {}}
      BY <3>1 DEF Below
    <3>3. (IF u \in DOMAIN Numeral THEN (1..Len(g)) \cap {position(u)} ELSE {})
            = (1..Len(g)) \cap {index + 1}
      <4>1. 0 \notin 1..Len(g)
        OBVIOUS
      <4>. QED BY <4>1 DEF position
    <3>. QED BY <3>2, <3>3
  <2>4. Below(x, u) = {f[i] : i \in (1..Len(f)) \cap {index + 1}}
    <3>2. Below(x, u) =
            {f[i] : i \in IF u \in DOMAIN Numeral THEN (1..Len(f)) \cap {position(u)} ELSE {}}
      BY <1>2 DEF Below
    <3>3. (IF u \in DOMAIN Numeral THEN (1..Len(f)) \cap {position(u)} ELSE {})
            = (1..Len(f)) \cap {index + 1}
      <4>1. 0 \notin 1..Len(f)
        OBVIOUS
      <4>. QED BY <4>1 DEF position
    <3>. QED BY <3>2, <3>3
  <2>5. index \in Int
    BY NumeralAssumption
  <2>6. CASE op = "add"
    <3>. DEFINE g == Append(f, v)
    <3>1. r = Array(g)
      BY <2>2, <2>6 DEF applyToArray
    <3>2. Len(g) = Len(f) + 1 /\ g[Len(f) + 1] = v /\ \A i \in 1..Len(f) : g[i] = f[i]
      <4>1. f \in Seq(S \cup {v}) /\ v \in S \cup {v}
        BY <2>1
      <4>. HIDE DEF f
      <4>. QED BY <4>1, AppendProperties
    <3>3. Below(r, u) = {g[i] : i \in (1..Len(g)) \cap {index + 1}}
      BY <2>3, <3>1
    <3>4. Replaced(x, op, t, v, u) = IF index = Len(f) THEN {v} ELSE Below(x, u)
      BY <1>2, <2>6 DEF Replaced
    <3>. HIDE DEF f, g, index, r
    <3>5. CASE index = Len(f)
      <4>1. {g[i] : i \in (1..Len(g)) \cap {index + 1}} = {v}
        BY <2>1, <3>2, <3>5
      <4>. QED BY <3>3, <3>4, <3>5, <4>1 DEF r
    <3>6. CASE index # Len(f)
      <4>1. (1..Len(g)) \cap {index + 1} = (1..Len(f)) \cap {index + 1}
        <5>1. index + 1 \in 1..Len(g) <=> index + 1 \in 1..Len(f)
          <6>1. Len(f) \in Nat /\ Len(g) = Len(f) + 1
            BY <2>1, <3>2
          <6>. QED BY <2>5, <3>6, <6>1
        <5>. QED BY <5>1
      <4>2. {g[i] : i \in (1..Len(f)) \cap {index + 1}} = {f[i] : i \in (1..Len(f)) \cap {index + 1}}
        BY <3>2
      <4>. QED BY <2>4, <3>3, <3>4, <3>6, <4>1, <4>2 DEF r
    <3>. QED BY <3>5, <3>6
  <2>7. CASE op # "add"
    <3>1. existingArrayIndex(t, Len(f))
      BY <2>2, <2>7 DEF applyToArray
    <3>2. t \in DOMAIN Numeral /\ Numeral[t] \in Nat /\ position(t) \in 1..Len(f)
      BY <2>1, <3>1, NumeralAssumption DEF existingArrayIndex, position
    <3>3. CASE op = "replace"
      <4>. DEFINE g == [f EXCEPT ![position(t)] = v]
      <4>1. r = Array(g)
        BY <2>2, <3>1, <3>3 DEF applyToArray
      <4>2. Len(g) = Len(f) /\ g[position(t)] = v /\ \A i \in 1..Len(f) : i # position(t) => g[i] = f[i]
        <5>1. g \in Seq(S \cup {v}) /\ Len(g) = Len(f)
          <6>1. f \in Seq(S \cup {v})
            BY <2>1
          <6>. HIDE DEF f
          <6>. QED BY <3>2, <6>1
        <5>. QED BY <2>1, <3>2, <5>1
      <4>3. Below(r, u) = {g[i] : i \in (1..Len(g)) \cap {index + 1}}
        BY <2>3, <4>1
      <4>4. Replaced(x, op, t, v, u) = IF u # t THEN Below(x, u) ELSE {v}
        BY <1>2, <3>3 DEF Replaced
      <4>5. index + 1 = position(t) <=> u = t
        BY <3>2, NumeralAssumption DEF position
      <4>. HIDE DEF f, g, index, r
      <4>6. CASE u = t
        <5>1. {g[i] : i \in (1..Len(g)) \cap {index + 1}} = {v}
          BY <3>2, <4>2, <4>5, <4>6
        <5>. QED BY <4>3, <4>4, <4>6, <5>1 DEF r
      <4>7. CASE u # t
        <5>1. {g[i] : i \in (1..Len(g)) \cap {index + 1}} = {f[i] : i \in (1..Len(f)) \cap {index + 1}}
          BY <4>2, <4>5, <4>7
        <5>. QED BY <2>4, <4>3, <4>4, <4>7, <5>1 DEF r
      <4>. QED BY <4>6, <4>7
    <3>4. CASE op = "remove"
      <4>. DEFINE g == dropItem(f, position(t))
      <4>1. r = Array(g)
        BY <2>2, <3>1, <3>4 DEF applyToArray
      <4>2. /\ Len(g) = Len(f) - 1
            /\ \A i \in 1..(Len(f) - 1) : g[i] = IF i < position(t) THEN f[i] ELSE f[i + 1]
        BY <2>1, <3>2 DEF dropItem
      <4>3. Below(r, u) = {g[i] : i \in (1..Len(g)) \cap {index + 1}}
        BY <2>3, <4>1
      <4>4. Replaced(x, op, t, v, u) =
              IF index < Numeral[t] THEN Below(x, u)
              ELSE {f[i] : i \in (1..Len(f)) \cap {index + 2}}
        BY <1>2, <3>4 DEF Replaced
      <4>5. position(t) = Numeral[t] + 1
        BY DEF position
      <4>. HIDE DEF f, g, index, r
      <4>6. CASE index < Numeral[t]
        <5>1. (1..Len(g)) \cap {index + 1} = (1..Len(f)) \cap {index + 1}
          <6>1. index + 1 \in 1..Len(g) <=> index + 1 \in 1..Len(f)
            BY <2>1, <2>5, <3>2, <4>2, <4>5, <4>6
          <6>. QED BY <6>1
        <5>2. \A i \in (1..Len(g)) \cap {index + 1} : g[i] = f[i]
          BY <2>1, <2>5, <3>2, <4>2, <4>5, <4>6
        <5>3. {g[i] : i \in (1..Len(g)) \cap {index + 1}} = {f[i] : i \in (1..Len(f)) \cap {index + 1}}
          BY <5>1, <5>2
        <5>. QED BY <2>4, <4>3, <4>4, <4>6, <5>3 DEF r
      <4>7. CASE ~(index < Numeral[t])
        <5>1. index + 1 \in 1..Len(g) <=> index + 2 \in 1..Len(f)
          BY <2>1, <2>5, <3>2, <4>2, <4>7
        <5>2. index + 1 \in 1..Len(g) => g[index + 1] = f[index + 2]
          BY <2>1, <2>5, <3>2, <4>2, <4>5, <4>7
        <5>3. {g[i] : i \in (1..Len(g)) \cap {index + 1}} = {f[i] : i \in (1..Len(f)) \cap {index + 2}}
          BY <5>1, <5>2
        <5>. QED BY <4>3, <4>4, <4>7, <5>3 DEF r
      <4>. QED BY <4>6, <4>7
    <3>. QED BY <2>7, <3>3, <3>4 DEF Ops
  <2>. QED BY <2>6, <2>7
<1>3. CASE x.kind \notin {"object", "array"}
  BY <1>3 DEF applyJSONLeaf
<1>. QED BY <1>1, <1>2, <1>3

----------------------------------------------------------------------------
\* The document before an operation that succeeds, and the document it leaves: node k of the
\* one way down and of the other.
Old(d, path, k) == descend(d, path)[k]
New(d, path, op, v, k) == rebuild(d, path, op, v)[Len(path) - k]

\* On the way of an operation that succeeds nothing is missing, and every node of the new
\* way is the old one with the next node in it.
LEMMA Ways ==
    ASSUME NEW S, Closed(S), NEW d \in S, NEW P, NEW path \in Seq(P), path # << >>,
           NEW op, NEW v, applyJSONOperation(d, path, op, v) # Failure
    PROVE  LET n == Len(path)
           IN /\ n \in Nat \ {0}
              /\ Old(d, path, 0) = d
              /\ New(d, path, op, v, 0) = applyJSONOperation(d, path, op, v)
              /\ \A k \in 0..(n - 1) :
                    Old(d, path, k) \in S /\ Along(d, parentOf(path))[k] = {Old(d, path, k)}
              /\ applyJSONLeaf(Old(d, path, n - 1), path[n], op, v) # Failure
              /\ New(d, path, op, v, n - 1) = applyJSONLeaf(Old(d, path, n - 1), path[n], op, v)
              /\ \A k \in Nat : k < n - 1 =>
                    /\ childAt(Old(d, path, k), path[k + 1]) = Old(d, path, k + 1)
                    /\ New(d, path, op, v, k) =
                          withChild(Old(d, path, k), path[k + 1], New(d, path, op, v, k + 1))
<1>. DEFINE n == Len(path)
            D == descend(d, path)
            R == rebuild(d, path, op, v)
            A == Along(d, parentOf(path))
<1>1. n \in Nat \ {0}
  BY PathFacts
<1>2. /\ R[1] = applyJSONLeaf(D[n - 1], path[n], op, v)
      /\ \A i \in 1..(n - 1) : R[i + 1] =
            IF R[i] = Failure THEN Failure ELSE withChild(D[n - 1 - i], path[n - i], R[i])
      /\ \A i \in 1..n : R[i] # Failure <=> R[1] # Failure
  BY WayBack
<1>3. \A i \in 0..(n - 1) : (A[i] = {D[i]} /\ D[i] \in S) \/ (A[i] = {} /\ D[i] = Failure)
  BY WayDown
<1>4. /\ D[0] = d
      /\ \A i \in Nat : i < n - 1 => D[i + 1] = childAt(D[i], path[i + 1])
  <2>1. D = [i \in 0..(n - 1) |-> IF i = 0 THEN d ELSE childAt(D[i - 1], path[i])]
    BY <1>1, DescendDef
  <2>. HIDE DEF D, n
  <2>. QED BY <1>1, <2>1
<1>5. R[n] # Failure /\ applyJSONOperation(d, path, op, v) = R[n]
  BY DEF applyJSONOperation
<1>. HIDE DEF n, D, R, A
<1>6. \A i \in 1..n : R[i] # Failure
  BY <1>1, <1>2, <1>5
<1>. DEFINE T == {j \in Nat : j < n => D[n - 1 - j] # Failure}
<1>7. 0 \in T
  <2>1. Failure.kind = "failure"
    BY DEF Failure
  <2>2. D[n - 1] # Failure
    <3>. SUFFICES ASSUME D[n - 1] = Failure PROVE applyJSONLeaf(D[n - 1], path[n], op, v) = Failure
      BY <1>1, <1>2, <1>6
    <3>. QED BY <2>1 DEF applyJSONLeaf
  <2>. QED BY <1>1, <2>2
<1>8. ASSUME NEW j \in Nat, j \in T PROVE j + 1 \in T
  <2>. SUFFICES ASSUME j + 1 < n, D[n - 1 - (j + 1)] = Failure PROVE FALSE
    OBVIOUS
  <2>1. D[n - 1 - j] # Failure
    BY <1>1, <1>8
  <2>. DEFINE i == n - 1 - (j + 1)
  <2>2. i \in Nat /\ i < n - 1 /\ i + 1 = n - 1 - j
    BY <1>1
  <2>3. D[i + 1] = childAt(D[i], path[i + 1])
    <3>. HIDE DEF i
    <3>. QED BY <1>4, <2>2
  <2>. QED BY <2>1, <2>2, <2>3, BelowFailure
<1>. HIDE DEF T
<1>9. \A j \in Nat : j \in T
  BY <1>7, <1>8, Induction
<1>10. ASSUME NEW k \in 0..(n - 1) PROVE D[k] \in S /\ A[k] = {D[k]}
  <2>1. n - 1 - k \in Nat /\ n - 1 - k < n /\ n - 1 - (n - 1 - k) = k
    BY <1>1
  <2>2. n - 1 - k \in T
    BY <1>9, <2>1
  <2>3. D[k] # Failure
    BY <2>1, <2>2 DEF T
  <2>. QED BY <1>3, <2>3
<1>11. R[n - (n - 1)] = applyJSONLeaf(D[n - 1], path[n], op, v)
  <2>1. n - (n - 1) = 1
    BY <1>1
  <2>. QED BY <1>2, <2>1
<1>12. applyJSONLeaf(D[n - 1], path[n], op, v) # Failure
  BY <1>1, <1>2, <1>6
<1>13. ASSUME NEW k \in Nat, k < n - 1
       PROVE  R[n - k] = withChild(D[k], path[k + 1], R[n - (k + 1)])
  <2>. DEFINE i == n - (k + 1)
  <2>1. /\ i \in 1..(n - 1) /\ i \in 1..n
        /\ i + 1 = n - k /\ n - 1 - i = k /\ n - i = k + 1
    BY <1>1, <1>13
  <2>2. R[i + 1] = IF R[i] = Failure THEN Failure ELSE withChild(D[n - 1 - i], path[n - i], R[i])
    <3>. HIDE DEF i
    <3>. QED BY <1>2, <2>1
  <2>3. R[i] # Failure
    <3>. HIDE DEF i
    <3>. QED BY <1>6, <2>1
  <2>4. R[i + 1] = withChild(D[n - 1 - i], path[n - i], R[i])
    <3>. HIDE DEF i
    <3>. QED BY <2>2, <2>3
  <2>. QED BY <2>1, <2>4
<1>14. R[n - 0] = applyJSONOperation(d, path, op, v)
  BY <1>1, <1>5
<1>. QED BY <1>1, <1>4, <1>10, <1>11, <1>12, <1>13, <1>14 DEF Old, New, n, D, R, A

\* From any point of a pointer on, what stands along it stands along the rest of it.
LEMMA AlongRest ==
    ASSUME NEW w, NEW Q, NEW q \in Seq(Q), NEW n \in 0..Len(q), NEW rest \in Seq(Q),
           Len(rest) = Len(q) - n, \A i \in 1..Len(rest) : rest[i] = q[n + i]
    PROVE  Standing(w, q) = UNION {Standing(y, rest) : y \in Along(w, q)[n]}
<1>. DEFINE A == Along(w, q)
            B(y) == Along(y, rest)
            m == Len(rest)
            T == {k \in Nat : k <= m => A[n + k] = UNION {B(y)[k] : y \in A[n]}}
<1>1. m \in Nat /\ Len(q) \in Nat /\ n \in Nat /\ n + m = Len(q)
  OBVIOUS
<1>2. \A k \in Nat : k < m => A[n + k + 1] = BelowAny(A[n + k], q[n + k + 1])
  <2>1. \A i \in Nat : i < Len(q) => A[i + 1] = BelowAny(A[i], q[i + 1])
    BY <1>1, AlongStep
  <2>. HIDE DEF A, m
  <2>. SUFFICES ASSUME NEW k \in Nat, k < m PROVE A[n + k + 1] = BelowAny(A[n + k], q[n + k + 1])
    OBVIOUS
  <2>2. n + k \in Nat /\ n + k < Len(q)
    BY <1>1
  <2>. QED BY <2>1, <2>2
<1>3. ASSUME NEW y
      PROVE  B(y)[0] = {y} /\ \A k \in Nat : k < m => B(y)[k + 1] = BelowAny(B(y)[k], rest[k + 1])
  BY <1>1, AlongStep
<1>. HIDE DEF A, B, m
<1>4. 0 \in T
  <2>1. A[n + 0] = A[n]
    BY <1>1
  <2>2. UNION {B(y)[0] : y \in A[n]} = A[n]
    BY <1>3
  <2>. QED BY <2>1, <2>2
<1>5. ASSUME NEW k \in Nat, k \in T PROVE k + 1 \in T
  <2>. SUFFICES ASSUME k + 1 <= m PROVE A[n + (k + 1)] = UNION {B(y)[k + 1] : y \in A[n]}
    OBVIOUS
  <2>1. A[n + k] = UNION {B(y)[k] : y \in A[n]}
    BY <1>1, <1>5
  <2>2. k < m /\ n + (k + 1) = n + k + 1 /\ q[n + k + 1] = rest[k + 1]
    <3>1. k < m /\ k + 1 \in 1..m
      BY <1>1
    <3>2. rest[k + 1] = q[n + (k + 1)]
      BY <3>1 DEF m
    <3>3. n + (k + 1) = n + k + 1
      BY <1>1
    <3>. QED BY <3>1, <3>2, <3>3
  <2>3. A[n + (k + 1)] = BelowAny(A[n + k], rest[k + 1])
    BY <1>2, <2>2
  <2>4. \A y : B(y)[k + 1] = BelowAny(B(y)[k], rest[k + 1])
    BY <1>3, <2>2
  <2>5. BelowAny(UNION {B(y)[k] : y \in A[n]}, rest[k + 1])
          = UNION {BelowAny(B(y)[k], rest[k + 1]) : y \in A[n]}
    BY DEF BelowAny
  <2>6. UNION {B(y)[k + 1] : y \in A[n]} = UNION {BelowAny(B(y)[k], rest[k + 1]) : y \in A[n]}
    <3>. DEFINE X == A[n]
                F(y) == B(y)[k + 1]
                G(y) == BelowAny(B(y)[k], rest[k + 1])
    <3>1. \A y \in X : F(y) = G(y)
      BY <2>4
    <3>. HIDE DEF X, F, G
    <3>2. {F(y) : y \in X} = {G(y) : y \in X}
      BY <3>1
    <3>3. UNION {F(y) : y \in X} = UNION {G(y) : y \in X}
      BY <3>2
    <3>. QED BY <3>3 DEF X, F, G
  <2>. QED BY <2>1, <2>3, <2>5, <2>6
<1>. HIDE DEF T
<1>6. \A k \in Nat : k \in T
  BY <1>4, <1>5, Induction
<1>7. m \in T
  BY <1>1, <1>6
<1>. USE DEF T
<1>8. A[n + m] = UNION {B(y)[m] : y \in A[n]}
  BY <1>1, <1>7
<1>. QED BY <1>1, <1>8 DEF A, B, m, Standing

----------------------------------------------------------------------------
\* Two walks along one pointer, through the document before and after: together with the
\* operation's pointer they are at node k of the old way and of the new one; once apart from
\* it they are at the same values.
LEMMA Walks ==
    ASSUME NEW S, Closed(S), NEW d \in S, NEW P, NEW path \in Seq(P), path # << >>,
           NEW op \in Ops, NEW v, applyJSONOperation(d, path, op, v) # Failure,
           NEW Q, NEW q \in Seq(Q)
    PROVE  LET n == Len(path)  m == Len(q)
               a == Along(d, q)  b == Along(applyJSONOperation(d, path, op, v), q)
           IN /\ \A k \in 0..m : k <= n - 1 /\ (\A i \in 1..k : q[i] = path[i])
                    => a[k] = {Old(d, path, k)} /\ b[k] = {New(d, path, op, v, k)}
              /\ \A k \in 0..m : (\E i \in 1..k : i <= n - 1 /\ q[i] # path[i]) => a[k] = b[k]
<1>. DEFINE n == Len(path)
            m == Len(q)
            r == applyJSONOperation(d, path, op, v)
            a == Along(d, q)
            b == Along(r, q)
            D(k) == Old(d, path, k)
            N(k) == New(d, path, op, v, k)
            With(k) == \A i \in 1..k : q[i] = path[i]
            Off(k) == \E i \in 1..k : i <= n - 1 /\ q[i] # path[i]
            Both(k) == /\ k <= n - 1 /\ With(k) => a[k] = {D(k)} /\ b[k] = {N(k)}
                       /\ Off(k) => a[k] = b[k]
            T == {k \in Nat : k <= m => Both(k)}
<1>1. /\ n \in Nat \ {0}
      /\ D(0) = d /\ N(0) = r
      /\ \A k \in 0..(n - 1) : D(k) \in S
      /\ \A k \in Nat : k < n - 1 =>
            /\ childAt(D(k), path[k + 1]) = D(k + 1)
            /\ N(k) = withChild(D(k), path[k + 1], N(k + 1))
  BY Ways
<1>2. m \in Nat
  OBVIOUS
<1>3. /\ a[0] = {d} /\ b[0] = {r}
      /\ \A k \in Nat : k < m => /\ a[k + 1] = BelowAny(a[k], q[k + 1])
                               /\ b[k + 1] = BelowAny(b[k], q[k + 1])
  BY <1>2, AlongStep
<1>. HIDE DEF n, m, r, a, b, D, N
<1>4. 0 \in T
  BY <1>1, <1>2, <1>3
<1>5. ASSUME NEW k \in Nat, k \in T PROVE k + 1 \in T
  <2>. SUFFICES ASSUME k + 1 <= m PROVE Both(k + 1)
    OBVIOUS
  <2>. DEFINE t == q[k + 1]
  <2>1. k < m /\ Both(k)
    BY <1>2, <1>5
  <2>2. a[k + 1] = BelowAny(a[k], t) /\ b[k + 1] = BelowAny(b[k], t)
    BY <1>3, <2>1
  <2>3. \A i \in 1..(k + 1) : i \in 1..k \/ i = k + 1
    OBVIOUS
  <2>4. ASSUME k + 1 <= n - 1, With(k)
        PROVE  /\ a[k + 1] = Below(D(k), t)
               /\ b[k + 1] = IF t = path[k + 1] THEN {N(k + 1)} ELSE Below(D(k), t)
               /\ t = path[k + 1] => Below(D(k), t) = {D(k + 1)}
    <3>1. k <= n - 1 /\ k < n - 1 /\ k \in 0..(n - 1) /\ k + 1 \in 0..(n - 1)
      BY <1>1, <2>4
    <3>2. a[k] = {D(k)} /\ b[k] = {N(k)}
      BY <2>1, <2>4, <3>1
    <3>3. a[k + 1] = Below(D(k), t) /\ b[k + 1] = Below(N(k), t)
      BY <2>2, <3>2 DEF BelowAny
    <3>4. /\ D(k) \in S /\ D(k + 1) \in S
          /\ childAt(D(k), path[k + 1]) = D(k + 1)
          /\ N(k) = withChild(D(k), path[k + 1], N(k + 1))
      BY <1>1, <3>1
    <3>5. D(k + 1) # Failure
      <4>1. Failure.kind = "failure"
        BY DEF Failure
      <4>. QED BY <3>4, <4>1 DEF Closed
    <3>6. Below(N(k), t) = IF t = path[k + 1] THEN {N(k + 1)} ELSE Below(D(k), t)
      <4>. DEFINE y == D(k)
                  z == path[k + 1]
                  c == N(k + 1)
      <4>1. y \in S /\ childAt(y, z) # Failure
        BY <3>4, <3>5
      <4>. HIDE DEF y, z, c, t
      <4>2. Below(withChild(y, z, c), t) = IF t = z THEN {c} ELSE Below(y, t)
        BY <4>1, BelowWithChild
      <4>. QED BY <3>4, <4>2 DEF y, z, c
    <3>7. Below(D(k), path[k + 1]) = {D(k + 1)}
      BY <3>4, <3>5, BelowChild
    <3>. QED BY <3>3, <3>6, <3>7
  <2>5. ASSUME k + 1 <= n - 1, With(k + 1) PROVE a[k + 1] = {D(k + 1)} /\ b[k + 1] = {N(k + 1)}
    <3>1. With(k) /\ t = path[k + 1]
      BY <2>5
    <3>. QED BY <2>4, <2>5, <3>1
  <2>6. ASSUME Off(k + 1) PROVE a[k + 1] = b[k + 1]
    <3>1. CASE Off(k)
      BY <2>1, <2>2, <3>1
    <3>2. CASE ~Off(k)
      <4>1. k + 1 <= n - 1 /\ t # path[k + 1]
        BY <2>3, <2>6, <3>2
      <4>2. With(k)
        <5>. SUFFICES ASSUME NEW i \in 1..k PROVE q[i] = path[i]
          OBVIOUS
        <5>1. i <= n - 1
          BY <1>1, <4>1
        <5>. QED BY <3>2, <5>1
      <4>. QED BY <2>4, <4>1, <4>2
    <3>. QED BY <3>1, <3>2
  <2>. QED BY <2>5, <2>6
<1>. HIDE DEF T
<1>6. \A k \in Nat : k \in T
  BY <1>4, <1>5, Induction
<1>7. ASSUME NEW k \in 0..m PROVE Both(k)
  <2>1. k \in Nat /\ k <= m
    BY <1>2
  <2>. QED BY <1>6, <2>1 DEF T
<1>8. \A k \in 0..m : k <= n - 1 /\ (\A i \in 1..k : q[i] = path[i]) => a[k] = {D(k)} /\ b[k] = {N(k)}
  BY <1>7
<1>9. \A k \in 0..m : (\E i \in 1..k : i <= n - 1 /\ q[i] # path[i]) => a[k] = b[k]
  BY <1>7
<1>. QED BY <1>8, <1>9 DEF n, m, r, a, b, D, N

\* applyJSONOperation changes what the reference says and nothing else, at pointers of any
\* length in documents of any size.
THEOREM OperationChangesOnlyTheTarget ==
    ASSUME NEW d, Proper(d), NEW P, NEW path \in Seq(P), path # << >>, NEW op \in Ops, NEW v,
           applyJSONOperation(d, path, op, v) # Failure, NEW Q, NEW q \in Seq(Q)
    PROVE  Peek(applyJSONOperation(d, path, op, v), q) = Expected(d, op, path, v, q)
<1>. DEFINE n == Len(path)
            m == Len(q)
            r == applyJSONOperation(d, path, op, v)
            a == Along(d, q)
            b == Along(r, q)
            D(k) == Old(d, path, k)
            N(k) == New(d, path, op, v, k)
            inParent == m >= n /\ SubSeq(q, 1, n - 1) = parentOf(path)
            rest == SubSeq(q, n + 1, m)
            parent == D(n - 1)
            replaced == Replaced(parent, op, path[n], v, q[n])
<1>1. PICK S : Closed(S) /\ d \in S
  BY DEF Proper
<1>2. /\ n \in Nat \ {0}
      /\ \A k \in 0..(n - 1) : D(k) \in S /\ Along(d, parentOf(path))[k] = {D(k)}
      /\ applyJSONLeaf(parent, path[n], op, v) # Failure
      /\ N(n - 1) = applyJSONLeaf(parent, path[n], op, v)
      /\ \A k \in Nat : k < n - 1 => N(k) = withChild(D(k), path[k + 1], N(k + 1))
      /\ \A k \in Nat : k < n - 1 => childAt(D(k), path[k + 1]) = D(k + 1)
  BY <1>1, Ways
<1>3. /\ \A k \in 0..m : k <= n - 1 /\ (\A i \in 1..k : q[i] = path[i])
            => a[k] = {D(k)} /\ b[k] = {N(k)}
      /\ \A k \in 0..m : (\E i \in 1..k : i <= n - 1 /\ q[i] # path[i]) => a[k] = b[k]
  BY <1>1, Walks
<1>4. /\ m \in Nat /\ Len(parentOf(path)) = n - 1
      /\ \A i \in 1..(n - 1) : parentOf(path)[i] = path[i]
  BY PathFacts
<1>5. Peek(d, q) = {Seen(x) : x \in a[m]} /\ Peek(r, q) = {Seen(x) : x \in b[m]}
  BY DEF Peek, Standing
<1>6. CASE \E i \in 1..(n - 1) : i <= m /\ q[i] # path[i]
  <2>1. ~inParent
    <3>. SUFFICES ASSUME inParent PROVE FALSE
      OBVIOUS
    <3>1. PICK i \in 1..(n - 1) : i <= m /\ q[i] # path[i]
      BY <1>6
    <3>2. SubSeq(q, 1, n - 1)[i] = q[i]
      <4>. HIDE DEF n
      <4>. QED BY <1>2, <1>4, <3>1
    <3>. QED BY <1>4, <3>1, <3>2
  <2>2. a[m] = b[m]
    <3>. HIDE DEF n, m, a, b
    <3>. QED BY <1>2, <1>3, <1>4, <1>6
  <2>. QED BY <1>5, <2>1, <2>2 DEF Expected
<1>7. CASE (\A i \in 1..(n - 1) : i <= m => q[i] = path[i]) /\ m < n
  <2>1. a[m] = {D(m)} /\ b[m] = {N(m)}
    <3>. HIDE DEF n, m, a, b, D, N
    <3>1. m \in 0..m /\ m <= n - 1 /\ \A i \in 1..m : i \in 1..(n - 1) /\ i <= m
      BY <1>2, <1>4, <1>7
    <3>2. \A i \in 1..m : q[i] = path[i]
      BY <1>7, <3>1
    <3>. QED BY <1>3, <3>1, <3>2
  <2>2. D(m).kind \in {"object", "array"} /\ N(m).kind = D(m).kind
    <3>. HIDE DEF n, m, D, N
    <3>1. CASE m = n - 1
      BY <1>2, <3>1, LeafKind
    <3>2. CASE m # n - 1
      <4>1. m < n - 1 /\ m \in 0..(n - 1) /\ m + 1 \in 0..(n - 1)
        BY <1>2, <1>4, <1>7, <3>2
      <4>2. childAt(D(m), path[m + 1]) = D(m + 1) /\ D(m + 1) \in S
        BY <1>2, <1>4, <4>1
      <4>3. Failure.kind = "failure"
        BY DEF Failure
      <4>4. D(m + 1) # Failure
        BY <1>1, <4>2, <4>3 DEF Closed
      <4>5. D(m).kind \in {"object", "array"}
        BY <4>2, <4>4 DEF childAt
      <4>6. N(m) = withChild(D(m), path[m + 1], N(m + 1))
        BY <1>2, <1>4, <4>1
      <4>. QED BY <4>5, <4>6, ChildKind
    <3>. QED BY <3>1, <3>2
  <2>3. Seen(N(m)) = Seen(D(m))
    <3>. HIDE DEF D, N
    <3>. QED BY <2>2 DEF Seen
  <2>4. Peek(r, q) = Peek(d, q)
    <3>. HIDE DEF D, N, a, b, r
    <3>. QED BY <1>5, <2>1, <2>3
  <2>5. ~inParent
    BY <1>2, <1>4, <1>7
  <2>. QED BY <2>4, <2>5 DEF Expected
<1>8. CASE (\A i \in 1..(n - 1) : i <= m => q[i] = path[i]) /\ m >= n
  <2>1. inParent
    <3>1. q \in Seq(Q) /\ n - 1 \in 0..m
      BY <1>2, <1>4, <1>8
    <3>2. /\ SubSeq(q, 1, n - 1) \in Seq(Q) /\ Len(SubSeq(q, 1, n - 1)) = n - 1
          /\ \A i \in 1..(n - 1) : SubSeq(q, 1, n - 1)[i] = q[i]
      <4>. HIDE DEF n
      <4>. QED BY <1>2, <1>4, <3>1
    <3>3. parentOf(path) \in Seq(P)
      BY PathFacts
    <3>4. \A i \in 1..(n - 1) : SubSeq(q, 1, n - 1)[i] = parentOf(path)[i]
      BY <1>2, <1>4, <1>8, <3>2
    <3>5. SubSeq(q, 1, n - 1) = parentOf(path)
      <4>. DEFINE s == SubSeq(q, 1, n - 1)
                  u == parentOf(path)
      <4>1. s \in Seq(Q) /\ u \in Seq(P) /\ Len(s) = Len(u) /\ \A i \in 1..Len(s) : s[i] = u[i]
        BY <1>4, <3>2, <3>3, <3>4
      <4>. HIDE DEF s, u
      <4>2. s = u
        BY <4>1, SeqEqual
      <4>. QED BY <4>2 DEF s, u
    <3>. QED BY <1>8, <3>5
  <2>2. b[n] = replaced
    <3>1. b[n - 1] = {N(n - 1)}
      <4>. HIDE DEF n, m, a, b, D, N
      <4>. QED BY <1>2, <1>3, <1>4, <1>8
    <3>2. b[n] = BelowAny(b[n - 1], q[n])
      <4>1. \A k \in Nat : k < m => b[k + 1] = BelowAny(b[k], q[k + 1])
        BY <1>4, AlongStep
      <4>. HIDE DEF n, m, b
      <4>2. n - 1 \in Nat /\ n - 1 < m /\ n - 1 + 1 = n
        BY <1>2, <1>4, <1>8
      <4>. QED BY <4>1, <4>2
    <3>3. b[n] = Below(applyJSONLeaf(parent, path[n], op, v), q[n])
      <4>. HIDE DEF n, b, N, parent
      <4>. QED BY <1>2, <3>1, <3>2 DEF BelowAny
    <3>4. parent \in S
      <4>. HIDE DEF n, D
      <4>. QED BY <1>2
    <3>. HIDE DEF n, b, parent
    <3>. QED BY <1>1, <1>2, <3>3, <3>4, BelowLeaf
  <2>3. b[m] = UNION {Standing(y, rest) : y \in b[n]}
    <3>1. n \in 0..m
      BY <1>2, <1>4, <1>8
    <3>2. /\ rest \in Seq(Q) /\ Len(rest) = m - n
          /\ \A i \in 1..(m - n) : rest[i] = q[n + i]
      <4>. HIDE DEF n
      <4>. QED BY <1>2, <1>4, <1>8, <3>1
    <3>3. \A i \in 1..Len(rest) : rest[i] = q[n + i]
      <4>. HIDE DEF rest
      <4>. QED BY <3>2
    <3>4. Standing(r, q) = UNION {Standing(y, rest) : y \in Along(r, q)[n]}
      <4>1. Len(rest) = Len(q) - n /\ n \in 0..Len(q)
        BY <3>1, <3>2
      <4>. HIDE DEF rest, n, r, m
      <4>. QED BY <3>2, <3>3, <4>1, AlongRest
    <3>. QED BY <3>4 DEF Standing
  <2>4. Peek(r, q) = UNION {Peek(y, rest) : y \in replaced}
    <3>1. Peek(r, q) = {Seen(x) : x \in UNION {Standing(y, rest) : y \in replaced}}
      BY <1>5, <2>2, <2>3
    <3>. HIDE DEF rest, replaced, r
    <3>2. \A z : z \in {Seen(x) : x \in UNION {Standing(y, rest) : y \in replaced}}
                  <=> \E y \in replaced : z \in {Seen(x) : x \in Standing(y, rest)}
      OBVIOUS
    <3>3. \A z : z \in UNION {Peek(y, rest) : y \in replaced}
                  <=> \E y \in replaced : z \in {Seen(x) : x \in Standing(y, rest)}
      BY DEF Peek
    <3>. QED BY <3>1, <3>2, <3>3
  <2>5. Standing(d, parentOf(path)) = {parent}
    BY <1>2, <1>4 DEF Standing
  <2>6. Expected(d, op, path, v, q) =
          UNION {UNION {Peek(y, rest) : y \in Replaced(x, op, path[n], v, q[n])} :
                    x \in Standing(d, parentOf(path))}
    BY <2>1 DEF Expected, lastOf
  <2>. HIDE DEF parent, rest, r, n
  <2>. QED BY <2>4, <2>5, <2>6 DEF r, n
<1>9. m < n \/ m >= n
  BY <1>2, <1>4
<1>. QED BY <1>6, <1>7, <1>8, <1>9

----------------------------------------------------------------------------
\* An operation makes a proper document of a proper one.
LEMMA LeafProper ==
    ASSUME NEW S, Closed(S), NEW x \in S, NEW t, NEW op \in Ops, NEW v \in S,
           applyJSONLeaf(x, t, op, v) # Failure
    PROVE  LET r == applyJSONLeaf(x, t, op, v)
           IN /\ r.kind \in {"object", "array"}
              /\ Parts(r) \subseteq S
              /\ r.kind = "array" => r.items \in Seq(S)
<1>. DEFINE r == applyJSONLeaf(x, t, op, v)
<1>1. x.kind \in {"object", "array"} /\ r.kind = x.kind
  BY LeafKind
<1>2. CASE x.kind = "object"
  <2>. DEFINE f == x.members
              g == IF op = "remove" THEN dropMember(f, t) ELSE putMember(f, t, v)
  <2>1. r = Object(g)
    BY <1>2 DEF applyJSONLeaf, applyToObject
  <2>2. \A z \in DOMAIN f : f[z] \in S
    BY <1>2 DEF Closed, Parts
  <2>3. \A z \in DOMAIN g : g[z] \in S
    <3>1. CASE op = "remove"
      BY <2>2, <3>1 DEF dropMember
    <3>2. CASE op # "remove"
      BY <2>2, <3>2 DEF putMember
    <3>. QED BY <3>1, <3>2
  <2>4. r.kind = "object" /\ r.members = g
    BY <2>1 DEF Object
  <2>. HIDE DEF g, r
  <2>5. Parts(r) \subseteq S
    BY <2>3, <2>4 DEF Parts
  <2>. QED BY <2>4, <2>5 DEF r
<1>3. CASE x.kind = "array"
  <2>. DEFINE f == x.items
  <2>1. f \in Seq(S) /\ Len(f) \in Nat /\ DOMAIN f = 1..Len(f)
    BY <1>3 DEF Closed
  <2>2. r = applyToArray(f, t, op, v)
    BY <1>3 DEF applyJSONLeaf
  <2>3. \A g \in Seq(S) : Array(g).kind = "array" /\ Array(g).items = g /\ Parts(Array(g)) \subseteq S
    <3>. SUFFICES ASSUME NEW g \in Seq(S)
                  PROVE  Array(g).kind = "array" /\ Array(g).items = g /\ Parts(Array(g)) \subseteq S
      OBVIOUS
    <3>1. Array(g).kind = "array" /\ Array(g).items = g
      BY DEF Array
    <3>2. \A i \in 1..Len(g) : g[i] \in S
      OBVIOUS
    <3>. QED BY <3>1, <3>2 DEF Parts
  <2>4. \E g \in Seq(S) : r = Array(g)
    <3>1. CASE op = "add"
      <4>1. r = Array(Append(f, v))
        BY <2>2, <3>1 DEF applyToArray
      <4>2. Append(f, v) \in Seq(S)
        <5>. HIDE DEF f
        <5>. QED BY <2>1
      <4>. QED BY <4>1, <4>2
    <3>2. CASE op = "replace"
      <4>1. r = Array([f EXCEPT ![position(t)] = v])
        BY <2>2, <3>2 DEF applyToArray
      <4>2. existingArrayIndex(t, Len(f))
        BY <2>2, <3>2 DEF applyToArray
      <4>3. position(t) \in 1..Len(f)
        BY <2>1, <4>2, NumeralAssumption DEF existingArrayIndex, position
      <4>4. [f EXCEPT ![position(t)] = v] \in Seq(S)
        <5>. HIDE DEF f
        <5>. QED BY <2>1, <4>3
      <4>. QED BY <4>1, <4>4
    <3>3. CASE op = "remove"
      <4>1. r = Array(dropItem(f, position(t))) /\ existingArrayIndex(t, Len(f))
        BY <2>2, <3>3 DEF applyToArray
      <4>2. Len(f) \in Nat \ {0}
        BY <2>1, <4>1, NumeralAssumption DEF existingArrayIndex
      <4>3. dropItem(f, position(t)) \in Seq(S)
        <5>. DEFINE i == position(t)
        <5>1. i \in Int
          BY <4>1, NumeralAssumption DEF existingArrayIndex, position
        <5>. HIDE DEF f, i
        <5>2. \A j \in 1..(Len(f) - 1) : (IF j < i THEN f[j] ELSE f[j + 1]) \in S
          BY <2>1, <4>2, <5>1
        <5>3. dropItem(f, i) \in [1..(Len(f) - 1) -> S] /\ Len(f) - 1 \in Nat
          BY <4>2, <5>2 DEF dropItem
        <5>. QED BY <5>3, SeqDef DEF i
      <4>. QED BY <4>1, <4>3
    <3>. QED BY <3>1, <3>2, <3>3 DEF Ops
  <2>. QED BY <2>3, <2>4
<1>. QED BY <1>1, <1>2, <1>3

LEMMA ChildProper ==
    ASSUME NEW S, Closed(S), NEW x \in S, NEW t, NEW child, childAt(x, t) # Failure
    PROVE  LET r == withChild(x, t, child)
           IN /\ r.kind \in {"object", "array"}
              /\ Parts(r) \subseteq S \cup {child}
              /\ r.kind = "array" => r.items \in Seq(S \cup {child})
<1>. DEFINE r == withChild(x, t, child)
<1>1. CASE x.kind = "object"
  <2>. DEFINE g == putMember(x.members, t, child)
  <2>1. r.kind = "object" /\ r.members = g
    BY <1>1 DEF withChild, Object
  <2>2. \A z \in DOMAIN x.members : x.members[z] \in S
    BY <1>1 DEF Closed, Parts
  <2>3. \A z \in DOMAIN g : g[z] \in S \cup {child}
    BY <2>2 DEF putMember
  <2>. HIDE DEF g, r
  <2>4. Parts(r) \subseteq S \cup {child}
    BY <2>1, <2>3 DEF Parts
  <2>. QED BY <2>1, <2>4 DEF r
<1>2. CASE x.kind = "array"
  <2>. DEFINE f == x.items
              g == [f EXCEPT ![position(t)] = child]
  <2>1. r.kind = "array" /\ r.items = g
    BY <1>2 DEF withChild, Array
  <2>2. f \in Seq(S)
    BY <1>2 DEF Closed
  <2>3. g \in Seq(S \cup {child})
    <3>1. f \in Seq(S \cup {child}) /\ Len(f) \in Nat
      BY <2>2
    <3>2. existingArrayIndex(t, Len(f))
      BY <1>2 DEF childAt
    <3>3. position(t) \in 1..Len(f)
      BY <3>1, <3>2, NumeralAssumption DEF existingArrayIndex, position
    <3>. HIDE DEF f
    <3>. QED BY <3>1, <3>3
  <2>. HIDE DEF g, r
  <2>4. \A i \in 1..Len(g) : g[i] \in S \cup {child}
    BY <2>3
  <2>5. Parts(r) \subseteq S \cup {child}
    BY <2>1, <2>4 DEF Parts
  <2>. QED BY <2>1, <2>3, <2>5 DEF r
<1>3. CASE x.kind \notin {"object", "array"}
  BY <1>3 DEF childAt
<1>. QED BY <1>1, <1>2, <1>3

LEMMA ClosedUnion ==
    ASSUME NEW S, NEW U, Closed(S), Closed(U)
    PROVE  Closed(S \cup U)
<1>1. Seq(S) \subseteq Seq(S \cup U) /\ Seq(U) \subseteq Seq(S \cup U)
  OBVIOUS
<1>. QED BY <1>1 DEF Closed

LEMMA ResultProper ==
    ASSUME NEW d, Proper(d), NEW P, NEW path \in Seq(P), path # << >>, NEW op \in Ops,
           NEW v, Proper(v), applyJSONOperation(d, path, op, v) # Failure
    PROVE  Proper(applyJSONOperation(d, path, op, v))
<1>. DEFINE n == Len(path)
            D(k) == Old(d, path, k)
            N(k) == New(d, path, op, v, k)
<1>1. PICK S : Closed(S) /\ d \in S /\ v \in S
  <2>1. PICK S1 : Closed(S1) /\ d \in S1
    BY DEF Proper
  <2>2. PICK S2 : Closed(S2) /\ v \in S2
    BY DEF Proper
  <2>. QED BY <2>1, <2>2, ClosedUnion
<1>2. /\ n \in Nat \ {0}
      /\ N(0) = applyJSONOperation(d, path, op, v)
      /\ \A k \in 0..(n - 1) : D(k) \in S
      /\ applyJSONLeaf(D(n - 1), path[n], op, v) # Failure
      /\ N(n - 1) = applyJSONLeaf(D(n - 1), path[n], op, v)
      /\ \A k \in Nat : k < n - 1 => N(k) = withChild(D(k), path[k + 1], N(k + 1))
      /\ \A k \in Nat : k < n - 1 => childAt(D(k), path[k + 1]) = D(k + 1)
  BY <1>1, Ways
<1>. HIDE DEF n, D, N
<1>. DEFINE W == S \cup {N(k) : k \in 0..(n - 1)}
            Good(x) == /\ x.kind \in {"scalar", "object", "array"}
                       /\ Parts(x) \subseteq W
                       /\ x.kind = "array" => x.items \in Seq(W)
<1>3. S \subseteq W /\ Seq(S) \subseteq Seq(W)
  <2>1. S \subseteq W
    OBVIOUS
  <2>. HIDE DEF W
  <2>. QED BY <2>1
<1>4. ASSUME NEW x \in S PROVE Good(x)
  <2>. HIDE DEF W
  <2>. QED BY <1>1, <1>3 DEF Closed
<1>5. ASSUME NEW k \in 0..(n - 1) PROVE Good(N(k))
  <2>1. CASE k = n - 1
    <3>1. D(k) \in S
      BY <1>2
    <3>. DEFINE y == N(k)
    <3>2. y = applyJSONLeaf(D(k), path[n], op, v) /\ y # Failure
      BY <1>2, <2>1
    <3>3. /\ y.kind \in {"object", "array"} /\ Parts(y) \subseteq S
          /\ y.kind = "array" => y.items \in Seq(S)
      <4>. HIDE DEF y
      <4>. QED BY <1>1, <3>1, <3>2, LeafProper
    <3>. HIDE DEF W, y
    <3>4. Good(y)
      BY <1>3, <3>3
    <3>. QED BY <3>4 DEF y
  <2>2. CASE k # n - 1
    <3>1. k \in Nat /\ k < n - 1 /\ k + 1 \in 0..(n - 1)
      BY <1>2, <2>2
    <3>. DEFINE y == N(k)
                c == N(k + 1)
                t == path[k + 1]
                x == D(k)
    <3>2. x \in S /\ D(k + 1) \in S /\ childAt(x, t) = D(k + 1) /\ y = withChild(x, t, c)
      BY <1>2, <3>1
    <3>3. childAt(x, t) # Failure
      <4>1. Failure.kind = "failure"
        BY DEF Failure
      <4>. QED BY <1>1, <3>2, <4>1 DEF Closed
    <3>4. c \in W
      BY <3>1
    <3>. HIDE DEF W, y, c, t, x
    <3>5. /\ y.kind \in {"object", "array"} /\ Parts(y) \subseteq S \cup {c}
          /\ y.kind = "array" => y.items \in Seq(S \cup {c})
      BY <1>1, <3>2, <3>3, ChildProper
    <3>6. S \cup {c} \subseteq W
      BY <1>3, <3>4
    <3>7. Seq(S \cup {c}) \subseteq Seq(W)
      BY <3>6
    <3>8. Good(y)
      BY <3>5, <3>6, <3>7
    <3>. QED BY <3>8 DEF y
  <2>. QED BY <2>1, <2>2
<1>6. Closed(W)
  <2>. SUFFICES ASSUME NEW x \in W PROVE Good(x)
    BY DEF Closed
  <2>. HIDE DEF Good
  <2>. QED BY <1>4, <1>5
<1>7. applyJSONOperation(d, path, op, v) \in W
  <2>1. 0 \in 0..(n - 1)
    BY <1>2
  <2>. QED BY <1>2, <2>1
<1>. HIDE DEF W
<1>. QED BY <1>6, <1>7 DEF Proper

----------------------------------------------------------------------------
\* The working copy is always a document the parser or an operation made.
PatchInv == Proper(document)

LEMMA ParsedAreProper == \A v \in Values : Proper(v)
<1>1. Closed(Values)
  BY ValueAssumption DEF Closed
<1>. QED BY <1>1 DEF Proper

LEMMA PointersAreSequences == \A p \in Paths \cup Places : \E P : p \in Seq(P)
  BY PathAssumption

LEMMA PatchInvInitial == PatchInit => PatchInv
  BY ParsedAreProper DEF PatchInit, PatchInv

LEMMA PatchInvStep == PatchInv /\ [PatchNext]_patchVars => PatchInv'
<1>. SUFFICES ASSUME PatchInv, [PatchNext]_patchVars, document' # document PROVE PatchInv'
  BY DEF PatchInv
<1>1. PICK op \in Ops, path \in Paths, v \in NewValues : ApplyOperation(op, path, v)
  BY DEF PatchNext, BeginPatch, RefusePatch, FinishPatch, patchVars
<1>2. document' = applyJSONOperation(document, path, op, v) /\ document' # Failure
  BY <1>1 DEF ApplyOperation
<1>3. PICK P : path \in Seq(P)
  BY PointersAreSequences
<1>4. path # << >> /\ v \in Values
  BY PathAssumption, ValueAssumption
<1>5. Proper(v)
  BY <1>4, ParsedAreProper
<1>6. Proper(applyJSONOperation(document, path, op, v))
  BY <1>2, <1>3, <1>4, <1>5, ResultProper DEF PatchInv
<1>. QED BY <1>2, <1>6 DEF PatchInv

\* The document of every reachable state is made of documents: no failure in it, every array
\* a sequence.
THEOREM PatchDocumentsAreProper == PatchSpec => []PatchInv
  BY PatchInvInitial, PatchInvStep, PTL DEF PatchSpec

\* ApplyJSONPatch applies an operation exactly when it is legal in the document as it is then.
THEOREM PatchAppliesExactlyWhenLegal == PatchSpec => []AppliesExactlyWhenLegal
<1>1. PatchInv => AppliesExactlyWhenLegal
  <2>. SUFFICES ASSUME PatchInv, NEW op \in Ops, NEW path \in Paths, NEW v \in NewValues
                PROVE  applyJSONOperation(document, path, op, v) # Failure
                         <=> Legal(document, op, path)
    BY DEF AppliesExactlyWhenLegal
  <2>1. PICK P : path \in Seq(P)
    BY PointersAreSequences
  <2>2. path # << >>
    BY PathAssumption
  <2>. QED BY <2>1, <2>2, OperationAppliesWhenLegal DEF PatchInv
<1>. QED BY <1>1, PatchDocumentsAreProper, PTL

\* Every step of a patch changes the place its operation names and nothing else.
THEOREM PatchChangesOnlyTheTarget == PatchSpec => ChangesOnlyTheTarget
<1>. DEFINE Only ==
       \A op \in Ops, path \in Paths, v \in NewValues :
         document' = applyJSONOperation(document, path, op, v)
         => \A q \in Places : Peek(document', q) = Expected(document, op, path, v, q)
<1>1. PatchInv /\ PatchInv' => Only
  <2>. SUFFICES ASSUME PatchInv, PatchInv',
                       NEW op \in Ops, NEW path \in Paths, NEW v \in NewValues,
                       document' = applyJSONOperation(document, path, op, v), NEW q \in Places
                PROVE  Peek(document', q) = Expected(document, op, path, v, q)
    OBVIOUS
  <2>1. PICK P : path \in Seq(P)
    BY PointersAreSequences
  <2>2. PICK Q : q \in Seq(Q)
    BY PointersAreSequences
  <2>3. path # << >>
    BY PathAssumption
  <2>4. document' # Failure
    <3>1. Failure.kind = "failure"
      BY DEF Failure
    <3>. QED BY <3>1 DEF PatchInv, Proper, Closed
  <2>5. Peek(applyJSONOperation(document, path, op, v), q) = Expected(document, op, path, v, q)
    BY <2>1, <2>2, <2>3, <2>4, OperationChangesOnlyTheTarget DEF PatchInv
  <2>. QED BY <2>5
<1>2. PatchInv /\ PatchInv' => [Only]_patchVars
  BY <1>1
<1>3. [][Only]_patchVars <=> ChangesOnlyTheTarget
  BY DEF ChangesOnlyTheTarget
<1>. HIDE DEF Only
<1>. QED BY <1>2, <1>3, PatchDocumentsAreProper, PTL

----------------------------------------------------------------------------
\* The same member t, or none; the same edit of it: none, a value put there, or the drop.
SameAt(f, g, t) == (t \in DOMAIN f <=> t \in DOMAIN g) /\ (t \in DOMAIN f => f[t] = g[t])
SameEdit(f, g, t, r, s) ==
    \/ r = Failure /\ s = Failure
    \/ \E c : r = Object(putMember(f, t, c)) /\ s = Object(putMember(g, t, c))
    \/ r = Object(dropMember(f, t)) /\ s = Object(dropMember(g, t))

\* An operation whose pointer starts at t makes the same edit of objects that are the same at t.
LEMMA OperationAtMember ==
    ASSUME NEW f, NEW g, NEW P, NEW path \in Seq(P), path # << >>, NEW op \in Ops, NEW v,
           SameAt(f, g, path[1])
    PROVE  SameEdit(f, g, path[1], applyJSONOperation(Object(f), path, op, v),
                    applyJSONOperation(Object(g), path, op, v))
<1>. USE DEF SameAt, SameEdit
<1>. DEFINE t == path[1]
            n == Len(path)
            F == Object(f)
            G == Object(g)
            D == descend(F, path)
            E == descend(G, path)
            R == rebuild(F, path, op, v)
            Q == rebuild(G, path, op, v)
<1>1. n \in Nat \ {0}
  BY PathFacts
<1>2. /\ R[1] = applyJSONLeaf(D[n - 1], path[n], op, v)
      /\ \A i \in 1..(n - 1) : R[i + 1] =
            IF R[i] = Failure THEN Failure ELSE withChild(D[n - 1 - i], path[n - i], R[i])
  BY WayBack
<1>3. /\ Q[1] = applyJSONLeaf(E[n - 1], path[n], op, v)
      /\ \A i \in 1..(n - 1) : Q[i + 1] =
            IF Q[i] = Failure THEN Failure ELSE withChild(E[n - 1 - i], path[n - i], Q[i])
  BY WayBack
<1>4. D[0] = F /\ \A i \in Nat : i < n - 1 => D[i + 1] = childAt(D[i], path[i + 1])
  <2>1. D = [i \in 0..(n - 1) |-> IF i = 0 THEN F ELSE childAt(D[i - 1], path[i])]
    BY <1>1, DescendDef
  <2>. HIDE DEF D, n, F
  <2>. QED BY <1>1, <2>1
<1>5. E[0] = G /\ \A i \in Nat : i < n - 1 => E[i + 1] = childAt(E[i], path[i + 1])
  <2>1. E = [i \in 0..(n - 1) |-> IF i = 0 THEN G ELSE childAt(E[i - 1], path[i])]
    BY <1>1, DescendDef
  <2>. HIDE DEF E, n, G
  <2>. QED BY <1>1, <2>1
<1>6. /\ F.kind = "object" /\ F.members = f
      /\ G.kind = "object" /\ G.members = g
  BY DEF Object
<1>7. childAt(F, t) = childAt(G, t)
  <2>. HIDE DEF F, G, t
  <2>. QED BY <1>6 DEF childAt, t
<1>8. \A c : withChild(F, t, c) = Object(putMember(f, t, c))
  <2>. HIDE DEF F, t
  <2>. QED BY <1>6 DEF withChild
<1>9. \A c : withChild(G, t, c) = Object(putMember(g, t, c))
  <2>. HIDE DEF G, t
  <2>. QED BY <1>6 DEF withChild
<1>10. /\ applyJSONOperation(F, path, op, v) = R[n]
       /\ applyJSONOperation(G, path, op, v) = Q[n]
  BY DEF applyJSONOperation
<1>11. /\ applyJSONLeaf(F, t, op, v) = applyToObject(f, t, op, v)
       /\ applyJSONLeaf(G, t, op, v) = applyToObject(g, t, op, v)
  <2>. HIDE DEF F, G, t
  <2>. QED BY <1>6 DEF applyJSONLeaf
<1>. HIDE DEF n, F, G, D, E, R, Q
<1>12. CASE n = 1
  <2>1. R[n] = applyToObject(f, t, op, v) /\ Q[n] = applyToObject(g, t, op, v)
    BY <1>2, <1>3, <1>4, <1>5, <1>11, <1>12
  <2>. HIDE DEF t
  <2>2. CASE (op = "add") = (t \in DOMAIN f)
    <3>1. R[n] = Failure /\ Q[n] = Failure
      BY <2>1, <2>2 DEF applyToObject, t
    <3>. QED BY <1>10, <3>1 DEF F, G, t
  <2>3. CASE (op = "add") # (t \in DOMAIN f) /\ op = "remove"
    <3>1. R[n] = Object(dropMember(f, t)) /\ Q[n] = Object(dropMember(g, t))
      BY <2>1, <2>3 DEF applyToObject, t
    <3>. QED BY <1>10, <3>1 DEF F, G, t
  <2>4. CASE (op = "add") # (t \in DOMAIN f) /\ op # "remove"
    <3>1. R[n] = Object(putMember(f, t, v)) /\ Q[n] = Object(putMember(g, t, v))
      BY <2>1, <2>4 DEF applyToObject, t
    <3>. QED BY <1>10, <3>1 DEF F, G, t
  <2>. QED BY <2>2, <2>3, <2>4
<1>13. CASE n # 1
  <2>. DEFINE T == {k \in Nat : k + 1 < n => D[k + 1] = E[k + 1]}
  <2>1. 0 \in T
    <3>1. 0 < n - 1
      BY <1>1, <1>13
    <3>2. D[0 + 1] = childAt(F, t) /\ E[0 + 1] = childAt(G, t)
      BY <1>4, <1>5, <3>1
    <3>. QED BY <1>7, <3>2
  <2>2. ASSUME NEW k \in Nat, k \in T PROVE k + 1 \in T
    <3>. SUFFICES ASSUME k + 1 + 1 < n PROVE D[k + 1 + 1] = E[k + 1 + 1]
      OBVIOUS
    <3>1. k + 1 < n /\ k + 1 < n - 1
      BY <1>1
    <3>2. D[k + 1] = E[k + 1]
      BY <2>2, <3>1
    <3>3. /\ D[k + 1 + 1] = childAt(D[k + 1], path[k + 1 + 1])
          /\ E[k + 1 + 1] = childAt(E[k + 1], path[k + 1 + 1])
      BY <1>4, <1>5, <3>1
    <3>. QED BY <3>2, <3>3
  <2>. HIDE DEF T
  <2>3. \A k \in Nat : k \in T
    BY <2>1, <2>2, Induction
  <2>4. ASSUME NEW k \in 1..(n - 1) PROVE D[k] = E[k]
    <3>1. k - 1 \in Nat /\ k - 1 + 1 < n /\ k - 1 + 1 = k
      BY <1>1
    <3>2. k - 1 \in T
      BY <2>3, <3>1
    <3>. QED BY <3>1, <3>2 DEF T
  <2>. DEFINE U == {i \in Nat : i + 1 < n => R[i + 1] = Q[i + 1]}
  <2>5. 0 \in U
    <3>1. n - 1 \in 1..(n - 1)
      BY <1>1, <1>13
    <3>2. D[n - 1] = E[n - 1]
      BY <2>4, <3>1
    <3>. QED BY <1>2, <1>3, <3>2
  <2>6. ASSUME NEW i \in Nat, i \in U PROVE i + 1 \in U
    <3>. SUFFICES ASSUME i + 1 + 1 < n PROVE R[i + 1 + 1] = Q[i + 1 + 1]
      OBVIOUS
    <3>. DEFINE j == i + 1
    <3>1. j \in 1..(n - 1) /\ j < n /\ n - 1 - j \in 1..(n - 1)
      BY <1>1
    <3>2. R[j] = Q[j] /\ D[n - 1 - j] = E[n - 1 - j]
      BY <2>4, <2>6, <3>1
    <3>. HIDE DEF j
    <3>3. /\ R[j + 1] = IF R[j] = Failure THEN Failure ELSE withChild(D[n - 1 - j], path[n - j], R[j])
          /\ Q[j + 1] = IF Q[j] = Failure THEN Failure ELSE withChild(E[n - 1 - j], path[n - j], Q[j])
      BY <1>2, <1>3, <3>1
    <3>4. R[j + 1] = Q[j + 1]
      BY <3>2, <3>3
    <3>. QED BY <3>4 DEF j
  <2>. HIDE DEF U
  <2>7. \A i \in Nat : i \in U
    BY <2>5, <2>6, Induction
  <2>. DEFINE j == n - 1
  <2>8. R[j] = Q[j]
    <3>1. n - 2 \in Nat /\ n - 2 + 1 < n /\ n - 2 + 1 = j
      BY <1>1, <1>13
    <3>2. n - 2 \in U
      BY <2>7, <3>1
    <3>. QED BY <3>1, <3>2 DEF U
  <2>9. j \in 1..(n - 1) /\ j + 1 = n /\ n - 1 - j = 0 /\ n - j = 1
    BY <1>1, <1>13
  <2>. HIDE DEF j
  <2>10. /\ R[j + 1] = IF R[j] = Failure THEN Failure ELSE withChild(D[n - 1 - j], path[n - j], R[j])
         /\ Q[j + 1] = IF Q[j] = Failure THEN Failure ELSE withChild(E[n - 1 - j], path[n - j], Q[j])
    BY <1>2, <1>3, <2>9
  <2>11. /\ R[n] = IF R[j] = Failure THEN Failure ELSE withChild(F, t, R[j])
         /\ Q[n] = IF R[j] = Failure THEN Failure ELSE withChild(G, t, R[j])
    BY <1>4, <1>5, <2>8, <2>9, <2>10
  <2>12. CASE R[j] = Failure
    <3>1. R[n] = Failure /\ Q[n] = Failure
      BY <2>11, <2>12
    <3>. QED BY <1>10, <3>1 DEF F, G
  <2>13. CASE R[j] # Failure
    <3>1. R[n] = Object(putMember(f, t, R[j])) /\ Q[n] = Object(putMember(g, t, R[j]))
      BY <1>8, <1>9, <2>11, <2>13
    <3>. QED BY <1>10, <3>1 DEF F, G
  <2>. QED BY <2>12, <2>13
<1>. QED BY <1>12, <1>13

\* The constants of JsonRebase mean what the code does: see RebasePatch.
EffectsAreOperations ==
    /\ \A o \in Operations : \A v : Effect(o, v) = EffectOf(o, v)
    /\ \A d : Fits(d) = FitsAsObject(d)

\* What RebaseJSONPatch makes of a document by an operation is what applyJSONOperation does.
LEMMA AfterIsResult ==
    ASSUME EffectsAreOperations, NEW d, WholeDocument(d), Proper(AsObject(d)),
           NEW o \in Operations \ BadPointer, applies(o, d)
    PROVE  /\ applyJSONOperation(AsObject(d), o.path, o.op, o.value) # Failure
           /\ applyJSONOperation(AsObject(d), o.path, o.op, o.value) = AsObject(after(o, d))
<1>. DEFINE t == MemberOf[o]
            Marks == {NoValue, Error}
            f == [m \in {m \in DOMAIN d : d[m] \notin Marks} |-> d[m]]
            alone == [m \in {t} |-> d[t]]
            g == [m \in {m \in DOMAIN alone : alone[m] \notin Marks} |-> alone[m]]
            r == applyJSONOperation(AsObject(d), o.path, o.op, o.value)
            s == applyJSONOperation(AsObject(alone), o.path, o.op, o.value)
            e == Effect(o, d[t])
            w == after(o, d)
            h == [m \in {m \in DOMAIN w : w[m] \notin Marks} |-> w[m]]
<1>1. /\ o.op \in Ops /\ o.path \in Paths /\ o.value \in NewValues
      /\ t = o.path[1] /\ t \in Members
  BY PointerAssumption, OperationAssumption
<1>2. PICK P : o.path \in Seq(P)
  BY <1>1, PointersAreSequences
<1>3. o.path # << >> /\ Proper(o.value)
  BY <1>1, PathAssumption, ValueAssumption, ParsedAreProper
<1>4. AsObject(d) = Object(f) /\ AsObject(alone) = Object(g) /\ AsObject(w) = Object(h)
  BY DEF AsObject
<1>5. DOMAIN d = Members
  <2>1. d = [m \in Members |-> d[m]]
    BY DEF WholeDocument
  <2>. QED BY <2>1
<1>6. SameAt(f, g, t)
  BY <1>1, <1>5 DEF SameAt
<1>7. DOMAIN w = Members /\ w[t] = e /\ \A m \in Members : m # t => w[m] = d[m]
  BY <1>1 DEF after
<1>8. e # Error
  BY DEF applies
<1>9. e = IF s = Failure THEN Error ELSE IF t \in DOMAIN s.members THEN s.members[t] ELSE NoValue
  BY DEF EffectsAreOperations, EffectOf
<1>10. s # Failure
  BY <1>8, <1>9
<1>11. \/ r = Failure /\ s = Failure
       \/ \E c : r = Object(putMember(f, t, c)) /\ s = Object(putMember(g, t, c))
       \/ r = Object(dropMember(f, t)) /\ s = Object(dropMember(g, t))
  <2>. DEFINE p == o.path
              op == o.op
              v == o.value
  <2>1. p \in Seq(P) /\ p # << >> /\ op \in Ops /\ p[1] = t /\ SameAt(f, g, p[1])
    BY <1>1, <1>2, <1>3, <1>6
  <2>2. r = applyJSONOperation(Object(f), p, op, v) /\ s = applyJSONOperation(Object(g), p, op, v)
    BY <1>4
  <2>. HIDE DEF f, g, p, op, v, r, s, t
  <2>3. SameEdit(f, g, p[1], r, s)
    BY <2>1, <2>2, OperationAtMember
  <2>. QED BY <2>1, <2>3 DEF SameEdit
<1>12. \A z : Object(z) # Failure /\ Object(z).kind = "object" /\ Object(z).members = z
  <2>1. Failure.kind = "failure" /\ \A z : Object(z).kind = "object" /\ Object(z).members = z
    BY DEF Failure, Object
  <2>. QED BY <2>1
<1>13. ASSUME NEW c, r = Object(putMember(f, t, c)), s = Object(putMember(g, t, c))
       PROVE  r # Failure /\ r = AsObject(w)
  <2>1. r # Failure
    BY <1>12, <1>13
  <2>2. Proper(r)
    BY <1>1, <1>2, <1>3, <2>1, ResultProper
  <2>3. PICK S : Closed(S) /\ r \in S
    BY <2>2 DEF Proper
  <2>4. r.kind = "object" /\ r.members = putMember(f, t, c)
    BY <1>12, <1>13
  <2>5. t \in DOMAIN putMember(f, t, c) /\ putMember(f, t, c)[t] = c
    BY DEF putMember
  <2>6. c \in Parts(r)
    <3>. HIDE DEF r, f, t
    <3>. QED BY <2>4, <2>5 DEF Parts
  <2>7. c \notin Marks
    <3>1. c.kind \in {"scalar", "object", "array"}
      BY <2>3, <2>6 DEF Closed
    <3>. QED BY <3>1, MarkAssumption
  <2>8. e = c
    <3>1. s.members = putMember(g, t, c)
      BY <1>12, <1>13
    <3>2. t \in DOMAIN putMember(g, t, c) /\ putMember(g, t, c)[t] = c
      BY DEF putMember
    <3>. HIDE DEF e, s, g, t
    <3>. QED BY <1>9, <1>10, <3>1, <3>2
  <2>9. putMember(f, t, c) = h
    <3>1. DOMAIN h = DOMAIN f \cup {t}
      <4>. HIDE DEF w, e, t
      <4>. QED BY <1>1, <1>5, <1>7, <2>7, <2>8
    <3>2. \A m \in DOMAIN f \cup {t} : h[m] = IF m = t THEN c ELSE f[m]
      <4>. HIDE DEF w, e, t
      <4>. QED BY <1>1, <1>5, <1>7, <2>7, <2>8
    <3>3. h = [m \in DOMAIN h |-> h[m]]
      OBVIOUS
    <3>. HIDE DEF h, f, t
    <3>. QED BY <3>1, <3>2, <3>3 DEF putMember
  <2>. QED BY <1>4, <1>13, <2>1, <2>9
<1>14. ASSUME r = Object(dropMember(f, t)), s = Object(dropMember(g, t))
       PROVE  r # Failure /\ r = AsObject(w)
  <2>1. r # Failure
    BY <1>12, <1>14
  <2>2. e = NoValue
    <3>1. s.members = dropMember(g, t)
      BY <1>12, <1>14
    <3>2. t \notin DOMAIN dropMember(g, t)
      BY DEF dropMember
    <3>. HIDE DEF e, s, g, t
    <3>. QED BY <1>9, <1>10, <3>1, <3>2
  <2>3. dropMember(f, t) = h
    <3>1. DOMAIN h = DOMAIN f \ {t}
      <4>. HIDE DEF w, e, t
      <4>. QED BY <1>1, <1>5, <1>7, <2>2
    <3>2. \A m \in DOMAIN f \ {t} : h[m] = f[m]
      <4>. HIDE DEF w, e, t
      <4>. QED BY <1>1, <1>5, <1>7, <2>2
    <3>3. h = [m \in DOMAIN h |-> h[m]]
      OBVIOUS
    <3>. HIDE DEF h, f, t
    <3>. QED BY <3>1, <3>2, <3>3 DEF dropMember
  <2>. QED BY <1>4, <1>14, <2>1, <2>3
<1>. HIDE DEF r, s, f, g, t, w
<1>15. (\E c : r = Object(putMember(f, t, c)) /\ s = Object(putMember(g, t, c)))
       \/ (r = Object(dropMember(f, t)) /\ s = Object(dropMember(g, t)))
  BY <1>10, <1>11
<1>16. r # Failure /\ r = AsObject(w)
  BY <1>13, <1>14, <1>15
<1>. QED BY <1>16 DEF r, w

\* The two go together: the working copy of the proposed source is the document, and it is
\* whole and proper.
BothInv ==
    /\ WholeDocument(proposedWorking)
    /\ status \in Statuses
    /\ status = "ready" => proposedWorking = proposed
    /\ document = AsObject(proposedWorking) /\ patchStatus = PatchStatus
    /\ PatchInv

LEMMA BothInvInitial == BothInit => BothInv /\ PatchInit
<1>. SUFFICES ASSUME BothInit PROVE BothInv /\ PatchInit
  OBVIOUS
<1>1. /\ proposedWorking = proposed /\ proposed \in Documents /\ status = "ready"
      /\ document = AsObject(proposedWorking) /\ patchStatus = PatchStatus
  BY DEF BothInit, Init
<1>2. WholeDocument(proposedWorking)
  BY <1>1, DocumentAssumption DEF WholeDocument
<1>3. PatchStatus = "ready" /\ status \in Statuses
  BY <1>1 DEF PatchStatus, Failures, Statuses
<1>4. document \in Values
  BY <1>1, SourceAssumption
<1>5. PatchInv
  BY <1>4, ParsedAreProper DEF PatchInv
<1>. QED BY <1>1, <1>2, <1>3, <1>4, <1>5 DEF BothInv, PatchInit

LEMMA BothStep ==
    ASSUME EffectsAreOperations, BothInv, [BothNext]_<<vars, patchVars>>
    PROVE  BothInv' /\ [PatchNext]_patchVars
<1>1. CASE UNCHANGED <<vars, patchVars>>
  BY <1>1 DEF BothInv, vars, patchVars, PatchInv, PatchStatus, WholeDocument
<1>2. CASE BothNext
  <2>1. /\ Next /\ document' = AsObject(proposedWorking') /\ patchStatus' = PatchStatus'
        /\ document = AsObject(proposedWorking) /\ patchStatus = PatchStatus
    BY <1>2 DEF BothNext, BothInv
  <2>2. ASSUME UNCHANGED <<proposed, proposedWorking>>, status' \in Statuses \ {"ready"}
        PROVE  BothInv' /\ document' = document
    <3>1. document' = document
      BY <2>1, <2>2
    <3>2. WholeDocument(proposedWorking)' /\ PatchInv'
      BY <2>2, <3>1 DEF BothInv, PatchInv, WholeDocument
    <3>. QED BY <2>1, <2>2, <3>1, <3>2 DEF BothInv
  <2>3. CASE Begin
    <3>1. /\ status = "ready" /\ UNCHANGED <<proposed, proposedWorking>>
          /\ status' = IF supported /\ Fits(previous) /\ Fits(proposed) THEN "running" ELSE "refused"
      BY <2>3 DEF Begin, inputs, copies
    <3>2. patchStatus = "ready" /\ BothInv' /\ document' = document
      BY <2>1, <2>2, <3>1 DEF PatchStatus, Failures, Statuses
    <3>3. CASE status' = "running"
      <4>1. patchStatus' = "running"
        BY <2>1, <3>3 DEF PatchStatus, Failures
      <4>2. Fits(proposed)
        BY <3>1, <3>3
      <4>3. Clones(document)
        BY <2>1, <3>1, <4>2 DEF EffectsAreOperations, FitsAsObject, BothInv
      <4>4. document.kind = "object"
        BY <2>1 DEF AsObject, Object
      <4>5. BeginPatch
        BY <3>2, <4>1, <4>3, <4>4 DEF BeginPatch
      <4>. QED BY <3>2, <4>5 DEF PatchNext
    <3>4. CASE status' = "refused"
      <4>1. patchStatus' = "failed"
        BY <2>1, <3>4 DEF PatchStatus, Failures
      <4>. QED BY <3>2, <4>1 DEF PatchNext, RefusePatch
    <3>. QED BY <3>1, <3>3, <3>4
  <2>4. CASE Finish
    <3>1. status = "running" /\ UNCHANGED <<proposed, proposedWorking>> /\ status' = "rebased"
      BY <2>4 DEF Finish, inputs, copies
    <3>2. patchStatus = "running" /\ patchStatus' = "patched" /\ BothInv' /\ document' = document
      BY <2>1, <2>2, <3>1 DEF PatchStatus, Failures, Statuses
    <3>. QED BY <3>2 DEF PatchNext, FinishPatch
  <2>5. ASSUME NEW o \in Operations, Fail(o) PROVE BothInv' /\ PatchNext
    <3>1. /\ status = "running" /\ UNCHANGED <<proposed, proposedWorking>>
          /\ status' = Verdict(o) /\ Verdict(o) # "applied"
      BY <2>5 DEF Fail, inputs, copies
    <3>2. Verdict(o) \in Failures
      BY <3>1 DEF Verdict, Failures
    <3>3. status' \in Statuses \ {"ready"}
      BY <3>1, <3>2 DEF Statuses, Failures
    <3>4. patchStatus = "running" /\ patchStatus' = "failed"
      BY <2>1, <3>1, <3>2 DEF PatchStatus, Failures
    <3>5. BothInv' /\ document' = document
      BY <2>2, <3>1, <3>3
    <3>. QED BY <3>4, <3>5 DEF PatchNext, RefusePatch
  <2>6. ASSUME NEW o \in Operations, Operate(o) PROVE BothInv' /\ PatchNext
    <3>. DEFINE result == applyJSONOperation(document, o.path, o.op, o.value)
    <3>1. /\ status = "running" /\ status' = status
          /\ o \notin BadPointer /\ applies(o, proposedWorking)
          /\ Fits(after(o, proposedWorking))
          /\ proposedWorking' = after(o, proposedWorking)
      BY <2>6 DEF Operate, Verdict
    <3>2. o.op \in Ops /\ o.path \in Paths /\ o.value \in NewValues
      BY <3>1, PointerAssumption
    <3>3. result # Failure /\ result = AsObject(after(o, proposedWorking))
      BY <2>1, <3>1, AfterIsResult DEF BothInv, PatchInv
    <3>4. document' = result
      BY <2>1, <3>1, <3>3
    <3>5. Clones(result)
      BY <3>1, <3>3 DEF EffectsAreOperations, FitsAsObject
    <3>6. patchStatus = "running" /\ patchStatus' = "running"
      BY <2>1, <3>1 DEF PatchStatus, Failures
    <3>7. ApplyOperation(o.op, o.path, o.value)
      BY <3>3, <3>4, <3>5, <3>6 DEF ApplyOperation
    <3>8. PatchNext
      BY <3>2, <3>7 DEF PatchNext
    <3>9. PatchInv'
      BY <3>8, PatchInvStep DEF BothInv
    <3>10. WholeDocument(proposedWorking')
      BY <3>1, AfterIsWhole DEF BothInv
    <3>11. WholeDocument(proposedWorking)'
      BY <3>10 DEF WholeDocument
    <3>. QED BY <2>1, <3>1, <3>8, <3>9, <3>11 DEF BothInv, Statuses
  <2>. QED BY <2>1, <2>3, <2>4, <2>5, <2>6 DEF Next
<1>. QED BY <1>1, <1>2

\* The result of a rebase is what ApplyJSONPatch makes of the proposed source with the same
\* delta, so that what is proved of a patch holds of a rebase: every step of RebaseJSONPatch
\* is one of ApplyJSONPatch on the proposed working copy.
THEOREM RebaseTakesPatchSteps == EffectsAreOperations => (BothSpec => RebaseImplementsPatch)
<1>. SUFFICES ASSUME EffectsAreOperations PROVE BothSpec => RebaseImplementsPatch
  OBVIOUS
<1>1. BothInv /\ [BothNext]_<<vars, patchVars>> => BothInv' /\ [PatchNext]_patchVars
  BY BothStep
<1>. QED BY <1>1, BothInvInitial, PTL DEF BothSpec, RebaseImplementsPatch, PatchSpec
=============================================================================
