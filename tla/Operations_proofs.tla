-------------------------- MODULE Operations_proofs -------------------------
(***************************************************************************)
(* Proofs about FileOperations and SkillOperations.                        *)
(*                                                                         *)
(* Files: for every set of paths, whatever they fold to and however they   *)
(* nest, and every length of delta.  FileInv is inductive: an add keeps    *)
(* the tree fit only because the index it consults is the index of the     *)
(* working copy, and the index stays so only because no two files of a fit *)
(* tree share a folded path.                                               *)
(*                                                                         *)
(* Skills: ApplySkillOperations implements the file operations with        *)
(* trivial paths, for any packages, descriptors and digests.  Every step   *)
(* is mapped to the step of the same name; StartSkills alone needs more,   *)
(* that the skills are a map from packages to descriptors, which is        *)
(* SkillInv.                                                               *)
(***************************************************************************)
EXTENDS FileOperations, SkillOperations, TLAPS

FileInv == TypeOK /\ IndexIsCurrent /\ TreesStayFit

\* The tree type, member by member.
LEMMA TreeType ==
    ASSUME NEW f
    PROVE  f \in Trees <=> /\ DOMAIN f \subseteq Paths
                           /\ f = [x \in DOMAIN f |-> f[x]]
                           /\ \A x \in DOMAIN f : f[x] \in Records
<1>1. ASSUME f \in Trees
      PROVE  /\ DOMAIN f \subseteq Paths
             /\ f = [x \in DOMAIN f |-> f[x]]
             /\ \A x \in DOMAIN f : f[x] \in Records
  <2>1. PICK D \in SUBSET Paths : f \in [D -> Records]
    BY <1>1 DEF Trees
  <2> QED
    BY <2>1
<1>2. ASSUME DOMAIN f \subseteq Paths, f = [x \in DOMAIN f |-> f[x]],
             \A x \in DOMAIN f : f[x] \in Records
      PROVE  f \in Trees
  <2>1. f \in [DOMAIN f -> Records]
    BY <1>2
  <2> QED
    BY <1>2, <2>1 DEF Trees
<1> QED
  BY <1>1, <1>2

\* Setting one path of a tree to a record, and removing one, gives a tree.
LEMMA SetType ==
    ASSUME NEW f \in Trees, NEW p \in Paths, NEW r \in Records
    PROVE  /\ Set(f, p, r) \in Trees
           /\ DOMAIN Set(f, p, r) = DOMAIN f \cup {p}
  BY TreeType DEF Set

LEMMA WithoutType ==
    ASSUME NEW f \in Trees, NEW p \in Paths
    PROVE  /\ Without(f, p) \in Trees
           /\ DOMAIN Without(f, p) = DOMAIN f \ {p}
  BY TreeType DEF Without

\* The index computed from a tree without folding collisions inverts Fold.
LEMMA IndexOfDistinct ==
    ASSUME NEW F \in SUBSET Paths, Distinct(F)
    PROVE  /\ DOMAIN IndexOf(F) = {Fold[p] : p \in F}
           /\ \A p \in F : IndexOf(F)[Fold[p]] = p
           /\ \A f \in DOMAIN IndexOf(F) : IndexOf(F)[f] \in Paths
<1>1. ASSUME NEW p \in F PROVE IndexOf(F)[Fold[p]] = p
  <2>1. (CHOOSE q \in F : Fold[q] = Fold[p]) \in F
    OBVIOUS
  <2>2. Fold[CHOOSE q \in F : Fold[q] = Fold[p]] = Fold[p]
    OBVIOUS
  <2>3. (CHOOSE q \in F : Fold[q] = Fold[p]) = p
    BY <2>1, <2>2 DEF Distinct
  <2> QED
    BY <2>3 DEF IndexOf
<1> QED
  BY <1>1 DEF IndexOf

\* A part of a fit tree is fit.
LEMMA FitSubset ==
    ASSUME NEW F, NEW G \in SUBSET F, FitTree(F)
    PROVE  FitTree(G)
  BY DEF FitTree, Distinct, NoAncestorConflict

\* A path that may be added neither collides with a file nor nests with one.
LEMMA AddedFits ==
    ASSUME FileInv, NEW o \in Operation, Admissible(o), AddAllowed(o)
    PROVE  FitTree(DOMAIN working \cup {o.path})
<1> DEFINE F == DOMAIN working
           p == o.path
<1> USE DEF FileInv
<1>1. p \in Portable /\ Fold[p] \in Folded
  BY PathAssumption DEF Operation, Admissible
<1>2. DOMAIN index = {Fold[q] : q \in F} /\ FitTree(F)
  BY DEF IndexIsCurrent, TreesStayFit
<1>3. Fold[p] \notin DOMAIN index
  BY DEF AddAllowed
<1>4. ASSUME NEW q \in F PROVE Fold[q] # Fold[p] /\ ~Related(Fold[q], Fold[p])
  <2>1. Fold[q] \in DOMAIN index
    BY <1>2
  <2>2. ~Related(Fold[p], Fold[q])
    BY <2>1, <1>3 DEF AddAllowed, Conflicts
  <2> QED
    BY <2>1, <2>2, <1>3 DEF Related
<1>5. ~Related(Fold[p], Fold[p])
  BY <1>1, PathAssumption DEF Related
<1>6. Distinct(F \cup {p})
  BY <1>2, <1>4 DEF Distinct, FitTree
<1>7. NoAncestorConflict(F \cup {p})
  <2> SUFFICES ASSUME NEW q \in F \cup {p}, NEW r \in F \cup {p}
               PROVE  ~Related(Fold[q], Fold[r])
    BY DEF NoAncestorConflict
  <2>1. CASE q \in F /\ r \in F
    BY <2>1, <1>2 DEF FitTree, NoAncestorConflict
  <2>2. CASE q = p \/ r = p
    BY <2>2, <1>4, <1>5 DEF Related
  <2> QED
    BY <2>1, <2>2
<1> QED
  BY <1>1, <1>2, <1>6, <1>7 DEF FitTree

LEMMA ApplyInv ==
    ASSUME FileInv, NEW o \in Operation, Apply(o)
    PROVE  FileInv'
<1> DEFINE p == o.path
           F == DOMAIN working
<1> USE DEF FileInv
<1>1. p \in Paths /\ Fold[p] \in Folded
  BY PathAssumption DEF Operation
<1>2. working \in Trees /\ FitTree(F) /\ F \subseteq Paths
  BY TreeType DEF TypeOK, TreesStayFit
<1>3. /\ DOMAIN index = {Fold[q] : q \in F}
      /\ \A q \in F : index[Fold[q]] = q
      /\ DOMAIN index \subseteq Folded
      /\ \A f \in DOMAIN index : index[f] \in Paths
  BY DEF IndexIsCurrent, TypeOK
<1>4. /\ seen' \subseteq Folded /\ done' \subseteq Operation /\ status' = "running"
      /\ tree' = tree /\ tree \in InputTrees
  BY <1>1 DEF Apply, TypeOK
<1>5. CASE o.op = "add"
  <2>1. AddAllowed(o) /\ Admissible(o)
    BY <1>5 DEF Apply, Allowed
  <2>2. o.record \in Records
    BY <2>1 DEF AddAllowed
  <2>3. /\ working' = Set(working, p, o.record)
        /\ index' = Set(index, Fold[p], p)
    BY <1>5 DEF Apply, workingAfter, indexAfter
  <2>4. working' \in Trees /\ DOMAIN working' = F \cup {p}
    BY <2>2, <2>3, <1>1, <1>2, SetType
  <2>5. /\ DOMAIN index' = DOMAIN index \cup {Fold[p]}
        /\ index'[Fold[p]] = p
        /\ \A f \in DOMAIN index : f # Fold[p] => index'[f] = index[f]
    BY <2>3 DEF Set
  <2>6. FitTree(DOMAIN working')
    BY <2>1, <2>4, AddedFits
  <2>7. Fold[p] \notin DOMAIN index
    BY <2>1 DEF AddAllowed
  <2>8. IndexIsCurrent'
    BY <2>4, <2>5, <2>7, <1>3 DEF IndexIsCurrent
  <2>9. DOMAIN index' \subseteq Folded /\ \A f \in DOMAIN index' : index'[f] \in Paths
    BY <2>5, <1>1, <1>3
  <2> QED
    BY <2>4, <2>6, <2>8, <2>9, <1>2, <1>4 DEF TypeOK, TreesStayFit
<1>6. CASE o.op = "replace"
  <2>1. p \in F /\ o.record \in Records
    BY <1>6 DEF Apply, Allowed, Matches
  <2>2. working' = Set(working, p, o.record) /\ index' = index
    BY <1>6 DEF Apply, workingAfter, indexAfter
  <2>3. working' \in Trees /\ DOMAIN working' = F
    <3>1. working' \in Trees /\ DOMAIN working' = F \cup {p}
      BY <2>1, <2>2, <1>1, <1>2, SetType
    <3>2. F \cup {p} = F
      BY <2>1
    <3> QED
      BY <3>1, <3>2
  <2> QED
    BY <2>2, <2>3, <1>2, <1>3, <1>4 DEF TypeOK, TreesStayFit, IndexIsCurrent
<1>7. CASE o.op = "remove"
  <2>1. p \in F
    BY <1>7 DEF Apply, Allowed, Matches
  <2>2. working' = Without(working, p) /\ index' = Without(index, Fold[p])
    BY <1>7 DEF Apply, workingAfter, indexAfter
  <2>3. working' \in Trees /\ DOMAIN working' = F \ {p}
    BY <2>2, <1>1, <1>2, WithoutType
  <2>4. /\ DOMAIN index' = DOMAIN index \ {Fold[p]}
        /\ \A f \in DOMAIN index' : index'[f] = index[f]
    BY <2>2 DEF Without
  <2>5. FitTree(DOMAIN working')
    BY <2>3, <1>2, FitSubset
  <2>6. \A q \in F : Fold[q] = Fold[p] => q = p
    BY <2>1, <1>2 DEF FitTree, Distinct
  <2>7. IndexIsCurrent'
    BY <2>3, <2>4, <2>6, <1>3 DEF IndexIsCurrent
  <2>8. DOMAIN index' \subseteq Folded /\ \A f \in DOMAIN index' : index'[f] \in Paths
    BY <2>4, <1>3
  <2> QED
    BY <2>3, <2>5, <2>7, <2>8, <1>2, <1>4 DEF TypeOK, TreesStayFit
<1> QED
  BY <1>5, <1>6, <1>7 DEF Apply, Allowed

\* The states with an empty working copy.
LEMMA EmptyInv ==
    ASSUME tree \in InputTrees, working = Empty, index = Empty, seen = {}, done = {},
           status = "ready"
    PROVE  FileInv
<1>1. DOMAIN Empty = {}
  BY DEF Empty
<1>2. Empty \in Trees
  BY <1>1, TreeType DEF Empty
<1>3. FitTree({})
  BY DEF FitTree, Distinct, NoAncestorConflict
<1> QED
  BY <1>1, <1>2, <1>3 DEF FileInv, TypeOK, IndexIsCurrent, TreesStayFit

\* Every step preserves the inductive invariant.
LEMMA StepInv == FileInv /\ [Next]_vars => FileInv'
<1> SUFFICES ASSUME FileInv, [Next]_vars PROVE FileInv'
  OBVIOUS
<1> USE DEF FileInv
<1>1. CASE Start
  <2>1. /\ tree' = tree /\ working' = tree' /\ index' = IndexOf(DOMAIN tree')
        /\ seen' = {} /\ done' = {} /\ status' = "running"
        /\ FitTree(DOMAIN tree') /\ tree' \in Trees
    BY <1>1 DEF Start, Usable
  <2>2. tree' \in InputTrees
    BY <2>1 DEF TypeOK
  <2>3. DOMAIN tree' \subseteq Paths /\ Distinct(DOMAIN tree')
    BY <2>1, TreeType DEF FitTree
  <2>4. IndexIsCurrent' /\ \A f \in DOMAIN index' : index'[f] \in Paths
    BY <2>1, <2>3, IndexOfDistinct DEF IndexIsCurrent
  <2>5. DOMAIN index' \subseteq Folded
    BY <2>1, <2>3, <2>4, PathAssumption DEF IndexIsCurrent
  <2> QED
    BY <2>1, <2>2, <2>4, <2>5 DEF TypeOK, TreesStayFit
<1>2. CASE Finish
  <2>1. working \in InputTrees
    BY DEF TypeOK, Trees, InputTrees
  <2> QED
    BY <1>2, <2>1 DEF Finish, TypeOK, IndexIsCurrent, TreesStayFit
<1>3. CASE Abandon \/ RefuseInput
  BY <1>3 DEF Abandon, RefuseInput, TypeOK, IndexIsCurrent, TreesStayFit
<1>4. ASSUME NEW o \in Operation, Refuse(o) PROVE FileInv'
  BY <1>4 DEF Refuse, TypeOK, IndexIsCurrent, TreesStayFit
<1>5. CASE UNCHANGED vars
  BY <1>5 DEF vars, TypeOK, IndexIsCurrent, TreesStayFit
<1> QED
  BY <1>1, <1>2, <1>3, <1>4, <1>5, ApplyInv DEF Next

\* The three invariants hold in every reachable state.
THEOREM FileInvariant == Spec => []FileInv
<1>1. Init => FileInv
  BY EmptyInv DEF Init
<1> QED
  BY <1>1, StepInv, PTL DEF Spec

\* No delta, however long, produces a tree with a collision or an ancestor conflict.
THEOREM TreesAlwaysFit == Spec => []TreesStayFit
  BY FileInvariant, PTL DEF FileInv

\* The index consulted by the collision checks is never stale.
THEOREM IndexAlwaysCurrent == Spec => []IndexIsCurrent
  BY FileInvariant, PTL DEF FileInv

----------------------------------------------------------------------------
(***************************************************************************)
(* The meaning of a delta.  DeltaInv adds to DeltaIsAboutTheInput that     *)
(* seen holds exactly the folded paths of the operations done: that is     *)
(* why the next operation's target still is what the caller's tree has.    *)
(***************************************************************************)
DeltaInv ==
    /\ DeltaIsAboutTheInput
    /\ status = "running" => seen = {Fold[o.path] : o \in done}

LEMMA ApplyDelta ==
    ASSUME FileInv, DeltaInv, NEW o \in Operation, Apply(o)
    PROVE  DeltaInv'
<1> DEFINE p == o.path
<1>1. /\ status = "running" /\ status' = "running" /\ tree' = tree
      /\ seen' = seen \cup {Fold[p]} /\ done' = done \cup {o}
      /\ working' = workingAfter(o) /\ Allowed(o)
  BY DEF Apply
<1>2. /\ p \in Paths /\ Fold[p] \notin seen
      /\ \A q \in done : Fold[q.path] # Fold[p] /\ q.path # p
  BY <1>1 DEF DeltaInv, Allowed, Admissible, Operation
<1>3. /\ p \in DOMAIN working <=> p \in DOMAIN tree
      /\ p \in DOMAIN tree => working[p] = tree[p]
  BY <1>1, <1>2 DEF DeltaInv, DeltaIsAboutTheInput
<1>4. o.op # "add" => p \in DOMAIN tree /\ o.digest = DigestOf[tree[p]]
  BY <1>1, <1>3 DEF Allowed, Matches
<1>5. \A x : x # p => /\ x \in DOMAIN working' <=> x \in DOMAIN working
                      /\ x \in DOMAIN working => working'[x] = working[x]
  BY <1>1 DEF workingAfter, Set, Without
<1>6. IF o.op = "remove" THEN p \notin DOMAIN working'
      ELSE p \in DOMAIN working' /\ working'[p] = o.record
  BY <1>1 DEF workingAfter, Set, Without
<1>7. seen' = {Fold[q.path] : q \in done'}
  BY <1>1 DEF DeltaInv
<1>8. \A q, r \in done' : Fold[q.path] = Fold[r.path] => q = r
  BY <1>1, <1>2 DEF DeltaInv, DeltaIsAboutTheInput
<1>9. \A q \in done' : q.op # "add" =>
         q.path \in DOMAIN tree' /\ q.digest = DigestOf[tree'[q.path]]
  BY <1>1, <1>4 DEF DeltaInv, DeltaIsAboutTheInput
<1>10. ASSUME NEW x \in Paths, \A q \in done' : q.path # x
       PROVE  /\ x \in DOMAIN working' <=> x \in DOMAIN tree'
              /\ x \in DOMAIN tree' => working'[x] = tree'[x]
  <2>1. x # p /\ \A q \in done : q.path # x
    BY <1>1, <1>10
  <2> QED
    BY <2>1, <1>1, <1>5 DEF DeltaInv, DeltaIsAboutTheInput
<1>11. ASSUME NEW q \in done'
       PROVE  IF q.op = "remove" THEN q.path \notin DOMAIN working'
              ELSE q.path \in DOMAIN working' /\ working'[q.path] = q.record
  <2>1. CASE q = o
    BY <2>1, <1>6
  <2>2. CASE q \in done
    BY <2>2, <1>1, <1>2, <1>5 DEF DeltaInv, DeltaIsAboutTheInput
  <2> QED
    BY <1>1, <2>1, <2>2
<1> QED
  BY <1>1, <1>7, <1>8, <1>9, <1>10, <1>11 DEF DeltaInv, DeltaIsAboutTheInput

LEMMA StepDelta == FileInv /\ DeltaInv /\ [Next]_vars => DeltaInv'
<1> SUFFICES ASSUME FileInv, DeltaInv, [Next]_vars PROVE DeltaInv'
  OBVIOUS
<1>1. CASE Start
  BY <1>1 DEF Start, DeltaInv, DeltaIsAboutTheInput
<1>2. CASE Finish \/ Abandon \/ RefuseInput
  BY <1>2 DEF Finish, Abandon, RefuseInput, DeltaInv, DeltaIsAboutTheInput
<1>3. ASSUME NEW o \in Operation, Refuse(o) PROVE DeltaInv'
  BY <1>3 DEF Refuse, DeltaInv, DeltaIsAboutTheInput
<1>4. CASE UNCHANGED vars
  BY <1>4 DEF vars, DeltaInv, DeltaIsAboutTheInput
<1> QED
  BY <1>1, <1>2, <1>3, <1>4, ApplyDelta DEF Next

THEOREM DeltaInvariant == Spec => [](FileInv /\ DeltaInv)
<1>1. Init => FileInv /\ DeltaInv
  BY EmptyInv DEF Init, DeltaInv, DeltaIsAboutTheInput
<1> QED
  BY <1>1, StepInv, StepDelta, PTL DEF Spec

\* The order of the operations of a delta does not matter to what they mean.
THEOREM DeltasAreAboutTheInput == Spec => []DeltaIsAboutTheInput
  BY DeltaInvariant, PTL DEF DeltaInv

\* While a delta runs, the working copy is the effect of the operations done so far.
LEMMA WorkingIsResult ==
    ASSUME FileInv, DeltaInv, status = "running"
    PROVE  working = ResultOf(tree, done)
<1> USE DEF DeltaInv, DeltaIsAboutTheInput
<1>1. /\ DOMAIN working \subseteq Paths
      /\ working = [x \in DOMAIN working |-> working[x]]
  BY TreeType DEF FileInv, TypeOK
<1>2. \A o, q \in done : o.path = q.path => o = q
  OBVIOUS
<1>3. ASSUME NEW x \in Paths
      PROVE  x \in DOMAIN working <=>
                writes(done, x) \/ (x \in DOMAIN tree /\ ~removes(done, x))
  <2>1. CASE \E o \in done : o.path = x
    <3>1. PICK o \in done : o.path = x
      BY <2>1
    <3>2. \A q \in done : q.path = x => q = o
      BY <3>1, <1>2
    <3>3. IF o.op = "remove" THEN removes(done, x) /\ ~writes(done, x)
          ELSE writes(done, x)
      BY <3>1, <3>2 DEF removes, writes
    <3> QED
      BY <3>1, <3>3
  <2>2. CASE \A o \in done : o.path # x
    BY <2>2 DEF removes, writes
  <2> QED
    BY <2>1, <2>2
<1>4. DOMAIN working = {q \in Paths : writes(done, q) \/ (q \in DOMAIN tree /\ ~removes(done, q))}
  BY <1>1, <1>3
<1>5. ASSUME NEW x \in DOMAIN working
      PROVE  working[x] = IF writes(done, x) THEN (CHOOSE o \in done : o.path = x).record
                          ELSE tree[x]
  <2>1. CASE writes(done, x)
    <3>1. PICK o \in done : o.path = x /\ o.op # "remove"
      BY <2>1 DEF writes
    <3>2. (CHOOSE q \in done : q.path = x) = o
      BY <3>1, <1>2
    <3> QED
      BY <2>1, <3>1, <3>2
  <2>2. CASE ~writes(done, x)
    <3>1. \A o \in done : o.path # x
      BY <2>2 DEF writes
    <3> QED
      BY <2>2, <3>1, <1>1
  <2> QED
    BY <2>1, <2>2
<1> QED
  BY <1>1, <1>4, <1>5 DEF ResultOf

\* A delta takes effect whole, as a set of operations, on a tree it leaves fit; or not
\* at all.
THEOREM DeltasAreAtomic == Spec => DeltaIsAtomic
<1> DEFINE Whole == tree' # tree => /\ status = "running"
                                    /\ tree' = ResultOf(tree, done)
                                    /\ FitTree(DOMAIN tree')
<1>1. FileInv /\ DeltaInv /\ [Next]_vars => [Whole]_vars
  <2> SUFFICES ASSUME FileInv, DeltaInv, Next, tree' # tree PROVE Whole
    OBVIOUS
  <2>1. Finish
    BY DEF Next, Start, RefuseInput, Abandon, Apply, Refuse
  <2>2. status = "running" /\ tree' = working
    BY <2>1 DEF Finish
  <2>3. FitTree(DOMAIN working)
    BY DEF FileInv, TreesStayFit
  <2> QED
    BY <2>2, <2>3, WorkingIsResult
<1> QED
  BY <1>1, DeltaInvariant, PTL DEF Spec, DeltaIsAtomic
----------------------------------------------------------------------------
SkillStates == UNION {[D -> Descriptors \cup {BadDescriptor}] : D \in SUBSET Packages}

\* Both maps are maps from packages to descriptors.
SkillInv == skills \in SkillStates /\ skillsWorking \in SkillStates

LEMMA SkillInitInv == SkillInit => SkillInv
<1>. SUFFICES ASSUME SkillInit PROVE SkillInv
  OBVIOUS
<1>1. NoSkills \in [{} -> Descriptors \cup {BadDescriptor}]
  BY DEF NoSkills
<1>. QED  BY <1>1 DEF SkillInit, SkillInv, SkillStates

\* An operation the loop allows keeps the working copy such a map.
LEMMA WorkingStaysState ==
    ASSUME skillsWorking \in SkillStates, NEW o \in SkillOperation, SkillAllowed(o)
    PROVE  skillsAfter(o) \in SkillStates
<1>1. PICK D \in SUBSET Packages : skillsWorking \in [D -> Descriptors \cup {BadDescriptor}]
  BY DEF SkillStates
<1>. DEFINE left == DOMAIN skillsWorking \ {o.path}
            E == IF o.op = "remove" THEN left ELSE left \cup {o.path}
<1>2. E \in SUBSET Packages
  BY <1>1 DEF SkillOperation
<1>3. ASSUME NEW p \in E
      PROVE  (IF p = o.path THEN o.record ELSE skillsWorking[p]) \in Descriptors \cup {BadDescriptor}
  <2>1. CASE p = o.path
    BY <2>1, <1>1 DEF SkillAllowed, AddSkillAllowed
  <2>2. CASE p # o.path
    BY <2>2, <1>1
  <2>. QED  BY <2>1, <2>2
<1>4. skillsAfter(o) \in [E -> Descriptors \cup {BadDescriptor}]
  BY <1>3 DEF skillsAfter
<1>. QED  BY <1>2, <1>4 DEF SkillStates

LEMMA SkillStepInv == SkillInv /\ [SkillNext]_skillVars => SkillInv'
<1>. SUFFICES ASSUME SkillInv, [SkillNext]_skillVars PROVE SkillInv'
  OBVIOUS
<1>1. CASE StartSkills \/ RefuseSkillInput \/ FinishSkills \/ AbandonSkills
  BY <1>1 DEF SkillInv, StartSkills, RefuseSkillInput, FinishSkills, AbandonSkills
<1>2. ASSUME NEW o \in SkillOperation, ApplySkill(o) PROVE SkillInv'
  BY <1>2, WorkingStaysState DEF SkillInv, ApplySkill
<1>3. ASSUME NEW o \in SkillOperation, RefuseSkill(o) PROVE SkillInv'
  BY <1>3 DEF SkillInv, RefuseSkill
<1>4. CASE UNCHANGED skillVars
  BY <1>4 DEF SkillInv, skillVars
<1>. QED  BY <1>1, <1>2, <1>3, <1>4 DEF SkillNext

----------------------------------------------------------------------------
LEMMA FilesInit == SkillInit => Files!Init
<1>. SUFFICES ASSUME SkillInit PROVE Files!Init
  OBVIOUS
<1>1. [p \in DOMAIN skillsWorking |-> p] = Files!Empty
  BY DEF SkillInit, NoSkills, Files!Empty
<1>2. skillsWorking = Files!Empty
  BY DEF SkillInit, NoSkills, Files!Empty
<1>. QED  BY <1>1, <1>2 DEF SkillInit, Files!Init, Files!InputTrees

\* With every name its own fold and nothing below anything, a tree fits when its names
\* are identifiers.
LEMMA FitIsValid ==
    ASSUME NEW names \in SUBSET Packages
    PROVE  Files!FitTree(names) <=> names \subseteq Identifiers
BY DEF Files!FitTree, Files!Distinct, Files!NoAncestorConflict, Files!Related

LEMMA UsableIsValid ==
    ASSUME skills \in SkillStates PROVE Files!Usable(skills) <=> ValidSkillState(skills)
<1>1. PICK D \in SUBSET Packages : skills \in [D -> Descriptors \cup {BadDescriptor}]
  BY DEF SkillStates
<1>2. skills \in Files!Trees <=> \A p \in D : skills[p] \in Descriptors
  <2>1. ASSUME skills \in Files!Trees, NEW p \in D PROVE skills[p] \in Descriptors
    BY <2>1, <1>1 DEF Files!Trees
  <2>2. ASSUME \A p \in D : skills[p] \in Descriptors PROVE skills \in [D -> Descriptors]
    BY <2>2, <1>1
  <2>. QED  BY <2>1, <2>2 DEF Files!Trees
<1>. QED  BY <1>1, <1>2, FitIsValid DEF Files!Usable, ValidSkillState

\* The loop allows what the file operations allow.
LEMMA AllowsTheSame ==
    ASSUME NEW o \in SkillOperation, skillsWorking \in SkillStates
    PROVE  SkillAllowed(o) <=> Files!Allowed(o)
<1>1. o.path \in Packages
  BY DEF SkillOperation
<1>. QED  BY <1>1 DEF SkillAllowed, SkillMatches, AddSkillAllowed, Files!Allowed, Files!Admissible,
              Files!Collides, Files!AddAllowed, Files!Matches, Files!Conflicts, Files!Related

\* A step of the loop is the step of the same name.
LEMMA FilesStep == SkillInv /\ [SkillNext]_skillVars => [Files!Next]_(Files!vars)
<1>. SUFFICES ASSUME SkillInv, [SkillNext]_skillVars PROVE [Files!Next]_(Files!vars)
  OBVIOUS
<1>. USE DEF SkillInv
<1>1. CASE StartSkills
  <2>1. Files!Usable(skills)
    BY <1>1, UsableIsValid DEF StartSkills
  <2>2. [p \in DOMAIN skills |-> p] = Files!IndexOf(DOMAIN skills)
    BY DEF Files!IndexOf, SkillStates
  <2>3. Files!Start
    BY <1>1, <2>1, <2>2 DEF StartSkills, Files!Start
  <2>. QED  BY <2>3 DEF Files!Next
<1>2. CASE RefuseSkillInput
  BY <1>2 DEF RefuseSkillInput, Files!RefuseInput, Files!Next
<1>3. CASE FinishSkills
  BY <1>3 DEF FinishSkills, Files!Finish, Files!Next
<1>4. CASE AbandonSkills
  BY <1>4 DEF AbandonSkills, Files!Abandon, Files!Next
<1>5. ASSUME NEW o \in SkillOperation, ApplySkill(o) PROVE Files!Next
  <2>1. o \in Files!Operation /\ o.path \in Packages
    BY DEF SkillOperation, Files!Operation
  <2>2. skillsWorking' = Files!workingAfter(o)
    BY <1>5, <2>1 DEF ApplySkill, skillsAfter, Files!workingAfter, Files!Set, Files!Without
  <2>3. [p \in DOMAIN skillsWorking' |-> p] = Files!indexAfter(o)
    BY <1>5, <2>1 DEF ApplySkill, skillsAfter, SkillAllowed, AddSkillAllowed, SkillMatches, Files!indexAfter,
                      Files!Set, Files!Without
  <2>4. Files!Cardinality(skillsDone) = Cardinality(skillsDone)
    BY DEF Files!Cardinality, Cardinality
  <2>5. Files!Apply(o)
    BY <1>5, <2>1, <2>2, <2>3, <2>4, AllowsTheSame DEF ApplySkill, Files!Apply
  <2>. QED  BY <2>1, <2>5 DEF Files!Next
<1>6. ASSUME NEW o \in SkillOperation, RefuseSkill(o) PROVE Files!Next
  <2>1. o \in Files!Operation
    BY DEF SkillOperation, Files!Operation
  <2>2. Files!Refuse(o)
    BY <1>6, AllowsTheSame DEF RefuseSkill, Files!Refuse
  <2>. QED  BY <2>1, <2>2 DEF Files!Next
<1>7. CASE UNCHANGED skillVars
  BY <1>7 DEF skillVars, Files!vars
<1>. QED  BY <1>1, <1>2, <1>3, <1>4, <1>5, <1>6, <1>7 DEF SkillNext

----------------------------------------------------------------------------
\* A delta of skill operations is a delta of file operations: whatever the packages and
\* descriptors, the loop without index and folding takes the same steps.
THEOREM SkillsImplementFiles == SkillSpec => ImplementsFileOperations
<1>1. SkillSpec => []SkillInv
  BY SkillInitInv, SkillStepInv, PTL DEF SkillSpec
<1>. QED  BY <1>1, FilesInit, FilesStep, PTL DEF SkillSpec, ImplementsFileOperations
=============================================================================
