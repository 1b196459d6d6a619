--------------------------- MODULE FileOperations ---------------------------
(***************************************************************************)
(* ApplyFileOperations of internal/operations/operations.go, operation by  *)
(* operation: a delta of add/replace/remove on a tree of regular files,    *)
(* evaluated on a copy and returned only when every operation succeeded.   *)
(*                                                                         *)
(* A path is an opaque value; what the code computes from its characters   *)
(* is given by constants: whether it is portable, its NFC case-folded      *)
(* form, and which folded path lies below which.  A file record (content   *)
(* descriptor and mode) is an opaque value with a digest; BadRecord is one *)
(* whose descriptor or mode is refused, NoRecord the absence of both.      *)
(*                                                                         *)
(* The loop keeps three things in step: the working tree, the index from   *)
(* folded to actual path, and the folded targets already seen.  The caller *)
(* owns tree, which takes the result of a whole delta or stays as it was.  *)
(***************************************************************************)
EXTENDS Integers, FiniteSets

CONSTANTS
    Paths, Portable,   \* all paths; those validatePortablePath accepts
    Folded, Fold,      \* case-folded forms, and the form of each path
    Below,             \* the pairs <<f, g>> where folded path f lies under g
    Records, BadRecord, NoRecord,
    Digests, NoDigest, DigestOf,
    MaxOperations      \* bound: operations in one delta (10 000 in the code)

ASSUME PathAssumption ==
    /\ Portable \subseteq Paths
    /\ Fold \in [Paths -> Folded]
    /\ Below \subseteq Folded \X Folded
    /\ \A f \in Folded : <<f, f>> \notin Below
ASSUME RecordAssumption ==
    /\ DigestOf \in [Records -> Digests]
    /\ BadRecord \notin Records /\ NoRecord \notin Records /\ BadRecord # NoRecord
    /\ NoDigest \notin Digests
ASSUME BoundAssumption == MaxOperations \in Nat

VARIABLES
    tree,      \* the caller's files: path -> record
    working,   \* the copy the loop changes
    index,     \* folded path -> path, for every file of the working copy
    seen,      \* folded targets of the operations done so far
    done,      \* ghost: the operations done so far
    status     \* "ready", "running", "error"

vars == <<tree, working, index, seen, done, status>>

Operation ==
    [op : {"add", "replace", "remove", "unsupported"}, path : Paths,
     kind : {"absent", "match"}, digest : Digests \cup {NoDigest},
     record : Records \cup {BadRecord, NoRecord}]

Set(f, x, v) == [y \in DOMAIN f \cup {x} |-> IF y = x THEN v ELSE f[y]]
Without(f, x) == [y \in DOMAIN f \ {x} |-> f[y]]

----------------------------------------------------------------------------
(***************************************************************************)
(* filePathIndex: a tree is fit to work on when every path is portable, no *)
(* two fold to one path and no file lies below another.                    *)
(***************************************************************************)
Related(f, g) == <<f, g>> \in Below \/ <<g, f>> \in Below

Distinct(files) == \A p, q \in files : Fold[p] = Fold[q] => p = q
NoAncestorConflict(files) == \A p, q \in files : ~Related(Fold[p], Fold[q])
FitTree(files) == files \subseteq Portable /\ Distinct(files) /\ NoAncestorConflict(files)

IndexOf(files) ==
    [f \in {Fold[p] : p \in files} |-> CHOOSE p \in files : Fold[p] = f]

\* fileTreeConflict
Conflicts(f) == \E g \in DOMAIN index : g # f /\ Related(f, g)

\* The target's record in the working copy is the one the operation names.
Matches(o) ==
    /\ o.path \in DOMAIN working
    /\ o.kind = "match"
    /\ o.digest = DigestOf[working[o.path]]

Collides(o) == Fold[o.path] \in DOMAIN index /\ index[Fold[o.path]] # o.path

\* Mutant: the operation's actual path, not its folded form, must be new.
AdmissibleByPath(o) ==
    /\ o.path \in Portable
    /\ o.path \notin {d.path : d \in done}
    /\ ~Collides(o)

\* The checks made before the operation is looked at.
Admissible(o) ==
    /\ o.path \in Portable
    /\ Fold[o.path] \notin seen
    /\ ~Collides(o)

\* Mutant: the new path is looked up in the tree but not in the folded tree.
AddAllowedInTree(o) ==
    /\ o.kind = "absent" /\ o.digest = NoDigest
    /\ o.path \notin DOMAIN working /\ Fold[o.path] \notin DOMAIN index
    /\ o.record \in Records

AddAllowed(o) ==
    /\ o.kind = "absent" /\ o.digest = NoDigest
    /\ o.path \notin DOMAIN working /\ Fold[o.path] \notin DOMAIN index
    /\ o.record \in Records
    /\ ~Conflicts(Fold[o.path])

Allowed(o) ==
    /\ Admissible(o)
    /\ \/ o.op = "add" /\ AddAllowed(o)
       \/ o.op = "replace" /\ Matches(o) /\ o.record \in Records
       \/ o.op = "remove" /\ Matches(o) /\ o.record = NoRecord

----------------------------------------------------------------------------
Trees == UNION {[D -> Records] : D \in SUBSET Paths}
InputTrees == UNION {[D -> Records \cup {BadRecord}] : D \in SUBSET Paths}
Empty == [p \in {} |-> NoRecord]

\* filePathIndex accepts the tree: its paths fit and every record is valid.
Usable(t) == FitTree(DOMAIN t) /\ t \in Trees

Init ==
    /\ tree \in InputTrees
    /\ working = Empty /\ index = Empty
    /\ seen = {} /\ done = {}
    /\ status = "ready"

\* Clone the input, validate and index it.
Start ==
    /\ status = "ready"
    /\ Usable(tree)
    /\ working' = tree
    /\ index' = IndexOf(DOMAIN tree)
    /\ seen' = {} /\ done' = {}
    /\ status' = "running"
    /\ UNCHANGED tree

\* The contract or the length of the set is refused, or filePathIndex refuses the tree.
RefuseInput ==
    /\ status = "ready"
    /\ status' = "error"
    /\ UNCHANGED <<tree, working, index, seen, done>>

workingAfter(o) ==
    IF o.op = "remove" THEN Without(working, o.path) ELSE Set(working, o.path, o.record)

\* Mutant: the index keeps the name of a removed file.
indexAfterAddOnly(o) ==
    IF o.op = "add" THEN Set(index, Fold[o.path], o.path) ELSE index

indexAfter(o) ==
    IF o.op = "remove" THEN Without(index, Fold[o.path])
    ELSE IF o.op = "add" THEN Set(index, Fold[o.path], o.path) ELSE index

Apply(o) ==
    /\ status = "running"
    /\ Cardinality(done) < MaxOperations
    /\ Allowed(o)
    /\ seen' = seen \cup {Fold[o.path]}
    /\ done' = done \cup {o}
    /\ working' = workingAfter(o)
    /\ index' = indexAfter(o)
    /\ UNCHANGED <<tree, status>>

\* Any failing check abandons the whole delta.
Refuse(o) ==
    /\ status = "running"
    /\ ~Allowed(o)
    /\ status' = "error"
    /\ UNCHANGED <<tree, working, index, seen, done>>

\* Mutant: the loop works on the caller's map instead of a clone of it.
AbandonKeepingWork == status = "error" /\ status' = "ready" /\ tree' = working
                      /\ UNCHANGED <<working, index, seen, done>>

\* The caller gets nil and an error, and goes on with the tree it had.
Abandon == status = "error" /\ status' = "ready"
           /\ UNCHANGED <<tree, working, index, seen, done>>

\* Every operation succeeded: the caller takes the result.
Finish ==
    /\ status = "running"
    /\ tree' = working
    /\ status' = "ready"
    /\ UNCHANGED <<working, index, seen, done>>

Next ==
    \/ Start \/ RefuseInput \/ Finish \/ Abandon
    \/ \E o \in Operation : Apply(o) \/ Refuse(o)

Spec == Init /\ [][Next]_vars

----------------------------------------------------------------------------
\* The shape of the state.
TypeOK ==
    /\ tree \in InputTrees /\ working \in Trees
    /\ DOMAIN index \subseteq Folded /\ \A f \in DOMAIN index : index[f] \in Paths
    /\ seen \subseteq Folded /\ done \subseteq Operation
    /\ status \in {"ready", "running", "error"}

\* The incrementally maintained index is exactly the index of the working copy: what a
\* collision check looks up is never stale, whatever was added and removed before.
IndexIsCurrent ==
    /\ DOMAIN index = {Fold[p] : p \in DOMAIN working}
    /\ \A p \in DOMAIN working : index[Fold[p]] = p

\* No sequence of legal operations reaches an illegal tree: no two files whose names a
\* case-insensitive or normalising file system identifies, and no file where another
\* needs a directory.
TreesStayFit == FitTree(DOMAIN working)

\* A delta means the same whatever the order of its operations: each folded path is
\* changed at most once, every match precondition was about the caller's tree and not
\* about an earlier operation's result, and everything not named is left alone.
DeltaIsAboutTheInput ==
    status = "running" =>
        /\ \A o, q \in done : Fold[o.path] = Fold[q.path] => o = q
        /\ \A o \in done : o.op # "add" =>
              o.path \in DOMAIN tree /\ o.digest = DigestOf[tree[o.path]]
        /\ \A p \in Paths :
              (\A o \in done : o.path # p) =>
                 /\ p \in DOMAIN working <=> p \in DOMAIN tree
                 /\ p \in DOMAIN tree => working[p] = tree[p]
        /\ \A o \in done :
              IF o.op = "remove" THEN o.path \notin DOMAIN working
              ELSE o.path \in DOMAIN working /\ working[o.path] = o.record

\* The effect of a set of operations on a tree, in no order.
removes(D, p) == \E o \in D : o.path = p /\ o.op = "remove"
writes(D, p) == \E o \in D : o.path = p /\ o.op # "remove"
ResultOf(t, D) ==
    [p \in {q \in Paths : writes(D, q) \/ (q \in DOMAIN t /\ ~removes(D, q))} |->
        IF writes(D, p) THEN (CHOOSE o \in D : o.path = p).record ELSE t[p]]

\* "ApplyFileOperations evaluates one nested binding delta atomically": when one
\* operation fails after others succeeded the caller keeps the tree it had; otherwise
\* its new tree is fit and is the effect of the whole delta, taken as a set.
DeltaIsAtomic ==
    [][ tree' # tree => /\ status = "running"
                        /\ tree' = ResultOf(tree, done)
                        /\ FitTree(DOMAIN tree') ]_vars
=============================================================================
