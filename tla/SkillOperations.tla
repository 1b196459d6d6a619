--------------------------- MODULE SkillOperations --------------------------
(***************************************************************************)
(* ApplySkillOperations of internal/operations/operations.go: a delta of   *)
(* add/replace/remove on the skill packages of a binding.  It is a loop of *)
(* its own beside ApplyFileOperations, without paths to fold and without   *)
(* an index; it makes the same promise, and that is what is checked here:  *)
(* it implements FileOperations with packages for paths, no two of which   *)
(* fold together or lie below one another.                                 *)
(***************************************************************************)
EXTENDS Integers, FiniteSets

CONSTANTS
    Packages, Identifiers,   \* all package ids; those identifierPattern matches
    Descriptors, BadDescriptor, NoDescriptor,
    SkillDigests, NoSkillDigest, SkillDigestOf,
    MaxSkillOperations       \* bound: operations in one delta (10 000 in the code)

VARIABLES
    skills,          \* the caller's packages: identifier -> descriptor
    skillsWorking,   \* the copy the loop changes
    skillsSeen,      \* targets of the operations done so far
    skillsDone,      \* ghost: the operations done so far
    skillsStatus     \* "ready", "running", "error"

skillVars == <<skills, skillsWorking, skillsSeen, skillsDone, skillsStatus>>

SkillOperation ==
    [op : {"add", "replace", "remove", "unsupported"}, path : Packages,
     kind : {"absent", "match"}, digest : SkillDigests \cup {NoSkillDigest},
     record : Descriptors \cup {BadDescriptor, NoDescriptor}]

SkillMatches(o) ==
    /\ o.path \in DOMAIN skillsWorking
    /\ o.kind = "match"
    /\ o.digest = SkillDigestOf[skillsWorking[o.path]]

AddSkillAllowed(o) ==
    /\ o.kind = "absent" /\ o.digest = NoSkillDigest
    /\ o.path \notin DOMAIN skillsWorking
    /\ o.record \in Descriptors

\* Mutant: a package may be the target of several operations.
SkillAllowedRepeatedly(o) ==
    /\ o.path \in Identifiers
    /\ \/ o.op = "add" /\ AddSkillAllowed(o)
       \/ o.op = "replace" /\ SkillMatches(o) /\ o.record \in Descriptors
       \/ o.op = "remove" /\ SkillMatches(o) /\ o.record = NoDescriptor

SkillAllowed(o) ==
    /\ o.path \in Identifiers /\ o.path \notin skillsSeen
    /\ \/ o.op = "add" /\ AddSkillAllowed(o)
       \/ o.op = "replace" /\ SkillMatches(o) /\ o.record \in Descriptors
       \/ o.op = "remove" /\ SkillMatches(o) /\ o.record = NoDescriptor

----------------------------------------------------------------------------
NoSkills == [p \in {} |-> NoDescriptor]

\* validateSkillState
ValidSkillState(s) == \A p \in DOMAIN s : p \in Identifiers /\ s[p] \in Descriptors

SkillInit ==
    /\ skills \in UNION {[D -> Descriptors \cup {BadDescriptor}] : D \in SUBSET Packages}
    /\ skillsWorking = NoSkills
    /\ skillsSeen = {} /\ skillsDone = {}
    /\ skillsStatus = "ready"

StartSkills ==
    /\ skillsStatus = "ready"
    /\ ValidSkillState(skills)
    /\ skillsWorking' = skills
    /\ skillsSeen' = {} /\ skillsDone' = {}
    /\ skillsStatus' = "running"
    /\ UNCHANGED skills

\* The contract or the length of the set is refused, or validateSkillState fails.
RefuseSkillInput ==
    /\ skillsStatus = "ready"
    /\ skillsStatus' = "error"
    /\ UNCHANGED <<skills, skillsWorking, skillsSeen, skillsDone>>

skillsAfter(o) ==
    LET left == DOMAIN skillsWorking \ {o.path}
    IN [p \in IF o.op = "remove" THEN left ELSE left \cup {o.path} |->
            IF p = o.path THEN o.record ELSE skillsWorking[p]]

ApplySkill(o) ==
    /\ skillsStatus = "running"
    /\ Cardinality(skillsDone) < MaxSkillOperations
    /\ SkillAllowed(o)
    /\ skillsSeen' = skillsSeen \cup {o.path}
    /\ skillsDone' = skillsDone \cup {o}
    /\ skillsWorking' = skillsAfter(o)
    /\ UNCHANGED <<skills, skillsStatus>>

RefuseSkill(o) ==
    /\ skillsStatus = "running"
    /\ ~SkillAllowed(o)
    /\ skillsStatus' = "error"
    /\ UNCHANGED <<skills, skillsWorking, skillsSeen, skillsDone>>

\* The caller gets nil and an error, and goes on with the packages it had.
AbandonSkills == skillsStatus = "error" /\ skillsStatus' = "ready"
                 /\ UNCHANGED <<skills, skillsWorking, skillsSeen, skillsDone>>

FinishSkills ==
    /\ skillsStatus = "running"
    /\ skills' = skillsWorking
    /\ skillsStatus' = "ready"
    /\ UNCHANGED <<skillsWorking, skillsSeen, skillsDone>>

SkillNext ==
    \/ StartSkills \/ RefuseSkillInput \/ FinishSkills \/ AbandonSkills
    \/ \E o \in SkillOperation : ApplySkill(o) \/ RefuseSkill(o)

SkillSpec == SkillInit /\ [][SkillNext]_skillVars

----------------------------------------------------------------------------
Files == INSTANCE FileOperations WITH
    Paths <- Packages, Portable <- Identifiers,
    Folded <- Packages, Fold <- [p \in Packages |-> p], Below <- {},
    Records <- Descriptors, BadRecord <- BadDescriptor, NoRecord <- NoDescriptor,
    Digests <- SkillDigests, NoDigest <- NoSkillDigest, DigestOf <- SkillDigestOf,
    MaxOperations <- MaxSkillOperations,
    tree <- skills, working <- skillsWorking, index <- [p \in DOMAIN skillsWorking |-> p],
    seen <- skillsSeen, done <- skillsDone, status <- skillsStatus

\* A delta of skill operations is what a delta of file operations is: without the index
\* and without folding, the loop accepts exactly the deltas that one would, and leaves
\* what that one would.
ImplementsFileOperations == Files!Init /\ [][Files!Next]_(Files!vars)
=============================================================================
