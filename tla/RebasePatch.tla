---------------------------- MODULE RebasePatch ----------------------------
(***************************************************************************)
(* RebaseJSONPatch beside ApplyJSONPatch: what JsonRebase leaves open,     *)
(* what an operation makes of the member it starts at and which documents  *)
(* fit, is here what applyJSONOperation and cloneJSON make of it, and the  *)
(* working copy of the proposed source is the document of a patch.         *)
(***************************************************************************)
EXTENDS JsonRebase, JsonPatch

\* A document of JsonRebase as a value.
AsObject(d) == Object([m \in {m \in DOMAIN d : d[m] \notin {NoValue, Error}} |-> d[m]])

\* What applyJSONOperation makes of the member o starts at, in an object that has no other.
EffectOf(o, v) ==
    LET result == applyJSONOperation(AsObject([m \in {MemberOf[o]} |-> v]),
                                     o.path, o.op, o.value)
    IN IF result = Failure THEN Error
       ELSE IF MemberOf[o] \in DOMAIN result.members THEN result.members[MemberOf[o]]
       ELSE NoValue

FitsAsObject(d) == Clones(AsObject(d))

ASSUME MarkAssumption == {NoValue.kind, Error.kind} \cap {"scalar", "object", "array"} = {}
ASSUME SourceAssumption == \A d \in Documents : AsObject(d) \in Values
ASSUME PointerAssumption ==
    \A o \in Operations \ BadPointer :
        /\ o.op \in Ops /\ o.path \in Paths /\ o.value \in NewValues
        /\ MemberOf[o] = o.path[1]

----------------------------------------------------------------------------
PatchStatus ==
    CASE status \in Failures -> "failed" [] status = "rebased" -> "patched" [] OTHER -> status

BothInit == Init /\ document = AsObject(proposedWorking) /\ patchStatus = PatchStatus
BothNext == Next /\ document' = AsObject(proposedWorking') /\ patchStatus' = PatchStatus'
BothSpec == BothInit /\ [][BothNext]_<<vars, patchVars>>

\* What a rebase does to the proposed source is what ApplyJSONPatch does to it with the
\* same delta: the same operations take effect in the same order, or the delta fails.
RebaseImplementsPatch == PatchSpec
=============================================================================
