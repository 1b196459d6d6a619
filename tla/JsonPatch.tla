----------------------------- MODULE JsonPatch ------------------------------
(***************************************************************************)
(* ApplyJSONPatch of internal/operations/operations.go: add, replace and   *)
(* remove at a JSON pointer, on a working copy that is cloned (and its     *)
(* depth and size checked) after each operation.                           *)
(***************************************************************************)
EXTENDS JsonValues

CONSTANT Clones(_)    \* what cloneJSON accepts (JsonLimits)

VARIABLES document, patchStatus

patchVars == <<document, patchStatus>>

PatchInit == document \in Values /\ patchStatus = "ready"

BeginPatch ==
    /\ patchStatus = "ready"
    /\ patchStatus' = IF document.kind = "object" /\ Clones(document)
                      THEN "running" ELSE "failed"
    /\ UNCHANGED document

ApplyOperation(op, path, v) ==
    LET result == applyJSONOperation(document, path, op, v)
    IN /\ patchStatus = "running"
       /\ \/ /\ result # Failure /\ Clones(result)
             /\ document' = result
             /\ UNCHANGED patchStatus
          \/ /\ result = Failure \/ ~Clones(result)
             /\ patchStatus' = "failed"
             /\ UNCHANGED document

\* The profile, the target or the length of the patch is refused, or parsePointer or
\* patchOperationValue refuses an operation.
RefusePatch ==
    /\ patchStatus \in {"ready", "running"}
    /\ patchStatus' = "failed"
    /\ UNCHANGED document

\* The operations are all applied: the working copy is the result.
FinishPatch == patchStatus = "running" /\ patchStatus' = "patched" /\ UNCHANGED document

PatchNext ==
    \/ BeginPatch \/ RefusePatch \/ FinishPatch
    \/ \E op \in Ops, path \in Paths, v \in NewValues : ApplyOperation(op, path, v)

PatchSpec == PatchInit /\ [][PatchNext]_patchVars

----------------------------------------------------------------------------
\* An operation applies exactly when its target's parent is a container and the target
\* is there, or for an add is not: no index past the end, no second name, no append
\* anywhere but at "-".
AppliesExactlyWhenLegal ==
    \A op \in Ops, path \in Paths, v \in NewValues :
        (applyJSONOperation(document, path, op, v) # Failure) <=> Legal(document, op, path)

\* A patch changes the place it names and nothing else, whichever operation made the step:
\* what stands at every other pointer is as before, except that the items after a removed
\* one move up.
ChangesOnlyTheTarget ==
    [][ \A op \in Ops, path \in Paths, v \in NewValues :
          document' = applyJSONOperation(document, path, op, v)
          => \A q \in Places : Peek(document', q) = Expected(document, op, path, v, q)
      ]_patchVars
=============================================================================
