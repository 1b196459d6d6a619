----------------------------- MODULE JsonRebase -----------------------------
(***************************************************************************)
(* RebaseJSONPatch of internal/operations/source_resolution.go: an         *)
(* accepted delta is carried from the previous to the proposed source.     *)
(* The loop applies every operation to a working copy of each, and before  *)
(* that compares the two copies at the operation's top-level member, so a  *)
(* comparison sees what earlier operations did to both.                    *)
(*                                                                         *)
(* A document is a function from its possible top-level members to values, *)
(* NoValue for a member it does not have.  What an operation makes of the  *)
(* member it starts at is Effect (applyJSONOperation below the root; see   *)
(* JsonPatch); what cloneJSON accepts as a document is Fits.               *)
(***************************************************************************)
EXTENDS Integers, FiniteSets

CONSTANTS
    Members, NoValue,
    Documents,          \* the sources a caller can present
    Operations,
    MemberOf,           \* the first token of each operation's pointer
    BadPointer,         \* operations parsePointer refuses
    BadValue,           \* operations patchOperationValue refuses
    Effect(_, _),       \* operation, value of its member -> new value or Error
    Error,
    Fits(_),            \* canonical resource limits
    MaxOperations       \* bound: operations of one patch (10 000 in the code)

ASSUME DocumentAssumption ==
    /\ \A d \in Documents : d = [m \in Members |-> d[m]]
    /\ \A d \in Documents : \A m \in Members : d[m] # Error
ASSUME OperationAssumption ==
    /\ MemberOf \in [Operations -> Members]
    /\ BadPointer \subseteq Operations /\ BadValue \subseteq Operations
ASSUME BoundAssumption == MaxOperations \in Nat

VARIABLES
    supported,                           \* profile and target are known ones
    previous, proposed,                  \* the sources; never changed
    previousWorking, proposedWorking,    \* the copies the loop changes
    touched,                             \* ghost: top-level members operated on
    at,                                  \* ghost: member of the operation at hand
    count, status

vars == <<supported, previous, proposed, previousWorking, proposedWorking,
          touched, at, count, status>>
inputs == <<supported, previous, proposed>>
copies == <<previousWorking, proposedWorking>>

Failures == {"refused", "invalid_operation", "conflict", "previous_inapplicable",
             "previous_limits", "proposed_inapplicable", "proposed_limits"}

----------------------------------------------------------------------------
\* Mutant: only the presence of the member is compared.
stableRebasePathByPresence(o) ==
    previousWorking[MemberOf[o]] = NoValue <=> proposedWorking[MemberOf[o]] = NoValue

\* stableRebasePath: the whole top-level member is the same on both sides.
stableRebasePath(o) == previousWorking[MemberOf[o]] = proposedWorking[MemberOf[o]]

applies(o, d) == Effect(o, d[MemberOf[o]]) # Error

after(o, d) == [m \in Members |-> IF m = MemberOf[o] THEN Effect(o, d[m]) ELSE d[m]]

\* Mutant: the copy of the previous source stays behind.
afterOnPreviousForgotten(o) == previousWorking

afterOnPrevious(o) == after(o, previousWorking)

Init ==
    /\ supported \in BOOLEAN
    /\ previous \in Documents /\ proposed \in Documents
    /\ previousWorking = previous /\ proposedWorking = proposed
    /\ touched = {} /\ at = NoValue
    /\ count = 0
    /\ status = "ready"

Begin ==
    /\ status = "ready"
    /\ status' = IF supported /\ Fits(previous) /\ Fits(proposed)
                 THEN "running" ELSE "refused"
    /\ UNCHANGED <<inputs, copies, touched, at, count>>

\* Mutant: the limits are checked on one of the two copies only.
VerdictWithoutProposedLimits(o) ==
    IF o \in BadPointer THEN "invalid_operation"
    ELSE IF ~stableRebasePath(o) THEN "conflict"
    ELSE IF o \in BadValue THEN "invalid_operation"
    ELSE IF ~applies(o, previousWorking) THEN "previous_inapplicable"
    ELSE IF ~Fits(afterOnPrevious(o)) THEN "previous_limits"
    ELSE IF ~applies(o, proposedWorking) THEN "proposed_inapplicable"
    ELSE "applied"

\* One operation's verdict: the first check that fails.
Verdict(o) ==
    IF o \in BadPointer THEN "invalid_operation"
    ELSE IF ~stableRebasePath(o) THEN "conflict"
    ELSE IF o \in BadValue THEN "invalid_operation"
    ELSE IF ~applies(o, previousWorking) THEN "previous_inapplicable"
    ELSE IF ~Fits(afterOnPrevious(o)) THEN "previous_limits"
    ELSE IF ~applies(o, proposedWorking) THEN "proposed_inapplicable"
    ELSE IF ~Fits(after(o, proposedWorking)) THEN "proposed_limits"
    ELSE "applied"

Operate(o) ==
    /\ status = "running" /\ count < MaxOperations
    /\ Verdict(o) = "applied"
    /\ previousWorking' = afterOnPrevious(o)
    /\ proposedWorking' = after(o, proposedWorking)
    /\ touched' = touched \cup {MemberOf[o]}
    /\ at' = MemberOf[o]
    /\ count' = count + 1
    /\ UNCHANGED <<inputs, status>>

Fail(o) ==
    /\ status = "running" /\ count < MaxOperations
    /\ Verdict(o) # "applied"
    /\ status' = Verdict(o)
    /\ at' = MemberOf[o]
    /\ UNCHANGED <<inputs, copies, touched, count>>

\* The patch ends; the working copy of the proposed source is the result.
Finish ==
    /\ status = "running"
    /\ status' = "rebased"
    /\ UNCHANGED <<inputs, copies, touched, at, count>>

Next == Begin \/ Finish \/ \E o \in Operations : Operate(o) \/ Fail(o)

Spec == Init /\ [][Next]_vars

----------------------------------------------------------------------------
Statuses == {"ready", "running", "rebased"} \cup Failures

WholeDocument(d) == d = [m \in Members |-> d[m]] /\ \A m \in Members : d[m] # Error

\* The shape of the state; a failed operation never leaves its error in a document.
TypeOK ==
    /\ WholeDocument(previousWorking) /\ WholeDocument(proposedWorking)
    /\ touched \subseteq Members /\ at \in Members \cup {NoValue}
    /\ count \in 0..MaxOperations /\ status \in Statuses

\* "A changed target, containing top-level subtree, parent, or array conflicts": the
\* comparison is made on working copies, and yet no earlier operation can hide a
\* difference the two sources started with.  Every member operated on was the same in
\* both before the first operation.
NoHiddenConflict ==
    \A m \in touched : previous[m] = proposed[m]

\* "Unrelated top-level changes may advance", and nothing else: the result is the
\* proposed source except where the delta worked, and there it is what the delta made
\* of the previous source.
OnlyTheDeltaIsAdded ==
    \A m \in Members :
        IF m \in touched THEN proposedWorking[m] = previousWorking[m]
        ELSE proposedWorking[m] = proposed[m] /\ previousWorking[m] = previous[m]

\* No false conflict: an update is reported as conflicting only if the two sources
\* differ at the operation's member, and an operation that applied to the previous
\* source never fails to apply to the proposed one.
ConflictsAreReal ==
    /\ status = "conflict" => previous[at] # proposed[at]
    /\ status # "proposed_inapplicable"
=============================================================================
