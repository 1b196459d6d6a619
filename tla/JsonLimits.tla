----------------------------- MODULE JsonLimits -----------------------------
(***************************************************************************)
(* The limits of the canonical parser, which cloneJSON of                  *)
(* internal/operations meets after each operation.                         *)
(***************************************************************************)
EXTENDS JsonValues, Functions

CONSTANTS
    MaxDepth,     \* depth cloneJSON accepts, the root being at one (64 in the code)
    MaxNodes      \* nodes cloneJSON accepts (100 000 in the code)

Children(v) ==
    CASE v.kind = "object" -> v.members [] v.kind = "array" -> v.items [] OTHER -> << >>

\* budget: every value counts, and so does every member name.
RECURSIVE nodes(_)
nodes(v) ==
    LET below == Children(v)
        each == IF v.kind = "object" THEN 2 ELSE 1
    IN SumFunction([i \in DOMAIN below |-> nodes(below[i]) + each - 1]) + 1

RECURSIVE shallow(_, _)
shallow(v, depth) ==
    LET below == Children(v)
    IN depth <= MaxDepth /\ \A i \in DOMAIN below : shallow(below[i], depth + 1)

\* cloneJSON: within the limits of the canonical parser.
clones(v) == shallow(v, 1) /\ nodes(v) <= MaxNodes
=============================================================================
