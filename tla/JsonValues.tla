----------------------------- MODULE JsonValues -----------------------------
(***************************************************************************)
(* One operation at a JSON pointer: applyJSONOperation of                  *)
(* internal/operations/operations.go and the functions it calls.           *)
(*                                                                         *)
(* A value is a scalar, an object (a function from names) or an array (a   *)
(* sequence).  Tokens are names; Numeral gives the index a token denotes   *)
(* and is undefined for "-", "01" and everything else existingArrayIndex   *)
(* refuses as non-canonical.                                               *)
(*                                                                         *)
(* The recursion of the code goes down to the parent of the target and     *)
(* rebuilds every container on its way back.  Here these are two functions *)
(* on the length of the way, reached and updated.                          *)
(***************************************************************************)
EXTENDS Integers, Sequences

CONSTANTS
    Dash, Numeral,   \* "-"; the index of each canonical numeral
    Values,          \* what the parser makes of documents and operations, and the parts of it
    NewValues,       \* the values operations carry
    Paths,           \* the pointers of operations
    Places           \* the pointers at which documents are compared

Scalar(s) == [kind |-> "scalar", value |-> s]
Object(f) == [kind |-> "object", members |-> f]
Array(q) == [kind |-> "array", items |-> q]
Failure == [kind |-> "failure"]

Ops == {"add", "replace", "remove"}

\* The values a value is made of.
Parts(v) ==
    {v.members[t] : t \in IF v.kind = "object" THEN DOMAIN v.members ELSE {}}
    \cup {v.items[i] : i \in IF v.kind = "array" THEN 1..Len(v.items) ELSE {}}

ASSUME NumeralAssumption ==
    /\ Dash \notin DOMAIN Numeral
    /\ \A t \in DOMAIN Numeral : Numeral[t] \in Nat
    /\ \A t, u \in DOMAIN Numeral : Numeral[t] = Numeral[u] => t = u
ASSUME ValueAssumption ==
    /\ NewValues \subseteq Values
    /\ \A v \in Values : v.kind \in {"scalar", "object", "array"} /\ Parts(v) \subseteq Values
    /\ \A v \in Values : v.kind = "array" => v.items \in Seq(Values)
ASSUME PathAssumption ==
    /\ << >> \notin Paths
    /\ \A p \in Paths \cup Places : p \in Seq({p[i] : i \in DOMAIN p})

----------------------------------------------------------------------------
\* Mutant: the index one past the end is an existing one.
existingArrayIndexOrEnd(t, length) == t \in DOMAIN Numeral /\ Numeral[t] <= length

existingArrayIndex(t, length) == t \in DOMAIN Numeral /\ Numeral[t] < length
position(t) == Numeral[t] + 1     \* sequences start at 1

putMember(f, t, v) == [x \in DOMAIN f \cup {t} |-> IF x = t THEN v ELSE f[x]]
dropMember(f, t) == [x \in DOMAIN f \ {t} |-> f[x]]
dropItem(q, i) == [j \in 1..(Len(q) - 1) |-> IF j < i THEN q[j] ELSE q[j + 1]]

applyToObject(f, t, op, v) ==
    IF (op = "add") = (t \in DOMAIN f) THEN Failure
    ELSE Object(IF op = "remove" THEN dropMember(f, t) ELSE putMember(f, t, v))

\* Mutant: the tail of the array is shifted by one too few.
applyToArrayKeepingLast(q, t, op, v) ==
    IF op = "add" THEN IF t = Dash THEN Array(Append(q, v)) ELSE Failure
    ELSE IF ~existingArrayIndex(t, Len(q)) THEN Failure
    ELSE IF op = "replace" THEN Array([q EXCEPT ![position(t)] = v])
    ELSE Array(SubSeq(q, 1, Len(q) - 1))

applyToArray(q, t, op, v) ==
    IF op = "add" THEN IF t = Dash THEN Array(Append(q, v)) ELSE Failure
    ELSE IF ~existingArrayIndex(t, Len(q)) THEN Failure
    ELSE IF op = "replace" THEN Array([q EXCEPT ![position(t)] = v])
    ELSE Array(dropItem(q, position(t)))

applyJSONLeaf(node, t, op, v) ==
    CASE node.kind = "object" -> applyToObject(node.members, t, op, v)
      [] node.kind = "array" -> applyToArray(node.items, t, op, v)
      [] OTHER -> Failure

\* The child a token leads to on the way down, and the container with another child there.
childAt(node, t) ==
    CASE node.kind = "object" /\ t \in DOMAIN node.members -> node.members[t]
      [] node.kind = "array" /\ existingArrayIndex(t, Len(node.items)) -> node.items[position(t)]
      [] OTHER -> Failure

withChild(node, t, child) ==
    IF node.kind = "object" THEN Object(putMember(node.members, t, child))
    ELSE Array([node.items EXCEPT ![position(t)] = child])

\* The nodes on the way from a node to the parent of the target.
descend(node, path) ==
    LET reached[i \in 0..(Len(path) - 1)] ==
            IF i = 0 THEN node ELSE childAt(reached[i - 1], path[i])
    IN reached

\* What the calls for the last token, the last two tokens, ... return.
rebuild(node, path, op, v) ==
    LET n == Len(path)
        updated[i \in 1..n] ==
            IF i = 1 THEN applyJSONLeaf(descend(node, path)[n - 1], path[n], op, v)
            ELSE IF updated[i - 1] = Failure THEN Failure
            ELSE withChild(descend(node, path)[n - i], path[n - i + 1], updated[i - 1])
    IN updated

applyJSONOperation(node, path, op, v) == rebuild(node, path, op, v)[Len(path)]

----------------------------------------------------------------------------
(***************************************************************************)
(* The reference: what stands where.  It does not say how an operation     *)
(* gets there, and knows no failures: where nothing stands the set is      *)
(* empty.                                                                  *)
(***************************************************************************)
\* What stands one token below a value.
Below(v, t) ==
    {v.members[x] : x \in IF v.kind = "object" THEN DOMAIN v.members \cap {t} ELSE {}}
    \cup {v.items[i] : i \in IF v.kind = "array" /\ t \in DOMAIN Numeral
                             THEN (1..Len(v.items)) \cap {position(t)} ELSE {}}

\* What stands after each token of a pointer, and at its end.
Along(v, path) ==
    LET level[i \in 0..Len(path)] ==
            IF i = 0 THEN {v} ELSE UNION {Below(x, path[i]) : x \in level[i - 1]}
    IN level
Standing(v, path) == Along(v, path)[Len(path)]

\* What is seen of it: a scalar's value, or the kind of a container.
Seen(v) == IF v.kind = "scalar" THEN v.value ELSE v.kind
Peek(v, path) == {Seen(x) : x \in Standing(v, path)}

parentOf(path) == SubSeq(path, 1, Len(path) - 1)
lastOf(path) == path[Len(path)]

Legal(d, op, path) ==
    LET t == lastOf(path)
    IN \E x \in Standing(d, parentOf(path)) :
          \/ x.kind = "object" /\ ((op = "add") <=> (Below(x, t) = {}))
          \/ x.kind = "array" /\ (IF op = "add" THEN t = Dash ELSE Below(x, t) # {})

\* What must stand below the parent x afterwards, at token u.
Replaced(x, op, t, v, u) ==
    LET index == IF u \in DOMAIN Numeral THEN Numeral[u] ELSE -1
    IN CASE x.kind = "array" /\ op = "add" -> IF index = Len(x.items) THEN {v} ELSE Below(x, u)
         [] x.kind = "array" /\ op = "remove" ->
               IF index < Numeral[t] THEN Below(x, u)
               ELSE {x.items[i] : i \in (1..Len(x.items)) \cap {index + 2}}
         [] OTHER -> IF u # t THEN Below(x, u) ELSE IF op = "remove" THEN {} ELSE {v}

\* What must be seen at q afterwards.
Expected(d, op, path, v, q) ==
    LET n == Len(path)
        inParent == Len(q) >= n /\ SubSeq(q, 1, n - 1) = parentOf(path)
    IN IF ~inParent THEN Peek(d, q)
       ELSE UNION {UNION {Peek(y, SubSeq(q, n + 1, Len(q))) :
                             y \in Replaced(x, op, lastOf(path), v, q[n])} :
                      x \in Standing(d, parentOf(path))}
=============================================================================
