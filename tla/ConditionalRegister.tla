------------------------ MODULE ConditionalRegister ------------------------
(***************************************************************************)
(* What the desired-state port promises its callers, without a handler, a  *)
(* network or a store: for each key a list of versions that only grows     *)
(* while the service lives, and for each request one verdict, reached in   *)
(* one indivisible step between the request and its answer.  A write is    *)
(* committed exactly when it names the version that is then current.       *)
(***************************************************************************)
EXTENDS Integers, Sequences

CONSTANTS Keys, Requests,
          Nothing         \* the state of a key that was never written

VARIABLES
    versions,   \* Keys -> the tags of the versions of this incarnation
    asked,      \* the requests made so far: what they name and want to store
    verdict     \* "open", "committed", "refused" or "rejected" per request made

vars == <<versions, asked, verdict>>

Current(k) == IF versions[k] = << >> THEN Nothing ELSE versions[k][Len(versions[k])]

Extend(f, x, v) == [y \in DOMAIN f \cup {x} |-> IF y = x THEN v ELSE f[y]]

Init ==
    /\ versions = [k \in Keys |-> << >>]
    /\ asked = [r \in {} |-> 0]
    /\ verdict = [r \in {} |-> 0]

\* A new request: its key, the version it names and the digest it wants stored.
Ask(r) ==
    /\ r \in DOMAIN asked' \ DOMAIN asked
    /\ asked' = Extend(asked, r, asked'[r])
    /\ verdict' = Extend(verdict, r, "open")
    /\ UNCHANGED versions

\* The write takes effect: the new version is numbered one past the current one.
Commit(r) ==
    /\ r \in DOMAIN asked /\ verdict[r] = "open"
    /\ asked[r].names = Current(asked[r].key)
    /\ versions' = [versions EXCEPT ![asked[r].key] =
                       Append(@, [revision |-> Len(@) + 1, digest |-> asked[r].digest])]
    /\ verdict' = [verdict EXCEPT ![r] = "committed"]
    /\ UNCHANGED asked

\* The request names something else than the current version.
Refuse(r) ==
    /\ r \in DOMAIN asked /\ verdict[r] = "open"
    /\ asked[r].names # Current(asked[r].key)
    /\ verdict' = [verdict EXCEPT ![r] = "refused"]
    /\ UNCHANGED <<versions, asked>>

\* The request has no meaning, or its document no digest.
Reject(r) ==
    /\ r \in DOMAIN asked /\ verdict[r] = "open"
    /\ verdict' = [verdict EXCEPT ![r] = "rejected"]
    /\ UNCHANGED <<versions, asked>>

\* The service loses its memory.
Forget ==
    /\ versions' = [k \in Keys |-> << >>]
    /\ UNCHANGED <<asked, verdict>>

Next ==
    \/ \E r \in Requests : Ask(r) \/ Commit(r) \/ Refuse(r) \/ Reject(r)
    \/ Forget

Spec == Init /\ [][Next]_vars
=============================================================================
