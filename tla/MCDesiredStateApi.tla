------------------------- MODULE MCDesiredStateApi -------------------------
(***************************************************************************)
(* A small instance of DesiredStateApi: one target, two clients whose      *)
(* documents have one digest, so that a digest can come back (ABA), and    *)
(* stray requests that cover every way parsePrecondition can answer.       *)
(***************************************************************************)
EXTENDS DesiredStateApi

CONSTANTS k1, a1, a2, b, dup, da, db, c1, c2

MCDigestOf == [v \in Payloads |->
                  IF v \in {a1, a2} THEN da ELSE IF v = b THEN db ELSE NoDigest]
MCKeyOf == [c \in Clients |-> k1]
MCBodyOf == [c \in Clients |-> IF c = c1 THEN a1 ELSE a2]

\* Absent, a guessed ETag, both headers, a wildcard, a weak tag, revision zero.
MCStrayHeaders ==
    {[ifNoneMatch |-> "*", ifMatch |-> Text("")],
     [ifNoneMatch |-> "", ifMatch |-> [revision |-> 1, digest |-> da]],
     [ifNoneMatch |-> "*", ifMatch |-> [revision |-> 1, digest |-> da]],
     [ifNoneMatch |-> "", ifMatch |-> Text("*")],
     [ifNoneMatch |-> "", ifMatch |-> Text("malformed")],
     [ifNoneMatch |-> "", ifMatch |-> [revision |-> 0, digest |-> da]]}
=============================================================================
