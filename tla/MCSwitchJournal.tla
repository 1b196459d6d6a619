-------------------------- MODULE MCSwitchJournal --------------------------
(***************************************************************************)
(* Two targets; on the first, two attempts at one release under different  *)
(* authorizations and one at another release; on the second, one attempt.  *)
(***************************************************************************)
EXTENDS SwitchJournal

CONSTANTS t1, t2, rA, rB, b1, b2, a1, a2, a3, a4

MCTargetOf == [a \in Attempts |-> IF a = a4 THEN t2 ELSE t1]
MCIdentityOf ==
    [a \in Attempts |-> [release |-> IF a \in {a1, a2} THEN rA ELSE rB,
                         binding |-> IF a = a2 THEN b2 ELSE b1]]
=============================================================================
