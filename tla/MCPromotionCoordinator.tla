----------------------- MODULE MCPromotionCoordinator -----------------------
(***************************************************************************)
(* What an update must pass before it is promoted: its classification (the *)
(* coordinator) and the evidence of its canary (the verifier).  The two    *)
(* share no state, so a behaviour runs one of them (side).                 *)
(*                                                                         *)
(* One target, two promoters racing each other, an unclassified caller and *)
(* an HTTP client.  The proposals are the compatible update and each       *)
(* update with exactly one fact against it.  With one digest, every write  *)
(* brings the previous digest back, so a stale verdict can only be told by *)
(* its revision.                                                           *)
(*                                                                         *)
(* Two plans, one certified to go without probes, two states of the facts, *)
(* three signers - the host, the consumer, and the consumer under another  *)
(* policy - five documents, and one thing that goes wrong.                 *)
(***************************************************************************)
EXTENDS PromotionCoordinator, CanaryVerifier, TLC

CONSTANTS a, dup, da, p1, p2, u1, h1, n1, n2, f1, f2

MCDigestOf == [v \in Payloads |-> IF v = a THEN da ELSE NoDigest]

Compatible ==
    [rawSecretPresent |-> FALSE, securityAuthorityChanged |-> FALSE,
     skillDigestsUnchanged |-> TRUE, trustPolicyUnchanged |-> TRUE,
     consumerPolicyVerdictOK |-> TRUE, rebases |-> TRUE]

MCProposals == {Compatible} \cup {[Compatible EXCEPT ![f] = ~@] : f \in DOMAIN Compatible}
MCCallers == {p1, p2, u1, h1}

host == [identity |-> "host", policy |-> "t1"]
consumer == [identity |-> "consumer", policy |-> "t1"]
MCSigners == {host, consumer, [consumer EXCEPT !.policy = "t2"]}
MCExpectations == {[role \in Roles |-> IF role = "host_reconciler" THEN host ELSE consumer]}
MCSymmetry == Permutations(Promoters) \cup Permutations({f1, f2})

----------------------------------------------------------------------------
VARIABLE side

MCInit == Init /\ CanaryInit /\ side \in {"coordinator", "canary"}

MCNext ==
    /\ UNCHANGED side
    /\ \/ side = "coordinator" /\ Next /\ UNCHANGED canaryVars
       \/ side = "canary" /\ CanaryNext /\ UNCHANGED vars

MCSpec == MCInit /\ [][MCNext]_<<side, vars, canaryVars>>
=============================================================================
