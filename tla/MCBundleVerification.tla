------------------------ MODULE MCBundleVerification ------------------------
(***************************************************************************)
(* Two verifications that write the same outputs, two keys with one nonce, *)
(* and two replay ledgers.  Archives: a bundle, the same with a damaged    *)
(* member, and one the policy revokes.  Evaluations: of the bundle, of the *)
(* bundle again with the scans of the revoked one, of the damaged one and  *)
(* of the revoked.                                                         *)
(***************************************************************************)
EXTENDS BundleVerification, TLC

CONSTANTS v1, v2, l1, l2, i1, i2

MCEvidenceIds == <<"determinism", "sbom", "vulnerability", "scan_completeness">>
Alike == Permutations({v1, v2}) \cup Permutations({i1, i2})  \* verifications, ids

MCKeys == {[id |-> i1, nonce |-> 1], [id |-> i2, nonce |-> 1]}

first == [manifest |-> 1, intact |-> TRUE]
damaged == [manifest |-> 1, intact |-> FALSE]
withdrawn == [manifest |-> 2, intact |-> TRUE]
MCArchives == {first, damaged, withdrawn}
MCRevoked == {withdrawn.manifest}

evaluation(a, at, scanned) == [archive |-> a, at |-> at, source |-> at, scanned |-> scanned]
MCEvaluations ==
    {evaluation(first, 1, first), evaluation(first, 2, withdrawn), evaluation(damaged, 1, damaged),
     evaluation(withdrawn, 1, withdrawn)}
=============================================================================
