---------------------------- MODULE MCStatusHead ----------------------------
(***************************************************************************)
(* StatusHead, and an assumption that checks the tree alone, on all words  *)
(* of up to seven leaves.                                                  *)
(***************************************************************************)
EXTENDS StatusHead, TLC

CONSTANTS current, withdrawn, q1, q2

MCSymmetry == Permutations(Operations)

Leaves == {status_leaf_digest(1, e, [sequence |-> 1, status |-> current]) : e \in {1, 2}}
Words == UNION {[1..n -> Leaves] : n \in 1..7}
TreeProof(v, w) ==
    verify_consistency(Len(v), Len(w), merkle_root[v], merkle_root[w],
                       consistency_proof(w, Len(v)))
ASSUME TreeIsSound ==
    \A w \in Words :
        /\ \A v \in Words : Len(v) <= Len(w) => (TreeProof(v, w) <=> IsPrefix(v, w))
        /\ \A i \in 1..Len(w), leaf \in Leaves :
              verify_inclusion(leaf, i - 1, Len(w), inclusion_proof[w][i - 1], merkle_root[w])
                  <=> w[i] = leaf
=============================================================================
