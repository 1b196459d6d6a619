---------------------------- MODULE StatusMerkle ----------------------------
(***************************************************************************)
(* scripts/contracts/status_merkle.py: the tree over the leaves of a       *)
(* release-status log and its inclusion and consistency proofs.            *)
(*                                                                         *)
(* SHA-256 is collision free here: the digest of a node is the pair of its *)
(* children, and a leaf digest is what it is computed from.  The 0x00 and  *)
(* 0x01 prefixes tell the two apart, as their fields do here.              *)
(*                                                                         *)
(* The recursive functions of the code are recursive functions here, on    *)
(* the same arguments, and so is each loop.                                *)
(***************************************************************************)
EXTENDS Integers, Sequences

CONSTANT
    Statuses       \* current, withdrawn, revoked, end_of_support

status_leaf_digest(sequence, epoch, head) ==
    [sequence |-> sequence, epoch |-> epoch, head |-> head]
Leaf == [sequence : Nat, epoch : Nat, head : [sequence : Nat, status : Statuses]]

node_digest(left, right) == [left |-> left, right |-> right]

\* 1 << k
pow2[k \in Nat] == IF k = 0 THEN 1 ELSE 2 * pow2[k - 1]

\* 1 << ((size - 1).bit_length() - 1): the largest power of two below size.
_split(size) ==
    pow2[CHOOSE k \in 0..(size - 1) : pow2[k] <= size - 1 /\ size - 1 < pow2[k + 1]]

firstPart(leaves) == SubSeq(leaves, 1, _split(Len(leaves)))
secondPart(leaves) == SubSeq(leaves, _split(Len(leaves)) + 1, Len(leaves))

merkle_root[leaves \in Seq(Leaf)] ==
    CASE Len(leaves) = 0 -> "empty"
      [] Len(leaves) = 1 -> leaves[1]
      [] OTHER -> node_digest(merkle_root[firstPart(leaves)], merkle_root[secondPart(leaves)])

\* The siblings of a leaf (counted from 0), from the bottom to the top.
inclusion_proof[leaves \in Seq(Leaf)] ==
    [leaf_index \in 0..(Len(leaves) - 1) |->
        LET split == _split(Len(leaves))
        IN IF Len(leaves) = 1 THEN << >>
           ELSE IF leaf_index < split
           THEN Append(inclusion_proof[firstPart(leaves)][leaf_index],
                       merkle_root[secondPart(leaves)])
           ELSE Append(inclusion_proof[secondPart(leaves)][leaf_index - split],
                       merkle_root[firstPart(leaves)])]

\* The root that the first nodes of a path lead to from the leaf at an index of a tree of
\* some size, in a set that is empty when these nodes are too many or too few.
rebuild(leaf_digest, audit_path) ==
    LET root[nodes \in 0..Len(audit_path)] ==
            [size \in Nat |-> [index \in Nat |->
                IF size = 1 THEN IF nodes = 0 THEN {leaf_digest} ELSE {}
                ELSE IF nodes = 0 THEN {}
                ELSE LET split == _split(size)
                         sibling == audit_path[nodes]
                     IN IF index < split
                        THEN {node_digest(n, sibling) : n \in root[nodes - 1][split][index]}
                        ELSE {node_digest(sibling, n) :
                                 n \in root[nodes - 1][size - split][index - split]}]]
    IN root

verify_inclusion(leaf_digest, leaf_index, tree_size, audit_path, expected_root) ==
    /\ tree_size > 0
    /\ leaf_index \in 0..(tree_size - 1)
    /\ expected_root \in
          rebuild(leaf_digest, audit_path)[Len(audit_path)][tree_size][leaf_index]

\* complete: the nodes are, up to here, the old tree itself, whose root is known.
subproof[nodes \in Seq(Leaf)] ==
    [prefix_size \in 1..Len(nodes) |-> [complete \in BOOLEAN |->
        LET split == _split(Len(nodes))
        IN IF prefix_size = Len(nodes)
           THEN IF complete THEN << >> ELSE <<merkle_root[nodes]>>
           ELSE IF prefix_size <= split
           THEN Append(subproof[firstPart(nodes)][prefix_size][complete],
                       merkle_root[secondPart(nodes)])
           ELSE Append(subproof[secondPart(nodes)][prefix_size - split][FALSE],
                       merkle_root[firstPart(nodes)])]]

consistency_proof(leaves, old_size) == subproof[leaves][old_size][TRUE]

\* The two inner loops over the node numbers fn, of the old tree, and sn, of the new one:
\* while fn ends in the bit, both lose their last bit.  (No fn that ends in 1 is 0.)
shiftWhile[fn \in Nat] ==
    [sn \in Nat |-> [bit \in 0..1 |->
        IF fn > 0 /\ fn % 2 = bit THEN shiftWhile[fn \div 2][sn \div 2][bit]
        ELSE [fn |-> fn, sn |-> sn]]]

\* One turn of the loop over the path: both roots take a sibling on their left, or only
\* the new one takes it on its right.
turn(at, node) ==
    LET left == at.fn % 2 = 1 \/ at.fn = at.sn
        n == IF left THEN shiftWhile[at.fn][at.sn][0] ELSE at
    IN [fn |-> n.fn \div 2, sn |-> n.sn \div 2,
        first |-> IF left THEN node_digest(node, at.first) ELSE at.first,
        second |-> IF left THEN node_digest(node, at.second)
                   ELSE node_digest(at.second, node)]

\* After each node of the path; both roots start as the first of them.
climb(n, nodes) ==
    LET after[i \in 1..Len(nodes)] ==
            IF i = 1 THEN [fn |-> n.fn, sn |-> n.sn, first |-> nodes[1], second |-> nodes[1]]
            ELSE turn(after[i - 1], nodes[i])
    IN after

verify_consistency(old_size, new_size, old_root, new_root, audit_path) ==
    /\ 0 < old_size /\ old_size <= new_size
    /\ IF old_size = new_size THEN audit_path = << >> /\ old_root = new_root
       ELSE LET n == shiftWhile[old_size - 1][new_size - 1][1]
                nodes == IF n.fn = 0 THEN <<old_root>> \o audit_path ELSE audit_path
                top == climb(n, nodes)[Len(nodes)]
            IN /\ nodes # << >>
               /\ top.fn = 0 /\ top.first = old_root /\ top.second = new_root
=============================================================================
