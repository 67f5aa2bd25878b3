---------------------------- MODULE MCMerkleTree ----------------------------
(***************************************************************************)
(* Small trees: every arrangement of up to five leaves.                    *)
(***************************************************************************)
EXTENDS MerkleTree, FiniteSets, SequencesExt

CONSTANTS
    MaxLeaves,   \* bound on the leaves
    MaxProof,    \* bound on the length of the proofs tried
    AllProofs    \* trees of at most so many nodes have all of them tried

MCLists ==
    UNION {{[i \in 1..n |-> node_hash(p[i], 2, 1)] : p \in Permutations(1..n)} :
             n \in 1..MaxLeaves}

\* An item of the tree; the claimant with other amounts, and one who is not in
\* it; what an intermediate node hashes.
MCItems(hashes) ==
    {node_hash(1, 2, 1), node_hash(1, 1, 2), node_hash(MaxLeaves + 1, 2, 1)} \cup
    {<<l, r>> : l \in hashes, r \in {h \in hashes : Cardinality(hashes) <= AllProofs}}

MCProofs(hashes) ==
    SeqOf(hashes, IF Cardinality(hashes) <= AllProofs THEN MaxProof ELSE 1)
=============================================================================
