----------------------------- MODULE MerkleTree -----------------------------
(***************************************************************************)
(* The hash tree behind a root: MerkleTree::new, find_path and get_proof   *)
(* (merkle-tree/src), and the program's verify (verify/src/lib.rs), which  *)
(* is called for a claim and, with every leaf's own proof, by              *)
(* AirdropMerkleTree::verify_proof.  Each loop is a step per iteration:    *)
(* a level built, a level walked up, an element of a proof hashed.  No     *)
(* call changes the tree, so one call of verify is followed.               *)
(*                                                                         *)
(* SHA-256 is taken to be injective: a hash is the list of what was        *)
(* hashed, prefix first.  Its order decides only which of two siblings is  *)
(* hashed first, so an unknown choice for each pair stands for it.         *)
(***************************************************************************)
EXTENDS Integers, Sequences, Functions

CONSTANTS
    Lists,           \* what MerkleTree::new may be given: lists of items
    TriedItems(_),   \* the items and
    TriedProofs(_)   \* the proofs tried against a tree, of its set of nodes

\* A list has an item; of an empty one there is no root.
ASSUME ListsAssumption ==
    \A list \in Lists : list \in Seq(Range(list)) /\ list # <<>>

VARIABLES
    items, nodes,                     \* MerkleTree: what the leaves hash, all nodes
    level_start, level_len,           \* locals of MerkleTree::new and of find_path
    prev_level_start, prev_level_len,
    levels,                           \* history: <<start, length>> of the levels built
    loop,                             \* the loop that runs; "ready", "returned": none
    index, node_index, lsib, rsib,    \* locals of find_path
    path,                             \* the entries of its Proof
    item, proof, computed_hash, at,   \* verify: arguments, and where its loop is
    own,                              \* history: the proof is get_proof's for the item
    verified                          \* what verify returned

tree == <<items, nodes, prev_level_start, prev_level_len, levels>>
walk == <<level_start, level_len, index, node_index, lsib, rsib, path>>
claim == <<item, proof, computed_hash, at, own>>

treeVars == <<tree, walk, claim, loop, verified>>

\* TreeNode::hash, and new_claim's hash of what is claimed: the items.
node_hash(claimant, unlocked, locked) == <<claimant, unlocked, locked>>

\* Slip: leaves and intermediate nodes have the same prefix.
hash_leaf_unprefixed(data) == <<1, data>>

hash_leaf(data) == <<0, data>>
hash_intermediate(l, r) == <<1, <<l, r>>>>

\* l <= r.
NotAfter(l, r) == l = (CHOOSE h \in {l, r} : TRUE)

\* The sorted hashing that MerkleTree::new and verify share.
hash_sorted(l, r) ==
    IF NotAfter(l, r) THEN hash_intermediate(l, r) ELSE hash_intermediate(r, l)

next_level_len(n) == IF n = 1 THEN 0 ELSE (n + 1) \div 2

\* Node i (from 0) of the level that starts at `start`.
At(start, i) == nodes[start + i + 1]

\* Node i of the next level, from a level of `len` nodes.  An odd level's last
\* node is hashed with itself.
Parent(start, len, i) ==
    hash_sorted(At(start, 2 * i),
                IF 2 * i + 1 < len THEN At(start, 2 * i + 1) ELSE At(start, 2 * i))

TreeInit ==
    /\ items \in Lists
    /\ nodes = [i \in DOMAIN items |-> hash_leaf(items[i])]
    /\ level_start = Len(items) /\ level_len = next_level_len(Len(items))
    /\ prev_level_start = 0 /\ prev_level_len = Len(items)
    /\ levels = {<<0, Len(items)>>}
    /\ loop = "build"
    /\ index = 0 /\ node_index = 0 /\ lsib = <<>> /\ rsib = <<>> /\ path = <<>>
    /\ item = items[1] /\ proof = <<>> /\ computed_hash = nodes[1] /\ at = 0
    /\ own = FALSE /\ verified = FALSE

BuildLevel ==
    /\ loop = "build" /\ level_len > 0
    /\ nodes' = nodes \o
         [k \in 1..level_len |-> Parent(prev_level_start, prev_level_len, k - 1)]
    /\ prev_level_start' = level_start
    /\ prev_level_len' = level_len
    /\ level_start' = level_start + level_len
    /\ level_len' = next_level_len(level_len)
    /\ levels' = levels \cup {<<level_start, level_len>>}
    /\ UNCHANGED <<items, index, node_index, lsib, rsib, path, claim, loop, verified>>

Built ==
    /\ loop = "build" /\ level_len = 0
    /\ loop' = "ready"
    /\ UNCHANGED <<tree, walk, claim, verified>>

get_root == nodes[Len(nodes)]
-----------------------------------------------------------------------------
(***************************************************************************)
(* find_path and get_proof, for a leaf of the tree.  An Option is a        *)
(* sequence of at most one element.                                        *)
(***************************************************************************)

Some(h) == <<h>>
NoHash == <<>>

find_path(i) ==
    /\ loop = "ready" /\ i \in 0..(Len(items) - 1)
    /\ loop' = "path"
    /\ level_len' = Len(items) /\ level_start' = 0
    /\ index' = i /\ node_index' = i
    /\ lsib' = NoHash /\ rsib' = NoHash /\ path' = <<>>
    /\ UNCHANGED <<tree, claim, verified>>

ProofEntry(target, l, r) == [target |-> target, left |-> l, right |-> r]

\* Slip: an odd level's last node is paired with the first.
RightWrapped(start, len, i) == Some(At(start, IF i + 1 < len THEN i + 1 ELSE 0))

\* The sibling of an even node; the last node of an odd level is its own.
RightSibling(start, len, i) == Some(At(start, IF i + 1 < len THEN i + 1 ELSE i))

WalkUp ==
    /\ loop = "path" /\ level_len > 0
    /\ path' = IF lsib # NoHash \/ rsib # NoHash
               THEN Append(path, ProofEntry(At(level_start, node_index), lsib, rsib))
               ELSE path
    /\ IF node_index % 2 = 0
       THEN /\ lsib' = NoHash
            /\ rsib' = RightSibling(level_start, level_len, node_index)
       ELSE /\ lsib' = Some(At(level_start, node_index - 1))
            /\ rsib' = NoHash
    /\ node_index' = node_index \div 2
    /\ level_start' = level_start + level_len
    /\ level_len' = next_level_len(level_len)
    /\ UNCHANGED <<tree, claim, loop, verified, index>>

\* The left sibling if there is one, or else the right.
Sibling(l, r) == IF l # NoHash THEN l[1] ELSE r[1]

get_proof(entries) ==
    [k \in DOMAIN entries |-> Sibling(entries[k].left, entries[k].right)]
-----------------------------------------------------------------------------
(***************************************************************************)
(* verify.                                                                 *)
(***************************************************************************)

verify(elements, data) ==
    /\ loop' = "verify"
    /\ proof' = elements /\ item' = data
    /\ computed_hash' = hash_leaf(data) /\ at' = 0
    /\ UNCHANGED <<tree, walk, verified>>

\* verify_proof: a leaf's own proof.
VerifyLeaf ==
    /\ loop = "path" /\ level_len = 0
    /\ verify(get_proof(path), items[index + 1])
    /\ own' = TRUE

\* new_claim: what the claimant sends.
VerifyClaim(elements, data) ==
    /\ loop = "ready"
    /\ verify(elements, data)
    /\ own' = FALSE

HashElement ==
    /\ loop = "verify" /\ at < Len(proof)
    /\ computed_hash' = hash_sorted(computed_hash, proof[at + 1])
    /\ at' = at + 1
    /\ UNCHANGED <<tree, walk, item, proof, own, loop, verified>>

Compare ==
    /\ loop = "verify" /\ at = Len(proof)
    /\ loop' = "returned"
    /\ verified' = (computed_hash = get_root)
    /\ UNCHANGED <<tree, walk, claim>>

TreeNext ==
    \/ BuildLevel \/ Built
    \/ \E i \in 0..(Len(items) - 1) : find_path(i)
    \/ WalkUp \/ VerifyLeaf
    \/ \E elements \in TriedProofs(Range(nodes)), data \in TriedItems(Range(nodes)) :
         VerifyClaim(elements, data)
    \/ HashElement \/ Compare

TreeSpec == TreeInit /\ [][TreeNext]_treeVars
-----------------------------------------------------------------------------
(***************************************************************************)
(* The inductive invariant.                                                *)
(***************************************************************************)

Leaves == {hash_leaf(items[i]) : i \in DOMAIN items}

\* Every node hashes an item or two nodes, and the leaves come first.
NodesInv ==
    /\ items \in Lists
    /\ nodes \in Seq(Range(nodes))
    /\ Range(nodes) \subseteq Leaves \cup
         {hash_intermediate(l, r) : l \in Range(nodes), r \in Range(nodes)}
    /\ \A i \in DOMAIN items : nodes[i] = hash_leaf(items[i])

\* The level at <<start, len>> is the root's, or the level after it was built
\* from it.
Complete(start, len) ==
    \/ len = 1 /\ start + 1 = Len(nodes)
    \/ /\ len > 1 /\ <<start + len, next_level_len(len)>> \in levels
       /\ \A i \in 0..(next_level_len(len) - 1) :
            At(start + len, i) = Parent(start, len, i)

\* All levels are complete but the last one of a tree being built.
LevelsInv ==
    /\ <<0, Len(items)>> \in levels
    /\ levels \subseteq Nat \X (Nat \ {0})
    /\ \A level \in levels :
         /\ level[1] + level[2] <= Len(nodes)
         /\ IF loop = "build"
            THEN \/ level = <<prev_level_start, prev_level_len>>
                 \/ level[2] > 1 /\ Complete(level[1], level[2])
            ELSE Complete(level[1], level[2])
    /\ loop = "build" =>
         /\ <<prev_level_start, prev_level_len>> \in levels
         /\ level_start = prev_level_start + prev_level_len
         /\ level_start = Len(nodes)
         /\ level_len = next_level_len(prev_level_len)

\* The node that hashing the first k elements of the path leads to.
Reached(k) == IF k = 0 THEN nodes[index + 1] ELSE path[k].target

\* Each entry has one sibling, as ProofEntry::new asserts, and its target hashes
\* the target before and the sibling.
PathRight ==
    /\ index \in 0..(Len(items) - 1)
    /\ path \in Seq(Range(path))
    /\ \A k \in DOMAIN path :
         /\ path[k].left = NoHash <=> path[k].right # NoHash
         /\ path[k].target =
              hash_sorted(Reached(k - 1), Sibling(path[k].left, path[k].right))

WalkInv ==
    loop = "path" =>
        /\ PathRight
        /\ IF level_len > 0
           THEN /\ <<level_start, level_len>> \in levels
                /\ node_index \in 0..(level_len - 1)
                /\ IF lsib # NoHash \/ rsib # NoHash
                   THEN /\ lsib = NoHash <=> rsib # NoHash
                        /\ At(level_start, node_index) =
                             hash_sorted(Reached(Len(path)), Sibling(lsib, rsib))
                   ELSE path = <<>> /\ level_start = 0 /\ node_index = index
           ELSE level_len = 0 /\ Reached(Len(path)) = get_root

\* A leaf's own proof leads from node to node; from what is no leaf, no proof
\* leads to a node.
VerifyInv ==
    loop = "verify" =>
        /\ own => /\ PathRight /\ Reached(Len(path)) = get_root
                  /\ proof = get_proof(path)
                  /\ at \in 0..Len(path) /\ computed_hash = Reached(at)
        /\ computed_hash \in Range(nodes) => item \in Range(items)
-----------------------------------------------------------------------------
\* Every leaf's own proof verifies, in every arrangement of the leaves and at
\* odd levels too: whoever is in the tree file can claim.
EveryProofVerifies == loop = "returned" /\ own => verified

\* Nothing else verifies, whatever the proof: the root commits to exactly the
\* items of the file.  (The comment on LEAF_PREFIX gives this as its purpose.)
OnlyLeavesVerify == verified => item \in Range(items)

TreeInv ==
    /\ NodesInv /\ LevelsInv /\ WalkInv /\ VerifyInv
    /\ EveryProofVerifies /\ OnlyLeavesVerify
    /\ loop # "returned" => ~verified
=============================================================================
