--------------------- MODULE DistributorRefinesAirdrop ---------------------
(***************************************************************************)
(* The distributor implements Airdrop: the pot is the vault, what was paid *)
(* is what the claimants received, and the grant of a claimant is the leaf *)
(* its ClaimStatus account records.                                        *)
(***************************************************************************)
EXTENDS Distributor

GrantOf(s) == IF s = None THEN None ELSE s.unlocked_amount + s.locked_amount

LeafTotal(leaf) == leaf.unlocked + leaf.locked

TreeGrants(c) ==
    {LeafTotal(Tree[r][c]) : r \in {q \in Roots : c \in DOMAIN Tree[q]}}

Promise == INSTANCE Airdrop WITH
    Grants <- [c \in Claimants |-> TreeGrants(c)],
    Gifts <- Deposits,
    pot <- vault,
    paid <- wallet,
    grant <- [c \in Claimants |-> GrantOf(status[c])]

\* The program keeps the promise of module Airdrop over every interleaving of
\* claims, re-rooting, clawback, closing and creating again: one grant per
\* claimant, fixed when first claimed, never renewed and never exceeded.
ImplementsAirdrop == Promise!AirdropSpec
=============================================================================
