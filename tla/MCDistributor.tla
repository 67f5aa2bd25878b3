--------------------------- MODULE MCDistributor ---------------------------
(***************************************************************************)
(* Distributor with arguments a careless admin may pass too: maxima that   *)
(* do not match the tree, a clawback receiver that is the vault itself,    *)
(* closing and creating again.                                             *)
(***************************************************************************)
EXTENDS DistributorRefinesAirdrop, TLC

CONSTANTS a, b, r1, r2, treasury, deployer, successor

MCTree ==
    r1 :> (a :> [unlocked |-> 3, locked |-> 2] @@ b :> [unlocked |-> 1, locked |-> 0])
    @@ r2 :> (a :> [unlocked |-> 3, locked |-> 2])

\* A tree-sized distributor, and one that is too small for its tree, can be
\* closed, and vests later.
MCParams ==
    { [root |-> r1, max_total_claim |-> 6, max_num_nodes |-> 2,
       start_vesting_ts |-> 1, end_vesting_ts |-> 3, clawback_start_ts |-> 4,
       clawback_receiver |-> treasury, enable_slot |-> 0, closable |-> TRUE],
      [root |-> r1, max_total_claim |-> 4, max_num_nodes |-> 1,
       start_vesting_ts |-> 2, end_vesting_ts |-> 4, clawback_start_ts |-> 5,
       clawback_receiver |-> Vault, enable_slot |-> 1, closable |-> FALSE] }

MCReRoots ==
    { [new_root |-> r2, expected_old_root |-> r1,
       expected_num_nodes_claimed |-> n, new_max_total_claim |-> 5] : n \in 0..1 }
=============================================================================
