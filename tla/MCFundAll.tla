----------------------------- MODULE MCFundAll -----------------------------
(***************************************************************************)
(* Two claimants, one distributor, three runs of the command, a deposit by *)
(* somebody else, and one re-rooting that drops the second claimant.       *)
(***************************************************************************)
EXTENDS FundAll, TLC

CONSTANTS a, b, r1, r2, treasury, deployer

MCTree ==
    r1 :> (a :> [unlocked |-> 2, locked |-> 2] @@ b :> [unlocked |-> 2, locked |-> 0])
    @@ r2 :> (a :> [unlocked |-> 2, locked |-> 2])

MCParams ==
    { [root |-> r1, max_total_claim |-> 6, max_num_nodes |-> 2,
       start_vesting_ts |-> 0, end_vesting_ts |-> 2, clawback_start_ts |-> 3,
       clawback_receiver |-> treasury, enable_slot |-> 0, closable |-> FALSE] }

MCReRoots ==
    { [new_root |-> r2, expected_old_root |-> r1,
       expected_num_nodes_claimed |-> n, new_max_total_claim |-> 4] : n \in 0..1 }
=============================================================================
