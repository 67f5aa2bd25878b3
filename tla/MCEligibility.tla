--------------------------- MODULE MCEligibility ---------------------------
(***************************************************************************)
(* Two claimants with amounts and a window that round in both formulas;    *)
(* one of them uses the claim command.                                     *)
(***************************************************************************)
EXTENDS ClaimCommand, TLC

CONSTANTS a, b, r1, treasury, deployer

MCTree ==
    r1 :> (a :> [unlocked |-> 7, locked |-> 5] @@ b :> [unlocked |-> 3, locked |-> 0])

MCParams ==
    { [root |-> r1, max_total_claim |-> 15, max_num_nodes |-> 2,
       start_vesting_ts |-> 1, end_vesting_ts |-> e, clawback_start_ts |-> 7,
       clawback_receiver |-> treasury, enable_slot |-> 0, closable |-> FALSE]
      : e \in {4, 6} }
=============================================================================
