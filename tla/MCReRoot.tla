------------------------------ MODULE MCReRoot ------------------------------
(***************************************************************************)
(* Three claimants, one tree that holds them all and two smaller ones, all *)
(* with odd amounts so that vesting rounds.  The third is the bad debt     *)
(* PDA, and the clawback pays the burner.                                  *)
(***************************************************************************)
EXTENDS Dfx, TLC

CONSTANTS a, b, c, r1, r2, r3, burner_account, deployer, keeper

LeafOf(u, l) == [unlocked |-> u, locked |-> l]

MCTree ==
    r1 :> (a :> LeafOf(3, 1) @@ b :> LeafOf(1, 3) @@ c :> LeafOf(2, 0))
    @@ r2 :> (a :> LeafOf(3, 1) @@ b :> LeafOf(1, 3))
    @@ r3 :> (a :> LeafOf(3, 1) @@ c :> LeafOf(1, 0))

MCParams ==
    { [root |-> r1, max_total_claim |-> 10, max_num_nodes |-> 3,
       start_vesting_ts |-> 0, end_vesting_ts |-> 3, clawback_start_ts |-> 4,
       clawback_receiver |-> burner_account, enable_slot |-> 0, closable |-> FALSE] }
=============================================================================
