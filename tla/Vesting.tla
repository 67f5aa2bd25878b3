------------------------------ MODULE Vesting ------------------------------
(***************************************************************************)
(* The vesting arithmetic of ClaimStatus (programs/merkle-distributor/src/ *)
(* state/claim_status.rs): how much of a leaf is payable at a time.        *)
(* Division is the truncating division of the code (\div on naturals).     *)
(* The code computes in u128 and casts to u64; DistributorProofs shows     *)
(* that the result never exceeds the leaf's own amount, so the cast never  *)
(* truncates and the checked subtractions of the code never fail.          *)
(***************************************************************************)
EXTENDS Integers

START_CLAIM_PCT == 500000
PCT_PRECISION == 1000000

\* part \in 0..whole of an amount, rounded down: the checked_mul/checked_div
\* pair the three formulas of claim_status.rs share.
Share(amount, part, whole) == (part * amount) \div whole

\* Slip: nothing stops the schedule at end_ts.
unlocked_amount_uncapped(locked, curr_ts, start_ts, end_ts) ==
    IF curr_ts < start_ts THEN 0
    ELSE Share(locked, curr_ts - start_ts, end_ts - start_ts)

\* ClaimStatus::unlocked_amount: the part of the locked tokens that has
\* vested, linear from start_ts to end_ts.
unlocked_amount(locked, curr_ts, start_ts, end_ts) ==
    IF curr_ts < start_ts THEN 0
    ELSE IF curr_ts >= end_ts THEN locked
    ELSE Share(locked, curr_ts - start_ts, end_ts - start_ts)

\* The half that is payable from the first second.
start_amount(unlocked) == Share(unlocked, START_CLAIM_PCT, PCT_PRECISION)

\* ClaimStatus::update_unlocked_amount_claimed, for curr_ts >= start_ts (the
\* code fails before): what a claim at curr_ts pays of the unlocked tokens.
unlocked_amount_claimed(unlocked, curr_ts, start_ts, end_ts) ==
    IF curr_ts >= end_ts THEN unlocked
    ELSE start_amount(unlocked)
         + Share(unlocked - start_amount(unlocked),
                 curr_ts - start_ts, end_ts - start_ts)
=============================================================================
