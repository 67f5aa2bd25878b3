---------------------------- MODULE MCAggregate ----------------------------
(***************************************************************************)
(* Any CSV of up to three of six rows of two claimants, one of them a test *)
(* wallet, with and without locked amounts, or the merged CSV of up to     *)
(* three of six rows of two mints; one and two rows per tree, both units,  *)
(* decimals for which cents fail and for which the scaled amounts          *)
(* overflow.  One row of the markets is large enough for a sum to overflow *)
(* in two, and one has no pubkey.                                          *)
(***************************************************************************)
EXTENDS Aggregate

CONSTANTS alice, tester, typo, usdc, sol

MCClaimants == {alice, tester}
MCTestList == <<tester>>
MCSortedPubkeys == <<alice, tester>>

Line(c, unlocked, locked) ==
    [claimant |-> c, amount |-> unlocked, locked_amount |-> locked]
MarketLine(m, c, unlocked, locked) ==
    [mint |-> m, claimant |-> c, amount |-> unlocked, locked_amount |-> locked]

MCCsvRows ==
    {Line(alice, 1, None), Line(alice, 3, None), Line(alice, 1, 3), Line(alice, 3, 1),
     Line(tester, 1, None), Line(tester, 3, 1)}
MCMarketRows ==
    {MarketLine(usdc, alice, 1, None), MarketLine(usdc, alice, 3, 2),
     MarketLine(usdc, tester, 1, 3), MarketLine(usdc, typo, 1, None),
     MarketLine(usdc, alice, 300, None), MarketLine(sol, alice, 1, 3)}
=============================================================================
