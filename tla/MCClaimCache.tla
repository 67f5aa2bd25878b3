---------------------------- MODULE MCClaimCache ----------------------------
(***************************************************************************)
(* Two trees that share two claimants, in both orders, and a file that is  *)
(* no tree.  The accounts are those of one claimant, so that two           *)
(* subscriptions and two polls race for one entry; either may change       *)
(* twice.                                                                  *)
(***************************************************************************)
EXTENDS ClaimCache, TLC

CONSTANTS t1, t2, notes, x, y

MCFiles == {t1, t2, notes}
MCReadable == {t1, t2}
MCClaimants == {x, y}
MCNodes == t1 :> <<x, y>> @@ t2 :> <<y, x>> @@ notes :> <<>>
TwoTrees == {<<t1, x>>, <<t2, x>>}
=============================================================================
