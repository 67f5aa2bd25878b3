------------------------------ MODULE Airdrop ------------------------------
(***************************************************************************)
(* What the merkle distributor promises, with no roots, clocks, pauses or  *)
(* counters: a pot pays each claimant out of one grant.  The grant is      *)
(* fixed by the first payment, is one of the amounts the published trees   *)
(* hold for that claimant, is never changed, renewed or taken away, and is *)
(* never exceeded; the pot never pays what it does not hold.               *)
(***************************************************************************)
EXTENDS Naturals

CONSTANTS Claimants, None,
          Grants,      \* Grants[c]: the totals the published trees hold for c
          Gifts        \* amounts the pot may grow by

VARIABLES pot, paid, grant

abstractVars == <<pot, paid, grant>>

AirdropInit ==
    /\ pot = 0
    /\ paid = [c \in Claimants |-> 0]
    /\ grant = [c \in Claimants |-> None]

GrowPot ==
    /\ \E n \in Gifts : pot' = pot + n
    /\ UNCHANGED <<paid, grant>>

\* The first payment of a claimant; it may be of nothing.
Settle(c) ==
    /\ grant[c] = None
    /\ \E g \in Grants[c] : \E n \in 0..g :
        /\ n <= pot
        /\ pot' = pot - n
        /\ grant' = [grant EXCEPT ![c] = g]
        /\ paid' = [paid EXCEPT ![c] = n]

PayMore(c) ==
    /\ grant[c] # None
    /\ \E n \in 1..(grant[c] - paid[c]) :
        /\ n <= pot
        /\ pot' = pot - n
        /\ paid' = [paid EXCEPT ![c] = @ + n]
    /\ UNCHANGED grant

\* A clawback, a close or a burn takes tokens from the pot, never a grant.
ShrinkPot ==
    /\ \E n \in 1..pot : pot' = pot - n
    /\ UNCHANGED <<paid, grant>>

AirdropNext ==
    \/ GrowPot
    \/ ShrinkPot
    \/ \E c \in Claimants : Settle(c) \/ PayMore(c)

AirdropSpec == AirdropInit /\ [][AirdropNext]_abstractVars
=============================================================================
