-------------------------------- MODULE Dfx --------------------------------
(***************************************************************************)
(* The DFX distributors with the two programs around them.  token-burner   *)
(* owns the clawback receiver: a token account from which only `burn`, by  *)
(* anyone, takes tokens.  bad-debt-example is a program whose PDA is a     *)
(* leaf of the tree: anyone may make it claim by CPI (claim_dfx), and its  *)
(* admin withdraws.  Everything interleaves with re-rooting.               *)
(***************************************************************************)
EXTENDS ReRoot

CONSTANT Debt        \* the bad debt PDA, a claimant that signs in claim_dfx only

ASSUME DebtAssumption ==
    Debt \in Claimants /\ IsFiniteSet(Admins) /\ None \notin Admins

VARIABLES
    config,          \* Config::admin, or None before initialize
    debt_account,    \* tokens in the PDA's token account
    withdrawn,       \* withdrawn[k]: tokens that key k has withdrawn from it
    burner,          \* tokens in the burner PDA's token account
    burnt            \* tokens that token-burner has burned

dfxVars == <<reVars, config, debt_account, withdrawn, burner, burnt>>

DfxInit ==
    /\ ReRootInit
    /\ config = None
    /\ debt_account = 0 /\ withdrawn = [k \in Admins |-> 0]
    /\ burner = 0 /\ burnt = 0

\* The distributor's steps, those of the PDA excepted; a clawback pays the burner.
DistributorStep ==
    /\ ReRootNext
    /\ status'[Debt] = status[Debt]
    /\ burner' = burner + (swept' - swept)
    /\ UNCHANGED <<config, debt_account, withdrawn, burnt>>

\* First caller wins.
initialize(k) ==
    /\ config = None
    /\ config' = k
    /\ UNCHANGED <<reVars, debt_account, withdrawn, burner, burnt>>

\* Slip: the amount passed is taken for the amount paid.
claim_dfx_whole ==
    /\ new_claim(Debt)
    /\ Tree[dist.root][Debt].locked = 0
    /\ debt_account' = debt_account + Tree[dist.root][Debt].unlocked
    /\ UNCHANGED <<plan, config, withdrawn, burner, burnt>>

\* new_claim signed by the PDA, with amount_locked 0: the proof of a leaf with locked
\* tokens does not verify.
claim_dfx ==
    /\ new_claim(Debt)
    /\ Tree[dist.root][Debt].locked = 0
    /\ debt_account' = debt_account + (wallet'[Debt] - wallet[Debt])
    /\ UNCHANGED <<plan, config, withdrawn, burner, burnt>>

\* Slip: the signer is not compared with the configured admin.
withdraw_unchecked(k, amount) ==
    /\ config # None
    /\ LET n == IF amount = U64_MAX THEN debt_account ELSE amount
       IN  /\ n <= debt_account
           /\ debt_account' = debt_account - n
           /\ withdrawn' = [withdrawn EXCEPT ![k] = @ + n]
    /\ UNCHANGED <<reVars, config, burner, burnt>>

withdraw(k, amount) ==
    /\ config = k
    /\ LET n == IF amount = U64_MAX THEN debt_account ELSE amount
       IN  /\ n <= debt_account
           /\ debt_account' = debt_account - n
           /\ withdrawn' = [withdrawn EXCEPT ![k] = @ + n]
    /\ UNCHANGED <<reVars, config, burner, burnt>>

\* Slip: a fixed amount is burned.
burn_one ==
    /\ burner > 1
    /\ burnt' = burnt + 1
    /\ burner' = burner - 1
    /\ UNCHANGED <<reVars, config, debt_account, withdrawn>>

\* A zero balance is no error and changes nothing.
burn ==
    /\ burner > 0
    /\ burnt' = burnt + burner
    /\ burner' = 0
    /\ UNCHANGED <<reVars, config, debt_account, withdrawn>>

DfxNext ==
    \/ DistributorStep
    \/ claim_dfx
    \/ burn
    \/ \E k \in Admins : initialize(k) \/ \E n \in {1, U64_MAX} : withdraw(k, n)

\* Time passes, and someone calls the two permissionless instructions.
DfxFairness ==
    /\ WF_dfxVars(DistributorStep /\ Tick)
    /\ WF_dfxVars(DistributorStep /\ clawback)
    /\ WF_dfxVars(burn)

DfxSpec == DfxInit /\ [][DfxNext]_dfxVars /\ DfxFairness
-----------------------------------------------------------------------------
\* What the distributor paid for the PDA is in the PDA's account, or with the key that
\* initialised the program: the crank and the other keys move nothing anywhere else.
DebtHeld ==
    wallet[Debt] = debt_account + (IF config = None THEN 0 ELSE withdrawn[config])

\* Over the three programs no token is lost or made: what was funded is in the vault,
\* with the claimants, in the two token accounts, with the debt's admin, or burned,
\* by set_root or by the burner.
SupplyAccounted ==
    funded = vault + SumFunction([c \in Claimants \ {Debt} |-> wallet[c]])
             + debt_account + SumFunction(withdrawn)
             + burned + burner + burnt

\* A permissionless clawback followed by burn reduces the supply: what nobody claimed
\* by the clawback is burned in the end, to the last token.
UnclaimedIsBurned ==
    dist # None ~> dist # None /\ dist.clawed_back /\ burner = 0 /\ burnt = swept

\* The inductive invariant of CompositionProofs: beside the above, every sweep went to the
\* burner and only the configured admin has withdrawn.
DfxInv ==
    /\ ReRootInv
    /\ config \in Admins \cup {None}
    /\ debt_account \in Nat /\ burner \in Nat /\ burnt \in Nat
    /\ withdrawn \in [Admins -> Nat]
    /\ \A k \in Admins : k # config => withdrawn[k] = 0
    /\ swept = burner + burnt
    /\ DebtHeld
=============================================================================
