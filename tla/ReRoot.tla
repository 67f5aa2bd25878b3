------------------------------- MODULE ReRoot -------------------------------
(***************************************************************************)
(* Re-rooting a live distributor, as the comment on validate_set_root      *)
(* expects its caller to do it: read the chain, build a smaller tree that  *)
(* keeps the leaf of everyone who has claimed, pause, call set_root with   *)
(* the root and the claim count that were read, resume.  The steps of the  *)
(* caller interleave with claims, clawbacks and every admin instruction,   *)
(* so what was read may be stale when set_root runs.                       *)
(*                                                                         *)
(* Params holds distributors as the CLI creates them from a tree file:     *)
(* max_total_claim and max_num_nodes are those of the tree.                *)
(***************************************************************************)
EXTENDS Distributor

VARIABLE plan     \* arguments the caller has prepared for set_root, or None

reVars == <<vars, plan>>

TreeTotal(r) ==
    SumFunction([c \in DOMAIN Tree[r] |-> Tree[r][c].unlocked + Tree[r][c].locked])

WellFormed(p) ==
    /\ p.max_total_claim = TreeTotal(p.root)
    /\ p.max_num_nodes = Cardinality(DOMAIN Tree[p.root])
    /\ ~p.closable

ASSUME WellFormedAssumption == \A p \in Params : WellFormed(p)

\* A tree with the leaf of every claimant that has a ClaimStatus.
KeepsClaimed(r) ==
    \A c \in Claimants : status[c] # None =>
        /\ c \in DOMAIN Tree[r]
        /\ Tree[r][c].unlocked = status[c].unlocked_amount
        /\ Tree[r][c].locked = status[c].locked_amount

\* The new tree cuts leaves of the old one or makes them smaller, and keeps
\* those the caller sees claimed.
Keeps(r) == DOMAIN Tree[r] \subseteq DOMAIN Tree[dist.root] /\ KeepsClaimed(r)

ReRootInit == Init /\ plan = None

BuildTree ==
    /\ dist # None
    /\ plan = None
    /\ \E r \in Roots \ {dist.root} :
         /\ Keeps(r)
         /\ plan' = [new_root |-> r,
                     expected_old_root |-> dist.root,
                     expected_num_nodes_claimed |-> dist.num_nodes_claimed,
                     new_max_total_claim |-> TreeTotal(r)]
    /\ UNCHANGED vars

Submit ==
    /\ plan # None
    /\ set_root(plan)
    /\ plan' = None

\* The caller starts over, for instance after set_root has failed.
Abandon ==
    /\ plan # None
    /\ plan' = None
    /\ UNCHANGED vars

OtherInstruction ==
    /\ \/ \E p \in Params : new_distributor(p)
       \/ Claim
       \/ clawback
       \/ \E s \in EnableSlots : set_enable_slot(s)
       \/ Environment
    /\ UNCHANGED plan

ReRootNext == BuildTree \/ Submit \/ Abandon \/ OtherInstruction

ReRootSpec == ReRootInit /\ [][ReRootNext]_reVars
-----------------------------------------------------------------------------
\* What the current tree still owes a claimant.
Outstanding(c) ==
    IF status[c] # None
    THEN status[c].locked_amount - status[c].locked_amount_withdrawn
    ELSE IF c \in DOMAIN Tree[dist.root]
         THEN Tree[dist.root][c].unlocked + Tree[dist.root][c].locked
         ELSE 0

\* max_total_claim covers what was paid, what was forgone and everything the
\* current tree still owes, through any number of re-rootings: the root and
\* the claim count set_root compares are enough to refuse a tree that was
\* built before somebody it cuts had claimed.
EntitlementsCovered ==
    dist # None =>
        dist.total_amount_claimed + dist.total_amount_forgone
          + SumFunction([c \in Claimants |-> Outstanding(c)])
        <= dist.max_total_claim

\* No honest claim is refused: while claims are open and the vault is funded,
\* a leaf holder who has not claimed can claim as soon as vesting starts, and
\* one who has can withdraw whatever has vested since.  Neither
\* max_total_claim, max_num_nodes nor the vault ever stands in the way,
\* whatever the others have claimed or forgone before.
HonestClaimsAccepted ==
    ClaimsOpen /\ Solvent =>
        \A c \in Claimants :
            /\ status[c] = None /\ dist.start_ts <= now
                 /\ c \in DOMAIN Tree[dist.root] => NewClaimAllowed(c)
            /\ status[c] # None => /\ amount_withdrawable(status[c]) >= 0
                                   /\ amount_withdrawable(status[c]) > 0
                                        => ClaimLockedAllowed(c)

\* A prepared tree has the leaves of all who have claimed for as long as the
\* claim count is the one that was read.
PlanInv ==
    plan # None =>
        /\ dist # None
        /\ plan \in SetRootArgs
        /\ plan.new_max_total_claim = TreeTotal(plan.new_root)
        /\ DOMAIN Tree[plan.new_root] \subseteq DOMAIN Tree[plan.expected_old_root]
        /\ plan.expected_num_nodes_claimed <= dist.num_nodes_claimed
        /\ plan.expected_num_nodes_claimed = dist.num_nodes_claimed
             => KeepsClaimed(plan.new_root)

\* The current tree has the leaves of all who have claimed, and the maxima are
\* enough for it.
TreeInv ==
    dist # None =>
        /\ KeepsClaimed(dist.root)
        /\ dist.max_total_claim = TreeTotal(dist.root)
        /\ dist.max_num_nodes >= Cardinality(DOMAIN Tree[dist.root])

\* The inductive invariant of CompositionProofs.  Nothing is ever closed here.
ReRootInv ==
    /\ IndInv
    /\ CountersMatchStatuses
    /\ retired = [claimed |-> 0, forgone |-> 0, nodes |-> 0]
    /\ PlanInv
    /\ TreeInv
=============================================================================
