------------------------- MODULE CompositionProofs -------------------------
(***************************************************************************)
(* What is composed with the distributor, for every value of the           *)
(* constants: re-rooting and the two DFX programs (DfxSpec), and fund-all  *)
(* (FundSpec).  All rest on IndInv of DistributorProofs, which types the   *)
(* chain and keeps its ledger.                                             *)
(***************************************************************************)
EXTENDS Dfx, FundAll, DistributorProofs

USE DEF ghosts, NewClaimAllowed, ClaimLockedAllowed
-----------------------------------------------------------------------------
(***************************************************************************)
(* Re-rooting.  ReRootInv adds to IndInv and to the counters that the      *)
(* current tree, and a prepared one whose claim count is current, has the  *)
(* leaf of everyone who has claimed; then what was paid, forgone and is    *)
(* outstanding adds up to the tree, claimant by claimant.                  *)
(***************************************************************************)

\* A tree has finitely many leaves and they add up to a natural number.
LEMMA TreeTotalType ==
    ASSUME NEW r \in Roots
    PROVE  /\ IsFiniteSet(DOMAIN Tree[r]) /\ DOMAIN Tree[r] \subseteq Claimants
           /\ TreeTotal(r) \in Nat
  <1> DEFINE total == [c \in DOMAIN Tree[r] |-> Tree[r][c].unlocked + Tree[r][c].locked]
  <1>1. DOMAIN Tree[r] \subseteq Claimants
    BY TreeAssumption
  <1>2. IsFiniteSet(DOMAIN Tree[r])
    BY <1>1, ClaimantsAssumption, FS_Subset
  <1>3. total \in [DOMAIN Tree[r] -> Nat]
    BY TreeAssumption DEF Leaf
  <1> HIDE DEF total
  <1>4. SumFunction(total) \in Nat
    BY <1>2, <1>3, SumNat
  <1> QED
    BY <1>1, <1>2, <1>4 DEF TreeTotal, total

\* A sum over the claimants that is a leaf's total inside the tree and zero
\* outside of it is the tree's total.
LEMMA SumOverTree ==
    ASSUME NEW r \in Roots, NEW f \in [Claimants -> Int],
           \A c \in DOMAIN Tree[r] : f[c] = Tree[r][c].unlocked + Tree[r][c].locked,
           \A c \in Claimants \ DOMAIN Tree[r] : f[c] = 0
    PROVE  SumFunction(f) = TreeTotal(r)
  <1> DEFINE D == DOMAIN Tree[r]
             total == [c \in D |-> Tree[r][c].unlocked + Tree[r][c].locked]
  <1>1. D \subseteq Claimants /\ IsFiniteSet(D)
    BY TreeTotalType
  <1>2. SumFunction(f) = SumFunctionOnSet(f, Claimants)
    BY ClaimantsAssumption, SumInt
  <1>3. SumFunctionOnSet(f, Claimants) = SumFunctionOnSet(f, D)
    <2>1. \A c \in Claimants : f[c] \in Int
      OBVIOUS
    <2>2. \A c \in Claimants \ D : f[c] = 0
      OBVIOUS
    <2> HIDE DEF D
    <2> QED
      BY <1>1, <2>1, <2>2, ClaimantsAssumption, SumSupport
  <1>4. \A c \in D : f[c] \in Int /\ f[c] = total[c]
    BY <1>1
  <1>5. SumFunctionOnSet(f, D) = SumFunctionOnSet(total, D)
    <2> HIDE DEF D, total
    <2> QED
      BY <1>1, <1>4, SumSame
  <1>6. total \in [D -> Int]
    BY Zenon, <1>4
  <1>7. SumFunction(total) = SumFunctionOnSet(total, D)
    <2> HIDE DEF D, total
    <2> QED
      BY <1>1, <1>6, SumInt
  <1> QED
    BY <1>2, <1>3, <1>5, <1>7 DEF TreeTotal

\* What a claimant was paid, has forgone and is still owed adds up to its leaf.
LEMMA ShareSettled ==
    ASSUME ReRootInv, dist # None, NEW c \in Claimants
    PROVE  /\ PaidBy(status[c]) \in Nat /\ ForgoneBy(status[c]) \in Nat
           /\ Outstanding(c) \in Nat
           /\ c \in DOMAIN Tree[dist.root] =>
                PaidBy(status[c]) + ForgoneBy(status[c]) + Outstanding(c)
                  = Tree[dist.root][c].unlocked + Tree[dist.root][c].locked
           /\ c \notin DOMAIN Tree[dist.root] =>
                PaidBy(status[c]) + ForgoneBy(status[c]) + Outstanding(c) = 0
  <1>1. PaidBy(status[c]) \in Nat /\ ForgoneBy(status[c]) \in Nat
    BY RecordedNat DEF ReRootInv, IndInv, TypeOK, PaidWithinLeaf
  <1>2. dist.root \in Roots
    BY DistributorFields DEF ReRootInv, IndInv
  <1>3. CASE status[c] = None
    <2>1. c \in DOMAIN Tree[dist.root] => /\ Tree[dist.root][c].unlocked \in Nat
                                          /\ Tree[dist.root][c].locked \in Nat
      BY <1>2, TreeAssumption DEF Leaf
    <2> QED
      BY <1>3, <2>1 DEF PaidBy, ForgoneBy, Outstanding
  <1>4. CASE status[c] # None
    <2>1. /\ status[c].locked_amount \in Nat
          /\ status[c].locked_amount_withdrawn \in Nat
          /\ status[c].unlocked_amount \in Nat
          /\ status[c].unlocked_amount_claimed \in Nat
      BY <1>4, StatusFields DEF ReRootInv, IndInv
    <2>2. status[c].locked_amount_withdrawn <= status[c].locked_amount
      BY <1>4 DEF ReRootInv, IndInv, PaidWithinLeaf
    <2>3. /\ c \in DOMAIN Tree[dist.root]
          /\ Tree[dist.root][c].unlocked = status[c].unlocked_amount
          /\ Tree[dist.root][c].locked = status[c].locked_amount
      BY <1>4 DEF ReRootInv, TreeInv, KeepsClaimed
    <2> QED
      BY <1>1, <1>4, <2>1, <2>2, <2>3
      DEF PaidBy, ForgoneBy, get_unlocked_amount_forgone, Outstanding
  <1> QED
    BY <1>3, <1>4

\* The counters and what is outstanding add up to max_total_claim, and nobody
\* is owed more than is outstanding.
LEMMA MaximumSettled ==
    ASSUME ReRootInv, dist # None
    PROVE  /\ dist.total_amount_claimed + dist.total_amount_forgone
                + SumFunction([c \in Claimants |-> Outstanding(c)])
                = dist.max_total_claim
           /\ SumFunction([c \in Claimants |-> Outstanding(c)]) \in Nat
           /\ \A c \in Claimants :
                Outstanding(c) <= SumFunction([d \in Claimants |-> Outstanding(d)])
  <1> DEFINE paid == [c \in Claimants |-> PaidBy(status[c])]
             gone == [c \in Claimants |-> ForgoneBy(status[c])]
             out == [c \in Claimants |-> Outstanding(c)]
             spent == [c \in Claimants |-> paid[c] + gone[c]]
             all == [c \in Claimants |-> spent[c] + out[c]]
  <1>1. dist.root \in Roots
    BY DistributorFields DEF ReRootInv, IndInv
  <1>2. /\ paid \in [Claimants -> Int] /\ gone \in [Claimants -> Int]
        /\ out \in [Claimants -> Nat]
    BY ShareSettled
  <1>3. /\ \A c \in DOMAIN Tree[dist.root] :
             all[c] = Tree[dist.root][c].unlocked + Tree[dist.root][c].locked
        /\ \A c \in Claimants \ DOMAIN Tree[dist.root] : all[c] = 0
    BY <1>1, ShareSettled, TreeTotalType
  <1>4. spent \in [Claimants -> Int] /\ all \in [Claimants -> Int]
    BY <1>2
  <1>5. \A c \in Claimants : out[c] = Outstanding(c)
    OBVIOUS
  <1> HIDE DEF paid, gone, out
  <1>6. SumFunction(spent) = SumFunction(paid) + SumFunction(gone)
    BY <1>2, ClaimantsAssumption, SumAdd
  <1> HIDE DEF spent
  <1>7. SumFunction(all) = SumFunction(spent) + SumFunction(out)
    BY <1>2, <1>4, ClaimantsAssumption, SumAdd
  <1> HIDE DEF all
  <1>8. SumFunction(all) = TreeTotal(dist.root)
    BY <1>1, <1>3, <1>4, SumOverTree
  <1>9. /\ SumFunction(paid) = dist.total_amount_claimed
        /\ SumFunction(gone) = dist.total_amount_forgone
        /\ TreeTotal(dist.root) = dist.max_total_claim
    <2>1. /\ dist.total_amount_claimed \in Nat /\ dist.total_amount_forgone \in Nat
      BY DistributorFields DEF ReRootInv, IndInv
    <2>2. /\ retired.claimed = 0 /\ retired.forgone = 0
          /\ retired.claimed + dist.total_amount_claimed = SumFunction(paid)
          /\ retired.forgone + dist.total_amount_forgone = SumFunction(gone)
      BY DEF ReRootInv, CountersMatchStatuses, ClaimedNow, ForgoneNow, paid, gone
    <2>3. TreeTotal(dist.root) = dist.max_total_claim
      BY DEF ReRootInv, TreeInv
    <2> QED
      BY <2>1, <2>2, <2>3
  <1>10. SumFunction(out) \in Nat /\ \A c \in Claimants : out[c] <= SumFunction(out)
    BY <1>2, ClaimantsAssumption, SumNat
  <1>11. dist.total_amount_claimed + dist.total_amount_forgone + SumFunction(out)
           = dist.max_total_claim
    BY <1>6, <1>7, <1>8, <1>9
  <1> QED
    BY <1>5, <1>10, <1>11 DEF out

\* The maximum covers what was paid, forgone and is outstanding.
LEMMA CoveredNow == ReRootInv => EntitlementsCovered
  <1> SUFFICES ASSUME ReRootInv, dist # None
               PROVE  dist.total_amount_claimed + dist.total_amount_forgone
                        + SumFunction([c \in Claimants |-> Outstanding(c)])
                        <= dist.max_total_claim
    BY DEF EntitlementsCovered
  <1>1. dist.max_total_claim \in Nat
    BY DistributorFields DEF ReRootInv, IndInv
  <1> QED
    BY <1>1, MaximumSettled

\* Whoever has a leaf and has not claimed finds a free node.
LEMMA NodeFree ==
    ASSUME ReRootInv, dist # None, NEW c \in Claimants,
           status[c] = None, c \in DOMAIN Tree[dist.root]
    PROVE  dist.num_nodes_claimed + 1 <= dist.max_num_nodes
  <1> DEFINE S == {d \in Claimants : status[d] # None}
             D == DOMAIN Tree[dist.root]
  <1>1. dist.root \in Roots /\ dist.num_nodes_claimed \in Nat /\ dist.max_num_nodes \in Nat
    BY DistributorFields DEF ReRootInv, IndInv
  <1>2. S \cup {c} \subseteq D /\ c \notin S
    BY DEF ReRootInv, TreeInv, KeepsClaimed
  <1>3. dist.num_nodes_claimed = Cardinality(S)
    BY <1>1 DEF ReRootInv, CountersMatchStatuses, NodesNow
  <1>4. dist.max_num_nodes >= Cardinality(D)
    BY DEF ReRootInv, TreeInv
  <1>5. IsFiniteSet(D)
    BY <1>1, TreeTotalType
  <1> HIDE DEF S, D
  <1>6. IsFiniteSet(S)
    BY <1>2, <1>5, FS_Subset
  <1>7. Cardinality(S \cup {c}) = Cardinality(S) + 1
    BY Zenon, <1>2, <1>6, FS_AddElement
  <1>8. Cardinality(S \cup {c}) <= Cardinality(D)
    BY <1>2, <1>5, FS_Subset
  <1>9. Cardinality(D) \in Nat
    BY <1>5, FS_CardinalityType
  <1> QED
    BY <1>1, <1>3, <1>4, <1>7, <1>8, <1>9

\* handle_new_claim accepts whoever has a leaf and has not claimed.
LEMMA NewClaimAccepted ==
    ASSUME ReRootInv, ClaimsOpen, Solvent, NEW c \in Claimants,
           status[c] = None, dist.start_ts <= now, c \in DOMAIN Tree[dist.root]
    PROVE  NewClaimAllowed(c)
  <1> DEFINE leaf == Tree[dist.root][c]
             s == SeedStatus(leaf)
             paid == unlocked_amount_claimed(leaf.unlocked, now,
                                             dist.start_ts, dist.end_ts)
             out == SumFunction([d \in Claimants |-> Outstanding(d)])
  <1>1. dist # None
    BY DEF ClaimsOpen
  <1>2. /\ dist.root \in Roots /\ dist.start_ts \in Nat /\ dist.end_ts \in Nat
        /\ dist.start_ts < dist.end_ts /\ now \in Nat /\ vault \in Nat
        /\ dist.total_amount_claimed \in Nat /\ dist.total_amount_forgone \in Nat
        /\ dist.max_total_claim \in Nat
    BY <1>1, DistributorFields DEF ReRootInv, IndInv, WindowKept, TypeOK
  <1>3. leaf.unlocked \in Nat /\ leaf.locked \in Nat
    BY <1>2, TreeAssumption DEF Leaf
  <1>4. paid \in Nat /\ paid <= leaf.unlocked
    BY Zenon, <1>2, <1>3, ClaimedBounds
  <1>5. s.unlocked_amount_claimed = paid /\ get_unlocked_amount_forgone(s) = leaf.unlocked - paid
    BY DEF SeedStatus, get_unlocked_amount_forgone
  <1>6. Outstanding(c) = leaf.unlocked + leaf.locked
    BY DEF Outstanding
  <1>7. /\ dist.total_amount_claimed + dist.total_amount_forgone + out = dist.max_total_claim
        /\ out \in Nat /\ Outstanding(c) <= out
    BY <1>1, MaximumSettled
  <1>8. vault >= dist.max_total_claim - dist.total_amount_claimed
    BY DEF Solvent
  <1>9. dist.num_nodes_claimed + 1 <= dist.max_num_nodes
    BY <1>1, NodeFree
  <1> HIDE DEF leaf, s, paid, out
  <1>10. vault >= paid
    BY <1>2, <1>3, <1>4, <1>6, <1>7, <1>8
  <1>11. dist.total_amount_claimed + paid + (dist.total_amount_forgone + (leaf.unlocked - paid))
           <= dist.max_total_claim
    BY <1>2, <1>3, <1>4, <1>6, <1>7
  <1> QED
    BY <1>5, <1>9, <1>10, <1>11 DEF leaf, s

\* handle_claim_locked pays whatever has vested since.
LEMMA ClaimLockedAccepted ==
    ASSUME ReRootInv, ClaimsOpen, Solvent, NEW c \in Claimants, status[c] # None
    PROVE  /\ amount_withdrawable(status[c]) >= 0
           /\ amount_withdrawable(status[c]) > 0 => ClaimLockedAllowed(c)
  <1> DEFINE s == status[c]
             vested == unlocked_amount(s.locked_amount, now, dist.start_ts, dist.end_ts)
             out == SumFunction([d \in Claimants |-> Outstanding(d)])
  <1>1. dist # None /\ retired.nodes = 0
    BY DEF ClaimsOpen, ReRootInv
  <1>2. /\ dist.start_ts \in Nat /\ dist.end_ts \in Nat
        /\ dist.start_ts < dist.end_ts /\ now \in Nat /\ vault \in Nat
        /\ dist.total_amount_claimed \in Nat /\ dist.total_amount_forgone \in Nat
        /\ dist.max_total_claim \in Nat
    BY <1>1, DistributorFields DEF ReRootInv, IndInv, WindowKept, TypeOK
  <1>3. s.locked_amount \in Nat /\ s.locked_amount_withdrawn \in Nat
    BY StatusFields DEF ReRootInv, IndInv
  <1>4. s.locked_amount_withdrawn <= vested
    BY <1>1 DEF ReRootInv, IndInv, NeverAheadOfVesting
  <1>5. vested \in Nat /\ vested <= s.locked_amount
    BY Zenon, <1>2, <1>3, VestedBounds
  <1>6. amount_withdrawable(s) = vested - s.locked_amount_withdrawn
    BY DEF amount_withdrawable
  <1>7. Outstanding(c) = s.locked_amount - s.locked_amount_withdrawn
    BY DEF Outstanding
  <1>8. /\ dist.total_amount_claimed + dist.total_amount_forgone + out = dist.max_total_claim
        /\ out \in Nat /\ Outstanding(c) <= out
    BY <1>1, MaximumSettled
  <1>9. vault >= dist.max_total_claim - dist.total_amount_claimed
    BY DEF Solvent
  <1>10. s # None
    OBVIOUS
  <1> HIDE DEF s, vested, out
  <1>11. amount_withdrawable(s) >= 0
    BY <1>3, <1>4, <1>5, <1>6
  <1>12. /\ vault >= amount_withdrawable(s)
         /\ s.locked_amount_withdrawn + amount_withdrawable(s) <= s.locked_amount
         /\ dist.total_amount_claimed + amount_withdrawable(s) <= dist.max_total_claim
    BY <1>2, <1>3, <1>5, <1>6, <1>7, <1>8, <1>9
  <1> QED
    BY <1>10, <1>11, <1>12 DEF s

\* No honest claim is refused in a state of ReRootInv.
LEMMA AcceptedNow == ReRootInv => HonestClaimsAccepted
  BY NewClaimAccepted, ClaimLockedAccepted DEF HonestClaimsAccepted
-----------------------------------------------------------------------------
(***************************************************************************)
(* ReRootInv is inductive.                                                 *)
(***************************************************************************)

\* The initial state satisfies ReRootInv.
LEMMA InitReRootInv == ReRootInit => ReRootInv
  <1> SUFFICES ASSUME ReRootInit PROVE ReRootInv
    OBVIOUS
  <1>1. IndInv /\ CountersMatchStatuses
    BY InitIndInv, InitCounted DEF ReRootInit
  <1>2. PlanInv /\ TreeInv /\ retired = [claimed |-> 0, forgone |-> 0, nodes |-> 0]
    BY DEF ReRootInit, Init, PlanInv, TreeInv
  <1> QED
    BY <1>1, <1>2 DEF ReRootInv

\* A step that changes neither the tree, its maxima, the claim count nor the
\* amounts a ClaimStatus was seeded with keeps the tree and a prepared one valid.
LEMMA SameTree ==
    ASSUME ReRootInv, plan' = plan, dist # None, dist' # None,
           dist'.root = dist.root,
           dist'.max_total_claim = dist.max_total_claim,
           dist'.max_num_nodes = dist.max_num_nodes,
           dist'.num_nodes_claimed = dist.num_nodes_claimed,
           \A c \in Claimants : status'[c] # None =>
               /\ status[c] # None
               /\ status'[c].unlocked_amount = status[c].unlocked_amount
               /\ status'[c].locked_amount = status[c].locked_amount
    PROVE  PlanInv' /\ TreeInv'
  <1>1. \A r : KeepsClaimed(r) =>
          \A c \in Claimants : status'[c] # None =>
              /\ c \in DOMAIN Tree[r]
              /\ Tree[r][c].unlocked = status'[c].unlocked_amount
              /\ Tree[r][c].locked = status'[c].locked_amount
    BY DEF KeepsClaimed
  <1>2. PlanInv'
    BY <1>1 DEF ReRootInv, PlanInv, KeepsClaimed
  <1>3. TreeInv'
    BY <1>1 DEF ReRootInv, TreeInv, KeepsClaimed
  <1> QED
    BY <1>2, <1>3

\* A new distributor starts with the tree it was created from.
LEMMA NewDistributorTree ==
    ASSUME ReRootInv, NEW p \in Params, new_distributor(p), plan' = plan
    PROVE  PlanInv' /\ TreeInv'
  <1>1. /\ dist = None /\ status' = status
        /\ dist'.root = p.root /\ dist'.max_total_claim = p.max_total_claim
        /\ dist'.max_num_nodes = p.max_num_nodes
    BY DEF new_distributor
  <1>2. plan' = None
    BY <1>1 DEF ReRootInv, PlanInv
  <1>3. \A c \in Claimants : status'[c] = None
    BY <1>1 DEF ReRootInv, IndInv, StatusesCounted, NodesNow
  <1>4. WellFormed(p) /\ p.max_num_nodes \in Nat
    BY WellFormedAssumption, ArgumentAssumption DEF NewDistributorArgs
  <1>5. TreeInv'
    BY <1>1, <1>3, <1>4 DEF TreeInv, KeepsClaimed, WellFormed
  <1> QED
    BY <1>2, <1>5 DEF PlanInv

\* A first claim is one of the current tree, and outdates a prepared one.
LEMMA NewClaimTree ==
    ASSUME ReRootInv, NEW c \in Claimants, new_claim(c), plan' = plan
    PROVE  PlanInv' /\ TreeInv'
  <1>1. /\ dist # None /\ dist' # None /\ c \in DOMAIN Tree[dist.root]
        /\ \A d \in Claimants \ {c} : status'[d] = status[d]
        /\ status'[c].unlocked_amount = Tree[dist.root][c].unlocked
        /\ status'[c].locked_amount = Tree[dist.root][c].locked
        /\ dist'.num_nodes_claimed = dist.num_nodes_claimed + 1
        /\ dist'.root = dist.root
        /\ dist'.max_total_claim = dist.max_total_claim
        /\ dist'.max_num_nodes = dist.max_num_nodes
    BY NewClaimEffect DEF ReRootInv
  <1>2. dist.num_nodes_claimed \in Nat
    BY <1>1, DistributorFields DEF ReRootInv, IndInv
  <1>3. TreeInv'
    BY <1>1 DEF ReRootInv, TreeInv, KeepsClaimed
  <1>4. ASSUME plan # None
        PROVE  /\ plan \in SetRootArgs
               /\ plan.expected_num_nodes_claimed \in Nat
               /\ plan.expected_num_nodes_claimed < dist'.num_nodes_claimed
    BY <1>1, <1>2, <1>4 DEF ReRootInv, PlanInv, SetRootArgs
  <1>5. PlanInv'
    BY <1>1, <1>2, <1>4 DEF ReRootInv, PlanInv
  <1> QED
    BY <1>3, <1>5

\* A later withdrawal keeps the amounts the account was seeded with.
LEMMA ClaimLockedTree ==
    ASSUME ReRootInv, NEW c \in Claimants, claim_locked(c), plan' = plan
    PROVE  PlanInv' /\ TreeInv'
  <1>1. /\ dist # None /\ dist' # None /\ status[c] # None
        /\ \A d \in Claimants \ {c} : status'[d] = status[d]
        /\ status'[c].unlocked_amount = status[c].unlocked_amount
        /\ status'[c].locked_amount = status[c].locked_amount
        /\ dist'.num_nodes_claimed = dist.num_nodes_claimed
        /\ dist'.root = dist.root
        /\ dist'.max_total_claim = dist.max_total_claim
        /\ dist'.max_num_nodes = dist.max_num_nodes
    BY ClaimLockedEffect DEF ReRootInv
  <1> QED
    BY <1>1, SameTree

\* The clawback, the pause and the environment leave the tree alone.
LEMMA SettingsTree ==
    ASSUME ReRootInv, plan' = plan,
           \/ clawback
           \/ \E s \in EnableSlots : set_enable_slot(s)
           \/ Environment
           \/ UNCHANGED vars
    PROVE  PlanInv' /\ TreeInv'
  <1>1. status' = status
    BY DEF clawback, set_enable_slot, Environment, Fund, Tick, NextSlot, vars
  <1>2. CASE dist' = dist /\ dist = None
    <2>1. plan' = None
      BY <1>2 DEF ReRootInv, PlanInv
    <2> QED
      BY <1>2, <2>1 DEF PlanInv, TreeInv
  <1>3. CASE dist' = dist /\ dist # None
    BY <1>1, <1>3, SameTree
  <1>4. CASE clawback \/ \E s \in EnableSlots : set_enable_slot(s)
    <2>1. SameCounters
      BY <1>4, SettingsEffect DEF ReRootInv
    <2>2. dist \in MerkleDistributor
      BY <2>1, DistributorFields DEF SameCounters, ReRootInv, IndInv
    <2>3. /\ dist'.root = dist.root /\ dist'.max_total_claim = dist.max_total_claim
          /\ dist'.max_num_nodes = dist.max_num_nodes
      BY <1>4, <2>2 DEF clawback, set_enable_slot, MerkleDistributor
    <2> QED
      BY <1>1, <2>1, <2>3, SameTree DEF SameCounters
  <1>5. CASE Environment \/ UNCHANGED vars
    <2>1. dist' = dist
      BY <1>5 DEF Environment, Fund, Tick, NextSlot, vars
    <2> QED
      BY <1>2, <1>3, <2>1
  <1> QED
    BY <1>4, <1>5

\* Building a tree: it keeps the claimed leaves as of now.
LEMMA BuildTreeStep ==
    ASSUME ReRootInv, BuildTree
    PROVE  ReRootInv'
  <1>1. UNCHANGED vars /\ dist # None
    BY DEF BuildTree
  <1>2. IndInv'
    BY <1>1, NextIndInv DEF ReRootInv
  <1>3. CountersMatchStatuses'
    BY <1>1, NextCounted DEF ReRootInv
  <1>4. retired' = retired /\ dist' = dist /\ status' = status
    BY <1>1 DEF vars
  <1>5. TreeInv'
    BY <1>4 DEF ReRootInv, TreeInv, KeepsClaimed
  <1>6. PICK r \in Roots :
          /\ DOMAIN Tree[r] \subseteq DOMAIN Tree[dist.root]
          /\ KeepsClaimed(r)
          /\ plan' = [new_root |-> r,
                      expected_old_root |-> dist.root,
                      expected_num_nodes_claimed |-> dist.num_nodes_claimed,
                      new_max_total_claim |-> TreeTotal(r)]
    BY DEF BuildTree, Keeps
  <1>7. /\ dist.root \in Roots /\ dist.num_nodes_claimed \in Nat
        /\ TreeTotal(r) \in Nat
    BY <1>1, DistributorFields, TreeTotalType DEF ReRootInv, IndInv
  <1>8. /\ plan' \in SetRootArgs /\ plan'.new_root = r
        /\ plan'.expected_old_root = dist.root
        /\ plan'.expected_num_nodes_claimed = dist.num_nodes_claimed
        /\ plan'.new_max_total_claim = TreeTotal(r)
    BY <1>6, <1>7 DEF SetRootArgs
  <1>9. PlanInv'
    BY <1>1, <1>4, <1>6, <1>7, <1>8 DEF PlanInv, KeepsClaimed
  <1> QED
    BY <1>2, <1>3, <1>4, <1>5, <1>9 DEF ReRootInv

\* set_root succeeds only while the claim count is the one the tree was built
\* for, so the new tree has the leaf of everyone who has claimed.
LEMMA SubmitStep ==
    ASSUME ReRootInv, Submit
    PROVE  ReRootInv'
  <1>1. plan # None /\ set_root(plan) /\ plan' = None
    BY DEF Submit
  <1>2. /\ plan \in SetRootArgs /\ dist # None
        /\ plan.new_root \in Roots /\ plan.new_max_total_claim \in Nat
        /\ plan.new_max_total_claim = TreeTotal(plan.new_root)
        /\ DOMAIN Tree[plan.new_root] \subseteq DOMAIN Tree[plan.expected_old_root]
        /\ plan.expected_num_nodes_claimed = dist.num_nodes_claimed
             => KeepsClaimed(plan.new_root)
    BY <1>1 DEF ReRootInv, PlanInv, SetRootArgs
  <1>3. IndInv'
    BY <1>1, <1>2, SetRootStep DEF ReRootInv
  <1>4. SameCounters
    BY <1>1, <1>2, SettingsEffect DEF ReRootInv
  <1>5. CountersMatchStatuses'
    <2>1. CountersMatchStatuses
      BY DEF ReRootInv
    <2> QED
      BY <1>4, <2>1, SameCountersKept, CountersKept
  <1>6. /\ dist.root = plan.expected_old_root
        /\ plan.expected_num_nodes_claimed = dist.num_nodes_claimed
    BY <1>1 DEF set_root, validate_set_root
  <1>7. dist \in MerkleDistributor /\ dist.max_num_nodes \in Nat /\ dist.root \in Roots
    BY <1>2, DistributorFields DEF ReRootInv, IndInv
  <1>8. /\ dist'.root = plan.new_root
        /\ dist'.max_total_claim = plan.new_max_total_claim
        /\ dist'.max_num_nodes = dist.max_num_nodes
    BY <1>1, <1>7 DEF set_root, MerkleDistributor
  <1>9. Cardinality(DOMAIN Tree[plan.new_root]) <= dist.max_num_nodes
    <2>1. dist.max_num_nodes >= Cardinality(DOMAIN Tree[dist.root])
      BY <1>2 DEF ReRootInv, TreeInv
    <2>2. IsFiniteSet(DOMAIN Tree[dist.root]) /\ IsFiniteSet(DOMAIN Tree[plan.new_root])
      BY <1>2, <1>7, TreeTotalType
    <2>3. Cardinality(DOMAIN Tree[plan.new_root]) <= Cardinality(DOMAIN Tree[dist.root])
      BY <1>2, <1>6, <2>2, FS_Subset
    <2>4. /\ Cardinality(DOMAIN Tree[plan.new_root]) \in Nat
          /\ Cardinality(DOMAIN Tree[dist.root]) \in Nat
      BY <2>2, FS_CardinalityType
    <2> QED
      BY <1>7, <2>1, <2>3, <2>4
  <1>10. Cardinality(DOMAIN Tree[plan.new_root]) \in Nat
    BY <1>2, TreeTotalType, FS_CardinalityType
  <1>11. status' = status /\ retired' = retired
    BY <1>4 DEF SameCounters
  <1>12. TreeInv'
    BY <1>2, <1>6, <1>7, <1>8, <1>9, <1>10, <1>11 DEF TreeInv, KeepsClaimed
  <1>13. PlanInv'
    BY <1>1 DEF PlanInv
  <1> QED
    BY <1>3, <1>5, <1>11, <1>12, <1>13 DEF ReRootInv

\* Every other step is a step of Distributor, and closes nothing.
LEMMA OtherInstructionStep ==
    ASSUME ReRootInv, OtherInstruction
    PROVE  ReRootInv'
  <1>1. Next /\ plan' = plan
    BY DEF OtherInstruction, Next, Administer
  <1>2. IndInv' /\ CountersMatchStatuses'
    BY <1>1, NextIndInv, NextCounted DEF ReRootInv
  <1>3. retired' = retired
    BY Zenon DEF OtherInstruction, new_distributor, Claim, new_claim, claim_locked,
           clawback, set_enable_slot, Environment, Fund, Tick, NextSlot
  <1>4. PlanInv' /\ TreeInv'
    BY <1>1, NewDistributorTree, NewClaimTree, ClaimLockedTree, SettingsTree
    DEF OtherInstruction, Claim
  <1> QED
    BY <1>2, <1>3, <1>4 DEF ReRootInv

\* Every step of the re-rooting system preserves ReRootInv.
LEMMA NextReRootInv == ReRootInv /\ [ReRootNext]_reVars => ReRootInv'
  <1> SUFFICES ASSUME ReRootInv, [ReRootNext]_reVars PROVE ReRootInv'
    OBVIOUS
  <1>1. ASSUME UNCHANGED vars, plan' = plan \/ plan' = None PROVE ReRootInv'
    <2>1. IndInv' /\ CountersMatchStatuses'
      BY <1>1, NextIndInv, NextCounted DEF ReRootInv
    <2>2. retired' = retired /\ dist' = dist /\ status' = status
      BY <1>1 DEF vars
    <2>3. PlanInv' /\ TreeInv'
      BY <1>1, <2>2 DEF ReRootInv, PlanInv, TreeInv, KeepsClaimed
    <2> QED
      BY <2>1, <2>2, <2>3 DEF ReRootInv
  <1>2. CASE Abandon
    BY <1>1, <1>2 DEF Abandon
  <1>3. CASE UNCHANGED reVars
    BY <1>1, <1>3 DEF reVars
  <1> QED
    BY <1>2, <1>3, BuildTreeStep, SubmitStep, OtherInstructionStep DEF ReRootNext
-----------------------------------------------------------------------------
(***************************************************************************)
(* DfxInv is inductive: the burner and the bad debt program.               *)
(***************************************************************************)

\* The initial state satisfies DfxInv.
LEMMA InitDfxInv == DfxInit => DfxInv
  <1> SUFFICES ASSUME DfxInit PROVE DfxInv
    OBVIOUS
  <1>1. ReRootInv
    BY InitReRootInv DEF DfxInit
  <1>2. swept = 0 /\ wallet[Debt] = 0
    BY DebtAssumption DEF DfxInit, ReRootInit, Init
  <1> QED
    BY <1>1, <1>2 DEF DfxInit, DfxInv, DebtHeld

\* Only a clawback moves tokens to the receiver, and never takes any back.
LEMMA SweptGrows ==
    ASSUME ReRootInv, ReRootNext
    PROVE  swept \in Nat /\ swept' \in Nat /\ swept <= swept'
  <1>1. swept \in Nat /\ vault \in Nat
    BY DEF ReRootInv, IndInv, TypeOK
  <1>2. CASE clawback
    BY <1>1, <1>2 DEF clawback, Sweep
  <1>3. CASE ~clawback
    <2>1. swept' = swept
      BY Zenon, <1>3 DEF ReRootNext, BuildTree, Submit, Abandon, OtherInstruction, vars,
                  new_distributor, Claim, new_claim, claim_locked, set_root,
                  set_enable_slot, Environment, Fund, Tick, NextSlot
    <2> QED
      BY <1>1, <2>1
  <1> QED
    BY <1>2, <1>3

\* A step of the distributor that is not the PDA's pays the burner what it
\* sweeps and the PDA nothing.
LEMMA DistributorStepKeeps ==
    ASSUME DfxInv, DistributorStep
    PROVE  DfxInv'
  <1>1. ReRootInv'
    BY NextReRootInv DEF DfxInv, DistributorStep
  <1>2. /\ swept \in Nat /\ swept' \in Nat /\ swept <= swept'
        /\ burner \in Nat /\ burnt \in Nat /\ burner + burnt = swept
    BY SweptGrows DEF DfxInv, DistributorStep
  <1>3. wallet'[Debt] = wallet[Debt]
    <2>1. wallet[Debt] = PaidBy(status[Debt])
      BY DebtAssumption DEF DfxInv, ReRootInv, IndInv, PaidWithinLeaf
    <2>2. wallet'[Debt] = PaidBy(status'[Debt])
      BY <1>1, DebtAssumption DEF ReRootInv, IndInv, PaidWithinLeaf
    <2> QED
      BY <2>1, <2>2 DEF DistributorStep
  <1>4. burner' \in Nat /\ burnt' \in Nat /\ swept' = burner' + burnt'
    <2>1. PICK t : t = swept'
      OBVIOUS
    <2>2. t \in Nat /\ swept <= t
      BY <1>2, <2>1, Zenon
    <2>3. burner + (t - swept) \in Nat /\ t = (burner + (t - swept)) + burnt
      BY <1>2, <2>2
    <2>4. burner' = burner + (t - swept) /\ burnt' = burnt
      BY <2>1 DEF DistributorStep
    <2> QED
      BY <1>2, <2>1, <2>3, <2>4, Zenon
  <1>5. UNCHANGED <<config, debt_account, withdrawn>>
    BY DEF DistributorStep
  <1> QED
    BY <1>1, <1>3, <1>4, <1>5 DEF DfxInv, DebtHeld

\* claim_dfx moves what the distributor pays into the PDA's account.
LEMMA ClaimDfxKeeps ==
    ASSUME DfxInv, claim_dfx
    PROVE  DfxInv'
  <1>1. ReRootInv'
    <2>1. ReRootNext
      BY DebtAssumption DEF claim_dfx, ReRootNext, OtherInstruction, Claim
    <2> QED
      BY <2>1, NextReRootInv DEF DfxInv
  <1> DEFINE amount == SeedStatus(Tree[dist.root][Debt]).unlocked_amount_claimed
  <1>2. /\ wallet' = [wallet EXCEPT ![Debt] = @ + amount] /\ swept' = swept
        /\ debt_account' = debt_account + (wallet'[Debt] - wallet[Debt])
        /\ UNCHANGED <<config, withdrawn, burner, burnt>>
    BY DEF claim_dfx, new_claim
  <1>3. amount \in Nat
    BY Zenon, DebtAssumption, SeedFacts DEF DfxInv, ReRootInv, claim_dfx
  <1>4. wallet \in [Claimants -> Nat] /\ wallet[Debt] \in Nat /\ debt_account \in Nat
    BY DebtAssumption DEF DfxInv, ReRootInv, IndInv, TypeOK
  <1> HIDE DEF amount
  <1>5. wallet'[Debt] = wallet[Debt] + amount
    BY <1>2, <1>4, DebtAssumption
  <1>6. debt_account' = debt_account + amount /\ debt_account' \in Nat
    BY <1>2, <1>3, <1>4, <1>5
  <1>7. config # None => withdrawn[config] \in Nat
    BY DEF DfxInv
  <1>8. DebtHeld'
    BY <1>2, <1>3, <1>4, <1>5, <1>6, <1>7 DEF DfxInv, DebtHeld
  <1> QED
    BY <1>1, <1>2, <1>6, <1>8 DEF DfxInv

\* A withdrawal moves tokens from the account to the configured admin.
LEMMA WithdrawKeeps ==
    ASSUME DfxInv, NEW k \in Admins, NEW n \in {1, U64_MAX}, withdraw(k, n)
    PROVE  DfxInv'
  <1> DEFINE take == IF n = U64_MAX THEN debt_account ELSE n
  <1>1. /\ config = k /\ take <= debt_account
        /\ debt_account' = debt_account - take
        /\ withdrawn' = [withdrawn EXCEPT ![k] = @ + take]
        /\ UNCHANGED <<reVars, config, burner, burnt>>
    BY DEF withdraw
  <1>2. debt_account \in Nat /\ withdrawn \in [Admins -> Nat] /\ withdrawn[k] \in Nat
    BY DEF DfxInv
  <1>3. take \in Nat
    BY <1>2, ClockAssumption
  <1> HIDE DEF take
  <1>4. /\ debt_account' \in Nat /\ withdrawn' \in [Admins -> Nat]
        /\ withdrawn'[k] = withdrawn[k] + take
        /\ \A j \in Admins \ {k} : withdrawn'[j] = withdrawn[j]
    BY <1>1, <1>2, <1>3
  <1>5. ReRootInv'
    BY <1>1, NextReRootInv DEF DfxInv
  <1>6. wallet' = wallet /\ swept' = swept
    BY <1>1 DEF reVars, vars
  <1>7. k # None
    BY DebtAssumption
  <1>8. DebtHeld'
    BY <1>1, <1>2, <1>3, <1>4, <1>6, <1>7 DEF DfxInv, DebtHeld
  <1> QED
    BY <1>1, <1>4, <1>5, <1>6, <1>8 DEF DfxInv

\* Every step of the three programs preserves DfxInv.
LEMMA NextDfxInv == DfxInv /\ [DfxNext]_dfxVars => DfxInv'
  <1> SUFFICES ASSUME DfxInv, [DfxNext]_dfxVars PROVE DfxInv'
    OBVIOUS
  <1>1. ASSUME UNCHANGED reVars PROVE ReRootInv' /\ wallet' = wallet /\ swept' = swept
    BY <1>1, NextReRootInv DEF DfxInv, reVars, vars
  <1>2. CASE burn
    BY <1>1, <1>2 DEF burn, DfxInv, DebtHeld
  <1>3. ASSUME NEW k \in Admins, initialize(k) PROVE DfxInv'
    <2>1. /\ config = None /\ config' = k
          /\ UNCHANGED <<reVars, debt_account, withdrawn, burner, burnt>>
      BY <1>3 DEF initialize
    <2>2. withdrawn[k] = 0 /\ k # None
      BY <2>1, DebtAssumption DEF DfxInv
    <2>3. DebtHeld'
      BY <1>1, <2>1, <2>2 DEF DfxInv, DebtHeld
    <2>4. \A j \in Admins : withdrawn'[j] = 0
      BY <2>1, DebtAssumption DEF DfxInv
    <2> QED
      BY <1>1, <2>1, <2>3, <2>4 DEF DfxInv
  <1>4. CASE UNCHANGED dfxVars
    BY <1>1, <1>4 DEF dfxVars, DfxInv, DebtHeld
  <1> QED
    BY <1>2, <1>3, <1>4, DistributorStepKeeps, ClaimDfxKeeps, WithdrawKeeps DEF DfxNext

\* DfxInv accounts for every token of the three programs.
LEMMA AccountedNow == DfxInv => SupplyAccounted
  <1> SUFFICES ASSUME DfxInv PROVE SupplyAccounted
    OBVIOUS
  <1> DEFINE others == SumFunction([c \in Claimants \ {Debt} |-> wallet[c]])
             held == IF config = None THEN 0 ELSE withdrawn[config]
  <1>1. /\ wallet \in [Claimants -> Int] /\ wallet[Debt] \in Nat
        /\ vault \in Nat /\ swept \in Nat /\ burned \in Nat
    BY DebtAssumption DEF DfxInv, ReRootInv, IndInv, TypeOK
  <1>2. others = SumFunction(wallet) - wallet[Debt]
    BY <1>1, ClaimantsAssumption, DebtAssumption, SumWithout
  <1>3. SumFunction(wallet) \in Int
    BY <1>1, ClaimantsAssumption, SumInt
  <1>4. wallet = [c \in Claimants |-> PaidBy(status[c])]
    BY <1>1 DEF DfxInv, ReRootInv, IndInv, PaidWithinLeaf
  <1>5. retired.claimed + ClaimedNow = SumFunction(wallet)
    BY <1>4 DEF DfxInv, ReRootInv, CountersMatchStatuses
  <1>6. retired.claimed \in Nat /\ ClaimedNow \in Nat
    BY DistributorFields DEF DfxInv, ReRootInv, IndInv, TypeOK, Totals, ClaimedNow
  <1>7. funded = vault + swept + burned + retired.claimed + ClaimedNow
    BY DEF DfxInv, ReRootInv, IndInv, LedgerBalanced
  <1>8. SumFunction(withdrawn) = held
    <2>1. withdrawn \in [Admins -> Int]
      BY DEF DfxInv
    <2>2. CASE config = None
      <3>1. \A k \in Admins : withdrawn[k] = 0
        BY <2>2, DebtAssumption DEF DfxInv
      <3> QED
        BY <2>1, <2>2, <3>1, DebtAssumption, SumOfZeros
    <2>3. CASE config # None
      <3>1. config \in Admins /\ \A k \in Admins \ {config} : withdrawn[k] = 0
        BY <2>3 DEF DfxInv
      <3> QED
        BY <2>1, <2>3, <3>1, DebtAssumption, SumOfOne
    <2> QED
      BY <2>2, <2>3
  <1>9. held \in Nat
    BY DEF DfxInv
  <1>10. /\ wallet[Debt] = debt_account + held
         /\ swept = burner + burnt
         /\ debt_account \in Nat /\ burner \in Nat /\ burnt \in Nat
    BY DEF DfxInv, DebtHeld
  <1> HIDE DEF others, held
  <1>11. funded = vault + others + debt_account + held + burned + burner + burnt
    BY <1>1, <1>2, <1>3, <1>5, <1>6, <1>7, <1>9, <1>10
  <1> QED
    BY <1>8, <1>11 DEF SupplyAccounted, others

\* The inductive invariant of the three programs holds in every reachable state.
THEOREM DfxInvHolds == DfxSpec => []DfxInv
  BY InitDfxInv, NextDfxInv, PTL DEF DfxSpec

\* Through any number of re-rootings, built from any reading of the chain,
\* max_total_claim covers what was paid, forgone and is still owed: the root and
\* the claim count that validate_set_root compares are enough.
THEOREM EntitlementsStayCovered == DfxSpec => []EntitlementsCovered
  <1>1. DfxInv => EntitlementsCovered
    BY CoveredNow DEF DfxInv
  <1> QED
    BY <1>1, DfxInvHolds, PTL

\* No requirement of handle_new_claim or handle_claim_locked ever refuses an
\* honest claim on a funded distributor.
THEOREM HonestClaimsPass == DfxSpec => []HonestClaimsAccepted
  <1>1. DfxInv => HonestClaimsAccepted
    BY AcceptedNow DEF DfxInv
  <1> QED
    BY <1>1, DfxInvHolds, PTL

\* What was paid for the PDA is in its account or with the configured admin.
THEOREM DebtStaysHeld == DfxSpec => []DebtHeld
  <1>1. DfxInv => DebtHeld
    BY DEF DfxInv
  <1> QED
    BY <1>1, DfxInvHolds, PTL

\* No token is lost or made by the distributor, the burner and the debt program.
THEOREM SupplyStaysAccounted == DfxSpec => []SupplyAccounted
  BY AccountedNow, DfxInvHolds, PTL
-----------------------------------------------------------------------------
(***************************************************************************)
(* fund-all never leaves a live distributor under-funded: DebtStep says    *)
(* that every instruction takes at most as much from the vault as from     *)
(* what is still promised, and FundInv carries that from the two reads     *)
(* over the transfer to its landing.                                       *)
(***************************************************************************)

\* The numbers a proof about a live distributor needs.
LEMMA DebtTypes ==
    ASSUME TypeOK, dist # None
    PROVE  /\ vault \in Nat
           /\ dist.max_total_claim \in Nat /\ dist.total_amount_claimed \in Nat
  BY DistributorFields DEF TypeOK

\* A claim keeps the account and changes neither its maximum nor its flags.
LEMMA ClaimKeepsAccount ==
    ASSUME IndInv, NEW c \in Claimants, new_claim(c) \/ claim_locked(c)
    PROVE  /\ dist' \in MerkleDistributor
           /\ dist'.closable = dist.closable
           /\ dist'.clawed_back = dist.clawed_back
           /\ dist'.max_total_claim = dist.max_total_claim
  <1>1. dist # None
    BY DEF new_claim, claim_locked, ClaimsOpen
  <1>2. /\ dist \in MerkleDistributor /\ dist.total_amount_claimed \in Nat
        /\ dist.total_amount_forgone \in Nat /\ dist.num_nodes_claimed \in Nat
    BY <1>1, DistributorFields DEF IndInv
  <1>3. CASE new_claim(c)
    <2> DEFINE s == SeedStatus(Tree[dist.root][c])
               claimed == dist.total_amount_claimed + s.unlocked_amount_claimed
               forgone == dist.total_amount_forgone + get_unlocked_amount_forgone(s)
    <2>1. claimed \in Nat /\ forgone \in Nat /\ dist.num_nodes_claimed + 1 \in Nat
      <3>1. s.unlocked_amount_claimed \in Nat /\ get_unlocked_amount_forgone(s) \in Nat
        BY <1>3, SeedFacts
      <3> HIDE DEF s
      <3> QED
        BY <1>2, <3>1
    <2>2. dist' = [dist EXCEPT !.num_nodes_claimed = @ + 1,
                               !.total_amount_claimed = claimed,
                               !.total_amount_forgone = forgone]
      BY <1>3 DEF new_claim
    <2> HIDE DEF s, claimed, forgone
    <2> QED
      BY Zenon, <1>2, <2>1, <2>2 DEF MerkleDistributor
  <1>4. CASE claim_locked(c)
    <2> DEFINE amount == amount_withdrawable(status[c])
               vested == unlocked_amount(status[c].locked_amount, now,
                                         dist.start_ts, dist.end_ts)
    <2>1. status[c] # None /\ amount > 0
          /\ dist' = [dist EXCEPT !.total_amount_claimed =
                                    dist.total_amount_claimed + amount]
      BY <1>4 DEF claim_locked
    <2>2. /\ status[c].locked_amount \in Nat
          /\ status[c].locked_amount_withdrawn \in Nat
      BY <2>1, StatusFields DEF IndInv
    <2>3. /\ dist.start_ts \in Nat /\ dist.end_ts \in Nat /\ now \in Nat
          /\ dist.start_ts < dist.end_ts
      BY <1>1, DistributorFields DEF IndInv, TypeOK, WindowKept
    <2>4. vested \in Nat
      BY Zenon, <2>2, <2>3, VestedBounds
    <2>5. amount \in Int
      BY <2>2, <2>4 DEF amount_withdrawable
    <2> HIDE DEF amount
    <2>6. dist.total_amount_claimed + amount \in Nat
      BY <1>2, <2>1, <2>5
    <2> QED
      BY <1>2, <2>1, <2>6 DEF MerkleDistributor
  <1> QED
    BY <1>3, <1>4

\* A landing transfer is a deposit: it keeps the chain's invariant.
LEMMA LandIndInv ==
    ASSUME IndInv, FundTypeOK, NEW t \in inflight, Land(t)
    PROVE  IndInv'
  <1>1. t.amount \in Nat
    BY DEF FundTypeOK
  <1>2. /\ UNCHANGED <<now, slot, dist, status, wallet, swept, burned, retired>>
        /\ vault' = vault + t.amount /\ funded' = funded + t.amount
    BY DEF Land
  <1>3. vault' \in Nat /\ funded' \in Nat /\ funded' - vault' = funded - vault
    BY <1>1, <1>2 DEF IndInv, TypeOK
  <1>4. TypeOK'
    BY <1>2, <1>3 DEF IndInv, TypeOK
  <1>5. LedgerBalanced'
    <2>1. ClaimedNow \in Nat /\ ClaimedNow' = ClaimedNow
      BY <1>2, DistributorFields DEF IndInv, ClaimedNow
    <2> QED
      BY <1>2, <1>3, <2>1 DEF IndInv, TypeOK, Totals, LedgerBalanced
  <1>6. /\ WindowKept' /\ WithinMaxTotalClaim' /\ ClawbackAfterVesting'
        /\ StatusesCounted' /\ PaidWithinLeaf' /\ NeverAheadOfVesting'
    BY Zenon, <1>2 DEF IndInv, WindowKept, WithinMaxTotalClaim, ClawbackAfterVesting,
                StatusesCounted, NodesNow, PaidWithinLeaf, PaidBy,
                NeverAheadOfVesting
  <1> QED
    BY <1>4, <1>5, <1>6 DEF IndInv

\* Steps of the command: the target is what is promised when it is read.
LEMMA CommandStep ==
    ASSUME IndInv, FundInv, process_fund_all
    PROVE  FundInv' /\ UNCHANGED vars
  <1>0. UNCHANGED vars
    BY Zenon DEF process_fund_all, ReadDistributor, ReadVault, Abort
  <1>1. UNCHANGED <<dist, vault>>
    BY <1>0 DEF vars
  <1>2. CASE ReadDistributor
    <2>1. /\ dist # None /\ ~dist.clawed_back
          /\ dist.total_amount_claimed <= FileTotal
          /\ target' = FileTotal - dist.total_amount_claimed
          /\ runs' = runs + 1 /\ UNCHANGED <<inflight, covered>>
      BY <1>2 DEF ReadDistributor
    <2>2. dist.max_total_claim \in Nat /\ dist.total_amount_claimed \in Nat
      BY <2>1, DebtTypes DEF IndInv
    <2>3. /\ target' \in Nat
          /\ target' >= dist.max_total_claim - dist.total_amount_claimed
      BY <2>1, <2>2, FileAssumption DEF FundInv
    <2> QED
      BY <1>0, <1>1, <2>1, <2>3 DEF FundInv, FundTypeOK, Live, Solvent
  <1>3. CASE ReadVault
    <2>1. target # None /\ target' = None /\ runs' = runs
      BY <1>3 DEF ReadVault
    <2>2. target \in Nat /\ vault \in Nat /\ dist # None
      BY <2>1 DEF FundInv, FundTypeOK, IndInv, TypeOK
    <2>3. dist.max_total_claim \in Nat /\ dist.total_amount_claimed \in Nat
      BY <2>2, DebtTypes DEF IndInv
    <2>4. CASE vault >= target
      <3>1. covered' = TRUE /\ inflight' = inflight
        BY <1>3, <2>4 DEF ReadVault
      <3>2. Live => Solvent
        BY <2>1, <2>2, <2>3, <2>4 DEF FundInv, Solvent
      <3> QED
        BY <1>0, <1>1, <2>1, <2>2, <3>1, <3>2 DEF FundInv, FundTypeOK, Live, Solvent
    <2>5. CASE ~(vault >= target)
      <3> DEFINE t == [run |-> runs, amount |-> target - vault]
      <3>1. inflight' = inflight \cup {t} /\ covered' = covered
        BY <1>3, <2>5 DEF ReadVault
      <3>2. t.amount \in Nat /\ t.run \in Nat /\ vault + t.amount = target
        BY <2>2, <2>5 DEF FundInv, FundTypeOK
      <3>3. t \in [run : Nat, amount : Nat]
        BY <3>2
      <3>4. Live => vault + t.amount
                      >= dist.max_total_claim - dist.total_amount_claimed
        BY <2>1, <3>2 DEF FundInv
      <3> HIDE DEF t
      <3>5. FundTypeOK'
        BY <2>1, <3>1, <3>3 DEF FundInv, FundTypeOK
      <3> QED
        BY <1>0, <1>1, <2>1, <2>2, <3>1, <3>4, <3>5 DEF FundInv, Live, Solvent
    <2> QED
      BY <2>4, <2>5
  <1>4. CASE Abort
    <2>1. target' = None /\ UNCHANGED <<runs, inflight, covered>>
      BY <1>4 DEF Abort
    <2> QED
      BY <1>0, <1>1, <2>1 DEF FundInv, FundTypeOK, Live, Solvent
  <1> QED
    BY <1>0, <1>2, <1>3, <1>4 DEF process_fund_all

\* A transfer that lands brings the vault to what is still promised; one that
\* expires changes nothing the others rely on.
LEMMA TransferStep ==
    ASSUME IndInv, FundInv, NEW t \in inflight, Land(t) \/ Expire(t)
    PROVE  FundInv'
  <1>1. /\ dist # None /\ dist' = dist /\ t.amount \in Nat
        /\ target' = target /\ runs' = runs
        /\ inflight' = inflight \ {t}
    BY DEF FundInv, FundTypeOK, Land, Expire, vars
  <1>2. /\ vault \in Nat /\ dist.max_total_claim \in Nat
        /\ dist.total_amount_claimed \in Nat
    BY <1>1, DebtTypes DEF IndInv
  <1>3. \/ vault' = vault + t.amount /\ covered' = TRUE
        \/ vault' = vault /\ covered' = covered
    BY DEF Land, Expire, vars
  <1>4. FundTypeOK'
    BY Zenon, <1>1, <1>3 DEF FundInv, FundTypeOK
  <1>5. Live' /\ covered' => Solvent'
    BY Zenon, <1>1, <1>2, <1>3 DEF FundInv, Live, Solvent
  <1>6. Live' => \A u \in inflight' :
                   vault' + u.amount
                     >= dist'.max_total_claim - dist'.total_amount_claimed
    <2> SUFFICES ASSUME Live, NEW u \in inflight
                 PROVE  vault' + u.amount
                          >= dist.max_total_claim - dist.total_amount_claimed
      BY <1>1 DEF Live
    <2>1. u.amount \in Nat
      BY DEF FundInv, FundTypeOK
    <2>2. vault + u.amount >= dist.max_total_claim - dist.total_amount_claimed
      BY DEF FundInv
    <2> QED
      BY <1>1, <1>2, <1>3, <2>1, <2>2
  <1> QED
    BY <1>1, <1>4, <1>5, <1>6 DEF FundInv, Live

\* An instruction of anybody: the debt shrinks, so every bound survives.
LEMMA ChainStep ==
    ASSUME IndInv, FundInv, Next, UNCHANGED funderVars
    PROVE  FundInv'
  <1>1. UNCHANGED <<runs, target, inflight, covered>>
    BY DEF funderVars
  <1>2. IndInv'
    BY NextIndInv
  <1>3. FundTypeOK'
    BY <1>1 DEF FundInv, FundTypeOK
  <1>4. CASE dist = None
    <2>1. target = None /\ inflight = {} /\ ~covered
      BY <1>4 DEF FundInv
    <2>2. dist' # None => /\ ~dist'.closable
                          /\ dist'.max_total_claim = FileTotal
      <3>1. CASE dist' = dist
        BY <1>4, <3>1
      <3>2. CASE \E p \in Params : new_distributor(p)
        BY <3>2, FileAssumption DEF new_distributor
      <3>3. dist' = dist \/ \E p \in Params : new_distributor(p)
        BY <1>4 DEF Next, Claim, new_claim, claim_locked, ClaimsOpen, clawback,
             set_root, Administer, set_enable_slot, set_clawback_start_ts,
             set_clawback_receiver, set_admin, close_distributor,
             Environment, Fund, Tick, NextSlot
      <3> QED
        BY <3>1, <3>2, <3>3
    <2>3. dist' # None => dist'.max_total_claim <= FileTotal
      BY <2>2, FileAssumption
    <2> QED
      BY <1>1, <1>3, <2>1, <2>2, <2>3 DEF FundInv
  <1>5. CASE dist # None
    <2>0. dist \in MerkleDistributor /\ ~dist.closable
      BY <1>5, DistributorFields DEF IndInv, FundInv
    <2>1. /\ dist' # None /\ ~dist'.closable
          /\ dist.clawed_back => dist'.clawed_back
          /\ \/ dist'.max_total_claim = dist.max_total_claim
             \/ dist'.max_total_claim <= dist.max_total_claim
      <3>2. CASE dist' = dist
        BY <2>0, <3>2, <1>5
      <3>3. ASSUME NEW c \in Claimants, new_claim(c) \/ claim_locked(c)
            PROVE  /\ dist' \in MerkleDistributor
                   /\ dist'.closable = dist.closable
                   /\ dist'.clawed_back = dist.clawed_back
                   /\ dist'.max_total_claim = dist.max_total_claim
        BY <3>3, ClaimKeepsAccount
      <3>4. CASE clawback
        BY Zenon, <2>0, <3>4, NoneAssumption DEF clawback, MerkleDistributor
      <3>5. ASSUME NEW p \in ReRoots, set_root(p)
            PROVE  /\ dist' \in MerkleDistributor
                   /\ dist'.closable = dist.closable
                   /\ dist'.clawed_back = dist.clawed_back
                   /\ dist'.max_total_claim <= dist.max_total_claim
        <4>1. p \in SetRootArgs
          BY ArgumentAssumption
        <4> QED
          BY Zenon, <2>0, <3>5, <4>1 DEF set_root, validate_set_root, MerkleDistributor, SetRootArgs
      <3>6. ASSUME Administer
            PROVE  /\ dist' \in MerkleDistributor
                   /\ dist'.closable = dist.closable
                   /\ dist'.clawed_back = dist.clawed_back
                   /\ dist'.max_total_claim = dist.max_total_claim
        BY <2>0, <3>6, ArgumentAssumption DEF Administer, set_enable_slot,
             set_clawback_start_ts, set_clawback_receiver, set_admin,
             close_distributor, MerkleDistributor
      <3>7. CASE Environment
        BY <3>2, <3>7 DEF Environment, Fund, Tick, NextSlot
      <3>8. ASSUME NEW p \in Params, new_distributor(p) PROVE FALSE
        BY <1>5, <3>8 DEF new_distributor
      <3> QED
        BY <2>0, <3>3, <3>4, <3>5, <3>6, <3>7, <3>8, NoneAssumption
        DEF Next, Claim
    <2>2. /\ dist.max_total_claim \in Nat /\ dist.total_amount_claimed \in Nat
          /\ vault \in Nat
      BY <1>5, DebtTypes DEF IndInv
    <2>3. /\ dist'.max_total_claim \in Nat /\ dist'.total_amount_claimed \in Nat
          /\ vault' \in Nat
      BY <1>2, <2>1 DEF IndInv, TypeOK, MerkleDistributor
    <2>4. dist'.max_total_claim <= FileTotal
      BY <1>5, <2>1, <2>2, <2>3, FileAssumption DEF FundInv
    <2>5. CASE ~dist'.clawed_back
      <3>1. Live /\ DebtShrinks
        BY <1>5, <2>1, <2>5, DebtStep DEF Live
      <3>2. covered => Solvent'
        BY <2>2, <2>3, <3>1 DEF FundInv, DebtShrinks, Owed, Solvent
      <3>3. target # None =>
              target >= dist'.max_total_claim - dist'.total_amount_claimed
        <4> SUFFICES ASSUME target # None
                     PROVE  target >= dist'.max_total_claim - dist'.total_amount_claimed
          OBVIOUS
        <4>1. /\ target \in Nat
              /\ target >= dist.max_total_claim - dist.total_amount_claimed
          BY <3>1 DEF FundInv, FundTypeOK
        <4> QED
          BY <2>2, <2>3, <3>1, <4>1 DEF DebtShrinks, Owed
      <3>4. ASSUME NEW t \in inflight
            PROVE  vault' + t.amount
                     >= dist'.max_total_claim - dist'.total_amount_claimed
        <4>1. /\ t.amount \in Nat
              /\ vault + t.amount >= dist.max_total_claim - dist.total_amount_claimed
          BY <3>1 DEF FundInv, FundTypeOK
        <4> QED
          BY <2>2, <2>3, <3>1, <4>1 DEF DebtShrinks, Owed
      <3> QED
        BY <1>1, <1>3, <2>1, <2>4, <3>2, <3>3, <3>4 DEF FundInv
    <2>6. CASE dist'.clawed_back
      BY <1>1, <1>3, <2>1, <2>4, <2>6 DEF FundInv, Live
    <2> QED
      BY <2>5, <2>6
  <1> QED
    BY <1>4, <1>5

\* A covered distributor stays able to pay everything it promises.
THEOREM FundingCovers == FundSpec => []CoveredIsSolvent
  <1>1. FundInit => IndInv /\ FundInv
    <2>1. Init => dist = None
      BY DEF Init
    <2>2. FundInit => FundInv
      <3> SUFFICES ASSUME FundInit PROVE FundInv
        OBVIOUS
      <3>1. dist = None /\ runs = 0 /\ target = None /\ inflight = {} /\ covered = FALSE
        BY <2>1 DEF FundInit
      <3>2. runs \in Nat
        BY <3>1
      <3>3. FundTypeOK
        BY <3>1, <3>2, Zenon DEF FundTypeOK
      <3> QED
        BY <3>1, <3>3, Zenon DEF FundInv, Live
    <2> QED
      BY <2>2, InitIndInv DEF FundInit
  <1>2. IndInv /\ FundInv /\ [FundNext]_fundVars => (IndInv /\ FundInv)'
    <2> SUFFICES ASSUME IndInv, FundInv, [FundNext]_fundVars
                 PROVE  IndInv' /\ FundInv'
      OBVIOUS
    <2>1. CASE process_fund_all
      BY <2>1, CommandStep, NextIndInv
    <2>2. CASE \E t \in inflight : Land(t) \/ Expire(t)
      <3>1. PICK t \in inflight : Land(t) \/ Expire(t)
        BY <2>2
      <3>2. FundTypeOK
        BY DEF FundInv
      <3>3. CASE Land(t)
        BY <3>2, <3>3, LandIndInv, TransferStep
      <3>4. CASE Expire(t)
        <4>1. UNCHANGED vars
          BY <3>4 DEF Expire
        <4> QED
          BY <3>4, <4>1, NextIndInv, TransferStep
      <3> QED
        BY <3>1, <3>3, <3>4
    <2>3. CASE Next /\ UNCHANGED funderVars
      BY <2>3, NextIndInv, ChainStep
    <2>4. CASE UNCHANGED fundVars
      <3>1. UNCHANGED vars /\ UNCHANGED funderVars
        BY <2>4 DEF fundVars
      <3>2. FundInv'
        BY <3>1 DEF vars, funderVars, FundInv, FundTypeOK, Live, Solvent
      <3> QED
        BY <3>1, <3>2, NextIndInv
    <2> QED
      BY <2>1, <2>2, <2>3, <2>4 DEF FundNext
  <1>3. FundInv => CoveredIsSolvent
    BY DEF FundInv, CoveredIsSolvent
  <1> QED
    BY <1>1, <1>2, <1>3, PTL DEF FundSpec
=============================================================================
