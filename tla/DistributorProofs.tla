------------------------- MODULE DistributorProofs -------------------------
(***************************************************************************)
(* The safety of Distributor for every set of claimants, every tree, every *)
(* argument of the instructions and every bound of the clocks: the vesting *)
(* arithmetic, the inductive invariant, what follows from it, the counters *)
(* as sums over the claimants, and the refinement of Airdrop.              *)
(***************************************************************************)
EXTENDS DistributorRefinesAirdrop, SumProofs

-----------------------------------------------------------------------------
(***************************************************************************)
(* Bounds and monotonicity of the vesting arithmetic, for all amounts and  *)
(* all times.  These are the facts the safety of the distributor rests on. *)
(***************************************************************************)

\* A rounded-down share of an amount is a natural number, at most the amount.
LEMMA ShareBounds ==
    ASSUME NEW amount \in Nat, NEW whole \in Nat, whole > 0,
           NEW part \in Nat, part <= whole
    PROVE  /\ Share(amount, part, whole) \in Nat
           /\ Share(amount, part, whole) <= amount
  BY DEF Share

\* A larger part of the same amount is a larger share, rounding included.
LEMMA ShareMonotone ==
    ASSUME NEW amount \in Nat, NEW whole \in Nat, whole > 0,
           NEW p \in Nat, NEW q \in Nat, p <= q
    PROVE  Share(amount, p, whole) <= Share(amount, q, whole)
  BY DEF Share

\* The start amount is a natural number, at most the amount itself, so
\* `unlocked_amount.checked_sub(start_amount)` never fails.
LEMMA StartAmountBounds ==
    ASSUME NEW unlocked \in Nat
    PROVE  /\ start_amount(unlocked) \in Nat
           /\ start_amount(unlocked) <= unlocked
  BY ShareBounds DEF start_amount, START_CLAIM_PCT, PCT_PRECISION

\* What has vested of the locked tokens lies between nothing and all of them:
\* the cast to u64 in ClaimStatus::unlocked_amount keeps the value.
THEOREM VestedBounds ==
    ASSUME NEW locked \in Nat, NEW ts \in Nat,
           NEW start \in Nat, NEW end \in Nat, start < end
    PROVE  /\ unlocked_amount(locked, ts, start, end) \in Nat
           /\ unlocked_amount(locked, ts, start, end) <= locked
  <1>1. CASE ts < start \/ ts >= end
    BY <1>1 DEF unlocked_amount
  <1>2. CASE ~(ts < start \/ ts >= end)
    <2>1. /\ ts - start \in Nat /\ end - start \in Nat
          /\ end - start > 0 /\ ts - start <= end - start
      BY <1>2
    <2> QED
      BY <1>2, <2>1, ShareBounds DEF unlocked_amount
  <1> QED
    BY <1>1, <1>2

\* The vested amount never decreases as time passes, so that the subtraction
\* of what was withdrawn at an earlier time (ClaimStatus::amount_withdrawable)
\* never underflows while a distributor keeps its vesting window.
THEOREM VestedMonotone ==
    ASSUME NEW locked \in Nat, NEW ts \in Nat, NEW later \in Nat, ts <= later,
           NEW start \in Nat, NEW end \in Nat, start < end
    PROVE  unlocked_amount(locked, ts, start, end)
             <= unlocked_amount(locked, later, start, end)
  <1>1. CASE ts < start \/ later >= end
    <2>1. /\ unlocked_amount(locked, ts, start, end) \in Nat
          /\ unlocked_amount(locked, ts, start, end) <= locked
          /\ unlocked_amount(locked, later, start, end) \in Nat
      BY Zenon, VestedBounds
    <2>2. CASE ts < start
      BY <2>1, <2>2 DEF unlocked_amount
    <2>3. CASE later >= end
      <3>1. unlocked_amount(locked, later, start, end) = locked
        BY <2>3 DEF unlocked_amount
      <3> QED
        BY <2>1, <3>1
    <2> QED
      BY <1>1, <2>2, <2>3
  <1>2. CASE ~(ts < start \/ later >= end)
    <2>1. /\ ts - start \in Nat /\ later - start \in Nat
          /\ end - start \in Nat /\ end - start > 0
          /\ ts - start <= later - start
      BY <1>2
    <2>2. Share(locked, ts - start, end - start)
            <= Share(locked, later - start, end - start)
      BY <2>1, ShareMonotone
    <2> QED
      BY <1>2, <2>2 DEF unlocked_amount
  <1> QED
    BY <1>1, <1>2

\* A claim pays at least the start amount and at most the unlocked amount, so
\* get_unlocked_amount_forgone never underflows.
THEOREM ClaimedBounds ==
    ASSUME NEW unlocked \in Nat, NEW ts \in Nat,
           NEW start \in Nat, NEW end \in Nat, start < end, start <= ts
    PROVE  /\ unlocked_amount_claimed(unlocked, ts, start, end) \in Nat
           /\ start_amount(unlocked)
                <= unlocked_amount_claimed(unlocked, ts, start, end)
           /\ unlocked_amount_claimed(unlocked, ts, start, end) <= unlocked
  <1> DEFINE base == start_amount(unlocked)
  <1>1. /\ base \in Nat /\ base <= unlocked /\ unlocked - base \in Nat
    BY StartAmountBounds
  <1>2. CASE ts >= end
    BY <1>1, <1>2 DEF unlocked_amount_claimed
  <1>3. CASE ts < end
    <2> DEFINE bonus == Share(unlocked - base, ts - start, end - start)
    <2>1. /\ ts - start \in Nat /\ end - start \in Nat
          /\ end - start > 0 /\ ts - start <= end - start
      BY <1>3
    <2>2. bonus \in Nat /\ bonus <= unlocked - base
      BY <1>1, <2>1, ShareBounds
    <2>3. unlocked_amount_claimed(unlocked, ts, start, end) = base + bonus
      BY <1>3 DEF unlocked_amount_claimed
    <2> HIDE DEF base, bonus
    <2>4. /\ base + bonus \in Nat /\ base <= base + bonus
          /\ base + bonus <= unlocked
      BY <1>1, <2>2
    <2> QED
      BY <2>3, <2>4 DEF base
  <1> QED
    BY <1>2, <1>3

\* Claiming later never pays less: what a claimant forgoes by claiming early
\* can only shrink if they wait.
THEOREM ClaimedMonotone ==
    ASSUME NEW unlocked \in Nat, NEW ts \in Nat, NEW later \in Nat,
           NEW start \in Nat, NEW end \in Nat,
           start < end, start <= ts, ts <= later
    PROVE  unlocked_amount_claimed(unlocked, ts, start, end)
             <= unlocked_amount_claimed(unlocked, later, start, end)
  <1> DEFINE base == start_amount(unlocked)
  <1>1. CASE later >= end
    BY Zenon, <1>1, ClaimedBounds DEF unlocked_amount_claimed
  <1>2. CASE later < end
    <2>1. /\ base \in Nat /\ unlocked - base \in Nat
      BY StartAmountBounds
    <2>2. /\ ts - start \in Nat /\ later - start \in Nat
          /\ end - start \in Nat /\ end - start > 0
          /\ ts - start <= later - start
          /\ ts - start <= end - start /\ later - start <= end - start
      BY <1>2
    <2>3. /\ Share(unlocked - base, ts - start, end - start)
               <= Share(unlocked - base, later - start, end - start)
          /\ Share(unlocked - base, ts - start, end - start) \in Nat
          /\ Share(unlocked - base, later - start, end - start) \in Nat
      BY <2>1, <2>2, ShareMonotone, ShareBounds
    <2>4. ts < end
      BY <1>2
    <2> QED
      BY <1>2, <2>1, <2>3, <2>4 DEF unlocked_amount_claimed
  <1> QED
    BY <1>1, <1>2
-----------------------------------------------------------------------------
(***************************************************************************)
(* The inductive invariant, instruction by instruction.                    *)
(***************************************************************************)
USE DEF ghosts, NewClaimAllowed, ClaimLockedAllowed

\* Every field of an existing distributor has its type.
LEMMA DistributorFields ==
    ASSUME TypeOK, dist # None
    PROVE  /\ dist \in MerkleDistributor
           /\ dist.root \in Roots
           /\ dist.max_total_claim \in Nat /\ dist.max_num_nodes \in Nat
           /\ dist.total_amount_claimed \in Nat
           /\ dist.total_amount_forgone \in Nat
           /\ dist.num_nodes_claimed \in Nat
           /\ dist.start_ts \in Nat /\ dist.end_ts \in Nat
           /\ dist.clawback_start_ts \in Nat
           /\ dist.clawed_back \in BOOLEAN
  BY DEF TypeOK, MerkleDistributor

\* Every field of an existing ClaimStatus account has its type.
LEMMA StatusFields ==
    ASSUME TypeOK, NEW c \in Claimants, status[c] # None
    PROVE  /\ status[c] \in ClaimStatus
           /\ status[c].locked_amount \in Nat
           /\ status[c].locked_amount_withdrawn \in Nat
           /\ status[c].unlocked_amount \in Nat
           /\ status[c].unlocked_amount_claimed \in Nat
  BY DEF TypeOK, ClaimStatus

\* The initial state, before the distributor is created, satisfies IndInv.
LEMMA InitIndInv == Init => IndInv
  <1> SUFFICES ASSUME Init PROVE IndInv
    OBVIOUS
  <1>1. TypeOK
    BY DEF Init, TypeOK, Totals
  <1>2. /\ WindowKept /\ WithinMaxTotalClaim /\ ClawbackAfterVesting
        /\ NeverAheadOfVesting /\ StatusesCounted
    BY DEF Init, WindowKept, WithinMaxTotalClaim, ClawbackAfterVesting,
           NeverAheadOfVesting, StatusesCounted
  <1>3. LedgerBalanced /\ PaidWithinLeaf
    BY DEF Init, LedgerBalanced, ClaimedNow, PaidWithinLeaf, PaidBy
  <1> QED
    BY <1>1, <1>2, <1>3 DEF IndInv

\* What handle_new_claim seeds: a well-typed status that has paid at most its
\* unlocked amount and withdrawn nothing.
LEMMA SeedFacts ==
    ASSUME IndInv, NEW c \in Claimants, new_claim(c)
    PROVE  LET s == SeedStatus(Tree[dist.root][c])
           IN  /\ s \in ClaimStatus
               /\ s.unlocked_amount \in Nat
               /\ s.unlocked_amount_claimed \in Nat
               /\ s.unlocked_amount_claimed <= s.unlocked_amount
               /\ s.locked_amount \in Nat
               /\ s.locked_amount_withdrawn = 0
               /\ get_unlocked_amount_forgone(s) \in Nat
  <1> DEFINE leaf == Tree[dist.root][c]
             paid == unlocked_amount_claimed(leaf.unlocked, now,
                                             dist.start_ts, dist.end_ts)
  <1>1. /\ dist # None /\ dist.start_ts <= now /\ c \in DOMAIN Tree[dist.root]
    BY DEF new_claim, ClaimsOpen
  <1>2. /\ dist.root \in Roots /\ dist.start_ts \in Nat /\ dist.end_ts \in Nat
        /\ dist.start_ts < dist.end_ts /\ now \in Nat
    BY <1>1, DistributorFields DEF IndInv, WindowKept, TypeOK
  <1>3. leaf.unlocked \in Nat /\ leaf.locked \in Nat
    BY <1>1, <1>2, TreeAssumption DEF Leaf
  <1>4. paid \in Nat /\ paid <= leaf.unlocked
    BY <1>1, <1>2, <1>3, ClaimedBounds
  <1>5. SeedStatus(leaf) = [locked_amount |-> leaf.locked,
                            locked_amount_withdrawn |-> 0,
                            unlocked_amount |-> leaf.unlocked,
                            unlocked_amount_claimed |-> paid]
    BY DEF SeedStatus
  <1> HIDE DEF leaf, paid
  <1> QED
    BY <1>3, <1>4, <1>5 DEF ClaimStatus, get_unlocked_amount_forgone, leaf

\* handle_new_distributor establishes the window and starts every total at 0.
LEMMA NewDistributorStep ==
    ASSUME IndInv, NEW p \in Params, new_distributor(p)
    PROVE  IndInv'
  <1>1. p \in NewDistributorArgs /\ Deployer \in Admins
    BY ArgumentAssumption
  <1>2. dist = None /\ dist' \in MerkleDistributor /\ dist' # None
    <2>1. /\ p.root \in Roots /\ p.max_total_claim \in Nat
          /\ p.max_num_nodes \in Nat /\ p.start_vesting_ts \in Nat
          /\ p.end_vesting_ts \in Nat /\ p.clawback_start_ts \in Nat
          /\ p.clawback_receiver \in Receivers /\ p.enable_slot \in Nat
          /\ p.closable \in BOOLEAN
      BY <1>1 DEF NewDistributorArgs
    <2>2. dist' \in MerkleDistributor
      BY <1>1, <2>1 DEF new_distributor, MerkleDistributor
    <2> QED
      BY Zenon, <2>2, NoneAssumption DEF new_distributor
  <1>3. TypeOK'
    BY <1>2 DEF IndInv, TypeOK, new_distributor
  <1>4. WindowKept' /\ ClawbackAfterVesting'
    BY DEF new_distributor, ValidTimestamps, WindowKept, ClawbackAfterVesting
  <1>5. LedgerBalanced'
    BY <1>2 DEF IndInv, new_distributor, LedgerBalanced, ClaimedNow
  <1>6. PaidWithinLeaf'
    BY DEF IndInv, new_distributor, PaidWithinLeaf, PaidBy
  <1>7. WithinMaxTotalClaim'
    BY <1>1 DEF new_distributor, WithinMaxTotalClaim, NewDistributorArgs
  <1>8. StatusesCounted'
    BY <1>2 DEF IndInv, new_distributor, StatusesCounted, NodesNow
  <1>9. NeverAheadOfVesting'
    <2>1. retired.nodes = 0 => \A c \in Claimants : status'[c] = None
      BY <1>2 DEF IndInv, new_distributor, StatusesCounted, NodesNow
    <2> QED
      BY <2>1 DEF new_distributor, NeverAheadOfVesting
  <1> QED
    BY <1>3, <1>4, <1>5, <1>6, <1>7, <1>8, <1>9 DEF IndInv

\* An instruction that only changes settings of the distributor (pause,
\* clawback time, receiver, admin) keeps everything else, hence IndInv.
LEMMA SettingsStep ==
    ASSUME IndInv, dist # None, dist' \in MerkleDistributor,
           UNCHANGED <<now, status, vault, ghosts>>, slot' = slot,
           dist'.max_total_claim = dist.max_total_claim,
           dist'.max_num_nodes = dist.max_num_nodes,
           dist'.total_amount_claimed = dist.total_amount_claimed,
           dist'.num_nodes_claimed = dist.num_nodes_claimed,
           dist'.start_ts = dist.start_ts, dist'.end_ts = dist.end_ts,
           dist'.clawed_back = dist.clawed_back,
           dist'.clawback_start_ts >= dist.end_ts + SECONDS_PER_DAY
    PROVE  IndInv'
  <1>1. dist' # None
    BY NoneAssumption
  <1>2. TypeOK'
    BY DEF IndInv, TypeOK
  <1>3. WindowKept' /\ WithinMaxTotalClaim' /\ ClawbackAfterVesting'
    BY DEF IndInv, WindowKept, WithinMaxTotalClaim, ClawbackAfterVesting
  <1>4. LedgerBalanced' /\ StatusesCounted'
    BY <1>1 DEF IndInv, LedgerBalanced, ClaimedNow, StatusesCounted, NodesNow
  <1>5. PaidWithinLeaf' /\ NeverAheadOfVesting'
    BY DEF IndInv, PaidWithinLeaf, PaidBy, NeverAheadOfVesting
  <1> QED
    BY <1>2, <1>3, <1>4, <1>5 DEF IndInv

\* The four instructions of SettingsStep.
LEMMA SettersStep ==
    ASSUME IndInv,
           \/ \E s \in EnableSlots : set_enable_slot(s)
           \/ \E ts \in ClawbackTimes : set_clawback_start_ts(ts)
           \/ \E to \in Receivers : set_clawback_receiver(to)
           \/ \E a \in Admins : set_admin(a)
    PROVE  IndInv'
  <1>0. dist # None
    BY DEF set_enable_slot, set_clawback_start_ts, set_clawback_receiver, set_admin
  <1>1. /\ dist \in MerkleDistributor
        /\ dist.clawback_start_ts >= dist.end_ts + SECONDS_PER_DAY
    BY <1>0 DEF IndInv, TypeOK, WindowKept
  <1>2. ASSUME NEW s \in EnableSlots, set_enable_slot(s) PROVE IndInv'
    <2>1. dist' = [dist EXCEPT !.enable_slot = s] /\ s \in Nat
      BY <1>2, ArgumentAssumption DEF set_enable_slot
    <2>2. UNCHANGED <<now, slot, status, vault, ghosts>>
      BY <1>2 DEF set_enable_slot
    <2> QED
      BY <1>0, <1>1, <2>1, <2>2, SettingsStep DEF MerkleDistributor
  <1>3. ASSUME NEW ts \in ClawbackTimes, set_clawback_start_ts(ts) PROVE IndInv'
    <2>1. /\ dist' = [dist EXCEPT !.clawback_start_ts = ts] /\ ts \in Nat
          /\ ts >= dist.end_ts + SECONDS_PER_DAY
      BY <1>3, ArgumentAssumption DEF set_clawback_start_ts
    <2>2. UNCHANGED <<now, slot, status, vault, ghosts>>
      BY <1>3 DEF set_clawback_start_ts
    <2> QED
      BY <1>0, <1>1, <2>1, <2>2, SettingsStep DEF MerkleDistributor
  <1>4. ASSUME NEW to \in Receivers, set_clawback_receiver(to) PROVE IndInv'
    <2>1. dist' = [dist EXCEPT !.clawback_receiver = to]
      BY <1>4 DEF set_clawback_receiver
    <2>2. UNCHANGED <<now, slot, status, vault, ghosts>>
      BY <1>4 DEF set_clawback_receiver
    <2> QED
      BY <1>0, <1>1, <2>1, <2>2, SettingsStep DEF MerkleDistributor
  <1>5. ASSUME NEW a \in Admins, set_admin(a) PROVE IndInv'
    <2>1. dist' = [dist EXCEPT !.admin = a]
      BY <1>5 DEF set_admin
    <2>2. UNCHANGED <<now, slot, status, vault, ghosts>>
      BY <1>5 DEF set_admin
    <2> QED
      BY <1>0, <1>1, <2>1, <2>2, SettingsStep DEF MerkleDistributor
  <1> QED
    BY <1>2, <1>3, <1>4, <1>5

\* handle_new_claim: the transfer and the totals move together, the claimant's
\* first and only status is seeded within its leaf and its vesting.
LEMMA NewClaimStep ==
    ASSUME IndInv, NEW c \in Claimants, new_claim(c)
    PROVE  IndInv'
  <1> DEFINE s == SeedStatus(Tree[dist.root][c])
             amount == s.unlocked_amount_claimed
             gone == get_unlocked_amount_forgone(s)
  <1>1. /\ dist # None /\ status[c] = None /\ dist.start_ts <= now
        /\ ~dist.clawed_back
        /\ dist.num_nodes_claimed + 1 <= dist.max_num_nodes
    BY DEF new_claim, ClaimsOpen
  <1>2. /\ s \in ClaimStatus /\ s # None
        /\ amount \in Nat /\ amount <= s.unlocked_amount
        /\ s.unlocked_amount \in Nat /\ s.locked_amount \in Nat
        /\ s.locked_amount_withdrawn = 0 /\ gone \in Nat
    BY SeedFacts, NoneAssumption
  <1>3. /\ vault >= amount
        /\ dist.total_amount_claimed + amount
             + (dist.total_amount_forgone + gone) <= dist.max_total_claim
        /\ status' = [status EXCEPT ![c] = s]
        /\ vault' = vault - amount
        /\ wallet' = [wallet EXCEPT ![c] = @ + amount]
        /\ dist' = [dist EXCEPT
              !.num_nodes_claimed = @ + 1,
              !.total_amount_claimed = dist.total_amount_claimed + amount,
              !.total_amount_forgone = dist.total_amount_forgone + gone]
        /\ UNCHANGED <<now, slot, funded, swept, burned, retired>>
    BY DEF new_claim
  <1>4. amount = unlocked_amount_claimed(s.unlocked_amount, now,
                                         dist.start_ts, dist.end_ts)
    BY DEF SeedStatus
  <1> HIDE DEF s, amount, gone
  <1>5. /\ dist \in MerkleDistributor /\ dist.total_amount_claimed \in Nat
        /\ dist.total_amount_forgone \in Nat /\ dist.num_nodes_claimed \in Nat
        /\ dist.max_total_claim \in Nat /\ dist.max_num_nodes \in Nat
        /\ dist.start_ts \in Nat /\ dist.end_ts \in Nat
    BY <1>1, DistributorFields DEF IndInv
  <1>6. dist' \in MerkleDistributor /\ dist' # None
    <2>1. /\ dist.num_nodes_claimed + 1 \in Nat
          /\ dist.total_amount_claimed + amount \in Nat
          /\ dist.total_amount_forgone + gone \in Nat
      BY <1>2, <1>5
    <2>2. dist' \in MerkleDistributor
      BY Zenon, <1>3, <1>5, <2>1 DEF MerkleDistributor
    <2> QED
      BY <2>2, NoneAssumption
  <1>7. /\ dist'.total_amount_claimed = dist.total_amount_claimed + amount
        /\ dist'.total_amount_forgone = dist.total_amount_forgone + gone
        /\ dist'.num_nodes_claimed = dist.num_nodes_claimed + 1
        /\ dist'.max_total_claim = dist.max_total_claim
        /\ dist'.max_num_nodes = dist.max_num_nodes
        /\ dist'.start_ts = dist.start_ts /\ dist'.end_ts = dist.end_ts
        /\ dist'.clawback_start_ts = dist.clawback_start_ts
        /\ dist'.clawed_back = dist.clawed_back
    BY <1>3, <1>5 DEF MerkleDistributor
  <1>8. TypeOK'
    BY <1>2, <1>3, <1>6 DEF IndInv, TypeOK
  <1>9. WindowKept' /\ ClawbackAfterVesting' /\ WithinMaxTotalClaim'
    BY <1>1, <1>2, <1>3, <1>5, <1>7
    DEF IndInv, WindowKept, ClawbackAfterVesting, WithinMaxTotalClaim
  <1>10. LedgerBalanced'
    BY <1>1, <1>2, <1>3, <1>5, <1>6, <1>7
    DEF IndInv, TypeOK, Totals, LedgerBalanced, ClaimedNow
  <1>11. PaidWithinLeaf'
    <2> SUFFICES ASSUME NEW d \in Claimants
                 PROVE  /\ wallet'[d] = PaidBy(status'[d])
                        /\ status'[d] # None =>
                             /\ status'[d].unlocked_amount_claimed
                                  <= status'[d].unlocked_amount
                             /\ status'[d].locked_amount_withdrawn
                                  <= status'[d].locked_amount
      BY DEF PaidWithinLeaf, PaidBy
    <2>1. CASE d = c
      <3>1. wallet[c] = 0 /\ wallet'[c] = wallet[c] + amount /\ status'[c] = s
        BY <1>1, <1>3 DEF IndInv, TypeOK, PaidWithinLeaf, PaidBy
      <3> QED
        BY <1>2, <2>1, <3>1 DEF PaidBy, amount
    <2>2. CASE d # c
      BY <1>3, <2>2 DEF IndInv, TypeOK, PaidWithinLeaf, PaidBy
    <2> QED
      BY <2>1, <2>2
  <1>12. StatusesCounted'
    BY <1>3, <1>5, <1>6, <1>7 DEF IndInv, TypeOK, Totals, StatusesCounted, NodesNow
  <1>13. NeverAheadOfVesting'
    <2> SUFFICES ASSUME retired.nodes = 0, NEW d \in Claimants, status'[d] # None
                 PROVE  /\ dist.start_ts <= now
                        /\ status'[d].unlocked_amount_claimed
                             <= unlocked_amount_claimed(
                                  status'[d].unlocked_amount, now,
                                  dist.start_ts, dist.end_ts)
                        /\ status'[d].locked_amount_withdrawn
                             <= unlocked_amount(status'[d].locked_amount, now,
                                                dist.start_ts, dist.end_ts)
      BY <1>3, <1>7 DEF NeverAheadOfVesting
    <2>1. now \in Nat /\ dist.start_ts < dist.end_ts
      BY <1>1 DEF IndInv, TypeOK, WindowKept
    <2>2. CASE d = c
      <3>1. status'[d] = s
        BY <1>3, <2>2 DEF IndInv, TypeOK
      <3>2. unlocked_amount(s.locked_amount, now, dist.start_ts, dist.end_ts) \in Nat
        BY Zenon, <1>2, <1>5, <2>1, VestedBounds
      <3> QED
        BY <1>1, <1>2, <1>4, <3>1, <3>2 DEF amount
    <2>3. CASE d # c
      BY <1>1, <1>3, <2>3 DEF IndInv, TypeOK, NeverAheadOfVesting
    <2> QED
      BY <2>2, <2>3
  <1> QED
    BY <1>8, <1>9, <1>10, <1>11, <1>12, <1>13 DEF IndInv

\* handle_claim_locked: pays what has vested beyond what was withdrawn, so the
\* claimant is then exactly on schedule.
LEMMA ClaimLockedStep ==
    ASSUME IndInv, NEW c \in Claimants, claim_locked(c)
    PROVE  IndInv'
  <1> DEFINE s == status[c]
             amount == amount_withdrawable(s)
             vested == unlocked_amount(s.locked_amount, now,
                                       dist.start_ts, dist.end_ts)
  <1>1. dist # None /\ s # None /\ ~dist.clawed_back
    BY DEF claim_locked, ClaimsOpen
  <1>2. /\ dist \in MerkleDistributor /\ dist.total_amount_claimed \in Nat
        /\ dist.total_amount_forgone \in Nat /\ dist.num_nodes_claimed \in Nat
        /\ dist.max_total_claim \in Nat /\ dist.max_num_nodes \in Nat
        /\ dist.start_ts \in Nat /\ dist.end_ts \in Nat
        /\ dist.start_ts < dist.end_ts /\ now \in Nat
    BY <1>1, DistributorFields DEF IndInv, TypeOK, WindowKept
  <1>3. /\ s \in ClaimStatus /\ s.locked_amount \in Nat
        /\ s.locked_amount_withdrawn \in Nat /\ s.unlocked_amount \in Nat
        /\ s.unlocked_amount_claimed \in Nat
    BY <1>1, StatusFields DEF IndInv
  <1>4. vested \in Nat /\ vested <= s.locked_amount
    BY Zenon, <1>2, <1>3, VestedBounds
  <1>5. amount = vested - s.locked_amount_withdrawn
    BY DEF amount_withdrawable
  <1>6. /\ amount > 0 /\ vault >= amount
        /\ s.locked_amount_withdrawn + amount <= s.locked_amount
        /\ dist.total_amount_claimed + amount <= dist.max_total_claim
        /\ status' = [status EXCEPT
              ![c].locked_amount_withdrawn = s.locked_amount_withdrawn + amount]
        /\ vault' = vault - amount
        /\ wallet' = [wallet EXCEPT ![c] = @ + amount]
        /\ dist' = [dist EXCEPT
              !.total_amount_claimed = dist.total_amount_claimed + amount]
        /\ UNCHANGED <<now, slot, funded, swept, burned, retired>>
    BY DEF claim_locked
  <1> HIDE DEF amount, vested
  <1>7. amount \in Nat /\ s.locked_amount_withdrawn + amount = vested
    BY <1>3, <1>4, <1>5, <1>6
  <1>8. /\ status' = [status EXCEPT ![c] =
                        [s EXCEPT !.locked_amount_withdrawn = vested]]
        /\ status \in [Claimants -> ClaimStatus \cup {None}]
    BY Zenon, <1>6, <1>7 DEF IndInv, TypeOK
  <1> DEFINE t == [s EXCEPT !.locked_amount_withdrawn = vested]
  <1>9. /\ t \in ClaimStatus /\ t # None
        /\ t.locked_amount_withdrawn = vested
        /\ t.locked_amount = s.locked_amount
        /\ t.unlocked_amount = s.unlocked_amount
        /\ t.unlocked_amount_claimed = s.unlocked_amount_claimed
    BY <1>3, <1>4, NoneAssumption DEF ClaimStatus
  <1>10. status'[c] = t /\ \A d \in Claimants \ {c} : status'[d] = status[d]
    BY <1>8
  <1> HIDE DEF t
  <1>11. dist' \in MerkleDistributor /\ dist' # None
    BY <1>2, <1>6, <1>7, NoneAssumption DEF MerkleDistributor
  <1>12. /\ dist'.total_amount_claimed = dist.total_amount_claimed + amount
         /\ dist'.num_nodes_claimed = dist.num_nodes_claimed
         /\ dist'.max_total_claim = dist.max_total_claim
         /\ dist'.max_num_nodes = dist.max_num_nodes
         /\ dist'.start_ts = dist.start_ts /\ dist'.end_ts = dist.end_ts
         /\ dist'.clawback_start_ts = dist.clawback_start_ts
         /\ dist'.clawed_back = dist.clawed_back
    BY <1>2, <1>6 DEF MerkleDistributor
  <1>13. TypeOK'
    <2>1. status' \in [Claimants -> ClaimStatus \cup {None}]
      BY <1>8, <1>9 DEF t
    <2>2. wallet' \in [Claimants -> Nat] /\ vault' \in Nat
      BY <1>6, <1>7 DEF IndInv, TypeOK
    <2> QED
      BY <1>6, <1>11, <2>1, <2>2 DEF IndInv, TypeOK
  <1>14. WindowKept' /\ ClawbackAfterVesting' /\ WithinMaxTotalClaim'
    BY <1>1, <1>2, <1>6, <1>12
    DEF IndInv, WindowKept, ClawbackAfterVesting, WithinMaxTotalClaim
  <1>15. LedgerBalanced'
    BY <1>1, <1>2, <1>6, <1>7, <1>11, <1>12
    DEF IndInv, TypeOK, Totals, LedgerBalanced, ClaimedNow
  <1>16. PaidWithinLeaf'
    <2> SUFFICES ASSUME NEW d \in Claimants
                 PROVE  /\ wallet'[d] = PaidBy(status'[d])
                        /\ status'[d] # None =>
                             /\ status'[d].unlocked_amount_claimed
                                  <= status'[d].unlocked_amount
                             /\ status'[d].locked_amount_withdrawn
                                  <= status'[d].locked_amount
      BY DEF PaidWithinLeaf, PaidBy
    <2>1. CASE d = c
      <3>1. /\ wallet[c] = s.unlocked_amount_claimed + s.locked_amount_withdrawn
            /\ wallet'[c] = wallet[c] + amount
            /\ s.unlocked_amount_claimed <= s.unlocked_amount
        BY <1>1, <1>6 DEF IndInv, TypeOK, PaidWithinLeaf, PaidBy
      <3>2. wallet'[c] = s.unlocked_amount_claimed + vested
        BY <1>3, <1>4, <1>7, <3>1
      <3> QED
        BY <1>4, <1>9, <1>10, <2>1, <3>1, <3>2 DEF PaidBy
    <2>2. CASE d # c
      BY <1>6, <1>10, <2>2 DEF IndInv, TypeOK, PaidWithinLeaf, PaidBy
    <2> QED
      BY <2>1, <2>2
  <1>17. StatusesCounted'
    <2>1. retired.nodes + dist.num_nodes_claimed # 0
      BY <1>1 DEF IndInv, StatusesCounted, NodesNow
    <2> QED
      BY <1>6, <1>11, <1>12, <2>1 DEF StatusesCounted, NodesNow
  <1>18. NeverAheadOfVesting'
    <2> SUFFICES ASSUME retired.nodes = 0, NEW d \in Claimants, status'[d] # None
                 PROVE  /\ dist.start_ts <= now
                        /\ status'[d].unlocked_amount_claimed
                             <= unlocked_amount_claimed(
                                  status'[d].unlocked_amount, now,
                                  dist.start_ts, dist.end_ts)
                        /\ status'[d].locked_amount_withdrawn
                             <= unlocked_amount(status'[d].locked_amount, now,
                                                dist.start_ts, dist.end_ts)
      BY <1>6, <1>12 DEF NeverAheadOfVesting
    <2>1. CASE d = c
      <3>1. /\ dist.start_ts <= now
            /\ s.unlocked_amount_claimed
                 <= unlocked_amount_claimed(s.unlocked_amount, now,
                                            dist.start_ts, dist.end_ts)
        BY <1>1 DEF IndInv, NeverAheadOfVesting
      <3>2. vested <= unlocked_amount(s.locked_amount, now,
                                      dist.start_ts, dist.end_ts)
        BY <1>4 DEF vested
      <3> QED
        BY <1>9, <1>10, <2>1, <3>1, <3>2
    <2>2. CASE d # c
      BY <1>1, <1>10, <2>2 DEF IndInv, NeverAheadOfVesting
    <2> QED
      BY <2>1, <2>2
  <1> QED
    BY <1>13, <1>14, <1>15, <1>16, <1>17, <1>18 DEF IndInv

\* handle_clawback moves the whole vault and can only run a day after the end
\* of vesting, because the window is kept.
LEMMA ClawbackStep ==
    ASSUME IndInv, clawback
    PROVE  IndInv'
  <1>1. /\ dist # None /\ now >= dist.clawback_start_ts
        /\ dist' = [dist EXCEPT !.clawed_back = TRUE]
        /\ UNCHANGED <<now, slot, status, wallet, funded, burned, retired>>
    BY DEF clawback
  <1>2. vault' \in Nat /\ swept' \in Nat /\ vault' + swept' = vault + swept
    BY DEF clawback, Sweep, IndInv, TypeOK
  <1>3. /\ dist \in MerkleDistributor /\ dist.end_ts \in Nat
        /\ dist.clawback_start_ts \in Nat /\ now \in Nat
        /\ dist.total_amount_claimed \in Nat
    BY <1>1, DistributorFields DEF IndInv, TypeOK
  <1>4. dist' \in MerkleDistributor
    BY Zenon, <1>1, <1>3 DEF MerkleDistributor
  <1>5. dist' # None
    BY <1>4, NoneAssumption
  <1>6. /\ dist'.total_amount_claimed = dist.total_amount_claimed
        /\ dist'.num_nodes_claimed = dist.num_nodes_claimed
        /\ dist'.max_total_claim = dist.max_total_claim
        /\ dist'.max_num_nodes = dist.max_num_nodes
        /\ dist'.start_ts = dist.start_ts /\ dist'.end_ts = dist.end_ts
        /\ dist'.clawback_start_ts = dist.clawback_start_ts
    BY <1>1, <1>3 DEF MerkleDistributor
  <1>7. TypeOK'
    BY <1>1, <1>2, <1>4 DEF IndInv, TypeOK
  <1>8. WindowKept' /\ WithinMaxTotalClaim' /\ ClawbackAfterVesting'
    BY <1>1, <1>3, <1>6, ClockAssumption
    DEF IndInv, WindowKept, WithinMaxTotalClaim, ClawbackAfterVesting
  <1>9. LedgerBalanced'
    <2>1. ClaimedNow' = ClaimedNow /\ ClaimedNow \in Nat
      BY <1>1, <1>3, <1>5, <1>6 DEF ClaimedNow
    <2> QED
      BY <1>1, <1>2, <1>3, <2>1 DEF IndInv, TypeOK, Totals, LedgerBalanced
  <1>10. StatusesCounted'
    BY <1>1, <1>5, <1>6 DEF IndInv, StatusesCounted, NodesNow
  <1>11. PaidWithinLeaf' /\ NeverAheadOfVesting'
    BY <1>1, <1>6 DEF IndInv, PaidWithinLeaf, PaidBy, NeverAheadOfVesting
  <1> QED
    BY <1>7, <1>8, <1>9, <1>10, <1>11 DEF IndInv

\* handle_set_root burns the decrease of max_total_claim and keeps it at or
\* above what was claimed.
LEMMA SetRootStep ==
    ASSUME IndInv, NEW p \in SetRootArgs, set_root(p)
    PROVE  IndInv'
  <1> DEFINE cut == dist.max_total_claim - p.new_max_total_claim
  <1>1. /\ dist # None
        /\ p.new_max_total_claim <= dist.max_total_claim
        /\ p.new_max_total_claim
             >= dist.total_amount_claimed + dist.total_amount_forgone
        /\ vault >= cut /\ vault' = vault - cut /\ burned' = burned + cut
        /\ dist' = [dist EXCEPT !.root = p.new_root,
                                !.max_total_claim = p.new_max_total_claim]
        /\ UNCHANGED <<now, slot, status, wallet, funded, swept, retired>>
    BY DEF set_root, validate_set_root
  <1>2. p.new_root \in Roots /\ p.new_max_total_claim \in Nat
    BY DEF SetRootArgs
  <1>3. /\ dist \in MerkleDistributor /\ dist.total_amount_claimed \in Nat
        /\ dist.total_amount_forgone \in Nat /\ dist.max_total_claim \in Nat
    BY <1>1, DistributorFields DEF IndInv
  <1>4. dist' \in MerkleDistributor
    BY Zenon, <1>1, <1>2, <1>3 DEF MerkleDistributor
  <1>5. dist' # None
    BY <1>4, NoneAssumption
  <1>6. /\ dist'.total_amount_claimed = dist.total_amount_claimed
        /\ dist'.num_nodes_claimed = dist.num_nodes_claimed
        /\ dist'.max_total_claim = p.new_max_total_claim
        /\ dist'.max_num_nodes = dist.max_num_nodes
        /\ dist'.start_ts = dist.start_ts /\ dist'.end_ts = dist.end_ts
        /\ dist'.clawback_start_ts = dist.clawback_start_ts
        /\ dist'.clawed_back = dist.clawed_back
    BY <1>1, <1>3 DEF MerkleDistributor
  <1>7. TypeOK'
    BY <1>1, <1>2, <1>3, <1>4 DEF IndInv, TypeOK
  <1>8. WindowKept' /\ WithinMaxTotalClaim' /\ ClawbackAfterVesting'
    BY <1>1, <1>2, <1>3, <1>6
    DEF IndInv, WindowKept, WithinMaxTotalClaim, ClawbackAfterVesting
  <1>9. LedgerBalanced'
    <2>1. ClaimedNow' = ClaimedNow /\ ClaimedNow \in Nat
      BY <1>1, <1>3, <1>5, <1>6 DEF ClaimedNow
    <2> QED
      BY <1>1, <1>2, <1>3, <2>1 DEF IndInv, TypeOK, Totals, LedgerBalanced
  <1>10. StatusesCounted'
    BY <1>1, <1>5, <1>6 DEF IndInv, StatusesCounted, NodesNow
  <1>11. PaidWithinLeaf' /\ NeverAheadOfVesting'
    BY <1>1, <1>6 DEF IndInv, PaidWithinLeaf, PaidBy, NeverAheadOfVesting
  <1> QED
    BY <1>7, <1>8, <1>9, <1>10, <1>11 DEF IndInv

\* handle_close_distributor retires the totals; the statuses stay counted.
LEMMA CloseStep ==
    ASSUME IndInv, NEW to \in Receivers, close_distributor(to)
    PROVE  IndInv'
  <1>1. /\ dist # None /\ dist' = None
        /\ retired' = [claimed |-> retired.claimed + dist.total_amount_claimed,
                       forgone |-> retired.forgone + dist.total_amount_forgone,
                       nodes   |-> retired.nodes + dist.num_nodes_claimed]
        /\ UNCHANGED <<now, slot, status, wallet, funded, burned>>
    BY DEF close_distributor
  <1>2. vault' \in Nat /\ swept' \in Nat /\ vault' + swept' = vault + swept
    BY DEF close_distributor, Sweep, IndInv, TypeOK
  <1>3. /\ dist.total_amount_claimed \in Nat /\ dist.num_nodes_claimed \in Nat
        /\ dist.total_amount_forgone \in Nat
    BY <1>1, DistributorFields DEF IndInv
  <1>4. TypeOK'
    BY <1>1, <1>2, <1>3 DEF IndInv, TypeOK, Totals
  <1>5. /\ WindowKept' /\ WithinMaxTotalClaim' /\ ClawbackAfterVesting'
        /\ NeverAheadOfVesting'
    BY <1>1 DEF WindowKept, WithinMaxTotalClaim, ClawbackAfterVesting,
                NeverAheadOfVesting
  <1>6. LedgerBalanced'
    <2>1. /\ retired.claimed \in Nat /\ vault \in Nat /\ swept \in Nat
          /\ burned \in Nat /\ funded \in Nat
      BY DEF IndInv, TypeOK, Totals
    <2>2. /\ retired'.claimed = retired.claimed + dist.total_amount_claimed
          /\ ClaimedNow' = 0 /\ ClaimedNow = dist.total_amount_claimed
      BY <1>1 DEF ClaimedNow
    <2>3. funded = vault + swept + burned + retired.claimed + ClaimedNow
      BY DEF IndInv, LedgerBalanced
    <2>4. funded' = funded /\ burned' = burned
      BY <1>1
    <2>5. funded' = vault' + swept' + burned'
                    + (retired.claimed + dist.total_amount_claimed)
      <3>1. funded = vault + swept + burned
                     + (retired.claimed + dist.total_amount_claimed)
        BY <1>3, <2>1, <2>2, <2>3
      <3>2. vault + swept + burned = vault' + swept' + burned'
        BY Zenon, <1>2, <2>1, <2>4
      <3> QED
        BY Zenon, <1>2, <1>3, <2>1, <2>4, <3>1, <3>2
    <2>6. funded' = vault' + swept' + burned' + retired'.claimed + ClaimedNow'
      BY <1>2, <1>3, <2>1, <2>2, <2>4, <2>5
    <2> QED
      BY <2>6 DEF LedgerBalanced
  <1>7. StatusesCounted'
    BY <1>1, <1>3 DEF IndInv, TypeOK, Totals, StatusesCounted, NodesNow
  <1>8. PaidWithinLeaf'
    BY <1>1 DEF IndInv, PaidWithinLeaf, PaidBy
  <1> QED
    BY <1>4, <1>5, <1>6, <1>7, <1>8 DEF IndInv

\* Transfers into the vault and the slot clock change nothing a claim owes.
LEMMA FundStep ==
    ASSUME IndInv, (\E n \in Deposits : Fund(n)) \/ NextSlot
    PROVE  IndInv'
  <1>1. /\ UNCHANGED <<now, dist, status, wallet, swept, burned, retired>>
        /\ vault' \in Nat /\ funded' \in Nat /\ slot' \in Nat
        /\ funded' - vault' = funded - vault
    BY ArgumentAssumption DEF Fund, NextSlot, IndInv, TypeOK
  <1>2. TypeOK'
    BY <1>1 DEF IndInv, TypeOK
  <1>3. LedgerBalanced'
    <2>1. ClaimedNow \in Nat /\ ClaimedNow' = ClaimedNow
      BY <1>1, DistributorFields DEF IndInv, ClaimedNow
    <2> QED
      BY <1>1, <2>1 DEF IndInv, TypeOK, Totals, LedgerBalanced
  <1>4. /\ WindowKept' /\ WithinMaxTotalClaim' /\ ClawbackAfterVesting'
        /\ StatusesCounted' /\ PaidWithinLeaf' /\ NeverAheadOfVesting'
    BY <1>1 DEF IndInv, WindowKept, WithinMaxTotalClaim, ClawbackAfterVesting,
                StatusesCounted, NodesNow, PaidWithinLeaf, PaidBy,
                NeverAheadOfVesting
  <1> QED
    BY <1>2, <1>3, <1>4 DEF IndInv

\* Time passing keeps everyone within the schedule, because both vesting
\* formulas are monotone.
LEMMA TickStep ==
    ASSUME IndInv, Tick
    PROVE  IndInv'
  <1>1. /\ now \in Nat /\ now' \in Nat /\ now <= now'
        /\ UNCHANGED <<slot, dist, status, vault, ghosts>>
    BY DEF Tick, IndInv, TypeOK
  <1>2. TypeOK'
    BY <1>1 DEF IndInv, TypeOK
  <1>3. /\ WindowKept' /\ WithinMaxTotalClaim'
        /\ StatusesCounted' /\ PaidWithinLeaf'
    BY <1>1 DEF IndInv, WindowKept, WithinMaxTotalClaim,
                StatusesCounted, NodesNow, PaidWithinLeaf, PaidBy
  <1>4. LedgerBalanced'
    BY <1>1 DEF IndInv, LedgerBalanced, ClaimedNow
  <1>5. ClawbackAfterVesting'
    BY <1>1, DistributorFields, ClockAssumption DEF IndInv, ClawbackAfterVesting
  <1>6. NeverAheadOfVesting'
    <2> SUFFICES ASSUME dist # None, retired.nodes = 0,
                        NEW c \in Claimants, status[c] # None
                 PROVE  /\ dist.start_ts <= now'
                        /\ status[c].unlocked_amount_claimed
                             <= unlocked_amount_claimed(
                                  status[c].unlocked_amount, now',
                                  dist.start_ts, dist.end_ts)
                        /\ status[c].locked_amount_withdrawn
                             <= unlocked_amount(status[c].locked_amount, now',
                                                dist.start_ts, dist.end_ts)
      BY <1>1 DEF NeverAheadOfVesting
    <2>1. /\ dist.start_ts \in Nat /\ dist.end_ts \in Nat
          /\ dist.start_ts < dist.end_ts
      BY DistributorFields DEF IndInv, WindowKept
    <2>2. /\ status[c].locked_amount \in Nat /\ status[c].unlocked_amount \in Nat
          /\ status[c].locked_amount_withdrawn \in Nat
          /\ status[c].unlocked_amount_claimed \in Nat
      BY StatusFields DEF IndInv
    <2>3. /\ dist.start_ts <= now
          /\ status[c].unlocked_amount_claimed
               <= unlocked_amount_claimed(status[c].unlocked_amount, now,
                                          dist.start_ts, dist.end_ts)
          /\ status[c].locked_amount_withdrawn
               <= unlocked_amount(status[c].locked_amount, now,
                                  dist.start_ts, dist.end_ts)
      BY DEF IndInv, NeverAheadOfVesting
    <2>4. dist.start_ts <= now'
      BY <1>1, <2>1, <2>3
    <2>5. /\ unlocked_amount_claimed(status[c].unlocked_amount, now,
                                     dist.start_ts, dist.end_ts) \in Nat
          /\ unlocked_amount_claimed(status[c].unlocked_amount, now',
                                     dist.start_ts, dist.end_ts) \in Nat
          /\ unlocked_amount_claimed(status[c].unlocked_amount, now,
                                     dist.start_ts, dist.end_ts)
               <= unlocked_amount_claimed(status[c].unlocked_amount, now',
                                          dist.start_ts, dist.end_ts)
      BY Zenon, <1>1, <2>1, <2>2, <2>3, <2>4, ClaimedBounds, ClaimedMonotone
    <2>6. /\ unlocked_amount(status[c].locked_amount, now,
                             dist.start_ts, dist.end_ts) \in Nat
          /\ unlocked_amount(status[c].locked_amount, now',
                             dist.start_ts, dist.end_ts) \in Nat
          /\ unlocked_amount(status[c].locked_amount, now,
                             dist.start_ts, dist.end_ts)
               <= unlocked_amount(status[c].locked_amount, now',
                                  dist.start_ts, dist.end_ts)
      BY Zenon, <1>1, <2>1, <2>2, VestedBounds, VestedMonotone
    <2> QED
      BY <2>2, <2>3, <2>4, <2>5, <2>6
  <1> QED
    BY <1>2, <1>3, <1>4, <1>5, <1>6 DEF IndInv

\* Every instruction and every step of the environment preserves IndInv.
LEMMA NextIndInv == IndInv /\ [Next]_vars => IndInv'
  <1> SUFFICES ASSUME IndInv, [Next]_vars PROVE IndInv'
    OBVIOUS
  <1>1. CASE \E p \in Params : new_distributor(p)
    BY <1>1, NewDistributorStep
  <1>2. CASE Claim
    BY <1>2, NewClaimStep, ClaimLockedStep DEF Claim
  <1>3. CASE clawback
    BY <1>3, ClawbackStep
  <1>4. CASE \E p \in ReRoots : set_root(p)
    BY <1>4, SetRootStep, ArgumentAssumption
  <1>5. CASE Administer
    BY <1>5, SettersStep, CloseStep DEF Administer
  <1>6. CASE Environment
    BY <1>6, FundStep, TickStep DEF Environment
  <1>7. CASE UNCHANGED vars
    BY <1>7 DEF vars, IndInv, TypeOK, WindowKept, LedgerBalanced, ClaimedNow,
                PaidWithinLeaf, PaidBy, WithinMaxTotalClaim,
                ClawbackAfterVesting, StatusesCounted, NodesNow,
                NeverAheadOfVesting
  <1> QED
    BY <1>1, <1>2, <1>3, <1>4, <1>5, <1>6, <1>7 DEF Next

\* The inductive invariant holds in every reachable state.
THEOREM IndInvHolds == Spec => []IndInv
  BY InitIndInv, NextIndInv, PTL DEF Spec

\* Every variable keeps its type; no balance or counter is ever negative.
THEOREM TypeCorrect == Spec => []TypeOK
  <1>1. IndInv => TypeOK
    BY DEF IndInv
  <1> QED
    BY <1>1, IndInvHolds, PTL

\* The counters of the program account for every token that left the vault.
THEOREM LedgerAlwaysBalanced == Spec => []LedgerBalanced
  <1>1. IndInv => LedgerBalanced
    BY DEF IndInv
  <1> QED
    BY <1>1, IndInvHolds, PTL

\* No claimant is ever paid more than the leaf it claimed, nor twice.
THEOREM NeverOverpaid == Spec => []PaidWithinLeaf
  <1>1. IndInv => PaidWithinLeaf
    BY DEF IndInv
  <1> QED
    BY <1>1, IndInvHolds, PTL

\* No distributor pays beyond max_total_claim or max_num_nodes.
THEOREM MaximaRespected == Spec => []WithinMaxTotalClaim
  <1>1. IndInv => WithinMaxTotalClaim
    BY DEF IndInv
  <1> QED
    BY <1>1, IndInvHolds, PTL

\* Nothing is paid before it has vested.
THEOREM VestingRespected == Spec => []NeverAheadOfVesting
  <1>1. IndInv => NeverAheadOfVesting
    BY DEF IndInv
  <1> QED
    BY <1>1, IndInvHolds, PTL

\* A clawback comes at least a day after the end of vesting.
THEOREM ClawbackWaits == Spec => []ClawbackAfterVesting
  <1>1. IndInv => ClawbackAfterVesting
    BY DEF IndInv
  <1> QED
    BY <1>1, IndInvHolds, PTL

\* What the distributor still promises, and that a step only ever lowers it,
\* by at least as much as it takes from the vault.
Owed == dist.max_total_claim - dist.total_amount_claimed

DebtShrinks ==
    /\ Owed' <= Owed
    /\ Owed' - vault' <= Owed - vault
    /\ dist'.max_total_claim <= dist.max_total_claim

\* Every instruction but the clawback and the close shrinks the debt.
LEMMA DebtStep ==
    ASSUME IndInv, Next, dist # None, dist' # None, ~dist'.clawed_back
    PROVE  DebtShrinks
  <1> DEFINE claimed == dist.total_amount_claimed
             owed == dist.max_total_claim
  <1>0. /\ dist \in MerkleDistributor /\ claimed \in Nat /\ owed \in Nat
        /\ vault \in Nat
    BY DistributorFields DEF IndInv, TypeOK
  <1>1. ASSUME NEW p \in Params, new_distributor(p) PROVE FALSE
    BY <1>1 DEF new_distributor
  <1>2. ASSUME NEW c \in Claimants, new_claim(c) PROVE DebtShrinks
    <2> DEFINE s == SeedStatus(Tree[dist.root][c])
    <2>1. s.unlocked_amount_claimed \in Nat
      BY <1>2, SeedFacts
    <2>2. /\ vault' = vault - s.unlocked_amount_claimed
          /\ dist'.total_amount_claimed = claimed + s.unlocked_amount_claimed
          /\ dist'.max_total_claim = owed
      BY <1>0, <1>2 DEF new_claim, MerkleDistributor
    <2> HIDE DEF s
    <2> QED
      BY <1>0, <2>1, <2>2 DEF DebtShrinks, Owed
  <1>3. ASSUME NEW c \in Claimants, claim_locked(c) PROVE DebtShrinks
    <2> DEFINE amount == amount_withdrawable(status[c])
    <2>1. /\ amount > 0
          /\ vault' = vault - amount
          /\ dist'.total_amount_claimed = claimed + amount
          /\ dist'.max_total_claim = owed
      BY <1>0, <1>3 DEF claim_locked, MerkleDistributor
    <2>2. amount \in Int
      <3>1. status[c] # None
        BY <1>3 DEF claim_locked
      <3>2. /\ status[c].locked_amount \in Nat
            /\ status[c].locked_amount_withdrawn \in Nat
        BY <3>1, StatusFields DEF IndInv
      <3>3. /\ dist.start_ts \in Nat /\ dist.end_ts \in Nat /\ now \in Nat
            /\ dist.start_ts < dist.end_ts
        BY DistributorFields DEF IndInv, TypeOK, WindowKept
      <3>4. unlocked_amount(status[c].locked_amount, now,
                            dist.start_ts, dist.end_ts) \in Nat
        BY Zenon, <3>2, <3>3, VestedBounds
      <3> QED
        BY <3>2, <3>4 DEF amount_withdrawable
    <2> HIDE DEF amount
    <2> QED
      BY <1>0, <2>1, <2>2 DEF DebtShrinks, Owed
  <1>4. ASSUME clawback PROVE FALSE
    BY <1>0, <1>4 DEF clawback, MerkleDistributor
  <1>5. ASSUME NEW p \in ReRoots, set_root(p) PROVE DebtShrinks
    <2>1. p.new_max_total_claim \in Nat
      BY ArgumentAssumption DEF SetRootArgs
    <2>2. /\ vault' = vault - (owed - p.new_max_total_claim)
          /\ dist'.total_amount_claimed = claimed
          /\ dist'.max_total_claim = p.new_max_total_claim
          /\ p.new_max_total_claim <= owed
      BY <1>0, <1>5 DEF set_root, validate_set_root, MerkleDistributor
    <2> QED
      BY <1>0, <2>1, <2>2 DEF DebtShrinks, Owed
  <1>6. ASSUME Administer PROVE DebtShrinks
    <2>1. /\ vault' = vault
          /\ dist'.total_amount_claimed = claimed
          /\ dist'.max_total_claim = owed
      BY <1>0, <1>6 DEF Administer, set_enable_slot, set_clawback_start_ts,
           set_clawback_receiver, set_admin, close_distributor, MerkleDistributor
    <2> QED
      BY <1>0, <2>1 DEF DebtShrinks, Owed
  <1>7. ASSUME Environment PROVE DebtShrinks
    <2>1. dist' = dist /\ vault' \in Nat /\ vault' >= vault
      BY <1>0, <1>7, ArgumentAssumption DEF Environment, Fund, Tick, NextSlot
    <2> QED
      BY <1>0, <2>1 DEF DebtShrinks, Owed
  <1> QED
    BY <1>1, <1>2, <1>3, <1>4, <1>5, <1>6, <1>7 DEF Next, Claim

\* So a solvent distributor stays solvent.
LEMMA SolvencyStep ==
    ASSUME IndInv, Next, dist # None, Solvent, dist' # None, ~dist'.clawed_back
    PROVE  Solvent'
  <1>1. DebtShrinks
    BY DebtStep
  <1>2. IndInv'
    BY NextIndInv
  <1>3. /\ vault \in Nat /\ vault' \in Nat
        /\ dist.max_total_claim \in Nat /\ dist.total_amount_claimed \in Nat
        /\ dist'.max_total_claim \in Nat /\ dist'.total_amount_claimed \in Nat
    BY <1>2, DistributorFields DEF IndInv, TypeOK, MerkleDistributor
  <1> QED
    BY <1>1, <1>3 DEF DebtShrinks, Owed, Solvent

\* A funded distributor stays able to pay all that max_total_claim promises
\* until it is clawed back or closed, re-rooting and burning included.
THEOREM SolvencyIsKept == Spec => SolvencyKept
  <1>1. IndInv /\ [Next]_vars
          => [dist # None /\ Solvent /\ dist' # None /\ ~dist'.clawed_back
                => Solvent']_vars
    BY SolvencyStep
  <1> QED
    BY <1>1, IndInvHolds, PTL DEF Spec, SolvencyKept

\* The step of FrozenAfterClawback, by instruction.
LEMMA FrozenStep ==
    ASSUME IndInv, Next, dist # None, dist.clawed_back
    PROVE  /\ wallet' = wallet /\ burned' = burned
           /\ dist' # None => /\ dist'.clawed_back
                              /\ dist'.root = dist.root
                              /\ dist'.max_total_claim = dist.max_total_claim
                              /\ dist'.clawback_start_ts = dist.clawback_start_ts
  <1>0. dist \in MerkleDistributor
    BY DistributorFields DEF IndInv
  <1>1. /\ ~(\E p \in Params : new_distributor(p))
        /\ ~Claim /\ ~clawback /\ ~(\E p \in ReRoots : set_root(p))
    BY DEF new_distributor, Claim, new_claim, claim_locked, ClaimsOpen,
           clawback, set_root, validate_set_root
  <1>2. CASE Administer
    BY <1>0, <1>2 DEF Administer, set_enable_slot, set_clawback_start_ts,
         set_clawback_receiver, set_admin, close_distributor, MerkleDistributor
  <1>3. CASE Environment
    BY <1>3 DEF Environment, Fund, Tick, NextSlot
  <1> QED
    BY <1>1, <1>2, <1>3 DEF Next

\* A clawed-back distributor pays and burns nothing any more.
THEOREM ClawbackIsFinal == Spec => FrozenAfterClawback
  <1>1. IndInv /\ [Next]_vars
          => [dist # None /\ dist.clawed_back =>
                /\ wallet' = wallet /\ burned' = burned
                /\ dist' # None =>
                     /\ dist'.clawed_back
                     /\ dist'.root = dist.root
                     /\ dist'.max_total_claim = dist.max_total_claim
                     /\ dist'.clawback_start_ts = dist.clawback_start_ts]_vars
    BY FrozenStep
  <1> QED
    BY <1>1, IndInvHolds, PTL DEF Spec, FrozenAfterClawback
-----------------------------------------------------------------------------
(***************************************************************************)
(* The counters as sums over the claimants.                                *)
(***************************************************************************)

\* What handle_new_claim does to the claimant's account and to the counters:
\* each counter grows by what the new account records.
LEMMA NewClaimEffect ==
    ASSUME IndInv, NEW c \in Claimants, new_claim(c)
    PROVE  /\ dist # None /\ status[c] = None
           /\ c \in DOMAIN Tree[dist.root]
           /\ status'[c] \in ClaimStatus /\ status'[c] # None
           /\ \A d \in Claimants \ {c} : status'[d] = status[d]
           /\ status'[c].unlocked_amount = Tree[dist.root][c].unlocked
           /\ status'[c].locked_amount = Tree[dist.root][c].locked
           /\ status'[c].locked_amount_withdrawn = 0
           /\ dist' # None
           /\ dist'.total_amount_claimed
                = dist.total_amount_claimed + PaidBy(status'[c])
           /\ dist'.total_amount_forgone
                = dist.total_amount_forgone + ForgoneBy(status'[c])
           /\ dist'.num_nodes_claimed = dist.num_nodes_claimed + 1
           /\ dist'.root = dist.root
           /\ dist'.max_total_claim = dist.max_total_claim
           /\ dist'.max_num_nodes = dist.max_num_nodes
           /\ retired' = retired
  <1> DEFINE s == SeedStatus(Tree[dist.root][c])
  <1>1. /\ dist # None /\ status[c] = None /\ c \in DOMAIN Tree[dist.root]
        /\ status' = [status EXCEPT ![c] = s]
        /\ dist' = [dist EXCEPT
              !.num_nodes_claimed = @ + 1,
              !.total_amount_claimed =
                  dist.total_amount_claimed + s.unlocked_amount_claimed,
              !.total_amount_forgone =
                  dist.total_amount_forgone + get_unlocked_amount_forgone(s)]
        /\ retired' = retired
    BY DEF new_claim, ClaimsOpen
  <1>2. /\ s \in ClaimStatus /\ s # None
        /\ s.unlocked_amount_claimed \in Nat /\ s.locked_amount_withdrawn = 0
        /\ get_unlocked_amount_forgone(s) \in Nat
    BY SeedFacts, NoneAssumption
  <1>3. /\ s.unlocked_amount = Tree[dist.root][c].unlocked
        /\ s.locked_amount = Tree[dist.root][c].locked
    BY DEF SeedStatus
  <1> HIDE DEF s
  <1>4. status'[c] = s /\ \A d \in Claimants \ {c} : status'[d] = status[d]
    BY <1>1 DEF IndInv, TypeOK
  <1>5. /\ PaidBy(s) = s.unlocked_amount_claimed
        /\ ForgoneBy(s) = get_unlocked_amount_forgone(s)
    BY <1>2 DEF PaidBy, ForgoneBy
  <1>6. dist \in MerkleDistributor
    BY <1>1, DistributorFields DEF IndInv
  <1>7. dist' # None
    <2>1. /\ dist.num_nodes_claimed + 1 \in Nat
          /\ dist.total_amount_claimed + s.unlocked_amount_claimed \in Nat
          /\ dist.total_amount_forgone + get_unlocked_amount_forgone(s) \in Nat
      BY <1>1, <1>2, DistributorFields DEF IndInv
    <2>2. dist' \in MerkleDistributor
      BY Zenon, <1>1, <1>6, <2>1 DEF MerkleDistributor
    <2> QED
      BY <2>2, NoneAssumption
  <1> QED
    BY <1>1, <1>2, <1>3, <1>4, <1>5, <1>6, <1>7 DEF MerkleDistributor

\* What handle_claim_locked does: total_amount_claimed grows by what the account
\* records in addition.
LEMMA ClaimLockedEffect ==
    ASSUME IndInv, NEW c \in Claimants, claim_locked(c)
    PROVE  /\ dist # None /\ status[c] # None
           /\ status'[c] \in ClaimStatus /\ status'[c] # None
           /\ \A d \in Claimants \ {c} : status'[d] = status[d]
           /\ status'[c].unlocked_amount = status[c].unlocked_amount
           /\ status'[c].unlocked_amount_claimed = status[c].unlocked_amount_claimed
           /\ status'[c].locked_amount = status[c].locked_amount
           /\ dist' # None
           /\ dist'.total_amount_claimed
                = dist.total_amount_claimed + (PaidBy(status'[c]) - PaidBy(status[c]))
           /\ dist'.total_amount_forgone = dist.total_amount_forgone
           /\ dist'.num_nodes_claimed = dist.num_nodes_claimed
           /\ dist'.root = dist.root
           /\ dist'.max_total_claim = dist.max_total_claim
           /\ dist'.max_num_nodes = dist.max_num_nodes
           /\ retired' = retired
  <1> DEFINE s == status[c]
             amount == amount_withdrawable(s)
             t == [s EXCEPT !.locked_amount_withdrawn = @ + amount]
  <1>1. /\ dist # None /\ s # None /\ amount > 0
        /\ status' = [status EXCEPT
              ![c].locked_amount_withdrawn = s.locked_amount_withdrawn + amount]
        /\ dist' = [dist EXCEPT
              !.total_amount_claimed = dist.total_amount_claimed + amount]
        /\ retired' = retired
    BY DEF claim_locked, ClaimsOpen
  <1>2. /\ s \in ClaimStatus /\ s.locked_amount \in Nat
        /\ s.locked_amount_withdrawn \in Nat /\ s.unlocked_amount_claimed \in Nat
    BY <1>1, StatusFields DEF IndInv
  <1>3. amount \in Int
    <2>1. /\ dist.start_ts \in Nat /\ dist.end_ts \in Nat /\ now \in Nat
          /\ dist.start_ts < dist.end_ts
      BY <1>1, DistributorFields DEF IndInv, TypeOK, WindowKept
    <2>2. unlocked_amount(s.locked_amount, now, dist.start_ts, dist.end_ts) \in Nat
      BY Zenon, <1>2, <2>1, VestedBounds
    <2> QED
      BY <1>2, <2>2 DEF amount_withdrawable
  <1> HIDE DEF amount
  <1>4. status' = [status EXCEPT ![c] = t]
    BY <1>1
  <1>5. /\ t \in ClaimStatus /\ t # None
        /\ t.unlocked_amount = s.unlocked_amount
        /\ t.unlocked_amount_claimed = s.unlocked_amount_claimed
        /\ t.locked_amount = s.locked_amount
        /\ t.locked_amount_withdrawn = s.locked_amount_withdrawn + amount
    BY <1>1, <1>2, <1>3, NoneAssumption DEF ClaimStatus
  <1> HIDE DEF t
  <1>6. status'[c] = t /\ \A d \in Claimants \ {c} : status'[d] = status[d]
    BY <1>4 DEF IndInv, TypeOK
  <1>7. PaidBy(t) - PaidBy(s) = amount
    BY <1>1, <1>2, <1>3, <1>5 DEF PaidBy
  <1>8. dist \in MerkleDistributor
    BY <1>1, DistributorFields DEF IndInv
  <1>9. dist' # None
    BY <1>1, <1>3, <1>8, DistributorFields, NoneAssumption DEF MerkleDistributor, IndInv
  <1> QED
    BY <1>1, <1>5, <1>6, <1>7, <1>8, <1>9 DEF MerkleDistributor

\* What an account records is a natural number.
LEMMA RecordedNat ==
    ASSUME NEW s \in ClaimStatus \cup {None},
           s # None => s.unlocked_amount_claimed <= s.unlocked_amount
    PROVE  PaidBy(s) \in Nat /\ ForgoneBy(s) \in Nat
  BY DEF ClaimStatus, PaidBy, ForgoneBy, get_unlocked_amount_forgone

\* When one account changes, the sums change by the difference it makes.
LEMMA SumsStep ==
    ASSUME IndInv, IndInv', NEW c \in Claimants,
           \A d \in Claimants \ {c} : status'[d] = status[d]
    PROVE  /\ SumFunction([d \in Claimants |-> PaidBy(status'[d])])
                = SumFunction([d \in Claimants |-> PaidBy(status[d])])
                    - PaidBy(status[c]) + PaidBy(status'[c])
           /\ SumFunction([d \in Claimants |-> ForgoneBy(status'[d])])
                = SumFunction([d \in Claimants |-> ForgoneBy(status[d])])
                    - ForgoneBy(status[c]) + ForgoneBy(status'[c])
  <1> DEFINE paid == [d \in Claimants |-> PaidBy(status[d])]
             gone == [d \in Claimants |-> ForgoneBy(status[d])]
             paid1 == [d \in Claimants |-> PaidBy(status'[d])]
             gone1 == [d \in Claimants |-> ForgoneBy(status'[d])]
  <1>1. \A d \in Claimants : PaidBy(status[d]) \in Nat /\ ForgoneBy(status[d]) \in Nat
    BY RecordedNat DEF IndInv, TypeOK, PaidWithinLeaf
  <1>2. \A d \in Claimants : PaidBy(status'[d]) \in Nat /\ ForgoneBy(status'[d]) \in Nat
    BY RecordedNat DEF IndInv, TypeOK, PaidWithinLeaf
  <1>3. \A d \in Claimants \ {c} : paid1[d] = paid[d] /\ gone1[d] = gone[d]
    OBVIOUS
  <1>4. /\ paid[c] = PaidBy(status[c]) /\ gone[c] = ForgoneBy(status[c])
        /\ paid1[c] = PaidBy(status'[c]) /\ gone1[c] = ForgoneBy(status'[c])
    OBVIOUS
  <1>0. /\ paid \in [Claimants -> Int] /\ gone \in [Claimants -> Int]
        /\ paid1 \in [Claimants -> Int] /\ gone1 \in [Claimants -> Int]
    BY <1>1, <1>2
  <1> HIDE DEF paid, gone, paid1, gone1
  <1>5. SumFunction(paid1) = SumFunction(paid) - paid[c] + paid1[c]
    BY <1>0, <1>3, ClaimantsAssumption, SumChange
  <1>6. SumFunction(gone1) = SumFunction(gone) - gone[c] + gone1[c]
    BY <1>0, <1>3, ClaimantsAssumption, SumChange
  <1> QED
    BY <1>4, <1>5, <1>6 DEF paid, gone, paid1, gone1

\* A step that leaves the accounts alone, and what the counters and the totals
\* of closed distributors add up to, leaves the counters right.
LEMMA CountersKept ==
    ASSUME CountersMatchStatuses, status' = status,
           retired'.claimed + ClaimedNow' = retired.claimed + ClaimedNow,
           retired'.forgone + ForgoneNow' = retired.forgone + ForgoneNow,
           retired'.nodes + NodesNow' = retired.nodes + NodesNow
    PROVE  CountersMatchStatuses'
  BY DEF CountersMatchStatuses

\* A counter and the sum it stands for grow together.
LEMMA Counted ==
    ASSUME NEW m \in Nat, NEW n \in Nat, NEW y \in Nat
    PROVE  m + (n + y) = (m + n) - 0 + y
  OBVIOUS

\* A first claim is counted.
LEMMA NewClaimCounted ==
    ASSUME IndInv, CountersMatchStatuses, NEW c \in Claimants, new_claim(c)
    PROVE  CountersMatchStatuses'
  <1>1. IndInv'
    BY NewClaimStep
  <1> DEFINE paid == SumFunction([d \in Claimants |-> PaidBy(status[d])])
             gone == SumFunction([d \in Claimants |-> ForgoneBy(status[d])])
             S == {d \in Claimants : status[d] # None}
  <1>2. /\ SumFunction([d \in Claimants |-> PaidBy(status'[d])])
             = paid - PaidBy(status[c]) + PaidBy(status'[c])
        /\ SumFunction([d \in Claimants |-> ForgoneBy(status'[d])])
             = gone - ForgoneBy(status[c]) + ForgoneBy(status'[c])
    BY <1>1, NewClaimEffect, SumsStep
  <1>3. PaidBy(status[c]) = 0 /\ ForgoneBy(status[c]) = 0
    BY NewClaimEffect DEF PaidBy, ForgoneBy
  <1>4. PaidBy(status'[c]) \in Nat /\ ForgoneBy(status'[c]) \in Nat
    BY <1>1, RecordedNat DEF IndInv, TypeOK, PaidWithinLeaf
  <1>5. Cardinality({d \in Claimants : status'[d] # None}) = Cardinality(S) + 1
    <2>1. {d \in Claimants : status'[d] # None} = S \cup {c}
      <3>1. status'[c] # None /\ \A d \in Claimants \ {c} : status'[d] = status[d]
        BY NewClaimEffect
      <3>2. \A d \in Claimants : status'[d] # None <=> status[d] # None \/ d = c
        BY <3>1
      <3> QED
        BY <3>2
    <2>2. IsFiniteSet(S) /\ c \notin S
      BY ClaimantsAssumption, FS_Subset, NewClaimEffect
    <2> HIDE DEF S
    <2> QED
      BY Zenon, <2>1, <2>2, FS_AddElement
  <1>6. /\ dist.total_amount_claimed \in Nat /\ dist.total_amount_forgone \in Nat
        /\ dist.num_nodes_claimed \in Nat
        /\ retired.claimed \in Nat /\ retired.forgone \in Nat /\ retired.nodes \in Nat
    BY NewClaimEffect, DistributorFields DEF IndInv, TypeOK, Totals
  <1>7. /\ retired.claimed + dist.total_amount_claimed = paid
        /\ retired.forgone + dist.total_amount_forgone = gone
        /\ retired.nodes + dist.num_nodes_claimed = Cardinality(S)
    BY NewClaimEffect DEF CountersMatchStatuses, ClaimedNow, ForgoneNow, NodesNow
  <1>8. /\ ClaimedNow' = dist.total_amount_claimed + PaidBy(status'[c])
        /\ ForgoneNow' = dist.total_amount_forgone + ForgoneBy(status'[c])
        /\ NodesNow' = dist.num_nodes_claimed + 1
        /\ retired' = retired
    BY NewClaimEffect DEF ClaimedNow, ForgoneNow, NodesNow
  <1> HIDE DEF paid, gone, S
  <1>9. /\ retired.claimed + ClaimedNow' = paid - PaidBy(status[c]) + PaidBy(status'[c])
        /\ retired.forgone + ForgoneNow'
             = gone - ForgoneBy(status[c]) + ForgoneBy(status'[c])
        /\ retired.nodes + NodesNow' = Cardinality(S) + 1
    <2> DEFINE a == retired.claimed
               b == dist.total_amount_claimed
               x == PaidBy(status'[c])
               e == retired.forgone
               f == dist.total_amount_forgone
               y == ForgoneBy(status'[c])
               g == retired.nodes
               h == dist.num_nodes_claimed
               z == Cardinality(S)
    <2>1. /\ a + (b + x) = paid - 0 + x
          /\ e + (f + y) = gone - 0 + y
          /\ g + (h + 1) = z - 0 + 1
      <3>1. a \in Nat /\ b \in Nat /\ x \in Nat /\ a + b = paid
        BY <1>4, <1>6, <1>7
      <3>2. e \in Nat /\ f \in Nat /\ y \in Nat /\ e + f = gone
        BY <1>4, <1>6, <1>7
      <3>3. g \in Nat /\ h \in Nat /\ g + h = z
        BY <1>6, <1>7
      <3> HIDE DEF a, b, e, f, g, h, x, y, z
      <3>4. a + (b + x) = paid - 0 + x
        BY <3>1, Counted
      <3>5. e + (f + y) = gone - 0 + y
        BY <3>2, Counted
      <3>6. g + (h + 1) = z - 0 + 1
        BY <3>3, Counted
      <3> QED
        BY <3>4, <3>5, <3>6
    <2>2. Cardinality(S) \in Nat
      BY <1>6, <1>7
    <2>3. z - 0 + 1 = z + 1
      <3> HIDE DEF z
      <3> QED
        BY <2>2 DEF z
    <2> QED
      BY <1>3, <1>8, <2>1, <2>3
  <1> QED
    BY <1>2, <1>5, <1>8, <1>9 DEF CountersMatchStatuses

\* A later withdrawal is counted.
LEMMA ClaimLockedCounted ==
    ASSUME IndInv, CountersMatchStatuses, NEW c \in Claimants, claim_locked(c)
    PROVE  CountersMatchStatuses'
  <1>1. IndInv'
    BY ClaimLockedStep
  <1> DEFINE paid == SumFunction([d \in Claimants |-> PaidBy(status[d])])
             gone == SumFunction([d \in Claimants |-> ForgoneBy(status[d])])
  <1>2. /\ SumFunction([d \in Claimants |-> PaidBy(status'[d])])
             = paid - PaidBy(status[c]) + PaidBy(status'[c])
        /\ SumFunction([d \in Claimants |-> ForgoneBy(status'[d])])
             = gone - ForgoneBy(status[c]) + ForgoneBy(status'[c])
    BY <1>1, ClaimLockedEffect, SumsStep
  <1>3. PaidBy(status[c]) \in Nat /\ ForgoneBy(status[c]) \in Nat
    BY RecordedNat DEF IndInv, TypeOK, PaidWithinLeaf
  <1>4. PaidBy(status'[c]) \in Nat /\ ForgoneBy(status'[c]) = ForgoneBy(status[c])
    BY <1>1, RecordedNat, ClaimLockedEffect
    DEF IndInv, TypeOK, PaidWithinLeaf, ForgoneBy, get_unlocked_amount_forgone
  <1>5. {d \in Claimants : status'[d] # None} = {d \in Claimants : status[d] # None}
    <2>1. status[c] # None /\ status'[c] # None /\ \A d \in Claimants \ {c} : status'[d] = status[d]
      BY ClaimLockedEffect
    <2>2. \A d \in Claimants : status'[d] # None <=> status[d] # None
      BY <2>1
    <2> QED
      BY <2>2
  <1>6. /\ dist.total_amount_claimed \in Nat /\ dist.total_amount_forgone \in Nat
        /\ retired.claimed \in Nat /\ retired.forgone \in Nat
    BY ClaimLockedEffect, DistributorFields DEF IndInv, TypeOK, Totals
  <1>7. /\ retired.claimed + dist.total_amount_claimed = paid
        /\ retired.forgone + dist.total_amount_forgone = gone
        /\ retired.nodes + NodesNow = Cardinality({d \in Claimants : status[d] # None})
    BY ClaimLockedEffect DEF CountersMatchStatuses, ClaimedNow, ForgoneNow
  <1>8. /\ ClaimedNow' = dist.total_amount_claimed + (PaidBy(status'[c]) - PaidBy(status[c]))
        /\ ForgoneNow' = dist.total_amount_forgone
        /\ NodesNow' = NodesNow
        /\ retired' = retired
    BY ClaimLockedEffect DEF ClaimedNow, ForgoneNow, NodesNow
  <1> HIDE DEF paid, gone
  <1>9. /\ retired.claimed + ClaimedNow' = paid - PaidBy(status[c]) + PaidBy(status'[c])
        /\ retired.forgone + ForgoneNow'
             = gone - ForgoneBy(status[c]) + ForgoneBy(status'[c])
    BY <1>3, <1>4, <1>6, <1>7, <1>8
  <1> QED
    BY <1>2, <1>5, <1>7, <1>8, <1>9 DEF CountersMatchStatuses

\* The distributor stays and so do its three counters and the accounts.
SameCounters ==
    /\ dist # None /\ dist' # None
    /\ dist'.total_amount_claimed = dist.total_amount_claimed
    /\ dist'.total_amount_forgone = dist.total_amount_forgone
    /\ dist'.num_nodes_claimed = dist.num_nodes_claimed
    /\ status' = status /\ retired' = retired

\* Then what the counters add up to stays too.
LEMMA SameCountersKept ==
    ASSUME SameCounters
    PROVE  /\ status' = status /\ retired' = retired
           /\ ClaimedNow' = ClaimedNow /\ ForgoneNow' = ForgoneNow /\ NodesNow' = NodesNow
  BY DEF SameCounters, ClaimedNow, ForgoneNow, NodesNow

\* The clawback, set_root and the setters keep the counters.
LEMMA SettingsEffect ==
    ASSUME IndInv,
           \/ clawback
           \/ \E p \in SetRootArgs : set_root(p)
           \/ \E s \in EnableSlots : set_enable_slot(s)
           \/ \E ts \in ClawbackTimes : set_clawback_start_ts(ts)
           \/ \E to \in Receivers : set_clawback_receiver(to)
           \/ \E a \in Admins : set_admin(a)
    PROVE  SameCounters
  <1>1. dist # None /\ status' = status /\ retired' = retired
    BY Zenon DEF clawback, set_root, set_enable_slot, set_clawback_start_ts,
           set_clawback_receiver, set_admin
  <1>2. dist \in MerkleDistributor
    BY <1>1, DistributorFields DEF IndInv
  <1> USE <1>1, <1>2, NoneAssumption DEF SameCounters, MerkleDistributor
  <1>3. CASE clawback
    BY Zenon, <1>3 DEF clawback
  <1>4. ASSUME NEW p \in SetRootArgs, set_root(p) PROVE SameCounters
    <2>1. p.new_root \in Roots /\ p.new_max_total_claim \in Nat
      BY DEF SetRootArgs
    <2> QED
      BY Zenon, <1>4, <2>1 DEF set_root
  <1>5. ASSUME NEW s \in EnableSlots, set_enable_slot(s) PROVE SameCounters
    <2>1. s \in Nat
      BY ArgumentAssumption
    <2> QED
      BY <1>5, <2>1 DEF set_enable_slot
  <1>6. ASSUME NEW ts \in ClawbackTimes, set_clawback_start_ts(ts) PROVE SameCounters
    <2>1. ts \in Nat
      BY ArgumentAssumption
    <2> QED
      BY <1>6, <2>1 DEF set_clawback_start_ts
  <1>7. ASSUME NEW to \in Receivers, set_clawback_receiver(to) PROVE SameCounters
    BY <1>7 DEF set_clawback_receiver
  <1>8. ASSUME NEW a \in Admins, set_admin(a) PROVE SameCounters
    BY <1>8 DEF set_admin
  <1> QED
    BY <1>3, <1>4, <1>5, <1>6, <1>7, <1>8

\* The other instructions leave the accounts alone; close_distributor moves the
\* counters to the totals of the closed distributors.
LEMMA OtherStepsCounted ==
    ASSUME IndInv, CountersMatchStatuses, Next, ~Claim
    PROVE  CountersMatchStatuses'
  <1> DEFINE Same == /\ status' = status
                     /\ retired'.claimed + ClaimedNow' = retired.claimed + ClaimedNow
                     /\ retired'.forgone + ForgoneNow' = retired.forgone + ForgoneNow
                     /\ retired'.nodes + NodesNow' = retired.nodes + NodesNow
  <1> SUFFICES Same
    BY CountersKept
  <1>1. retired.claimed \in Nat /\ retired.forgone \in Nat /\ retired.nodes \in Nat
    BY DEF IndInv, TypeOK, Totals
  <1>2. ASSUME NEW p \in Params, new_distributor(p) PROVE Same
    <2>1. /\ dist = None /\ status' = status /\ retired' = retired
          /\ dist'.total_amount_claimed = 0 /\ dist'.total_amount_forgone = 0
          /\ dist'.num_nodes_claimed = 0
      BY <1>2 DEF new_distributor
    <2>2. ClaimedNow' = 0 /\ ForgoneNow' = 0 /\ NodesNow' = 0
      BY <2>1 DEF ClaimedNow, ForgoneNow, NodesNow
    <2>3. ClaimedNow = 0 /\ ForgoneNow = 0 /\ NodesNow = 0
      BY <2>1 DEF ClaimedNow, ForgoneNow, NodesNow
    <2> QED
      BY <2>1, <2>2, <2>3
  <1>3. ASSUME NEW to \in Receivers, close_distributor(to) PROVE Same
    <2>1. /\ dist # None /\ dist' = None /\ status' = status
          /\ retired' = [claimed |-> retired.claimed + dist.total_amount_claimed,
                         forgone |-> retired.forgone + dist.total_amount_forgone,
                         nodes   |-> retired.nodes + dist.num_nodes_claimed]
      BY <1>3 DEF close_distributor
    <2>2. /\ dist.total_amount_claimed \in Nat /\ dist.total_amount_forgone \in Nat
          /\ dist.num_nodes_claimed \in Nat
      BY <2>1, DistributorFields DEF IndInv
    <2> QED
      BY <1>1, <2>1, <2>2 DEF ClaimedNow, ForgoneNow, NodesNow
  <1>4. ASSUME SameCounters PROVE Same
    BY <1>4, SameCountersKept
  <1>5. CASE Environment
    <2>1. dist' = dist /\ status' = status /\ retired' = retired
      BY <1>5 DEF Environment, Fund, Tick, NextSlot
    <2> QED
      BY <2>1 DEF ClaimedNow, ForgoneNow, NodesNow
  <1> HIDE DEF Same
  <1>6. CASE clawback
    BY <1>4, <1>6, SettingsEffect
  <1>7. CASE \E p \in ReRoots : set_root(p)
    BY <1>4, <1>7, SettingsEffect, ArgumentAssumption
  <1>8. CASE Administer
    BY <1>3, <1>4, <1>8, SettingsEffect DEF Administer
  <1> QED
    BY <1>2, <1>5, <1>6, <1>7, <1>8 DEF Next

\* Every counter starts at zero.
LEMMA InitCounted == Init => CountersMatchStatuses
  <1> SUFFICES ASSUME Init PROVE CountersMatchStatuses
    OBVIOUS
  <1> DEFINE paid == [c \in Claimants |-> PaidBy(status[c])]
             gone == [c \in Claimants |-> ForgoneBy(status[c])]
             S == {c \in Claimants : status[c] # None}
  <1>1. /\ paid \in [Claimants -> Int] /\ gone \in [Claimants -> Int]
        /\ \A c \in Claimants : paid[c] = 0 /\ gone[c] = 0
        /\ S = {}
    BY DEF Init, PaidBy, ForgoneBy
  <1> HIDE DEF paid, gone, S
  <1>2. SumFunction(paid) = 0 /\ SumFunction(gone) = 0 /\ Cardinality(S) = 0
    BY <1>1, SumOfZeros, ClaimantsAssumption, FS_EmptySet
  <1>3. /\ retired.claimed + ClaimedNow = 0 /\ retired.forgone + ForgoneNow = 0
        /\ retired.nodes + NodesNow = 0
    BY DEF Init, ClaimedNow, ForgoneNow, NodesNow
  <1> QED
    BY <1>2, <1>3 DEF CountersMatchStatuses, paid, gone, S

\* Every step keeps the counters right.
LEMMA NextCounted ==
    IndInv /\ CountersMatchStatuses /\ [Next]_vars => CountersMatchStatuses'
  <1> SUFFICES ASSUME IndInv, CountersMatchStatuses, [Next]_vars
               PROVE  CountersMatchStatuses'
    OBVIOUS
  <1>1. CASE Claim
    BY <1>1, NewClaimCounted, ClaimLockedCounted DEF Claim
  <1>2. CASE Next /\ ~Claim
    BY <1>2, OtherStepsCounted
  <1>3. CASE UNCHANGED vars
    <2>1. dist' = dist /\ status' = status /\ retired' = retired
      BY <1>3 DEF vars
    <2> QED
      BY <2>1, CountersKept DEF ClaimedNow, ForgoneNow, NodesNow
  <1> QED
    BY <1>1, <1>2, <1>3

\* Through claims, re-rooting, clawbacks, closing and re-creation the
\* program's three counters are the sums over the ClaimStatus accounts.
THEOREM CountersAreSums == Spec => []CountersMatchStatuses
  BY InitCounted, NextCounted, IndInvHolds, PTL DEF Spec
-----------------------------------------------------------------------------
(***************************************************************************)
(* Distributor implements Airdrop: every instruction is a step of Airdrop  *)
(* or leaves pot, payments and grants alone.                               *)
(***************************************************************************)

\* handle_new_claim settles the claimant: the grant is the leaf of the root.
LEMMA NewClaimSettles ==
    ASSUME IndInv, NEW c \in Claimants, new_claim(c)
    PROVE  Promise!Settle(c)
  <1> DEFINE leaf == Tree[dist.root][c]
             s == SeedStatus(leaf)
             g == LeafTotal(leaf)
             n == s.unlocked_amount_claimed
  <1>1. /\ dist # None /\ status[c] = None /\ c \in DOMAIN Tree[dist.root]
        /\ vault >= n /\ vault' = vault - n
        /\ wallet' = [wallet EXCEPT ![c] = @ + n]
        /\ status' = [status EXCEPT ![c] = s]
    BY DEF new_claim, ClaimsOpen
  <1>2. /\ s \in ClaimStatus /\ n \in Nat /\ n <= s.unlocked_amount
        /\ s.unlocked_amount \in Nat /\ s.locked_amount \in Nat
    BY SeedFacts
  <1>3. s.unlocked_amount = leaf.unlocked /\ s.locked_amount = leaf.locked
    BY DEF SeedStatus
  <1>4. g \in TreeGrants(c)
    BY <1>1, DistributorFields DEF IndInv, TreeGrants
  <1>5. g = s.unlocked_amount + s.locked_amount
    BY <1>3 DEF LeafTotal
  <1> HIDE DEF s, g, n, leaf
  <1>6. s # None /\ GrantOf(s) = g
    BY <1>2, <1>5, NoneAssumption DEF GrantOf
  <1>7. n \in 0..g /\ n <= vault
    BY <1>1, <1>2, <1>5 DEF IndInv, TypeOK
  <1>8. wallet' = [wallet EXCEPT ![c] = n]
    <2>1. wallet[c] = 0 /\ wallet \in [Claimants -> Nat]
      BY <1>1 DEF IndInv, TypeOK, PaidWithinLeaf, PaidBy
    <2>2. wallet[c] + n = n
      BY <1>2, <2>1
    <2> QED
      BY Zenon, <1>1, <2>2
  <1>9. [d \in Claimants |-> GrantOf(status'[d])]
          = [[d \in Claimants |-> GrantOf(status[d])] EXCEPT ![c] = g]
    <2>1. status \in [Claimants -> ClaimStatus \cup {None}]
      BY DEF IndInv, TypeOK
    <2>2. \A d \in Claimants : status'[d] = IF d = c THEN s ELSE status[d]
      BY <1>1, <2>1
    <2> QED
      BY Zenon, <1>6, <2>2
  <1>10. [d \in Claimants |-> GrantOf(status[d])][c] = None
    BY <1>1 DEF GrantOf
  <1>11. [d \in Claimants |-> TreeGrants(d)][c] = TreeGrants(c)
    OBVIOUS
  <1> QED
    BY Zenon, <1>1, <1>4, <1>7, <1>8, <1>9, <1>10, <1>11 DEF Promise!Settle

\* handle_claim_locked pays more of the same grant.
LEMMA ClaimLockedPays ==
    ASSUME IndInv, NEW c \in Claimants, claim_locked(c)
    PROVE  Promise!PayMore(c)
  <1> DEFINE s == status[c]
             amount == amount_withdrawable(s)
             vested == unlocked_amount(s.locked_amount, now,
                                       dist.start_ts, dist.end_ts)
             t == [s EXCEPT !.locked_amount_withdrawn =
                              s.locked_amount_withdrawn + amount]
  <1>1. /\ dist # None /\ s # None
        /\ amount > 0 /\ vault >= amount /\ vault' = vault - amount
        /\ s.locked_amount_withdrawn + amount <= s.locked_amount
        /\ wallet' = [wallet EXCEPT ![c] = @ + amount]
        /\ status' = [status EXCEPT ![c].locked_amount_withdrawn =
                                      s.locked_amount_withdrawn + amount]
    BY DEF claim_locked, ClaimsOpen
  <1>2. /\ s \in ClaimStatus /\ s.locked_amount \in Nat
        /\ s.locked_amount_withdrawn \in Nat /\ s.unlocked_amount \in Nat
        /\ s.unlocked_amount_claimed \in Nat
    BY <1>1, StatusFields DEF IndInv
  <1>3. amount \in Int
    <2>1. /\ dist.start_ts \in Nat /\ dist.end_ts \in Nat /\ now \in Nat
          /\ dist.start_ts < dist.end_ts
      BY <1>1, DistributorFields DEF IndInv, TypeOK, WindowKept
    <2>2. vested \in Nat
      BY Zenon, <1>2, <2>1, VestedBounds
    <2> QED
      BY <1>2, <2>2 DEF amount_withdrawable
  <1> HIDE DEF amount
  <1>4. /\ wallet[c] = s.unlocked_amount_claimed + s.locked_amount_withdrawn
        /\ s.unlocked_amount_claimed <= s.unlocked_amount
    BY <1>1 DEF IndInv, PaidWithinLeaf, PaidBy
  <1>5. /\ GrantOf(s) = s.unlocked_amount + s.locked_amount
        /\ GrantOf(s) \in Nat /\ GrantOf(s) # None
    BY <1>1, <1>2, NoneAssumption DEF GrantOf
  <1>6. amount \in 1..(GrantOf(s) - wallet[c])
    BY <1>1, <1>2, <1>3, <1>4, <1>5
  <1>7. t \in ClaimStatus /\ t # None /\ GrantOf(t) = GrantOf(s)
    <2>1. s.locked_amount_withdrawn + amount \in Nat
      BY <1>1, <1>2, <1>3
    <2>2. /\ t \in ClaimStatus /\ t.unlocked_amount = s.unlocked_amount
          /\ t.locked_amount = s.locked_amount
      BY <1>2, <2>1 DEF ClaimStatus
    <2> QED
      BY <1>5, <2>2, NoneAssumption DEF GrantOf
  <1>8. \A d \in Claimants : GrantOf(status'[d]) = GrantOf(status[d])
    <2>1. status' = [status EXCEPT ![c] = t]
      BY <1>1
    <2>2. status \in [Claimants -> ClaimStatus \cup {None}]
      BY DEF IndInv, TypeOK
    <2> HIDE DEF t
    <2>3. \A d \in Claimants : status'[d] = IF d = c THEN t ELSE status[d]
      BY <2>1, <2>2
    <2> QED
      BY <1>7, <2>3
  <1>9. [d \in Claimants |-> GrantOf(status'[d])]
          = [d \in Claimants |-> GrantOf(status[d])]
    BY <1>8
  <1>10. [d \in Claimants |-> GrantOf(status[d])][c] = GrantOf(s)
    OBVIOUS
  <1> HIDE DEF t, s
  <1> QED
    BY Zenon, <1>1, <1>5, <1>6, <1>9, <1>10 DEF Promise!PayMore

\* An instruction that touches neither statuses nor wallets and does not add
\* to the vault either shrinks the pot or leaves it.
LEMMA SweepShrinks ==
    ASSUME vault \in Nat, vault' \in Nat, vault' <= vault,
           status' = status, wallet' = wallet
    PROVE  Promise!ShrinkPot \/ UNCHANGED Promise!abstractVars
  <1>1. [d \in Claimants |-> GrantOf(status'[d])]
          = [d \in Claimants |-> GrantOf(status[d])]
    OBVIOUS
  <1>2. CASE vault' = vault
    BY <1>1, <1>2 DEF Promise!abstractVars
  <1>3. CASE vault' < vault
    <2> DEFINE n == vault - vault'
    <2>0. \A x, y \in Nat : y < x => x - y \in 1..x /\ y = x - (x - y)
      OBVIOUS
    <2>1. n \in 1..vault /\ vault' = vault - n
      BY Zenon, <1>3, <2>0
    <2> HIDE DEF n
    <2> QED
      BY <1>1, <2>1 DEF Promise!ShrinkPot
  <1> QED
    BY <1>2, <1>3

\* Every step of the program is a step of Airdrop or a stutter.
LEMMA StepRefines ==
    IndInv /\ [Next]_vars => [Promise!AirdropNext]_(Promise!abstractVars)
  <1> SUFFICES ASSUME IndInv, [Next]_vars
               PROVE  Promise!AirdropNext \/ UNCHANGED Promise!abstractVars
    OBVIOUS
  <1>0. vault \in Nat /\ swept \in Nat
    BY DEF IndInv, TypeOK
  <1>1. status' = status /\ wallet' = wallet /\ vault' = vault
          => UNCHANGED Promise!abstractVars
    BY DEF Promise!abstractVars
  <1>2. CASE \E p \in Params : new_distributor(p)
    <2>1. status' = status /\ wallet' = wallet /\ vault' = vault
      BY <1>2 DEF new_distributor, ghosts
    <2> QED
      BY <1>1, <2>1
  <1>3. CASE Claim
    BY <1>3, NewClaimSettles, ClaimLockedPays DEF Claim, Promise!AirdropNext
  <1>4. CASE clawback
    <2>1. vault' \in Nat /\ vault' <= vault /\ status' = status /\ wallet' = wallet
      BY <1>0, <1>4 DEF clawback, Sweep
    <2> QED
      BY <1>0, <2>1, SweepShrinks DEF Promise!AirdropNext
  <1>5. CASE \E p \in ReRoots : set_root(p)
    <2>1. PICK p \in ReRoots : set_root(p)
      BY <1>5
    <2>2. /\ dist # None /\ p.new_max_total_claim <= dist.max_total_claim
          /\ vault' = vault - (dist.max_total_claim - p.new_max_total_claim)
          /\ vault >= dist.max_total_claim - p.new_max_total_claim
          /\ status' = status /\ wallet' = wallet
      BY <2>1 DEF set_root, validate_set_root
    <2>3. p.new_max_total_claim \in Nat /\ dist.max_total_claim \in Nat
      BY <2>2, ArgumentAssumption, DistributorFields DEF IndInv, SetRootArgs
    <2>4. vault' \in Nat /\ vault' <= vault
      BY <1>0, <2>2, <2>3
    <2> QED
      BY <1>0, <2>2, <2>4, SweepShrinks DEF Promise!AirdropNext
  <1>6. CASE Administer
    <2>1. ASSUME NEW to \in Receivers, close_distributor(to)
          PROVE  Promise!AirdropNext \/ UNCHANGED Promise!abstractVars
      <3>1. vault' \in Nat /\ vault' <= vault /\ status' = status /\ wallet' = wallet
        BY <1>0, <2>1 DEF close_distributor, Sweep
      <3> QED
        BY <1>0, <3>1, SweepShrinks DEF Promise!AirdropNext
    <2>2. \/ \E to \in Receivers : close_distributor(to)
          \/ status' = status /\ wallet' = wallet /\ vault' = vault
      BY <1>6 DEF Administer, set_enable_slot, set_clawback_start_ts,
                  set_clawback_receiver, set_admin, ghosts
    <2> QED
      BY <1>1, <2>1, <2>2
  <1>7. CASE Environment
    <2>1. ASSUME NEW n \in Deposits, Fund(n) PROVE Promise!GrowPot
      <3>1. vault' = vault + n /\ status' = status /\ wallet' = wallet
        BY <2>1 DEF Fund
      <3> QED
        BY <3>1 DEF Promise!GrowPot
    <2>2. CASE Tick \/ NextSlot
      <3>1. status' = status /\ wallet' = wallet /\ vault' = vault
        BY <2>2 DEF Tick, NextSlot, ghosts
      <3> QED
        BY <1>1, <3>1
    <2> QED
      BY <1>7, <2>1, <2>2 DEF Environment, Promise!AirdropNext
  <1>8. CASE UNCHANGED vars
    BY <1>1, <1>8 DEF vars
  <1> QED
    BY <1>2, <1>3, <1>4, <1>5, <1>6, <1>7, <1>8 DEF Next

\* The merkle distributor implements the airdrop promise.
THEOREM Refinement == Spec => ImplementsAirdrop
  <1>1. Init => Promise!AirdropInit
    BY DEF Init, Promise!AirdropInit, GrantOf
  <1> QED
    BY <1>1, StepRefines, IndInvHolds, PTL
    DEF Spec, ImplementsAirdrop, Promise!AirdropSpec
=============================================================================
