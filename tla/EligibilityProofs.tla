------------------------- MODULE EligibilityProofs -------------------------
(***************************************************************************)
(* The API's amounts for any tree file, window, amounts and claimants.     *)
(* IndInv gives the program's side: what was paid and that nobody is ahead *)
(* of the schedule.  EligibilityInv relates the caches to it.              *)
(***************************************************************************)
EXTENDS ClaimCommand, DistributorProofs

USE DEF NewClaimAllowed, ClaimLockedAllowed

\* The API's half, with a precision of 1000, is the program's, with one of
\* 1000000: both round alike.
LEMMA SameHalf ==
    ASSUME NEW x \in Nat
    PROVE  Share(x, 50 * START_AMOUNT_PCT_PRECISION, START_AMOUNT_PCT_DENOM)
             = start_amount(x)
  BY DEF Share, start_amount, START_AMOUNT_PCT_PRECISION, START_AMOUNT_PCT_DENOM,
         START_CLAIM_PCT, PCT_PRECISION

\* The two functions of router.rs compute what the program's do.
LEMMA RouterMirrors ==
    ASSUME NEW unlocked \in Nat, NEW locked \in Nat, NEW t \in Nat,
           NEW s \in Nat, NEW e \in Nat, s < e, s <= t
    PROVE  /\ calculate_claimable_amount_for_new_user(unlocked, t, s, e, 50)
                = unlocked_amount_claimed(unlocked, t, s, e)
           /\ calculate_locked_amount_claimable(locked, t, s, e)
                = unlocked_amount(locked, t, s, e)
  BY SameHalf DEF calculate_claimable_amount_for_new_user,
       calculate_locked_amount_claimable, unlocked_amount_claimed, unlocked_amount

\* What claim_locked pays is a natural number.
LEMMA WithdrawableNat ==
    ASSUME IndInv, NEW c \in Claimants, claim_locked(c)
    PROVE  amount_withdrawable(status[c]) \in Nat
  <1>1. dist # None /\ status[c] # None /\ amount_withdrawable(status[c]) > 0
    BY DEF claim_locked, ClaimsOpen
  <1>2. /\ dist.start_ts \in Nat /\ dist.end_ts \in Nat
        /\ dist.start_ts < dist.end_ts /\ now \in Nat
    BY <1>1, DistributorFields DEF IndInv, TypeOK, WindowKept
  <1>3. /\ status[c].locked_amount \in Nat
        /\ status[c].locked_amount_withdrawn \in Nat
    BY <1>1, StatusFields DEF IndInv
  <1>4. unlocked_amount(status[c].locked_amount, now, dist.start_ts, dist.end_ts) \in Nat
    BY Zenon, <1>2, <1>3, VestedBounds
  <1> QED
    BY <1>1, <1>3, <1>4 DEF amount_withdrawable

\* How one instruction changes a status.
LEMMA StatusStep ==
    ASSUME IndInv, Next, NEW c \in Claimants
    PROVE  \/ status'[c] = status[c]
           \/ /\ status[c] = None /\ dist # None
              /\ c \in DOMAIN Tree[dist.root] /\ dist.start_ts <= now
              /\ status'[c] = SeedStatus(Tree[dist.root][c])
           \/ /\ status[c] # None /\ dist # None
              /\ \E n \in Nat :
                   status'[c] = [status[c] EXCEPT !.locked_amount_withdrawn = @ + n]
  <1>0. status \in [Claimants -> ClaimStatus \cup {None}]
    BY DEF IndInv, TypeOK
  <1>1. ASSUME NEW d \in Claimants, new_claim(d)
        PROVE  \/ status'[c] = status[c]
               \/ /\ status[c] = None /\ dist # None
                  /\ c \in DOMAIN Tree[dist.root] /\ dist.start_ts <= now
                  /\ status'[c] = SeedStatus(Tree[dist.root][c])
    BY <1>0, <1>1 DEF new_claim, ClaimsOpen
  <1>2. ASSUME NEW d \in Claimants, claim_locked(d)
        PROVE  \/ status'[c] = status[c]
               \/ /\ status[c] # None /\ dist # None
                  /\ \E n \in Nat :
                       status'[c] = [status[c] EXCEPT !.locked_amount_withdrawn = @ + n]
    <2> DEFINE n == amount_withdrawable(status[d])
    <2>1. /\ status[d] # None /\ dist # None /\ n > 0
          /\ status' = [status EXCEPT ![d].locked_amount_withdrawn
                                        = status[d].locked_amount_withdrawn + n]
      BY <1>2 DEF claim_locked, ClaimsOpen
    <2>2. n \in Nat
      BY <1>2, WithdrawableNat
    <2> HIDE DEF n
    <2>3. CASE d = c
      BY <1>0, <2>1, <2>2, <2>3
    <2>4. CASE d # c
      BY <1>0, <2>1, <2>4
    <2> QED
      BY <2>3, <2>4
  <1>3. ASSUME ~ \E d \in Claimants : new_claim(d) \/ claim_locked(d)
        PROVE  status' = status
    BY Zenon, <1>3 DEF Next, Claim, new_distributor, clawback, set_root, Administer,
         set_enable_slot, set_clawback_start_ts, set_clawback_receiver, set_admin,
         close_distributor, Environment, Fund, Tick, NextSlot
  <1> QED
    BY <1>1, <1>2, <1>3

\* The one distributor keeps its root, its window and its address.
LEMMA DistributorStays ==
    ASSUME IndInv, EligibilityInv, Next
    PROVE  /\ retired' = retired
           /\ dist' # None => dist'.root = File /\ ~dist'.closable
           /\ dist # None => /\ dist' # None
                             /\ dist'.start_ts = dist.start_ts
                             /\ dist'.end_ts = dist.end_ts
  <1>1. ASSUME NEW p \in Params, new_distributor(p)
        PROVE  /\ retired' = retired /\ dist = None
               /\ dist'.root = File /\ ~dist'.closable
    BY <1>1, FileRootAssumption DEF new_distributor, ghosts
  <1>2. CASE dist = None /\ ~ \E p \in Params : new_distributor(p)
    BY <1>2 DEF Next, Claim, new_claim, claim_locked, ClaimsOpen, clawback, set_root,
         Administer, set_enable_slot, set_clawback_start_ts, set_clawback_receiver,
         set_admin, close_distributor, Environment, Fund, Tick, NextSlot, ghosts
  <1>3. CASE dist # None
    <2>0. dist \in MerkleDistributor /\ dist.root = File /\ ~dist.closable
      BY <1>3, DistributorFields DEF IndInv, EligibilityInv
    <2> DEFINE Stays == /\ retired' = retired
                        /\ dist' \in MerkleDistributor
                        /\ dist'.root = dist.root
                        /\ dist'.closable = dist.closable
                        /\ dist'.start_ts = dist.start_ts
                        /\ dist'.end_ts = dist.end_ts
    <2>1. ASSUME NEW c \in Claimants, new_claim(c) PROVE Stays
      <3> DEFINE s == SeedStatus(Tree[dist.root][c])
                 gone == get_unlocked_amount_forgone(s)
      <3>1. s.unlocked_amount_claimed \in Nat /\ gone \in Nat
        BY <2>1, SeedFacts DEF get_unlocked_amount_forgone
      <3>2. /\ retired' = retired
            /\ dist' = [dist EXCEPT
                          !.num_nodes_claimed = dist.num_nodes_claimed + 1,
                          !.total_amount_claimed = dist.total_amount_claimed
                                                     + s.unlocked_amount_claimed,
                          !.total_amount_forgone = dist.total_amount_forgone + gone]
        BY <2>1 DEF new_claim
      <3>3. PICK n \in Nat, f \in Nat, g \in Nat :
              dist' = [dist EXCEPT !.num_nodes_claimed = n,
                                   !.total_amount_claimed = f,
                                   !.total_amount_forgone = g]
        <4> HIDE DEF s, gone
        <4>1. /\ dist.num_nodes_claimed + 1 \in Nat
              /\ dist.total_amount_claimed + s.unlocked_amount_claimed \in Nat
              /\ dist.total_amount_forgone + gone \in Nat
          BY <2>0, <3>1 DEF MerkleDistributor
        <4> QED
          BY Zenon, <3>2, <4>1
      <3> QED
        BY Zenon, <2>0, <3>2, <3>3 DEF MerkleDistributor
    <2>2. ASSUME NEW c \in Claimants, claim_locked(c) PROVE Stays
      <3>1. PICK n \in Nat : /\ retired' = retired
                             /\ dist' = [dist EXCEPT !.total_amount_claimed = n]
        <4>1. amount_withdrawable(status[c]) \in Nat
          BY <2>2, WithdrawableNat
        <4>2. dist.total_amount_claimed + amount_withdrawable(status[c]) \in Nat
          BY <2>0, <4>1 DEF MerkleDistributor
        <4> QED
          BY <2>2, <4>2 DEF claim_locked
      <3> QED
        BY <2>0, <3>1 DEF MerkleDistributor
    <2>3. ASSUME clawback PROVE Stays
      BY Zenon, <2>0, <2>3 DEF clawback, MerkleDistributor
    <2>4. ASSUME Administer PROVE Stays
      BY <2>0, <2>4, ArgumentAssumption DEF Administer, set_enable_slot,
           set_clawback_start_ts, set_clawback_receiver, set_admin,
           close_distributor, MerkleDistributor, ghosts
    <2>5. ASSUME Environment PROVE Stays
      BY <2>0, <2>5 DEF Environment, Fund, Tick, NextSlot, ghosts
    <2>6. Stays
      BY <1>1, <1>3, <2>1, <2>2, <2>3, <2>4, <2>5, FileRootAssumption DEF Next, Claim
    <2> QED
      BY <2>0, <2>6, NoneAssumption
  <1> QED
    BY <1>1, <1>2, <1>3

\* The server starts with empty caches.
LEMMA InitEligibilityInv == EligibilityInit => IndInv /\ EligibilityInv
  BY InitIndInv DEF EligibilityInit, Init, EligibilityInv

\* The statuses, and what the cache may hold of them, after an instruction.
LEMMA SeenStep ==
    ASSUME IndInv, EligibilityInv, Next, NEW c \in Claimants,
           seen' = [d \in Claimants |-> seen[d] \cup {status'[d]}]
    PROVE  /\ status'[c] # None =>
                /\ dist # None
                /\ c \in DOMAIN Tree[File]
                /\ status'[c].unlocked_amount = Tree[File][c].unlocked
                /\ status'[c].locked_amount = Tree[File][c].locked
           /\ \A s \in seen'[c] : s # None =>
                /\ status'[c] # None
                /\ s.locked_amount = status'[c].locked_amount
                /\ s.unlocked_amount_claimed = status'[c].unlocked_amount_claimed
                /\ s.locked_amount_withdrawn <= status'[c].locked_amount_withdrawn
  <1>0. /\ seen'[c] = seen[c] \cup {status'[c]}
        /\ seen[c] \in SUBSET (ClaimStatus \cup {None})
        /\ status'[c] \in ClaimStatus \cup {None}
    BY NextIndInv DEF EligibilityInv, IndInv, TypeOK
  <1>1. CASE status'[c] = status[c]
    BY <1>0, <1>1 DEF EligibilityInv, ClaimStatus
  <1>2. CASE /\ status[c] = None /\ dist # None
             /\ c \in DOMAIN Tree[dist.root]
             /\ status'[c] = SeedStatus(Tree[dist.root][c])
    <2>1. dist.root = File
      BY <1>2 DEF EligibilityInv
    <2>2. \A s \in seen[c] : s = None
      BY <1>2 DEF EligibilityInv
    <2>3. /\ status'[c].unlocked_amount = Tree[File][c].unlocked
          /\ status'[c].locked_amount = Tree[File][c].locked
      BY <1>2, <2>1 DEF SeedStatus
    <2>4. ASSUME status'[c] # None
          PROVE  status'[c].locked_amount_withdrawn <= status'[c].locked_amount_withdrawn
      BY <1>0, <2>4 DEF ClaimStatus
    <2> QED
      BY <1>0, <1>2, <2>1, <2>2, <2>3, <2>4
  <1>3. ASSUME status[c] # None, dist # None, NEW n \in Nat,
               status'[c] = [status[c] EXCEPT !.locked_amount_withdrawn = @ + n]
        PROVE  /\ dist # None
               /\ c \in DOMAIN Tree[File]
               /\ status'[c].unlocked_amount = Tree[File][c].unlocked
               /\ status'[c].locked_amount = Tree[File][c].locked
               /\ \A s \in seen'[c] : s # None =>
                    /\ status'[c] # None
                    /\ s.locked_amount = status'[c].locked_amount
                    /\ s.unlocked_amount_claimed = status'[c].unlocked_amount_claimed
                    /\ s.locked_amount_withdrawn <= status'[c].locked_amount_withdrawn
    <2>1. status[c] \in ClaimStatus /\ status[c].locked_amount_withdrawn \in Nat
      BY <1>3, StatusFields DEF IndInv
    <2>2. /\ status'[c].locked_amount = status[c].locked_amount
          /\ status'[c].unlocked_amount = status[c].unlocked_amount
          /\ status'[c].unlocked_amount_claimed = status[c].unlocked_amount_claimed
          /\ status'[c].locked_amount_withdrawn = status[c].locked_amount_withdrawn + n
          /\ status'[c] \in ClaimStatus
      BY <1>3, <2>1 DEF ClaimStatus
    <2>3. ASSUME NEW s \in seen[c], s # None
          PROVE  s.locked_amount_withdrawn <= status[c].locked_amount_withdrawn + n
      <3>1. /\ s.locked_amount_withdrawn \in Nat
            /\ s.locked_amount_withdrawn <= status[c].locked_amount_withdrawn
        BY <1>0, <2>3 DEF EligibilityInv, ClaimStatus
      <3> QED
        BY <2>1, <3>1
    <2>4. status'[c].locked_amount_withdrawn <= status'[c].locked_amount_withdrawn
      BY <2>1, <2>2
    <2>5. status'[c] # None
      BY <2>2, NoneAssumption
    <2> QED
      BY Zenon, <1>0, <1>3, <2>2, <2>3, <2>4, <2>5 DEF EligibilityInv
  <1> QED
    BY Zenon, <1>1, <1>2, <1>3, StatusStep

\* Every instruction and every refresh of the window keeps the invariant.
LEMMA NextEligibilityInv ==
    IndInv /\ EligibilityInv /\ [EligibilityNext]_eligibilityVars
      => (IndInv /\ EligibilityInv)'
  <1> SUFFICES ASSUME IndInv, EligibilityInv, [EligibilityNext]_eligibilityVars
               PROVE  (IndInv /\ EligibilityInv)'
    OBVIOUS
  <1>1. IndInv'
    BY NextIndInv DEF EligibilityNext, hydrate_distributors_cache, eligibilityVars
  <1>2. CASE UNCHANGED eligibilityVars
    <2>1. /\ dist' = dist /\ status' = status /\ retired' = retired
          /\ seen' = seen /\ window' = window
      BY <1>2 DEF eligibilityVars, vars, ghosts
    <2> QED
      BY <1>1, <2>1 DEF EligibilityInv
  <1>3. CASE hydrate_distributors_cache
    <2>1. /\ dist' = dist /\ status' = status /\ retired' = retired
          /\ seen' = seen /\ dist # None
          /\ window' = [start_ts |-> dist.start_ts, end_ts |-> dist.end_ts]
      BY <1>3 DEF hydrate_distributors_cache, vars, ghosts
    <2> QED
      BY <1>1, <2>1 DEF EligibilityInv
  <1>4. ASSUME Next, UNCHANGED window,
               seen' = [c \in Claimants |-> seen[c] \cup {status'[c]}]
        PROVE  EligibilityInv'
    <2>1. /\ retired'.nodes = 0
          /\ dist' # None => dist'.root = File /\ ~dist'.closable
          /\ window' # None =>
               /\ dist' # None
               /\ window' = [start_ts |-> dist'.start_ts, end_ts |-> dist'.end_ts]
      BY <1>4, DistributorStays DEF EligibilityInv
    <2>2. seen' \in [Claimants -> SUBSET (ClaimStatus \cup {None})]
      <3>1. /\ seen \in [Claimants -> SUBSET (ClaimStatus \cup {None})]
            /\ status' \in [Claimants -> ClaimStatus \cup {None}]
        BY <1>1 DEF EligibilityInv, IndInv, TypeOK
      <3> QED
        BY <1>4, <3>1
    <2>3. dist # None => dist' # None
      BY <1>4, DistributorStays
    <2> QED
      BY <1>4, <2>1, <2>2, <2>3, SeenStep DEF EligibilityInv
  <1> QED
    BY <1>1, <1>2, <1>3, <1>4 DEF EligibilityNext

\* The invariant holds of every reachable state.
LEMMA EligibilityInvHolds == EligibilitySpec => [](IndInv /\ EligibilityInv)
  BY InitEligibilityInv, NextEligibilityInv, PTL DEF EligibilitySpec
-----------------------------------------------------------------------------
\* What has vested of c's locked tokens.
Vested(c) == unlocked_amount(Tree[File][c].locked, now, dist.start_ts, dist.end_ts)

\* The window that answers are computed from, and the amounts of a leaf.
LEMMA WindowFacts ==
    ASSUME IndInv, EligibilityInv, dist # None, NEW c \in DOMAIN Tree[File]
    PROVE  /\ window # None => /\ window.start_ts = dist.start_ts
                               /\ window.end_ts = dist.end_ts
           /\ dist.start_ts \in Nat /\ dist.end_ts \in Nat /\ now \in Nat
           /\ dist.start_ts < dist.end_ts
           /\ c \in Claimants
           /\ Tree[File][c].unlocked \in Nat /\ Tree[File][c].locked \in Nat
           /\ Vested(c) \in Nat
  <1>1. /\ dist.start_ts \in Nat /\ dist.end_ts \in Nat /\ now \in Nat
        /\ dist.start_ts < dist.end_ts
    BY DistributorFields DEF IndInv, TypeOK, WindowKept
  <1>2. /\ c \in Claimants
        /\ Tree[File][c].unlocked \in Nat /\ Tree[File][c].locked \in Nat
    BY TreeAssumption, FileRootAssumption DEF Leaf
  <1>3. Vested(c) \in Nat
    BY Zenon, <1>1, <1>2, VestedBounds DEF Vested
  <1>4. window # None => window.start_ts = dist.start_ts /\ window.end_ts = dist.end_ts
    BY DEF EligibilityInv
  <1> QED
    BY <1>1, <1>2, <1>3, <1>4

\* The answer without a cached status is the program's payment.
LEMMA FreshAnswer ==
    ASSUME IndInv, EligibilityInv, dist # None, window # None, StartPct = 50,
           NEW c \in DOMAIN Tree[File]
    PROVE  /\ get_eligibility(c, None).claimed = 0
           /\ get_eligibility(c, None).claimable
                = IF now < dist.start_ts THEN 0
                  ELSE unlocked_amount_claimed(Tree[File][c].unlocked, now,
                                               dist.start_ts, dist.end_ts)
                       + Vested(c)
  <1>1. /\ get_eligibility(c, None).claimed = 0
        /\ get_eligibility(c, None).claimable
             = calculate_claimable_amount_for_new_user(Tree[File][c].unlocked, now,
                                            dist.start_ts, dist.end_ts, 50)
               + calculate_locked_amount_claimable(Tree[File][c].locked, now,
                                            dist.start_ts, dist.end_ts)
    BY WindowFacts DEF get_eligibility, Reported
  <1>2. CASE now < dist.start_ts
    BY <1>1, <1>2 DEF calculate_claimable_amount_for_new_user,
                      calculate_locked_amount_claimable
  <1>3. CASE ~(now < dist.start_ts)
    <2>1. /\ Tree[File][c].unlocked \in Nat /\ Tree[File][c].locked \in Nat
          /\ now \in Nat /\ dist.start_ts \in Nat /\ dist.end_ts \in Nat
          /\ dist.start_ts < dist.end_ts /\ dist.start_ts <= now
      BY <1>3, WindowFacts
    <2>2. /\ calculate_claimable_amount_for_new_user(Tree[File][c].unlocked, now,
                                            dist.start_ts, dist.end_ts, 50)
               = unlocked_amount_claimed(Tree[File][c].unlocked, now,
                                         dist.start_ts, dist.end_ts)
          /\ calculate_locked_amount_claimable(Tree[File][c].locked, now,
                                               dist.start_ts, dist.end_ts)
               = Vested(c)
      BY <2>1, RouterMirrors DEF Vested
    <2> QED
      BY <1>1, <1>3, <2>2
  <1> QED
    BY <1>2, <1>3

\* The answer from a cached status that is not ahead of the schedule.
LEMMA CachedAnswer ==
    ASSUME IndInv, EligibilityInv, dist # None, window # None,
           NEW c \in DOMAIN Tree[File], NEW s \in ClaimStatus,
           s.locked_amount = Tree[File][c].locked,
           s.locked_amount_withdrawn <= Vested(c)
    PROVE  /\ get_eligibility(c, s).claimed
                = s.unlocked_amount_claimed + s.locked_amount_withdrawn
           /\ get_eligibility(c, s).claimable = Vested(c) - s.locked_amount_withdrawn
  <1>1. s # None
    BY NoneAssumption
  <1>2. WithdrawableOrZero(s, window) = Vested(c) - s.locked_amount_withdrawn
    <2>1. /\ s.locked_amount_withdrawn \in Nat /\ Vested(c) \in Nat
          /\ unlocked_amount(s.locked_amount, now, window.start_ts, window.end_ts)
               = Vested(c)
      BY WindowFacts DEF ClaimStatus, Vested
    <2> QED
      BY <2>1 DEF WithdrawableOrZero
  <1> QED
    BY <1>1, <1>2 DEF get_eligibility, Reported

\* What a claimant with a status has received and can take.
LEMMA ClaimedFacts ==
    ASSUME IndInv, EligibilityInv, dist # None, NEW c \in DOMAIN Tree[File],
           status[c] # None
    PROVE  /\ status[c] \in ClaimStatus
           /\ status[c].unlocked_amount_claimed \in Nat
           /\ status[c].locked_amount_withdrawn \in Nat
           /\ status[c].locked_amount = Tree[File][c].locked
           /\ dist.start_ts <= now
           /\ status[c].unlocked_amount_claimed
                <= unlocked_amount_claimed(Tree[File][c].unlocked, now,
                                           dist.start_ts, dist.end_ts)
           /\ status[c].locked_amount_withdrawn <= Vested(c)
           /\ wallet[c] = status[c].unlocked_amount_claimed
                            + status[c].locked_amount_withdrawn
           /\ Payable(c) = Vested(c) - status[c].locked_amount_withdrawn
  <1>0. c \in Claimants
    BY WindowFacts
  <1>1. /\ status[c] \in ClaimStatus
        /\ status[c].unlocked_amount_claimed \in Nat
        /\ status[c].locked_amount_withdrawn \in Nat
    BY <1>0, StatusFields DEF IndInv
  <1>2. /\ status[c].locked_amount = Tree[File][c].locked
        /\ status[c].unlocked_amount = Tree[File][c].unlocked
        /\ retired.nodes = 0
    BY <1>0 DEF EligibilityInv
  <1>3. /\ dist.start_ts <= now
        /\ status[c].unlocked_amount_claimed
             <= unlocked_amount_claimed(Tree[File][c].unlocked, now,
                                        dist.start_ts, dist.end_ts)
        /\ status[c].locked_amount_withdrawn <= Vested(c)
    <2>1. NeverAheadOfVesting
      BY DEF IndInv
    <2> QED
      BY <1>0, <1>2, <2>1 DEF NeverAheadOfVesting, Vested
  <1>4. wallet[c] = status[c].unlocked_amount_claimed
                      + status[c].locked_amount_withdrawn
    BY <1>0 DEF IndInv, PaidWithinLeaf, PaidBy
  <1>5. Payable(c) = Vested(c) - status[c].locked_amount_withdrawn
    BY <1>2 DEF Payable, amount_withdrawable, Vested
  <1> QED
    BY <1>1, <1>2, <1>3, <1>4, <1>5

\* What a claimant without a status has received and can take.
LEMMA UnclaimedFacts ==
    ASSUME IndInv, EligibilityInv, dist # None, NEW c \in DOMAIN Tree[File],
           status[c] = None
    PROVE  /\ wallet[c] = 0
           /\ Payable(c) = IF now < dist.start_ts THEN 0
                           ELSE unlocked_amount_claimed(Tree[File][c].unlocked, now,
                                                        dist.start_ts, dist.end_ts)
                                + Vested(c)
  <1>1. c \in Claimants
    BY WindowFacts
  <1>2. wallet[c] = 0
    BY <1>1 DEF IndInv, PaidWithinLeaf, PaidBy
  <1> QED
    BY <1>2 DEF Payable, SeedStatus, Vested

\* The answer from the current status, in one state.
LEMMA ExactNow == IndInv /\ EligibilityInv => EligibilityExact
  <1> SUFFICES ASSUME IndInv, EligibilityInv, dist # None, window # None,
                      StartPct = 50, NEW c \in DOMAIN Tree[File]
               PROVE  /\ get_eligibility(c, status[c]).claimed = wallet[c]
                      /\ get_eligibility(c, status[c]).claimable = Payable(c)
    BY DEF EligibilityExact
  <1>1. CASE status[c] = None
    BY <1>1, FreshAnswer, UnclaimedFacts
  <1>2. CASE status[c] # None
    BY <1>2, CachedAnswer, ClaimedFacts
  <1> QED
    BY <1>1, <1>2

\* With an up-to-date cache /eligibility reports exactly what a claimant has
\* received and can take now, whatever the amounts, window and time: the
\* router's formulas round like the program's.
THEOREM AnswersAreExact == EligibilitySpec => []EligibilityExact
  BY ExactNow, EligibilityInvHolds, PTL

\* An answer from a stale or missing cache entry never hides tokens from a
\* claimant: any earlier state of the account promises at least as much.
THEOREM StaleAnswersHideNothing == EligibilitySpec => []NeverUnderReports
  <1>1. IndInv /\ EligibilityInv => NeverUnderReports
    <2> SUFFICES ASSUME IndInv, EligibilityInv, dist # None, window # None,
                        StartPct = 50, NEW c \in DOMAIN Tree[File], NEW s \in seen[c]
                 PROVE  get_eligibility(c, s).claimed + get_eligibility(c, s).claimable
                          >= wallet[c] + Payable(c)
      BY DEF NeverUnderReports
    <2> DEFINE first == unlocked_amount_claimed(Tree[File][c].unlocked, now,
                                                dist.start_ts, dist.end_ts)
    <2>0. c \in Claimants /\ Vested(c) \in Nat
      BY WindowFacts
    <2>1. dist.start_ts <= now => first \in Nat
      BY Zenon, WindowFacts, ClaimedBounds
    <2> HIDE DEF first
    <2>2. CASE s = None /\ status[c] = None
      <3>1. /\ get_eligibility(c, s).claimed = 0 /\ wallet[c] = 0
            /\ get_eligibility(c, s).claimable = Payable(c)
        BY <2>2, FreshAnswer, UnclaimedFacts
      <3>2. Payable(c) \in Nat
        <4>1. Payable(c) = IF now < dist.start_ts THEN 0 ELSE first + Vested(c)
          BY <2>2, UnclaimedFacts DEF first
        <4> QED
          BY <2>0, <2>1, <4>1, WindowFacts
      <3> QED
        BY <3>1, <3>2
    <2>3. CASE s = None /\ status[c] # None
      <3> DEFINE paid == status[c].unlocked_amount_claimed
                 drawn == status[c].locked_amount_withdrawn
      <3>1. /\ paid \in Nat /\ drawn \in Nat /\ dist.start_ts <= now
            /\ paid <= first /\ wallet[c] = paid + drawn
            /\ Payable(c) = Vested(c) - drawn
        BY <2>3, ClaimedFacts DEF first
      <3>2. /\ get_eligibility(c, s).claimed = 0
            /\ get_eligibility(c, s).claimable = first + Vested(c)
        BY <2>3, <3>1, FreshAnswer, WindowFacts DEF first
      <3> HIDE DEF paid, drawn
      <3> QED
        BY <2>0, <2>1, <3>1, <3>2
    <2>4. CASE s # None
      <3> DEFINE paid == status[c].unlocked_amount_claimed
                 drawn == status[c].locked_amount_withdrawn
      <3>1. /\ status[c] # None /\ s \in ClaimStatus
            /\ s.locked_amount = status[c].locked_amount
            /\ s.unlocked_amount_claimed = paid
            /\ s.locked_amount_withdrawn <= drawn
        BY <2>0, <2>4 DEF EligibilityInv
      <3>2. /\ paid \in Nat /\ drawn \in Nat /\ drawn <= Vested(c)
            /\ status[c].locked_amount = Tree[File][c].locked
            /\ wallet[c] = paid + drawn
            /\ Payable(c) = Vested(c) - drawn
        BY <3>1, ClaimedFacts
      <3>3. s.locked_amount_withdrawn \in Nat
        BY <3>1 DEF ClaimStatus
      <3> HIDE DEF paid, drawn
      <3>4. s.locked_amount_withdrawn <= Vested(c)
        BY <2>0, <3>1, <3>2, <3>3
      <3>5. /\ get_eligibility(c, s).claimed = paid + s.locked_amount_withdrawn
            /\ get_eligibility(c, s).claimable = Vested(c) - s.locked_amount_withdrawn
        BY <3>1, <3>2, <3>4, CachedAnswer
      <3> QED
        BY <2>0, <3>2, <3>3, <3>5
    <2> QED
      BY <2>2, <2>3, <2>4
  <1> QED
    BY <1>1, EligibilityInvHolds, PTL
-----------------------------------------------------------------------------
\* What c has received and can still take, and what a command that runs or has ended
\* may rely on.
Total(c) == wallet[c] + Payable(c)

QuoteInv ==
    StartPct = 50 =>
        /\ at \in [Users -> {"idle", "read", "new", "locked", "done", "panic"}]
        /\ quoted \in [Users -> Nat]
        /\ \A c \in Users :
             at[c] # "idle" => /\ dist # None
                               /\ Total(c) >= quoted[c]
                               /\ at[c] = "done" => wallet[c] >= quoted[c]

\* The clock does not run backwards, and only new_claim and claim_locked open or
\* change a status; they do not move it.
LEMMA ClockStep ==
    ASSUME IndInv, Next, NEW c \in Claimants
    PROVE  /\ now' >= now /\ now' \in Nat
           /\ status'[c] # status[c] => now' = now
  <1>1. now \in Nat
    BY DEF IndInv, TypeOK
  <1>2. ASSUME NEW d \in Claimants, new_claim(d) \/ claim_locked(d)
        PROVE  now' = now
    BY <1>2 DEF new_claim, claim_locked
  <1>3. ASSUME Tick
        PROVE  now' = now + 1 /\ status' = status
    BY <1>3 DEF Tick
  <1>4. ASSUME ~Claim, ~Tick
        PROVE  now' = now /\ status' = status
    BY Zenon, <1>4 DEF Next, new_distributor, clawback, set_root, Administer,
       set_enable_slot, set_clawback_start_ts, set_clawback_receiver, set_admin,
       close_distributor, Environment, Fund, NextSlot
  <1> QED
    BY <1>1, <1>2, <1>3, <1>4 DEF Claim

\* The total in terms of the schedule: what was paid of the unlocked tokens, or
\* would be now, and what has vested of the locked ones.
TotalBySchedule ==
    IndInv /\ EligibilityInv /\ dist # None =>
        \A c \in DOMAIN Tree[File] :
           /\ Total(c) \in Nat /\ wallet[c] \in Nat
           /\ status[c] # None =>
                /\ status[c].unlocked_amount_claimed \in Nat
                /\ Total(c) = status[c].unlocked_amount_claimed + Vested(c)
           /\ status[c] = None /\ now < dist.start_ts => Total(c) = 0
           /\ status[c] = None /\ dist.start_ts <= now =>
                Total(c) = unlocked_amount_claimed(Tree[File][c].unlocked, now,
                                                   dist.start_ts, dist.end_ts)
                           + Vested(c)

\* It holds whatever the account's history, from the payments that PaidWithinLeaf and
\* NeverAheadOfVesting bound.
LEMMA TotalIs == TotalBySchedule
  <1> SUFFICES ASSUME IndInv, EligibilityInv, dist # None, NEW c \in DOMAIN Tree[File]
               PROVE  /\ Total(c) \in Nat /\ wallet[c] \in Nat
                      /\ status[c] # None =>
                           /\ status[c].unlocked_amount_claimed \in Nat
                           /\ Total(c) = status[c].unlocked_amount_claimed + Vested(c)
                      /\ status[c] = None /\ now < dist.start_ts => Total(c) = 0
                      /\ status[c] = None /\ dist.start_ts <= now =>
                           Total(c) = unlocked_amount_claimed(Tree[File][c].unlocked, now,
                                                              dist.start_ts, dist.end_ts)
                                      + Vested(c)
    BY DEF TotalBySchedule
  <1> DEFINE first == unlocked_amount_claimed(Tree[File][c].unlocked, now,
                                              dist.start_ts, dist.end_ts)
  <1>1. Vested(c) \in Nat /\ now \in Nat /\ dist.start_ts \in Nat
    BY WindowFacts
  <1>2. dist.start_ts <= now => first \in Nat
    BY Zenon, WindowFacts, ClaimedBounds
  <1>3. CASE status[c] # None
    <2> DEFINE paid == status[c].unlocked_amount_claimed
               drawn == status[c].locked_amount_withdrawn
    <2>1. /\ paid \in Nat /\ drawn \in Nat /\ drawn <= Vested(c)
          /\ wallet[c] = paid + drawn /\ Payable(c) = Vested(c) - drawn
      BY <1>3, ClaimedFacts
    <2> HIDE DEF paid, drawn
    <2>2. wallet[c] \in Nat /\ Total(c) = paid + Vested(c) /\ Total(c) \in Nat
      BY <1>1, <2>1 DEF Total
    <2> QED
      BY <1>3, <2>1, <2>2 DEF paid
  <1>4. CASE status[c] = None
    <2>1. /\ wallet[c] = 0
          /\ Payable(c) = IF now < dist.start_ts THEN 0 ELSE first + Vested(c)
      BY <1>4, UnclaimedFacts
    <2> HIDE DEF first
    <2>2. /\ Total(c) \in Nat
          /\ now < dist.start_ts => Total(c) = 0
          /\ dist.start_ts <= now => Total(c) = first + Vested(c)
      BY <1>1, <1>2, <2>1 DEF Total
    <2> QED
      BY <1>4, <2>1, <2>2 DEF first
  <1> QED
    BY <1>3, <1>4

\* Also after a step.
LEMMA TotalIsNext == TotalBySchedule'
  BY TotalIs, PTL

\* No instruction of anybody, and no lapse of time, makes the total smaller.
LEMMA TotalKept ==
    ASSUME IndInv, EligibilityInv, Next, IndInv', EligibilityInv', dist # None,
           NEW c \in DOMAIN Tree[File]
    PROVE  /\ dist' # None
           /\ Total(c) \in Nat /\ Total(c)' \in Nat
           /\ Total(c)' >= Total(c)
  <1> DEFINE first(t) == unlocked_amount_claimed(Tree[File][c].unlocked, t,
                                                 dist.start_ts, dist.end_ts)
             vested(t) == unlocked_amount(Tree[File][c].locked, t,
                                          dist.start_ts, dist.end_ts)
  <1>1. /\ dist' # None /\ dist'.start_ts = dist.start_ts /\ dist'.end_ts = dist.end_ts
    BY DistributorStays
  <1>2. /\ c \in Claimants /\ Tree[File][c].unlocked \in Nat
        /\ Tree[File][c].locked \in Nat
        /\ now \in Nat /\ dist.start_ts \in Nat /\ dist.end_ts \in Nat
        /\ dist.start_ts < dist.end_ts
    BY WindowFacts
  <1>3. now' \in Nat /\ now <= now' /\ (status'[c] # status[c] => now' = now)
    BY <1>2, ClockStep
  <1>4. /\ vested(now) \in Nat /\ vested(now') \in Nat /\ vested(now) <= vested(now')
    BY Zenon, <1>2, <1>3, VestedBounds, VestedMonotone
  <1>5. ASSUME dist.start_ts <= now
        PROVE  /\ first(now) \in Nat /\ first(now') \in Nat
               /\ first(now) <= first(now')
    <2>1. dist.start_ts <= now'
      BY <1>2, <1>3, <1>5
    <2> QED
      BY Zenon, <1>2, <1>3, <1>5, <2>1, ClaimedBounds, ClaimedMonotone
  <1>6. /\ Total(c) \in Nat
        /\ status[c] # None =>
             /\ status[c].unlocked_amount_claimed \in Nat
             /\ Total(c) = status[c].unlocked_amount_claimed + vested(now)
        /\ status[c] = None /\ now < dist.start_ts => Total(c) = 0
        /\ status[c] = None /\ dist.start_ts <= now => Total(c) = first(now) + vested(now)
    BY TotalIs DEF Vested, TotalBySchedule
  <1>7. /\ Total(c)' \in Nat
        /\ status'[c] # None =>
             /\ status'[c].unlocked_amount_claimed \in Nat
             /\ Total(c)' = status'[c].unlocked_amount_claimed + vested(now')
        /\ status'[c] = None /\ dist.start_ts <= now' =>
             Total(c)' = first(now') + vested(now')
    <2>1. /\ Total(c)' \in Nat
          /\ status'[c] # None =>
               /\ status'[c].unlocked_amount_claimed \in Nat
               /\ Total(c)' = status'[c].unlocked_amount_claimed + Vested(c)'
          /\ status'[c] = None /\ dist'.start_ts <= now' =>
               Total(c)' = unlocked_amount_claimed(Tree[File][c].unlocked, now',
                                                   dist'.start_ts, dist'.end_ts)
                           + Vested(c)'
      BY <1>1, TotalIsNext DEF TotalBySchedule
    <2> QED
      BY <1>1, <2>1 DEF Vested
  <1> HIDE DEF first, vested
  <1>8. ASSUME status'[c] = status[c] PROVE Total(c)' >= Total(c)
    BY <1>2, <1>3, <1>4, <1>5, <1>6, <1>7, <1>8
  <1>9. ASSUME status'[c] # status[c] PROVE Total(c)' >= Total(c)
    <2>0. now' = now /\ dist.root = File
      BY <1>3, <1>9 DEF EligibilityInv
    <2>1. CASE /\ status[c] = None /\ dist.start_ts <= now
               /\ status'[c] = SeedStatus(Tree[dist.root][c])
      <3>1. status'[c].unlocked_amount_claimed = first(now)
        BY <2>0, <2>1 DEF SeedStatus, first
      <3> QED
        BY <1>4, <1>5, <1>6, <1>7, <1>9, <2>0, <2>1, <3>1
    <2>2. CASE /\ status[c] # None
               /\ \E n \in Nat :
                    status'[c] = [status[c] EXCEPT !.locked_amount_withdrawn = @ + n]
      <3>1. status[c] \in ClaimStatus
        BY <1>2, <2>2, StatusFields DEF IndInv
      <3>2. /\ status'[c] # None
            /\ status'[c].unlocked_amount_claimed = status[c].unlocked_amount_claimed
        BY <2>2, <3>1, NoneAssumption DEF ClaimStatus
      <3> QED
        BY <1>4, <1>6, <1>7, <2>0, <2>2, <3>2
    <2> QED
      BY <1>2, <1>9, <2>1, <2>2, StatusStep
  <1> QED
    BY <1>1, <1>6, <1>7, <1>8, <1>9

\* Payments only add to a wallet, and claim_locked pays all there is to pay.
LEMMA WalletStep ==
    ASSUME IndInv, EligibilityInv, Next, dist # None, NEW c \in DOMAIN Tree[File]
    PROVE  /\ wallet[c] \in Nat /\ wallet'[c] \in Nat /\ wallet'[c] >= wallet[c]
           /\ claim_locked(c) => wallet'[c] = Total(c)
  <1>1. wallet \in [Claimants -> Nat] /\ c \in Claimants
    BY WindowFacts DEF IndInv, TypeOK
  <1>2. ASSUME NEW d \in Claimants, NEW n \in Nat,
               wallet' = [wallet EXCEPT ![d] = wallet[d] + n]
        PROVE  wallet'[c] \in Nat /\ wallet'[c] >= wallet[c]
    BY <1>1, <1>2
  <1>3. ASSUME NEW d \in Claimants, new_claim(d)
        PROVE  wallet'[c] \in Nat /\ wallet'[c] >= wallet[c]
    <2> DEFINE n == SeedStatus(Tree[dist.root][d]).unlocked_amount_claimed
    <2>1. n \in Nat /\ wallet' = [wallet EXCEPT ![d] = wallet[d] + n]
      BY Zenon, <1>3, SeedFacts DEF new_claim
    <2> HIDE DEF n
    <2> QED
      BY Zenon, <1>2, <2>1
  <1>4. ASSUME NEW d \in Claimants, claim_locked(d)
        PROVE  wallet'[c] \in Nat /\ wallet'[c] >= wallet[c]
    <2> DEFINE n == amount_withdrawable(status[d])
    <2>1. n \in Nat /\ wallet' = [wallet EXCEPT ![d] = wallet[d] + n]
      BY Zenon, <1>4, WithdrawableNat DEF claim_locked
    <2> HIDE DEF n
    <2> QED
      BY <1>2, <2>1
  <1>5. ASSUME ~Claim PROVE wallet' = wallet
    BY Zenon, <1>5 DEF Next, new_distributor, clawback, set_root, Administer,
       set_enable_slot, set_clawback_start_ts, set_clawback_receiver, set_admin,
       close_distributor, Environment, Fund, Tick, NextSlot, ghosts
  <1>6. ASSUME claim_locked(c) PROVE wallet'[c] = Total(c)
    <2>1. /\ status[c] # None
          /\ wallet' = [wallet EXCEPT ![c] = wallet[c] + amount_withdrawable(status[c])]
      BY <1>6 DEF claim_locked
    <2> QED
      BY <1>1, <2>1 DEF Total, Payable
  <1> QED
    BY <1>1, <1>3, <1>4, <1>5, <1>6 DEF Claim

\* Every step of the command is an instruction of the program or none.
LEMMA ClaimStepIsEligibility ==
    [ClaimNext]_claimVars => [EligibilityNext]_eligibilityVars
  <1> SUFFICES ASSUME [ClaimNext]_claimVars PROVE [EligibilityNext]_eligibilityVars
    OBVIOUS
  <1>1. Users \subseteq Claimants
    BY UsersAssumption, TreeAssumption, FileRootAssumption
  <1>2. ASSUME NEW c \in Users, process_new_claim(c) \/ ClaimLocked(c)
        PROVE  EligibilityNext
    BY <1>1, <1>2 DEF process_new_claim, ClaimLocked, OnChain, EligibilityNext, Next,
       Claim
  <1>3. ASSUME NEW c \in Users, process_claim(c) \/ ReadClaimStatus(c) \/ Panic(c)
        PROVE  UNCHANGED eligibilityVars
    BY <1>3 DEF process_claim, ReadClaimStatus, Panic
  <1> QED
    BY <1>2, <1>3 DEF ClaimNext, Command, claimVars

\* With the command running, what was shown for the endpoint still holds.
THEOREM ClaimCommandSafe == ClaimSpec => EligibilitySpec
  <1>1. ClaimInit => EligibilityInit
    BY DEF ClaimInit
  <1> QED
    BY <1>1, ClaimStepIsEligibility, PTL DEF ClaimSpec, EligibilitySpec

\* What was promised holds however the command and the chain interleave.
LEMMA QuoteInvStep ==
    ASSUME IndInv, EligibilityInv, QuoteInv, IndInv', EligibilityInv',
           [ClaimNext]_claimVars
    PROVE  QuoteInv'
  <1> SUFFICES ASSUME StartPct = 50 PROVE QuoteInv'
    BY DEF QuoteInv
  <1> DEFINE Places == {"idle", "read", "new", "locked", "done", "panic"}
             Kept(c) == at[c] # "idle" => /\ dist # None
                                          /\ Total(c) >= quoted[c]
                                          /\ at[c] = "done" => wallet[c] >= quoted[c]
  <1>0. /\ at \in [Users -> Places] /\ quoted \in [Users -> Nat]
        /\ \A c \in Users : Kept(c) /\ c \in DOMAIN Tree[File]
    BY UsersAssumption DEF QuoteInv
  <1>1. ASSUME NEW c \in Users, dist # None
        PROVE  Total(c) \in Nat /\ wallet[c] \in Nat
    BY <1>0, <1>1, TotalIs DEF TotalBySchedule
  <1>2. ASSUME NEW c \in Users, Next, dist # None
        PROVE  /\ dist' # None
               /\ Total(c)' \in Nat /\ Total(c)' >= Total(c)
               /\ wallet'[c] \in Nat /\ wallet'[c] >= wallet[c]
    BY <1>0, <1>2, TotalKept, WalletStep
  <1>3. ASSUME UNCHANGED eligibilityVars, NEW c \in Users
        PROVE  dist' = dist /\ wallet'[c] = wallet[c] /\ Total(c)' = Total(c)
    BY <1>3 DEF eligibilityVars, vars, Total, Payable, amount_withdrawable, SeedStatus
  <1>4. ASSUME EligibilityNext, at' = at, quoted' = quoted
        PROVE  QuoteInv'
    <2>1. ASSUME NEW c \in Users PROVE Kept(c)'
      <3>1. CASE Next
        BY <1>0, <1>1, <1>2, <1>4, <2>1, <3>1
      <3>2. CASE hydrate_distributors_cache
        BY <1>0, <1>4, <2>1, <3>2 DEF hydrate_distributors_cache, vars, Total, Payable,
           amount_withdrawable, SeedStatus
      <3> QED
        BY <1>4, <3>1, <3>2 DEF EligibilityNext
    <2> QED
      BY <1>0, <1>4, <2>1 DEF QuoteInv
  <1>5. ASSUME NEW c \in Users, process_claim(c)
        PROVE  QuoteInv'
    <2>1. /\ dist # None /\ UNCHANGED eligibilityVars
          /\ at' = [at EXCEPT ![c] = "read"]
          /\ quoted' = [quoted EXCEPT ![c] = Quote(c)]
      BY <1>5 DEF process_claim
    <2>2. Quote(c) \in Nat /\ Quote(c) <= Total(c)
      BY <1>0, <1>1, <2>1, ExactNow DEF Quote, EligibilityExact, Total
    <2>3. ASSUME NEW d \in Users PROVE Kept(d)'
      BY <1>0, <1>3, <2>1, <2>2, <2>3
    <2> QED
      BY <1>0, <2>1, <2>2, <2>3 DEF QuoteInv
  <1>6. ASSUME NEW c \in Users, ReadClaimStatus(c) \/ Panic(c)
        PROVE  QuoteInv'
    <2>1. PICK to \in {"new", "locked", "panic"} : at' = [at EXCEPT ![c] = to]
      BY <1>6 DEF ReadClaimStatus, Panic
    <2>2. at[c] # "idle" /\ quoted' = quoted /\ UNCHANGED eligibilityVars
      BY <1>6 DEF ReadClaimStatus, Panic, Running
    <2>3. ASSUME NEW d \in Users PROVE Kept(d)'
      BY <1>0, <1>3, <2>1, <2>2, <2>3
    <2> QED
      BY <1>0, <2>1, <2>2, <2>3 DEF QuoteInv
  <1>7. ASSUME NEW c \in Users, process_new_claim(c) \/ ClaimLocked(c)
        PROVE  QuoteInv'
    <2>1. PICK to \in {"locked", "done"} :
            /\ at' = [at EXCEPT ![c] = to]
            /\ to = "done" => claim_locked(c)
      BY <1>7 DEF process_new_claim, ClaimLocked, OnChain
    <2>2. at[c] # "idle" /\ quoted' = quoted
      BY <1>7 DEF process_new_claim, ClaimLocked
    <2>3. Next
      BY <1>0, <1>7, TreeAssumption, FileRootAssumption
         DEF process_new_claim, ClaimLocked, OnChain, Next, Claim
    <2>4. ASSUME NEW d \in Users PROVE Kept(d)'
      <3>1. CASE d = c
        <4>1. dist # None /\ Total(c) >= quoted[c]
          BY <1>0, <2>2
        <4>2. claim_locked(c) => wallet'[c] = Total(c)
          BY <1>0, <2>3, <4>1, WalletStep
        <4> QED
          BY <1>0, <1>1, <1>2, <2>1, <2>2, <2>3, <3>1, <4>1, <4>2
      <3>2. CASE d # c
        BY <1>0, <1>1, <1>2, <2>1, <2>2, <2>3, <2>4, <3>2
      <3> QED
        BY <3>1, <3>2
    <2> QED
      BY <1>0, <2>1, <2>2, <2>4 DEF QuoteInv
  <1>8. ASSUME UNCHANGED claimVars
        PROVE  QuoteInv'
    <2>1. UNCHANGED eligibilityVars /\ at' = at /\ quoted' = quoted
      BY <1>8 DEF claimVars
    <2> QED
      BY <1>0, <1>3, <2>1 DEF QuoteInv
  <1> QED
    BY <1>4, <1>5, <1>6, <1>7, <1>8 DEF ClaimNext, Command

\* Along every behaviour with the command.
LEMMA QuoteInvHolds == ClaimSpec => [](IndInv /\ EligibilityInv /\ QuoteInv)
  <1>1. ClaimInit => QuoteInv
    BY DEF ClaimInit, QuoteInv
  <1>2. IndInv /\ EligibilityInv /\ QuoteInv /\ (IndInv /\ EligibilityInv)'
          /\ [ClaimNext]_claimVars => QuoteInv'
    BY QuoteInvStep
  <1> QED
    BY <1>1, <1>2, ClaimCommandSafe, EligibilityInvHolds, PTL DEF ClaimSpec

\* A claim command that ends without a panic has paid what a fresh /eligibility
\* promised at its start, for any tree, window, times and interleaving.
THEOREM CommandPaysQuote == ClaimSpec => []QuotedIsPaid
  <1>1. QuoteInv => QuotedIsPaid
    BY DEF QuoteInv, QuotedIsPaid
  <1> QED
    BY <1>1, QuoteInvHolds, PTL

\* A command stopped anywhere leaves the claimant what was promised: it may be run
\* again.
THEOREM PromiseKept == ClaimSpec => []QuoteKept
  <1>1. QuoteInv => QuoteKept
    BY DEF QuoteInv, QuoteKept, Total
  <1> QED
    BY <1>1, QuoteInvHolds, PTL
=============================================================================
