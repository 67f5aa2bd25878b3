---------------------------- MODULE Distributor ----------------------------
(***************************************************************************)
(* The on-chain program merkle-distributor: one distributor account (the   *)
(* PDA of one mint and version), its token vault, and the ClaimStatus PDA  *)
(* of every claimant.  A Solana transaction is atomic and any error        *)
(* reverts it, so every instruction is one action whose guard is the       *)
(* conjunction of the account constraints and require!s it passes.         *)
(*                                                                         *)
(* Abstractions.  A root is a model value that commits to the tree         *)
(* Tree[root]; "the proof verifies" is membership in that tree (module     *)
(* MerkleTree checks the hash tree itself).  Times and slots are naturals. *)
(* A checked_add that feeds a `<= max` of the same width fails only when   *)
(* that comparison fails too, so it adds no guard of its own.              *)
(***************************************************************************)
EXTENDS Vesting, FiniteSets, Functions

CONSTANTS
    Claimants,        \* wallets that may appear in a tree
    Roots,            \* merkle roots
    Tree,             \* Tree[r][c]: the leaf of c under root r, if it has one
    Admins,           \* keys that may be admin
    Deployer,         \* admin::id(), the only key that creates distributors
    Receivers,        \* token accounts a clawback or a close may pay
    Vault,            \* the distributor's own token account
    None,             \* an account that does not exist
    Params,           \* arguments new_distributor may be called with
    ReRoots,          \* arguments set_root may be called with
    Deposits,         \* amounts anyone may transfer into the vault
    EnableSlots,      \* arguments of set_enable_slot
    ClawbackTimes,    \* arguments of set_clawback_start_ts
    ReRootable,       \* whether the mint is one of DFX_MINTS
    SECONDS_PER_DAY,
    U64_MAX,          \* enable_slot of a paused distributor
    MaxTime, MaxSlot, MaxFunded   \* bounds of the clocks and of the deposits

Leaf == [unlocked : Nat, locked : Nat]

NewDistributorArgs ==
    [root : Roots, max_total_claim : Nat, max_num_nodes : Nat,
     start_vesting_ts : Nat, end_vesting_ts : Nat, clawback_start_ts : Nat,
     clawback_receiver : Receivers, enable_slot : Nat, closable : BOOLEAN]

SetRootArgs ==
    [new_root : Roots, expected_old_root : Roots,
     expected_num_nodes_claimed : Nat, new_max_total_claim : Nat]

MerkleDistributor ==
    [root : Roots, max_total_claim : Nat, max_num_nodes : Nat,
     total_amount_claimed : Nat, total_amount_forgone : Nat,
     num_nodes_claimed : Nat, start_ts : Nat, end_ts : Nat,
     clawback_start_ts : Nat, clawback_receiver : Receivers, admin : Admins,
     clawed_back : BOOLEAN, enable_slot : Nat, closable : BOOLEAN]

ClaimStatus ==
    [locked_amount : Nat, locked_amount_withdrawn : Nat,
     unlocked_amount : Nat, unlocked_amount_claimed : Nat]

ASSUME TreeAssumption ==
    \A r \in Roots : \A c \in DOMAIN Tree[r] :
        c \in Claimants /\ Tree[r][c] \in Leaf

\* A tree file lists finitely many claimants.
ASSUME ClaimantsAssumption == IsFiniteSet(Claimants)

ASSUME ArgumentAssumption ==
    /\ Deployer \in Admins
    /\ Params \subseteq NewDistributorArgs
    /\ ReRoots \subseteq SetRootArgs
    /\ Deposits \subseteq Nat
    /\ EnableSlots \subseteq Nat
    /\ ClawbackTimes \subseteq Nat
    /\ ReRootable \in BOOLEAN

ASSUME ClockAssumption ==
    /\ SECONDS_PER_DAY \in Nat \ {0}
    /\ MaxTime \in Nat /\ MaxSlot \in Nat /\ MaxFunded \in Nat
    /\ U64_MAX \in Nat /\ MaxSlot < U64_MAX

ASSUME NoneAssumption ==
    None \notin MerkleDistributor /\ None \notin ClaimStatus /\ None \notin Nat

VARIABLES
    now, slot,   \* Clock::unix_timestamp and Clock::slot
    dist,        \* the MerkleDistributor account, or None
    status,      \* status[c]: the ClaimStatus account of c, or None
    vault,       \* tokens in the vault
    wallet,      \* wallet[c]: tokens c has received from the vault
    funded,      \* tokens ever transferred into the vault
    swept,       \* tokens moved out by clawback and close_distributor
    burned,      \* tokens burned by set_root
    retired      \* totals of the closed distributors of this address

ghosts == <<wallet, funded, swept, burned, retired>>
vars == <<now, slot, dist, status, vault, wallet, funded, swept, burned, retired>>

Totals == [claimed : Nat, forgone : Nat, nodes : Nat]

TypeOK ==
    /\ now \in Nat /\ slot \in Nat
    /\ dist \in MerkleDistributor \cup {None}
    /\ status \in [Claimants -> ClaimStatus \cup {None}]
    /\ vault \in Nat
    /\ wallet \in [Claimants -> Nat]
    /\ funded \in Nat /\ swept \in Nat /\ burned \in Nat
    /\ retired \in Totals

Init ==
    /\ now = 0 /\ slot = 0
    /\ dist = None
    /\ status = [c \in Claimants |-> None]
    /\ vault = 0
    /\ wallet = [c \in Claimants |-> 0]
    /\ funded = 0 /\ swept = 0 /\ burned = 0
    /\ retired = [claimed |-> 0, forgone |-> 0, nodes |-> 0]
-----------------------------------------------------------------------------
(***************************************************************************)
(* The instructions.                                                       *)
(***************************************************************************)

\* The arguments handle_new_distributor accepts at this time.
ValidTimestamps(p) ==
    /\ p.start_vesting_ts < p.end_vesting_ts
    /\ p.end_vesting_ts > now /\ p.clawback_start_ts > now
    /\ p.clawback_start_ts > p.end_vesting_ts
    /\ p.clawback_start_ts >= p.end_vesting_ts + SECONDS_PER_DAY

new_distributor(p) ==
    /\ dist = None
    /\ ValidTimestamps(p)
    /\ dist' = [root |-> p.root,
                max_total_claim |-> p.max_total_claim,
                max_num_nodes |-> p.max_num_nodes,
                total_amount_claimed |-> 0,
                total_amount_forgone |-> 0,
                num_nodes_claimed |-> 0,
                start_ts |-> p.start_vesting_ts,
                end_ts |-> p.end_vesting_ts,
                clawback_start_ts |-> p.clawback_start_ts,
                clawback_receiver |-> p.clawback_receiver,
                admin |-> Deployer,
                clawed_back |-> FALSE,
                enable_slot |-> p.enable_slot,
                closable |-> p.closable]
    /\ UNCHANGED <<now, slot, status, vault, ghosts>>

\* Slip: the clawed_back requirement is missing.
ClaimsOpenAfterClawback ==
    /\ dist # None
    /\ dist.enable_slot <= slot

\* What handle_new_claim and handle_claim_locked require of the distributor.
ClaimsOpen ==
    /\ dist # None
    /\ ~dist.clawed_back
    /\ dist.enable_slot <= slot

\* The ClaimStatus that handle_new_claim seeds for a leaf.
SeedStatus(leaf) ==
    [locked_amount |-> leaf.locked,
     locked_amount_withdrawn |-> 0,
     unlocked_amount |-> leaf.unlocked,
     unlocked_amount_claimed |->
        unlocked_amount_claimed(leaf.unlocked, now, dist.start_ts, dist.end_ts)]

get_unlocked_amount_forgone(s) == s.unlocked_amount - s.unlocked_amount_claimed

\* Slip: the ClaimStatus is init_if_needed instead of init.
new_claim_again(c) ==
    /\ ClaimsOpen
    /\ dist.start_ts <= now
    /\ dist.num_nodes_claimed + 1 <= dist.max_num_nodes
    /\ c \in DOMAIN Tree[dist.root]
    /\ LET s       == SeedStatus(Tree[dist.root][c])
           amount  == s.unlocked_amount_claimed
           claimed == dist.total_amount_claimed + amount
           forgone == dist.total_amount_forgone + get_unlocked_amount_forgone(s)
       IN  /\ vault >= amount
           /\ claimed + forgone <= dist.max_total_claim
           /\ status' = [status EXCEPT ![c] = s]
           /\ vault' = vault - amount
           /\ wallet' = [wallet EXCEPT ![c] = @ + amount]
           /\ dist' = [dist EXCEPT !.num_nodes_claimed = @ + 1,
                                   !.total_amount_claimed = claimed,
                                   !.total_amount_forgone = forgone]
    /\ UNCHANGED <<now, slot, funded, swept, burned, retired>>

\* What handle_new_claim requires; the transfer requires the balance.
NewClaimAllowed(c) ==
    /\ ClaimsOpen
    /\ status[c] = None
    /\ dist.start_ts <= now
    /\ dist.num_nodes_claimed + 1 <= dist.max_num_nodes
    /\ c \in DOMAIN Tree[dist.root]
    /\ LET s == SeedStatus(Tree[dist.root][c])
       IN  /\ vault >= s.unlocked_amount_claimed
           /\ dist.total_amount_claimed + s.unlocked_amount_claimed
                + (dist.total_amount_forgone + get_unlocked_amount_forgone(s))
                <= dist.max_total_claim

new_claim(c) ==
    /\ NewClaimAllowed(c)
    /\ LET s       == SeedStatus(Tree[dist.root][c])
           amount  == s.unlocked_amount_claimed
           forgone == get_unlocked_amount_forgone(s)
       IN  /\ status' = [status EXCEPT ![c] = s]
           /\ vault' = vault - amount
           /\ wallet' = [wallet EXCEPT ![c] = @ + amount]
           /\ dist' = [dist EXCEPT !.num_nodes_claimed = @ + 1,
                                   !.total_amount_claimed = @ + amount,
                                   !.total_amount_forgone = @ + forgone]
    /\ UNCHANGED <<now, slot, funded, swept, burned, retired>>

\* Slip: what was withdrawn before is not subtracted.
amount_vested(s) ==
    unlocked_amount(s.locked_amount, now, dist.start_ts, dist.end_ts)

\* Negative where the code's checked_sub fails.
amount_withdrawable(s) ==
    unlocked_amount(s.locked_amount, now, dist.start_ts, dist.end_ts)
      - s.locked_amount_withdrawn

\* Slip: the maximum is compared before the claim is added, and the two
\* counters that record the claim are given as arguments.
claim_locked_with(c, counted, recorded) ==
    /\ ClaimsOpen
    /\ status[c] # None
    /\ LET amount    == amount_withdrawable(status[c])
           withdrawn == status[c].locked_amount_withdrawn + amount
       IN  /\ amount > 0
           /\ vault >= amount
           /\ withdrawn <= status[c].locked_amount
           /\ dist.total_amount_claimed <= dist.max_total_claim
           /\ status' = IF recorded
                        THEN [status EXCEPT ![c].locked_amount_withdrawn = withdrawn]
                        ELSE status
           /\ vault' = vault - amount
           /\ wallet' = [wallet EXCEPT ![c] = @ + amount]
           /\ dist' = IF counted
                      THEN [dist EXCEPT !.total_amount_claimed = @ + amount]
                      ELSE dist
    /\ UNCHANGED <<now, slot, funded, swept, burned, retired>>

claim_locked_late_check(c) == claim_locked_with(c, TRUE, TRUE)
claim_locked_uncounted(c) == claim_locked_with(c, FALSE, TRUE)
claim_locked_unrecorded(c) == claim_locked_with(c, TRUE, FALSE)

\* What handle_claim_locked requires.
ClaimLockedAllowed(c) ==
    /\ ClaimsOpen
    /\ status[c] # None
    /\ LET amount == amount_withdrawable(status[c])
       IN  /\ amount > 0
           /\ vault >= amount
           /\ status[c].locked_amount_withdrawn + amount <= status[c].locked_amount
           /\ dist.total_amount_claimed + amount <= dist.max_total_claim

claim_locked(c) ==
    /\ ClaimLockedAllowed(c)
    /\ LET amount == amount_withdrawable(status[c])
       IN  /\ status' = [status EXCEPT ![c].locked_amount_withdrawn = @ + amount]
           /\ vault' = vault - amount
           /\ wallet' = [wallet EXCEPT ![c] = @ + amount]
           /\ dist' = [dist EXCEPT !.total_amount_claimed = @ + amount]
    /\ UNCHANGED <<now, slot, funded, swept, burned, retired>>

\* Transfers the whole vault to a token account, which may be the vault itself.
Sweep(to) ==
    LET left == IF to = Vault THEN vault ELSE 0
    IN  /\ vault' = left
        /\ swept' = swept + (vault - left)

clawback ==
    /\ dist # None
    /\ ~dist.clawed_back
    /\ now >= dist.clawback_start_ts
    /\ Sweep(dist.clawback_receiver)
    /\ dist' = [dist EXCEPT !.clawed_back = TRUE]
    /\ UNCHANGED <<now, slot, status, wallet, funded, burned, retired>>

\* Slips: set_root may raise the maximum; it ignores claims that landed
\* since the new tree was built.
validate_set_root_raising(p) ==
    /\ ReRootable
    /\ ~dist.clawed_back
    /\ dist.enable_slot = U64_MAX
    /\ dist.root = p.expected_old_root
    /\ dist.num_nodes_claimed = p.expected_num_nodes_claimed
    /\ p.new_max_total_claim
         >= dist.total_amount_claimed + dist.total_amount_forgone
    /\ vault >= dist.max_total_claim - dist.total_amount_claimed

validate_set_root_stale(p) ==
    /\ ReRootable
    /\ ~dist.clawed_back
    /\ dist.enable_slot = U64_MAX
    /\ dist.root = p.expected_old_root
    /\ p.new_max_total_claim <= dist.max_total_claim
    /\ p.new_max_total_claim
         >= dist.total_amount_claimed + dist.total_amount_forgone
    /\ vault >= dist.max_total_claim - dist.total_amount_claimed

validate_set_root(p) ==
    /\ ReRootable
    /\ ~dist.clawed_back
    /\ dist.enable_slot = U64_MAX
    /\ dist.root = p.expected_old_root
    /\ dist.num_nodes_claimed = p.expected_num_nodes_claimed
    /\ p.new_max_total_claim <= dist.max_total_claim
    /\ p.new_max_total_claim
         >= dist.total_amount_claimed + dist.total_amount_forgone
    /\ vault >= dist.max_total_claim - dist.total_amount_claimed

\* Slip: the tokens are burned and max_total_claim keeps its value.
set_root_keeping_max(p) ==
    /\ dist # None
    /\ validate_set_root(p)
    /\ vault' = vault - (dist.max_total_claim - p.new_max_total_claim)
    /\ burned' = burned + (dist.max_total_claim - p.new_max_total_claim)
    /\ dist' = [dist EXCEPT !.root = p.new_root]
    /\ UNCHANGED <<now, slot, status, wallet, funded, swept, retired>>

\* Burns the decrease of max_total_claim; a decrease of 0 burns nothing.
set_root(p) ==
    /\ dist # None
    /\ validate_set_root(p)
    /\ LET burn_amount == dist.max_total_claim - p.new_max_total_claim
       IN  /\ vault >= burn_amount
           /\ vault' = vault - burn_amount
           /\ burned' = burned + burn_amount
    /\ dist' = [dist EXCEPT !.root = p.new_root,
                            !.max_total_claim = p.new_max_total_claim]
    /\ UNCHANGED <<now, slot, status, wallet, funded, swept, retired>>

set_enable_slot(s) ==
    /\ dist # None
    /\ dist' = [dist EXCEPT !.enable_slot = s]
    /\ UNCHANGED <<now, slot, status, vault, ghosts>>

\* Slip: only the future is required, not the day after vesting.
set_clawback_start_ts_early(ts) ==
    /\ dist # None
    /\ ~dist.clawed_back
    /\ ts > now
    /\ dist' = [dist EXCEPT !.clawback_start_ts = ts]
    /\ UNCHANGED <<now, slot, status, vault, ghosts>>

set_clawback_start_ts(ts) ==
    /\ dist # None
    /\ ~dist.clawed_back
    /\ ts > now
    /\ ts >= dist.end_ts + SECONDS_PER_DAY
    /\ dist' = [dist EXCEPT !.clawback_start_ts = ts]
    /\ UNCHANGED <<now, slot, status, vault, ghosts>>

set_clawback_receiver(to) ==
    /\ dist # None
    /\ to # dist.clawback_receiver
    /\ dist' = [dist EXCEPT !.clawback_receiver = to]
    /\ UNCHANGED <<now, slot, status, vault, ghosts>>

set_admin(a) ==
    /\ dist # None
    /\ a # dist.admin
    /\ dist' = [dist EXCEPT !.admin = a]
    /\ UNCHANGED <<now, slot, status, vault, ghosts>>

\* The account is closed, so its address can be initialised again; the
\* ClaimStatus accounts stay.
close_distributor(to) ==
    /\ dist # None
    /\ dist.closable
    /\ Sweep(to)
    /\ dist' = None
    /\ retired' = [claimed |-> retired.claimed + dist.total_amount_claimed,
                   forgone |-> retired.forgone + dist.total_amount_forgone,
                   nodes   |-> retired.nodes + dist.num_nodes_claimed]
    /\ UNCHANGED <<now, slot, status, wallet, funded, burned>>
-----------------------------------------------------------------------------
(***************************************************************************)
(* The environment: token transfers into the vault, and the two clocks.    *)
(***************************************************************************)
Fund(n) ==
    /\ funded + n <= MaxFunded
    /\ vault' = vault + n
    /\ funded' = funded + n
    /\ UNCHANGED <<now, slot, dist, status, wallet, swept, burned, retired>>

Tick ==
    /\ now < MaxTime
    /\ now' = now + 1
    /\ UNCHANGED <<slot, dist, status, vault, ghosts>>

NextSlot ==
    /\ slot < MaxSlot
    /\ slot' = slot + 1
    /\ UNCHANGED <<now, dist, status, vault, ghosts>>

Claim == \E c \in Claimants : new_claim(c) \/ claim_locked(c)

\* What the current admin may sign.  (Instructions of other signers fail.)
Administer ==
    \/ \E s \in EnableSlots : set_enable_slot(s)
    \/ \E ts \in ClawbackTimes : set_clawback_start_ts(ts)
    \/ \E to \in Receivers : set_clawback_receiver(to)
    \/ \E a \in Admins : set_admin(a)
    \/ \E to \in Receivers : close_distributor(to)

Environment == (\E n \in Deposits : Fund(n)) \/ Tick \/ NextSlot

Next ==
    \/ \E p \in Params : new_distributor(p)
    \/ Claim
    \/ clawback
    \/ \E p \in ReRoots : set_root(p)
    \/ Administer
    \/ Environment

Spec == Init /\ [][Next]_vars
-----------------------------------------------------------------------------
(***************************************************************************)
(* Safety.                                                                 *)
(***************************************************************************)

\* What the status account says its claimant has been paid.
PaidBy(s) ==
    IF s = None THEN 0 ELSE s.unlocked_amount_claimed + s.locked_amount_withdrawn

ForgoneBy(s) == IF s = None THEN 0 ELSE get_unlocked_amount_forgone(s)

ClaimedNow == IF dist = None THEN 0 ELSE dist.total_amount_claimed
ForgoneNow == IF dist = None THEN 0 ELSE dist.total_amount_forgone
NodesNow == IF dist = None THEN 0 ELSE dist.num_nodes_claimed

\* Every token that entered the vault is still there, or left it through a
\* claim that total_amount_claimed counts, a sweep or a burn.  Two claim
\* instructions, set_root, clawback and close_distributor each move tokens and
\* update their own counter; a counter that misses a transfer breaks the sum.
LedgerBalanced ==
    funded = vault + swept + burned + retired.claimed + ClaimedNow

\* total_amount_claimed, total_amount_forgone and num_nodes_claimed, summed
\* over the lives of the address, are exactly what the ClaimStatus accounts
\* record, and those are exactly what the claimants received.
CountersMatchStatuses ==
    /\ retired.claimed + ClaimedNow
         = SumFunction([c \in Claimants |-> PaidBy(status[c])])
    /\ retired.forgone + ForgoneNow
         = SumFunction([c \in Claimants |-> ForgoneBy(status[c])])
    /\ retired.nodes + NodesNow
         = Cardinality({c \in Claimants : status[c] # None})

\* A claimant receives what its ClaimStatus records and never more than the
\* leaf it claimed: a claim pays once, even if the root is replaced or the
\* distributor is closed and created again.
PaidWithinLeaf ==
    \A c \in Claimants :
        /\ wallet[c] = PaidBy(status[c])
        /\ status[c] # None =>
             /\ status[c].unlocked_amount_claimed <= status[c].unlocked_amount
             /\ status[c].locked_amount_withdrawn <= status[c].locked_amount

\* A distributor never pays more than max_total_claim nor more nodes than
\* max_num_nodes, whatever its tree adds up to; and set_root's unchecked
\* `max_total_claim - total_amount_claimed` never underflows.
WithinMaxTotalClaim ==
    dist # None => /\ dist.total_amount_claimed <= dist.max_total_claim
                   /\ dist.num_nodes_claimed <= dist.max_num_nodes

\* Nobody is ahead of the vesting schedule: at every moment what was paid of
\* the unlocked and of the locked tokens is at most what has vested by then.
\* So amount_withdrawable's checked_sub never fails.  (A distributor created
\* again at an address whose statuses survive may have a later window.)
NeverAheadOfVesting ==
    dist # None /\ retired.nodes = 0 =>
        \A c \in Claimants : status[c] # None =>
            LET s == status[c]
            IN  /\ dist.start_ts <= now
                /\ s.unlocked_amount_claimed
                     <= unlocked_amount_claimed(s.unlocked_amount, now,
                                                dist.start_ts, dist.end_ts)
                /\ s.locked_amount_withdrawn
                     <= unlocked_amount(s.locked_amount, now,
                                        dist.start_ts, dist.end_ts)

\* A clawback leaves claimants at least a day after everything has vested,
\* however often set_clawback_start_ts moved it.
ClawbackAfterVesting ==
    dist # None /\ dist.clawed_back => now >= dist.end_ts + SECONDS_PER_DAY

\* The vesting window is never empty and the clawback never closer than a day.
WindowKept ==
    dist # None => /\ dist.start_ts < dist.end_ts
                   /\ dist.clawback_start_ts >= dist.end_ts + SECONDS_PER_DAY

\* No ClaimStatus exists that num_nodes_claimed never counted.
StatusesCounted ==
    retired.nodes + NodesNow = 0 => \A c \in Claimants : status[c] = None

\* The inductive invariant of DistributorProofs: the safety invariants need
\* each other and the two facts above.
IndInv ==
    /\ TypeOK
    /\ WindowKept
    /\ LedgerBalanced
    /\ PaidWithinLeaf
    /\ WithinMaxTotalClaim
    /\ ClawbackAfterVesting
    /\ StatusesCounted
    /\ NeverAheadOfVesting

\* The vault holds everything max_total_claim still promises.
Solvent == vault >= dist.max_total_claim - dist.total_amount_claimed

\* Once the vault covers max_total_claim - total_amount_claimed it does so
\* until the clawback or the close: no claim, burn, donation or admin
\* instruction makes a solvent distributor insolvent.
SolvencyKept ==
    [][dist # None /\ Solvent /\ dist' # None /\ ~dist'.clawed_back
         => Solvent']_vars

\* After the clawback no instruction pays a claimant, burns, or changes what
\* the distributor owes, although tokens may still arrive in the vault.
FrozenAfterClawback ==
    [][dist # None /\ dist.clawed_back =>
         /\ wallet' = wallet /\ burned' = burned
         /\ dist' # None => /\ dist'.clawed_back
                            /\ dist'.root = dist.root
                            /\ dist'.max_total_claim = dist.max_total_claim
                            /\ dist'.clawback_start_ts = dist.clawback_start_ts]_vars

\* What new_distributor's doc comment says it checks: the start, end and
\* clawback_start timestamps of a new distributor are all in the future.
NewTimesInFuture ==
    [][dist = None /\ dist' # None =>
         /\ dist'.start_ts > now
         /\ dist'.end_ts > now
         /\ dist'.clawback_start_ts > now]_vars
=============================================================================
