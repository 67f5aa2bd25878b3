---------------------------- MODULE Eligibility ----------------------------
(***************************************************************************)
(* What the API's /eligibility endpoint answers (api/src/router.rs) beside *)
(* what the program would pay.  The answer is computed from the tree file  *)
(* the server loaded at start, the cached vesting window, and the cached   *)
(* ClaimStatus.  By module ClaimCache the cached status may be any state   *)
(* the account has had, or missing; so an answer is judged for all of      *)
(* them.  The server's clock is the chain's.                               *)
(***************************************************************************)
EXTENDS Distributor

CONSTANTS
    File,                      \* the root whose tree the server has loaded
    DefaultStart, DefaultEnd,  \* window answered while none is cached
    StartPct                   \* start_amount_pct, 50 unless configured

ASSUME FileRootAssumption ==
    /\ File \in Roots
    /\ \A p \in Params : p.root = File /\ ~p.closable
    /\ ReRoots = {}
    /\ DefaultStart \in Nat /\ DefaultEnd \in Nat /\ StartPct \in 0..100

VARIABLES
    seen,      \* seen[c]: every state of c's ClaimStatus account so far
    window     \* the cached distributor's [start_ts, end_ts], or None

eligibilityVars == <<vars, seen, window>>

EligibilityInit ==
    /\ Init
    /\ seen = [c \in Claimants |-> {None}]
    /\ window = None

\* hydrate_distributors_cache: a missing account or a failed fetch, retried
\* or not, leaves the entry as it is.
hydrate_distributors_cache ==
    /\ dist # None
    /\ window' = [start_ts |-> dist.start_ts, end_ts |-> dist.end_ts]
    /\ UNCHANGED <<vars, seen>>

EligibilityNext ==
    \/ hydrate_distributors_cache
    \/ /\ Next
       /\ seen' = [c \in Claimants |-> seen[c] \cup {status'[c]}]
       /\ UNCHANGED window

EligibilitySpec == EligibilityInit /\ [][EligibilityNext]_eligibilityVars
-----------------------------------------------------------------------------
START_AMOUNT_PCT_PRECISION == 1000
START_AMOUNT_PCT_DENOM == 100 * START_AMOUNT_PCT_PRECISION

\* Slip: the bonus is a share of the whole amount.
claimable_with_full_bonus(unlocked, curr_ts, start_ts, end_ts, pct) ==
    IF curr_ts < start_ts THEN 0
    ELSE IF curr_ts >= end_ts THEN unlocked
    ELSE Share(unlocked, pct * START_AMOUNT_PCT_PRECISION, START_AMOUNT_PCT_DENOM)
         + Share(unlocked, curr_ts - start_ts, end_ts - start_ts)

calculate_claimable_amount_for_new_user(unlocked, curr_ts, start_ts, end_ts, pct) ==
    IF curr_ts < start_ts THEN 0
    ELSE IF curr_ts >= end_ts \/ end_ts = start_ts THEN unlocked
    ELSE LET start == Share(unlocked, pct * START_AMOUNT_PCT_PRECISION,
                            START_AMOUNT_PCT_DENOM)
         IN  start + Share(unlocked - start, curr_ts - start_ts, end_ts - start_ts)

calculate_locked_amount_claimable(locked, curr_ts, start_ts, end_ts) ==
    IF curr_ts < start_ts THEN 0
    ELSE IF curr_ts >= end_ts \/ end_ts = start_ts THEN locked
    ELSE Share(locked, curr_ts - start_ts, end_ts - start_ts)

\* ClaimStatus::amount_withdrawable(..).unwrap_or(0) of a cached status.
WithdrawableOrZero(s, w) ==
    LET vested == unlocked_amount(s.locked_amount, now, w.start_ts, w.end_ts)
    IN  IF vested >= s.locked_amount_withdrawn
        THEN vested - s.locked_amount_withdrawn
        ELSE 0

\* Slip: the locked tokens withdrawn so far are left out of claimed.
ReportedUnlockedOnly(c, s, w) ==
    IF s # None
    THEN [claimed   |-> s.unlocked_amount_claimed,
          claimable |-> WithdrawableOrZero(s, w)]
    ELSE [claimed   |-> 0,
          claimable |-> Tree[File][c].unlocked + Tree[File][c].locked]

\* The two amounts get_eligibility reports for a claimant of the file, from a
\* cached status s (None: no entry) and a window w.
Reported(c, s, w) ==
    IF s # None
    THEN [claimed   |-> s.unlocked_amount_claimed + s.locked_amount_withdrawn,
          claimable |-> WithdrawableOrZero(s, w)]
    ELSE [claimed   |-> 0,
          claimable |->
            calculate_claimable_amount_for_new_user(
                Tree[File][c].unlocked, now, w.start_ts, w.end_ts, StartPct)
            + calculate_locked_amount_claimable(
                Tree[File][c].locked, now, w.start_ts, w.end_ts)]

\* The answer of get_eligibility, given the cached status.
get_eligibility(c, s) ==
    Reported(c, s, IF window # None THEN window
                   ELSE [start_ts |-> DefaultStart, end_ts |-> DefaultEnd])
-----------------------------------------------------------------------------
\* What c can still take from the program now: new_claim and then
\* claim_locked, or claim_locked alone.
Payable(c) ==
    IF status[c] # None THEN amount_withdrawable(status[c])
    ELSE IF now < dist.start_ts THEN 0
    ELSE SeedStatus(Tree[File][c]).unlocked_amount_claimed
         + unlocked_amount(Tree[File][c].locked, now, dist.start_ts, dist.end_ts)

\* With an up-to-date cache and the program's 50 percent the answer is exact:
\* claimed is what c has received and claimable what it can take now.  The
\* comments in the router say that its two functions mirror the program's.
EligibilityExact ==
    dist # None /\ window # None /\ StartPct = 50 =>
        \A c \in DOMAIN Tree[File] :
            LET r == get_eligibility(c, status[c])
            IN  r.claimed = wallet[c] /\ r.claimable = Payable(c)

\* A stale answer never hides tokens: from whichever earlier state of the
\* account it is computed, claimed + claimable is at least what c has received
\* plus what it can still take.
NeverUnderReports ==
    dist # None /\ window # None /\ StartPct = 50 =>
        \A c \in DOMAIN Tree[File] : \A s \in seen[c] :
            LET r == get_eligibility(c, s)
            IN  r.claimed + r.claimable >= wallet[c] + Payable(c)

\* What the two properties rest on, beside IndInv.  The one distributor is of the
\* loaded file; a cached window is its window; a status has the file's amounts; a
\* cached status differs from the current one in what was withdrawn since.
EligibilityInv ==
    /\ retired.nodes = 0
    /\ dist # None => dist.root = File /\ ~dist.closable
    /\ window # None => /\ dist # None
                        /\ window = [start_ts |-> dist.start_ts, end_ts |-> dist.end_ts]
    /\ seen \in [Claimants -> SUBSET (ClaimStatus \cup {None})]
    /\ \A c \in Claimants :
         /\ status[c] # None =>
              /\ dist # None
              /\ c \in DOMAIN Tree[File]
              /\ status[c].unlocked_amount = Tree[File][c].unlocked
              /\ status[c].locked_amount = Tree[File][c].locked
         /\ \A s \in seen[c] : s # None =>
              /\ status[c] # None
              /\ s.locked_amount = status[c].locked_amount
              /\ s.unlocked_amount_claimed = status[c].unlocked_amount_claimed
              /\ s.locked_amount_withdrawn <= status[c].locked_amount_withdrawn
=============================================================================
