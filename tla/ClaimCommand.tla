---------------------------- MODULE ClaimCommand ----------------------------
(***************************************************************************)
(* A claimant with the CLI's claim command (process_claim.rs, and          *)
(* process_new_claim.rs, which it calls), against the program and beside   *)
(* the API.  The command reads whether the ClaimStatus exists, opens it    *)
(* with new_claim if not, and then withdraws with claim_locked.  Each      *)
(* transaction is confirmed before the command goes on; an error of any    *)
(* request, of the cluster's or of the program's, is a panic.  A           *)
(* transaction reported lost that lands later is a claim of Next like any  *)
(* other.                                                                  *)
(***************************************************************************)
EXTENDS Eligibility

CONSTANT Users   \* the claimants of the file who use the command

ASSUME UsersAssumption == Users \subseteq DOMAIN Tree[File]

VARIABLES
    at,        \* at[c]: where c's command is: "idle", "read", "new", "locked",
               \* "done" or "panic"
    quoted     \* quoted[c]: claimed + claimable that a fresh /eligibility answered
               \* when c's command began; 0 while the server knows no window

claimVars == <<eligibilityVars, at, quoted>>

ClaimInit ==
    /\ EligibilityInit
    /\ at = [c \in Users |-> "idle"]
    /\ quoted = [c \in Users |-> 0]

Quote(c) ==
    IF window = None THEN 0
    ELSE LET r == get_eligibility(c, status[c]) IN r.claimed + r.claimable

Running(c) == at[c] \in {"read", "new", "locked"}

\* The command is started, for the first time or again.
process_claim(c) ==
    /\ dist # None
    /\ ~Running(c)
    /\ at' = [at EXCEPT ![c] = "read"]
    /\ quoted' = [quoted EXCEPT ![c] = Quote(c)]
    /\ UNCHANGED eligibilityVars

\* Slip: the claim is opened whether it exists or not.
ReadNothing(c) ==
    /\ at[c] = "read"
    /\ at' = [at EXCEPT ![c] = "new"]
    /\ UNCHANGED <<eligibilityVars, quoted>>

\* Whether the ClaimStatus exists: only "AccountNotFound" means that it does not.
ReadClaimStatus(c) ==
    /\ at[c] = "read"
    /\ at' = [at EXCEPT ![c] = IF status[c] = None THEN "new" ELSE "locked"]
    /\ UNCHANGED <<eligibilityVars, quoted>>

\* An instruction of the program, as the API sees it.
OnChain(instruction) ==
    /\ instruction
    /\ seen' = [c \in Claimants |-> seen[c] \cup {status'[c]}]
    /\ UNCHANGED window

\* Slip: the command returns once the status is open.
new_claim_and_return(c) ==
    /\ at[c] = "new"
    /\ OnChain(new_claim(c))
    /\ at' = [at EXCEPT ![c] = "done"]
    /\ UNCHANGED quoted

\* process_new_claim: the claimant's node of the tree file, sent and confirmed.
process_new_claim(c) ==
    /\ at[c] = "new"
    /\ OnChain(new_claim(c))
    /\ at' = [at EXCEPT ![c] = "locked"]
    /\ UNCHANGED quoted

\* The second half of process_claim, sent and confirmed.
ClaimLocked(c) ==
    /\ at[c] = "locked"
    /\ OnChain(claim_locked(c))
    /\ at' = [at EXCEPT ![c] = "done"]
    /\ UNCHANGED quoted

\* A failed request, a refused transaction or one that was not confirmed in time.
Panic(c) ==
    /\ Running(c)
    /\ at' = [at EXCEPT ![c] = "panic"]
    /\ UNCHANGED <<eligibilityVars, quoted>>

Command(c) ==
    ReadClaimStatus(c) \/ process_new_claim(c) \/ ClaimLocked(c) \/ Panic(c)

ClaimNext ==
    \/ EligibilityNext /\ UNCHANGED <<at, quoted>>
    \/ \E c \in Users : process_claim(c) \/ Command(c)

\* Time passes, and a user keeps running the command: it comes to an end, is started
\* again, and what it asks for is not refused for ever by the network alone.
ClaimFairness ==
    /\ WF_claimVars(OnChain(Tick) /\ UNCHANGED <<at, quoted>>)
    /\ \A c \in Users :
         /\ WF_claimVars(process_claim(c))
         /\ WF_claimVars(Command(c))
         /\ SF_claimVars(ReadClaimStatus(c))
         /\ SF_claimVars(process_new_claim(c))
         /\ SF_claimVars(ClaimLocked(c))

ClaimSpec == ClaimInit /\ [][ClaimNext]_claimVars /\ ClaimFairness
-----------------------------------------------------------------------------
\* A command that ends without a panic has paid at least what /eligibility promised
\* when it began, whatever landed in between: a second command of the same claimant,
\* a transaction thought lost, or a replaced window of the cache.
QuotedIsPaid ==
    StartPct = 50 =>
        \A c \in Users : at[c] = "done" => wallet[c] >= quoted[c]

\* A command that stopped anywhere has lost nothing: what the claimant received and
\* what it can still take are at least what was promised, so it may run it again.
QuoteKept ==
    StartPct = 50 =>
        \A c \in Users :
            at[c] # "idle" => wallet[c] + Payable(c) >= quoted[c]

\* Who keeps running the command ends up with the whole locked amount and a share of
\* the unlocked one, unless the clawback came first: no panic, no half-done run and
\* no claim of anybody else leaves a funded claimant stuck.
ClaimantPaidOut ==
    \A c \in Users :
        (dist # None /\ Solvent)
          ~> /\ dist # None
             /\ \/ dist.clawed_back
                \/ /\ status[c] # None
                   /\ status[c].locked_amount_withdrawn = Tree[File][c].locked
=============================================================================
