------------------------------ MODULE FundAll ------------------------------
(***************************************************************************)
(* The CLI command fund-all beside a live distributor.  For each tree file *)
(* it reads the distributor, then the vault, and sends a transfer of the   *)
(* difference without waiting for it.  Each vault belongs to one tree, so  *)
(* one tree shows everything.  Claims, deposits by others, re-rooting, the *)
(* clawback and the landing of earlier transfers happen between any two of *)
(* those steps; a transfer may also never land.  Reads are of finalized    *)
(* state: a claim that is confirmed and not yet finalized when the command *)
(* reads is a claim that lands after the read.                             *)
(***************************************************************************)
EXTENDS Distributor

CONSTANTS
    FileTotal,    \* max_total_claim of the tree file the command works from
    MaxRuns       \* bound on the runs of the command

\* The CLI creates a distributor with the maximum of its tree file; mainnet
\* distributors are not closable.
ASSUME FileAssumption ==
    /\ FileTotal \in Nat /\ MaxRuns \in Nat
    /\ \A p \in Params : p.max_total_claim = FileTotal /\ ~p.closable

VARIABLES
    runs,      \* runs of the command so far
    target,    \* what this run wants in the vault once it has read the
               \* distributor; None between runs
    inflight,  \* transfers sent and not landed
    covered    \* ghost: some run found the vault funded or its transfer landed

funderVars == <<runs, target, inflight, covered>>
fundVars == <<vars, funderVars>>

FundTypeOK ==
    /\ runs \in Nat
    /\ target \in Nat \cup {None}
    /\ inflight \subseteq [run : Nat, amount : Nat]
    /\ covered \in BOOLEAN

FundInit ==
    /\ Init
    /\ runs = 0 /\ target = None /\ inflight = {} /\ covered = FALSE

\* A clawed-back distributor is skipped, and so is one whose
\* total_amount_claimed exceeds the file's total (the command panics).
ReadDistributor ==
    /\ target = None
    /\ runs < MaxRuns
    /\ dist # None
    /\ ~dist.clawed_back
    /\ dist.total_amount_claimed <= FileTotal
    /\ runs' = runs + 1
    /\ target' = FileTotal - dist.total_amount_claimed
    /\ UNCHANGED <<vars, inflight, covered>>

ReadVault ==
    /\ target # None
    /\ target' = None
    /\ IF vault >= target
       THEN covered' = TRUE /\ UNCHANGED inflight
       ELSE /\ inflight' = inflight \cup {[run |-> runs, amount |-> target - vault]}
            /\ UNCHANGED covered
    /\ UNCHANGED <<vars, runs>>

\* A request fails and the command panics before it has sent the transfer.
Abort ==
    /\ target # None
    /\ target' = None
    /\ UNCHANGED <<vars, runs, inflight, covered>>

\* Slip: the vault is read before the distributor.  target then holds the
\* vault's amount between the two reads.
ReadVaultFirst ==
    \/ /\ target = None
       /\ runs < MaxRuns
       /\ dist # None
       /\ runs' = runs + 1
       /\ target' = vault
       /\ UNCHANGED <<vars, inflight, covered>>
    \/ /\ target # None
       /\ target' = None
       /\ dist.total_amount_claimed <= FileTotal
       /\ LET due == FileTotal - dist.total_amount_claimed
          IN  IF target >= due \/ dist.clawed_back
              THEN covered' = ~dist.clawed_back /\ UNCHANGED inflight
              ELSE /\ inflight' = inflight \cup {[run |-> runs, amount |-> due - target]}
                   /\ UNCHANGED covered
       /\ UNCHANGED <<vars, runs>>

process_fund_all == ReadDistributor \/ ReadVault \/ Abort

\* The transfer executes; anybody may fund a vault, clawed back or not.
Land(t) ==
    /\ t \in inflight
    /\ vault' = vault + t.amount
    /\ funded' = funded + t.amount
    /\ inflight' = inflight \ {t}
    /\ covered' = TRUE
    /\ UNCHANGED <<now, slot, dist, status, wallet, swept, burned, retired,
                   runs, target>>

\* Its blockhash expires first.
Expire(t) ==
    /\ t \in inflight
    /\ inflight' = inflight \ {t}
    /\ UNCHANGED <<vars, runs, target, covered>>

FundNext ==
    \/ process_fund_all
    \/ \E t \in inflight : Land(t) \/ Expire(t)
    \/ Next /\ UNCHANGED funderVars

FundSpec == FundInit /\ [][FundNext]_fundVars
-----------------------------------------------------------------------------
Live == dist # None /\ ~dist.clawed_back

\* Once a run has found the vault funded or its transfer has landed, the vault
\* covers every token max_total_claim still promises, until the clawback,
\* however the two reads and the unconfirmed transfer raced with claims,
\* re-rooting and other runs.  It holds because the distributor is read first.
CoveredIsSolvent == covered /\ Live => Solvent

\* The inductive invariant behind it: what a run wants, and what each transfer
\* would bring the vault to, never falls behind what is still promised.
FundInv ==
    /\ FundTypeOK
    /\ dist = None => target = None /\ inflight = {} /\ ~covered
    /\ dist # None => ~dist.closable /\ dist.max_total_claim <= FileTotal
    /\ Live =>
         /\ covered => Solvent
         /\ target # None =>
              target >= dist.max_total_claim - dist.total_amount_claimed
         /\ \A t \in inflight :
              vault + t.amount
                >= dist.max_total_claim - dist.total_amount_claimed

\* What the comment in the command claims: transferring the deficit keeps
\* funding idempotent after claiming has started, so the vault never holds
\* more than is still promised (nobody else deposits).
NeverOverfunded ==
    Live => vault <= dist.max_total_claim - dist.total_amount_claimed
=============================================================================
