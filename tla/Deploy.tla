------------------------------- MODULE Deploy -------------------------------
(***************************************************************************)
(* Deploying a CSV: deploy_market (scripts/deploy-merkle-trees), which     *)
(* generates the trees afresh and then runs new-distributor                *)
(* (process_new_distributor.rs) over them, and its re-runs after a failure *)
(* ("If this fails, make sure to run it again").                           *)
(*                                                                         *)
(* What CreateTrees makes of the CSV is a number of shards; a distributor  *)
(* account is the shard it was created from (root and parameters together, *)
(* which is what check_distributor_onchain_matches compares), or Other for *)
(* an account with other contents, or Opaque for one that does not decode. *)
(* Version search reads finalized accounts, new-distributor reads          *)
(* confirmed ones.  Files are taken in the order of their names, in which  *)
(* tree_10.json comes before tree_9.json: here, in any order.              *)
(***************************************************************************)
EXTENDS Integers, FiniteSets

CONSTANTS
    NumShards,       \* tree files the CSV gives
    MaxVersion,      \* bound on the versions
    MaxRuns,         \* bound on the runs of the script
    Absent, Other, Opaque

ASSUME DeployAssumption ==
    /\ NumShards \in Nat \ {0} /\ MaxVersion \in Nat /\ MaxRuns \in Nat
    /\ {Absent, Other, Opaque} \cap Int = {}
    /\ Absent # Other /\ Absent # Opaque

Shards == 0..(NumShards - 1)
Versions == 0..MaxVersion

VARIABLES
    start_version,   \* start_airdrop_version of the config, or Absent
    skip_verify,     \* --skip-verify: do not wait for confirmation
    chain,           \* chain[v]: the confirmed distributor account of version v
    finalized,       \* versions whose account is finalized
    pending,         \* creating transactions given up on that may still land
    phase,           \* "idle", "search", "deploy", "done" or "panic"
    version,         \* version of the search, then of the first tree file
    left,            \* the shards whose files are still to be deployed
    runs

deployVars == <<start_version, skip_verify, chain, finalized, pending, phase, version,
                left, runs>>

Account == Shards \cup {Absent, Other, Opaque}

DeployTypeOK ==
    /\ start_version \in {Absent} \cup Versions
    /\ skip_verify \in BOOLEAN
    /\ chain \in [Versions -> Account]
    /\ finalized \subseteq {v \in Versions : chain[v] # Absent}
    /\ pending \subseteq [version : Versions, shard : Shards]
    /\ phase \in {"idle", "search", "deploy", "done", "panic"}
    /\ version \in Versions
    /\ left \subseteq Shards
    /\ runs \in 0..MaxRuns

DeployInit ==
    /\ start_version \in {Absent} \cup Versions
    /\ skip_verify \in BOOLEAN
    /\ chain \in [Versions -> {Absent, Other, Opaque}]
    /\ finalized = {v \in Versions : chain[v] # Absent}
    /\ pending = {}
    /\ phase = "idle" /\ version = 0 /\ left = {} /\ runs = 0
-----------------------------------------------------------------------------
\* Slip: the configured start version is not passed on.
StartDeploy_searching ==
    /\ phase \in {"idle", "done", "panic"}
    /\ runs < MaxRuns
    /\ runs' = runs + 1
    /\ left' = Shards
    /\ version' = 0 /\ phase' = "search"
    /\ UNCHANGED <<start_version, skip_verify, chain, finalized, pending>>

\* Slip: the trees are numbered from the version after the configured one.
StartDeploy_after ==
    /\ phase \in {"idle", "done", "panic"}
    /\ runs < MaxRuns
    /\ runs' = runs + 1
    /\ left' = Shards
    /\ IF start_version = Absent THEN version' = 0 /\ phase' = "search"
       ELSE version' = start_version + 1 /\ phase' = "deploy"
    /\ UNCHANGED <<start_version, skip_verify, chain, finalized, pending>>

\* deploy_market: old tree files are removed, create-merkle-tree starts.
StartDeploy ==
    /\ phase \in {"idle", "done", "panic"}
    /\ runs < MaxRuns
    /\ runs' = runs + 1
    /\ left' = Shards
    /\ IF start_version = Absent THEN version' = 0 /\ phase' = "search"
       ELSE version' = start_version /\ phase' = "deploy"
    /\ UNCHANGED <<start_version, skip_verify, chain, finalized, pending>>

\* One look-up of the version search; a failed one counts as "in use".
SearchVersion ==
    /\ phase = "search"
    /\ \/ /\ version < MaxVersion
          /\ version' = version + 1
          /\ UNCHANGED phase
       \/ /\ version \notin finalized
          /\ phase' = "deploy"
          /\ UNCHANGED version
    /\ UNCHANGED <<start_version, skip_verify, chain, finalized, pending, left, runs>>

\* The run has come to the file of shard k; the bound on the versions ends the
\* run when they run out.
Deploying(k) == phase = "deploy" /\ k \in left /\ version + k \in Versions

\* Slip: an account that exists is taken for the right one.
matches_always(v, shard) == chain[v] # Absent

\* check_distributor_onchain_matches: an account that does not decode passes.
check_distributor_onchain_matches(v, shard) == chain[v] \in {shard, Opaque}

\* The distributor exists: check its parameters and go on, or panic.
DistributorExists(k) ==
    /\ Deploying(k)
    /\ chain[version + k] # Absent
    /\ IF check_distributor_onchain_matches(version + k, k)
       THEN left' = left \ {k} /\ UNCHANGED phase
       ELSE phase' = "panic" /\ UNCHANGED left
    /\ UNCHANGED <<start_version, skip_verify, chain, finalized, pending, version, runs>>

\* The transaction is confirmed, and the check after it passes.
CreateDistributor(k) ==
    /\ Deploying(k) /\ ~skip_verify
    /\ chain[version + k] = Absent
    /\ chain' = [chain EXCEPT ![version + k] = k]
    /\ left' = left \ {k}
    /\ UNCHANGED <<start_version, skip_verify, finalized, pending, phase, version, runs>>

\* --skip-verify: go on as soon as the transaction is sent.
SendOnly(k) ==
    /\ Deploying(k) /\ skip_verify
    /\ chain[version + k] = Absent
    /\ pending' = pending \cup {[version |-> version + k, shard |-> k]}
    /\ left' = left \ {k}
    /\ UNCHANGED <<start_version, skip_verify, chain, finalized, phase, version, runs>>

\* The transaction is not confirmed in time: the process panics, and what it
\* sent may land later.
CreateFails(k) ==
    /\ Deploying(k)
    /\ chain[version + k] = Absent
    /\ pending' = pending \cup {[version |-> version + k, shard |-> k]}
    /\ phase' = "panic"
    /\ UNCHANGED <<start_version, skip_verify, chain, finalized, version, left, runs>>

\* Any other request of the loop fails: a panic, with nothing sent.
RequestFails(k) ==
    /\ Deploying(k)
    /\ phase' = "panic"
    /\ UNCHANGED <<start_version, skip_verify, chain, finalized, pending, version, left, runs>>

DeployDone ==
    /\ phase = "deploy" /\ left = {}
    /\ phase' = "done"
    /\ UNCHANGED <<start_version, skip_verify, chain, finalized, pending, version, left, runs>>

\* A late transaction lands where there is no account yet (`init`), or expires.
Late(tx) ==
    /\ pending' = pending \ {tx}
    /\ chain' = [chain EXCEPT ![tx.version] = IF @ = Absent THEN tx.shard ELSE @]
    /\ UNCHANGED <<start_version, skip_verify, finalized, phase, version, left, runs>>

Expire(tx) ==
    /\ pending' = pending \ {tx}
    /\ UNCHANGED <<start_version, skip_verify, chain, finalized, phase, version, left, runs>>

Finalize(v) ==
    /\ chain[v] # Absent /\ v \notin finalized
    /\ finalized' = finalized \cup {v}
    /\ UNCHANGED <<start_version, skip_verify, chain, pending, phase, version, left, runs>>

Script ==
    \/ StartDeploy \/ SearchVersion \/ DeployDone
    \/ \E k \in Shards : \/ DistributorExists(k) \/ CreateDistributor(k) \/ SendOnly(k)
                       \/ CreateFails(k) \/ RequestFails(k)

Cluster == \/ \E tx \in pending : Late(tx) \/ Expire(tx)
           \/ \E v \in Versions : Finalize(v)

DeployNext == Script \/ Cluster

DeploySpec == DeployInit /\ [][DeployNext]_deployVars
-----------------------------------------------------------------------------
\* A run that verifies and ends without a panic has a distributor for every tree
\* file, at the file's version, with the file's root and parameters, whatever
\* earlier runs, late transactions and foreign accounts left there; the exception
\* is an account that does not decode.
DoneMeansDeployed ==
    phase = "done" /\ ~skip_verify => \A k \in Shards : chain[version + k] \in {k, Opaque}

Distributors(k) == {v \in Versions : chain[v] = k}

\* With a fixed start version any number of interrupted and repeated runs leaves
\* each shard in at most one distributor, so nobody is entitled twice; when the
\* version is searched for, this holds of the first run only.
DeployedOnce ==
    start_version # Absent \/ runs <= 1 =>
       \A k \in Shards : \A v, w \in Distributors(k) : v = w

\* What the two properties rest on.  What a verifying run has gone past is there;
\* before, it has gone past nothing, and once it is done past everything.
DeployedSoFar ==
    /\ phase \in {"deploy", "done"} /\ ~skip_verify =>
         \A k \in Shards \ left : /\ version + k \in Versions
                                 /\ chain[version + k] \in {k, Opaque}
    /\ phase = "search" => left = Shards
    /\ phase = "done" => left = {}

\* Every shard on chain or on its way is where the current numbering puts it,
\* the numbering is fixed once something has been sent, and nothing has been
\* while the first run still searches.
InPlace ==
    start_version # Absent \/ runs <= 1 =>
       /\ \A tx \in pending : tx.version = version + tx.shard
       /\ \A v \in Versions : chain[v] \in Shards => v = version + chain[v]
       /\ start_version # Absent =>
            phase # "search" /\ (runs > 0 => version = start_version)
       /\ runs = 0 \/ phase = "search" =>
            pending = {} /\ \A v \in Versions : chain[v] \notin Shards
       /\ phase \in {"search", "deploy"} => runs > 0

DeployInv == DeployTypeOK /\ DeployedSoFar /\ InPlace
=============================================================================
