----------------------------- MODULE Aggregate -----------------------------
(***************************************************************************)
(* The command aggregate-if-csvs (process_aggregate_if_csvs.rs) before     *)
(* create-merkle-tree: several markets, some with the same mint, each with *)
(* a CSV; the CSVs of a mint are merged to one with a row per claimant,    *)
(* from which the trees of the mint are created.                           *)
(*                                                                         *)
(* The rows of all markets are one sequence in the order of the config,    *)
(* each with its market's mint.  The label of a merged market, its index   *)
(* and its symbol, only names the output file and is left out.             *)
(***************************************************************************)
EXTENDS CreateTrees

CONSTANTS
    Mints,
    SortedPubkeys,   \* the claimants in the order of a BTreeMap
    MarketRows,      \* rows of the markets' CSVs; a claimant may be no pubkey
    MaxMarketRows    \* bound on their number

ASSUME MarketAssumption ==
    /\ SortedPubkeys \in Seq(Claimants)
    /\ Range(SortedPubkeys) = Claimants
    /\ IsInjective(SortedPubkeys)
    /\ None \notin [amount : Nat, locked : Nat]
    /\ \A e \in MarketRows : /\ e.mint \in Mints
                             /\ e.amount \in Nat
                             /\ e.locked_amount \in Nat \cup {None}

VARIABLES
    inputs,          \* the rows of all markets; empty: the CSV is not merged
    unmerged,        \* those the loop has still to come to
    groups,          \* per mint and claimant, what was summed up
    mint,            \* the mint whose trees are created, None without merging
    next_key         \* the claimant whose merged row is written next

merging == <<inputs, unmerged, groups, mint, next_key>>
aggregateVars == <<vars, merging>>

AggregateInit ==
    /\ groups = [m \in Mints |-> [c \in Claimants |-> None]]
    /\ next_key = 1
    /\ \/ inputs = <<>> /\ mint = None /\ Init
       \/ /\ inputs \in Csvs(MarketRows, MaxMarketRows) \ {<<>>}
          /\ mint \in Mints
          /\ Start
          /\ onchain = {}
          /\ rows = <<>>
          /\ pc = "aggregate"
    /\ unmerged = inputs

\* A file that is missing, does not parse or cannot be written.
AggregateFails ==
    /\ pc \in {"aggregate", "emit"}
    /\ Panic
    /\ UNCHANGED merging

\* Slip: only the first row's locked amount counts.
add_unlocked_only(acc, e) ==
    [amount |-> OrNone(acc.amount + e.amount),
     locked |-> IF acc.amount = 0 THEN OrZero(e.locked_amount) ELSE acc.locked]

\* The two checked additions of the loop.
add(acc, e) ==
    [amount |-> OrNone(acc.amount + e.amount),
     locked |-> OrNone(acc.locked + OrZero(e.locked_amount))]

\* The sums of a claimant so far.
Acc(m, c) == IF groups[m][c] = None THEN [amount |-> 0, locked |-> 0] ELSE groups[m][c]

\* Slip: the rows are joined without merging those of a claimant.
JoinRow ==
    /\ pc = "aggregate"
    /\ unmerged # <<>>
    /\ LET e == Head(unmerged)
       IN  rows' = IF e.mint = mint /\ e.claimant \in Claimants
                   THEN Append(rows, [claimant |-> e.claimant, amount |-> e.amount,
                                      locked_amount |-> OrZero(e.locked_amount)])
                   ELSE rows
    /\ unmerged' = Tail(unmerged)
    /\ UNCHANGED <<args, building, onchain, version, errors, files, pc, inputs, groups,
                   mint, next_key>>

\* One entry of the loop of aggregate_if_entries; an invalid pubkey or an
\* overflow, of any mint, is an error before anything is written.
MergeRow ==
    /\ pc = "aggregate"
    /\ unmerged # <<>>
    /\ LET e   == Head(unmerged)
           sum == add(Acc(e.mint, e.claimant), e)
       IN  IF e.claimant \in Claimants /\ sum.amount # None /\ sum.locked # None
           THEN /\ groups' = [groups EXCEPT ![e.mint][e.claimant] = sum]
                /\ unmerged' = Tail(unmerged)
                /\ UNCHANGED <<vars, inputs, mint, next_key>>
           ELSE Panic /\ UNCHANGED merging

AllMerged ==
    /\ pc = "aggregate"
    /\ unmerged = <<>>
    /\ pc' = "emit"
    /\ UNCHANGED <<args, rows, building, onchain, version, errors, files, merging>>

\* The merged CSV of the mint, a row per claimant of the map in its order.
EmitRow ==
    /\ pc = "emit"
    /\ next_key <= Len(SortedPubkeys)
    /\ LET c   == SortedPubkeys[next_key]
           sum == groups[mint][c]
       IN  rows' = IF sum = None THEN rows
                   ELSE Append(rows, [claimant |-> c, amount |-> sum.amount,
                                      locked_amount |-> sum.locked])
    /\ next_key' = next_key + 1
    /\ UNCHANGED <<args, building, onchain, version, errors, files, pc, inputs,
                   unmerged, groups, mint>>

\* The script goes on with create-merkle-tree.
Emitted ==
    /\ pc = "emit"
    /\ next_key > Len(SortedPubkeys)
    /\ pc' = IF args.start = None THEN "search" ELSE "read"
    /\ UNCHANGED <<args, rows, building, onchain, version, errors, files, merging>>

AggregateNext ==
    \/ AggregateFails \/ MergeRow \/ AllMerged \/ EmitRow \/ Emitted
    \/ Next /\ UNCHANGED merging

AggregateSpec == AggregateInit /\ [][AggregateNext]_aggregateVars
-----------------------------------------------------------------------------
\* What the rows of a claimant in all markets of a mint add up to.
MarketSums(entries, m, c, k) ==
    SumFunction([i \in DOMAIN entries |->
                   IF entries[i].mint = m /\ entries[i].claimant = c
                   THEN Value(entries[i], k) ELSE 0])

\* From the markets' CSVs to the trees of a mint nothing is lost: a claimant's
\* unlocked and locked amounts over all tree files are the scaled sums of its
\* rows in all markets of the mint and in no other.
MergedNothingLost ==
    pc = "done" /\ inputs # <<>> =>
      \A c \in Claimants, k \in {"unlocked", "locked"} :
        ~(args.should_include_test_list /\ c \in Range(TestList)) =>
          InFiles({c}, k) = Scale * MarketSums(inputs, mint, c, k)

Names(entries) == {entries[i].claimant : i \in DOMAIN entries}

\* After merging a claimant has one leaf in all trees of the mint, wherever the
\* rows are cut into shards ("Guaranteed one row per claimant"): it needs one
\* claim, and the API, which keeps one leaf per claimant, shows all of it.
OneLeafPerClaimant ==
    inputs # <<>> =>
      \A i, j \in DOMAIN files :
        i # j => Names(files[i].tree_nodes) \cap Names(files[j].tree_nodes) = {}
-----------------------------------------------------------------------------
\* What the map holds of a claimant.
Merged(m, c, k) == IF k = "unlocked" THEN Acc(m, c).amount ELSE Acc(m, c).locked

\* Every row is in the map or still to come, and the rows written are the map's.
MergeInv ==
    /\ inputs \in Seq(MarketRows) /\ unmerged \in Seq(MarketRows)
    /\ groups \in [Mints -> [Claimants -> {None} \cup [amount : Nat, locked : Nat]]]
    /\ next_key \in 1..(Len(SortedPubkeys) + 1)
    /\ inputs = <<>> => pc \notin {"aggregate", "emit"}
    /\ inputs # <<>> =>
         /\ mint \in Mints
         /\ Distinct(rows)
         /\ pc = "aggregate" => rows = <<>> /\ next_key = 1
         /\ pc = "emit" => \A i \in next_key..Len(SortedPubkeys) :
                              SortedPubkeys[i] \notin Names(rows)
         /\ \A k \in {"unlocked", "locked"} :
              /\ pc = "aggregate" => \A m \in Mints, c \in Claimants :
                   Merged(m, c, k) + MarketSums(unmerged, m, c, k) = MarketSums(inputs, m, c, k)
              /\ pc = "emit" => \A i \in DOMAIN SortedPubkeys :
                   LET c == SortedPubkeys[i]
                   IN  MarketSums(inputs, mint, c, k)
                         = IF i < next_key THEN Sums(rows, {c}, k) ELSE Merged(mint, c, k)
              /\ pc \notin {"aggregate", "emit", "panic"} => \A c \in Claimants :
                   MarketSums(inputs, mint, c, k) = Sums(rows, {c}, k)

\* A claimant of a file has no row left, and is no test wallet but in the last.
LeafInv ==
    inputs # <<>> =>
      /\ OneLeafPerClaimant
      /\ pc \in {"read", "trim", "shard", "new"} => Distinct(csv)
      /\ pc = "trim" => Distinct(new_entries) /\ Names(new_entries) \cap Names(csv) = {}
      /\ pc = "new" => Names(tree_nodes) \cap Names(csv) = {}
      /\ pc \in {"shard", "new", "new_test"} => \A i \in DOMAIN files :
           Names(files[i].tree_nodes) \cap (Names(tree_nodes) \cup Names(csv)) = {}
      /\ args.should_include_test_list =>
           /\ Range(TestList) \cap Names(new_entries) = {}
           /\ pc \in {"shard", "new"} =>
                /\ Range(TestList) \cap (Names(tree_nodes) \cup Names(csv)) = {}
                /\ \A i \in DOMAIN files : Range(TestList) \cap Names(files[i].tree_nodes) = {}

\* The inductive invariant of CreateProofs.
AggregateInv == CreateInv /\ MergeInv /\ LeafInv
=============================================================================
