---------------------------- MODULE CreateTrees ----------------------------
(***************************************************************************)
(* The command create-merkle-tree (process_create_merkle_tree.rs) with     *)
(* AirdropMerkleTree::new: find a version, cut the CSV rows into shards,   *)
(* combine the rows of a claimant inside a shard, scale the amounts to     *)
(* base units and write one tree file per shard.                           *)
(*                                                                         *)
(* A step is one look-up, one row or one file.  Roots and proofs are the   *)
(* subject of MerkleTree; here a tree file is its version, its nodes and   *)
(* its totals.  A panic ends the run and leaves the files written so far.  *)
(***************************************************************************)
EXTENDS Integers, Sequences, FiniteSets, Functions

CONSTANTS
    Claimants,       \* the pubkeys of the CSV
    TestList,        \* get_test_list(), a sequence of pubkeys
    TestAmount,      \* --amount, what a test wallet gets
    CsvRows,         \* rows the CSV may have
    MaxRows,         \* bound on their number
    Decimals,        \* values of --decimals
    TreeSizes,       \* values of --max-nodes-per-tree
    Versions,        \* versions that may be in use on chain
    MaxErrors,       \* bound on the failed look-ups of the version search
    U64_MAX,         \* largest u64
    None

VARIABLES
    args,            \* the command's options
    rows,            \* the CSV as it was read (ghost)
    csv,             \* csv_entries, the rows of sub_tree in front
    new_entries,     \* the rows kept when the test wallets are left out
    batch,           \* how many rows of csv are sub_tree's
    tree_nodes,      \* what the rows of the current tree combined to so far
    onchain,         \* versions with a distributor account
    version,         \* current_version, then airdrop_version
    errors,          \* failed look-ups so far
    files,           \* the tree files written, in order
    pc

building == <<csv, new_entries, batch, tree_nodes>>
vars == <<args, rows, building, onchain, version, errors, files, pc>>

Row == [claimant : Claimants, amount : Nat, locked_amount : Nat \cup {None}]

Args == [start : {None, 0},   \* --start-airdrop-version; 0 without a mint
         unit : {"tokens", "cents"}, decimals : Decimals,
         max_nodes_per_tree : TreeSizes, should_include_test_list : BOOLEAN]

ASSUME CsvAssumption ==
    /\ CsvRows \subseteq Row
    /\ TestList \in Seq(Range(TestList))
    /\ TestAmount \in Nat
    /\ TreeSizes \subseteq Nat
    /\ None \notin Int
    /\ \A d \in Decimals : d \in Nat /\ 10^d \in Nat /\ (d >= 2 => 10^(d - 2) \in Nat)

\* The CSVs of up to n rows.
Csvs(S, n) == UNION {[1..len -> S] : len \in 0..n}

OrZero(x) == IF x = None THEN 0 ELSE x
OrNone(x) == IF x <= U64_MAX THEN x ELSE None   \* checked arithmetic
-----------------------------------------------------------------------------
\* csv_amount_to_base_units; None where the code returns an error: cents of a
\* mint with fewer than two decimals, or a scale or a product that overflows.
csv_amount_to_base_units(amount, decimals, unit) ==
    LET exp == IF unit = "cents" THEN decimals - 2 ELSE decimals
    IN  IF exp < 0 \/ OrNone(10^exp) = None THEN None
        ELSE OrNone(amount * 10^exp)

\* TreeNode::from_csv.
from_csv(row) ==
    LET scaled(x) == csv_amount_to_base_units(x, args.decimals, args.unit)
    IN  [claimant |-> row.claimant,
         amount |-> scaled(row.amount),
         locked_amount |-> IF row.locked_amount = None THEN None
                           ELSE scaled(row.locked_amount)]

\* new_from_entries fails as soon as one row does.
Converts(row) ==
    /\ from_csv(row).amount # None
    /\ row.locked_amount # None => from_csv(row).locked_amount # None

\* Slip: the first row's locked amount is kept.
combine_unlocked_only(n, m) == [n EXCEPT !.amount = @ + m.amount]

\* Two rows of one claimant: None + None is None, None + b is b.
combine(n, m) ==
    [n EXCEPT !.amount = @ + m.amount,
              !.locked_amount = IF @ = None THEN m.locked_amount
                                ELSE @ + OrZero(m.locked_amount)]

\* The IndexMap of AirdropMerkleTree::new: a claimant keeps the place of its
\* first row.
CombineInto(nodes, node) ==
    IF \E i \in DOMAIN nodes : nodes[i].claimant = node.claimant
    THEN [i \in DOMAIN nodes |->
            IF nodes[i].claimant = node.claimant
            THEN combine(nodes[i], node) ELSE nodes[i]]
    ELSE Append(nodes, node)

total_amount(node) == node.amount + OrZero(node.locked_amount)

get_max_total_claim(nodes) ==
    SumFunction([i \in DOMAIN nodes |-> total_amount(nodes[i])])

\* What `new` makes of the combined nodes.
new(nodes) ==
    [airdrop_version |-> version,
     max_num_nodes |-> Len(nodes),
     max_total_claim |-> get_max_total_claim(nodes),
     tree_nodes |-> nodes]

\* validate: what `new` checks of the tree before it is written.
validate(tree) ==
    /\ Len(tree.tree_nodes) = tree.max_num_nodes
    /\ Cardinality({tree.tree_nodes[i].claimant : i \in DOMAIN tree.tree_nodes})
         = Len(tree.tree_nodes)
    /\ get_max_total_claim(tree.tree_nodes) = tree.max_total_claim

\* Every sum is checked, so the run panics exactly when the largest one, the
\* total of the tree, does not fit; an empty tree has no root.
Creatable(nodes) ==
    /\ nodes # <<>>
    /\ get_max_total_claim(nodes) <= U64_MAX
    /\ validate(new(nodes))
-----------------------------------------------------------------------------
Start ==
    /\ args \in Args
    /\ csv = <<>> /\ new_entries = <<>> /\ batch = 0 /\ tree_nodes = <<>>
    /\ files = <<>> /\ errors = 0
    /\ version = OrZero(args.start)

Init ==
    /\ Start
    /\ rows \in Csvs(CsvRows, MaxRows)
    /\ onchain \in SUBSET Versions
    /\ pc = IF args.start = None THEN "search" ELSE "read"

\* Slip: any error ends the search.
Probe_first_error ==
    \/ /\ version \in onchain
       /\ version' = version + 1
       /\ UNCHANGED <<errors, pc>>
    \/ /\ version \notin onchain
       /\ pc' = "read"
       /\ UNCHANGED <<version, errors>>
    \/ /\ errors < MaxErrors
       /\ errors' = errors + 1
       /\ pc' = "read"
       /\ UNCHANGED version

\* One look-up of the version search: the account is there, it is not there,
\* or the look-up fails, and then the version is passed over.
Probe ==
    \/ /\ version \in onchain
       /\ version' = version + 1
       /\ UNCHANGED <<errors, pc>>
    \/ /\ version \notin onchain
       /\ pc' = "read"
       /\ UNCHANGED <<version, errors>>
    \/ /\ errors < MaxErrors
       /\ errors' = errors + 1
       /\ version' = version + 1
       /\ UNCHANGED pc

SearchVersion ==
    /\ pc = "search"
    /\ Probe
    /\ UNCHANGED <<args, rows, building, onchain, files>>

ReadCsv ==
    /\ pc = "read"
    /\ csv' = rows
    /\ pc' = IF args.should_include_test_list THEN "trim" ELSE "shard"
    /\ UNCHANGED <<args, rows, new_entries, batch, tree_nodes, onchain, version, errors, files>>

\* The next row, kept unless it is a test wallet's.
TrimRow ==
    /\ pc = "trim"
    /\ csv # <<>>
    /\ new_entries' = IF Head(csv).claimant \in Range(TestList) THEN new_entries
                      ELSE Append(new_entries, Head(csv))
    /\ csv' = Tail(csv)
    /\ UNCHANGED <<args, rows, batch, tree_nodes, onchain, version, errors, files, pc>>

Trimmed ==
    /\ pc = "trim"
    /\ csv = <<>>
    /\ csv' = new_entries
    /\ new_entries' = <<>>
    /\ pc' = "shard"
    /\ UNCHANGED <<args, rows, batch, tree_nodes, onchain, version, errors, files>>

last_index == IF args.max_nodes_per_tree < Len(csv)
              THEN args.max_nodes_per_tree ELSE Len(csv)

\* The next rows are cut off for a tree of their own.
CutShard ==
    /\ pc = "shard"
    /\ csv # <<>>
    /\ batch' = last_index
    /\ pc' = "new"
    /\ UNCHANGED <<args, rows, csv, new_entries, tree_nodes, onchain, version, errors, files>>

\* The tree of the test wallets, each with the same amount.
TestEntries ==
    [i \in DOMAIN TestList |->
       [claimant |-> TestList[i], amount |-> TestAmount, locked_amount |-> 0]]

ShardsWritten ==
    /\ pc = "shard"
    /\ csv = <<>>
    /\ IF args.should_include_test_list
       THEN csv' = TestEntries /\ batch' = Len(TestList) /\ pc' = "new_test"
       ELSE pc' = "done" /\ UNCHANGED <<csv, batch>>
    /\ UNCHANGED <<args, rows, new_entries, tree_nodes, onchain, version, errors, files>>

Panic == pc' = "panic" /\ UNCHANGED <<args, rows, building, onchain, version, errors, files>>

\* One row of the loop of AirdropMerkleTree::new, or an error of its conversion.
CombineRow ==
    /\ pc \in {"new", "new_test"}
    /\ batch > 0
    /\ IF Converts(Head(csv))
       THEN /\ tree_nodes' = CombineInto(tree_nodes, from_csv(Head(csv)))
            /\ csv' = Tail(csv)
            /\ batch' = batch - 1
            /\ UNCHANGED <<args, rows, new_entries, onchain, version, errors, files, pc>>
       ELSE Panic

\* write_to_file and the next version, or a panic.
WriteTree ==
    /\ pc \in {"new", "new_test"}
    /\ batch = 0
    /\ IF Creatable(tree_nodes)
       THEN /\ files' = Append(files, new(tree_nodes))
            /\ version' = version + 1
            /\ tree_nodes' = <<>>
            /\ pc' = IF pc = "new" THEN "shard" ELSE "done"
            /\ UNCHANGED <<args, rows, csv, new_entries, batch, onchain, errors>>
       ELSE Panic

\* The process has exited.
Terminated ==
    /\ pc \in {"done", "panic"}
    /\ UNCHANGED vars

Next ==
    \/ SearchVersion \/ ReadCsv \/ TrimRow \/ Trimmed
    \/ CutShard \/ CombineRow \/ WriteTree \/ ShardsWritten
    \/ Terminated

Spec == Init /\ [][Next]_vars
-----------------------------------------------------------------------------
People == Claimants \cup Range(TestList)
Columns == {"unlocked", "locked", "total"}

Value(e, k) ==
    CASE k = "unlocked" -> e.amount
      [] k = "locked" -> OrZero(e.locked_amount)
      [] k = "total" -> e.amount + OrZero(e.locked_amount)

\* What the entries of the claimants in C add up to.
Sums(entries, C, k) ==
    SumFunction([i \in DOMAIN entries |->
                   IF entries[i].claimant \in C THEN Value(entries[i], k) ELSE 0])

InFiles(C, k) == SumFunction([i \in DOMAIN files |-> Sums(files[i].tree_nodes, C, k)])

\* Cents of a mint with fewer than two decimals have no value in base units.
Scale ==
    CASE args.unit = "tokens" -> 10^args.decimals
      [] args.unit = "cents" /\ args.decimals >= 2 -> 10^(args.decimals - 2)
      [] OTHER -> 0

\* The claimants of C whose rows of the CSV count: a test wallet's are left out.
Counting(C) == IF args.should_include_test_list THEN C \ Range(TestList) ELSE C

\* What the trees should hold, in the CSV's unit: the rows of the CSV without
\* the test wallets, and the test wallets' own rows.
Wanted(C, k) ==
    Sums(rows, Counting(C), k)
      + (IF args.should_include_test_list THEN Sums(TestEntries, C, k) ELSE 0)

\* When the command ends, every claimant's unlocked and locked amounts over all
\* tree files are its rows' amounts scaled to base units: sharding, combining of
\* duplicates (the comment in `new` warns of lost locked amounts) and scaling
\* neither lose nor invent a token, and what the distributors may pay in total
\* (the sum of max_total_claim) is the sum of the rows.
NothingLost ==
    pc = "done" =>
      /\ \A c \in People, k \in {"unlocked", "locked"} :
           InFiles({c}, k) = Scale * Wanted({c}, k)
      /\ SumFunction([i \in DOMAIN files |-> files[i].max_total_claim])
           = Scale * Wanted(People, "total")

\* No claimant has two entries.
Distinct(entries) ==
    \A i, j \in DOMAIN entries : entries[i].claimant = entries[j].claimant => i = j

\* A tree file that was written has one leaf per claimant, at most as many as
\* asked for (the test tree apart), and versions go up by one from the first,
\* which the search found unused; this holds after a panic too.
FilesWellFormed ==
    \A i \in DOMAIN files :
      /\ Distinct(files[i].tree_nodes)
      /\ files[i].airdrop_version = files[1].airdrop_version + i - 1
      /\ i < Len(files) => files[i].max_num_nodes <= args.max_nodes_per_tree
      /\ args.start = None => files[1].airdrop_version \notin onchain
-----------------------------------------------------------------------------
Node == [claimant : People, amount : Nat, locked_amount : Nat \cup {None}]
TreeFile == [airdrop_version : Nat, max_num_nodes : Nat, max_total_claim : Nat,
             tree_nodes : Seq(Node)]

\* What is set at which stage; the first two belong to Aggregate.
StageInv ==
    /\ args \in Args
    /\ rows \in Seq(Row)
    /\ csv \in Seq(Node) /\ new_entries \in Seq(Node) /\ tree_nodes \in Seq(Node)
    /\ batch \in Nat /\ batch <= Len(csv)
    /\ version \in Nat
    /\ files \in Seq(TreeFile)
    /\ pc \in {"aggregate", "emit", "search", "read", "trim", "shard", "new", "new_test",
              "done", "panic"}
    /\ pc \in {"aggregate", "emit", "search", "read", "trim"} => files = <<>>
    /\ pc \in {"aggregate", "emit", "search", "read", "trim", "shard"} =>
         tree_nodes = <<>> /\ batch = 0
    /\ pc \in {"aggregate", "emit", "search", "read"} => csv = <<>> /\ new_entries = <<>>
    /\ pc \in {"trim", "new_test"} => args.should_include_test_list
    /\ pc = "new_test" => batch = Len(csv)
    /\ pc = "done" => csv = <<>> /\ tree_nodes = <<>>

\* What the files, the nodes combined so far and the rows left must add up to.
Due(C, k) ==
    IF pc \in {"new_test", "done"} THEN Wanted(C, k) ELSE Sums(rows, Counting(C), k)

SumInv ==
    \A C \in SUBSET People, k \in Columns :
      /\ pc = "trim" =>
           Sums(new_entries, C, k) + Sums(csv, Counting(C), k) = Sums(rows, Counting(C), k)
      /\ pc \in {"shard", "new", "new_test", "done"} =>
           InFiles(C, k) + Sums(tree_nodes, C, k) + Scale * Sums(csv, C, k)
             = Scale * Due(C, k)

first_version == IF files = <<>> THEN version ELSE files[1].airdrop_version

FileInv ==
    /\ FilesWellFormed
    /\ version = first_version + Len(files)
    /\ Distinct(tree_nodes)
    /\ \A i \in DOMAIN files :
         /\ files[i].max_total_claim = Sums(files[i].tree_nodes, People, "total")
         /\ pc # "done" => files[i].max_num_nodes <= args.max_nodes_per_tree
    /\ pc = "new" => Len(tree_nodes) + batch <= args.max_nodes_per_tree
    /\ pc \in {"read", "trim", "shard", "new", "new_test"} /\ args.start = None =>
         first_version \notin onchain

\* The inductive invariant of CreateProofs.
CreateInv == StageInv /\ SumInv /\ FileInv
=============================================================================
