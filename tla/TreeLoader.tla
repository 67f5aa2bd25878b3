----------------------------- MODULE TreeLoader -----------------------------
(***************************************************************************)
(* The start of the API server (api/src/main.rs): one task per file of the *)
(* tree directory fills the map from claimants to (distributor, leaf) that *)
(* every endpoint reads, and the list of distributors.  A task keeps the   *)
(* lock on `distributors` to its end; the lock on `tree` is held for one   *)
(* insertion at a time.                                                    *)
(***************************************************************************)
EXTENDS Integers, Sequences, Functions, FiniteSetsExt

CONSTANTS
    Files,       \* the entries of the directory
    Readable,    \* the .json files that parse as trees
    Nodes,       \* Nodes[f]: the claimants of tree f, in order
    Claimants,
    None

ASSUME FilesAssumption ==
    /\ Readable \subseteq Files /\ None \notin Files
    /\ \A f \in Readable : Nodes[f] \in Seq(Claimants)

VARIABLES
    pc,             \* the tasks: "start", "insert" or "end"
    distributors,   \* the list of loaded trees
    holder,         \* the task that has the lock on `distributors`, or None
    tree,           \* the map: the tree whose leaf a claimant has, or None
    next_node,      \* next_node[f]: the node task f inserts next
    serving         \* join_all has returned: the caches and the server start

loadVars == <<pc, distributors, holder, tree, next_node, serving>>

LoadInit ==
    /\ pc = [f \in Files |-> "start"]
    /\ distributors = <<>>
    /\ holder = None
    /\ tree = [c \in Claimants |-> None]
    /\ next_node = [f \in Files |-> 1]
    /\ serving = FALSE

\* A directory, another extension, or a file that does not parse.
Skip(f) ==
    /\ pc[f] = "start"
    /\ f \notin Readable
    /\ pc' = [pc EXCEPT ![f] = "end"]
    /\ UNCHANGED <<distributors, holder, tree, next_node, serving>>

\* Slip: the lock on `distributors` is released after the push.
RegisterAndRelease(f) ==
    /\ pc[f] = "start" /\ f \in Readable
    /\ distributors' = Append(distributors, f)
    /\ pc' = [pc EXCEPT ![f] = "insert"]
    /\ UNCHANGED <<holder, tree, next_node, serving>>

Register(f) ==
    /\ pc[f] = "start" /\ f \in Readable
    /\ holder = None
    /\ holder' = f
    /\ distributors' = Append(distributors, f)
    /\ pc' = [pc EXCEPT ![f] = "insert"]
    /\ UNCHANGED <<tree, next_node, serving>>

\* Slip: the iterator starts over after every await.
InsertFirst(f) ==
    /\ pc[f] = "insert"
    /\ next_node[f] <= Len(Nodes[f])
    /\ tree' = [tree EXCEPT ![Nodes[f][1]] = f]
    /\ UNCHANGED <<pc, distributors, holder, next_node, serving>>

\* HashMap::insert replaces the entry of an earlier tree.
InsertNode(f) ==
    /\ pc[f] = "insert"
    /\ next_node[f] <= Len(Nodes[f])
    /\ tree' = [tree EXCEPT ![Nodes[f][next_node[f]]] = f]
    /\ next_node' = [next_node EXCEPT ![f] = @ + 1]
    /\ UNCHANGED <<pc, distributors, holder, serving>>

\* The end of the task drops the guard.
Finish(f) ==
    /\ pc[f] = "insert" /\ next_node[f] > Len(Nodes[f])
    /\ pc' = [pc EXCEPT ![f] = "end"]
    /\ holder' = None
    /\ UNCHANGED <<distributors, tree, next_node, serving>>

\* join_all returns and the server starts.
Serve ==
    /\ ~serving
    /\ \A f \in Files : pc[f] = "end"
    /\ serving' = TRUE
    /\ UNCHANGED <<pc, distributors, holder, tree, next_node>>

Task(f) == Skip(f) \/ Register(f) \/ InsertNode(f) \/ Finish(f)

Load == (\E f \in Files : Task(f)) \/ Serve
-----------------------------------------------------------------------------
Has(f, c) == c \in Range(Nodes[f])

\* The last tree of a list that has a leaf for c.
LastWith(c, list) ==
    LET with == {i \in DOMAIN list : Has(list[i], c)}
    IN  IF with = {} THEN None ELSE list[Max(with)]

\* Whatever the order in which the tasks run, the map that is served is that of
\* loading the trees one after the other in the order of `distributors`: a
\* claimant with leaves in several trees has all of them but the last one's
\* hidden, and no two claimants see the trees in different orders.
LoadedSerially ==
    serving => /\ Range(distributors) = Readable
               /\ \A c \in Claimants : tree[c] = LastWith(c, distributors)

\* No task waits for ever for the lock, so the server comes up.
ServerStarts == <>serving

\* The claimants that task f has inserted.
Inserted(f) == {Nodes[f][i] : i \in 1..next_node[f] - 1}

\* The list without its last tree.
Before == SubSeq(distributors, 1, Len(distributors) - 1)

\* The inductive invariant of CacheProofs: the lock is held from the push to the
\* last insertion, so the map is that of the trees before the last one with the
\* part of the last one that its task has inserted.
LoadInv ==
    /\ pc \in [Files -> {"start", "insert", "end"}]
    /\ next_node \in [Files -> Nat \ {0}]
    /\ tree \in [Claimants -> Files \cup {None}]
    /\ distributors \in Seq(Files)
    /\ Range(distributors) = {f \in Readable : pc[f] # "start"}
    /\ \A f \in Files : /\ pc[f] = "start" => next_node[f] = 1
                        /\ pc[f] = "insert" <=> holder = f
                        /\ serving => pc[f] = "end"
    /\ IF holder = None
       THEN \A c \in Claimants : tree[c] = LastWith(c, distributors)
       ELSE /\ holder \in Readable
            /\ next_node[holder] <= Len(Nodes[holder]) + 1
            /\ distributors # <<>>
            /\ distributors[Len(distributors)] = holder
            /\ \A c \in Claimants :
                 tree[c] = IF c \in Inserted(holder) THEN holder
                           ELSE LastWith(c, Before)
=============================================================================
