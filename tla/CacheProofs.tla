---------------------------- MODULE CacheProofs ----------------------------
(***************************************************************************)
(* The API server for every set of trees, claimants and accounts: the map  *)
(* it serves is that of loading the trees one after the other (LoadInv),   *)
(* and the cache, its channel and its counters keep their types and bounds *)
(* (CacheInv), so that among websocket updates the newest slot wins.       *)
(***************************************************************************)
EXTENDS ClaimCache, SumProofs

-----------------------------------------------------------------------------
(***************************************************************************)
(* The loader.                                                             *)
(***************************************************************************)

\* A finite set of integers has a largest element.
LEMMA MaxInSet ==
    ASSUME NEW S, IsFiniteSet(S), S # {}, \A i \in S : i \in Int
    PROVE  Max(S) \in S /\ \A i \in S : i <= Max(S)
  <1> DEFINE From(k) == {i \in S : i >= k}
             T == {From(k) : k \in S}
  <1>1. T \subseteq SUBSET S
    OBVIOUS
  <1>2. T # {}
    BY Zenon
  <1>3. PICK m \in T : \A t \in T : t \subseteq m => t = m
    <2> HIDE DEF T
    <2> QED
      BY <1>1, <1>2, Minimal
  <1>4. PICK k \in S : m = From(k)
    OBVIOUS
  <1>5. \A i \in S : i <= k
    <2> SUFFICES ASSUME NEW i \in S, ~(i <= k) PROVE FALSE
      OBVIOUS
    <2>1. /\ \A j \in S : j >= i => j >= k
          /\ k >= k /\ ~(k >= i)
      OBVIOUS
    <2>2. From(i) \subseteq From(k) /\ k \in From(k) /\ k \notin From(i)
      BY <2>1
    <2>3. From(i) \in T
      OBVIOUS
    <2> QED
      BY Zenon, <1>3, <1>4, <2>2, <2>3
  <1> QED
    BY <1>5 DEF Max

\* So has a non-empty set of positions of a list.
LEMMA MaxPosition ==
    ASSUME NEW n \in Nat, NEW S, S \subseteq 1..n, S # {}
    PROVE  Max(S) \in S /\ \A i \in S : i <= Max(S)
  <1>1. IsFiniteSet(1..n)
    BY FS_Interval
  <1>2. IsFiniteSet(S)
    BY Zenon, <1>1, FS_Subset
  <1>3. \A i \in S : i \in Int
    OBVIOUS
  <1> QED
    BY Zenon, <1>2, <1>3, MaxInSet

\* A tree pushed at the end of the list comes last for those it has a leaf for,
\* and changes nothing for the others.
LEMMA LastWithAppend ==
    ASSUME NEW d \in Seq(Files), NEW f \in Files, NEW c
    PROVE  LastWith(c, Append(d, f)) = IF Has(f, c) THEN f ELSE LastWith(c, d)
  <1> DEFINE e == Append(d, f)
             n == Len(d)
             old == {i \in DOMAIN d : Has(d[i], c)}
             new == {i \in DOMAIN e : Has(e[i], c)}
  <1>1. /\ n \in Nat /\ DOMAIN d = 1..n /\ DOMAIN e = 1..(n + 1)
        /\ e[n + 1] = f /\ \A i \in 1..n : e[i] = d[i]
    OBVIOUS
  <1>2. LastWith(c, e) = IF new = {} THEN None ELSE e[Max(new)]
    BY DEF LastWith
  <1>3. LastWith(c, d) = IF old = {} THEN None ELSE d[Max(old)]
    BY DEF LastWith
  <1>4. old \subseteq 1..n /\ new \subseteq 1..(n + 1)
    BY <1>1
  <1>5. CASE Has(f, c)
    <2>1. n + 1 \in new
      BY <1>1, <1>5
    <2> HIDE DEF new, e, n, old
    <2>2. n + 1 \in Nat /\ new # {}
      BY <1>1, <2>1
    <2>3. Max(new) = n + 1
      <3> DEFINE m == Max(new)
      <3>1. m \in new /\ \A i \in new : i <= m
        BY Zenon, <1>4, <2>2, MaxPosition
      <3>2. m \in 1..(n + 1) /\ n + 1 <= m
        BY Zenon, <1>4, <2>1, <3>1
      <3> HIDE DEF m
      <3>3. m = n + 1
        BY <1>1, <3>2
      <3> QED
        BY <3>3 DEF m
    <2> QED
      BY <1>1, <1>2, <1>5, <2>1, <2>3 DEF e
  <1>6. CASE ~Has(f, c)
    <2>1. new = old
      BY <1>1, <1>6
    <2>2. CASE old = {}
      BY <1>2, <1>3, <1>6, <2>1, <2>2
    <2>3. CASE old # {}
      <3> HIDE DEF new, old, e, n
      <3>1. Max(old) \in old
        BY Zenon, <1>1, <1>4, <2>3, MaxPosition
      <3>2. e[Max(old)] = d[Max(old)]
        BY Zenon, <1>1, <1>4, <3>1
      <3> QED
        BY <1>2, <1>3, <1>6, <2>1, <2>3, <3>2 DEF e
    <2> QED
      BY <2>2, <2>3
  <1> QED
    BY <1>5, <1>6

\* Taking the last tree off the list and pushing it again.
LEMMA FrontAndLast ==
    ASSUME NEW d \in Seq(Files)
    PROVE  /\ \A f \in Files : SubSeq(Append(d, f), 1, Len(Append(d, f)) - 1) = d
           /\ d # <<>> => /\ SubSeq(d, 1, Len(d) - 1) \in Seq(Files)
                          /\ d = Append(SubSeq(d, 1, Len(d) - 1), d[Len(d)])
  OBVIOUS

\* The initial state, with no tree loaded.
LEMMA InitLoadInv == LoadInit => LoadInv
  <1> SUFFICES ASSUME LoadInit PROVE LoadInv
    OBVIOUS
  <1>1. Range(distributors) = {}
    BY DEF LoadInit, Range
  <1>2. \A c \in Claimants : LastWith(c, distributors) = None
    BY DEF LoadInit, LastWith
  <1> QED
    BY <1>1, <1>2, FilesAssumption DEF LoadInit, LoadInv

\* A task that has the lock is the only one that inserts, and its tree is the
\* last of the list.
LEMMA InsertingTask ==
    ASSUME LoadInv, NEW f \in Files, pc[f] = "insert"
    PROVE  /\ holder = f /\ f \in Readable /\ Nodes[f] \in Seq(Claimants)
           /\ next_node[f] \in Nat \ {0} /\ next_node[f] <= Len(Nodes[f]) + 1
           /\ distributors \in Seq(Files) /\ distributors # <<>>
           /\ distributors[Len(distributors)] = f
           /\ \A c \in Claimants :
                tree[c] = IF c \in Inserted(f) THEN f ELSE LastWith(c, Before)
  BY FilesAssumption DEF LoadInv

\* Skipping a file changes nothing but the task.
LEMMA SkipStep ==
    ASSUME LoadInv, NEW f \in Files, Skip(f)
    PROVE  LoadInv'
  <1>1. /\ pc[f] = "start" /\ f \notin Readable /\ pc' = [pc EXCEPT ![f] = "end"]
        /\ UNCHANGED <<distributors, holder, tree, next_node, serving>>
    BY DEF Skip
  <1>2. /\ pc' \in [Files -> {"start", "insert", "end"}]
        /\ \A g \in Files \ {f} : pc'[g] = pc[g]
        /\ pc'[f] = "end"
    BY <1>1 DEF LoadInv
  <1>3. {g \in Readable : pc'[g] # "start"} = {g \in Readable : pc[g] # "start"}
    BY <1>1, <1>2, FilesAssumption
  <1>4. /\ Inserted(holder)' = Inserted(holder) /\ Before' = Before
    BY <1>1 DEF Inserted, Before
  <1>5. \A g \in Files : /\ pc'[g] = "start" => next_node'[g] = 1
                         /\ pc'[g] = "insert" <=> holder' = g
                         /\ serving' => pc'[g] = "end"
    BY <1>1, <1>2 DEF LoadInv
  <1> QED
    BY <1>1, <1>2, <1>3, <1>4, <1>5 DEF LoadInv

\* Registering a tree takes the lock and appends to the list, before any of its
\* nodes is inserted.
LEMMA RegisterStep ==
    ASSUME LoadInv, NEW f \in Files, Register(f)
    PROVE  LoadInv'
  <1>1. /\ pc[f] = "start" /\ f \in Readable /\ holder = None /\ holder' = f
        /\ distributors' = Append(distributors, f)
        /\ pc' = [pc EXCEPT ![f] = "insert"]
        /\ UNCHANGED <<tree, next_node, serving>>
    BY DEF Register
  <1>2. /\ pc' \in [Files -> {"start", "insert", "end"}]
        /\ \A g \in Files \ {f} : pc'[g] = pc[g]
        /\ pc'[f] = "insert"
    BY <1>1 DEF LoadInv
  <1>3. /\ distributors \in Seq(Files) /\ distributors' \in Seq(Files)
        /\ distributors' # <<>> /\ distributors'[Len(distributors')] = f
    BY <1>1 DEF LoadInv
  <1>4. Range(distributors') = {g \in Readable : pc'[g] # "start"}
    <2>1. Range(distributors') = Range(distributors) \cup {f}
      BY <1>1, <1>3 DEF Range
    <2>2. Range(distributors) = {g \in Readable : pc[g] # "start"}
      BY DEF LoadInv
    <2> QED
      BY <1>1, <1>2, <2>1, <2>2, FilesAssumption
  <1>5. Before' = distributors
    BY <1>1, <1>3, FrontAndLast DEF Before
  <1>6. next_node'[f] = 1 /\ Inserted(f)' = {}
    BY <1>1 DEF LoadInv, Inserted
  <1>7. \A c \in Claimants : tree'[c] = LastWith(c, Before')
    BY <1>1, <1>5 DEF LoadInv
  <1>8. \A g \in Files : /\ pc'[g] = "start" => next_node'[g] = 1
                         /\ pc'[g] = "insert" <=> holder' = g
                         /\ serving' => pc'[g] = "end"
    BY <1>1, <1>2, FilesAssumption DEF LoadInv
  <1>9. holder' \in Readable /\ 1 <= Len(Nodes[f]) + 1 /\ holder' # None
    BY <1>1, FilesAssumption
  <1>10. \A c \in Claimants :
           tree'[c] = IF c \in Inserted(holder)' THEN holder' ELSE LastWith(c, Before)'
    <2>1. Inserted(holder)' = {}
      BY <1>1, <1>6 DEF Inserted
    <2>2. \A c \in Claimants : LastWith(c, Before)' = LastWith(c, Before')
      BY DEF LastWith
    <2> QED
      BY <1>7, <2>1, <2>2
  <1> QED
    BY <1>1, <1>2, <1>3, <1>4, <1>6, <1>8, <1>9, <1>10 DEF LoadInv

\* An insertion is by the task of the last tree.
LEMMA InsertNodeStep ==
    ASSUME LoadInv, NEW f \in Files, InsertNode(f)
    PROVE  LoadInv'
  <1> DEFINE n == next_node[f]
             node == Nodes[f][n]
  <1>1. /\ pc[f] = "insert" /\ n <= Len(Nodes[f])
        /\ tree' = [tree EXCEPT ![node] = f]
        /\ next_node' = [next_node EXCEPT ![f] = n + 1]
        /\ UNCHANGED <<pc, distributors, holder, serving>>
    BY DEF InsertNode
  <1>2. /\ holder = f /\ f \in Readable /\ Nodes[f] \in Seq(Claimants)
        /\ n \in Nat \ {0} /\ distributors # <<>>
        /\ distributors[Len(distributors)] = f
        /\ \A c \in Claimants :
             tree[c] = IF c \in Inserted(f) THEN f ELSE LastWith(c, Before)
    BY <1>1, InsertingTask
  <1>3. node \in Claimants /\ Len(Nodes[f]) \in Nat
    BY <1>1, <1>2
  <1>4. /\ next_node' \in [Files -> Nat \ {0}] /\ next_node'[f] = n + 1
        /\ \A g \in Files \ {f} : next_node'[g] = next_node[g]
        /\ n + 1 <= Len(Nodes[f]) + 1
    BY <1>1, <1>2, <1>3 DEF LoadInv
  <1>5. Inserted(f)' = Inserted(f) \cup {node}
    <2> DEFINE s == Nodes[f]
    <2>1. Inserted(f)' = {s[i] : i \in 1..(n + 1) - 1}
      BY <1>4 DEF Inserted
    <2>2. Inserted(f) = {s[i] : i \in 1..n - 1}
      BY DEF Inserted
    <2>3. 1..(n + 1) - 1 = (1..n - 1) \cup {n}
      BY <1>2
    <2> HIDE DEF n, s
    <2>4. {s[i] : i \in 1..(n + 1) - 1} = {s[i] : i \in 1..n - 1} \cup {s[n]}
      BY <2>3
    <2> QED
      BY <2>1, <2>2, <2>4 DEF s
  <1>6. /\ tree' \in [Claimants -> Files \cup {None}] /\ tree'[node] = f
        /\ \A c \in Claimants \ {node} : tree'[c] = tree[c]
    BY <1>1, <1>3 DEF LoadInv
  <1>7. \A c \in Claimants : LastWith(c, Before)' = LastWith(c, Before)
    BY <1>1 DEF LastWith, Before
  <1> HIDE DEF n, node
  <1>8. \A c \in Claimants :
          tree'[c] = IF c \in Inserted(f)' THEN f ELSE LastWith(c, Before)'
    BY <1>2, <1>5, <1>6, <1>7
  <1>9. \A g \in Files : /\ pc'[g] = "start" => next_node'[g] = 1
                         /\ pc'[g] = "insert" <=> holder' = g
                         /\ serving' => pc'[g] = "end"
    BY <1>1, <1>4 DEF LoadInv
  <1>10. holder' = f /\ f # None /\ Inserted(holder)' = Inserted(f)'
    BY <1>1, <1>2, FilesAssumption DEF Inserted
  <1> QED
    BY <1>1, <1>2, <1>4, <1>6, <1>8, <1>9, <1>10 DEF LoadInv

\* At the end of the task its whole tree is in the map, on top of the others.
LEMMA FinishStep ==
    ASSUME LoadInv, NEW f \in Files, Finish(f)
    PROVE  LoadInv'
  <1>1. /\ pc[f] = "insert" /\ next_node[f] > Len(Nodes[f])
        /\ pc' = [pc EXCEPT ![f] = "end"] /\ holder' = None
        /\ UNCHANGED <<distributors, tree, next_node, serving>>
    BY DEF Finish
  <1>2. /\ holder = f /\ f \in Readable /\ Nodes[f] \in Seq(Claimants)
        /\ next_node[f] \in Nat \ {0} /\ next_node[f] <= Len(Nodes[f]) + 1
        /\ distributors \in Seq(Files) /\ distributors # <<>>
        /\ distributors[Len(distributors)] = f
        /\ \A c \in Claimants :
             tree[c] = IF c \in Inserted(f) THEN f ELSE LastWith(c, Before)
    BY <1>1, InsertingTask
  <1>3. /\ pc' \in [Files -> {"start", "insert", "end"}]
        /\ \A g \in Files \ {f} : pc'[g] = pc[g]
        /\ pc'[f] = "end"
    BY <1>1 DEF LoadInv
  <1>4. Inserted(f) = Range(Nodes[f])
    <2>1. Len(Nodes[f]) \in Nat /\ DOMAIN Nodes[f] = 1..Len(Nodes[f])
      BY <1>2
    <2>2. next_node[f] - 1 = Len(Nodes[f])
      <3> DEFINE n == next_node[f]
                 m == Len(Nodes[f])
      <3>1. n \in Nat /\ m \in Nat /\ n > m /\ n <= m + 1
        BY <1>1, <1>2, <2>1
      <3> HIDE DEF n, m
      <3>2. n - 1 = m
        BY <3>1
      <3> QED
        BY <3>2 DEF n, m
    <2> QED
      BY <2>1, <2>2 DEF Inserted, Range
  <1>5. Before \in Seq(Files) /\ distributors = Append(Before, f)
    BY <1>2, FrontAndLast DEF Before
  <1>6. \A c \in Claimants : tree[c] = LastWith(c, distributors)
    <2> HIDE DEF Before
    <2>1. \A c \in Claimants :
            LastWith(c, distributors) = IF Has(f, c) THEN f ELSE LastWith(c, Before)
      BY <1>5, LastWithAppend
    <2> QED
      BY <1>2, <1>4, <2>1 DEF Has
  <1>7. \A c \in Claimants : tree'[c] = LastWith(c, distributors)'
    BY <1>1, <1>6 DEF LastWith
  <1>8. {g \in Readable : pc'[g] # "start"} = {g \in Readable : pc[g] # "start"}
    BY <1>1, <1>3, FilesAssumption
  <1>9. \A g \in Files : /\ pc'[g] = "start" => next_node'[g] = 1
                         /\ pc'[g] = "insert" <=> holder' = g
                         /\ serving' => pc'[g] = "end"
    BY <1>1, <1>2, <1>3, FilesAssumption DEF LoadInv
  <1> QED
    BY <1>1, <1>3, <1>7, <1>8, <1>9 DEF LoadInv

\* Every step of the server and of the chain preserves LoadInv.
LEMMA NextLoadInv == LoadInv /\ [Next]_vars => LoadInv'
  <1> SUFFICES ASSUME LoadInv, [Next]_vars PROVE LoadInv'
    OBVIOUS
  <1>1. CASE Load
    <2>1. CASE Serve
      <3>1. /\ UNCHANGED <<pc, distributors, holder, tree, next_node>>
            /\ \A f \in Files : pc[f] = "end"
        BY <2>1 DEF Serve
      <3>2. Inserted(holder)' = Inserted(holder) /\ Before' = Before
        BY <3>1 DEF Inserted, Before
      <3> QED
        BY <3>1, <3>2 DEF LoadInv
    <2> QED
      BY <1>1, <2>1, SkipStep, RegisterStep, InsertNodeStep, FinishStep DEF Load, Task
  <1>2. CASE UNCHANGED loadVars
    <2>1. Inserted(holder)' = Inserted(holder) /\ Before' = Before
      BY <1>2 DEF loadVars, Inserted, Before
    <2> QED
      BY <1>2, <2>1 DEF loadVars, LoadInv
  <1>3. ASSUME NEW k \in Accounts, ChainUpdate(k) PROVE UNCHANGED loadVars
    BY <1>3 DEF ChainUpdate
  <1> QED
    BY <1>1, <1>2, <1>3 DEF Next, Spawned, vars

\* Whatever the order of the tasks, the map that is served is that of loading the
\* trees one after the other, for any trees and any claimants.
THEOREM TreesLoadedSerially == Spec => []LoadedSerially
  <1>1. Init => LoadInv
    BY InitLoadInv DEF Init
  <1>2. LoadInv => LoadedSerially
    <2> SUFFICES ASSUME LoadInv, serving
                 PROVE  /\ Range(distributors) = Readable
                        /\ \A c \in Claimants : tree[c] = LastWith(c, distributors)
      BY DEF LoadedSerially
    <2>1. \A f \in Files : pc[f] = "end"
      BY DEF LoadInv
    <2>2. holder = None
      BY <2>1, FilesAssumption DEF LoadInv
    <2> QED
      BY <2>1, <2>2, FilesAssumption DEF LoadInv
  <1> QED
    BY <1>1, <1>2, NextLoadInv, PTL DEF Spec
-----------------------------------------------------------------------------
(***************************************************************************)
(* The cache.                                                              *)
(***************************************************************************)

\* Both parts of an account's address are known to the server.
LEMMA AccountParts ==
    ASSUME NEW k \in Accounts
    PROVE  k[1] \in Distributors /\ k[2] \in Claimants
  <1>1. k[1] \in Readable /\ k[2] \in Range(Nodes[k[1]])
    BY AccountsAssumption DEF Has
  <1>2. Nodes[k[1]] \in Seq(Claimants)
    BY <1>1, FilesAssumption
  <1>3. k[2] \in Claimants
    BY <1>1, <1>2 DEF Range
  <1> QED
    BY <1>3 DEF Distributors

\* The initial state of the cache.
LEMMA InitCacheInv == Init => CacheInv
  <1> SUFFICES ASSUME Init PROVE CacheInv
    OBVIOUS
  <1>1. chain \in [Accounts -> 0..MaxChanges] /\ slot \in Nat
    BY SizesAssumption DEF Init
  <1>2. /\ ws \in [Distributors -> {"connecting", "open", "dead"}]
        /\ attempt \in [Distributors -> 0..MaxAttempts + 1]
        /\ \A d \in Distributors : attempt[d] <= MaxAttempts
    BY SizesAssumption DEF Init
  <1>3. /\ stream \in [Distributors -> Seq(Update)]
        /\ polled \in [Distributors -> SUBSET Update]
        /\ cache \in [Claimants -> Update \cup {None}]
    BY DEF Init
  <1>4. channel \in Seq(Update) /\ Len(channel) <= ChannelSize
    BY SizesAssumption DEF Init
  <1> QED
    BY <1>1, <1>2, <1>3, <1>4 DEF CacheInv, CacheTypeOK

\* The program changes an account: the bound on all changes bounds each.
LEMMA ChainUpdateStep ==
    ASSUME CacheInv, NEW k \in Accounts, ChainUpdate(k)
    PROVE  CacheInv'
  <1> DEFINE d == k[1]
             u == [account |-> k, data |-> chain'[k], slot |-> slot']
  <1>1. /\ SumFunction(chain) < MaxChanges
        /\ chain' = [chain EXCEPT ![k] = @ + 1]
        /\ slot' \in {slot, slot + 1}
        /\ stream' = [stream EXCEPT ![d] =
              IF ws[d] = "open" THEN Append(stream[d], u) ELSE stream[d]]
        /\ UNCHANGED <<ws, attempt, polled, channel, cache>>
    BY DEF ChainUpdate
  <1>2. /\ chain \in [Accounts -> Nat] /\ chain \in [Accounts -> 0..MaxChanges]
        /\ slot \in Nat
        /\ stream \in [Distributors -> Seq(Update)]
    BY SizesAssumption DEF CacheInv, CacheTypeOK
  <1>3. SumFunction(chain) \in Nat /\ chain[k] <= SumFunction(chain)
    BY <1>2, AccountsAssumption, SumNat
  <1>4. chain[k] \in Nat /\ chain[k] + 1 \in 1..MaxChanges
    BY <1>1, <1>2, <1>3, SizesAssumption
  <1>5. chain' \in [Accounts -> 0..MaxChanges] /\ chain'[k] \in 1..MaxChanges
    BY <1>1, <1>2, <1>4
  <1>6. slot' \in Nat
    BY <1>1, <1>2
  <1>7. u \in Update
    BY <1>5, <1>6 DEF Update
  <1>8. d \in Distributors /\ stream[d] \in Seq(Update)
    BY <1>2, AccountParts
  <1> HIDE DEF d, u
  <1>9. stream' \in [Distributors -> Seq(Update)]
    BY <1>1, <1>2, <1>7, <1>8
  <1> QED
    BY <1>1, <1>5, <1>6, <1>9 DEF CacheInv, CacheTypeOK

\* The websocket task gives up one attempt after the last.
LEMMA FollowStep ==
    ASSUME CacheInv, NEW d \in Distributors, Follow(d)
    PROVE  CacheInv'
  <1>1. /\ ws \in [Distributors -> {"connecting", "open", "dead"}]
        /\ attempt \in [Distributors -> 0..MaxAttempts + 1]
        /\ attempt[d] \in Nat
        /\ ws[d] # "dead" => attempt[d] <= MaxAttempts
        /\ \A e \in Distributors : ws[e] # "dead" => attempt[e] <= MaxAttempts
    BY SizesAssumption DEF CacheInv, CacheTypeOK
  <1>2. /\ stream \in [Distributors -> Seq(Update)] /\ stream[d] \in Seq(Update)
        /\ channel \in Seq(Update)
    BY DEF CacheInv, CacheTypeOK
  <1>3. CASE Subscribe(d) \/ ConnectPanics(d)
    <2>1. /\ ws' = [ws EXCEPT ![d] = "open"] \/ ws' = [ws EXCEPT ![d] = "dead"]
          /\ ws[d] = "connecting"
          /\ UNCHANGED <<chain, slot, attempt, stream, polled, channel, cache>>
      BY <1>3 DEF Subscribe, ConnectPanics, chainVars
    <2>2. /\ ws' \in [Distributors -> {"connecting", "open", "dead"}]
          /\ \A e \in Distributors : ws'[e] # "dead" => attempt[e] <= MaxAttempts
      BY <1>1, <2>1
    <2> QED
      BY <2>1, <2>2 DEF CacheInv, CacheTypeOK
  <1>4. CASE SubscribeFails(d)
    <2>1. /\ ws[d] = "connecting"
          /\ UNCHANGED <<chain, slot, stream, polled, channel, cache>>
      BY <1>4 DEF SubscribeFails, chainVars
    <2>2. CASE attempt[d] + 1 >= MaxAttempts
      <3>1. /\ ws' = [ws EXCEPT ![d] = "dead"]
            /\ attempt' = [attempt EXCEPT ![d] = attempt[d] + 1]
        BY <1>4, <2>2 DEF SubscribeFails
      <3>2. attempt[d] + 1 \in 0..MaxAttempts + 1
        BY <1>1, <2>1, SizesAssumption
      <3>3. /\ ws' \in [Distributors -> {"connecting", "open", "dead"}]
            /\ attempt' \in [Distributors -> 0..MaxAttempts + 1]
            /\ \A e \in Distributors : ws'[e] # "dead" => attempt'[e] <= MaxAttempts
        BY <1>1, <3>1, <3>2
      <3> QED
        BY <2>1, <3>3 DEF CacheInv, CacheTypeOK
    <2>3. CASE ~(attempt[d] + 1 >= MaxAttempts)
      <3>1. ws' = ws /\ attempt' = [attempt EXCEPT ![d] = attempt[d] + 2]
        BY <1>4, <2>3 DEF SubscribeFails
      <3>2. attempt[d] + 2 \in 0..MaxAttempts + 1 /\ attempt[d] + 2 <= MaxAttempts
        BY <1>1, <2>3, SizesAssumption
      <3>3. /\ attempt' \in [Distributors -> 0..MaxAttempts + 1]
            /\ \A e \in Distributors : ws'[e] # "dead" => attempt'[e] <= MaxAttempts
        BY <1>1, <3>1, <3>2
      <3> QED
        BY <2>1, <3>1, <3>3 DEF CacheInv, CacheTypeOK
    <2> QED
      BY <2>2, <2>3
  <1>5. CASE Deliver(d)
    <2>1. /\ stream[d] # <<>> /\ Len(channel) < ChannelSize
          /\ attempt' = [attempt EXCEPT ![d] = 0]
          /\ channel' = Append(channel, Head(stream[d]))
          /\ stream' = [stream EXCEPT ![d] = Tail(stream[d])]
          /\ UNCHANGED <<chain, slot, ws, polled, cache>>
      BY <1>5 DEF Deliver, chainVars
    <2>2. /\ attempt' \in [Distributors -> 0..MaxAttempts + 1]
          /\ \A e \in Distributors : ws[e] # "dead" => attempt'[e] <= MaxAttempts
      BY <1>1, <2>1, SizesAssumption
    <2>3. Head(stream[d]) \in Update /\ Tail(stream[d]) \in Seq(Update)
      BY <1>2, <2>1
    <2>4. channel' \in Seq(Update) /\ Len(channel') <= ChannelSize
      BY <1>2, <2>1, <2>3, SizesAssumption
    <2>5. stream' \in [Distributors -> Seq(Update)]
      BY <1>2, <2>1, <2>3
    <2> QED
      BY <2>1, <2>2, <2>4, <2>5 DEF CacheInv, CacheTypeOK
  <1>6. CASE StreamEnds(d)
    <2>1. /\ ws' = [ws EXCEPT ![d] = "connecting"]
          /\ attempt' = [attempt EXCEPT ![d] = 1]
          /\ stream' = [stream EXCEPT ![d] = <<>>]
          /\ UNCHANGED <<chain, slot, polled, channel, cache>>
      BY <1>6 DEF StreamEnds, chainVars
    <2>2. /\ ws' \in [Distributors -> {"connecting", "open", "dead"}]
          /\ attempt' \in [Distributors -> 0..MaxAttempts + 1]
          /\ \A e \in Distributors : ws'[e] # "dead" => attempt'[e] <= MaxAttempts
      BY <1>1, <2>1, SizesAssumption
    <2>3. stream' \in [Distributors -> Seq(Update)]
      BY <1>2, <2>1
    <2> QED
      BY <2>1, <2>2, <2>3 DEF CacheInv, CacheTypeOK
  <1> QED
    BY <1>3, <1>4, <1>5, <1>6 DEF Follow

\* A poll reads accounts that exist.
LEMMA PollReadStep ==
    ASSUME CacheInv, NEW d \in Distributors, PollRead(d)
    PROVE  CacheInv'
  <1> DEFINE seen == {[account |-> k, data |-> chain[k], slot |-> 0] :
                        k \in {j \in Accounts : j[1] = d /\ chain[j] > 0}}
  <1>1. /\ polled' = [polled EXCEPT ![d] = seen]
        /\ UNCHANGED <<chain, slot, ws, attempt, stream, channel, cache>>
    BY DEF PollRead, chainVars, wsVars
  <1>2. seen \subseteq Update
    <2>1. chain \in [Accounts -> 0..MaxChanges]
      BY DEF CacheInv, CacheTypeOK
    <2>2. \A k \in Accounts : chain[k] > 0 => chain[k] \in 1..MaxChanges
      BY <2>1, SizesAssumption
    <2> QED
      BY <2>2 DEF Update
  <1> HIDE DEF seen
  <1>3. polled' \in [Distributors -> SUBSET Update]
    BY <1>1, <1>2 DEF CacheInv, CacheTypeOK
  <1> QED
    BY <1>1, <1>3 DEF CacheInv, CacheTypeOK

\* A sender waits until the channel has room.
LEMMA PollSendStep ==
    ASSUME CacheInv, NEW d \in Distributors, PollSend(d)
    PROVE  CacheInv'
  <1>1. PICK u \in polled[d] :
          /\ Len(channel) < ChannelSize /\ channel' = Append(channel, u)
          /\ polled' = [polled EXCEPT ![d] = @ \ {u}]
          /\ UNCHANGED <<chain, slot, ws, attempt, stream, cache>>
    BY Zenon DEF PollSend, chainVars, wsVars
  <1>2. polled \in [Distributors -> SUBSET Update] /\ channel \in Seq(Update)
    BY DEF CacheInv, CacheTypeOK
  <1>3. u \in Update
    BY <1>2
  <1>4. polled' \in [Distributors -> SUBSET Update]
    BY <1>1, <1>2
  <1>5. channel' \in Seq(Update) /\ Len(channel') <= ChannelSize
    BY <1>1, <1>2, <1>3, SizesAssumption
  <1> QED
    BY <1>1, <1>4, <1>5 DEF CacheInv, CacheTypeOK

\* What the updater does to the entry of one claimant.
LEMMA ApplyUpdateEffect ==
    ASSUME CacheInv, ApplyUpdate
    PROVE  \E u \in Update :
             /\ u.account[2] \in Claimants
             /\ \A c \in Claimants :
                  \/ cache'[c] = cache[c]
                  \/ /\ cache'[c] = u
                     /\ cache[c] = None \/ Accepts(cache[c], u)
             /\ cache' \in [Claimants -> Update \cup {None}]
  <1> DEFINE u == Head(channel)
             c == u.account[2]
  <1>1. /\ channel # <<>>
        /\ cache' = IF cache[c] = None \/ Accepts(cache[c], u)
                    THEN [cache EXCEPT ![c] = u] ELSE cache
    BY DEF ApplyUpdate
  <1>2. u \in Update /\ cache \in [Claimants -> Update \cup {None}]
    BY <1>1 DEF CacheInv, CacheTypeOK
  <1> HIDE DEF u
  <1>3. c \in Claimants
    BY <1>2, AccountParts DEF Update
  <1> HIDE DEF c
  <1>4. /\ cache' \in [Claimants -> Update \cup {None}]
        /\ \A e \in Claimants : \/ cache'[e] = cache[e]
                                \/ /\ cache'[e] = u
                                   /\ cache[e] = None \/ Accepts(cache[e], u)
    BY <1>1, <1>2, <1>3
  <1> QED
    BY <1>2, <1>3, <1>4 DEF c

\* The updater takes one update off the channel.
LEMMA ApplyUpdateStep ==
    ASSUME CacheInv, ApplyUpdate
    PROVE  CacheInv'
  <1>1. /\ channel # <<>> /\ channel' = Tail(channel)
        /\ UNCHANGED <<chain, slot, ws, attempt, stream, polled>>
    BY DEF ApplyUpdate, chainVars, wsVars
  <1>2. channel' \in Seq(Update) /\ Len(channel') <= ChannelSize
    <2>1. channel \in Seq(Update) /\ Len(channel) <= ChannelSize
      BY DEF CacheInv, CacheTypeOK
    <2>2. Len(channel') = Len(channel) - 1 /\ Len(channel) \in Nat
      BY <1>1, <2>1
    <2>3. channel' \in Seq(Update)
      BY <1>1, <2>1
    <2> QED
      BY <2>1, <2>2, <2>3, SizesAssumption
  <1>3. cache' \in [Claimants -> Update \cup {None}]
    BY ApplyUpdateEffect
  <1> QED
    BY <1>1, <1>2, <1>3 DEF CacheInv, CacheTypeOK

\* Every step of the server and of the chain preserves CacheInv.
LEMMA NextCacheInv == CacheInv /\ [Next]_vars => CacheInv'
  <1> SUFFICES ASSUME CacheInv, [Next]_vars PROVE CacheInv'
    OBVIOUS
  <1>1. CASE UNCHANGED cacheVars
    BY <1>1 DEF cacheVars, CacheInv, CacheTypeOK
  <1> QED
    BY <1>1, ChainUpdateStep, ApplyUpdateStep, FollowStep, PollReadStep, PollSendStep
    DEF Next, Spawned, vars

\* The channel never holds more than its size, the reconnection counter stops one
\* after max_reconnection_attempts, and every entry is an update of an account.
THEOREM CacheTypeCorrect == Spec => []CacheTypeOK
  <1>1. CacheInv => CacheTypeOK
    BY DEF CacheInv
  <1> QED
    BY <1>1, InitCacheInv, NextCacheInv, PTL DEF Spec

\* A step leaves the slot of an entry, raises it, or resets it to a poll's 0.
LEMMA NewestSlotStep ==
    ASSUME CacheInv, [Next]_vars, NEW c \in Claimants,
           cache[c] # None, cache[c].slot > 0, cache'[c].slot > 0
    PROVE  cache'[c].slot >= cache[c].slot
  <1>1. cache[c] \in Update /\ cache[c].slot \in Nat
    BY DEF CacheInv, CacheTypeOK, Update
  <1>2. CASE cache' = cache
    BY <1>1, <1>2
  <1>3. CASE ApplyUpdate
    <2>1. PICK u \in Update :
            \/ cache'[c] = cache[c]
            \/ cache'[c] = u /\ Accepts(cache[c], u)
      BY <1>3, ApplyUpdateEffect
    <2>2. u.slot \in Nat
      BY DEF Update
    <2>3. CASE cache'[c] = cache[c]
      BY <1>1, <2>3
    <2>4. CASE cache'[c] = u /\ Accepts(cache[c], u)
      <3>1. u.slot > 0 /\ (cache[c].slot <= u.slot \/ u.slot = 0)
        BY <2>4 DEF Accepts
      <3>2. cache[c].slot <= u.slot
        BY <2>2, <3>1
      <3> QED
        BY <1>1, <2>2, <2>4, <3>2
    <2> QED
      BY <2>1, <2>3, <2>4
  <1>4. ASSUME NEW d \in Distributors, Follow(d) \/ PollRead(d) \/ PollSend(d)
        PROVE  cache' = cache
    BY <1>4 DEF Follow, Subscribe, ConnectPanics, SubscribeFails, Deliver,
                StreamEnds, PollRead, PollSend
  <1>5. ASSUME NEW k \in Accounts, ChainUpdate(k) PROVE cache' = cache
    BY <1>5 DEF ChainUpdate
  <1>6. ASSUME UNCHANGED cacheVars PROVE cache' = cache
    BY <1>6 DEF cacheVars
  <1> QED
    BY <1>2, <1>3, <1>4, <1>5, <1>6 DEF Next, Spawned, vars

\* Among websocket updates of one claimant, from however many subscriptions and
\* in whatever order they arrive, the newest slot wins.
THEOREM NewestSlotAlwaysWins == Spec => NewestSlotWins
  <1>1. CacheInv /\ [Next]_vars =>
          [\A c \in Claimants :
             cache[c] # None /\ cache[c].slot > 0 /\ cache'[c].slot > 0
               => cache'[c].slot >= cache[c].slot]_vars
    BY NewestSlotStep
  <1> QED
    BY <1>1, InitCacheInv, NextCacheInv, PTL DEF Spec, NewestSlotWins
=============================================================================
