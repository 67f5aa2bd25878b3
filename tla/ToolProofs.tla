----------------------------- MODULE ToolProofs -----------------------------
(***************************************************************************)
(* The tools around the program: the hash tree, mass-send and deploy.      *)
(*                                                                         *)
(* A root commits to the items of its list, for every list, every proof    *)
(* and every order of the hashes.  TreeInv is inductive: one step per      *)
(* level and per element of a proof.                                       *)
(*                                                                         *)
(* Mass-send and resend pay nobody twice, for every list, batch size and   *)
(* number of runs, crashes and lost answers: PaidOnce and RecordsTrue.     *)
(* SendInv is inductive.  The steps of the command that leave the          *)
(* transactions alone only move groups about; the two that append one      *)
(* share TxAppended, and Settle is the only one that changes one.          *)
(*                                                                         *)
(* A deployment ends only with every shard deployed, and re-runs deploy no *)
(* shard twice, for any number of shards, versions and runs: DeployInv is  *)
(* inductive.                                                              *)
(***************************************************************************)
EXTENDS MassSend, Deploy, MerkleTree, TLAPS

-----------------------------------------------------------------------------
(***************************************************************************)
(* The hash tree.                                                          *)
(***************************************************************************)

\* A hash tells what was hashed: an item or two nodes, and which.
LEMMA HashesApart ==
    ASSUME NEW d, NEW e, NEW l, NEW r, NEW m, NEW n
    PROVE  /\ hash_leaf(d) # hash_intermediate(l, r)
           /\ hash_leaf(d) = hash_leaf(e) => d = e
           /\ hash_intermediate(l, r) = hash_intermediate(m, n) => l = m /\ r = n
  BY DEF hash_leaf, hash_intermediate

\* Sorted hashing does not depend on which sibling is named first.
LEMMA SortedSymmetric ==
    ASSUME NEW l, NEW r
    PROVE  hash_sorted(l, r) = hash_sorted(r, l)
  <1>1. {l, r} = {r, l}
    BY Zenon
  <1>2. (CHOOSE h \in {l, r} : TRUE) \in {l, r}
    BY Zenon
  <1> DEFINE first == CHOOSE h \in {l, r} : TRUE
  <1>3. NotAfter(l, r) <=> l = first
    BY Zenon DEF NotAfter
  <1>4. NotAfter(r, l) <=> r = first
    BY Zenon, <1>1 DEF NotAfter
  <1>5. first = l \/ first = r
    BY Zenon, <1>2
  <1> HIDE DEF first
  <1> QED
    BY Zenon, <1>3, <1>4, <1>5 DEF hash_sorted

\* It is an intermediate node's hash, of the two in one order.
LEMMA SortedHashes ==
    ASSUME NEW l, NEW r
    PROVE  \/ hash_sorted(l, r) = hash_intermediate(l, r)
           \/ hash_sorted(l, r) = hash_intermediate(r, l)
  BY Zenon DEF hash_sorted

\* A sequence is one over what occurs in it.
LEMMA SeqOfRange ==
    ASSUME NEW S, NEW s \in Seq(S)
    PROVE  /\ s \in Seq(Range(s))
           /\ Range(s) \subseteq S
           /\ DOMAIN s = 1..Len(s) /\ Len(s) \in Nat
           /\ \A i \in 1..Len(s) : s[i] \in Range(s)
  BY DEF Range

\* A function of 1..n is a sequence of length n.
LEMMA FunctionSeq ==
    ASSUME NEW n \in Nat, NEW f, f = [k \in 1..n |-> f[k]]
    PROVE  f \in Seq(Range(f)) /\ Len(f) = n
  <1>1. f \in [1..n -> Range(f)]
    BY Zenon DEF Range
  <1> HIDE DEF Range
  <1> QED
    BY <1>1

\* Where the elements of a concatenation come from.
LEMMA Concatenated ==
    ASSUME NEW S, NEW s \in Seq(S), NEW t \in Seq(S)
    PROVE  /\ s \o t \in Seq(S) /\ Len(s \o t) = Len(s) + Len(t)
           /\ \A i \in 1..Len(s) : (s \o t)[i] = s[i]
           /\ \A i \in 0..(Len(t) - 1) : (s \o t)[Len(s) + i + 1] = t[i + 1]
  <1>1. s \o t \in Seq(S) /\ Len(s \o t) = Len(s) + Len(t)
        /\ Len(s) \in Nat /\ Len(t) \in Nat
    OBVIOUS
  <1>2. \A i \in 1..(Len(s) + Len(t)) :
          (s \o t)[i] = IF i <= Len(s) THEN s[i] ELSE t[i - Len(s)]
    OBVIOUS
  <1>3. ASSUME NEW i \in 0..(Len(t) - 1)
        PROVE  (s \o t)[Len(s) + i + 1] = t[i + 1]
    <2>1. Len(s) + i + 1 \in 1..(Len(s) + Len(t)) /\ ~(Len(s) + i + 1 <= Len(s))
          /\ (Len(s) + i + 1) - Len(s) = i + 1
      BY <1>1
    <2> QED
      BY <2>1, <1>2
  <1>4. \A i \in 1..Len(s) : (s \o t)[i] = s[i]
    BY <1>1, <1>2
  <1> QED
    BY Zenon, <1>1, <1>3, <1>4

\* The next level has half as many nodes, rounded up, until there is one.
LEMMA NextLevelLen ==
    ASSUME NEW n \in Nat \ {0}
    PROVE  /\ next_level_len(n) \in Nat
           /\ next_level_len(n) = 0 <=> n = 1
           /\ \A i \in 0..(next_level_len(n) - 1) : i \in Nat /\ 2 * i < n
           /\ n > 1 => \A i \in 0..(n - 1) : i \div 2 \in 0..(next_level_len(n) - 1)
  BY DEF next_level_len

\* From what is not a node no hashing leads to a node.
LEMMA NoWayIn ==
    ASSUME NodesInv, NEW h, NEW e, hash_sorted(h, e) \in Range(nodes)
    PROVE  h \in Range(nodes)
  <1>1. hash_sorted(h, e) \notin Leaves
    BY SortedHashes, HashesApart DEF Leaves
  <1>2. PICK l \in Range(nodes), r \in Range(nodes) :
          hash_sorted(h, e) = hash_intermediate(l, r)
    BY <1>1 DEF NodesInv
  <1>3. h = l \/ h = r
    BY <1>2, SortedHashes, HashesApart
  <1> QED
    BY Zenon, <1>3

\* A leaf's hash is a node only if the leaf is one of the tree's.
LEMMA OnlyItems ==
    ASSUME NodesInv, NEW d, hash_leaf(d) \in Range(nodes)
    PROVE  d \in Range(items)
  <1>1. hash_leaf(d) \in Leaves
    BY HashesApart DEF NodesInv
  <1>2. PICK i \in DOMAIN items : hash_leaf(d) = hash_leaf(items[i])
    BY Zenon, <1>1 DEF Leaves
  <1>3. d = items[i]
    BY Zenon, <1>2, HashesApart
  <1> QED
    BY Zenon, <1>3 DEF Range

\* The items are a list of at least one.
LEMMA ItemsType ==
    ASSUME NodesInv
    PROVE  /\ items \in Seq(Range(items)) /\ DOMAIN items = 1..Len(items)
           /\ Len(items) \in Nat \ {0}
           /\ nodes \in Seq(Range(nodes)) /\ DOMAIN nodes = 1..Len(nodes)
           /\ Len(nodes) \in Nat
  BY ListsAssumption DEF NodesInv

\* The leaves are a level.
LEMMA TreeStarts == TreeInit => TreeInv
  <1> SUFFICES ASSUME TreeInit PROVE TreeInv
    BY Zenon
  <1>1. items \in Seq(Range(items)) /\ DOMAIN items = 1..Len(items)
        /\ Len(items) \in Nat \ {0}
    BY ListsAssumption DEF TreeInit
  <1>2. nodes \in Seq(Range(nodes)) /\ Len(nodes) = Len(items) /\ Range(nodes) = Leaves
    BY <1>1 DEF TreeInit, Range, Leaves
  <1>3. NodesInv
    <2>1. items \in Lists /\ \A i \in DOMAIN items : nodes[i] = hash_leaf(items[i])
      BY Zenon DEF TreeInit
    <2> QED
      BY <2>1, <1>2 DEF NodesInv
  <1>4. LevelsInv
    BY <1>1, <1>2 DEF TreeInit, LevelsInv
  <1>5. WalkInv /\ VerifyInv /\ EveryProofVerifies /\ OnlyLeavesVerify
    BY Zenon DEF TreeInit, WalkInv, VerifyInv, EveryProofVerifies, OnlyLeavesVerify
  <1> QED
    BY Zenon, <1>3, <1>4, <1>5 DEF TreeInv, TreeInit

\* The level a step builds, node by node.
LEMMA LevelBuilt ==
    ASSUME NodesInv, LevelsInv, BuildLevel
    PROVE  /\ prev_level_len \in Nat /\ prev_level_len > 1 /\ prev_level_start \in Nat
           /\ level_len \in Nat \ {0} /\ Len(nodes) = prev_level_start + prev_level_len
           /\ nodes' \in Seq(Range(nodes')) /\ Len(nodes') = Len(nodes) + level_len
           /\ \A i \in 1..Len(nodes) : nodes'[i] = nodes[i]
           /\ \A i \in 0..(level_len - 1) :
                nodes'[Len(nodes) + i + 1] = Parent(prev_level_start, prev_level_len, i)
           /\ \A i \in 0..(level_len - 1) :
                \E l, r \in Range(nodes) :
                   Parent(prev_level_start, prev_level_len, i) = hash_intermediate(l, r)
  <1> DEFINE new == [k \in 1..level_len |-> Parent(prev_level_start, prev_level_len, k - 1)]
  <1>1. prev_level_len \in Nat \ {0} /\ prev_level_start \in Nat
    BY Zenon DEF LevelsInv, BuildLevel
  <1>2. level_len = next_level_len(prev_level_len) /\ level_len > 0
        /\ Len(nodes) = prev_level_start + prev_level_len
    BY Zenon DEF LevelsInv, BuildLevel
  <1>3. level_len \in Nat \ {0} /\ prev_level_len > 1
    BY <1>1, <1>2, NextLevelLen
  <1>4. nodes \in Seq(Range(nodes)) /\ DOMAIN nodes = 1..Len(nodes) /\ Len(nodes) \in Nat
    BY Zenon, ItemsType
  <1>5. new \in Seq(Range(new)) /\ Len(new) = level_len
    <2>1. new = [k \in 1..level_len |-> new[k]]
      BY Zenon
    <2> HIDE DEF new
    <2> QED
      BY Zenon, <1>3, <2>1, FunctionSeq
  <1>6. nodes' = nodes \o new
    BY Zenon DEF BuildLevel
  <1>7. \A i \in 0..(level_len - 1) :
          new[i + 1] = Parent(prev_level_start, prev_level_len, i)
    BY <1>3
  <1>8. ASSUME NEW i \in 0..(level_len - 1)
        PROVE  \E l, r \in Range(nodes) :
                  Parent(prev_level_start, prev_level_len, i) = hash_intermediate(l, r)
    <2>1. i \in Nat /\ 2 * i < prev_level_len
      BY Zenon, <1>1, <1>2, NextLevelLen
    <2>2. At(prev_level_start, 2 * i) \in Range(nodes)
      BY <2>1, <1>1, <1>2, <1>4 DEF At, Range
    <2>3. 2 * i + 1 < prev_level_len => At(prev_level_start, 2 * i + 1) \in Range(nodes)
      BY <2>1, <1>1, <1>2, <1>4 DEF At, Range
    <2> DEFINE right == IF 2 * i + 1 < prev_level_len
                        THEN At(prev_level_start, 2 * i + 1)
                        ELSE At(prev_level_start, 2 * i)
    <2>4. right \in Range(nodes)
      BY Zenon, <2>2, <2>3
    <2>5. Parent(prev_level_start, prev_level_len, i)
            = hash_sorted(At(prev_level_start, 2 * i), right)
      BY Zenon DEF Parent
    <2> HIDE DEF right
    <2> QED
      BY Zenon, <2>2, <2>4, <2>5, SortedHashes
  <1> HIDE DEF new
  <1>9. /\ nodes' \in Seq(Range(nodes) \cup Range(new))
        /\ Len(nodes') = Len(nodes) + level_len
        /\ \A i \in 1..Len(nodes) : nodes'[i] = nodes[i]
        /\ \A i \in 0..(level_len - 1) : nodes'[Len(nodes) + i + 1] = new[i + 1]
    <2> DEFINE both == Range(nodes) \cup Range(new)
    <2>1. nodes \in Seq(both) /\ new \in Seq(both)
      BY <1>4, <1>5
    <2> HIDE DEF both
    <2>2. /\ nodes \o new \in Seq(both) /\ Len(nodes \o new) = Len(nodes) + Len(new)
          /\ \A i \in 1..Len(nodes) : (nodes \o new)[i] = nodes[i]
          /\ \A i \in 0..(Len(new) - 1) : (nodes \o new)[Len(nodes) + i + 1] = new[i + 1]
      BY <2>1, Concatenated
    <2> QED
      BY Zenon, <2>2, <1>5, <1>6 DEF both
  <1>10. nodes' \in Seq(Range(nodes'))
    BY Zenon, <1>9, SeqOfRange
  <1> QED
    BY Zenon, <1>1, <1>2, <1>3, <1>7, <1>8, <1>9, <1>10

\* A new node hashes two of the level before.
LEMMA BuildNodes ==
    ASSUME NodesInv, LevelsInv, BuildLevel
    PROVE  NodesInv'
  <1>1. items' = items /\ DOMAIN items = 1..Len(items) /\ Len(items) \in Nat
        /\ DOMAIN nodes = 1..Len(nodes) /\ Len(nodes) \in Nat
    BY Zenon, ItemsType DEF BuildLevel
  <1>2. Leaves' = Leaves
    BY Zenon, <1>1 DEF Leaves, hash_leaf
  <1>3. DOMAIN nodes' = 1..(Len(nodes) + level_len) /\ level_len \in Nat
    BY LevelBuilt
  <1>4. Range(nodes) \subseteq Range(nodes')
    BY <1>1, <1>3, LevelBuilt DEF Range
  <1>5. ASSUME NEW h \in Range(nodes')
        PROVE  h \in Leaves' \cup
                 {hash_intermediate(l, r) : l \in Range(nodes'), r \in Range(nodes')}
    <2>1. PICK k \in 1..(Len(nodes) + level_len) : h = nodes'[k]
      BY Zenon, <1>3 DEF Range
    <2>2. CASE k <= Len(nodes)
      <3>1. k \in 1..Len(nodes)
        BY <2>2, <1>1
      <3>2. h = nodes[k] /\ k \in DOMAIN nodes
        BY Zenon, <2>1, <3>1, <1>1, LevelBuilt
      <3>3. h \in Range(nodes)
        BY Zenon, <3>2 DEF Range
      <3> QED
        BY <3>3, <1>2, <1>4 DEF NodesInv
    <2>3. CASE k > Len(nodes)
      <3>1. k - Len(nodes) - 1 \in 0..(level_len - 1)
        BY <2>3, <1>1, <1>3
      <3>2. h = Parent(prev_level_start, prev_level_len, k - Len(nodes) - 1)
        BY <2>1, <3>1, <1>1, LevelBuilt
      <3> QED
        BY <3>1, <3>2, LevelBuilt, <1>4
    <2> QED
      BY <2>2, <2>3, <1>1
  <1>6. Len(items) <= Len(nodes)
    BY <1>1 DEF LevelsInv
  <1>7. \A i \in DOMAIN items' : nodes'[i] = hash_leaf(items'[i])
    BY <1>1, <1>6, LevelBuilt DEF NodesInv
  <1> QED
    BY <1>1, <1>5, <1>7, LevelBuilt DEF NodesInv

\* Building a level changes none of the earlier ones.
LEMMA ParentKept ==
    ASSUME NodesInv, LevelsInv, BuildLevel,
           NEW start \in Nat, NEW len \in Nat, start + len <= Len(nodes),
           NEW i \in Nat, 2 * i < len
    PROVE  Parent(start, len, i)' = Parent(start, len, i)
  <1>1. Len(nodes) \in Nat
    BY Zenon, ItemsType
  <1>2. At(start, 2 * i)' = At(start, 2 * i)
    <2>1. start + 2 * i + 1 \in 1..Len(nodes)
      BY <1>1
    <2> QED
      BY Zenon, <2>1, LevelBuilt DEF At
  <1>3. ASSUME 2 * i + 1 < len
        PROVE  At(start, 2 * i + 1)' = At(start, 2 * i + 1)
    <2>1. start + (2 * i + 1) + 1 \in 1..Len(nodes)
      BY <1>1, <1>3
    <2> QED
      BY Zenon, <2>1, LevelBuilt DEF At
  <1> QED
    BY Zenon, <1>2, <1>3 DEF Parent

\* The level that was last is complete now, and the new one is last.
LEMMA BuildLevels ==
    ASSUME NodesInv, LevelsInv, BuildLevel
    PROVE  LevelsInv'
  <1>1. Len(nodes) \in Nat /\ items' = items
    BY Zenon, ItemsType DEF BuildLevel
  <1>2. loop = "build" /\ loop' = "build"
        /\ prev_level_start' = level_start /\ prev_level_len' = level_len
        /\ level_start' = level_start + level_len /\ level_len' = next_level_len(level_len)
        /\ levels' = levels \cup {<<level_start, level_len>>}
    BY Zenon DEF BuildLevel
  <1>3. level_start = Len(nodes) /\ level_len = next_level_len(prev_level_len)
    BY Zenon, <1>2 DEF LevelsInv
  <1>4. level_len \in Nat \ {0} /\ Len(nodes') = Len(nodes) + level_len
        /\ prev_level_len \in Nat /\ prev_level_len > 1 /\ prev_level_start \in Nat
        /\ Len(nodes) = prev_level_start + prev_level_len
    BY Zenon, LevelBuilt
  <1>5. levels' \subseteq Nat \X (Nat \ {0}) /\ <<0, Len(items')>> \in levels'
    <2>1. levels \subseteq Nat \X (Nat \ {0}) /\ <<0, Len(items)>> \in levels
      BY Zenon DEF LevelsInv
    <2> QED
      BY <2>1, <1>1, <1>2, <1>3, <1>4
  <1>6. ASSUME NEW level \in levels
        PROVE  level[2] > 1 /\ Complete(level[1], level[2])'
    <2> DEFINE start == level[1]
               len == level[2]
               half == next_level_len(len)
    <2>1. start \in Nat /\ len \in Nat \ {0} /\ start + len <= Len(nodes)
      BY Zenon DEF LevelsInv
    <2>2. CASE level = <<prev_level_start, prev_level_len>>
      <3>1. start = prev_level_start /\ len = prev_level_len
        BY Zenon, <2>2
      <3>2. <<start + len, half>> \in levels'
        BY Zenon, <3>1, <1>2, <1>3, <1>4
      <3>3. ASSUME NEW i \in 0..(half - 1)
            PROVE  At(start + len, i)' = Parent(start, len, i)'
        <4>1. i \in Nat /\ 2 * i < len
          BY Zenon, <2>1, NextLevelLen
        <4>2. Parent(start, len, i)' = Parent(start, len, i)
          BY Zenon, <4>1, <2>1, ParentKept
        <4>3. nodes'[Len(nodes) + i + 1] = Parent(start, len, i)
          BY Zenon, <3>1, <1>3, LevelBuilt
        <4> QED
          BY Zenon, <4>2, <4>3, <3>1, <1>4 DEF At
      <3> QED
        BY Zenon, <3>1, <3>2, <3>3, <1>4 DEF Complete
    <2>3. CASE level # <<prev_level_start, prev_level_len>>
      <3>1. len > 1 /\ Complete(start, len)
        BY Zenon, <2>3, <1>2 DEF LevelsInv
      <3>2. <<start + len, half>> \in levels
            /\ \A i \in 0..(half - 1) : At(start + len, i) = Parent(start, len, i)
        BY <3>1, <2>1 DEF Complete
      <3>3. start + len + half <= Len(nodes) /\ half \in Nat
        BY Zenon, <3>2 DEF LevelsInv
      <3>4. ASSUME NEW i \in 0..(half - 1)
            PROVE  At(start + len, i)' = Parent(start, len, i)'
        <4>1. i \in Nat /\ 2 * i < len
          BY Zenon, <2>1, NextLevelLen
        <4>2. Parent(start, len, i)' = Parent(start, len, i)
          BY Zenon, <4>1, <2>1, ParentKept
        <4>3. (start + len) + i + 1 \in 1..Len(nodes)
          BY <3>3, <2>1, <1>1
        <4>4. At(start + len, i)' = At(start + len, i)
          BY Zenon, <4>3, LevelBuilt DEF At
        <4> QED
          BY Zenon, <4>2, <4>4, <3>2
      <3>5. <<start + len, half>> \in levels'
        BY Zenon, <3>2, <1>2
      <3> HIDE DEF start, len, half
      <3> QED
        BY Zenon, <3>1, <3>4, <3>5 DEF Complete, start, len, half
    <2> QED
      BY Zenon, <2>2, <2>3
  <1>7. \A level \in levels' :
          /\ level[1] + level[2] <= Len(nodes')
          /\ \/ level = <<prev_level_start', prev_level_len'>>
             \/ level[2] > 1 /\ Complete(level[1], level[2])'
    <2>1. \A level \in levels : level[1] + level[2] <= Len(nodes')
      BY <1>1, <1>4 DEF LevelsInv
    <2> QED
      BY <2>1, <1>2, <1>3, <1>4, <1>6
  <1>8. <<prev_level_start', prev_level_len'>> \in levels'
        /\ level_start' = prev_level_start' + prev_level_len' /\ level_start' = Len(nodes')
        /\ level_len' = next_level_len(prev_level_len')
    BY Zenon, <1>2, <1>3, <1>4
  <1> QED
    BY Zenon, <1>2, <1>5, <1>7, <1>8 DEF LevelsInv

\* A step that leaves the tree alone.
LEMMA TreeKept ==
    ASSUME NodesInv, LevelsInv, UNCHANGED tree, loop # "build", loop' # "build"
    PROVE  NodesInv' /\ LevelsInv'
  <1>1. items' = items /\ nodes' = nodes /\ levels' = levels
    BY Zenon DEF tree
  <1>2. NodesInv'
    BY <1>1 DEF NodesInv, Leaves
  <1>3. \A start, len : Complete(start, len)' <=> Complete(start, len)
    BY <1>1 DEF Complete, At, Parent
  <1>4. LevelsInv'
    BY Zenon, <1>1, <1>3 DEF LevelsInv
  <1> QED
    BY Zenon, <1>2, <1>4

\* While levels are built nothing is walked or verified.
LEMMA BuildStep ==
    ASSUME TreeInv, BuildLevel
    PROVE  TreeInv'
  <1>1. NodesInv /\ LevelsInv /\ ~verified
    BY Zenon DEF TreeInv, BuildLevel
  <1>2. loop' = "build" /\ verified' = verified
    BY Zenon DEF BuildLevel
  <1>3. NodesInv' /\ LevelsInv'
    BY Zenon, <1>1, BuildNodes, BuildLevels
  <1> QED
    BY Zenon, <1>1, <1>2, <1>3
       DEF TreeInv, WalkInv, VerifyInv, EveryProofVerifies, OnlyLeavesVerify

\* When nothing is left to build, the last level is the root.
LEMMA BuiltStep ==
    ASSUME TreeInv, Built
    PROVE  TreeInv'
  <1>1. NodesInv /\ LevelsInv /\ ~verified
    BY Zenon DEF TreeInv, Built
  <1>2. loop = "build" /\ loop' = "ready" /\ verified' = verified /\ level_len = 0
        /\ items' = items /\ nodes' = nodes /\ levels' = levels
    BY Zenon DEF Built, tree
  <1>3. NodesInv'
    BY <1>1, <1>2 DEF NodesInv, Leaves
  <1>4. \A start, len : Complete(start, len)' <=> Complete(start, len)
    BY <1>2 DEF Complete, At, Parent
  <1>5. prev_level_len \in Nat \ {0} /\ prev_level_start \in Nat
        /\ prev_level_start + prev_level_len = Len(nodes)
        /\ next_level_len(prev_level_len) = 0
    BY Zenon, <1>1, <1>2 DEF LevelsInv
  <1>6. prev_level_len = 1
    BY Zenon, <1>5, NextLevelLen
  <1>7. \A level \in levels : Complete(level[1], level[2])
    <2>1. Complete(prev_level_start, prev_level_len)
      BY Zenon, <1>5, <1>6 DEF Complete
    <2> QED
      BY <2>1, <1>1, <1>2 DEF LevelsInv
  <1>8. LevelsInv'
    BY Zenon, <1>1, <1>2, <1>4, <1>7 DEF LevelsInv
  <1> QED
    BY Zenon, <1>1, <1>2, <1>3, <1>8
       DEF TreeInv, WalkInv, VerifyInv, EveryProofVerifies, OnlyLeavesVerify

\* The walk starts at the leaf.
LEMMA FindStep ==
    ASSUME TreeInv, NEW i \in 0..(Len(items) - 1), find_path(i)
    PROVE  TreeInv'
  <1>1. NodesInv /\ LevelsInv /\ ~verified /\ UNCHANGED tree
        /\ loop = "ready" /\ loop' = "path" /\ verified' = verified
    BY Zenon DEF TreeInv, find_path
  <1>2. NodesInv' /\ LevelsInv'
    BY Zenon, <1>1, TreeKept
  <1>3. items' = items /\ levels' = levels /\ Len(items) \in Nat \ {0}
    BY Zenon, <1>1, ItemsType DEF tree
  <1>4. PathRight'
    BY <1>3 DEF PathRight, find_path
  <1>5. WalkInv'
    BY <1>1, <1>3, <1>4 DEF WalkInv, LevelsInv, find_path
  <1> QED
    BY Zenon, <1>1, <1>2, <1>5 DEF TreeInv, VerifyInv, EveryProofVerifies, OnlyLeavesVerify

\* A node and the sibling find_path takes for it hash to the node above.
LEMMA SiblingHashes ==
    ASSUME WalkUp, level_start \in Nat, level_len \in Nat, level_len > 1,
           node_index \in 0..(level_len - 1)
    PROVE  /\ lsib' = NoHash <=> rsib' # NoHash
           /\ Parent(level_start, level_len, node_index \div 2) =
                hash_sorted(At(level_start, node_index), Sibling(lsib', rsib'))
  <1>1. \A h : Some(h) # NoHash /\ Some(h)[1] = h
    BY Zenon DEF Some, NoHash
  <1>2. CASE node_index % 2 = 0
    <2> DEFINE i == IF node_index + 1 < level_len THEN node_index + 1 ELSE node_index
    <2>1. 2 * (node_index \div 2) = node_index
      BY <1>2
    <2>2. lsib' = NoHash /\ rsib' = Some(At(level_start, i))
      BY Zenon, <1>2 DEF WalkUp, RightSibling
    <2>3. Parent(level_start, level_len, node_index \div 2) =
            hash_sorted(At(level_start, node_index), At(level_start, i))
      BY Zenon, <2>1 DEF Parent
    <2> QED
      BY <2>2, <2>3, <1>1 DEF Sibling
  <1>3. CASE node_index % 2 # 0
    <2>1. 2 * (node_index \div 2) = node_index - 1
          /\ 2 * (node_index \div 2) + 1 = node_index /\ node_index < level_len
      BY <1>3
    <2>2. lsib' = Some(At(level_start, node_index - 1)) /\ rsib' = NoHash
      BY Zenon, <1>3 DEF WalkUp
    <2>3. Parent(level_start, level_len, node_index \div 2) =
            hash_sorted(At(level_start, node_index - 1), At(level_start, node_index))
      BY Zenon, <2>1 DEF Parent
    <2>4. lsib' # NoHash /\ Sibling(lsib', rsib') = At(level_start, node_index - 1)
      BY Zenon, <2>2, <1>1 DEF Sibling
    <2> QED
      BY Zenon, <2>2, <2>3, <2>4, SortedSymmetric
  <1> QED
    BY Zenon, <1>2, <1>3

\* What appending does to a sequence.
LEMMA Appended ==
    ASSUME NEW s, s \in Seq(Range(s)), NEW e
    PROVE  /\ Append(s, e) \in Seq(Range(Append(s, e)))
           /\ Len(s) \in Nat /\ Len(Append(s, e)) = Len(s) + 1
           /\ DOMAIN s = 1..Len(s) /\ DOMAIN Append(s, e) = 1..(Len(s) + 1)
           /\ \A k \in 1..Len(s) : Append(s, e)[k] = s[k]
           /\ Append(s, e)[Len(s) + 1] = e
  <1> DEFINE S == Range(s) \cup {e}
  <1>1. s \in Seq(S) /\ e \in S
    OBVIOUS
  <1> HIDE DEF S
  <1>2. Append(s, e) \in Seq(S)
    BY <1>1
  <1>3. Append(s, e) \in Seq(Range(Append(s, e)))
    BY Zenon, <1>2, SeqOfRange
  <1> QED
    BY <1>1, <1>2, <1>3

\* A level walked up: the path so far leads to the node on it.
LEMMA WalkPath ==
    ASSUME TreeInv, WalkUp
    PROVE  PathRight' /\ Reached(Len(path))' = At(level_start, node_index)
  <1>1. PathRight /\ node_index \in 0..(level_len - 1) /\ index' = index
        /\ items' = items /\ nodes' = nodes
    BY Zenon DEF TreeInv, WalkInv, WalkUp, tree
  <1>2. CASE lsib # NoHash \/ rsib # NoHash
    <2> DEFINE entry == ProofEntry(At(level_start, node_index), lsib, rsib)
    <2>1. path' = Append(path, entry)
      BY Zenon, <1>2 DEF WalkUp
    <2>2. entry.target = At(level_start, node_index)
          /\ entry.left = lsib /\ entry.right = rsib
      BY Zenon DEF ProofEntry
    <2>3. /\ lsib = NoHash <=> rsib # NoHash
          /\ entry.target = hash_sorted(Reached(Len(path)), Sibling(lsib, rsib))
      BY Zenon, <2>2, <1>2 DEF TreeInv, WalkInv, WalkUp
    <2> HIDE DEF entry
    <2>4. path \in Seq(Range(path))
      BY Zenon, <1>1 DEF PathRight
    <2>5. /\ path' \in Seq(Range(path')) /\ Len(path) \in Nat /\ Len(path') = Len(path) + 1
          /\ DOMAIN path = 1..Len(path) /\ DOMAIN path' = 1..(Len(path) + 1)
          /\ \A k \in 1..Len(path) : path'[k] = path[k]
          /\ path'[Len(path) + 1] = entry
      BY <2>1, <2>4, Appended
    <2>6. \A k \in 0..Len(path) : Reached(k)' = Reached(k)
      BY <2>5, <1>1 DEF Reached
    <2>7. Reached(Len(path))' = At(level_start, node_index)
      BY <2>2, <2>5 DEF Reached
    <2>8. ASSUME NEW k \in 1..(Len(path) + 1)
          PROVE  /\ path'[k].left = NoHash <=> path'[k].right # NoHash
                 /\ path'[k].target =
                      hash_sorted(Reached(k - 1)', Sibling(path'[k].left, path'[k].right))
      <3>1. Reached(k - 1)' = Reached(k - 1)
        BY <2>5, <2>6
      <3>2. CASE k \in 1..Len(path)
        BY Zenon, <3>1, <3>2, <2>5, <1>1 DEF PathRight
      <3>3. CASE k = Len(path) + 1
        BY <3>1, <3>3, <2>2, <2>3, <2>5
      <3> QED
        BY <3>2, <3>3, <2>5
    <2> QED
      BY Zenon, <2>5, <2>7, <2>8, <1>1 DEF PathRight
  <1>3. CASE lsib = NoHash /\ rsib = NoHash
    <2>1. path' = path
      BY Zenon, <1>3 DEF WalkUp
    <2>2. path = <<>> /\ level_start = 0 /\ node_index = index
      BY Zenon, <1>3 DEF TreeInv, WalkInv, WalkUp
    <2>3. PathRight'
      BY <2>1, <2>2, <1>1 DEF PathRight
    <2>4. Reached(Len(path))' = nodes[index + 1]
      BY Zenon, <2>1, <2>2, <1>1 DEF Reached
    <2> QED
      BY <2>2, <2>3, <2>4, <1>1 DEF At
  <1> QED
    BY Zenon, <1>2, <1>3

\* Above the level is the node that the path and the new sibling hash to; above
\* the last there is none, and the path has reached the root.
LEMMA WalkStep ==
    ASSUME TreeInv, WalkUp
    PROVE  TreeInv'
  <1>1. NodesInv /\ LevelsInv /\ ~verified /\ UNCHANGED tree
        /\ loop = "path" /\ loop' = "path" /\ verified' = verified
    BY Zenon DEF TreeInv, WalkUp
  <1>2. NodesInv' /\ LevelsInv'
    BY Zenon, <1>1, TreeKept
  <1>3. items' = items /\ nodes' = nodes /\ levels' = levels
    BY Zenon, <1>1 DEF tree
  <1>4. <<level_start, level_len>> \in levels /\ node_index \in 0..(level_len - 1)
        /\ level_len' = next_level_len(level_len) /\ level_start' = level_start + level_len
        /\ node_index' = node_index \div 2
    BY Zenon, <1>1 DEF TreeInv, WalkInv, WalkUp
  <1>5. level_start \in Nat /\ level_len \in Nat \ {0} /\ Complete(level_start, level_len)
    BY Zenon, <1>1, <1>4 DEF LevelsInv
  <1>6. PathRight' /\ Reached(Len(path))' = At(level_start, node_index)
    BY Zenon, WalkPath
  <1>7. CASE level_len = 1
    <2>1. level_len' = 0 /\ node_index = 0 /\ level_start + 1 = Len(nodes)
      BY <1>4, <1>5, <1>7, NextLevelLen DEF Complete
    <2>2. At(level_start, node_index) = get_root'
      BY <2>1, <1>3, <1>5 DEF At, get_root
    <2> QED
      BY <2>1, <2>2, <1>1, <1>2, <1>6
         DEF TreeInv, WalkInv, VerifyInv, EveryProofVerifies, OnlyLeavesVerify
  <1>8. CASE level_len > 1
    <2>1. <<level_start', level_len'>> \in levels'
          /\ \A i \in 0..(level_len' - 1) :
               At(level_start', i) = Parent(level_start, level_len, i)
      BY <1>3, <1>4, <1>5, <1>8 DEF Complete
    <2>2. level_len' \in Nat /\ level_len' > 0 /\ node_index' \in 0..(level_len' - 1)
      BY <1>4, <1>5, <1>8, NextLevelLen
    <2>3. At(level_start, node_index)' = Parent(level_start, level_len, node_index')
      BY Zenon, <2>1, <2>2, <1>3 DEF At
    <2>4. /\ lsib' = NoHash <=> rsib' # NoHash
          /\ Parent(level_start, level_len, node_index') =
               hash_sorted(At(level_start, node_index), Sibling(lsib', rsib'))
      BY Zenon, <1>4, <1>5, <1>8, SiblingHashes
    <2> QED
      BY Zenon, <2>1, <2>2, <2>3, <2>4, <1>1, <1>2, <1>6
         DEF TreeInv, WalkInv, VerifyInv, EveryProofVerifies, OnlyLeavesVerify
  <1> QED
    BY <1>5, <1>7, <1>8

\* verify starts at a hash that is a node only if the leaf is one.
LEMMA OwnStep ==
    ASSUME TreeInv, VerifyLeaf
    PROVE  TreeInv'
  <1>1. NodesInv /\ LevelsInv /\ ~verified /\ UNCHANGED tree
        /\ loop = "path" /\ loop' = "verify" /\ verified' = verified
    BY Zenon DEF TreeInv, VerifyLeaf, verify
  <1>2. NodesInv' /\ LevelsInv'
    BY Zenon, <1>1, TreeKept
  <1>3. items' = items /\ nodes' = nodes /\ path' = path /\ index' = index
    BY Zenon, <1>1 DEF tree, walk, VerifyLeaf, verify
  <1>4. PathRight /\ Reached(Len(path)) = get_root
    <2>1. ~(level_len > 0)
      BY DEF VerifyLeaf
    <2> QED
      BY Zenon, <1>1, <2>1 DEF TreeInv, WalkInv
  <1>5. PathRight' /\ Reached(Len(path))' = get_root'
    BY Zenon, <1>3, <1>4 DEF PathRight, Reached, get_root
  <1>6. proof' = get_proof(path') /\ at' = 0 /\ computed_hash' = hash_leaf(items[index + 1])
        /\ item' = items[index + 1]
    BY Zenon, <1>3 DEF VerifyLeaf, verify
  <1>7. index + 1 \in DOMAIN items
    <2>1. DOMAIN items = 1..Len(items) /\ Len(items) \in Nat
      BY Zenon, <1>1, ItemsType
    <2>2. index \in 0..(Len(items) - 1)
      BY Zenon, <1>4 DEF PathRight
    <2> QED
      BY <2>1, <2>2
  <1>8. computed_hash' = nodes[index + 1] /\ item' \in Range(items)
    <2>1. \A i \in DOMAIN items : nodes[i] = hash_leaf(items[i])
      BY <1>1 DEF NodesInv
    <2> QED
      BY Zenon, <2>1, <1>6, <1>7 DEF Range
  <1>9. computed_hash' = Reached(0)' /\ 0 \in 0..Len(path')
    BY <1>3, <1>5, <1>8 DEF Reached, PathRight
  <1>10. VerifyInv'
    BY Zenon, <1>3, <1>5, <1>6, <1>8, <1>9 DEF VerifyInv
  <1> QED
    BY Zenon, <1>1, <1>2, <1>10 DEF TreeInv, WalkInv, EveryProofVerifies, OnlyLeavesVerify

\* So does verify for a claim.
LEMMA ClaimStep ==
    ASSUME TreeInv, NEW elements, NEW data, VerifyClaim(elements, data)
    PROVE  TreeInv'
  <1>1. NodesInv /\ LevelsInv /\ ~verified /\ UNCHANGED tree
        /\ loop = "ready" /\ loop' = "verify" /\ verified' = verified /\ own' = FALSE
        /\ item' = data /\ computed_hash' = hash_leaf(data)
    BY Zenon DEF TreeInv, VerifyClaim, verify
  <1>2. NodesInv' /\ LevelsInv'
    BY Zenon, <1>1, TreeKept
  <1>3. items' = items /\ nodes' = nodes
    BY Zenon, <1>1 DEF tree
  <1>4. computed_hash' \in Range(nodes') => item' \in Range(items')
    BY Zenon, <1>1, <1>3, OnlyItems
  <1> QED
    BY Zenon, <1>1, <1>2, <1>4
       DEF TreeInv, WalkInv, VerifyInv, EveryProofVerifies, OnlyLeavesVerify

\* An element of a leaf's own proof leads to the next target; any element leads
\* from what is not a node to what is not a node.
LEMMA HashStep ==
    ASSUME TreeInv, HashElement
    PROVE  TreeInv'
  <1>1. NodesInv /\ LevelsInv /\ VerifyInv /\ ~verified /\ UNCHANGED tree /\ UNCHANGED walk
        /\ loop = "verify" /\ loop' = "verify" /\ verified' = verified /\ own' = own
        /\ item' = item /\ proof' = proof /\ at' = at + 1 /\ at < Len(proof)
        /\ computed_hash' = hash_sorted(computed_hash, proof[at + 1])
    BY Zenon DEF TreeInv, HashElement
  <1>2. NodesInv' /\ LevelsInv'
    BY Zenon, <1>1, TreeKept
  <1>3. items' = items /\ nodes' = nodes /\ path' = path /\ index' = index
    BY Zenon, <1>1 DEF tree, walk
  <1>4. computed_hash' \in Range(nodes') => item' \in Range(items')
    BY Zenon, <1>1, <1>3, NoWayIn DEF VerifyInv
  <1>5. ASSUME own
        PROVE  /\ PathRight' /\ Reached(Len(path))' = get_root' /\ proof' = get_proof(path)'
               /\ at' \in 0..Len(path') /\ computed_hash' = Reached(at)'
    <2>1. PathRight /\ Reached(Len(path)) = get_root /\ proof = get_proof(path)
          /\ at \in 0..Len(path) /\ computed_hash = Reached(at)
      BY Zenon, <1>1, <1>5 DEF VerifyInv
    <2>2. PathRight' /\ Reached(Len(path))' = get_root' /\ proof' = get_proof(path)'
      BY Zenon, <1>1, <1>3, <2>1 DEF PathRight, Reached, get_root
    <2>3. path \in Seq(Range(path)) /\ DOMAIN path = 1..Len(path) /\ Len(path) \in Nat
      BY <2>1 DEF PathRight
    <2>4. Len(proof) = Len(path)
      <3>1. DOMAIN get_proof(path) = 1..Len(path)
            /\ get_proof(path) = [k \in 1..Len(path) |-> get_proof(path)[k]]
        BY Zenon, <2>3 DEF get_proof
      <3> QED
        BY Zenon, <3>1, <2>1, <2>3, FunctionSeq
    <2>5. at + 1 \in 1..Len(path) /\ at = (at + 1) - 1
      BY <1>1, <2>1, <2>3, <2>4
    <2>6. proof[at + 1] = Sibling(path[at + 1].left, path[at + 1].right)
      BY Zenon, <2>1, <2>3, <2>5 DEF get_proof
    <2>7. path[at + 1].target = hash_sorted(Reached(at), proof[at + 1])
      BY Zenon, <2>1, <2>3, <2>5, <2>6 DEF PathRight
    <2>8. Reached(at)' = path[at + 1].target
      BY <1>1, <1>3, <2>5 DEF Reached
    <2> QED
      BY <1>1, <1>3, <2>1, <2>2, <2>5, <2>7, <2>8
  <1>6. VerifyInv'
    BY Zenon, <1>1, <1>4, <1>5 DEF VerifyInv
  <1> QED
    BY Zenon, <1>1, <1>2, <1>6 DEF TreeInv, WalkInv, EveryProofVerifies, OnlyLeavesVerify

\* The end of verify: a leaf's own proof has led to the root, and what has led
\* to the root is a leaf.
LEMMA CompareStep ==
    ASSUME TreeInv, Compare
    PROVE  TreeInv'
  <1>1. NodesInv /\ LevelsInv /\ VerifyInv /\ UNCHANGED tree
        /\ loop = "verify" /\ loop' = "returned" /\ own' = own /\ item' = item
        /\ at = Len(proof) /\ verified' = (computed_hash = get_root)
    BY Zenon DEF TreeInv, Compare, claim
  <1>2. NodesInv' /\ LevelsInv'
    BY Zenon, <1>1, TreeKept
  <1>3. items' = items
    BY Zenon, <1>1 DEF tree
  <1>4. get_root \in Range(nodes)
    <2>1. Len(items) <= Len(nodes) /\ Len(items) > 0 /\ Len(nodes) \in Nat
          /\ Len(items) \in Nat /\ DOMAIN nodes = 1..Len(nodes)
      BY <1>1, ItemsType DEF LevelsInv
    <2> QED
      BY <2>1 DEF get_root, Range
  <1>5. OnlyLeavesVerify'
    BY Zenon, <1>1, <1>3, <1>4 DEF OnlyLeavesVerify, VerifyInv
  <1>6. EveryProofVerifies'
    <2>1. SUFFICES ASSUME own PROVE computed_hash = get_root
      BY Zenon, <1>1 DEF EveryProofVerifies
    <2>2. Reached(Len(path)) = get_root /\ proof = get_proof(path)
          /\ computed_hash = Reached(at) /\ path \in Seq(Range(path))
      BY Zenon, <1>1, <2>1 DEF VerifyInv, PathRight
    <2>3. Len(path) \in Nat
          /\ get_proof(path) = [k \in 1..Len(path) |-> get_proof(path)[k]]
      BY <2>2 DEF get_proof
    <2>4. Len(proof) = Len(path)
      BY Zenon, <2>2, <2>3, FunctionSeq
    <2> QED
      BY Zenon, <1>1, <2>2, <2>4
  <1> QED
    BY Zenon, <1>1, <1>2, <1>5, <1>6 DEF TreeInv, WalkInv, VerifyInv

\* TreeInv is inductive.
LEMMA TreeStep == TreeInv /\ [TreeNext]_treeVars => TreeInv'
  <1> SUFFICES ASSUME TreeInv, [TreeNext]_treeVars PROVE TreeInv'
    BY Zenon
  <1>1. CASE BuildLevel
    BY Zenon, <1>1, BuildStep
  <1>2. CASE Built
    BY Zenon, <1>2, BuiltStep
  <1>3. ASSUME NEW i \in 0..(Len(items) - 1), find_path(i) PROVE TreeInv'
    BY Zenon, <1>3, FindStep
  <1>4. CASE WalkUp
    BY Zenon, <1>4, WalkStep
  <1>5. CASE VerifyLeaf
    BY Zenon, <1>5, OwnStep
  <1>6. ASSUME NEW elements, NEW data, VerifyClaim(elements, data) PROVE TreeInv'
    BY Zenon, <1>6, ClaimStep
  <1>7. CASE HashElement
    BY Zenon, <1>7, HashStep
  <1>8. CASE Compare
    BY Zenon, <1>8, CompareStep
  <1>9. CASE UNCHANGED treeVars
    <2>1. /\ UNCHANGED tree /\ UNCHANGED walk /\ UNCHANGED claim
          /\ loop' = loop /\ verified' = verified
      BY Zenon, <1>9 DEF treeVars
    <2>2. /\ UNCHANGED <<items, nodes, prev_level_start, prev_level_len, levels>>
          /\ UNCHANGED <<level_start, level_len, index, node_index, lsib, rsib, path>>
          /\ UNCHANGED <<item, proof, computed_hash, at, own>>
      BY Zenon, <2>1 DEF tree, walk, claim
    <2>3. NodesInv'
      BY <2>2 DEF TreeInv, NodesInv, Leaves
    <2>4. LevelsInv'
      <3>1. \A start, len : Complete(start, len)' <=> Complete(start, len)
        BY <2>2 DEF Complete, At, Parent
      <3> QED
        BY Zenon, <2>1, <2>2, <3>1 DEF TreeInv, LevelsInv
    <2>5. PathRight' <=> PathRight
      BY Zenon, <2>2 DEF PathRight, Reached
    <2>6. WalkInv' /\ VerifyInv'
      BY Zenon, <2>1, <2>2, <2>5 DEF TreeInv, WalkInv, VerifyInv, Reached, At, get_root
    <2>7. EveryProofVerifies' /\ OnlyLeavesVerify'
      BY Zenon, <2>1, <2>2 DEF TreeInv, EveryProofVerifies, OnlyLeavesVerify
    <2> QED
      BY Zenon, <2>1, <2>3, <2>4, <2>6, <2>7 DEF TreeInv
  <1> QED
    BY Zenon, <1>1, <1>2, <1>3, <1>4, <1>5, <1>6, <1>7, <1>8, <1>9 DEF TreeNext

\* For every list of items, every leaf's own proof verifies against the root.
THEOREM ProofsVerify == TreeSpec => []EveryProofVerifies
  <1>1. TreeInv => EveryProofVerifies
    BY Zenon DEF TreeInv
  <1> QED
    BY <1>1, TreeStarts, TreeStep, PTL DEF TreeSpec

\* Whatever proof is tried, of any length and with any elements, only an item of
\* the list verifies.
THEOREM RootCommits == TreeSpec => []OnlyLeavesVerify
  <1>1. TreeInv => OnlyLeavesVerify
    BY Zenon DEF TreeInv
  <1> QED
    BY <1>1, TreeStarts, TreeStep, PTL DEF TreeSpec

-----------------------------------------------------------------------------
(***************************************************************************)
(* Mass-send.                                                              *)
(***************************************************************************)

\* What appending a transaction does: the others are unchanged.
LEMMA TxAppended ==
    ASSUME txs \in Seq(Transaction), NEW to \in SUBSET List, txs' = Sent(to)
    PROVE  /\ txs' \in Seq(Transaction)
           /\ Len(txs) \in Nat /\ Len(txs') = Len(txs) + 1
           /\ \A s \in Signatures : s \in Signatures' /\ txs'[s] = txs[s]
           /\ Signatures' = Signatures \cup {Len(txs) + 1}
           /\ Len(txs) + 1 \notin Signatures
           /\ txs'[Len(txs) + 1].to = to
  <1> DEFINE t == [to |-> to, status |-> "pending"]
  <1>1. t \in Transaction
    BY Zenon DEF Transaction
  <1>2. txs' = Append(txs, t)
    BY Zenon DEF Sent
  <1>3. t.to = to
    BY Zenon
  <1> HIDE DEF t
  <1>4. /\ txs' \in Seq(Transaction) /\ Len(txs) \in Nat /\ Len(txs') = Len(txs) + 1
        /\ txs'[Len(txs) + 1] = t
        /\ \A s \in 1..Len(txs) : txs'[s] = txs[s]
    BY <1>1, <1>2
  <1> QED
    BY <1>3, <1>4 DEF Signatures

\* What a group of Chosen addresses is: some of the current group's.
LEMMA ChosenWithin ==
    ASSUME NEW to \in Chosen
    PROVE  to \subseteq current.to
  BY Zenon DEF Chosen

\* The initial state: nothing sent, nothing recorded.
LEMMA InitInv == Init => SendInv
  <1> SUFFICES ASSUME Init PROVE SendInv
    BY Zenon
  <1>1. Len(txs) = 0 /\ Signatures = {}
    BY DEF Init, Signatures
  <1>2. SendTypeOK
    BY DEF Init, SendTypeOK, NoSend, Group
  <1>3. WorkInv /\ CurrentInv
    BY Zenon DEF Init, WorkInv, CurrentInv
  <1>4. RecordInv
    BY Zenon, <1>1 DEF Init, RecordInv, Paying
  <1> QED
    BY Zenon, <1>2, <1>3, <1>4 DEF SendInv

\* A run begins: its groups hold the addresses without a record, or those
\* recorded under one signature.
LEMMA StartInv ==
    ASSUME SendInv, StartMassSend \/ StartResend
    PROVE  SendInv'
  <1>1. /\ file = sent_addresses /\ sent_addresses' = sent_addresses
        /\ pc = "idle" /\ step = "next" /\ step' = "next"
        /\ pc' \in {"mass", "resend"}
        /\ UNCHANGED <<file, current, sending, txs, excused>>
    BY Zenon DEF SendInv, SendTypeOK, RecordInv, StartMassSend, StartResend
  <1>2. Signatures' = Signatures /\ \A a \in List : Paying(a)' = Paying(a)
    BY Zenon, <1>1 DEF Signatures, Paying
  <1>3. RecordInv' /\ CurrentInv'
    BY Zenon, <1>1, <1>2 DEF SendInv, RecordInv, CurrentInv
  <1>4. ASSUME StartMassSend PROVE SendTypeOK' /\ WorkInv'
    <2>1. work' = Batches /\ pc' = "mass"
      BY Zenon, <1>4 DEF StartMassSend
    <2>2. \A g \in Batches : \E n \in {BatchNumber(a) : a \in ToSend} :
            g = [signature |-> None, to |-> {a \in ToSend : BatchNumber(a) = n}]
      BY Zenon DEF Batches
    <2>3. ToSend \subseteq List /\ \A a \in ToSend : sent_addresses[a] = None
      BY Zenon, <1>1 DEF ToSend
    <2>4. \A g \in Batches : /\ g \in Group /\ g.signature = None
                             /\ \A a \in g.to : sent_addresses[a] = None
      BY <2>2, <2>3 DEF Group
    <2>5. \A g, h \in Batches : g # h => g.to \cap h.to = {}
      BY <2>2
    <2>6. SendTypeOK'
      BY Zenon, <1>1, <2>1, <2>4 DEF SendInv, SendTypeOK
    <2>7. WorkInv'
      BY Zenon, <1>1, <2>1, <2>4, <2>5 DEF WorkInv, Untouched
    <2> QED
      BY Zenon, <2>6, <2>7
  <1>5. ASSUME StartResend PROVE SendTypeOK' /\ WorkInv'
    <2>1. work' = Groups /\ pc' = "resend"
      BY Zenon, <1>5 DEF StartResend
    <2>2. \A g \in Groups : \E s \in {file[a] : a \in List} \ {None} :
            g = [signature |-> s, to |-> {a \in List : file[a] = s}]
      BY Zenon DEF Groups
    <2>3. \A s \in {file[a] : a \in List} \ {None} : s \in Signatures /\ s \in Nat
      BY Zenon, <1>1 DEF SendInv, RecordInv, SendTypeOK
    <2>4. \A g \in Groups : /\ g \in Group /\ g.signature \in Signatures
                            /\ \A a \in g.to : sent_addresses[a] = g.signature
      BY <1>1, <2>2, <2>3 DEF Group
    <2>5. \A g, h \in Groups : g # h => g.to \cap h.to = {}
      BY <2>2
    <2>6. SendTypeOK'
      BY Zenon, <1>1, <2>1, <2>4 DEF SendInv, SendTypeOK
    <2>7. WorkInv'
      BY Zenon, <1>1, <1>2, <2>1, <2>4, <2>5 DEF WorkInv, Untouched
    <2> QED
      BY Zenon, <2>6, <2>7
  <1> QED
    BY Zenon, <1>3, <1>4, <1>5 DEF SendInv

\* The next batch of mass-send is taken up.
LEMMA NextBatchInv ==
    ASSUME SendInv, NEW g \in work, NextBatch(g)
    PROVE  SendInv'
  <1>1. /\ pc = "mass" /\ pc' = "mass" /\ step = "next" /\ step' = "send"
        /\ current' = g /\ work' = work \ {g}
        /\ UNCHANGED <<file, sent_addresses, sending, txs, excused>>
    BY Zenon DEF NextBatch
  <1>2. Signatures' = Signatures /\ \A a \in List : Paying(a)' = Paying(a)
    BY Zenon, <1>1 DEF Signatures, Paying
  <1>3. SendTypeOK'
    BY Zenon, <1>1 DEF SendInv, SendTypeOK
  <1>4. WorkInv'
    BY Zenon, <1>1, <1>2 DEF SendInv, WorkInv, Untouched
  <1>5. CurrentInv'
    BY Zenon, <1>1, <1>2 DEF SendInv, WorkInv, CurrentInv, Untouched
  <1>6. RecordInv'
    BY Zenon, <1>1, <1>2 DEF SendInv, RecordInv
  <1> QED
    BY Zenon, <1>3, <1>4, <1>5, <1>6 DEF SendInv

\* Resend asks for a status: what it pays again is dead, or excused from now on.
LEMMA CheckStatusInv ==
    ASSUME SendInv, NEW g \in work, CheckStatus(g)
    PROVE  SendInv'
  <1>1. /\ pc = "resend" /\ pc' = "resend" /\ step = "next"
        /\ work' = work \ {g}
        /\ UNCHANGED <<file, sent_addresses, sending, txs>>
    BY Zenon DEF CheckStatus
  <1>2. \/ /\ ShouldResend(g.signature) /\ step' = "send" /\ current' = g
           /\ excused' = IF txs[g.signature].status = "pending"
                         THEN excused \cup {g.signature} ELSE excused
        \/ step' = "next" /\ current' = current /\ excused' = excused
    BY Zenon, <1>1 DEF CheckStatus
  <1>3. Signatures' = Signatures /\ \A a \in List : Paying(a)' = Paying(a)
    BY Zenon, <1>1 DEF Signatures, Paying
  <1>4. excused \subseteq excused'
    BY Zenon, <1>2
  <1>5. SendTypeOK'
    BY Zenon, <1>1, <1>2 DEF SendInv, SendTypeOK
  <1>6. WorkInv'
    BY Zenon, <1>1, <1>2, <1>3 DEF SendInv, WorkInv, Untouched
  <1>7. CurrentInv'
    <2>1. g.signature \in Signatures /\ Untouched(g)
      BY Zenon, <1>1 DEF SendInv, WorkInv
    <2>2. CASE step' = "next"
      BY Zenon, <2>2 DEF CurrentInv
    <2>3. CASE step' = "send"
      <3>1. ShouldResend(g.signature) /\ current' = g
        BY Zenon, <1>2, <2>3
      <3>2. \/ g.signature \in excused'
            \/ txs[g.signature].status \in {"expired", "error"}
        BY Zenon, <1>2, <2>3, <3>1 DEF ShouldResend
      <3>3. Untouched(g)'
        BY Zenon, <1>1, <2>1 DEF Untouched
      <3> QED
        BY Zenon, <1>1, <1>3, <2>1, <2>3, <3>1, <3>2, <3>3 DEF CurrentInv, Untouched
    <2> QED
      BY Zenon, <1>2, <2>2, <2>3
  <1>8. RecordInv'
    BY Zenon, <1>1, <1>3, <1>4 DEF SendInv, RecordInv
  <1> QED
    BY Zenon, <1>5, <1>6, <1>7, <1>8 DEF SendInv

\* A transaction is appended while the current group is paid: for its addresses
\* nothing else pays, so the new one is the only one not excused.
LEMMA AppendInv ==
    ASSUME SendInv, step = "send",
           NEW to, to \in SUBSET List, to \subseteq current.to, txs' = Sent(to),
           UNCHANGED <<file, sent_addresses, pc, work>>,
           \/ /\ step' = "record" /\ sending' = [signature |-> Len(txs) + 1, to |-> to]
              /\ UNCHANGED <<current, excused>>
           \/ /\ step' = "next" /\ excused' = excused \cup {Len(txs) + 1}
              /\ current' = NoSend /\ UNCHANGED sending
    PROVE  SendInv'
  <1>1. /\ txs' \in Seq(Transaction)
        /\ Len(txs) \in Nat /\ Len(txs') = Len(txs) + 1
        /\ \A s \in Signatures : s \in Signatures' /\ txs'[s] = txs[s]
        /\ Signatures' = Signatures \cup {Len(txs) + 1}
        /\ Len(txs) + 1 \notin Signatures
        /\ txs'[Len(txs) + 1].to = to
    BY Zenon, TxAppended DEF SendInv, SendTypeOK
  <1>2. \A a \in List : \A s \in Paying(a)' \ {Len(txs) + 1} : s \in Paying(a)
    BY Zenon, <1>1 DEF Paying
  <1>3. excused \subseteq excused'
    BY Zenon
  <1>4. SendTypeOK'
    <2>1. sending' \in Group /\ current' \in Group
      BY <1>1 DEF SendInv, SendTypeOK, Group, NoSend
    <2> QED
      BY Zenon, <1>1, <2>1 DEF SendInv, SendTypeOK
  <1>5. WorkInv'
    BY Zenon, <1>1 DEF SendInv, WorkInv, Untouched
  <1>6. CurrentInv'
    <2>1. CASE step' = "next"
      BY Zenon, <2>1 DEF CurrentInv
    <2>2. CASE step' = "record"
      <3>1. /\ sending' = [signature |-> Len(txs) + 1, to |-> to]
            /\ current' = current /\ excused' = excused
        BY Zenon, <2>2
      <3>2. /\ sending'.to \subseteq current'.to
            /\ sending'.signature \in Signatures' /\ sending'.signature = Len(txs')
            /\ txs'[sending'.signature].to = sending'.to
        BY Zenon, <1>1, <3>1
      <3>3. /\ Untouched(current)'
            /\ \/ current.signature = None
               \/ current.signature \in Signatures' /\ current.signature \in excused
               \/ current.signature \in Signatures'
                  /\ txs'[current.signature].status \in {"expired", "error"}
        BY Zenon, <1>1, <3>1 DEF SendInv, CurrentInv, Untouched
      <3> QED
        BY Zenon, <2>2, <3>1, <3>2, <3>3 DEF CurrentInv
    <2> QED
      BY Zenon, <2>1, <2>2
  <1>7. RecordInv'
    <2>1. \A a \in List : sent_addresses[a] # None =>
            sent_addresses[a] \in Signatures' /\ a \in txs'[sent_addresses[a]].to
      BY Zenon, <1>1 DEF SendInv, RecordInv
    <2>2. ASSUME NEW a \in List, NEW s \in Paying(a)' \ excused'
          PROVE  s = sent_addresses[a] \/ (step' = "record" /\ s = sending'.signature)
      <3>1. CASE s = Len(txs) + 1
        BY <2>2, <3>1
      <3>2. CASE s # Len(txs) + 1
        BY Zenon, <1>2, <1>3, <2>2, <3>2 DEF SendInv, RecordInv
      <3> QED
        BY Zenon, <3>1, <3>2
    <2> QED
      BY Zenon, <2>1, <2>2 DEF SendInv, RecordInv
  <1> QED
    BY Zenon, <1>4, <1>5, <1>6, <1>7 DEF SendInv

\* Both outcomes of send_for_batch_address, a failure that sent nothing included.
LEMMA SendBatchInv ==
    ASSUME SendInv, SendBatch \/ SendFails
    PROVE  SendInv'
  <1>1. ASSUME NEW to \in Chosen
        PROVE  to \cap Pubkeys \in SUBSET List /\ to \cap Pubkeys \subseteq current.to
    BY Zenon, <1>1, ChosenWithin DEF SendInv, SendTypeOK, Group
  <1>2. CASE SendBatch
    <2>1. PICK to \in Chosen :
            /\ txs' = Sent(to \cap Pubkeys)
            /\ sending' = [signature |-> Len(txs) + 1, to |-> to \cap Pubkeys]
      BY Zenon, <1>2 DEF SendBatch
    <2> QED
      BY Zenon, <1>1, <1>2, <2>1, AppendInv DEF SendBatch
  <1>3. CASE SendFails /\ UNCHANGED <<txs, excused>>
    <2>1. /\ step' = "next" /\ current' = NoSend
          /\ UNCHANGED <<file, sent_addresses, pc, work, sending, txs, excused>>
          /\ step = "send"
      BY Zenon, <1>3 DEF SendFails
    <2>2. Signatures' = Signatures /\ \A a \in List : Paying(a)' = Paying(a)
      BY Zenon, <2>1 DEF Signatures, Paying
    <2>3. SendTypeOK'
      BY Zenon, <2>1 DEF SendInv, SendTypeOK, Group, NoSend
    <2>4. WorkInv' /\ CurrentInv'
      BY Zenon, <2>1, <2>2 DEF SendInv, WorkInv, CurrentInv, Untouched
    <2>5. RecordInv'
      BY Zenon, <2>1, <2>2 DEF SendInv, RecordInv
    <2> QED
      BY Zenon, <2>3, <2>4, <2>5 DEF SendInv
  <1>4. CASE SendFails /\ ~UNCHANGED <<txs, excused>>
    <2>1. PICK to \in Chosen : txs' = Sent(to \cap Pubkeys)
      BY Zenon, <1>4 DEF SendFails
    <2>2. excused' = excused \cup {Len(txs) + 1}
      BY Zenon, <1>4 DEF SendFails
    <2> QED
      BY Zenon, <1>1, <1>4, <2>1, <2>2, AppendInv DEF SendFails
  <1> QED
    BY Zenon, <1>2, <1>3, <1>4

\* The transaction just sent becomes the record of its addresses; what their old
\* record names is dead or excused.
LEMMA RecordInvStep ==
    ASSUME SendInv, Record
    PROVE  SendInv'
  <1>1. /\ step = "record" /\ step' = "write" /\ file' = Torn
        /\ sent_addresses' = [a \in List |-> IF a \in sending.to THEN sending.signature
                                             ELSE sent_addresses[a]]
        /\ UNCHANGED <<pc, work, current, sending, txs, excused>>
    BY Zenon DEF Record, Recorded
  <1>2. Signatures' = Signatures /\ \A a \in List : Paying(a)' = Paying(a)
    BY Zenon, <1>1 DEF Signatures, Paying
  <1>3. /\ sending.to \subseteq current.to /\ current.to \subseteq List
        /\ sending.signature \in Signatures
        /\ txs[sending.signature].to = sending.to
    BY Zenon, <1>1 DEF SendInv, CurrentInv, SendTypeOK, Group
  <1>4. SendTypeOK'
    BY Zenon, <1>1 DEF SendInv, SendTypeOK, Group
  <1>5. \A g \in work : g.to \subseteq List /\ g.to \cap sending.to = {}
    BY Zenon, <1>1, <1>3 DEF SendInv, WorkInv, SendTypeOK, Group
  <1>6. WorkInv'
    BY Zenon, <1>1, <1>2, <1>5 DEF SendInv, WorkInv, Untouched
  <1>7. CurrentInv'
    BY Zenon, <1>1 DEF CurrentInv
  <1>8. RecordInv'
    <2>1. \A a \in List : sent_addresses'[a] # None =>
            sent_addresses'[a] \in Signatures /\ a \in txs[sent_addresses'[a]].to
      BY Zenon, <1>1, <1>3 DEF SendInv, RecordInv
    <2>2. ASSUME NEW a \in List, NEW s \in Paying(a) \ excused
          PROVE  s = sent_addresses'[a]
      <3>1. /\ s \in Signatures /\ a \in txs[s].to
            /\ txs[s].status \in {"pending", "final"} /\ s \notin excused
        BY Zenon, <2>2 DEF Paying
      <3>2. s = sent_addresses[a] \/ s = sending.signature
        BY Zenon, <1>1, <2>2 DEF SendInv, RecordInv
      <3>3. CASE a \in sending.to
        <4>1. sent_addresses[a] = current.signature
          BY Zenon, <1>1, <1>3, <3>3 DEF SendInv, CurrentInv, Untouched
        <4>2. s # None
          BY <3>1, SendAssumption DEF Signatures
        <4>3. s # current.signature
          BY Zenon, <1>1, <3>1, <4>2 DEF SendInv, CurrentInv
        <4> QED
          BY Zenon, <1>1, <3>2, <3>3, <4>1, <4>3
      <3>4. CASE a \notin sending.to
        BY Zenon, <1>1, <1>3, <3>1, <3>2, <3>4
      <3> QED
        BY Zenon, <3>3, <3>4
    <2> QED
      BY Zenon, <1>1, <1>2, <2>1, <2>2 DEF RecordInv
  <1> QED
    BY Zenon, <1>4, <1>6, <1>7, <1>8 DEF SendInv

\* The file is written, the run ends, or the process is stopped: a transaction
\* that had no record yet is excused.
LEMMA LeaveInv ==
    ASSUME SendInv, WriteFile \/ EndRun \/ Crash
    PROVE  SendInv'
  <1>1. /\ step' = "next" /\ work' \subseteq work /\ UNCHANGED <<sent_addresses, txs>>
        /\ excused \subseteq excused'
        /\ pc' \in {"idle", pc} /\ (file' = file \/ file' = sent_addresses)
        /\ (current' = current \/ current' = NoSend)
        /\ (sending' = sending \/ sending' = NoSend)
        /\ step = "record" => sending.signature \in excused'
    BY Zenon DEF WriteFile, EndRun, Crash
  <1>2. Signatures' = Signatures /\ \A a \in List : Paying(a)' = Paying(a)
    BY Zenon, <1>1 DEF Signatures, Paying
  <1>3. SendTypeOK'
    BY <1>1 DEF SendInv, SendTypeOK, Group, NoSend
  <1>4. WorkInv'
    BY Zenon, <1>1, <1>2 DEF SendInv, WorkInv, Untouched
  <1>5. CurrentInv'
    BY Zenon, <1>1 DEF CurrentInv
  <1>6. RecordInv'
    BY Zenon, <1>1, <1>2 DEF SendInv, RecordInv
  <1> QED
    BY Zenon, <1>3, <1>4, <1>5, <1>6 DEF SendInv

\* The cluster settles a transaction: a dead one stays dead.
LEMMA SettleInv ==
    ASSUME SendInv, NEW s \in Signatures, Settle(s)
    PROVE  SendInv'
  <1>1. PICK outcome \in {"final", "error", "expired"} :
          txs' = [txs EXCEPT ![s].status = outcome]
    BY Zenon DEF Settle
  <1>2. /\ txs[s].status = "pending"
        /\ UNCHANGED <<file, sent_addresses, pc, step, work, current, sending, excused>>
    BY Zenon DEF Settle
  <1>3. /\ txs' \in Seq(Transaction) /\ Len(txs') = Len(txs)
        /\ \A t \in Signatures : txs'[t].to = txs[t].to
        /\ \A t \in Signatures \ {s} : txs'[t] = txs[t]
    <2>1. txs \in Seq(Transaction) /\ DOMAIN txs = Signatures /\ Len(txs) \in Nat
      BY DEF SendInv, SendTypeOK, Signatures
    <2>2. PICK old \in Transaction : old = txs[s]
      BY <2>1 DEF Signatures
    <2> DEFINE new == [old EXCEPT !.status = outcome]
    <2>3. new \in Transaction /\ new.to = old.to
      BY Zenon DEF Transaction
    <2>4. txs' = [txs EXCEPT ![s] = new]
      BY Zenon, <1>1, <2>2
    <2> HIDE DEF new
    <2> QED
      BY <2>1, <2>2, <2>3, <2>4 DEF Signatures
  <1>4. Signatures' = Signatures
    BY Zenon, <1>3 DEF Signatures
  <1>5. \A a \in List : Paying(a)' \subseteq Paying(a)
    BY Zenon, <1>2, <1>3, <1>4 DEF Paying
  <1>6. SendTypeOK'
    BY Zenon, <1>2, <1>3 DEF SendInv, SendTypeOK
  <1>7. WorkInv'
    BY Zenon, <1>2, <1>4 DEF SendInv, WorkInv, Untouched
  <1>8. CurrentInv'
    BY Zenon, <1>2, <1>3, <1>4 DEF SendInv, CurrentInv, Untouched
  <1>9. RecordInv'
    BY Zenon, <1>2, <1>3, <1>4, <1>5 DEF SendInv, RecordInv
  <1> QED
    BY Zenon, <1>6, <1>7, <1>8, <1>9 DEF SendInv

\* SendInv is inductive.
LEMMA SendInvStep == SendInv /\ [Next]_vars => SendInv'
  <1> SUFFICES ASSUME SendInv, [Next]_vars PROVE SendInv'
    BY Zenon
  <1>1. ASSUME UNCHANGED vars PROVE SendInv'
    <2>1. /\ file' = file /\ sent_addresses' = sent_addresses /\ pc' = pc
          /\ step' = step /\ work' = work /\ current' = current
          /\ sending' = sending /\ txs' = txs /\ excused' = excused
      BY Zenon, <1>1 DEF vars
    <2>2. Signatures' = Signatures /\ \A a \in List : Paying(a)' = Paying(a)
      BY Zenon, <2>1 DEF Signatures, Paying
    <2> QED
      BY <2>1, <2>2
      DEF SendInv, SendTypeOK, WorkInv, CurrentInv, RecordInv, Untouched
  <1>2. ASSUME Next PROVE SendInv'
    BY Zenon, <1>2, StartInv, NextBatchInv, CheckStatusInv, SendBatchInv, RecordInvStep,
       LeaveInv, SettleInv DEF Next, Command
  <1> QED
    BY Zenon, <1>1, <1>2

\* Along every behaviour of the two commands, over any number of runs.
THEOREM SendInvariant == Spec => []SendInv
  BY InitInv, SendInvStep, PTL DEF Spec

\* No address is paid twice, except through a transaction whose record was lost or
\* that resend replaced while it was pending: for every list and batch size, over
\* any number of runs, crashes and failed requests.
THEOREM NobodyPaidTwice == Spec => []PaidOnce
  <1>1. SendInv => PaidOnce
    <2> SUFFICES ASSUME SendInv, NEW a \in List,
                        NEW s \in Paying(a) \ excused, NEW t \in Paying(a) \ excused
                 PROVE  s = t
      BY Zenon DEF PaidOnce
    <2>1. CASE step # "record"
      BY Zenon, <2>1 DEF SendInv, RecordInv
    <2>2. CASE step = "record" /\ a \notin sending.to
      BY <2>2 DEF SendInv, RecordInv, CurrentInv, Paying
    <2>3. CASE step = "record" /\ a \in sending.to
      <3>1. sent_addresses[a] = current.signature
        BY Zenon, <2>3 DEF SendInv, CurrentInv, Untouched
      <3>2. current.signature \notin Paying(a) \ excused
        BY <2>3, SendAssumption DEF SendInv, CurrentInv, Paying, Signatures
      <3> QED
        BY Zenon, <2>3, <3>1, <3>2 DEF SendInv, RecordInv
    <2> QED
      BY Zenon, <2>1, <2>2, <2>3
  <1> QED
    BY <1>1, SendInvariant, PTL

\* The file always names, for an address, a transaction that pays it.
THEOREM FileNamesPayments == Spec => []RecordsTrue
  <1>1. SendInv => RecordsTrue
    BY Zenon DEF SendInv, RecordInv, RecordsTrue
  <1> QED
    BY <1>1, SendInvariant, PTL
-----------------------------------------------------------------------------
\* A shard is a number and none of the markers for other accounts.
LEMMA Kinds ==
    /\ \A k \in Shards : k \in Int /\ k # Absent /\ k # Other /\ k # Opaque
    /\ \A v \in Versions : v \in Int
    /\ Absent # Opaque /\ Absent # Other
  BY DeployAssumption DEF Shards, Versions

\* Before the first run nothing is deployed by it.
LEMMA InitDeployInv == DeployInit => DeployInv
  <1> SUFFICES ASSUME DeployInit PROVE DeployInv
    BY Zenon
  <1>1. DeployTypeOK
    <2>1. version \in Versions /\ runs \in 0..MaxRuns
      BY DeployAssumption DEF DeployInit, Versions
    <2> QED
      BY Zenon, <2>1 DEF DeployInit, DeployTypeOK, Account
  <1>2. DeployedSoFar
    BY Zenon DEF DeployInit, DeployedSoFar
  <1>3. InPlace
    BY Kinds DEF DeployInit, InPlace
  <1> QED
    BY Zenon, <1>1, <1>2, <1>3 DEF DeployInv

\* Every step keeps the types.
LEMMA TypeStep ==
    ASSUME DeployTypeOK, [DeployNext]_deployVars
    PROVE  DeployTypeOK'
  <1> USE DEF DeployTypeOK
  <1>1. CASE StartDeploy
    <2>1. 0 \in Versions /\ runs + 1 \in 0..MaxRuns
      BY <1>1, DeployAssumption DEF StartDeploy, Versions
    <2>2. version' \in Versions /\ phase' \in {"search", "deploy"}
      BY Zenon, <1>1, <2>1 DEF StartDeploy
    <2> QED
      BY Zenon, <1>1, <2>1, <2>2 DEF StartDeploy
  <1>2. CASE SearchVersion
    BY <1>2, DeployAssumption DEF SearchVersion, Versions
  <1>3. ASSUME NEW k \in Shards, DistributorExists(k) PROVE DeployTypeOK'
    BY Zenon, <1>3 DEF DistributorExists
  <1>4. ASSUME NEW k \in Shards, CreateDistributor(k) PROVE DeployTypeOK'
    <2>1. \A v \in Versions : chain'[v] = chain[v] \/ chain'[v] = k
      BY Zenon, <1>4 DEF CreateDistributor
    <2>2. chain' \in [Versions -> Account] /\ k # Absent
      BY Zenon, <1>4, Kinds DEF CreateDistributor, Account
    <2> QED
      BY Zenon, <1>4, <2>1, <2>2 DEF CreateDistributor
  <1>5. ASSUME NEW k \in Shards, SendOnly(k) \/ CreateFails(k) \/ RequestFails(k)
        PROVE  DeployTypeOK'
    BY <1>5 DEF SendOnly, CreateFails, RequestFails, Deploying
  <1>6. CASE DeployDone
    BY Zenon, <1>6 DEF DeployDone
  <1>7. ASSUME NEW tx \in pending, Late(tx) PROVE DeployTypeOK'
    <2>1. tx.version \in Versions /\ tx.shard \in Shards
      BY Zenon
    <2>2. \A v \in Versions :
            chain'[v] = chain[v] \/ (chain'[v] = tx.shard /\ v = tx.version)
      BY Zenon, <1>7, <2>1 DEF Late
    <2>3. chain' \in [Versions -> Account]
      BY Zenon, <1>7, <2>1 DEF Late, Account
    <2>4. tx.shard # Absent
      BY Zenon, <2>1, Kinds
    <2> QED
      BY Zenon, <1>7, <2>2, <2>3, <2>4 DEF Late
  <1>8. ASSUME NEW tx \in pending, Expire(tx) PROVE DeployTypeOK'
    BY Zenon, <1>8 DEF Expire
  <1>9. ASSUME NEW v \in Versions, Finalize(v) PROVE DeployTypeOK'
    BY Zenon, <1>9 DEF Finalize
  <1>10. CASE UNCHANGED deployVars
    BY Zenon, <1>10 DEF deployVars
  <1> QED
    BY Zenon, <1>1, <1>2, <1>3, <1>4, <1>5, <1>6, <1>7, <1>8, <1>9, <1>10
    DEF DeployNext, Script, Cluster

\* An account is never replaced: new-distributor looks first, and a late
\* transaction fails where there is one.
LEMMA AccountsStay ==
    ASSUME DeployTypeOK, [DeployNext]_deployVars, NEW v \in Versions, chain[v] # Absent
    PROVE  chain'[v] = chain[v]
  <1> USE DEF DeployTypeOK
  <1>1. ASSUME NEW k \in Shards, CreateDistributor(k) PROVE chain'[v] = chain[v]
    BY Zenon, <1>1 DEF CreateDistributor, Deploying
  <1>2. ASSUME NEW tx \in pending, Late(tx) PROVE chain'[v] = chain[v]
    BY Zenon, <1>2 DEF Late
  <1>3. \/ \E k \in Shards : CreateDistributor(k)
        \/ \E tx \in pending : Late(tx)
        \/ UNCHANGED chain
    BY Zenon DEF DeployNext, Script, Cluster, StartDeploy, SearchVersion, DeployDone,
           DistributorExists, SendOnly, CreateFails, RequestFails, Expire,
           Finalize, deployVars
  <1> QED
    BY Zenon, <1>1, <1>2, <1>3

\* What a verifying run has gone past stays deployed.
LEMMA DeployedStep ==
    ASSUME DeployTypeOK, DeployedSoFar, [DeployNext]_deployVars
    PROVE  DeployedSoFar'
  <1>0. \A v \in Versions : chain[v] # Absent => chain'[v] = chain[v]
    BY Zenon, AccountsStay
  <1>1. CASE StartDeploy
    BY Zenon, <1>1 DEF StartDeploy, DeployedSoFar
  <1>2. CASE SearchVersion
    BY Zenon, <1>2 DEF SearchVersion, DeployedSoFar
  <1>3. ASSUME NEW k \in Shards,
               \/ DistributorExists(k) \/ CreateDistributor(k) \/ SendOnly(k)
               \/ CreateFails(k) \/ RequestFails(k)
        PROVE  DeployedSoFar'
    <2>1. /\ phase = "deploy" /\ k \in left /\ version + k \in Versions
          /\ version' = version /\ skip_verify' = skip_verify
      BY Zenon, <1>3 DEF DistributorExists, CreateDistributor, SendOnly, CreateFails,
                  RequestFails, Deploying
    <2>2. \/ phase' = "panic"
          \/ /\ phase' = "deploy" /\ left' = left \ {k}
             /\ ~skip_verify => chain'[version + k] \in {k, Opaque}
      BY Zenon, <1>3, <2>1 DEF DistributorExists, CreateDistributor, SendOnly, CreateFails,
              RequestFails, check_distributor_onchain_matches, DeployTypeOK
    <2> QED
      BY Zenon, <1>0, <2>1, <2>2, Kinds DEF DeployedSoFar
  <1>4. CASE DeployDone
    BY Zenon, <1>4 DEF DeployDone, DeployedSoFar
  <1>5. CASE UNCHANGED <<skip_verify, phase, version, left>>
    BY Zenon, <1>0, <1>5, Kinds DEF DeployedSoFar
  <1>6. Cluster \/ UNCHANGED deployVars => UNCHANGED <<skip_verify, phase, version, left>>
    BY Zenon DEF Cluster, Late, Expire, Finalize, deployVars
  <1> QED
    BY Zenon, <1>1, <1>2, <1>3, <1>4, <1>5, <1>6 DEF DeployNext, Script

\* With a fixed start version every transaction and account of a shard is at
\* the shard's one version.
LEMMA InPlaceStep ==
    ASSUME DeployTypeOK, InPlace, [DeployNext]_deployVars
    PROVE  InPlace'
  <1> SUFFICES ASSUME start_version' # Absent \/ runs' <= 1
               PROVE  InPlace'
    BY ZenonT(30) DEF InPlace
  <1>0. /\ start_version' = start_version
        /\ runs \in Nat /\ (runs' = runs \/ runs' = runs + 1)
    BY DEF DeployTypeOK, DeployNext, Script, Cluster, StartDeploy, SearchVersion,
           DeployDone, DistributorExists, CreateDistributor, SendOnly, CreateFails,
           RequestFails, Late, Expire, Finalize, deployVars
  <1>1. start_version # Absent \/ runs <= 1
    BY <1>0
  <1>2. CASE StartDeploy
    BY <1>0, <1>1, <1>2 DEF StartDeploy, InPlace
  <1>3. CASE SearchVersion
    BY Zenon, <1>0, <1>1, <1>3 DEF SearchVersion, InPlace
  <1>4. ASSUME NEW k \in Shards,
               \/ DistributorExists(k) \/ CreateDistributor(k) \/ SendOnly(k)
               \/ CreateFails(k) \/ RequestFails(k)
        PROVE  InPlace'
    <2>1. /\ phase = "deploy" /\ version + k \in Versions
          /\ version' = version /\ runs' = runs
          /\ phase' \in {"deploy", "panic"}
      BY SMTT(30), <1>4 DEF DistributorExists, CreateDistributor, SendOnly, CreateFails,
                  RequestFails, Deploying
    <2>2. \A v \in Versions : chain'[v] = chain[v] \/ (v = version + k /\ chain'[v] = k)
      BY Zenon, <1>4, <2>1 DEF DistributorExists, CreateDistributor, SendOnly, CreateFails,
                  RequestFails, DeployTypeOK
    <2>3. pending' \subseteq pending \cup {[version |-> version + k, shard |-> k]}
      BY Zenon, <1>4 DEF DistributorExists, CreateDistributor, SendOnly, CreateFails,
                  RequestFails
    <2> QED
      BY <1>0, <1>1, <2>1, <2>2, <2>3 DEF InPlace
  <1>5. CASE DeployDone
    BY Zenon, <1>0, <1>1, <1>5 DEF DeployDone, InPlace
  <1>6. ASSUME NEW tx \in pending, Late(tx) PROVE InPlace'
    <2>1. tx.version \in Versions /\ tx.shard \in Shards
      BY Zenon DEF DeployTypeOK
    <2>2. \A v \in Versions :
            chain'[v] = chain[v] \/ (chain'[v] = tx.shard /\ v = tx.version)
      BY Zenon, <1>6, <2>1 DEF Late, DeployTypeOK
    <2> QED
      BY Zenon, <1>0, <1>1, <1>6, <2>1, <2>2 DEF Late, InPlace
  <1>7. ASSUME NEW tx \in pending, Expire(tx) PROVE InPlace'
    BY Zenon, <1>0, <1>1, <1>7 DEF Expire, InPlace
  <1>8. ASSUME NEW v \in Versions, Finalize(v) PROVE InPlace'
    BY Zenon, <1>0, <1>1, <1>8 DEF Finalize, InPlace
  <1>9. CASE UNCHANGED deployVars
    BY Zenon, <1>1, <1>9 DEF deployVars, InPlace
  <1> QED
    BY Zenon, <1>2, <1>3, <1>4, <1>5, <1>6, <1>7, <1>8, <1>9 DEF DeployNext, Script, Cluster

\* The invariant holds of every reachable state.
LEMMA DeployInvHolds == DeploySpec => []DeployInv
  <1>1. DeployInv /\ [DeployNext]_deployVars => DeployInv'
    BY Zenon, TypeStep, DeployedStep, InPlaceStep DEF DeployInv
  <1> QED
    BY <1>1, InitDeployInv, PTL DEF DeploySpec

\* Versions, shards and accounts stay in range.
THEOREM DeployTypes == DeploySpec => []DeployTypeOK
  <1>1. DeployInv => DeployTypeOK
    BY Zenon DEF DeployInv
  <1> QED
    BY <1>1, DeployInvHolds, PTL

\* A run of new-distributor that verifies and ends has deployed every shard.
THEOREM SuccessIsReal == DeploySpec => []DoneMeansDeployed
  <1>1. DeployInv => DoneMeansDeployed
    BY Zenon DEF DeployInv, DeployedSoFar, DoneMeansDeployed
  <1> QED
    BY <1>1, DeployInvHolds, PTL

\* With a fixed start version, re-runs never deploy a shard twice.
THEOREM ReRunsAreSafe == DeploySpec => []DeployedOnce
  <1>1. DeployInv => DeployedOnce
    BY Zenon DEF DeployInv, InPlace, DeployedOnce, Distributors
  <1> QED
    BY <1>1, DeployInvHolds, PTL
=============================================================================
