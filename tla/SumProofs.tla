----------------------------- MODULE SumProofs -----------------------------
(***************************************************************************)
(* Sums of functions over finite sets (SumFunction of the community        *)
(* modules), for the counters that must equal a sum over all claimants.    *)
(*                                                                         *)
(* A sum is a recursive function over the subsets of its index set.  The   *)
(* induction is by a minimal counterexample: among the subsets for which a *)
(* statement fails there is one whose proper subsets all satisfy it.       *)
(***************************************************************************)
EXTENDS Integers, FiniteSets, Functions, FiniteSetTheorems, TLAPS

\* Every non-empty collection of subsets of a finite set has a minimal member.
LEMMA Minimal ==
    ASSUME NEW S, IsFiniteSet(S), NEW T, T \subseteq SUBSET S, T # {}
    PROVE  \E m \in T : \A t \in T : t \subseteq m => t = m
  <1>1. SUBSET S = FiniteSubsetsOf(S)
    BY FS_Subset DEF FiniteSubsetsOf
  <1>2. IsWellFoundedOn(StrictSubsetOrdering(S), FiniteSubsetsOf(S))
    BY FS_StrictSubsetOrderingWellFounded
  <1>3. \E m \in T : \A t \in T : ~(<<t, m>> \in StrictSubsetOrdering(S))
    BY <1>1, <1>2, WFMin
  <1> QED
    BY Zenon, <1>3 DEF StrictSubsetOrdering

\* The element that the fold behind SumFunction takes out of a set first.
Pick(s) == CHOOSE x \in s : TRUE

\* The fold takes out a member.
LEMMA PickIn == ASSUME NEW s, s # {} PROVE Pick(s) \in s
  BY DEF Pick

\* g tabulates the sums of f over the subsets of S.
IsTable(g, f, S) ==
    g = [s \in SUBSET S |-> IF s = {} THEN 0 ELSE f[Pick(s)] + g[s \ {Pick(s)}]]

Table(f, S) == CHOOSE g : IsTable(g, f, S)

\* SumFunctionOnSet reads such a table.
LEMMA SumIsTable == 
    ASSUME NEW f, NEW S PROVE SumFunctionOnSet(f, S) = Table(f, S)[S]
  BY DEF SumFunctionOnSet, FoldFunctionOnSet, MapThenFoldSet, Table, IsTable, Pick

\* The tables of a set and of a subset of it agree where both are defined.
LEMMA TablesAgree ==
    ASSUME NEW f, NEW S, IsFiniteSet(S), NEW R, R \subseteq S,
           NEW g, IsTable(g, f, S), NEW h, IsTable(h, f, R)
    PROVE  \A s \in SUBSET R : g[s] = h[s]
  <1> DEFINE bad == {s \in SUBSET R : g[s] # h[s]}
  <1> SUFFICES ASSUME bad # {} PROVE FALSE
    OBVIOUS
  <1>1. IsFiniteSet(R)
    BY FS_Subset
  <1>0. bad \subseteq SUBSET R
    OBVIOUS
  <1>2. PICK m \in bad : \A t \in bad : t \subseteq m => t = m
    <2> HIDE DEF bad
    <2> QED
      BY <1>0, <1>1, Minimal
  <1>3. m # {}
    BY DEF IsTable
  <1>4. Pick(m) \in m
    BY <1>3, PickIn
  <1>5. g[m \ {Pick(m)}] = h[m \ {Pick(m)}]
    BY <1>2, <1>4
  <1>6. /\ g[m] = f[Pick(m)] + g[m \ {Pick(m)}]
        /\ h[m] = f[Pick(m)] + h[m \ {Pick(m)}]
    BY Zenon, <1>3 DEF IsTable
  <1> QED
    BY <1>5, <1>6

\* The table exists: the recursion of the fold is well founded.
LEMMA TableExists ==
    ASSUME NEW f, NEW S, IsFiniteSet(S)
    PROVE  IsTable(Table(f, S), f, S)
  <1> DEFINE bad == {s \in SUBSET S : ~IsTable(Table(f, s), f, s)}
  <1> SUFFICES ASSUME bad # {} PROVE FALSE
    OBVIOUS
  <1>0. bad \subseteq SUBSET S
    OBVIOUS
  <1>1. PICK m \in bad : \A t \in bad : t \subseteq m => t = m
    <2> HIDE DEF bad
    <2> QED
      BY <1>0, Minimal
  <1>2. \A s \in SUBSET m : IsFiniteSet(s) 
    BY FS_Subset
  <1>3. \A s \in SUBSET m : s # m => IsTable(Table(f, s), f, s)
    BY <1>1
  <1> DEFINE e(s) == IF s = {} THEN 0 ELSE f[Pick(s)] + Table(f, s \ {Pick(s)})[s \ {Pick(s)}]
             g == [s \in SUBSET m |-> e(s)]
  <1>4. ASSUME NEW s \in SUBSET m, s # {}
        PROVE  g[s \ {Pick(s)}] = Table(f, s \ {Pick(s)})[s \ {Pick(s)}]
    <2> DEFINE t == s \ {Pick(s)}
    <2>1. t \in SUBSET m /\ t # m /\ IsFiniteSet(t)
      BY <1>2, <1>4, PickIn
    <2>2. IsTable(Table(f, t), f, t)
      BY <2>1, <1>3
    <2>3. CASE t = {}
      BY Zenon, <2>1, <2>2, <2>3 DEF IsTable
    <2>4. CASE t # {}
      <3> DEFINE u == t \ {Pick(t)}
      <3>1. u \in SUBSET m /\ u # m /\ u \subseteq t
        BY <2>1, <2>4, PickIn
      <3>2. IsTable(Table(f, u), f, u)
        BY Zenon, <3>1, <1>3
      <3>3. Table(f, t)[u] = Table(f, u)[u]
        BY <2>1, <2>2, <3>1, <3>2, TablesAgree
      <3>4. Table(f, t)[t] = f[Pick(t)] + Table(f, t)[u]
        BY Zenon, <2>2, <2>4 DEF IsTable
      <3>5. g[t] = f[Pick(t)] + Table(f, u)[u]
        BY <2>1, <2>4
      <3> QED
        BY <3>3, <3>4, <3>5
    <2> QED
      BY <2>3, <2>4
  <1>5. \A s \in SUBSET m : e(s) = IF s = {} THEN 0 ELSE f[Pick(s)] + g[s \ {Pick(s)}]
    BY Zenon, <1>4
  <1>6. IsTable(g, f, m)
    BY Zenon, <1>5 DEF IsTable
  <1> HIDE DEF g
  <1>7. IsTable(Table(f, m), f, m)
    BY <1>6 DEF Table
  <1> QED
    BY <1>1, <1>7

-----------------------------------------------------------------------------
(***************************************************************************)
(* Sums over a subset of the domain.                                       *)
(***************************************************************************)

\* The empty sum.
LEMMA SumEmpty ==
    ASSUME NEW f
    PROVE  SumFunctionOnSet(f, {}) = 0
  <1>1. IsTable(Table(f, {}), f, {})
    BY TableExists, FS_EmptySet
  <1> QED
    BY Zenon, <1>1, SumIsTable DEF IsTable

\* The equation of the fold.
LEMMA SumPicked ==
    ASSUME NEW f, NEW S, IsFiniteSet(S), S # {}
    PROVE  SumFunctionOnSet(f, S)
             = f[Pick(S)] + SumFunctionOnSet(f, S \ {Pick(S)})
  <1> DEFINE R == S \ {Pick(S)}
  <1>1. R \subseteq S /\ IsFiniteSet(R)
    BY FS_Subset
  <1>2. IsTable(Table(f, S), f, S) /\ IsTable(Table(f, R), f, R)
    BY <1>1, TableExists
  <1>3. Table(f, S)[R] = Table(f, R)[R]
    BY <1>1, <1>2, TablesAgree
  <1>4. Table(f, S)[S] = f[Pick(S)] + Table(f, S)[R]
    BY Zenon, <1>2 DEF IsTable
  <1> QED
    BY <1>3, <1>4, SumIsTable

\* A sum of integers is an integer.
LEMMA SumType ==
    ASSUME NEW f, NEW S, IsFiniteSet(S), \A x \in S : f[x] \in Int
    PROVE  SumFunctionOnSet(f, S) \in Int
  <1> DEFINE bad == {s \in SUBSET S : SumFunctionOnSet(f, s) \notin Int}
  <1> SUFFICES ASSUME bad # {} PROVE FALSE
    OBVIOUS
  <1>1. bad \subseteq SUBSET S
    OBVIOUS
  <1>2. PICK m \in bad : \A t \in bad : t \subseteq m => t = m
    <2> HIDE DEF bad
    <2> QED
      BY <1>1, Minimal
  <1>3. m # {} /\ IsFiniteSet(m)
    <2>1. {} \notin bad
      BY SumEmpty
    <2> QED
      BY Zenon, <2>1, FS_Subset
  <1>4. Pick(m) \in m /\ m \ {Pick(m)} \notin bad
    BY <1>2, <1>3, PickIn
  <1>5. SumFunctionOnSet(f, m) = f[Pick(m)] + SumFunctionOnSet(f, m \ {Pick(m)})
    BY <1>3, SumPicked
  <1> QED
    BY <1>4, <1>5

\* Any member may be taken out first.
LEMMA SumRemove ==
    ASSUME NEW f, NEW S, IsFiniteSet(S), \A y \in S : f[y] \in Int, NEW x \in S
    PROVE  SumFunctionOnSet(f, S) = f[x] + SumFunctionOnSet(f, S \ {x})
  <1> DEFINE Sum(s) == SumFunctionOnSet(f, s)
             bad == {s \in SUBSET S : \E y \in s : Sum(s) # f[y] + Sum(s \ {y})}
  <1> SUFFICES ASSUME bad # {} PROVE FALSE
    BY Zenon
  <1>1. bad \subseteq SUBSET S
    OBVIOUS
  <1>2. PICK m \in bad : \A t \in bad : t \subseteq m => t = m
    <2> HIDE DEF bad
    <2> QED
      BY <1>1, Minimal
  <1>3. PICK y \in m : Sum(m) # f[y] + Sum(m \ {y})
    OBVIOUS
  <1>4. \A s \in SUBSET m : IsFiniteSet(s) /\ Sum(s) \in Int
    <2> TAKE s \in SUBSET m
    <2>1. IsFiniteSet(s) /\ \A z \in s : f[z] \in Int
      BY FS_Subset
    <2> QED
      BY <2>1, SumType
  <1> DEFINE p == Pick(m)
             rest == (m \ {p}) \ {y}
  <1>5. p \in m
    BY PickIn
  <1>6. Sum(m) = f[p] + Sum(m \ {p})
    BY <1>3, <1>4, SumPicked
  <1> HIDE DEF p
  <1>7. y # p
    BY Zenon, <1>3, <1>6
  <1>8. m \ {p} \notin bad /\ m \ {y} \notin bad
    BY Zenon, <1>2, <1>3, <1>5
  <1>9. Sum(m \ {p}) = f[y] + Sum(rest)
    BY Zenon, <1>3, <1>7, <1>8
  <1>10. Sum(m \ {y}) = f[p] + Sum(rest)
    <2>1. Sum(m \ {y}) = f[p] + Sum((m \ {y}) \ {p})
      BY Zenon, <1>5, <1>7, <1>8
    <2>2. (m \ {y}) \ {p} = rest
      OBVIOUS
    <2> QED
      BY Zenon, <2>1, <2>2
  <1>11. f[y] \in Int /\ f[p] \in Int /\ Sum(rest) \in Int
    BY <1>3, <1>4, <1>5
  <1> HIDE DEF Sum, rest
  <1> QED
    BY <1>3, <1>6, <1>9, <1>10, <1>11

\* A sum grows with its terms.
LEMMA SumAtMost ==
    ASSUME NEW f, NEW g, NEW S, IsFiniteSet(S),
           \A x \in S : f[x] \in Int /\ g[x] \in Int /\ f[x] <= g[x]
    PROVE  SumFunctionOnSet(f, S) <= SumFunctionOnSet(g, S)
  <1> DEFINE bad == {s \in SUBSET S : ~(SumFunctionOnSet(f, s) <= SumFunctionOnSet(g, s))}
  <1> SUFFICES ASSUME bad # {} PROVE FALSE
    OBVIOUS
  <1>1. bad \subseteq SUBSET S
    OBVIOUS
  <1>2. PICK m \in bad : \A t \in bad : t \subseteq m => t = m
    <2> HIDE DEF bad
    <2> QED
      BY <1>1, Minimal
  <1>3. m # {} /\ IsFiniteSet(m)
    <2>1. {} \notin bad
      BY SumEmpty
    <2> QED
      BY Zenon, <2>1, FS_Subset
  <1> DEFINE p == Pick(m)
             rest == m \ {p}
  <1>4. p \in m /\ rest \notin bad /\ IsFiniteSet(rest)
    BY <1>2, <1>3, PickIn, FS_Subset
  <1>5. /\ SumFunctionOnSet(f, m) = f[p] + SumFunctionOnSet(f, rest)
        /\ SumFunctionOnSet(g, m) = g[p] + SumFunctionOnSet(g, rest)
    BY <1>3, SumPicked
  <1>6. SumFunctionOnSet(f, rest) \in Int /\ SumFunctionOnSet(g, rest) \in Int
    <2>1. \A x \in rest : f[x] \in Int /\ g[x] \in Int
      OBVIOUS
    <2> QED
      BY <1>4, <2>1, SumType
  <1>7. SumFunctionOnSet(f, rest) <= SumFunctionOnSet(g, rest)
    BY <1>4
  <1>8. f[p] \in Int /\ g[p] \in Int /\ f[p] <= g[p]
    BY <1>4
  <1> HIDE DEF p, rest
  <1>9. SumFunctionOnSet(f, m) <= SumFunctionOnSet(g, m)
    BY <1>5, <1>6, <1>7, <1>8
  <1> QED
    BY <1>9

\* Equal terms give equal sums.
LEMMA SumSame ==
    ASSUME NEW f, NEW g, NEW S, IsFiniteSet(S),
           \A x \in S : f[x] \in Int /\ f[x] = g[x]
    PROVE  SumFunctionOnSet(f, S) = SumFunctionOnSet(g, S)
  <1>1. /\ SumFunctionOnSet(f, S) <= SumFunctionOnSet(g, S)
        /\ SumFunctionOnSet(g, S) <= SumFunctionOnSet(f, S)
    BY SumAtMost
  <1>2. SumFunctionOnSet(f, S) \in Int /\ SumFunctionOnSet(g, S) \in Int
    BY SumType
  <1> QED
    BY <1>1, <1>2

\* Terms that are zero do not count.
LEMMA SumSupport ==
    ASSUME NEW f, NEW S, IsFiniteSet(S), NEW T, T \subseteq S,
           \A x \in S : f[x] \in Int, \A x \in S \ T : f[x] = 0
    PROVE  SumFunctionOnSet(f, S) = SumFunctionOnSet(f, T)
  <1> DEFINE bad == {s \in SUBSET S :
                       T \subseteq s /\ SumFunctionOnSet(f, s) # SumFunctionOnSet(f, T)}
  <1> SUFFICES ASSUME bad # {} PROVE FALSE
    OBVIOUS
  <1>1. bad \subseteq SUBSET S
    OBVIOUS
  <1>2. PICK m \in bad : \A t \in bad : t \subseteq m => t = m
    <2> HIDE DEF bad
    <2> QED
      BY <1>1, Minimal
  <1>3. PICK x \in m \ T : TRUE
    OBVIOUS
  <1>4. IsFiniteSet(m) /\ IsFiniteSet(m \ {x}) /\ \A y \in m : f[y] \in Int
    BY FS_Subset
  <1>5. SumFunctionOnSet(f, m) = f[x] + SumFunctionOnSet(f, m \ {x})
    BY <1>4, SumRemove
  <1>6. SumFunctionOnSet(f, m \ {x}) \in Int
    BY <1>4, SumType
  <1>7. m \ {x} \notin bad
    BY <1>2, <1>3
  <1>8. f[x] = 0
    BY <1>3
  <1> QED
    BY <1>3, <1>5, <1>6, <1>7, <1>8
-----------------------------------------------------------------------------
(***************************************************************************)
(* Sums over the whole domain.                                             *)
(***************************************************************************)

\* The sum of an integer function is an integer, and is read off its domain.
LEMMA SumInt ==
    ASSUME NEW S, IsFiniteSet(S), NEW f \in [S -> Int]
    PROVE  SumFunction(f) \in Int /\ SumFunction(f) = SumFunctionOnSet(f, S)
  BY SumType DEF SumFunction

\* A function that is zero everywhere adds up to zero.
LEMMA SumOfZeros ==
    ASSUME NEW S, IsFiniteSet(S), NEW f \in [S -> Int], \A x \in S : f[x] = 0
    PROVE  SumFunction(f) = 0
  <1>1. SumFunctionOnSet(f, S) = SumFunctionOnSet(f, {})
    BY SumSupport
  <1> QED
    BY <1>1, SumEmpty, SumInt

\* Changing one term changes the sum by the difference.
LEMMA SumChange ==
    ASSUME NEW S, IsFiniteSet(S), NEW f \in [S -> Int], NEW g \in [S -> Int],
           NEW x \in S, \A y \in S \ {x} : g[y] = f[y]
    PROVE  SumFunction(g) = SumFunction(f) - f[x] + g[x]
  <1> DEFINE rest == S \ {x}
  <1>1. /\ SumFunctionOnSet(f, S) = f[x] + SumFunctionOnSet(f, rest)
        /\ SumFunctionOnSet(g, S) = g[x] + SumFunctionOnSet(g, rest)
    BY SumRemove
  <1>2. IsFiniteSet(rest) /\ \A y \in rest : f[y] \in Int /\ f[y] = g[y]
    BY FS_Subset
  <1>3. SumFunctionOnSet(f, rest) = SumFunctionOnSet(g, rest)
    BY <1>2, SumSame
  <1>4. SumFunctionOnSet(f, rest) \in Int
    BY <1>2, SumType
  <1>5. f[x] \in Int /\ g[x] \in Int
    OBVIOUS
  <1>6. SumFunction(f) = SumFunctionOnSet(f, S) /\ SumFunction(g) = SumFunctionOnSet(g, S)
    BY DEF SumFunction
  <1> HIDE DEF rest
  <1> QED
    BY <1>1, <1>3, <1>4, <1>5, <1>6

\* A sum of naturals is a natural, and no term exceeds it.
LEMMA SumNat ==
    ASSUME NEW S, IsFiniteSet(S), NEW f \in [S -> Nat]
    PROVE  /\ SumFunction(f) \in Nat
           /\ \A x \in S : f[x] <= SumFunction(f)
  <1> DEFINE zero == [x \in S |-> 0]
  <1>1. ASSUME NEW T \in SUBSET S
        PROVE  SumFunctionOnSet(f, T) \in Nat
    <2>1. IsFiniteSet(T)
      BY FS_Subset
    <2>2. SumFunctionOnSet(f, T) \in Int
      BY <2>1, SumType
    <2>3. SumFunctionOnSet(zero, T) = 0
      <3>1. SumFunctionOnSet(zero, T) = SumFunctionOnSet(zero, {})
        BY <2>1, SumSupport
      <3> QED
        BY <3>1, SumEmpty
    <2>4. SumFunctionOnSet(zero, T) <= SumFunctionOnSet(f, T)
      BY <2>1, SumAtMost
    <2> QED
      BY <2>2, <2>3, <2>4
  <1>2. SumFunction(f) = SumFunctionOnSet(f, S)
    BY SumInt
  <1>3. ASSUME NEW x \in S
        PROVE  f[x] <= SumFunction(f)
    <2>1. SumFunctionOnSet(f, S) = f[x] + SumFunctionOnSet(f, S \ {x})
      BY SumRemove
    <2>2. SumFunctionOnSet(f, S \ {x}) \in Nat
      BY <1>1
    <2> QED
      BY <1>2, <2>1, <2>2
  <1> QED
    BY <1>1, <1>2, <1>3

\* Leaving one index out subtracts its term.
LEMMA SumWithout ==
    ASSUME NEW S, IsFiniteSet(S), NEW f \in [S -> Int], NEW x \in S
    PROVE  SumFunction([y \in S \ {x} |-> f[y]]) = SumFunction(f) - f[x]
  <1> DEFINE rest == S \ {x}
             g == [y \in rest |-> f[y]]
  <1>1. IsFiniteSet(rest) /\ \A y \in rest : g[y] \in Int /\ g[y] = f[y]
    BY FS_Subset
  <1>2. SumFunction(g) = SumFunctionOnSet(g, rest)
    BY <1>1, SumInt
  <1>3. SumFunctionOnSet(g, rest) = SumFunctionOnSet(f, rest)
    BY <1>1, SumSame
  <1>4. SumFunctionOnSet(f, S) = f[x] + SumFunctionOnSet(f, rest)
    BY SumRemove
  <1>5. SumFunctionOnSet(f, rest) \in Int /\ f[x] \in Int
    BY <1>1, SumType
  <1>6. SumFunction(f) = SumFunctionOnSet(f, S)
    BY SumInt
  <1> HIDE DEF rest
  <1>7. SumFunction(g) = SumFunction(f) - f[x]
    BY <1>2, <1>3, <1>4, <1>5, <1>6
  <1> QED
    BY <1>7 DEF rest

\* The sum of the termwise sums is the sum of the sums.
LEMMA SumAdd ==
    ASSUME NEW S, IsFiniteSet(S), NEW f \in [S -> Int], NEW g \in [S -> Int]
    PROVE  SumFunction([x \in S |-> f[x] + g[x]]) = SumFunction(f) + SumFunction(g)
  <1> DEFINE h == [x \in S |-> f[x] + g[x]]
             Sum(k, s) == SumFunctionOnSet(k, s)
             bad == {s \in SUBSET S : Sum(h, s) # Sum(f, s) + Sum(g, s)}
  <1>1. bad \subseteq SUBSET S
    OBVIOUS
  <1>2. h \in [S -> Int]
    OBVIOUS
  <1>3. bad = {}
    <2> SUFFICES ASSUME bad # {} PROVE FALSE
      OBVIOUS
    <2>1. PICK m \in bad : \A t \in bad : t \subseteq m => t = m
      <3> HIDE DEF bad
      <3> QED
        BY <1>1, Minimal
    <2>2. m # {} /\ IsFiniteSet(m)
      <3>1. {} \notin bad
        BY SumEmpty
      <3>2. m # {} /\ m \subseteq S
        <4> HIDE DEF bad
        <4> QED
          BY Zenon, <1>1, <3>1
      <3> QED
        BY <3>2, FS_Subset
    <2> DEFINE p == Pick(m)
               rest == m \ {p}
    <2>3. p \in m /\ rest \notin bad /\ IsFiniteSet(rest)
      BY <2>1, <2>2, PickIn, FS_Subset
    <2>4. /\ Sum(f, m) = f[p] + Sum(f, rest)
          /\ Sum(g, m) = g[p] + Sum(g, rest)
          /\ Sum(h, m) = h[p] + Sum(h, rest)
      BY <2>2, SumPicked
    <2>5. Sum(f, rest) \in Int /\ Sum(g, rest) \in Int
      <3>1. \A x \in rest : f[x] \in Int /\ g[x] \in Int
        OBVIOUS
      <3> QED
        BY <2>3, <3>1, SumType
    <2>6. Sum(h, rest) = Sum(f, rest) + Sum(g, rest)
      BY <2>3
    <2>7. f[p] \in Int /\ g[p] \in Int /\ h[p] = f[p] + g[p]
      BY <2>3
    <2> HIDE DEF p, rest
    <2>8. Sum(h, m) = Sum(f, m) + Sum(g, m)
      BY <2>4, <2>5, <2>6, <2>7
    <2> QED
      BY <2>8
  <1>4. Sum(h, S) = Sum(f, S) + Sum(g, S)
    BY <1>3
  <1> QED
    BY <1>2, <1>4, SumInt

\* The sum of a function that is zero everywhere but at x.
LEMMA SumOfOne ==
    ASSUME NEW S, IsFiniteSet(S), NEW f \in [S -> Int], NEW x \in S,
           \A y \in S \ {x} : f[y] = 0
    PROVE  SumFunction(f) = f[x]
  <1> DEFINE rest == S \ {x}
             g == [y \in rest |-> f[y]]
  <1>1. SumFunction(g) = SumFunction(f) - f[x]
    BY SumWithout
  <1>2. IsFiniteSet(rest) /\ g \in [rest -> Int] /\ \A y \in rest : g[y] = 0
    BY FS_Subset
  <1> HIDE DEF rest, g
  <1>3. SumFunction(g) = 0
    BY <1>2, SumOfZeros
  <1>4. SumFunction(f) \in Int /\ f[x] \in Int
    BY SumInt
  <1> QED
    BY <1>1, <1>3, <1>4
=============================================================================
