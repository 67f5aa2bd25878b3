---------------------------- MODULE CreateProofs ----------------------------
(***************************************************************************)
(* create-merkle-tree and the aggregation before it, for every CSV, every  *)
(* set of markets and all options: no token is lost or made between the    *)
(* rows and the tree files, and the files are well formed (CreateInv,      *)
(* AggregateInv).                                                          *)
(***************************************************************************)
EXTENDS Aggregate, SumProofs

-----------------------------------------------------------------------------
(***************************************************************************)
(* Sums over sequences.                                                    *)
(***************************************************************************)

\* A sum does not depend on how its terms are named.
LEMMA SumRenamed ==
    ASSUME NEW S, IsFiniteSet(S), NEW T, IsFiniteSet(T), NEW f, NEW g, NEW b \in [S -> T],
           \A x \in S : f[x] \in Int /\ f[x] = g[b[x]],
           \A x, y \in S : b[x] = b[y] => x = y
    PROVE  SumFunctionOnSet(f, S) = SumFunctionOnSet(g, {b[x] : x \in S})
  <1> DEFINE Image(s) == {b[x] : x \in s}
             bad == {s \in SUBSET S :
                       SumFunctionOnSet(f, s) # SumFunctionOnSet(g, Image(s))}
  <1> SUFFICES ASSUME bad # {} PROVE FALSE
    BY Zenon
  <1>1. bad \subseteq SUBSET S
    OBVIOUS
  <1>2. PICK m \in bad : \A t \in bad : t \subseteq m => t = m
    <2> HIDE DEF bad
    <2> QED
      BY <1>1, Minimal
  <1>3. m # {}
    <2>1. Image({}) = {}
      OBVIOUS
    <2>2. {} \notin bad
      BY <2>1, SumEmpty
    <2> QED
      BY <2>2
  <1>4. PICK x \in m : TRUE
    BY <1>3
  <1> DEFINE rest == m \ {x}
  <1>5. /\ Image(m) \subseteq T /\ b[x] \in Image(m)
        /\ Image(m) \ {b[x]} = Image(rest)
        /\ \A y \in Image(m) : g[y] \in Int
    OBVIOUS
  <1>6. IsFiniteSet(m) /\ IsFiniteSet(Image(m)) /\ \A y \in m : f[y] \in Int
    BY <1>5, FS_Subset
  <1>7. SumFunctionOnSet(f, m) = f[x] + SumFunctionOnSet(f, rest)
    BY <1>6, SumRemove
  <1>8. SumFunctionOnSet(g, Image(m)) = g[b[x]] + SumFunctionOnSet(g, Image(rest))
    <2> DEFINE I == Image(m)
               y == b[x]
    <2>1. /\ IsFiniteSet(I) /\ y \in I /\ \A z \in I : g[z] \in Int
          /\ Image(rest) = I \ {y}
      BY <1>5, <1>6
    <2> HIDE DEF I, y, Image
    <2>2. SumFunctionOnSet(g, I) = g[y] + SumFunctionOnSet(g, I \ {y})
      BY <2>1, SumRemove
    <2> QED
      BY Zenon, <2>1, <2>2 DEF I, y
  <1>9. SumFunctionOnSet(f, rest) = SumFunctionOnSet(g, Image(rest))
    BY <1>2
  <1> QED
    BY <1>7, <1>8, <1>9

\* A term added at the end.
LEMMA SumAppend ==
    ASSUME NEW s \in Seq(Int), NEW x \in Int
    PROVE  SumFunction(Append(s, x)) = SumFunction(s) + x
  <1> DEFINE t == Append(s, x)
             last == Len(s) + 1
             D == DOMAIN s
             E == DOMAIN t
  <1>1. D = 1..Len(s) /\ E = 1..(Len(s) + 1) /\ Len(s) \in Int /\ Len(s) + 1 \in Int
    OBVIOUS
  <1>2. E \ {last} = D /\ last \in E
    BY <1>1
  <1>3. IsFiniteSet(D) /\ IsFiniteSet(E)
    <2> HIDE DEF D, E
    <2> QED
      BY <1>1, FS_Interval
  <1>4. /\ \A i \in E : t[i] \in Int
        /\ \A i \in D : t[i] \in Int /\ t[i] = s[i] /\ s[i] \in Int
        /\ t[last] = x
    OBVIOUS
  <1>5. SumFunction(t) = SumFunctionOnSet(t, E) /\ SumFunction(s) = SumFunctionOnSet(s, D)
    BY DEF SumFunction
  <1> HIDE DEF t, last, D, E
  <1>6. SumFunctionOnSet(t, E) = t[last] + SumFunctionOnSet(t, D)
    BY <1>2, <1>3, <1>4, SumRemove
  <1>7. SumFunctionOnSet(t, D) = SumFunctionOnSet(s, D)
    BY <1>3, <1>4, SumSame
  <1>8. SumFunctionOnSet(s, D) \in Int
    BY <1>3, <1>4, SumType
  <1>9. SumFunction(t) = SumFunction(s) + x
    BY <1>4, <1>5, <1>6, <1>7, <1>8
  <1> QED
    BY <1>9 DEF t

\* A term taken from the front.
LEMMA SumTail ==
    ASSUME NEW s \in Seq(Int), s # <<>>
    PROVE  SumFunction(s) = Head(s) + SumFunction(Tail(s))
  <1> DEFINE t == Tail(s)
             D == DOMAIN s
             E == DOMAIN t
             b == [i \in E |-> i + 1]
             one == 1
  <1>1. /\ D = 1..Len(s) /\ E = 1..(Len(s) - 1) /\ Len(s) \in Int /\ Len(s) - 1 \in Int
        /\ Len(s) >= 1 /\ Head(s) = s[one]
    OBVIOUS
  <1>2. IsFiniteSet(D) /\ IsFiniteSet(E)
    <2> HIDE DEF D, E
    <2> QED
      BY <1>1, FS_Interval
  <1>3. /\ \A i \in D : s[i] \in Int
        /\ one \in D
    BY <1>1
  <1>4. /\ b \in [E -> D]
        /\ \A i, j \in E : b[i] = b[j] => i = j
        /\ \A i \in E : t[i] \in Int /\ t[i] = s[b[i]]
    BY <1>1
  <1>5. {b[i] : i \in E} = D \ {one}
    <2>1. \A i \in E : b[i] \in D \ {one}
      BY <1>1
    <2>2. ASSUME NEW j \in D, j # 1
          PROVE  j - 1 \in E /\ b[j - 1] = j
      BY <1>1, <2>2
    <2>3. \A j \in D \ {one} : \E i \in E : b[i] = j
      BY Zenon, <2>2
    <2> HIDE DEF b, D, E, one
    <2> QED
      BY <2>1, <2>3
  <1>6. SumFunction(t) = SumFunctionOnSet(t, E) /\ SumFunction(s) = SumFunctionOnSet(s, D)
    BY DEF SumFunction
  <1> HIDE DEF t, D, E, b, one
  <1>7. SumFunctionOnSet(t, E) = SumFunctionOnSet(s, {b[i] : i \in E})
    BY <1>2, <1>3, <1>4, SumRenamed
  <1>8. SumFunctionOnSet(s, D) = s[one] + SumFunctionOnSet(s, D \ {one})
    BY <1>2, <1>3, SumRemove
  <1>9. SumFunction(s) = Head(s) + SumFunction(t)
    BY Zenon, <1>1, <1>5, <1>6, <1>7, <1>8
  <1> QED
    BY <1>9 DEF t

\* The empty sequence.
LEMMA SumNone == SumFunction(<<>>) = 0
  <1>1. DOMAIN <<>> = {}
    OBVIOUS
  <1> QED
    BY <1>1, SumEmpty DEF SumFunction

\* Sequences are equal if their elements are.
LEMMA SameSequence ==
    ASSUME NEW S, NEW s \in Seq(S), NEW t \in Seq(S), Len(s) = Len(t),
           \A i \in 1..Len(s) : s[i] = t[i]
    PROVE  s = t
  OBVIOUS

\* The domain of a sequence is finite.
LEMMA FiniteDomain == ASSUME NEW S, NEW s \in Seq(S) PROVE IsFiniteSet(DOMAIN s)
  <1>1. DOMAIN s = 1..Len(s) /\ Len(s) \in Int
    OBVIOUS
  <1> QED
    BY <1>1, FS_Interval
-----------------------------------------------------------------------------
(***************************************************************************)
(* Sums of the entries of some claimants.                                  *)
(***************************************************************************)

\* What one entry adds.
Term(e, C, k) == IF e.claimant \in C THEN Value(e, k) ELSE 0

Terms(entries, C, k) == [i \in DOMAIN entries |-> Term(entries[i], C, k)]

\* An entry adds a natural.
LEMMA TermNat ==
    ASSUME NEW C, NEW k \in Columns, NEW e \in Node
    PROVE  Term(e, C, k) \in Nat /\ Value(e, k) \in Nat
  <1>1. OrZero(e.locked_amount) \in Nat /\ e.amount \in Nat
    BY DEF OrZero, Node
  <1> HIDE DEF OrZero
  <1> QED
    BY <1>1 DEF Term, Value, Columns

\* The sum is that of the sequence of terms.
LEMMA SumsOfTerms ==
    ASSUME NEW C, NEW k \in Columns, NEW entries \in Seq(Node)
    PROVE  /\ Terms(entries, C, k) \in Seq(Nat)
           /\ Terms(entries, C, k) \in Seq(Int)
           /\ Len(Terms(entries, C, k)) = Len(entries)
           /\ Sums(entries, C, k) = SumFunction(Terms(entries, C, k))
           /\ Sums(entries, C, k) \in Nat
  <1> DEFINE t == Terms(entries, C, k)
  <1>1. \A i \in DOMAIN entries : entries[i] \in Node /\ Term(entries[i], C, k) \in Nat
    BY TermNat
  <1>2. t \in Seq(Nat) /\ t \in Seq(Int) /\ Len(t) = Len(entries) /\ t \in [DOMAIN entries -> Nat]
    BY <1>1 DEF Terms
  <1>3. Sums(entries, C, k) = SumFunction(t)
    BY DEF Sums, Terms, Term
  <1>4. IsFiniteSet(DOMAIN entries)
    BY FiniteDomain
  <1>5. SumFunction(t) \in Nat
    BY <1>2, <1>4, SumNat
  <1> QED
    BY <1>2, <1>3, <1>5

\* No entries.
LEMMA SumsNone == ASSUME NEW C, NEW k PROVE Sums(<<>>, C, k) = 0
  <1>1. [i \in DOMAIN <<>> |-> IF <<>>[i].claimant \in C THEN Value(<<>>[i], k) ELSE 0] = <<>>
    OBVIOUS
  <1> QED
    BY <1>1, SumNone DEF Sums

\* An entry added at the end.
LEMMA SumsAppend ==
    ASSUME NEW C, NEW k \in Columns, NEW entries \in Seq(Node), NEW e \in Node
    PROVE  Sums(Append(entries, e), C, k) = Sums(entries, C, k) + Term(e, C, k)
  <1> DEFINE t == Terms(entries, C, k)
             u == Terms(Append(entries, e), C, k)
  <1>1. /\ Append(entries, e) \in Seq(Node) /\ Len(Append(entries, e)) = Len(entries) + 1
        /\ Term(e, C, k) \in Int
    BY TermNat
  <1>2. t \in Seq(Int) /\ u \in Seq(Int) /\ Len(t) = Len(entries) /\ Len(u) = Len(entries) + 1
    <2>1. t \in Seq(Int) /\ Len(t) = Len(entries)
      BY SumsOfTerms
    <2>2. u \in Seq(Int) /\ Len(u) = Len(Append(entries, e))
      BY Zenon, <1>1, SumsOfTerms
    <2> HIDE DEF t, u
    <2> QED
      BY <1>1, <2>1, <2>2
  <1>3. u = Append(t, Term(e, C, k))
    <2>1. \A i \in 1..(Len(entries) + 1) : u[i] = Append(t, Term(e, C, k))[i]
      BY <1>2 DEF Terms
    <2> HIDE DEF t, u
    <2> QED
      BY <1>1, <1>2, <2>1
  <1> HIDE DEF t, u
  <1>4. SumFunction(u) = SumFunction(t) + Term(e, C, k)
    BY <1>1, <1>2, <1>3, SumAppend
  <1> QED
    BY Zenon, <1>1, <1>4, SumsOfTerms DEF t, u

\* An entry taken from the front.
LEMMA SumsTail ==
    ASSUME NEW C, NEW k \in Columns, NEW entries \in Seq(Node), entries # <<>>
    PROVE  Sums(entries, C, k) = Term(Head(entries), C, k) + Sums(Tail(entries), C, k)
  <1> DEFINE t == Terms(entries, C, k)
             u == Terms(Tail(entries), C, k)
  <1>1. Tail(entries) \in Seq(Node) /\ Len(Tail(entries)) = Len(entries) - 1 /\ Len(entries) >= 1
    OBVIOUS
  <1>2. t \in Seq(Int) /\ u \in Seq(Int) /\ Len(t) = Len(entries) /\ Len(u) = Len(entries) - 1
    BY Zenon, <1>1, SumsOfTerms
  <1>3. u = Tail(t) /\ Head(t) = Term(Head(entries), C, k) /\ t # <<>>
    <2>1. \A i \in 1..(Len(entries) - 1) : u[i] = Tail(t)[i]
      BY <1>1, <1>2 DEF Terms
    <2>2. Head(t) = Term(Head(entries), C, k)
      BY <1>1, <1>2 DEF Terms
    <2> HIDE DEF t, u
    <2>3. t # <<>>
      BY <1>1, <1>2
    <2>4. Tail(t) \in Seq(Int) /\ Len(Tail(t)) = Len(entries) - 1
      BY <1>2, <2>3
    <2>5. \A i \in 1..Len(u) : u[i] = Tail(t)[i]
      BY <1>2, <2>1
    <2>6. u = Tail(t)
      BY Zenon, <1>2, <2>4, <2>5, SameSequence
    <2> QED
      BY <2>2, <2>3, <2>6
  <1> HIDE DEF t, u
  <1>4. SumFunction(t) = Head(t) + SumFunction(u)
    BY <1>2, <1>3, SumTail
  <1> QED
    BY Zenon, <1>1, <1>3, <1>4, SumsOfTerms DEF t, u
-----------------------------------------------------------------------------
(***************************************************************************)
(* Converting and combining rows.                                          *)
(***************************************************************************)

\* The rows of a claimant add up in one node.
LEMMA CombineAdds ==
    ASSUME NEW n \in Node, NEW m \in Node
    PROVE  /\ combine(n, m) \in Node
           /\ combine(n, m).claimant = n.claimant
           /\ \A k \in Columns : Value(combine(n, m), k) = Value(n, k) + Value(m, k)
  <1> DEFINE c == combine(n, m)
  <1>1. /\ n.claimant \in People /\ n.amount \in Nat /\ m.amount \in Nat
        /\ n.locked_amount \in Nat \cup {None} /\ m.locked_amount \in Nat \cup {None}
    BY DEF Node
  <1>2. None \notin Nat
    BY CsvAssumption
  <1>3. c = [claimant |-> n.claimant, amount |-> n.amount + m.amount,
             locked_amount |-> IF n.locked_amount = None THEN m.locked_amount
                               ELSE n.locked_amount + OrZero(m.locked_amount)]
    <2> DEFINE a == n.amount + m.amount
               l == IF n.locked_amount = None THEN m.locked_amount
                    ELSE n.locked_amount + OrZero(m.locked_amount)
    <2>1. c = [n EXCEPT !.amount = a, !.locked_amount = l]
      BY DEF combine
    <2> HIDE DEF a, l, c
    <2>2. c = [claimant |-> n.claimant, amount |-> a, locked_amount |-> l]
      BY Zenon, <2>1 DEF Node
    <2> QED
      BY <2>2 DEF a, l
  <1> HIDE DEF c
  <1>4. /\ c.claimant = n.claimant /\ c.amount = n.amount + m.amount
        /\ c.locked_amount = IF n.locked_amount = None THEN m.locked_amount
                             ELSE n.locked_amount + OrZero(m.locked_amount)
    BY <1>3
  <1>5. OrZero(c.locked_amount) = OrZero(n.locked_amount) + OrZero(m.locked_amount)
    BY <1>1, <1>2, <1>4 DEF OrZero
  <1>6. /\ OrZero(m.locked_amount) \in Nat /\ OrZero(n.locked_amount) \in Nat
        /\ c.locked_amount \in Nat \cup {None}
    BY <1>1, <1>4 DEF OrZero
  <1>7. c \in Node
    BY <1>1, <1>3, <1>4, <1>6 DEF Node
  <1> HIDE DEF OrZero
  <1>8. \A k \in Columns : Value(c, k) = Value(n, k) + Value(m, k)
    BY <1>1, <1>4, <1>5, <1>6 DEF Value, Columns
  <1> QED
    BY <1>4, <1>7, <1>8 DEF c

\* Combining keeps one node per claimant, adds at most one node and loses nothing.
LEMMA CombineIntoAdds ==
    ASSUME NEW nodes \in Seq(Node), NEW n \in Node, Distinct(nodes)
    PROVE  /\ CombineInto(nodes, n) \in Seq(Node)
           /\ Distinct(CombineInto(nodes, n))
           /\ Len(CombineInto(nodes, n)) <= Len(nodes) + 1
           /\ Names(CombineInto(nodes, n)) = Names(nodes) \cup {n.claimant}
           /\ \A C \in SUBSET People, k \in Columns :
                Sums(CombineInto(nodes, n), C, k) = Sums(nodes, C, k) + Term(n, C, k)
  <1> DEFINE new_nodes == CombineInto(nodes, n)
  <1>1. CASE \A i \in DOMAIN nodes : nodes[i].claimant # n.claimant
    <2>1. new_nodes = Append(nodes, n)
      BY <1>1 DEF CombineInto
    <2>2. /\ Append(nodes, n) \in Seq(Node) /\ Len(Append(nodes, n)) = Len(nodes) + 1
          /\ DOMAIN Append(nodes, n) = DOMAIN nodes \cup {Len(nodes) + 1}
          /\ \A i \in DOMAIN nodes : Append(nodes, n)[i] = nodes[i]
          /\ Append(nodes, n)[Len(nodes) + 1] = n
      OBVIOUS
    <2>3. Distinct(Append(nodes, n))
      BY <1>1, <2>2 DEF Distinct
    <2>4. Names(Append(nodes, n)) = Names(nodes) \cup {n.claimant}
      BY <2>2 DEF Names
    <2>5. \A C \in SUBSET People, k \in Columns :
            Sums(Append(nodes, n), C, k) = Sums(nodes, C, k) + Term(n, C, k)
      BY SumsAppend
    <2>6. Len(Append(nodes, n)) <= Len(nodes) + 1
      OBVIOUS
    <2> QED
      BY <2>1, <2>2, <2>3, <2>4, <2>5, <2>6
  <1>2. CASE \E i \in DOMAIN nodes : nodes[i].claimant = n.claimant
    <2>1. PICK p \in DOMAIN nodes : nodes[p].claimant = n.claimant
      BY <1>2
    <2>2. \A i \in DOMAIN nodes : i # p => nodes[i].claimant # n.claimant
      BY <2>1 DEF Distinct
    <2>3. new_nodes = [i \in DOMAIN nodes |-> IF nodes[i].claimant = n.claimant
                                              THEN combine(nodes[i], n) ELSE nodes[i]]
      BY <1>2 DEF CombineInto
    <2>4. /\ DOMAIN new_nodes = DOMAIN nodes
          /\ new_nodes[p] = combine(nodes[p], n)
          /\ \A i \in DOMAIN nodes : i # p => new_nodes[i] = nodes[i]
      BY <2>1, <2>2, <2>3
    <2> HIDE DEF new_nodes
    <2>5. /\ \A i \in DOMAIN nodes : nodes[i] \in Node
          /\ combine(nodes[p], n) \in Node
          /\ combine(nodes[p], n).claimant = nodes[p].claimant
      BY CombineAdds
    <2>6. \A i \in DOMAIN nodes : new_nodes[i] \in Node /\ new_nodes[i].claimant = nodes[i].claimant
      BY <2>4, <2>5
    <2>7. new_nodes \in Seq(Node) /\ Len(new_nodes) = Len(nodes)
      <3>1. DOMAIN nodes = 1..Len(nodes) /\ Len(nodes) \in Nat
        OBVIOUS
      <3>2. new_nodes = [i \in 1..Len(nodes) |-> new_nodes[i]]
        BY <2>3, <2>4, <3>1
      <3> QED
        BY <2>6, <3>1, <3>2
    <2>8. Distinct(new_nodes)
      BY <2>4, <2>6 DEF Distinct
    <2>9. Names(new_nodes) = Names(nodes) \cup {n.claimant}
      BY <2>1, <2>4, <2>6 DEF Names
    <2>10. ASSUME NEW C \in SUBSET People, NEW k \in Columns
           PROVE  Sums(new_nodes, C, k) = Sums(nodes, C, k) + Term(n, C, k)
      <3> DEFINE t == Terms(nodes, C, k)
                 u == Terms(new_nodes, C, k)
                 D == DOMAIN nodes
      <3>1. t \in [D -> Int] /\ u \in [D -> Int] /\ IsFiniteSet(D)
        <4>1. \A i \in D : Term(nodes[i], C, k) \in Int /\ Term(new_nodes[i], C, k) \in Int
          BY <2>5, <2>6, TermNat
        <4> QED
          BY <2>4, <4>1, FiniteDomain DEF Terms
      <3>2. \A i \in D \ {p} : u[i] = t[i]
        BY <2>4 DEF Terms
      <3>3. t[p] = Term(nodes[p], C, k) /\ u[p] = Term(combine(nodes[p], n), C, k)
        BY <2>4 DEF Terms
      <3>4. Term(combine(nodes[p], n), C, k) = Term(nodes[p], C, k) + Term(n, C, k)
        BY <2>1, <2>5, CombineAdds, TermNat DEF Term
      <3>5. Term(nodes[p], C, k) \in Int /\ Term(n, C, k) \in Int
        BY <2>5, TermNat
      <3>6. Sums(nodes, C, k) = SumFunction(t) /\ Sums(new_nodes, C, k) = SumFunction(u)
        BY <2>7, SumsOfTerms
      <3> HIDE DEF t, u, D
      <3>7. p \in D
        BY DEF D
      <3>8. SumFunction(u) = SumFunction(t) - t[p] + u[p]
        BY <3>1, <3>2, <3>7, SumChange
      <3>9. SumFunction(t) \in Int
        BY <3>1, SumInt
      <3> QED
        BY <3>3, <3>4, <3>5, <3>6, <3>8, <3>9
    <2>11. Len(new_nodes) <= Len(nodes) + 1
      BY <2>7
    <2> QED
      BY <2>7, <2>8, <2>9, <2>10, <2>11 DEF new_nodes
  <1> QED
    BY <1>1, <1>2

\* A row that converts becomes a node of the scaled amounts.
LEMMA ConvertScales ==
    ASSUME args \in Args, NEW row \in Node, Converts(row)
    PROVE  /\ from_csv(row) \in Node
           /\ from_csv(row).claimant = row.claimant
           /\ Scale \in Nat
           /\ \A k \in Columns : Value(from_csv(row), k) = Scale * Value(row, k)
  <1> DEFINE n == from_csv(row)
             Scaled(x) == csv_amount_to_base_units(x, args.decimals, args.unit)
  <1>1. /\ args.decimals \in Decimals /\ args.unit \in {"tokens", "cents"}
        /\ row.claimant \in People /\ row.amount \in Nat
        /\ row.locked_amount \in Nat \cup {None}
    BY DEF Args, Node
  <1>2. /\ args.decimals \in Nat /\ 10^args.decimals \in Nat /\ None \notin Nat
        /\ args.decimals >= 2 => 10^(args.decimals - 2) \in Nat
    BY <1>1, CsvAssumption
  <1>3. ASSUME NEW x \in Nat, Scaled(x) # None
        PROVE  Scaled(x) = Scale * x /\ Scale \in Nat
    <2>1. CASE args.unit = "tokens"
      <3> DEFINE p == 10^args.decimals
      <3>1. Scale = p
        BY <2>1 DEF Scale
      <3>2. Scaled(x) = x * p
        BY <1>3, <2>1 DEF csv_amount_to_base_units, OrNone
      <3> HIDE DEF p, Scaled
      <3>3. p \in Nat
        BY <1>2 DEF p
      <3> QED
        BY <3>1, <3>2, <3>3
    <2>2. CASE args.unit = "cents"
      <3> DEFINE p == 10^(args.decimals - 2)
      <3>0. args.decimals >= 2
        BY <1>2, <1>3, <2>2 DEF csv_amount_to_base_units
      <3>1. Scale = p
        BY <2>2, <3>0 DEF Scale
      <3>2. Scaled(x) = x * p
        BY <1>3, <2>2 DEF csv_amount_to_base_units, OrNone
      <3> HIDE DEF p, Scaled
      <3>3. p \in Nat
        BY <1>2, <3>0 DEF p
      <3> QED
        BY <3>1, <3>2, <3>3
    <2> QED
      BY <1>1, <2>1, <2>2
  <1>4. /\ n = [claimant |-> row.claimant, amount |-> Scaled(row.amount),
                locked_amount |-> IF row.locked_amount = None THEN None
                                  ELSE Scaled(row.locked_amount)]
        /\ Scaled(row.amount) # None
        /\ row.locked_amount # None => Scaled(row.locked_amount) # None
    BY DEF Converts, from_csv
  <1> HIDE DEF n, Scaled
  <1>5. /\ n.claimant = row.claimant /\ n.amount = Scale * row.amount /\ Scale \in Nat
        /\ n.locked_amount = IF row.locked_amount = None THEN None
                             ELSE Scale * row.locked_amount
    BY <1>1, <1>3, <1>4
  <1>6. /\ Scale * row.amount \in Nat
        /\ row.locked_amount # None => Scale * row.locked_amount \in Nat
    BY <1>1, <1>5
  <1>7. n \in Node
    BY <1>1, <1>4, <1>5, <1>6 DEF Node
  <1>8. OrZero(n.locked_amount) = Scale * OrZero(row.locked_amount) /\ OrZero(row.locked_amount) \in Nat
    BY <1>1, <1>2, <1>5, <1>6 DEF OrZero
  <1>9. \A k \in Columns : Value(n, k) = Scale * Value(row, k)
    <2> HIDE DEF Scale, OrZero
    <2> QED
      BY <1>1, <1>5, <1>8 DEF Value, Columns
  <1> QED
    BY <1>5, <1>7, <1>9 DEF n
-----------------------------------------------------------------------------
(***************************************************************************)
(* The types and stages of create-merkle-tree.                             *)
(***************************************************************************)

\* The scale is a natural, zero if there is none.
LEMMA ScaleNat == ASSUME args \in Args PROVE Scale \in Nat
  <1>1. args.decimals \in Decimals
    BY DEF Args
  <1> QED
    BY <1>1, CsvAssumption DEF Scale

\* So is the size asked for.
LEMMA SizeNat == ASSUME args \in Args PROVE args.max_nodes_per_tree \in Nat
  <1>1. args.max_nodes_per_tree \in TreeSizes
    BY DEF Args
  <1>2. \A n \in TreeSizes : n \in Nat
    BY CsvAssumption
  <1> QED
    BY <1>1, <1>2

\* A row of the CSV has the shape of a node.
LEMMA RowsAreNodes == ASSUME NEW s \in Seq(Row) PROVE s \in Seq(Node)
  <1>1. Row \subseteq Node
    BY DEF Row, Node, People
  <1> QED
    BY <1>1

\* So have the entries of the test wallets.
LEMMA TestEntriesType ==
    /\ TestEntries \in Seq(Node)
    /\ Len(TestEntries) = Len(TestList)
    /\ Names(TestEntries) \subseteq Range(TestList)
  <1>1. DOMAIN TestList = 1..Len(TestList) /\ Len(TestList) \in Nat
    BY CsvAssumption
  <1>2. \A i \in DOMAIN TestList :
          /\ TestList[i] \in Range(TestList)
          /\ [claimant |-> TestList[i], amount |-> TestAmount, locked_amount |-> 0] \in Node
    BY CsvAssumption DEF Range, Node, People
  <1>3. TestEntries \in Seq(Node) /\ Len(TestEntries) = Len(TestList)
    BY <1>1, <1>2 DEF TestEntries
  <1> QED
    BY <1>2, <1>3 DEF TestEntries, Names

\* The maximum of a tree is the sum of all its amounts.
LEMMA MaximumIsTotal ==
    ASSUME NEW nodes \in Seq(Node)
    PROVE  /\ get_max_total_claim(nodes) = Sums(nodes, People, "total")
           /\ get_max_total_claim(nodes) \in Nat
  <1>1. \A i \in DOMAIN nodes : nodes[i].claimant \in People
    <2>1. \A i \in DOMAIN nodes : nodes[i] \in Node
      OBVIOUS
    <2> QED
      BY <2>1 DEF Node
  <1>2. [i \in DOMAIN nodes |-> total_amount(nodes[i])]
          = [i \in DOMAIN nodes |->
               IF nodes[i].claimant \in People THEN Value(nodes[i], "total") ELSE 0]
    BY <1>1 DEF total_amount, Value
  <1>3. get_max_total_claim(nodes) = Sums(nodes, People, "total")
    BY <1>2 DEF get_max_total_claim, Sums
  <1>4. "total" \in Columns
    BY DEF Columns
  <1> QED
    BY <1>3, <1>4, SumsOfTerms

\* Where a row is taken from, and what is left.
LEMMA FrontRow ==
    ASSUME NEW S, NEW s \in Seq(S), s # <<>>
    PROVE  /\ Head(s) \in S /\ Tail(s) \in Seq(S) /\ Len(Tail(s)) = Len(s) - 1
           /\ Len(s) \in Nat \ {0}
  BY SMTT(30)

\* Every step keeps the types and what belongs to the stage.
LEMMA StageStep ==
    ASSUME CreateInv, Next
    PROVE  StageInv'
  <1> USE DEF CreateInv, StageInv, building
  <1>1. CASE SearchVersion
    <2>1. version' \in Nat
      BY <1>1 DEF SearchVersion, Probe
    <2>2. pc' \in {"search", "read"}
      BY <1>1 DEF SearchVersion, Probe
    <2> QED
      BY <1>1, <2>1, <2>2 DEF SearchVersion
  <1>2. CASE ReadCsv
    <2>1. rows \in Seq(Node) /\ Len(rows) \in Nat
      BY RowsAreNodes
    <2> QED
      BY <1>2, <2>1 DEF ReadCsv
  <1>3. CASE TrimRow
    <2>1. /\ Head(csv) \in Node /\ Tail(csv) \in Seq(Node) /\ Len(Tail(csv)) \in Nat
      BY <1>3, FrontRow DEF TrimRow
    <2>2. new_entries' \in Seq(Node) /\ csv' \in Seq(Node)
      BY <1>3, <2>1 DEF TrimRow
    <2> QED
      BY <1>3, <2>1, <2>2 DEF TrimRow
  <1>4. CASE Trimmed
    <2>1. Len(new_entries) \in Nat
      OBVIOUS
    <2> QED
      BY <1>4, <2>1 DEF Trimmed
  <1>5. CASE CutShard
    <2>1. args.max_nodes_per_tree \in Nat
      BY SizeNat
    <2>2. last_index \in Nat /\ last_index <= Len(csv)
      <3>1. Len(csv) \in Nat
        OBVIOUS
      <3> HIDE DEF StageInv
      <3> QED
        BY <2>1, <3>1 DEF last_index
    <2> QED
      BY <1>5, <2>2 DEF CutShard
  <1>6. CASE CombineRow
    <2>1. CASE Converts(Head(csv))
      <3>1. csv # <<>> /\ batch > 0
        BY <1>6 DEF CombineRow
      <3>2. /\ Head(csv) \in Node /\ Tail(csv) \in Seq(Node)
            /\ Len(Tail(csv)) = Len(csv) - 1 /\ Len(csv) \in Nat
        BY <3>1, FrontRow
      <3>3. CombineInto(tree_nodes, from_csv(Head(csv))) \in Seq(Node)
        BY Zenon, <2>1, <3>2, ConvertScales, CombineIntoAdds DEF FileInv
      <3>4. batch - 1 \in Nat /\ batch - 1 <= Len(Tail(csv))
            /\ (batch = Len(csv) => batch - 1 = Len(Tail(csv)))
        <4> DEFINE l == Len(csv)
                   m == Len(Tail(csv))
        <4>1. batch \in Nat /\ batch <= l /\ l \in Nat /\ m = l - 1
          BY Zenon, <3>2
        <4> HIDE DEF l, m, StageInv
        <4>2. batch - 1 \in Nat /\ batch - 1 <= m /\ (batch = l => batch - 1 = m)
          BY <3>1, <4>1
        <4> QED
          BY <4>2 DEF l, m
      <3> QED
        BY Zenon, <1>6, <2>1, <3>2, <3>3, <3>4 DEF CombineRow
    <2>2. CASE ~Converts(Head(csv))
      BY Zenon, <1>6, <2>2 DEF CombineRow, Panic
    <2> QED
      BY <2>1, <2>2
  <1>7. CASE WriteTree
    <2>1. CASE Creatable(tree_nodes)
      <3>1. new(tree_nodes) \in TreeFile
        BY MaximumIsTotal DEF new, TreeFile
      <3>2. Append(files, new(tree_nodes)) \in Seq(TreeFile)
        BY <3>1
      <3>3. version + 1 \in Nat /\ <<>> \in Seq(Node)
        OBVIOUS
      <3>4. CASE pc = "new"
        BY Zenon, <1>7, <2>1, <3>2, <3>3, <3>4 DEF WriteTree
      <3>5. CASE pc = "new_test"
        <4>1. csv = <<>>
          BY <1>7, <3>5 DEF WriteTree
        <4> QED
          BY Zenon, <1>7, <2>1, <3>2, <3>3, <3>5, <4>1 DEF WriteTree
      <3> QED
        BY Zenon, <1>7, <3>4, <3>5 DEF WriteTree
    <2>2. CASE ~Creatable(tree_nodes)
      BY <1>7, <2>2 DEF WriteTree, Panic
    <2> QED
      BY Zenon, <2>1, <2>2
  <1>8. CASE ShardsWritten
    <2>1. Len(TestList) \in Nat
      BY CsvAssumption
    <2>2. CASE args.should_include_test_list
      <3>1. csv' \in Seq(Node) /\ batch' \in Nat /\ batch' = Len(csv') /\ pc' = "new_test"
        BY Zenon, <1>8, <2>1, <2>2, TestEntriesType DEF ShardsWritten
      <3>2. /\ args' = args /\ rows' = rows /\ new_entries' = new_entries
            /\ tree_nodes' = tree_nodes /\ version' = version /\ files' = files
        BY <1>8 DEF ShardsWritten
      <3>3. batch' <= Len(csv')
        BY <3>1
      <3> QED
        BY Zenon, <2>2, <3>1, <3>2, <3>3
    <2>3. CASE ~args.should_include_test_list
      BY <1>8, <2>3 DEF ShardsWritten
    <2> QED
      BY <2>2, <2>3
  <1>9. CASE Terminated
    BY <1>9 DEF Terminated, vars
  <1> QED
    BY Zenon, <1>1, <1>2, <1>3, <1>4, <1>5, <1>6, <1>7, <1>8, <1>9 DEF Next
-----------------------------------------------------------------------------
(***************************************************************************)
(* No token is lost between the rows and the files.                        *)
(***************************************************************************)

\* What the nodes of some files add up to.
InAll(fs, C, k) == SumFunction([i \in DOMAIN fs |-> Sums(fs[i].tree_nodes, C, k)])

\* A natural, zero without files, that grows by what a new file holds.
LEMMA InAllFiles ==
    ASSUME NEW C, NEW k \in Columns, NEW fs \in Seq(TreeFile)
    PROVE  /\ InAll(fs, C, k) \in Nat
           /\ InAll(<<>>, C, k) = 0
           /\ \A f \in TreeFile :
                InAll(Append(fs, f), C, k) = InAll(fs, C, k) + Sums(f.tree_nodes, C, k)
  <1> DEFINE Parts(s) == [i \in DOMAIN s |-> Sums(s[i].tree_nodes, C, k)]
  <1>1. \A f \in TreeFile : Sums(f.tree_nodes, C, k) \in Nat
    <2>1. \A f \in TreeFile : f.tree_nodes \in Seq(Node)
      BY DEF TreeFile
    <2> QED
      BY <2>1, SumsOfTerms
  <1>2. ASSUME NEW s \in Seq(TreeFile)
        PROVE  /\ Parts(s) \in Seq(Int) /\ Len(Parts(s)) = Len(s)
               /\ Parts(s) \in [DOMAIN s -> Nat]
    <2> DEFINE x(i) == Sums(s[i].tree_nodes, C, k)
    <2>1. \A i \in DOMAIN s : x(i) \in Nat
      BY <1>1
    <2>2. Parts(s) = [i \in DOMAIN s |-> x(i)]
      OBVIOUS
    <2> HIDE DEF x, Parts
    <2>3. [i \in DOMAIN s |-> x(i)] \in [DOMAIN s -> Nat]
      BY <2>1
    <2>4. [i \in DOMAIN s |-> x(i)] \in Seq(Int) /\ Len([i \in DOMAIN s |-> x(i)]) = Len(s)
      BY <2>1
    <2> QED
      BY Zenon, <2>2, <2>3, <2>4
  <1>3. InAll(fs, C, k) \in Nat
    <2>1. IsFiniteSet(DOMAIN fs)
      BY FiniteDomain
    <2>2. Parts(fs) \in [DOMAIN fs -> Nat]
      BY Zenon, <1>2
    <2>3. SumFunction(Parts(fs)) \in Nat
      <3> HIDE DEF Parts
      <3> QED
        BY <2>1, <2>2, SumNat
    <2> QED
      BY <2>3 DEF InAll
  <1>4. InAll(<<>>, C, k) = 0
    <2>1. Parts(<<>>) = <<>>
      OBVIOUS
    <2> QED
      BY <2>1, SumNone DEF InAll
  <1>5. ASSUME NEW f \in TreeFile
        PROVE  InAll(Append(fs, f), C, k) = InAll(fs, C, k) + Sums(f.tree_nodes, C, k)
    <2> DEFINE x == Sums(f.tree_nodes, C, k)
               t == Parts(fs)
               u == Parts(Append(fs, f))
    <2>1. Append(fs, f) \in Seq(TreeFile) /\ Len(Append(fs, f)) = Len(fs) + 1
      OBVIOUS
    <2>2. /\ t \in Seq(Int) /\ Len(t) = Len(fs) /\ x \in Int
          /\ u \in Seq(Int) /\ Len(u) = Len(Append(fs, f))
      BY SMTT(30), <1>1, <1>2, <2>1
    <2>3. \A i \in 1..(Len(fs) + 1) : u[i] = Append(t, x)[i]
      BY <2>1, <2>2
    <2> HIDE DEF x, t, u
    <2>4. Append(t, x) \in Seq(Int) /\ Len(Append(t, x)) = Len(t) + 1
      BY <2>2
    <2>5. u = Append(t, x)
      <3>1. Len(u) = Len(fs) + 1 /\ Len(Append(t, x)) = Len(fs) + 1
        BY <2>1, <2>2, <2>4
      <3> QED
        BY Zenon, <2>2, <2>3, <2>4, <3>1, SameSequence
    <2>6. SumFunction(u) = SumFunction(t) + x
      BY <2>2, <2>5, SumAppend
    <2> QED
      BY Zenon, <2>6 DEF x, t, u, InAll
  <1> QED
    BY <1>3, <1>4, <1>5

\* The options and the CSV that was read stay as they are.
LEMMA InputsKept ==
    ASSUME Next
    PROVE  /\ args' = args /\ rows' = rows /\ Scale' = Scale
           /\ \A C : Counting(C)' = Counting(C)
           /\ \A C, k : Wanted(C, k)' = Wanted(C, k)
  <1>1. args' = args /\ rows' = rows
    BY Zenon DEF Next, SearchVersion, ReadCsv, TrimRow, Trimmed, CutShard, CombineRow, WriteTree,
           ShardsWritten, Terminated, Panic, vars
  <1>2. Scale' = Scale
    BY <1>1 DEF Scale
  <1>3. \A C : Counting(C)' = Counting(C)
    BY <1>1 DEF Counting
  <1> QED
    BY Zenon, <1>1, <1>2, <1>3 DEF Wanted

\* Every sum is a natural.
LEMMA SumsNat ==
    ASSUME StageInv, NEW C, NEW k \in Columns
    PROVE  /\ Sums(rows, C, k) \in Nat /\ Sums(csv, C, k) \in Nat
           /\ Sums(new_entries, C, k) \in Nat /\ Sums(tree_nodes, C, k) \in Nat
           /\ Sums(TestEntries, C, k) \in Nat /\ InFiles(C, k) \in Nat
           /\ InFiles(C, k) = InAll(files, C, k) /\ Scale \in Nat
  <1>1. /\ rows \in Seq(Node) /\ csv \in Seq(Node) /\ new_entries \in Seq(Node)
        /\ tree_nodes \in Seq(Node) /\ TestEntries \in Seq(Node) /\ files \in Seq(TreeFile)
        /\ args \in Args
    BY RowsAreNodes, TestEntriesType DEF StageInv
  <1>2. InFiles(C, k) = InAll(files, C, k)
    BY DEF InFiles, InAll
  <1> QED
    BY Zenon, <1>1, <1>2, SumsOfTerms, InAllFiles, ScaleNat

\* Scaling distributes over what is taken from a sum.
LEMMA ScaleSplits ==
    ASSUME NEW s \in Nat, NEW x \in Nat, NEW y \in Nat
    PROVE  s * (x + y) = s * x + s * y /\ s * x \in Nat /\ s * 0 = 0
  BY SMTT(30)

\* Every step keeps the sums.
LEMMA SumStep ==
    ASSUME CreateInv, Next
    PROVE  SumInv'
  <1> SUFFICES ASSUME NEW C \in SUBSET People, NEW k \in Columns
               PROVE  /\ pc' = "trim" =>
                           Sums(new_entries', C, k) + Sums(csv', Counting(C), k)
                             = Sums(rows, Counting(C), k)
                      /\ pc' \in {"shard", "new", "new_test", "done"} =>
                           InAll(files', C, k) + Sums(tree_nodes', C, k) + Scale * Sums(csv', C, k)
                             = Scale * Due(C, k)'
    BY InputsKept DEF SumInv, InFiles, InAll
  <1> DEFINE D == Counting(C)
             R == Sums(rows, D, k)
             F == InFiles(C, k)
             T == Sums(tree_nodes, C, k)
             E == Sums(csv, C, k)
  <1>1. StageInv
    BY DEF CreateInv
  <1>2. /\ R \in Nat /\ F \in Nat /\ F = InAll(files, C, k) /\ T \in Nat /\ E \in Nat
        /\ Sums(csv, D, k) \in Nat /\ Sums(new_entries, C, k) \in Nat
        /\ Sums(rows, C, k) \in Nat /\ Sums(TestEntries, C, k) \in Nat /\ Scale \in Nat
    BY <1>1, SumsNat
  <1>3. /\ pc = "trim" => Sums(new_entries, C, k) + Sums(csv, D, k) = R
        /\ pc \in {"shard", "new", "new_test", "done"} => F + T + Scale * E = Scale * Due(C, k)
    BY DEF CreateInv, SumInv
  <1>4. Due(C, k)' = IF pc' \in {"new_test", "done"} THEN Wanted(C, k) ELSE R
    BY InputsKept DEF Due
  <1>5. Due(C, k) = IF pc \in {"new_test", "done"} THEN Wanted(C, k) ELSE R
    BY Zenon DEF Due
  <1>6. /\ csv = <<>> => E = 0 /\ Sums(csv, D, k) = 0
        /\ tree_nodes = <<>> => T = 0
        /\ new_entries = <<>> => Sums(new_entries, C, k) = 0
        /\ files = <<>> => F = 0
    BY Zenon, <1>1, <1>2, SumsNone, InAllFiles DEF StageInv
  <1> HIDE DEF D, R, F, T, E
  <1>10. CASE SearchVersion
    BY <1>10 DEF SearchVersion, Probe
  <1>11. CASE ReadCsv
    <2>1. /\ csv' = rows /\ new_entries' = <<>> /\ tree_nodes' = <<>> /\ files' = <<>>
          /\ F = 0 /\ T = 0 /\ Sums(new_entries, C, k) = 0
          /\ new_entries = <<>> /\ tree_nodes = <<>> /\ files = <<>>
      BY Zenon, <1>1, <1>6, <1>11 DEF ReadCsv, StageInv
    <2>2. CASE args.should_include_test_list
      <3>1. pc' = "trim"
        BY <1>11, <2>2 DEF ReadCsv
      <3>2. Sums(new_entries', C, k) = 0 /\ Sums(csv', D, k) = R
        BY <2>1 DEF R
      <3> QED
        BY <1>2, <3>1, <3>2 DEF D, R
    <2>3. CASE ~args.should_include_test_list
      <3>1. pc' = "shard" /\ D = C
        BY <1>11, <2>3 DEF ReadCsv, D, Counting
      <3>2. /\ InAll(files', C, k) = 0 /\ Sums(tree_nodes', C, k) = 0
            /\ Sums(csv', C, k) = R
        BY Zenon, <1>2, <2>1, <3>1 DEF R, T
      <3>3. Due(C, k)' = R
        BY <1>4, <3>1
      <3>4. 0 + 0 + Scale * R = Scale * R
        BY <1>2, ScaleSplits
      <3> QED
        BY Zenon, <3>1, <3>2, <3>3, <3>4
    <2> QED
      BY Zenon, <2>2, <2>3
  <1>12. CASE TrimRow
    <2> DEFINE h == Head(csv)
    <2>1. /\ pc = "trim" /\ pc' = "trim" /\ csv # <<>> /\ csv' = Tail(csv)
          /\ new_entries' = IF h.claimant \in Range(TestList) THEN new_entries
                            ELSE Append(new_entries, h)
      BY Zenon, <1>12 DEF TrimRow
    <2>2. /\ csv \in Seq(Node) /\ new_entries \in Seq(Node) /\ args.should_include_test_list
          /\ h \in Node /\ Tail(csv) \in Seq(Node)
      BY <1>1, <2>1, FrontRow DEF StageInv
    <2>3. D = C \ Range(TestList)
      BY <2>2 DEF D, Counting
    <2>4. Sums(csv, D, k) = Term(h, D, k) + Sums(Tail(csv), D, k)
      BY <2>1, <2>2, SumsTail
    <2>5. Sums(Tail(csv), D, k) \in Nat /\ Term(h, D, k) \in Nat
      BY Zenon, <2>2, SumsOfTerms, TermNat
    <2>6. Sums(new_entries', C, k) = Sums(new_entries, C, k) + Term(h, D, k)
      <3>1. CASE h.claimant \in Range(TestList)
        <4>1. Term(h, D, k) = 0
          BY Zenon, <2>3, <3>1 DEF Term
        <4> QED
          BY <1>2, <2>1, <3>1, <4>1
      <3>2. CASE h.claimant \notin Range(TestList)
        <4>1. Term(h, D, k) = Term(h, C, k)
          BY <2>3, <3>2 DEF Term
        <4>2. Sums(Append(new_entries, h), C, k) = Sums(new_entries, C, k) + Term(h, C, k)
          BY <2>2, SumsAppend
        <4> QED
          BY Zenon, <2>1, <3>2, <4>1, <4>2
      <3> QED
        BY Zenon, <3>1, <3>2
    <2>7. Sums(new_entries', C, k) + Sums(csv', D, k) = R
      <3> DEFINE a == Sums(new_entries, C, k)
                 b == Term(h, D, k)
                 c == Sums(Tail(csv), D, k)
      <3>1. a \in Nat /\ b \in Nat /\ c \in Nat /\ a + (b + c) = R
        BY Zenon, <1>2, <1>3, <2>1, <2>4, <2>5
      <3>2. Sums(new_entries', C, k) = a + b /\ Sums(csv', D, k) = c
        BY <2>1, <2>6
      <3> HIDE DEF a, b, c
      <3>3. (a + b) + c = R
        BY <1>2, <3>1
      <3> QED
        BY Zenon, <3>2, <3>3
    <2> QED
      BY <2>1, <2>7 DEF D, R
  <1>13. CASE Trimmed
    <2>1. /\ pc = "trim" /\ pc' = "shard" /\ csv = <<>> /\ csv' = new_entries
          /\ tree_nodes' = tree_nodes /\ files' = files
          /\ tree_nodes = <<>> /\ files = <<>>
      BY Zenon, <1>1, <1>13 DEF Trimmed, StageInv
    <2>2. /\ Sums(csv', C, k) = R /\ InAll(files', C, k) = 0 /\ Sums(tree_nodes', C, k) = 0
      BY <1>2, <1>3, <1>6, <2>1 DEF T
    <2>3. Due(C, k)' = R /\ 0 + 0 + Scale * R = Scale * R
      BY <1>2, <1>4, <2>1, ScaleSplits
    <2> QED
      BY Zenon, <2>1, <2>2, <2>3
  <1>14. CASE CutShard
    <2>1. /\ pc = "shard" /\ pc' = "new" /\ csv' = csv /\ tree_nodes' = tree_nodes
          /\ files' = files
      BY Zenon, <1>14 DEF CutShard
    <2> QED
      BY Zenon, <1>2, <1>3, <1>4, <1>5, <2>1 DEF T, E
  <1>15. CASE CombineRow
    <2>1. CASE Converts(Head(csv))
      <3> DEFINE h == Head(csv)
                 n == from_csv(h)
                 x == Term(h, C, k)
                 y == Sums(Tail(csv), C, k)
      <3>1. /\ batch > 0 /\ pc \in {"new", "new_test"} /\ pc' = pc /\ files' = files
            /\ csv' = Tail(csv) /\ tree_nodes' = CombineInto(tree_nodes, n)
        BY Zenon, <1>15, <2>1 DEF CombineRow
      <3>2. csv # <<>>
        BY <1>1, <3>1 DEF StageInv
      <3>3. /\ csv \in Seq(Node) /\ tree_nodes \in Seq(Node) /\ args \in Args
            /\ h \in Node /\ Tail(csv) \in Seq(Node) /\ Distinct(tree_nodes)
        BY Zenon, <1>1, <3>2, FrontRow DEF StageInv, CreateInv, FileInv
      <3>4. n \in Node /\ n.claimant = h.claimant /\ Value(n, k) = Scale * Value(h, k)
        BY Zenon, <2>1, <3>3, ConvertScales
      <3>5. Term(n, C, k) = Scale * x
        <4>1. Scale * 0 = 0
          BY SMTT(30), <1>2
        <4> QED
          BY <3>4, <4>1 DEF Term
      <3>6. Sums(tree_nodes', C, k) = T + Term(n, C, k)
        BY Zenon, <3>1, <3>3, <3>4, CombineIntoAdds DEF T
      <3>7. E = x + y /\ x \in Nat /\ y \in Nat
        BY Zenon, <3>2, <3>3, SumsTail, SumsOfTerms, TermNat DEF E
      <3>8. /\ InAll(files', C, k) = F /\ Sums(csv', C, k) = y
            /\ Sums(tree_nodes', C, k) = T + Scale * x
            /\ Due(C, k)' = Due(C, k)
        BY Zenon, <1>2, <1>4, <1>5, <3>1, <3>5, <3>6
      <3>9. F + T + Scale * (x + y) = Scale * Due(C, k)
        BY Zenon, <1>3, <3>1, <3>7
      <3> HIDE DEF x, y
      <3>10. F + (T + Scale * x) + Scale * y = F + T + Scale * (x + y)
        <4> DEFINE u == Scale * x
                   v == Scale * y
        <4>1. Scale * (x + y) = u + v /\ u \in Nat /\ v \in Nat
          BY <1>2, <3>7, ScaleSplits
        <4> HIDE DEF u, v
        <4>2. F + (T + u) + v = F + T + (u + v)
          BY <1>2, <4>1
        <4> QED
          BY Zenon, <4>1, <4>2 DEF u, v
      <3>11. pc' # "trim"
        BY Zenon, <3>1
      <3> QED
        BY Zenon, <3>8, <3>9, <3>10, <3>11
    <2>2. CASE ~Converts(Head(csv))
      BY Zenon, <1>15, <2>2 DEF CombineRow, Panic
    <2> QED
      BY Zenon, <2>1, <2>2
  <1>16. CASE WriteTree
    <2>1. CASE Creatable(tree_nodes)
      <3> DEFINE f == new(tree_nodes)
      <3>1. /\ pc \in {"new", "new_test"} /\ files' = Append(files, f) /\ csv' = csv
            /\ tree_nodes' = <<>> /\ pc' = IF pc = "new" THEN "shard" ELSE "done"
        BY Zenon, <1>16, <2>1 DEF WriteTree
      <3>2. f \in TreeFile /\ f.tree_nodes = tree_nodes
        BY <1>1, MaximumIsTotal DEF new, TreeFile, StageInv
      <3>3. InAll(files', C, k) = F + T
        <4>1. files \in Seq(TreeFile)
          BY <1>1 DEF StageInv
        <4>2. InAll(Append(files, f), C, k) = InAll(files, C, k) + Sums(f.tree_nodes, C, k)
          BY Zenon, <3>2, <4>1, InAllFiles
        <4> QED
          BY Zenon, <1>2, <3>1, <3>2, <4>2 DEF T
      <3>4. Sums(tree_nodes', C, k) = 0 /\ Sums(csv', C, k) = E
        BY <3>1, SumsNone DEF E
      <3>5. Due(C, k)' = Due(C, k)
        BY <1>4, <1>5, <3>1
      <3>6. F + T + 0 = F + T
        BY <1>2
      <3>7. pc' # "trim"
        BY Zenon, <3>1
      <3> QED
        BY Zenon, <1>3, <3>1, <3>3, <3>4, <3>5, <3>6, <3>7
    <2>2. CASE ~Creatable(tree_nodes)
      BY Zenon, <1>16, <2>2 DEF WriteTree, Panic
    <2> QED
      BY Zenon, <2>1, <2>2
  <1>17. CASE ShardsWritten
    <2>1. /\ pc = "shard" /\ csv = <<>> /\ tree_nodes' = tree_nodes /\ files' = files
          /\ E = 0
      BY <1>6, <1>17 DEF ShardsWritten
    <2>2. F + T + Scale * 0 = Scale * R
      BY Zenon, <1>3, <1>5, <2>1
    <2>3. CASE args.should_include_test_list
      <3> DEFINE w == Sums(TestEntries, C, k)
      <3>1. csv' = TestEntries /\ pc' = "new_test"
        BY Zenon, <1>17, <2>3 DEF ShardsWritten
      <3>2. Due(C, k)' = R + w
        BY Zenon, <1>4, <2>3, <3>1 DEF Wanted, R, D
      <3>3. w \in Nat
        BY Zenon, <1>2
      <3>4. /\ InAll(files', C, k) = F /\ Sums(tree_nodes', C, k) = T /\ Sums(csv', C, k) = w
        BY Zenon, <1>2, <2>1, <3>1 DEF T
      <3> HIDE DEF w
      <3>5. F + T + Scale * w = Scale * (R + w)
        <4> DEFINE u == Scale * R
                   v == Scale * w
        <4>1. Scale * (R + w) = u + v /\ u \in Nat /\ v \in Nat /\ Scale * 0 = 0
          BY <1>2, <3>3, ScaleSplits
        <4>2. F + T + 0 = u
          BY Zenon, <2>2, <4>1
        <4> HIDE DEF u, v
        <4>3. F + T + v = u + v
          BY <1>2, <4>1, <4>2
        <4> QED
          BY Zenon, <4>1, <4>3 DEF u, v
      <3> QED
        BY Zenon, <3>1, <3>2, <3>4, <3>5
    <2>4. CASE ~args.should_include_test_list
      <3>1. csv' = csv /\ pc' = "done"
        BY Zenon, <1>17, <2>4 DEF ShardsWritten
      <3>2. Due(C, k)' = R
        BY <1>2, <1>4, <2>4, <3>1 DEF Wanted, R, D
      <3>3. /\ InAll(files', C, k) = F /\ Sums(tree_nodes', C, k) = T /\ Sums(csv', C, k) = 0
        BY Zenon, <1>2, <2>1, <3>1 DEF T, E
      <3> QED
        BY Zenon, <2>2, <3>1, <3>2, <3>3
    <2> QED
      BY <2>3, <2>4
  <1>18. CASE Terminated
    <2>1. pc' = pc /\ csv' = csv /\ tree_nodes' = tree_nodes /\ files' = files
          /\ pc \in {"done", "panic"}
      BY <1>18 DEF Terminated, vars, building
    <2> QED
      BY Zenon, <1>2, <1>3, <1>4, <1>5, <2>1 DEF T, E
  <1> QED
    BY Zenon, <1>10, <1>11, <1>12, <1>13, <1>14, <1>15, <1>16, <1>17, <1>18 DEF Next
-----------------------------------------------------------------------------
(***************************************************************************)
(* The files that are written.                                             *)
(***************************************************************************)

\* A step that writes no file and combines no row.
LEMMA FilesKept ==
    ASSUME FileInv, args' = args, onchain' = onchain, files' = files, version' = version,
           tree_nodes' = tree_nodes,
           pc' # "done" => pc # "done",
           pc' = "new" => Len(tree_nodes) + batch' <= args.max_nodes_per_tree,
           pc' \in {"read", "trim", "shard", "new", "new_test"} =>
             pc \in {"read", "trim", "shard", "new", "new_test"}
    PROVE  FileInv'
  <1>1. FilesWellFormed'
    BY Zenon DEF FileInv, FilesWellFormed
  <1>2. first_version' = first_version
    BY Zenon DEF first_version
  <1> QED
    BY Zenon, <1>1, <1>2 DEF FileInv

\* A step that writes a file.
LEMMA FileWritten ==
    ASSUME CreateInv, WriteTree, Creatable(tree_nodes)
    PROVE  FileInv'
  <1> DEFINE f == new(tree_nodes)
             n == Len(files)
             max == args.max_nodes_per_tree
  <1>1. /\ pc \in {"new", "new_test"} /\ batch = 0 /\ files' = Append(files, f)
        /\ version' = version + 1 /\ tree_nodes' = <<>> /\ args' = args /\ onchain' = onchain
        /\ pc' = IF pc = "new" THEN "shard" ELSE "done"
    BY Zenon DEF WriteTree
  <1>2. /\ f.airdrop_version = version /\ f.max_num_nodes = Len(tree_nodes)
        /\ f.tree_nodes = tree_nodes
        /\ f.max_total_claim = Sums(tree_nodes, People, "total")
    BY Zenon, MaximumIsTotal DEF CreateInv, StageInv, new
  <1>3. /\ files \in Seq(TreeFile) /\ n \in Nat /\ version \in Nat
        /\ tree_nodes \in Seq(Node) /\ Len(tree_nodes) \in Nat
    BY DEF CreateInv, StageInv
  <1>4. /\ DOMAIN files' = DOMAIN files \cup {n + 1} /\ files'[n + 1] = f
        /\ \A i \in DOMAIN files : files'[i] = files[i]
        /\ Len(files') = n + 1 /\ DOMAIN files = 1..n
    BY <1>1, <1>3
  <1>5. files = <<>> <=> n = 0
    BY <1>3
  <1>6. /\ version = first_version + n /\ first_version \in Nat
    <2>1. version = first_version + n
      BY Zenon DEF CreateInv, FileInv
    <2>2. CASE files = <<>>
      BY Zenon, <1>3, <2>1, <2>2 DEF first_version
    <2>3. CASE files # <<>>
      <3>1. files[1] \in TreeFile
        BY <1>3, <2>3
      <3> QED
        BY <2>1, <2>3, <3>1 DEF first_version, TreeFile
    <2> QED
      BY <2>2, <2>3
  <1>7. files'[1].airdrop_version = first_version /\ first_version' = first_version
    <2>1. files' # <<>>
      BY <1>1, <1>3
    <2>2. CASE files = <<>>
      <3>1. files'[1] = f
        BY <1>3, <1>4, <1>5, <2>2
      <3> QED
        BY Zenon, <1>2, <2>1, <2>2, <3>1 DEF first_version
    <2>3. CASE files # <<>>
      <3>1. files'[1] = files[1]
        BY SMTT(30), <1>3, <1>4, <1>5, <2>3
      <3> QED
        BY <2>1, <2>3, <3>1 DEF first_version
    <2> QED
      BY <2>2, <2>3
  <1>8. ASSUME NEW i \in DOMAIN files'
        PROVE  /\ Distinct(files'[i].tree_nodes)
               /\ files'[i].airdrop_version = first_version + i - 1
               /\ i < n + 1 \/ pc' # "done" => files'[i].max_num_nodes <= max
               /\ files'[i].max_total_claim = Sums(files'[i].tree_nodes, People, "total")
    <2>1. CASE i \in DOMAIN files
      <3>1. files'[i] = files[i] /\ files # <<>>
        BY <1>3, <1>4, <1>5, <2>1
      <3>2. files[i].airdrop_version = first_version + i - 1
        BY Zenon, <2>1, <3>1 DEF CreateInv, FileInv, FilesWellFormed, first_version
      <3>3. Distinct(files[i].tree_nodes)
        BY Zenon, <2>1 DEF CreateInv, FileInv, FilesWellFormed
      <3>4. /\ files[i].max_num_nodes <= max
            /\ files[i].max_total_claim = Sums(files[i].tree_nodes, People, "total")
        BY Zenon, <1>1, <2>1 DEF CreateInv, FileInv
      <3> QED
        BY Zenon, <3>1, <3>2, <3>3, <3>4
    <2>2. CASE i = n + 1
      <3>1. files'[i] = f
        BY Zenon, <1>4, <2>2
      <3>2. version = first_version + i - 1
        BY <1>3, <1>6, <2>2
      <3>3. Distinct(tree_nodes)
        BY DEF CreateInv, FileInv
      <3>4. ~(i < n + 1)
        BY <1>3, <2>2
      <3>5. pc' # "done" => Len(tree_nodes) <= max
        <4>1. pc' # "done" => Len(tree_nodes) + 0 <= max
          BY <1>1 DEF CreateInv, FileInv
        <4>2. Len(tree_nodes) + 0 = Len(tree_nodes)
          BY <1>3
        <4> QED
          BY Zenon, <4>1, <4>2
      <3> QED
        BY Zenon, <1>2, <3>1, <3>2, <3>3, <3>4, <3>5
    <2> QED
      BY Zenon, <1>4, <2>1, <2>2
  <1>9. args.start = None => first_version \notin onchain
    BY Zenon, <1>1 DEF CreateInv, FileInv
  <1>10. FilesWellFormed'
    <2>1. \A i \in DOMAIN files' : i < Len(files') => i < n + 1
      BY Zenon, <1>4
    <2> QED
      BY Zenon, <1>1, <1>7, <1>8, <1>9, <2>1 DEF FilesWellFormed
  <1>11. version' = first_version' + Len(files')
    BY <1>1, <1>3, <1>4, <1>6, <1>7
  <1>12. Distinct(<<>>)
    BY DEF Distinct
  <1>13. pc' # "new"
    BY <1>1
  <1> QED
    BY Zenon, <1>1, <1>7, <1>8, <1>9, <1>10, <1>11, <1>12, <1>13 DEF FileInv

\* Every step keeps what the files are.
LEMMA FileStep ==
    ASSUME CreateInv, Next
    PROVE  FileInv'
  <1>1. CASE SearchVersion
    <2>1. /\ files = <<>> /\ files' = <<>> /\ tree_nodes' = tree_nodes /\ onchain' = onchain
          /\ args' = args
      BY Zenon, <1>1 DEF SearchVersion, CreateInv, StageInv, building
    <2>2. /\ version' \in Nat /\ pc' \in {"search", "read"}
          /\ pc' = "read" => version' \notin onchain
      BY <1>1 DEF SearchVersion, Probe, CreateInv, StageInv
    <2>3. first_version' = version' /\ FilesWellFormed'
      BY <2>1 DEF first_version, FilesWellFormed
    <2>4. version' = first_version' + Len(files')
      <3>1. \A v \in Nat : v = v + Len(<<>>)
        OBVIOUS
      <3> QED
        BY Zenon, <2>1, <2>2, <2>3, <3>1
    <2>5. Distinct(tree_nodes')
      BY <2>1 DEF CreateInv, FileInv
    <2>6. DOMAIN files' = {}
      BY <2>1
    <2>7. pc' # "new" /\ (pc' = "read" => first_version' \notin onchain')
      BY Zenon, <2>1, <2>2, <2>3
    <2>8. \A i \in DOMAIN files' :
            /\ files'[i].max_total_claim = Sums(files'[i].tree_nodes, People, "total")
            /\ pc' # "done" => files'[i].max_num_nodes <= args'.max_nodes_per_tree
      BY <2>6
    <2> QED
      BY Zenon, <2>2, <2>3, <2>4, <2>5, <2>7, <2>8 DEF FileInv
  <1>2. CASE ReadCsv
    BY Zenon, <1>2, FilesKept DEF ReadCsv, CreateInv
  <1>3. CASE TrimRow
    BY <1>3, FilesKept DEF TrimRow, CreateInv
  <1>4. CASE Trimmed
    BY Zenon, <1>4, FilesKept DEF Trimmed, CreateInv
  <1>5. CASE CutShard
    <2>1. /\ tree_nodes = <<>> /\ args \in Args /\ csv \in Seq(Node)
      BY <1>5 DEF CutShard, CreateInv, StageInv
    <2>2. args.max_nodes_per_tree \in Nat /\ Len(csv) \in Nat
      BY <2>1, SizeNat
    <2>3. last_index \in Nat /\ last_index <= args.max_nodes_per_tree
      BY <2>2 DEF last_index
    <2>4. Len(tree_nodes) + last_index <= args.max_nodes_per_tree
      BY <2>1, <2>3
    <2> QED
      BY Zenon, <1>5, <2>4, FilesKept DEF CutShard, CreateInv
  <1>6. CASE CombineRow
    <2>1. CASE Converts(Head(csv))
      <3> DEFINE n == from_csv(Head(csv))
                 l == Len(tree_nodes)
                 m == Len(tree_nodes')
      <3>1. /\ batch > 0 /\ tree_nodes' = CombineInto(tree_nodes, n) /\ batch' = batch - 1
            /\ pc' = pc /\ files' = files /\ version' = version /\ args' = args
            /\ onchain' = onchain /\ csv # <<>>
        BY SMTT(30), <1>6, <2>1 DEF CombineRow, CreateInv, StageInv
      <3>2. /\ csv \in Seq(Node) /\ tree_nodes \in Seq(Node) /\ args \in Args /\ batch \in Nat
            /\ Head(csv) \in Node /\ Distinct(tree_nodes)
        BY Zenon, <3>1, FrontRow DEF CreateInv, StageInv, FileInv
      <3>3. n \in Node
        BY Zenon, <2>1, <3>2, ConvertScales
      <3>4. /\ tree_nodes' \in Seq(Node) /\ Distinct(tree_nodes') /\ m <= l + 1
        BY Zenon, <3>1, <3>2, <3>3, CombineIntoAdds
      <3>5. pc' = "new" => m + batch' <= args.max_nodes_per_tree
        <4>1. pc = "new" => l + batch <= args.max_nodes_per_tree
          BY DEF CreateInv, FileInv
        <4>2. l \in Nat /\ m \in Nat /\ args.max_nodes_per_tree \in Nat
          BY <3>2, <3>4, SizeNat
        <4>3. m + (batch - 1) <= l + batch
          <5> HIDE DEF l, m
          <5> QED
            BY <3>1, <3>2, <3>4, <4>2
        <4>4. m + (batch - 1) \in Int /\ l + batch \in Int
          BY SMTT(30), <3>2, <4>2
        <4> QED
          BY <3>1, <4>1, <4>2, <4>3, <4>4
      <3>6. FilesWellFormed' /\ first_version' = first_version
        BY Zenon, <3>1 DEF CreateInv, FileInv, FilesWellFormed, first_version
      <3> QED
        BY Zenon, <3>1, <3>4, <3>5, <3>6 DEF CreateInv, FileInv
    <2>2. CASE ~Converts(Head(csv))
      BY <1>6, <2>2, FilesKept DEF CombineRow, Panic, building, CreateInv
    <2> QED
      BY Zenon, <2>1, <2>2
  <1>7. CASE WriteTree
    <2>1. CASE Creatable(tree_nodes)
      BY Zenon, <1>7, <2>1, FileWritten
    <2>2. CASE ~Creatable(tree_nodes)
      BY Zenon, <1>7, <2>2, FilesKept DEF WriteTree, Panic, building, CreateInv
    <2> QED
      BY <2>1, <2>2
  <1>8. CASE ShardsWritten
    <2>1. pc' \in {"new_test", "done"} /\ pc = "shard"
      BY <1>8 DEF ShardsWritten
    <2> QED
      BY <1>8, <2>1, FilesKept DEF ShardsWritten, CreateInv
  <1>9. CASE Terminated
    BY <1>9, FilesKept DEF Terminated, vars, building, CreateInv
  <1> QED
    BY Zenon, <1>1, <1>2, <1>3, <1>4, <1>5, <1>6, <1>7, <1>8, <1>9 DEF Next
-----------------------------------------------------------------------------
(***************************************************************************)
(* create-merkle-tree on its own.                                          *)
(***************************************************************************)

\* A CSV of any length is a sequence of rows.
LEMMA CsvsAreSequences == ASSUME NEW S, NEW n, NEW s \in Csvs(S, n) PROVE s \in Seq(S)
  <1>1. PICK len \in 0..n : s \in [1..len -> S]
    BY DEF Csvs
  <1>2. len \in Nat
    OBVIOUS
  <1> QED
    BY <1>1, <1>2

\* The command starts with nothing read and nothing written.
LEMMA StartCreate ==
    ASSUME Start, rows \in Seq(Row), pc \in {"aggregate", "search", "read"},
           pc = "read" => args.start # None
    PROVE  CreateInv
  <1>1. version \in Nat
    BY CsvAssumption DEF Start, Args, OrZero
  <1>2. StageInv
    BY <1>1 DEF Start, StageInv
  <1>3. SumInv
    BY DEF SumInv
  <1>4. FileInv
    <2>1. files = <<>> /\ tree_nodes = <<>>
      BY Zenon DEF Start
    <2>2. FilesWellFormed /\ Distinct(tree_nodes) /\ first_version = version
      BY <2>1 DEF FilesWellFormed, Distinct, first_version
    <2>3. version = first_version + Len(files)
      BY <1>1, <2>1, <2>2
    <2>4. \A i \in DOMAIN files : FALSE
      BY <2>1
    <2> QED
      BY <2>2, <2>3, <2>4 DEF FileInv
  <1> QED
    BY Zenon, <1>2, <1>3, <1>4 DEF CreateInv

\* So does the command that reads the CSV it is given.
LEMMA InitCreate == ASSUME Init PROVE CreateInv
  <1>1. rows \in Seq(CsvRows)
    BY CsvsAreSequences DEF Init
  <1>2. rows \in Seq(Row)
    BY <1>1, CsvAssumption
  <1> QED
    BY <1>2, StartCreate DEF Init

\* The invariant is inductive.
LEMMA NextCreate == ASSUME CreateInv, [Next]_vars PROVE CreateInv'
  <1>1. CASE Next
    BY Zenon, <1>1, StageStep, SumStep, FileStep DEF CreateInv
  <1>2. CASE UNCHANGED vars
    <2> USE <1>2 DEF vars, building
    <2>1. StageInv'
      BY Zenon DEF CreateInv, StageInv
    <2>2. SumInv'
      <3>1. Scale' = Scale
        BY DEF Scale
      <3>2. \A C : Counting(C)' = Counting(C)
        BY Zenon DEF Counting
      <3>3. \A C, k : Due(C, k)' = Due(C, k)
        BY Zenon, <3>2 DEF Due, Wanted
      <3>4. \A C, k : InFiles(C, k)' = InFiles(C, k)
        BY Zenon DEF InFiles
      <3> QED
        BY Zenon, <3>1, <3>2, <3>3, <3>4 DEF CreateInv, SumInv
    <2>3. FileInv'
      BY Zenon DEF CreateInv, FileInv, FilesWellFormed, first_version
    <2> QED
      BY Zenon, <2>1, <2>2, <2>3 DEF CreateInv
  <1> QED
    BY <1>1, <1>2

\* It implies that nothing is lost.
LEMMA CreateLosesNothing == ASSUME CreateInv PROVE NothingLost
  <1> SUFFICES ASSUME pc = "done"
               PROVE  /\ \A c \in People, k \in {"unlocked", "locked"} :
                           InFiles({c}, k) = Scale * Wanted({c}, k)
                      /\ SumFunction([i \in DOMAIN files |-> files[i].max_total_claim])
                           = Scale * Wanted(People, "total")
    BY Zenon DEF NothingLost
  <1>1. StageInv /\ csv = <<>> /\ tree_nodes = <<>>
    BY DEF CreateInv, StageInv
  <1>2. ASSUME NEW C \in SUBSET People, NEW k \in Columns
        PROVE  InFiles(C, k) = Scale * Wanted(C, k)
    <2>1. InFiles(C, k) + Sums(tree_nodes, C, k) + Scale * Sums(csv, C, k) = Scale * Wanted(C, k)
      BY DEF CreateInv, SumInv, Due
    <2>2. Sums(tree_nodes, C, k) = 0 /\ Sums(csv, C, k) = 0
      BY Zenon, <1>1, SumsNone
    <2>3. InFiles(C, k) \in Nat /\ Scale \in Nat
      BY <1>1, SumsNat
    <2>4. InFiles(C, k) + 0 + Scale * 0 = InFiles(C, k)
      BY <2>3, ScaleSplits
    <2> QED
      BY Zenon, <2>1, <2>2, <2>4
  <1>3. /\ "unlocked" \in Columns /\ "locked" \in Columns /\ "total" \in Columns
        /\ People \in SUBSET People /\ \A c \in People : {c} \in SUBSET People
    BY Zenon DEF Columns
  <1>4. [i \in DOMAIN files |-> files[i].max_total_claim]
          = [i \in DOMAIN files |-> Sums(files[i].tree_nodes, People, "total")]
    BY Zenon DEF CreateInv, FileInv
  <1>5. SumFunction([i \in DOMAIN files |-> files[i].max_total_claim]) = InFiles(People, "total")
    BY <1>4 DEF InFiles
  <1> QED
    BY Zenon, <1>2, <1>3, <1>5

\* create-merkle-tree loses and invents no token: whatever the rows, the size
\* of the shards, the test list and the scale, the files of a finished run hold
\* what the rows add up to.
THEOREM TreesLoseNothing == Spec => []NothingLost
  <1>1. Init => CreateInv
    BY InitCreate
  <1>2. CreateInv /\ [Next]_vars => CreateInv'
    BY NextCreate
  <1>3. CreateInv => NothingLost
    BY Zenon, CreateLosesNothing
  <1> QED
    BY <1>1, <1>2, <1>3, PTL DEF Spec

\* Whenever the run stops, each file it left has one leaf per claimant, no more
\* leaves than asked for and the version after that of the file before it.
THEOREM TreeFilesWellFormed == Spec => []FilesWellFormed
  <1>1. Init => CreateInv
    BY InitCreate
  <1>2. CreateInv /\ [Next]_vars => CreateInv'
    BY NextCreate
  <1>3. CreateInv => FilesWellFormed
    BY Zenon DEF CreateInv, FileInv
  <1> QED
    BY <1>1, <1>2, <1>3, PTL DEF Spec
-----------------------------------------------------------------------------
(***************************************************************************)
(* Merging the markets' rows.                                              *)
(***************************************************************************)

\* A row's share in the sum of a claimant and a mint.
MarketTerm(e, m, c, k) == IF e.mint = m /\ e.claimant = c THEN Value(e, k) ELSE 0
MarketTerms(entries, m, c, k) == [i \in DOMAIN entries |-> MarketTerm(entries[i], m, c, k)]

\* It is a natural.
LEMMA MarketTermNat ==
    ASSUME NEW m, NEW c, NEW k \in Columns, NEW e \in MarketRows
    PROVE  MarketTerm(e, m, c, k) \in Nat
  <1>1. OrZero(e.locked_amount) \in Nat /\ e.amount \in Nat
    BY Zenon, MarketAssumption DEF OrZero
  <1> HIDE DEF OrZero
  <1> QED
    BY <1>1 DEF MarketTerm, Value, Columns

\* The sum over a market is that of its terms.
LEMMA MarketSumsOfTerms ==
    ASSUME NEW m, NEW c, NEW k \in Columns, NEW entries \in Seq(MarketRows)
    PROVE  /\ MarketTerms(entries, m, c, k) \in Seq(Int)
           /\ Len(MarketTerms(entries, m, c, k)) = Len(entries)
           /\ MarketSums(entries, m, c, k) = SumFunction(MarketTerms(entries, m, c, k))
           /\ MarketSums(entries, m, c, k) \in Nat
  <1> DEFINE t == MarketTerms(entries, m, c, k)
  <1>1. \A i \in DOMAIN entries : /\ entries[i] \in MarketRows
                                  /\ MarketTerm(entries[i], m, c, k) \in Nat
    BY MarketTermNat
  <1>2. t \in Seq(Int) /\ Len(t) = Len(entries) /\ t \in [DOMAIN entries -> Nat]
    BY <1>1 DEF MarketTerms
  <1>3. MarketSums(entries, m, c, k) = SumFunction(t)
    BY Zenon DEF MarketSums, MarketTerms, MarketTerm
  <1>4. IsFiniteSet(DOMAIN entries)
    BY Zenon, FiniteDomain
  <1>5. SumFunction(t) \in Nat
    BY Zenon, <1>2, <1>4, SumNat
  <1> QED
    BY <1>2, <1>3, <1>5

\* No rows.
LEMMA MarketSumsNone == ASSUME NEW m, NEW c, NEW k PROVE MarketSums(<<>>, m, c, k) = 0
  <1>1. [i \in DOMAIN <<>> |-> IF <<>>[i].mint = m /\ <<>>[i].claimant = c
                              THEN Value(<<>>[i], k) ELSE 0] = <<>>
    OBVIOUS
  <1> QED
    BY <1>1, SumNone DEF MarketSums

\* A row taken from the front.
LEMMA MarketSumsTail ==
    ASSUME NEW m, NEW c, NEW k \in Columns, NEW entries \in Seq(MarketRows), entries # <<>>
    PROVE  MarketSums(entries, m, c, k)
             = MarketTerm(Head(entries), m, c, k) + MarketSums(Tail(entries), m, c, k)
  <1> DEFINE t == MarketTerms(entries, m, c, k)
             u == MarketTerms(Tail(entries), m, c, k)
             x == MarketTerm(Head(entries), m, c, k)
  <1>1. /\ Tail(entries) \in Seq(MarketRows) /\ Len(Tail(entries)) = Len(entries) - 1
        /\ Len(entries) >= 1
    OBVIOUS
  <1>2. t \in Seq(Int) /\ u \in Seq(Int) /\ Len(t) = Len(entries) /\ Len(u) = Len(entries) - 1
    BY Zenon, <1>1, MarketSumsOfTerms
  <1>3. u = Tail(t) /\ Head(t) = x /\ t # <<>>
    <2>1. \A i \in 1..(Len(entries) - 1) : u[i] = Tail(t)[i]
      BY SMTT(30), <1>1, <1>2 DEF MarketTerms
    <2>2. Head(t) = x
      BY <1>1, <1>2 DEF MarketTerms
    <2> HIDE DEF t, u, x
    <2>3. t # <<>>
      BY <1>1, <1>2
    <2>4. Tail(t) \in Seq(Int) /\ Len(Tail(t)) = Len(entries) - 1
      BY <1>2, <2>3
    <2>5. \A i \in 1..Len(u) : u[i] = Tail(t)[i]
      BY <1>2, <2>1
    <2>6. u = Tail(t)
      BY Zenon, <1>2, <2>4, <2>5, SameSequence
    <2> QED
      BY <2>2, <2>3, <2>6
  <1> HIDE DEF t, u
  <1>4. SumFunction(t) = Head(t) + SumFunction(u)
    BY Zenon, <1>2, <1>3, SumTail
  <1> QED
    BY Zenon, <1>1, <1>3, <1>4, MarketSumsOfTerms DEF t, u

\* A claimant without a row.
LEMMA SumsAbsent ==
    ASSUME NEW c, NEW k \in Columns, NEW entries \in Seq(Node), c \notin Names(entries)
    PROVE  Sums(entries, {c}, k) = 0
  <1> DEFINE t == Terms(entries, {c}, k)
  <1>1. \A i \in DOMAIN entries : t[i] = 0
    BY DEF Terms, Term, Names
  <1>2. IsFiniteSet(DOMAIN entries)
    BY FiniteDomain
  <1>3. t \in [DOMAIN entries -> Int]
    <2>1. DOMAIN t = DOMAIN entries /\ t = [i \in DOMAIN entries |-> t[i]]
      BY DEF Terms
    <2> HIDE DEF t
    <2> QED
      BY <1>1, <2>1
  <1>4. SumFunction(t) = 0
    <2> HIDE DEF t
    <2> QED
      BY Zenon, <1>1, <1>2, <1>3, SumOfZeros
  <1> QED
    BY Zenon, <1>4, SumsOfTerms

\* The claimants in the order of the map.
LEMMA SortedKeys ==
    /\ Len(SortedPubkeys) \in Nat /\ DOMAIN SortedPubkeys = 1..Len(SortedPubkeys)
    /\ \A i \in DOMAIN SortedPubkeys : i \in Nat /\ ~(i < 1) /\ SortedPubkeys[i] \in Claimants
  <1>1. SortedPubkeys \in Seq(Claimants)
    BY Zenon, MarketAssumption
  <1> QED
    BY <1>1

\* What a record of the map holds.
Held == {None} \cup [amount : Nat, locked : Nat]

\* The map after a row holds that row more of its claimant and mint.
LEMMA MergeAdds ==
    ASSUME groups \in [Mints -> [Claimants -> Held]],
           NEW e \in MarketRows, e.claimant \in Claimants,
           add(Acc(e.mint, e.claimant), e).amount # None,
           add(Acc(e.mint, e.claimant), e).locked # None,
           groups' = [groups EXCEPT ![e.mint][e.claimant] = add(Acc(e.mint, e.claimant), e)]
    PROVE  /\ groups' \in [Mints -> [Claimants -> Held]]
           /\ \A m \in Mints, c \in Claimants, k \in {"unlocked", "locked"} :
                /\ Merged(m, c, k) \in Nat
                /\ Merged(m, c, k)' = Merged(m, c, k) + MarketTerm(e, m, c, k)
  <1> DEFINE acc == Acc(e.mint, e.claimant)
             sum == add(acc, e)
             x == e.amount
             y == OrZero(e.locked_amount)
  <1>1. e.mint \in Mints /\ x \in Nat /\ y \in Nat /\ None \notin Nat
    <2>1. /\ e.mint \in Mints /\ e.amount \in Nat /\ e.locked_amount \in Nat \cup {None}
          /\ None \notin Int
      BY Zenon, MarketAssumption, CsvAssumption
    <2> QED
      BY <2>1 DEF OrZero
  <1>2. \A m \in Mints, c \in Claimants : Acc(m, c) \in [amount : Nat, locked : Nat]
    <2>1. \A m \in Mints, c \in Claimants : groups[m][c] \in Held
      BY Zenon
    <2> QED
      BY Zenon, <2>1 DEF Acc, Held
  <1>3. acc.amount \in Nat /\ acc.locked \in Nat
    BY Zenon, <1>1, <1>2
  <1>4. /\ sum = [amount |-> OrNone(acc.amount + x), locked |-> OrNone(acc.locked + y)]
        /\ OrNone(acc.amount + x) = acc.amount + x /\ OrNone(acc.locked + y) = acc.locked + y
    BY Zenon DEF add, OrNone
  <1> HIDE DEF acc, x, y
  <1>5. sum \in [amount : Nat, locked : Nat] /\ sum.amount = acc.amount + x
        /\ sum.locked = acc.locked + y /\ sum # None
    <2>1. sum = [amount |-> acc.amount + x, locked |-> acc.locked + y]
      BY Zenon, <1>4
    <2>2. acc.amount + x \in Nat /\ acc.locked + y \in Nat
      BY SMTT(30), <1>1, <1>3
    <2>3. None \notin [amount : Nat, locked : Nat]
      BY Zenon, MarketAssumption
    <2> HIDE DEF sum
    <2> QED
      BY SMTT(30), <2>1, <2>2, <2>3
  <1>6. groups' \in [Mints -> [Claimants -> Held]]
    <2> HIDE DEF sum
    <2>1. sum \in Held
      BY Zenon, <1>5 DEF Held
    <2> QED
      BY Zenon, <1>1, <2>1 DEF sum, acc
  <1>7. ASSUME NEW m \in Mints, NEW c \in Claimants
        PROVE  groups'[m][c] = IF m = e.mint /\ c = e.claimant THEN sum ELSE groups[m][c]
    <2>1. groups' = [groups EXCEPT ![e.mint][e.claimant] = sum]
      BY Zenon DEF acc
    <2> HIDE DEF sum
    <2> QED
      BY SMTT(30), <1>1, <2>1
  <1>8. ASSUME NEW m \in Mints, NEW c \in Claimants, NEW k \in {"unlocked", "locked"}
        PROVE  /\ Merged(m, c, k) \in Nat
               /\ Merged(m, c, k)' = Merged(m, c, k) + MarketTerm(e, m, c, k)
    <2>1. Merged(m, c, k) \in Nat
      <3>1. Acc(m, c) \in [amount : Nat, locked : Nat]
        BY Zenon, <1>2
      <3> QED
        BY Zenon, <3>1 DEF Merged
    <2> HIDE DEF sum
    <2>2. CASE m = e.mint /\ c = e.claimant
      <3>1. Acc(m, c)' = sum /\ Acc(m, c) = acc
        BY Zenon, <1>5, <1>7, <2>2 DEF Acc, acc
      <3>2. MarketTerm(e, m, c, k) = IF k = "unlocked" THEN x ELSE y
        BY <2>2 DEF MarketTerm, Value, x, y
      <3> QED
        BY Zenon, <1>5, <2>1, <3>1, <3>2 DEF Merged
    <2>3. CASE ~(m = e.mint /\ c = e.claimant)
      <3>1. Acc(m, c)' = Acc(m, c)
        BY Zenon, <1>7, <2>3 DEF Acc
      <3>2. MarketTerm(e, m, c, k) = 0
        BY Zenon, <2>3 DEF MarketTerm
      <3>3. Merged(m, c, k)' = Merged(m, c, k)
        BY Zenon, <3>1 DEF Merged
      <3> QED
        BY <2>1, <3>2, <3>3
    <2> QED
      BY Zenon, <2>1, <2>2, <2>3
  <1> QED
    BY Zenon, <1>6, <1>8

\* The claimants of a sequence of rows, and when no two rows share one.
LEMMA NamesNone == Names(<<>>) = {} /\ Distinct(<<>>)
  BY DEF Names, Distinct

\* A row taken from the front.
LEMMA NamesTail ==
    ASSUME NEW s \in Seq(Node), s # <<>>
    PROVE  /\ Names(s) = {Head(s).claimant} \cup Names(Tail(s))
           /\ Distinct(s) => Distinct(Tail(s)) /\ Head(s).claimant \notin Names(Tail(s))
  <1> DEFINE t == Tail(s)
             n == Len(s)
  <1>1. /\ n \in Nat \ {0} /\ DOMAIN s = 1..n /\ DOMAIN t = 1..(n - 1) /\ Head(s) = s[1]
        /\ \A i \in 1..(n - 1) : t[i] = s[i + 1]
    OBVIOUS
  <1> HIDE DEF t, n
  <1>2. /\ 1 \in DOMAIN s /\ \A i \in DOMAIN t : i \in Int /\ i + 1 \in DOMAIN s /\ i + 1 # 1
        /\ \A i \in DOMAIN s : i = 1 \/ (i - 1 \in DOMAIN t /\ s[i] = t[i - 1])
    BY SMTT(30), <1>1
  <1>3. Names(s) = {Head(s).claimant} \cup Names(t)
    <2>1. \A i \in DOMAIN s : s[i].claimant \in {Head(s).claimant} \cup Names(t)
      BY Zenon, <1>1, <1>2 DEF Names
    <2>2. \A i \in DOMAIN t : t[i].claimant \in Names(s)
      BY <1>1, <1>2 DEF Names
    <2>3. Head(s).claimant \in Names(s)
      BY Zenon, <1>1, <1>2 DEF Names
    <2> QED
      BY Zenon, <2>1, <2>2, <2>3 DEF Names
  <1>4. ASSUME Distinct(s)
        PROVE  Distinct(t) /\ Head(s).claimant \notin Names(t)
    <2>1. ASSUME NEW i \in DOMAIN t, NEW j \in DOMAIN t, t[i].claimant = t[j].claimant
          PROVE  i = j
      <3>1. s[i + 1].claimant = s[j + 1].claimant /\ i + 1 \in DOMAIN s /\ j + 1 \in DOMAIN s
        BY <1>1, <1>2, <2>1
      <3>2. i + 1 = j + 1
        BY Zenon, <1>4, <3>1 DEF Distinct
      <3> QED
        BY <1>2, <3>2
    <2>2. ASSUME NEW i \in DOMAIN t, t[i].claimant = Head(s).claimant
          PROVE  FALSE
      <3>1. s[i + 1].claimant = s[1].claimant /\ i + 1 \in DOMAIN s /\ i + 1 # 1
        BY Zenon, <1>1, <1>2, <2>2
      <3> QED
        BY Zenon, <1>2, <1>4, <3>1 DEF Distinct
    <2> QED
      BY <2>1, <2>2 DEF Distinct, Names
  <1> QED
    BY Zenon, <1>3, <1>4 DEF t

\* A row added at the end.
LEMMA NamesAppend ==
    ASSUME NEW s \in Seq(Node), NEW e
    PROVE  /\ Names(Append(s, e)) = Names(s) \cup {e.claimant}
           /\ Distinct(s) /\ e.claimant \notin Names(s) => Distinct(Append(s, e))
  <1> DEFINE t == Append(s, e)
             n == Len(s) + 1
  <1>1. /\ DOMAIN t = DOMAIN s \cup {n} /\ t[n] = e
        /\ \A i \in DOMAIN s : t[i] = s[i]
    OBVIOUS
  <1> HIDE DEF t, n
  <1>2. Names(t) = Names(s) \cup {e.claimant}
    BY <1>1 DEF Names
  <1>3. Distinct(s) /\ e.claimant \notin Names(s) => Distinct(t)
    BY <1>1 DEF Distinct, Names
  <1> QED
    BY <1>2, <1>3 DEF t

\* What the steps of the merge leave as it is for create-merkle-tree.
LEMMA MergingKeeps ==
    ASSUME CreateInv, pc \in {"aggregate", "emit"}, args' = args, UNCHANGED building,
           onchain' = onchain, version' = version, files' = files, rows' \in Seq(Row),
           pc' \in {"aggregate", "emit", "search", "read", "panic"},
           pc' = "read" => args.start # None
    PROVE  CreateInv'
  <1> USE DEF building
  <1>1. /\ files = <<>> /\ files' = <<>> /\ csv' = <<>> /\ new_entries' = <<>>
        /\ tree_nodes' = <<>> /\ batch' = 0
    BY Zenon DEF CreateInv, StageInv
  <1>2. StageInv'
    BY Zenon, <1>1 DEF CreateInv, StageInv
  <1>3. SumInv'
    BY Zenon DEF SumInv
  <1>4. FileInv'
    <2>1. FilesWellFormed' /\ first_version' = first_version
      BY Zenon, <1>1 DEF CreateInv, FileInv, FilesWellFormed, first_version
    <2>2. Distinct(tree_nodes')
      BY Zenon, <1>1, NamesNone
    <2>3. version' = first_version' + Len(files')
      BY Zenon, <2>1 DEF CreateInv, FileInv
    <2>4. \A i \in DOMAIN files' : FALSE
      BY <1>1
    <2>5. pc' # "new" /\ (pc' \in {"read", "trim", "shard", "new", "new_test"} => args'.start # None)
      BY DEF CreateInv
    <2> QED
      BY Zenon, <2>1, <2>2, <2>3, <2>4, <2>5 DEF FileInv
  <1> QED
    BY Zenon, <1>2, <1>3, <1>4 DEF CreateInv

\* The merge leads to create-merkle-tree with a CSV of its own.
LEMMA AggregateCreate ==
    ASSUME AggregateInv, AggregateNext
    PROVE  CreateInv'
  <1>1. CreateInv /\ rows \in Seq(Row)
    BY Zenon DEF AggregateInv, CreateInv, StageInv
  <1>2. CASE AggregateFails
    BY <1>1, <1>2, MergingKeeps DEF AggregateFails, Panic
  <1>3. CASE MergeRow
    <2>1. /\ args' = args /\ UNCHANGED building /\ onchain' = onchain /\ version' = version
          /\ files' = files /\ rows' = rows /\ pc = "aggregate" /\ pc' \in {"aggregate", "panic"}
      BY <1>3 DEF MergeRow, vars, Panic
    <2> QED
      BY Zenon, <1>1, <2>1, MergingKeeps
  <1>4. CASE AllMerged
    BY Zenon, <1>1, <1>4, MergingKeeps DEF AllMerged
  <1>5. CASE EmitRow
    <2>1. /\ args' = args /\ UNCHANGED building /\ onchain' = onchain /\ version' = version
          /\ files' = files /\ pc' = pc /\ pc = "emit" /\ next_key <= Len(SortedPubkeys)
      BY Zenon, <1>5 DEF EmitRow
    <2> DEFINE c == SortedPubkeys[next_key]
               sum == groups[mint][c]
    <2>2. /\ next_key \in 1..(Len(SortedPubkeys) + 1) /\ mint \in Mints
          /\ groups \in [Mints -> [Claimants -> Held]]
      BY Zenon, <2>1 DEF AggregateInv, MergeInv, Held
    <2>3. c \in Claimants
      BY <2>1, <2>2, SortedKeys
    <2>4. sum \in Held
      BY Zenon, <2>2, <2>3
    <2>5. sum # None => [claimant |-> c, amount |-> sum.amount, locked_amount |-> sum.locked] \in Row
      BY Zenon, <2>3, <2>4 DEF Held, Row
    <2>6. rows' = IF sum = None THEN rows
                  ELSE Append(rows, [claimant |-> c, amount |-> sum.amount,
                                     locked_amount |-> sum.locked])
      BY Zenon, <1>5 DEF EmitRow
    <2> HIDE DEF c, sum
    <2>7. rows' \in Seq(Row)
      BY <1>1, <2>5, <2>6
    <2> QED
      BY Zenon, <1>1, <2>1, <2>7, MergingKeeps
  <1>6. CASE Emitted
    <2>1. /\ args' = args /\ UNCHANGED building /\ onchain' = onchain /\ version' = version
          /\ files' = files /\ rows' = rows /\ pc = "emit"
          /\ pc' = IF args.start = None THEN "search" ELSE "read"
      BY <1>6 DEF Emitted
    <2> QED
      BY Zenon, <1>1, <2>1, MergingKeeps
  <1>7. CASE Next /\ UNCHANGED merging
    BY Zenon, <1>1, <1>7, NextCreate
  <1> QED
    BY Zenon, <1>2, <1>3, <1>4, <1>5, <1>6, <1>7 DEF AggregateNext

\* The map holds naturals.
LEMMA MergedNat ==
    ASSUME groups \in [Mints -> [Claimants -> Held]], NEW m \in Mints, NEW c \in Claimants, NEW k
    PROVE  Merged(m, c, k) \in Nat
  <1>1. groups[m][c] \in Held
    BY Zenon
  <1>2. Acc(m, c) \in [amount : Nat, locked : Nat]
    BY Zenon, <1>1 DEF Acc, Held
  <1> QED
    BY <1>2 DEF Merged

\* A row is merged.
LEMMA MergeRowStep ==
    ASSUME AggregateInv, MergeRow
    PROVE  MergeInv'
  <1> DEFINE e == Head(unmerged)
             sum == add(Acc(e.mint, e.claimant), e)
             ok == e.claimant \in Claimants /\ sum.amount # None /\ sum.locked # None
  <1>1. MergeInv /\ pc = "aggregate" /\ unmerged # <<>>
    BY Zenon DEF AggregateInv, MergeRow
  <1>2. CASE ~ok
    <2>1. pc' = "panic" /\ UNCHANGED merging /\ rows' = rows
      BY Zenon, <1>2 DEF MergeRow, Panic
    <2> QED
      BY Zenon, <1>1, <2>1 DEF MergeInv, merging
  <1>3. CASE ok
    <2>1. /\ groups' = [groups EXCEPT ![e.mint][e.claimant] = sum] /\ unmerged' = Tail(unmerged)
          /\ rows' = rows /\ pc' = pc /\ inputs' = inputs /\ mint' = mint /\ next_key' = next_key
      BY Zenon, <1>3 DEF MergeRow, vars
    <2>2. /\ unmerged \in Seq(MarketRows) /\ groups \in [Mints -> [Claimants -> Held]]
          /\ inputs # <<>> /\ inputs \in Seq(MarketRows)
      BY Zenon, <1>1 DEF MergeInv, Held
    <2>3. e \in MarketRows /\ Tail(unmerged) \in Seq(MarketRows)
      BY <1>1, <2>2, FrontRow
    <2>4. /\ groups' \in [Mints -> [Claimants -> Held]]
          /\ \A m \in Mints, c \in Claimants, k \in {"unlocked", "locked"} :
                /\ Merged(m, c, k) \in Nat
                /\ Merged(m, c, k)' = Merged(m, c, k) + MarketTerm(e, m, c, k)
      <3> HIDE DEF e
      <3> QED
        BY Zenon, <1>3, <2>1, <2>2, <2>3, MergeAdds
    <2>5. ASSUME NEW m \in Mints, NEW c \in Claimants, NEW k \in {"unlocked", "locked"}
          PROVE  Merged(m, c, k)' + MarketSums(unmerged', m, c, k) = MarketSums(inputs, m, c, k)
      <3> DEFINE a == Merged(m, c, k)
                 b == MarketTerm(e, m, c, k)
                 d == MarketSums(Tail(unmerged), m, c, k)
      <3>1. k \in Columns
        BY DEF Columns
      <3>2. b \in Nat /\ d \in Nat /\ a \in Nat
        BY Zenon, <2>3, <2>4, <3>1, MarketTermNat, MarketSumsOfTerms
      <3>3. MarketSums(unmerged, m, c, k) = b + d
        BY Zenon, <1>1, <2>2, <3>1, MarketSumsTail
      <3>4. a + MarketSums(unmerged, m, c, k) = MarketSums(inputs, m, c, k)
        BY Zenon, <1>1, <2>2 DEF MergeInv
      <3>5. Merged(m, c, k)' = a + b /\ MarketSums(unmerged', m, c, k) = d
        BY Zenon, <2>1, <2>4
      <3> HIDE DEF a, b, d
      <3>6. (a + b) + d = a + (b + d)
        BY <3>2
      <3> QED
        BY Zenon, <3>3, <3>4, <3>5, <3>6
    <2> HIDE DEF e, sum, ok
    <2> QED
      BY Zenon, <1>1, <2>1, <2>2, <2>3, <2>4, <2>5 DEF MergeInv, Held
  <1> QED
    BY Zenon, <1>2, <1>3

\* The merged CSV gets its next row.
LEMMA EmitRowStep ==
    ASSUME AggregateInv, EmitRow
    PROVE  MergeInv'
  <1> DEFINE c == SortedPubkeys[next_key]
             sum == groups[mint][c]
             row == [claimant |-> c, amount |-> sum.amount, locked_amount |-> sum.locked]
  <1>1. /\ MergeInv /\ pc = "emit" /\ next_key <= Len(SortedPubkeys)
        /\ rows' = (IF sum = None THEN rows ELSE Append(rows, row))
        /\ next_key' = next_key + 1 /\ pc' = pc /\ inputs' = inputs /\ unmerged' = unmerged
        /\ groups' = groups /\ mint' = mint
    BY Zenon DEF AggregateInv, EmitRow
  <1>2. /\ next_key \in 1..(Len(SortedPubkeys) + 1) /\ inputs # <<>> /\ mint \in Mints
        /\ groups \in [Mints -> [Claimants -> Held]] /\ Distinct(rows)
    BY Zenon, <1>1 DEF MergeInv, Held
  <1>3. /\ Len(SortedPubkeys) \in Nat /\ DOMAIN SortedPubkeys = 1..Len(SortedPubkeys)
        /\ next_key \in DOMAIN SortedPubkeys /\ c \in Claimants
        /\ \A i \in DOMAIN SortedPubkeys : /\ SortedPubkeys[i] \in Claimants
                                           /\ SortedPubkeys[i] = c => i = next_key
    <2>1. Len(SortedPubkeys) \in Nat /\ DOMAIN SortedPubkeys = 1..Len(SortedPubkeys)
      BY SortedKeys
    <2>2. next_key \in DOMAIN SortedPubkeys
      BY <1>1, <1>2, <2>1
    <2>3. \A i \in DOMAIN SortedPubkeys : SortedPubkeys[i] \in Claimants
      BY SortedKeys
    <2>4. \A i \in DOMAIN SortedPubkeys : SortedPubkeys[i] = c => i = next_key
      BY Zenon, <2>2, MarketAssumption DEF IsInjective
    <2> QED
      BY Zenon, <2>1, <2>2, <2>3, <2>4
  <1>4. rows \in Seq(Node) /\ c \notin Names(rows) /\ sum \in Held
    <2>1. rows \in Seq(Node)
      BY Zenon, RowsAreNodes DEF AggregateInv, CreateInv, StageInv
    <2>2. next_key \in next_key..Len(SortedPubkeys)
      BY SMTT(30), <1>1, <1>2, <1>3
    <2>3. c \notin Names(rows)
      BY Zenon, <1>1, <1>2, <2>2 DEF MergeInv
    <2> QED
      BY Zenon, <1>2, <1>3, <2>1, <2>3
  <1>5. sum # None => row \in Node
    BY Zenon, <1>3, <1>4 DEF Held, Node, People
  <1>6. /\ Distinct(rows') /\ Names(rows') \subseteq Names(rows) \cup {c}
    <2>1. row.claimant = c
      BY Zenon
    <2> HIDE DEF row, c, sum
    <2> QED
      BY Zenon, <1>1, <1>2, <1>4, <1>5, <2>1, NamesAppend
  <1>7. ASSUME NEW i \in (next_key + 1)..Len(SortedPubkeys)
        PROVE  SortedPubkeys[i] \notin Names(rows')
    <2>1. i \in next_key..Len(SortedPubkeys) /\ i \in DOMAIN SortedPubkeys /\ i # next_key
      BY SMTT(30), <1>2, <1>3
    <2>2. SortedPubkeys[i] \notin Names(rows)
      BY Zenon, <1>1, <1>2, <2>1 DEF MergeInv
    <2> QED
      BY Zenon, <1>3, <1>6, <2>1, <2>2
  <1>8. ASSUME NEW i \in DOMAIN SortedPubkeys, NEW k \in {"unlocked", "locked"}
        PROVE  MarketSums(inputs, mint, SortedPubkeys[i], k)
                 = IF i < next_key + 1 THEN Sums(rows', {SortedPubkeys[i]}, k)
                                       ELSE Merged(mint, SortedPubkeys[i], k)
    <2> DEFINE d == SortedPubkeys[i]
    <2>1. k \in Columns /\ i \in Int /\ next_key \in Int
      BY <1>2, <1>3 DEF Columns
    <2>2. MarketSums(inputs, mint, d, k)
            = IF i < next_key THEN Sums(rows, {d}, k) ELSE Merged(mint, d, k)
      BY Zenon, <1>1, <1>2 DEF MergeInv
    <2>3. Sums(rows, {d}, k) \in Nat
      BY Zenon, <1>4, <2>1, SumsOfTerms
    <2>4. CASE i < next_key
      <3>1. i < next_key + 1 /\ d # c
        BY SMTT(30), <1>3, <2>1, <2>4
      <3>2. Sums(rows', {d}, k) = Sums(rows, {d}, k)
        <4>1. CASE sum = None
          BY Zenon, <1>1, <4>1
        <4>2. CASE sum # None
          <5>1. Term(row, {d}, k) = 0
            BY Zenon, <3>1 DEF Term
          <5>2. Sums(Append(rows, row), {d}, k) = Sums(rows, {d}, k) + Term(row, {d}, k)
            BY Zenon, <1>4, <1>5, <2>1, <4>2, SumsAppend
          <5> HIDE DEF row, d, sum
          <5> QED
            BY SMTT(30), <1>1, <2>3, <4>2, <5>1, <5>2
        <4> QED
          BY Zenon, <4>1, <4>2
      <3> HIDE DEF d
      <3> QED
        BY Zenon, <2>2, <2>4, <3>1, <3>2 DEF d
    <2>5. CASE i = next_key
      <3>1. d = c /\ i < next_key + 1 /\ ~(i < next_key)
        BY SMTT(30), <2>1, <2>5
      <3>2. Sums(rows, {c}, k) = 0
        BY Zenon, <1>4, <2>1, SumsAbsent
      <3>3. Sums(rows', {c}, k) = Merged(mint, c, k)
        <4>1. CASE sum = None
          BY Zenon, <1>1, <3>2, <4>1 DEF Merged, Acc
        <4>2. CASE sum # None
          <5>1. sum.amount \in Nat /\ sum.locked \in Nat
            BY Zenon, <1>4, <4>2 DEF Held
          <5>2. Term(row, {c}, k) = Merged(mint, c, k)
            <6>1. OrZero(sum.locked) = sum.locked
              BY <5>1, CsvAssumption DEF OrZero
            <6>2. Value(row, k) = IF k = "unlocked" THEN sum.amount ELSE sum.locked
              BY <6>1 DEF Value
            <6> QED
              BY Zenon, <4>2, <6>2 DEF Term, Merged, Acc
          <5>3. Sums(Append(rows, row), {c}, k) = Sums(rows, {c}, k) + Term(row, {c}, k)
            BY Zenon, <1>4, <1>5, <2>1, <4>2, SumsAppend
          <5>4. Merged(mint, c, k) \in Nat
            BY Zenon, <1>2, <1>3, MergedNat
          <5> HIDE DEF row, c, sum
          <5> QED
            BY SMTT(30), <1>1, <3>2, <4>2, <5>2, <5>3, <5>4
        <4> QED
          BY Zenon, <4>1, <4>2
      <3> HIDE DEF c, d
      <3> QED
        BY Zenon, <2>2, <3>1, <3>3 DEF d
    <2>6. CASE i > next_key
      <3>1. ~(i < next_key) /\ ~(i < next_key + 1)
        BY SMTT(30), <2>1, <2>6
      <3> QED
        BY <2>2, <3>1
    <2> QED
      BY <2>1, <2>4, <2>5, <2>6
  <1>9. next_key' \in 1..(Len(SortedPubkeys) + 1)
    BY SMTT(30), <1>1, <1>2, <1>3
  <1>10. \A d, k : Merged(mint, d, k)' = Merged(mint, d, k)
    BY Zenon, <1>1 DEF Merged, Acc
  <1> HIDE DEF c, sum, row
  <1>11. /\ inputs' \in Seq(MarketRows) /\ unmerged' \in Seq(MarketRows) /\ mint' \in Mints
         /\ groups' \in [Mints -> [Claimants -> Held]] /\ inputs' # <<>> /\ pc' = "emit"
    BY Zenon, <1>1, <1>2 DEF MergeInv
  <1>12. \A i \in next_key'..Len(SortedPubkeys) : SortedPubkeys[i] \notin Names(rows')
    BY <1>1, <1>7
  <1>13. \A i \in DOMAIN SortedPubkeys, k \in {"unlocked", "locked"} :
           MarketSums(inputs', mint', SortedPubkeys[i], k)
             = IF i < next_key' THEN Sums(rows', {SortedPubkeys[i]}, k)
                                ELSE Merged(mint, SortedPubkeys[i], k)'
    BY Zenon, <1>1, <1>8, <1>10
  <1> QED
    BY Zenon, <1>6, <1>9, <1>11, <1>12, <1>13 DEF MergeInv, Held

\* Every step keeps what is merged.
LEMMA MergeStep ==
    ASSUME AggregateInv, AggregateNext
    PROVE  MergeInv'
  <1>1. MergeInv
    BY Zenon DEF AggregateInv
  <1>2. CASE AggregateFails
    <2>1. pc' = "panic" /\ UNCHANGED merging /\ rows' = rows
      BY <1>2 DEF AggregateFails, Panic
    <2> QED
      BY Zenon, <1>1, <2>1 DEF MergeInv, merging
  <1>3. CASE MergeRow
    BY Zenon, <1>3, MergeRowStep
  <1>4. CASE AllMerged
    <2>1. /\ pc = "aggregate" /\ unmerged = <<>> /\ pc' = "emit" /\ rows' = rows
          /\ UNCHANGED merging /\ UNCHANGED groups
      BY Zenon, <1>4 DEF AllMerged, merging
    <2>2. /\ inputs # <<>> /\ mint \in Mints /\ rows = <<>> /\ next_key = 1
          /\ groups \in [Mints -> [Claimants -> Held]]
      BY Zenon, <1>1, <2>1 DEF MergeInv, Held
    <2>3. \A i \in DOMAIN SortedPubkeys : i \in Nat /\ ~(i < 1) /\ SortedPubkeys[i] \in Claimants
      BY SortedKeys
    <2>4. ASSUME NEW c \in Claimants, NEW k \in {"unlocked", "locked"}
          PROVE  MarketSums(inputs, mint, c, k) = Merged(mint, c, k)'
      <3>1. Merged(mint, c, k) + MarketSums(unmerged, mint, c, k) = MarketSums(inputs, mint, c, k)
        BY Zenon, <1>1, <2>1, <2>2 DEF MergeInv
      <3>2. MarketSums(unmerged, mint, c, k) = 0
        BY Zenon, <2>1, MarketSumsNone
      <3>3. Merged(mint, c, k) \in Nat
        BY Zenon, <2>2, MergedNat
      <3>4. Merged(mint, c, k)' = Merged(mint, c, k)
        BY Zenon, <2>1 DEF Merged, Acc, merging
      <3> QED
        BY SMTT(30), <3>1, <3>2, <3>3, <3>4
    <2>5. Names(rows') = {} /\ Distinct(rows')
      BY Zenon, <2>1, <2>2, NamesNone
    <2>6. /\ inputs' = inputs /\ unmerged' = unmerged /\ mint' = mint /\ next_key' = 1
          /\ inputs \in Seq(MarketRows) /\ unmerged \in Seq(MarketRows)
          /\ 1 \in 1..(Len(SortedPubkeys) + 1)
      BY Zenon, <1>1, <2>1, <2>2 DEF MergeInv, merging
    <2> QED
      BY Zenon, <2>1, <2>2, <2>3, <2>4, <2>5, <2>6 DEF MergeInv, Held
  <1>5. CASE EmitRow
    BY <1>5, EmitRowStep
  <1>6. CASE Emitted
    <2>1. /\ pc = "emit" /\ next_key > Len(SortedPubkeys) /\ pc' \in {"search", "read"}
          /\ rows' = rows /\ UNCHANGED merging
      BY Zenon, <1>6 DEF Emitted
    <2>2. inputs # <<>> /\ next_key \in Nat
      BY <1>1, <2>1 DEF MergeInv
    <2>3. ASSUME NEW c \in Claimants
          PROVE  \E i \in DOMAIN SortedPubkeys : SortedPubkeys[i] = c /\ i < next_key
      <3>1. PICK i \in DOMAIN SortedPubkeys : SortedPubkeys[i] = c
        BY Zenon, MarketAssumption DEF Range
      <3>2. i \in 1..Len(SortedPubkeys) /\ Len(SortedPubkeys) \in Nat
        BY SortedKeys
      <3>3. i < next_key
        BY <2>1, <2>2, <3>2
      <3> QED
        BY Zenon, <3>1, <3>3
    <2>4. \A c \in Claimants, k \in {"unlocked", "locked"} :
            MarketSums(inputs, mint, c, k) = Sums(rows, {c}, k)
      BY Zenon, <1>1, <2>1, <2>2, <2>3 DEF MergeInv
    <2> QED
      BY Zenon, <1>1, <2>1, <2>4 DEF MergeInv, merging
  <1>7. CASE Next /\ UNCHANGED merging
    <2>1. /\ pc \notin {"aggregate", "emit"} /\ pc' \notin {"aggregate", "emit"}
          /\ pc' # "panic" => pc # "panic"
      BY Zenon, <1>7 DEF Next, SearchVersion, Probe, ReadCsv, TrimRow, Trimmed, CutShard, CombineRow,
                  WriteTree, ShardsWritten, Terminated, Panic, vars
    <2>2. rows' = rows
      BY Zenon, <1>7, InputsKept
    <2> QED
      BY Zenon, <1>1, <1>7, <2>1, <2>2 DEF MergeInv, merging
  <1> QED
    BY Zenon, <1>2, <1>3, <1>4, <1>5, <1>6, <1>7 DEF AggregateNext
-----------------------------------------------------------------------------
(***************************************************************************)
(* One leaf per claimant.                                                  *)
(***************************************************************************)

\* A tree is written: its claimants are in no other file and have no row left.
LEMMA LeafWritten ==
    ASSUME AggregateInv, inputs # <<>>, inputs' = inputs, WriteTree, Creatable(tree_nodes)
    PROVE  LeafInv'
  <1> DEFINE f == new(tree_nodes)
             n == Len(files)
             T == Range(TestList)
  <1>1. /\ pc \in {"new", "new_test"} /\ files' = Append(files, f) /\ tree_nodes' = <<>>
        /\ args' = args /\ csv' = csv /\ new_entries' = new_entries
        /\ pc' = IF pc = "new" THEN "shard" ELSE "done"
    BY Zenon DEF WriteTree
  <1>2. f.tree_nodes = tree_nodes /\ files \in Seq(TreeFile)
    BY Zenon DEF new, AggregateInv, CreateInv, StageInv
  <1>3. /\ DOMAIN files' = DOMAIN files \cup {n + 1} /\ files'[n + 1].tree_nodes = tree_nodes
        /\ \A i \in DOMAIN files : files'[i] = files[i]
    BY SMTT(30), <1>1, <1>2
  <1>4. /\ OneLeafPerClaimant
        /\ \A i \in DOMAIN files :
             Names(files[i].tree_nodes) \cap (Names(tree_nodes) \cup Names(csv)) = {}
        /\ pc = "new" => Distinct(csv) /\ Names(tree_nodes) \cap Names(csv) = {}
        /\ args.should_include_test_list =>
             /\ T \cap Names(new_entries) = {}
             /\ pc = "new" => /\ T \cap (Names(tree_nodes) \cup Names(csv)) = {}
                             /\ \A i \in DOMAIN files : T \cap Names(files[i].tree_nodes) = {}
    BY Zenon, <1>1 DEF AggregateInv, LeafInv
  <1> HIDE DEF f, n, T
  <1>5. OneLeafPerClaimant'
    <2> SUFFICES ASSUME NEW i \in DOMAIN files', NEW j \in DOMAIN files', i # j
                 PROVE  Names(files'[i].tree_nodes) \cap Names(files'[j].tree_nodes) = {}
      BY Zenon DEF OneLeafPerClaimant
    <2>1. CASE i \in DOMAIN files /\ j \in DOMAIN files
      BY Zenon, <1>3, <1>4, <2>1 DEF OneLeafPerClaimant
    <2>2. CASE i \in DOMAIN files /\ j = n + 1
      BY Zenon, <1>3, <1>4, <2>2
    <2>3. CASE j \in DOMAIN files /\ i = n + 1
      BY Zenon, <1>3, <1>4, <2>3
    <2> QED
      BY Zenon, <1>3, <2>1, <2>2, <2>3
  <1>6. Names(tree_nodes') = {}
    BY <1>1, NamesNone
  <1>7. CASE pc = "new"
    <2>1. \A i \in DOMAIN files' :
            Names(files'[i].tree_nodes) \cap (Names(tree_nodes') \cup Names(csv')) = {}
      BY Zenon, <1>1, <1>3, <1>4, <1>6, <1>7
    <2>2. args.should_include_test_list =>
            /\ T \cap (Names(tree_nodes') \cup Names(csv')) = {}
            /\ \A i \in DOMAIN files' : T \cap Names(files'[i].tree_nodes) = {}
      BY Zenon, <1>1, <1>3, <1>4, <1>6, <1>7
    <2> QED
      BY Zenon, <1>1, <1>4, <1>5, <1>7, <2>1, <2>2 DEF LeafInv, T
  <1>8. CASE pc = "new_test"
    BY Zenon, <1>1, <1>4, <1>5, <1>8 DEF LeafInv, T
  <1> QED
    BY Zenon, <1>1, <1>7, <1>8

\* A row is combined: its claimant moves from the rows to the nodes.
LEMMA LeafCombined ==
    ASSUME AggregateInv, inputs # <<>>, inputs' = inputs, CombineRow, Converts(Head(csv))
    PROVE  LeafInv'
  <1> DEFINE h == Head(csv)
             n == from_csv(h)
             T == Range(TestList)
  <1>1. /\ batch > 0 /\ pc \in {"new", "new_test"} /\ tree_nodes' = CombineInto(tree_nodes, n)
        /\ csv' = Tail(csv) /\ pc' = pc /\ files' = files /\ args' = args
        /\ new_entries' = new_entries /\ csv # <<>>
    BY SMTT(30) DEF CombineRow, AggregateInv, CreateInv, StageInv
  <1>2. /\ csv \in Seq(Node) /\ tree_nodes \in Seq(Node) /\ args \in Args
        /\ h \in Node /\ Distinct(tree_nodes)
    BY Zenon, <1>1, FrontRow DEF AggregateInv, CreateInv, StageInv, FileInv
  <1>3. n \in Node /\ n.claimant = h.claimant
    BY Zenon, <1>2, ConvertScales
  <1>4. Names(tree_nodes') = Names(tree_nodes) \cup {h.claimant}
    BY Zenon, <1>1, <1>2, <1>3, CombineIntoAdds
  <1>5. /\ Names(csv) = {h.claimant} \cup Names(csv')
        /\ Distinct(csv) => Distinct(csv') /\ h.claimant \notin Names(csv')
    BY Zenon, <1>1, <1>2, NamesTail
  <1>6. Names(tree_nodes') \cup Names(csv') = Names(tree_nodes) \cup Names(csv)
    BY Zenon, <1>4, <1>5
  <1>7. /\ OneLeafPerClaimant
        /\ \A i \in DOMAIN files :
             Names(files[i].tree_nodes) \cap (Names(tree_nodes) \cup Names(csv)) = {}
        /\ pc = "new" => Distinct(csv) /\ Names(tree_nodes) \cap Names(csv) = {}
        /\ args.should_include_test_list =>
             /\ T \cap Names(new_entries) = {}
             /\ pc = "new" => /\ T \cap (Names(tree_nodes) \cup Names(csv)) = {}
                             /\ \A i \in DOMAIN files : T \cap Names(files[i].tree_nodes) = {}
    BY Zenon, <1>1 DEF AggregateInv, LeafInv
  <1> HIDE DEF h, n, T
  <1>8. pc = "new" => Distinct(csv') /\ Names(tree_nodes') \cap Names(csv') = {}
    BY <1>4, <1>5, <1>7
  <1>9. OneLeafPerClaimant'
    BY Zenon, <1>1, <1>7 DEF OneLeafPerClaimant
  <1> QED
    BY Zenon, <1>1, <1>6, <1>7, <1>8, <1>9 DEF LeafInv, T

\* A step that changes neither rows, nodes nor files and enters no stage of the
\* loop over the shards.
LEMMA LeafKept ==
    ASSUME LeafInv, inputs' = inputs, args' = args, files' = files, UNCHANGED building,
           pc' \in {"read", "trim", "shard", "new", "new_test"} => pc' = pc
    PROVE  LeafInv'
  <1>1. inputs # <<>> /\ OneLeafPerClaimant => OneLeafPerClaimant'
    BY Zenon DEF OneLeafPerClaimant
  <1> QED
    BY Zenon, <1>1 DEF LeafInv, building

\* No files, no claimant in two of them.
LEMMA NoFilesApart ==
    ASSUME files' = <<>>
    PROVE  OneLeafPerClaimant' /\ DOMAIN files' = {}
  <1>1. DOMAIN files' = {}
    OBVIOUS
  <1> QED
    BY Zenon, <1>1 DEF OneLeafPerClaimant

\* As long as nothing is read there is nothing to tell apart.
LEMMA LeafNothingRead ==
    ASSUME CreateInv, pc \in {"aggregate", "emit", "search"}, inputs' = inputs, files' = files,
           UNCHANGED building,
           pc' \in {"aggregate", "emit", "search", "read", "panic"}
    PROVE  LeafInv'
  <1>1. files' = <<>> /\ csv' = <<>> /\ new_entries' = <<>> /\ tree_nodes' = <<>>
    BY Zenon DEF CreateInv, StageInv, building
  <1>2. OneLeafPerClaimant'
    BY Zenon, <1>1, NoFilesApart
  <1>3. /\ Names(csv') = {} /\ Names(new_entries') = {} /\ Distinct(csv')
    BY Zenon, <1>1, NamesNone
  <1> QED
    BY Zenon, <1>2, <1>3 DEF LeafInv

\* Every step of create-merkle-tree keeps the claimants apart.
LEMMA LeafNext ==
    ASSUME AggregateInv, Next, UNCHANGED merging, inputs # <<>>
    PROVE  LeafInv'
  <1> DEFINE T == Range(TestList)
  <1>1. /\ CreateInv /\ MergeInv /\ LeafInv /\ StageInv /\ inputs' = inputs /\ args' = args
    BY InputsKept DEF AggregateInv, CreateInv, merging
  <1>2. CASE SearchVersion
    <2>1. pc = "search" /\ pc' \in {"search", "read"} /\ files' = files /\ UNCHANGED building
      BY <1>2 DEF SearchVersion, Probe
    <2> QED
      BY Zenon, <1>1, <2>1, LeafNothingRead
  <1>3. CASE ReadCsv
    <2>1. /\ csv' = rows /\ new_entries' = <<>> /\ tree_nodes' = <<>> /\ files' = <<>>
          /\ pc' = IF args.should_include_test_list THEN "trim" ELSE "shard"
      BY Zenon, <1>1, <1>3 DEF ReadCsv, StageInv
    <2>2. Distinct(csv') /\ Names(new_entries') = {} /\ Distinct(new_entries')
      BY Zenon, <1>1, <2>1, NamesNone DEF MergeInv
    <2>3. OneLeafPerClaimant' /\ DOMAIN files' = {}
      BY Zenon, <2>1, NoFilesApart
    <2> QED
      BY Zenon, <1>1, <2>1, <2>2, <2>3 DEF LeafInv
  <1>4. CASE TrimRow
    <2> DEFINE h == Head(csv)
    <2>1. /\ pc = "trim" /\ pc' = "trim" /\ csv # <<>> /\ csv' = Tail(csv) /\ files' = files
          /\ new_entries' = (IF h.claimant \in T THEN new_entries ELSE Append(new_entries, h))
          /\ tree_nodes' = tree_nodes
      BY Zenon, <1>4 DEF TrimRow
    <2>2. /\ csv \in Seq(Node) /\ new_entries \in Seq(Node) /\ files = <<>>
          /\ args.should_include_test_list
      BY Zenon, <1>1, <2>1 DEF StageInv
    <2>3. /\ Distinct(csv) /\ Distinct(new_entries) /\ Names(new_entries) \cap Names(csv) = {}
          /\ T \cap Names(new_entries) = {}
      BY Zenon, <1>1, <2>1, <2>2 DEF LeafInv
    <2>4. /\ Names(csv) = {h.claimant} \cup Names(csv')
          /\ Distinct(csv') /\ h.claimant \notin Names(csv')
      BY Zenon, <2>1, <2>2, <2>3, NamesTail
    <2>5. CASE h.claimant \in T
      <3>1. /\ Distinct(new_entries') /\ Names(new_entries') \cap Names(csv') = {}
            /\ T \cap Names(new_entries') = {}
        BY Zenon, <2>1, <2>3, <2>4, <2>5
      <3>2. OneLeafPerClaimant'
        BY Zenon, <2>1, <2>2, NoFilesApart
      <3> QED
        BY Zenon, <2>1, <2>4, <3>1, <3>2 DEF LeafInv
    <2>6. CASE h.claimant \notin T
      <3>1. /\ Names(Append(new_entries, h)) = Names(new_entries) \cup {h.claimant}
            /\ h.claimant \notin Names(new_entries) => Distinct(Append(new_entries, h))
        BY Zenon, <2>2, <2>3, NamesAppend
      <3>2. /\ Distinct(new_entries') /\ Names(new_entries') \cap Names(csv') = {}
            /\ T \cap Names(new_entries') = {}
        BY Zenon, <2>1, <2>3, <2>4, <2>6, <3>1
      <3>3. OneLeafPerClaimant'
        BY Zenon, <2>1, <2>2, NoFilesApart
      <3> QED
        BY Zenon, <2>1, <2>4, <3>2, <3>3 DEF LeafInv
    <2> QED
      BY Zenon, <2>5, <2>6
  <1>5. CASE Trimmed
    <2>1. /\ pc = "trim" /\ pc' = "shard" /\ csv' = new_entries /\ new_entries' = <<>>
          /\ files' = <<>> /\ tree_nodes' = <<>>
      BY Zenon, <1>1, <1>5 DEF Trimmed, StageInv
    <2>2. /\ Distinct(csv') /\ (args.should_include_test_list => T \cap Names(csv') = {})
      BY Zenon, <1>1, <2>1 DEF LeafInv
    <2>3. Names(new_entries') = {} /\ Names(tree_nodes') = {} /\ DOMAIN files' = {}
      BY <2>1, NamesNone
    <2>4. OneLeafPerClaimant'
      BY Zenon, <2>1, NoFilesApart
    <2> QED
      BY Zenon, <1>1, <2>1, <2>2, <2>3, <2>4 DEF LeafInv
  <1>6. CASE CutShard
    <2>1. /\ pc = "shard" /\ pc' = "new" /\ csv' = csv /\ new_entries' = new_entries
          /\ files' = files /\ tree_nodes' = tree_nodes /\ tree_nodes = <<>>
      BY Zenon, <1>1, <1>6 DEF CutShard, StageInv
    <2>2. Names(tree_nodes) = {}
      BY <2>1, NamesNone
    <2>3. OneLeafPerClaimant'
      BY Zenon, <1>1, <2>1 DEF OneLeafPerClaimant, LeafInv
    <2> QED
      BY Zenon, <1>1, <2>1, <2>2, <2>3 DEF LeafInv
  <1>7. CASE CombineRow
    <2>1. CASE Converts(Head(csv))
      BY Zenon, <1>1, <1>7, <2>1, LeafCombined
    <2>2. CASE ~Converts(Head(csv))
      BY Zenon, <1>1, <1>7, <2>2, LeafKept DEF CombineRow, Panic
    <2> QED
      BY Zenon, <2>1, <2>2
  <1>8. CASE WriteTree
    <2>1. CASE Creatable(tree_nodes)
      BY Zenon, <1>1, <1>8, <2>1, LeafWritten
    <2>2. CASE ~Creatable(tree_nodes)
      BY Zenon, <1>1, <1>8, <2>2, LeafKept DEF WriteTree, Panic
    <2> QED
      BY <2>1, <2>2
  <1>9. CASE ShardsWritten
    <2>1. /\ pc = "shard" /\ new_entries' = new_entries /\ files' = files
          /\ tree_nodes' = <<>>
      BY Zenon, <1>1, <1>9 DEF ShardsWritten, StageInv
    <2>2. OneLeafPerClaimant'
      BY Zenon, <1>1, <2>1 DEF OneLeafPerClaimant, LeafInv
    <2>3. CASE args.should_include_test_list
      <3>1. pc' = "new_test" /\ csv' = TestEntries
        BY Zenon, <1>9, <2>3 DEF ShardsWritten
      <3>2. Names(tree_nodes') = {} /\ Names(csv') \subseteq T
        BY Zenon, <2>1, <3>1, NamesNone, TestEntriesType
      <3>3. /\ T \cap Names(new_entries) = {}
            /\ \A i \in DOMAIN files : T \cap Names(files[i].tree_nodes) = {}
        BY Zenon, <1>1, <2>1, <2>3 DEF LeafInv
      <3>4. \A i \in DOMAIN files' :
              Names(files'[i].tree_nodes) \cap (Names(tree_nodes') \cup Names(csv')) = {}
        BY Zenon, <2>1, <3>2, <3>3
      <3> QED
        BY Zenon, <2>1, <2>2, <3>1, <3>3, <3>4 DEF LeafInv
    <2>4. CASE ~args.should_include_test_list
      BY Zenon, <1>1, <1>9, <2>2, <2>4 DEF ShardsWritten, LeafInv
    <2> QED
      BY Zenon, <2>3, <2>4
  <1>10. CASE Terminated
    BY Zenon, <1>1, <1>10, LeafKept DEF Terminated, vars
  <1> QED
    BY Zenon, <1>2, <1>3, <1>4, <1>5, <1>6, <1>7, <1>8, <1>9, <1>10 DEF Next

\* So does every step of the merge before it.
LEMMA LeafStep ==
    ASSUME AggregateInv, AggregateNext
    PROVE  LeafInv'
  <1>1. CreateInv /\ inputs' = inputs
    BY Zenon DEF AggregateInv, AggregateNext, AggregateFails, MergeRow, AllMerged, EmitRow, Emitted,
           merging
  <1>2. CASE AggregateFails \/ MergeRow \/ AllMerged \/ EmitRow \/ Emitted
    <2>1. /\ pc \in {"aggregate", "emit"} /\ files' = files /\ UNCHANGED building
          /\ pc' \in {"aggregate", "emit", "search", "read", "panic"}
      BY Zenon, <1>2 DEF AggregateFails, MergeRow, AllMerged, EmitRow, Emitted, Panic, vars
    <2> QED
      BY <1>1, <2>1, LeafNothingRead
  <1>3. CASE Next /\ UNCHANGED merging
    <2>1. CASE inputs = <<>>
      BY Zenon, <1>1, <2>1 DEF LeafInv
    <2>2. CASE inputs # <<>>
      BY Zenon, <1>3, <2>2, LeafNext
    <2> QED
      BY Zenon, <2>1, <2>2
  <1> QED
    BY Zenon, <1>2, <1>3 DEF AggregateNext

\* The merge starts with an empty map, or not at all.
LEMMA InitAggregate == ASSUME AggregateInit PROVE AggregateInv
  <1>1. /\ groups \in [Mints -> [Claimants -> Held]] /\ next_key = 1 /\ unmerged = inputs
        /\ \A m \in Mints, c \in Claimants : groups[m][c] = None
    BY Zenon DEF AggregateInit, Held
  <1>2. 1 \in 1..(Len(SortedPubkeys) + 1)
    BY MarketAssumption
  <1>3. CASE inputs = <<>> /\ Init
    <2>1. CreateInv
      BY <1>3, InitCreate
    <2>2. pc \in {"search", "read"}
      BY Zenon, <1>3 DEF Init
    <2>3. MergeInv
      BY <1>1, <1>2, <1>3, <2>2 DEF MergeInv, Held
    <2> QED
      BY Zenon, <1>3, <2>1, <2>3 DEF AggregateInv, LeafInv
  <1>4. CASE /\ inputs \in Csvs(MarketRows, MaxMarketRows) \ {<<>>} /\ mint \in Mints /\ Start
             /\ rows = <<>> /\ pc = "aggregate"
    <2>1. CreateInv
      BY <1>4, StartCreate
    <2>2. inputs \in Seq(MarketRows)
      BY Zenon, <1>4, CsvsAreSequences
    <2>3. ASSUME NEW m \in Mints, NEW c \in Claimants, NEW k \in {"unlocked", "locked"}
          PROVE  Merged(m, c, k) + MarketSums(unmerged, m, c, k) = MarketSums(inputs, m, c, k)
      <3>1. Merged(m, c, k) = 0
        BY Zenon, <1>1 DEF Merged, Acc
      <3>2. MarketSums(inputs, m, c, k) \in Nat
        BY Zenon, <2>2, MarketSumsOfTerms DEF Columns
      <3> QED
        BY SMTT(30), <1>1, <3>1, <3>2
    <2>4. Distinct(rows)
      BY Zenon, <1>4, NamesNone
    <2>5. MergeInv
      BY Zenon, <1>1, <1>2, <1>4, <2>2, <2>3, <2>4 DEF MergeInv, Held
    <2>6. LeafInv
      <3>1. files = <<>> /\ new_entries = <<>>
        BY Zenon, <1>4 DEF Start
      <3>2. OneLeafPerClaimant /\ Names(new_entries) = {}
        BY <3>1, NamesNone DEF OneLeafPerClaimant
      <3> QED
        BY Zenon, <1>4, <3>2 DEF LeafInv
    <2> QED
      BY Zenon, <2>1, <2>5, <2>6 DEF AggregateInv
  <1> QED
    BY Zenon, <1>3, <1>4 DEF AggregateInit

\* The invariant of both commands is inductive.
LEMMA NextAggregate == ASSUME AggregateInv, [AggregateNext]_aggregateVars PROVE AggregateInv'
  <1>1. CASE AggregateNext
    BY Zenon, <1>1, AggregateCreate, MergeStep, LeafStep DEF AggregateInv
  <1>2. CASE UNCHANGED aggregateVars
    <2>1. UNCHANGED vars /\ UNCHANGED merging
      BY <1>2 DEF aggregateVars
    <2>2. CreateInv'
      BY <2>1, NextCreate DEF AggregateInv
    <2>3. MergeInv'
      <3>1. rows' = rows /\ pc' = pc /\ groups' = groups
        BY <2>1 DEF vars, merging
      <3>2. \A m, c, k : Merged(m, c, k)' = Merged(m, c, k)
        BY Zenon, <3>1 DEF Merged, Acc
      <3> QED
        BY Zenon, <2>1, <3>1, <3>2 DEF AggregateInv, MergeInv, merging
    <2>4. LeafInv'
      BY Zenon, <2>1, LeafKept DEF AggregateInv, vars, merging
    <2> QED
      BY <2>2, <2>3, <2>4 DEF AggregateInv
  <1> QED
    BY <1>1, <1>2

\* It implies that nothing is lost between the markets and the files.
LEMMA MergeLosesNothing == ASSUME AggregateInv PROVE MergedNothingLost
  <1> SUFFICES ASSUME pc = "done", inputs # <<>>, NEW c \in Claimants,
                      NEW k \in {"unlocked", "locked"},
                      ~(args.should_include_test_list /\ c \in Range(TestList))
               PROVE  InFiles({c}, k) = Scale * MarketSums(inputs, mint, c, k)
    BY DEF MergedNothingLost
  <1>1. k \in Columns /\ c \in People
    BY DEF Columns, People
  <1>2. InFiles({c}, k) = Scale * Wanted({c}, k)
    BY Zenon, <1>1, CreateLosesNothing DEF AggregateInv, NothingLost
  <1>3. MarketSums(inputs, mint, c, k) = Sums(rows, {c}, k)
    BY Zenon DEF AggregateInv, MergeInv
  <1>4. Sums(rows, {c}, k) \in Nat
    BY Zenon, <1>1, SumsNat DEF AggregateInv, CreateInv
  <1>5. Counting({c}) = {c}
    BY DEF Counting
  <1>6. args.should_include_test_list => Sums(TestEntries, {c}, k) = 0
    BY Zenon, <1>1, TestEntriesType, SumsAbsent
  <1>7. Wanted({c}, k) = Sums(rows, {c}, k)
    <2> DEFINE s == Sums(rows, {c}, k)
               w == IF args.should_include_test_list THEN Sums(TestEntries, {c}, k) ELSE 0
    <2>1. w = 0
      BY <1>6
    <2>2. Wanted({c}, k) = s + w
      BY Zenon, <1>5 DEF Wanted
    <2> HIDE DEF s, w
    <2>3. s + w = s
      BY SMTT(30), <1>4, <2>1 DEF s
    <2> QED
      BY <2>2, <2>3 DEF s
  <1> QED
    BY Zenon, <1>2, <1>3, <1>7

\* aggregate-if-csvs and create-merkle-tree lose and invent no token: whatever
\* the markets, a finished run's files hold of each claimant what its rows of
\* the mint add up to.
THEOREM MarketsLoseNothing == AggregateSpec => []MergedNothingLost
  <1>1. AggregateInit => AggregateInv
    BY InitAggregate
  <1>2. AggregateInv /\ [AggregateNext]_aggregateVars => AggregateInv'
    BY NextAggregate
  <1>3. AggregateInv => MergedNothingLost
    BY MergeLosesNothing
  <1> QED
    BY <1>1, <1>2, <1>3, PTL DEF AggregateSpec

\* A claimant of the merged CSV has a leaf in at most one of the trees, however
\* the rows are cut into shards and at every moment of the run.
THEOREM MergedOneLeaf == AggregateSpec => []OneLeafPerClaimant
  <1>1. AggregateInit => AggregateInv
    BY InitAggregate
  <1>2. AggregateInv /\ [AggregateNext]_aggregateVars => AggregateInv'
    BY NextAggregate
  <1>3. AggregateInv => OneLeafPerClaimant
    BY Zenon DEF AggregateInv, LeafInv, OneLeafPerClaimant
  <1> QED
    BY <1>1, <1>2, <1>3, PTL DEF AggregateSpec

\* The guarantees of create-merkle-tree hold of the run after the merge too.
THEOREM MergedTreesRight == AggregateSpec => [](NothingLost /\ FilesWellFormed)
  <1>1. AggregateInit => AggregateInv
    BY InitAggregate
  <1>2. AggregateInv /\ [AggregateNext]_aggregateVars => AggregateInv'
    BY NextAggregate
  <1>3. AggregateInv => NothingLost /\ FilesWellFormed
    BY Zenon, CreateLosesNothing DEF AggregateInv, CreateInv, FileInv
  <1> QED
    BY <1>1, <1>2, <1>3, PTL DEF AggregateSpec
=============================================================================
