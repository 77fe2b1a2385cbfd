---------------------------- MODULE Mempool_proofs ----------------------------
(***************************************************************************)
(* Theorems about Mempool, for any number of handlers, transactions and    *)
(* accounts, and any caps: the pool never holds a transaction twice and    *)
(* stays within its bound; the candidate that is filled from it passes     *)
(* verification, and leaves nothing out that could be in it.               *)
(*                                                                         *)
(* What is filtered and sorted comes first (ranks), then the cost of part  *)
(* of a body, then the two recursive functions of Mempool, and last the    *)
(* inductive invariant, one lemma for each action.                         *)
(***************************************************************************)
EXTENDS Mempool, LedgerOps_proofs, SumTheorems

-----------------------------------------------------------------------------
(* Ranks. *)

UpTo(P, i) == {j \in P : j <= i}

\* A finite set of naturals that is not empty has a greatest element.
LEMMA GreatestNatural ==
  ASSUME NEW P, \A p \in P : p \in Nat, IsFiniteSet(P), P # {}
  PROVE  \E m \in P : \A i \in P : i <= m
<1> DEFINE F == {T \in SUBSET P : T = {} \/ \E m \in T : \A i \in T : i <= m}
<1>1. {} \in F OBVIOUS
<1>2. ASSUME NEW T \in SUBSET P, NEW x \in P, T \in F, x \notin T
      PROVE  T \cup {x} \in F
  <2>1. CASE T = {}
    <3>1. \A i \in T \cup {x} : i <= x BY <2>1
    <3> QED BY <3>1
  <2>2. CASE T # {}
    <3>1. PICK m \in T : \A i \in T : i <= m BY <1>2, <2>2
    <3>2. m \in Nat /\ x \in Nat OBVIOUS
    <3>3. CASE m <= x
      <4>1. \A i \in T \cup {x} : i <= x BY <3>1, <3>2, <3>3
      <4> QED BY <4>1
    <3>4. CASE ~(m <= x)
      <4>1. \A i \in T \cup {x} : i <= m BY <3>1, <3>2, <3>4
      <4> QED BY <4>1
    <3> QED BY <3>3, <3>4
  <2> QED BY <2>1, <2>2
<1> HIDE DEF F
<1>3. SUBSET P \subseteq F BY <1>1, <1>2, SetInduct
<1> QED BY <1>3 DEF F

\* A rank that is not above the size of a finite set of naturals is somebody's.
LEMMA RankExists ==
  ASSUME NEW P, \A p \in P : p \in Nat, IsFiniteSet(P), NEW k \in 1 .. Cardinality(P)
  PROVE  \E i \in P : Cardinality(UpTo(P, i)) = k
<1> DEFINE N == {n \in Nat : \A T \in SUBSET P : Cardinality(T) = n =>
                   \A l \in 1 .. n : \E i \in T : Cardinality(UpTo(T, i)) = l}
<1>1. 0 \in N OBVIOUS
<1>2. ASSUME NEW n \in N PROVE n + 1 \in N
  <2> SUFFICES ASSUME NEW T \in SUBSET P, Cardinality(T) = n + 1, NEW l \in 1 .. n + 1
               PROVE  \E i \in T : Cardinality(UpTo(T, i)) = l
    OBVIOUS
  <2>0. n \in Nat /\ n + 1 \in Nat OBVIOUS
  <2>1. T # {} /\ IsFiniteSet(T) BY <2>0, Subsets
  <2>2. PICK m \in T : \A i \in T : i <= m BY <2>1, GreatestNatural
  <2>3. CASE l = n + 1
    <3>1. UpTo(T, m) = T BY <2>2 DEF UpTo
    <3> QED BY <2>3, <3>1
  <2>4. CASE l # n + 1
    <3>1. Cardinality(T \ {m}) = n BY <2>0, Subsets
    <3>2. l \in 1 .. n BY <2>0, <2>4
    <3>3. PICK i \in T \ {m} : Cardinality(UpTo(T \ {m}, i)) = l BY <3>1, <3>2
    <3>4. i \in Nat /\ m \in Nat /\ i < m BY <2>2
    <3>5. UpTo(T, i) = UpTo(T \ {m}, i) BY <3>4 DEF UpTo
    <3> QED BY <3>3, <3>5
  <2> QED BY <2>3, <2>4
<1>3. N = Nat
  <2> HIDE DEF N
  <2>1. N \subseteq Nat BY DEF N
  <2> QED BY <1>1, <1>2, <2>1, NatInduct
<1> QED BY <1>3, FS_CardinalityType

\* The k-th smallest of a set is in it, and k are not above it.
LEMMA NthRank ==
  ASSUME NEW P, \A p \in P : p \in Nat, IsFiniteSet(P), NEW k \in 1 .. Cardinality(P)
  PROVE  Nth(P, k) \in P /\ Cardinality(UpTo(P, Nth(P, k))) = k
  BY RankExists DEF Nth, UpTo

\* Who is below has the lower rank.
LEMMA RankOrder ==
  ASSUME NEW P, \A p \in P : p \in Nat, IsFiniteSet(P), NEW i \in P, NEW j \in P, i < j
  PROVE  Cardinality(UpTo(P, i)) < Cardinality(UpTo(P, j))
<1>1. i \in Nat /\ j \in Nat OBVIOUS
<1>2. ASSUME NEW q \in UpTo(P, i) PROVE q \in UpTo(P, j)
  <2>1. q \in P /\ q \in Nat /\ q <= i BY DEF UpTo
  <2> QED BY <1>1, <2>1 DEF UpTo
<1>3. j \notin UpTo(P, i) /\ j \in UpTo(P, j) BY <1>1 DEF UpTo
<1>4. IsFiniteSet(UpTo(P, j)) /\ IsFiniteSet(UpTo(P, i))
  <2>1. UpTo(P, j) \in SUBSET P /\ UpTo(P, i) \in SUBSET P BY DEF UpTo
  <2> QED BY <2>1, FS_Subset
<1>5. UpTo(P, i) \in SUBSET UpTo(P, j) /\ UpTo(P, i) # UpTo(P, j) BY <1>2, <1>3
<1>6. /\ Cardinality(UpTo(P, i)) <= Cardinality(UpTo(P, j))
      /\ Cardinality(UpTo(P, i)) # Cardinality(UpTo(P, j))
  BY <1>4, <1>5, FS_Subset
<1>7. Cardinality(UpTo(P, i)) \in Nat /\ Cardinality(UpTo(P, j)) \in Nat
  BY <1>4, FS_CardinalityType
<1> QED BY <1>6, <1>7

\* Nth enumerates a set in its order.
LEMMA NthOrder ==
  ASSUME NEW P, \A p \in P : p \in Nat, IsFiniteSet(P),
         NEW k \in 1 .. Cardinality(P), NEW l \in 1 .. Cardinality(P), k < l
  PROVE  Nth(P, k) < Nth(P, l)
<1> DEFINE i == Nth(P, k)
           j == Nth(P, l)
<1>1. /\ i \in P /\ Cardinality(UpTo(P, i)) = k
      /\ j \in P /\ Cardinality(UpTo(P, j)) = l
  BY NthRank
<1> HIDE DEF i, j
<1>2. i \in Nat /\ j \in Nat /\ k \in Nat /\ l \in Nat BY <1>1, FS_CardinalityType
<1>3. i # j BY <1>1, <1>2
<1>4. ~(j < i)
  <2>1. j < i => l < k BY <1>1, RankOrder
  <2> QED BY <2>1, <1>2
<1> QED BY <1>2, <1>3, <1>4 DEF i, j

\* Nth enumerates a set completely.
LEMMA NthOnto ==
  ASSUME NEW P, \A p \in P : p \in Nat, IsFiniteSet(P), NEW i \in P
  PROVE  \E k \in 1 .. Cardinality(P) : Nth(P, k) = i
<1> DEFINE k == Cardinality(UpTo(P, i))
           j == Nth(P, k)
<1>1. UpTo(P, i) \subseteq P /\ i \in UpTo(P, i) BY DEF UpTo
<1>2. k \in 1 .. Cardinality(P)
  <2>1. IsFiniteSet(UpTo(P, i)) /\ k <= Cardinality(P) BY <1>1, FS_Subset
  <2>2. k \in Nat /\ k # 0 BY <1>1, <2>1, FS_CardinalityType, FS_EmptySet
  <2> QED BY <2>1, <2>2, FS_CardinalityType
<1>3. j \in P /\ Cardinality(UpTo(P, j)) = k BY <1>2, NthRank
<1>4. i \in Nat /\ j \in Nat /\ k \in Nat BY <1>2, <1>3
<1> HIDE DEF j
<1>5. ~(j < i)
  <2>1. j < i => Cardinality(UpTo(P, j)) < Cardinality(UpTo(P, i)) BY <1>3, RankOrder
  <2> QED BY <1>3, <1>4, <2>1
<1>6. ~(i < j)
  <2>1. i < j => Cardinality(UpTo(P, i)) < Cardinality(UpTo(P, j)) BY <1>3, RankOrder
  <2> QED BY <1>3, <1>4, <2>1
<1>7. j = i BY <1>4, <1>5, <1>6
<1> QED BY <1>2, <1>7 DEF j

-----------------------------------------------------------------------------
(* Filtering and sorting. *)

Places(s, S) == {i \in DOMAIN s : s[i] \in S}

\* The places of a sequence are finitely many numbers.
LEMMA PlacesAreNumbers ==
  ASSUME NEW X, NEW s \in Seq(X), NEW S
  PROVE  /\ \A p \in Places(s, S) : p \in Nat
         /\ IsFiniteSet(Places(s, S))
         /\ Cardinality(Places(s, S)) \in Nat
         /\ Cardinality(Places(s, S)) <= Len(s)
<1>1. Len(s) \in Nat /\ DOMAIN s = 1 .. Len(s) OBVIOUS
<1>2. IsFiniteSet(1 .. Len(s)) /\ Cardinality(1 .. Len(s)) = Len(s)
  BY <1>1, FS_Interval
<1>3. Places(s, S) \in SUBSET (1 .. Len(s)) BY <1>1 DEF Places
<1>4. IsFiniteSet(Places(s, S)) /\ Cardinality(Places(s, S)) <= Len(s)
  BY <1>2, <1>3, FS_Subset
<1> QED BY <1>3, <1>4, FS_CardinalityType

\* r holds what of s is in S, m[k] being the place in s of r[k].
KeptAt(r, s, S, m) ==
  /\ \A k \in DOMAIN r : m[k] \in DOMAIN s /\ r[k] = s[m[k]] /\ s[m[k]] \in S
  /\ \A k, l \in DOMAIN r : m[k] = m[l] => k = l
  /\ \A i \in DOMAIN s : s[i] \in S => \E k \in DOMAIN r : m[k] = i

\* Among keeps what is in S, once, and no more.
LEMMA AmongKeeps ==
  ASSUME NEW X, NEW s \in Seq(X), NEW S
  PROVE  /\ Among(s, S) \in Seq(X)
         /\ Len(Among(s, S)) <= Len(s)
         /\ \E m : KeptAt(Among(s, S), s, S, m)
<1> DEFINE P == Places(s, S)
           n == Cardinality(P)
           m == [k \in 1 .. n |-> Nth(P, k)]
           r == [k \in 1 .. n |-> s[m[k]]]
<1>1. Among(s, S) = [k \in 1 .. n |-> s[Nth(P, k)]] BY DEF Among, Places
<1>2. Among(s, S) = r BY <1>1
<1>3. (\A p \in P : p \in Nat) /\ IsFiniteSet(P) /\ n \in Nat /\ n <= Len(s)
  BY PlacesAreNumbers
<1>4. \A k \in 1 .. n : m[k] \in P BY <1>3, NthRank
<1>5. ASSUME NEW k \in 1 .. n, NEW l \in 1 .. n, m[k] = m[l] PROVE k = l
  <2>1. Cardinality(UpTo(P, Nth(P, k))) = k BY <1>3, NthRank
  <2>2. Cardinality(UpTo(P, Nth(P, l))) = l BY <1>3, NthRank
  <2> QED BY <1>5, <2>1, <2>2
<1>6. ASSUME NEW i \in P PROVE \E k \in 1 .. n : m[k] = i BY <1>3, NthOnto
<1> HIDE DEF m, n
<1>7. \A k \in 1 .. n : m[k] \in DOMAIN s /\ s[m[k]] \in S BY <1>4 DEF Places
<1>8. r \in Seq(X) /\ Len(r) = n
  <2>1. \A k \in 1 .. n : r[k] \in X BY <1>7
  <2> QED BY <1>3, <2>1
<1>9. DOMAIN r = 1 .. n /\ \A k \in 1 .. n : r[k] = s[m[k]] OBVIOUS
<1>10. \A i \in DOMAIN s : s[i] \in S => \E k \in 1 .. n : m[k] = i BY <1>6 DEF Places
<1> HIDE DEF r
<1>11. DOMAIN Among(s, S) = 1 .. n /\ \A k \in 1 .. n : Among(s, S)[k] = s[m[k]]
  BY <1>2, <1>9
<1>12. Among(s, S) \in Seq(X) /\ Len(Among(s, S)) <= Len(s) BY <1>2, <1>3, <1>8
<1>13. KeptAt(Among(s, S), s, S, m) BY <1>5, <1>7, <1>10, <1>11, Zenon DEF KeptAt
<1> HIDE DEF P
<1> QED BY <1>12, <1>13, Zenon

Unique(s) == \A i, j \in DOMAIN s : s[i].id = s[j].id => i = j

\* Filtering takes no transaction twice.
LEMMA AmongUnique ==
  ASSUME NEW X, NEW s \in Seq(X), NEW S, Unique(s)
  PROVE  Unique(Among(s, S))
<1> DEFINE r == Among(s, S)
<1>1. PICK m : KeptAt(Among(s, S), s, S, m)
  BY AmongKeeps
<1>2. ASSUME NEW k \in DOMAIN r, NEW l \in DOMAIN r, r[k].id = r[l].id PROVE k = l
  BY <1>1, <1>2 DEF Unique, KeptAt
<1> QED BY <1>2 DEF Unique

\* Txids are numbers, and finitely many.
LEMMA IdsAreNumbers ==
  ASSUME NEW S \in SUBSET Txs
  PROVE  /\ \A i \in {t.id : t \in S} : i \in Nat
         /\ IsFiniteSet({t.id : t \in S})
<1>1. IsFiniteSet(S) BY FiniteAssumption, FS_Subset
<1>2. IsFiniteSet({t.id : t \in S})
  <2> DEFINE F == {T \in SUBSET S : IsFiniteSet({t.id : t \in T})}
  <2>1. {} \in F
    <3>1. {t.id : t \in {}} = {} OBVIOUS
    <3> QED BY <3>1, FS_EmptySet
  <2>2. ASSUME NEW T \in SUBSET S, NEW u \in S, T \in F PROVE T \cup {u} \in F
    <3>1. {t.id : t \in T \cup {u}} = {t.id : t \in T} \cup {u.id} OBVIOUS
    <3>2. IsFiniteSet({t.id : t \in T}) BY <2>2
    <3>3. IsFiniteSet({t.id : t \in T} \cup {u.id}) BY <3>2, FS_AddElement
    <3>4. IsFiniteSet({t.id : t \in T \cup {u}}) BY <3>1, <3>3
    <3> QED BY <3>4
  <2> HIDE DEF F
  <2>3. SUBSET S \subseteq F BY <1>1, <2>1, <2>2, SetInduct
  <2> QED BY <2>3 DEF F
<1>3. \A t \in S : t.id \in Nat BY TxsAssumption, TxShape
<1> QED BY <1>2, <1>3

\* A set of transactions in the order of their ids.
LEMMA InOrder ==
  ASSUME NEW S \in SUBSET Txs
  PROVE  /\ InIdOrder(S) \in Seq(Txs)
         /\ InTxidOrder(InIdOrder(S))
         /\ \A k \in DOMAIN InIdOrder(S) : InIdOrder(S)[k] \in S
         /\ \A t \in S : \E k \in DOMAIN InIdOrder(S) : InIdOrder(S)[k] = t
<1> DEFINE ids == {t.id : t \in S}
           n == Cardinality(ids)
           r == [k \in 1 .. n |-> CHOOSE t \in S : t.id = Nth(ids, k)]
<1>1. InIdOrder(S) = r BY DEF InIdOrder
<1>2. (\A i \in ids : i \in Nat) /\ IsFiniteSet(ids) BY IdsAreNumbers
<1>3. n \in Nat BY <1>2, FS_CardinalityType
<1>4. \A k \in 1 .. n : Nth(ids, k) \in ids BY <1>2, NthRank
<1>5. \A k \in 1 .. n : r[k] \in S /\ r[k].id = Nth(ids, k) BY <1>4
<1>6. DOMAIN r = 1 .. n OBVIOUS
<1>7. ASSUME NEW t \in S PROVE \E k \in 1 .. n : r[k] = t
  <2>1. PICK k \in 1 .. n : Nth(ids, k) = t.id BY <1>2, NthOnto
  <2>2. r[k] \in S /\ r[k].id = t.id BY <1>5, <2>1
  <2> QED BY <2>2, TxsAssumption
<1>8. ASSUME NEW k \in 1 .. n, NEW l \in 1 .. n, k < l PROVE r[k].id < r[l].id
  BY <1>2, <1>5, <1>8, NthOrder
<1> HIDE DEF n, ids
<1>9. r \in Seq(Txs) BY <1>3, <1>5
<1> HIDE DEF r
<1> QED BY <1>1, <1>5, <1>6, <1>7, <1>8, <1>9 DEF InTxidOrder

-----------------------------------------------------------------------------
(* Means: a body of fewer transactions costs no more. *)

\* Where S goes into T without merging members, its sum is no more.
LEMMA SumInjected ==
  ASSUME NEW f, NEW g, NEW m, NEW S, NEW T, IsFiniteSet(S), IsFiniteSet(T),
         \A x \in S : m[x] \in T /\ f[x] \in Nat /\ g[m[x]] = f[x],
         \A y \in T : g[y] \in Nat,
         \A x, y \in S : m[x] = m[y] => x = y
  PROVE  SumFunctionOnSet(f, S) <= SumFunctionOnSet(g, T)
<1> DEFINE U == {m[x] : x \in S}
           h == [y \in T |-> IF y \in U THEN g[y] ELSE 0]
<1>1. U \in SUBSET T OBVIOUS
<1>2. SumFunctionOnSet(g, U) = SumFunctionOnSet(f, S)
  <2>1. \A x \in S : f[x] \in Int /\ g[m[x]] = f[x] OBVIOUS
  <2> QED BY <2>1, SumRenamed
<1> HIDE DEF U
<1>3. \A y \in T : h[y] \in Int /\ g[y] \in Int /\ h[y] <= g[y] OBVIOUS
<1>4. \A y \in U : g[y] \in Int BY <1>1
<1>5. \A y \in T : h[y] = IF y \in U THEN g[y] ELSE 0 OBVIOUS
<1> HIDE DEF h
<1>6. SumFunctionOnSet(h, T) = SumFunctionOnSet(g, U) BY <1>1, <1>4, <1>5, SumRestrict
<1>7. SumFunctionOnSet(h, T) <= SumFunctionOnSet(g, T) BY <1>3, SumMonotonic
<1> QED BY <1>2, <1>6, <1>7

IsPart(r, s) == \A k \in DOMAIN r : \E j \in DOMAIN s : s[j] = r[k]

\* The sum of a cost over some places of r is no more than over some of s.
CostsNoMore(c, r, I, s, J) ==
  /\ SumFunction([i \in I |-> c[r[i]]]) <= SumFunction([j \in J |-> c[s[j]]])
  /\ SumFunction([i \in I |-> c[r[i]]]) \in Nat
  /\ SumFunction([j \in J |-> c[s[j]]]) \in Nat

\* A cost summed over part of a body.
LEMMA TotalShrinks ==
  ASSUME NEW r \in Seq(Txs), NEW s \in Seq(Txs), Unique(r), IsPart(r, s),
         NEW I, \A i \in I : i \in DOMAIN r, NEW J, \A j \in J : j \in DOMAIN s,
         \A i \in I, j \in DOMAIN s : s[j] = r[i] => j \in J,
         NEW c, \A t \in Txs : c[t] \in Nat
  PROVE  CostsNoMore(c, r, I, s, J)
<1> DEFINE f == [i \in I |-> c[r[i]]]
           g == [j \in J |-> c[s[j]]]
           m == [i \in I |-> CHOOSE j \in DOMAIN s : s[j] = r[i]]
<1>1. IsFiniteSet(I) /\ IsFiniteSet(J)
  <2>1. DOMAIN r = 1 .. Len(r) /\ DOMAIN s = 1 .. Len(s)
        /\ Len(r) \in Int /\ Len(s) \in Int
    OBVIOUS
  <2>2. IsFiniteSet(DOMAIN r) /\ IsFiniteSet(DOMAIN s) BY <2>1, FS_Interval
  <2>3. I \in SUBSET DOMAIN r /\ J \in SUBSET DOMAIN s OBVIOUS
  <2> QED BY <2>2, <2>3, FS_Subset
<1>2. \A i \in I : m[i] \in J /\ s[m[i]] = r[i] BY DEF IsPart
<1>3. \A i \in I : f[i] \in Nat
  <2>1. \A i \in I : r[i] \in Txs OBVIOUS
  <2> QED BY <2>1
<1>4. \A j \in J : g[j] \in Nat
  <2>1. \A j \in J : s[j] \in Txs OBVIOUS
  <2> QED BY <2>1
<1> HIDE DEF m
<1>5. \A i \in I : g[m[i]] = f[i] BY <1>2
<1>6. \A i, j \in I : m[i] = m[j] => i = j BY <1>2 DEF Unique
<1>7. DOMAIN f = I /\ DOMAIN g = J OBVIOUS
<1> HIDE DEF f, g
<1>8. SumFunctionOnSet(f, I) <= SumFunctionOnSet(g, J)
  BY <1>1, <1>2, <1>3, <1>4, <1>5, <1>6, SumInjected
<1>9. SumFunctionOnSet(f, I) \in Nat /\ SumFunctionOnSet(g, J) \in Nat
  BY <1>1, <1>3, <1>4, SumNat
<1>10. SumFunction(f) = SumFunctionOnSet(f, I) /\ SumFunction(g) = SumFunctionOnSet(g, J)
  BY <1>7 DEF SumFunction
<1> QED BY <1>8, <1>9, <1>10 DEF CostsNoMore, f, g

\* What a transaction takes from anybody is a natural number.
LEMMA CostsTyped ==
  ASSUME NEW L \in Ledgers, NEW t \in Txs
  PROVE  BalanceCost(t) \in Nat /\ BondedCost(t) \in Nat /\ EscrowRelease(L, t) \in Nat
<1>1. t \in Transaction BY TxsAssumption
<1>2. t.amount \in Nat /\ t.fee \in Nat BY <1>1, TxShape
<1>3. EscrowRelease(L, t) \in Nat
  <2>1. L.swaps \in [TxIds -> Swap \cup {NONE}] BY LedgerTypes
  <2>2. IsOpen(L, t) => L.swaps[t.swap].amount \in Nat BY <2>1 DEF IsOpen, Swap
  <2> QED BY <2>2 DEF EscrowRelease
<1> QED BY <1>2, <1>3 DEF BalanceCost, BondedCost

\* Who can pay for a body can pay for a part of it (validate_all_spending).
LEMMA PartWithinMeans ==
  ASSUME NEW L \in Ledgers, NEW r \in Seq(Txs), NEW s \in Seq(Txs),
         Unique(r), IsPart(r, s), WithinMeans(L, s)
  PROVE  WithinMeans(L, r)
<1>0. /\ \A a \in Accounts : L.balance[a] \in Int /\ L.bonded[a] \in Int
      /\ L.balance["htlc"] \in Int
  <2>1. L.balance \in [Holders -> Int] /\ L.bonded \in [Accounts -> Int] BY LedgerTypes
  <2> QED BY <2>1 DEF Holders, Reserved
<1>s. (\A i \in DOMAIN r : r[i] \in Txs) /\ (\A j \in DOMAIN s : s[j] \in Txs) OBVIOUS
<1>1. ASSUME NEW a \in Accounts
      PROVE  LET I == {i \in DOMAIN r : r[i].sender = a}
             IN  /\ Total(BalanceCost, r, I) <= L.balance[a]
                 /\ Total(BondedCost, r, I) <= L.bonded[a]
  <2> DEFINE I == {i \in DOMAIN r : r[i].sender = a}
             J == {j \in DOMAIN s : s[j].sender = a}
             c == [t \in Txs |-> BalanceCost(t)]
             d == [t \in Txs |-> BondedCost(t)]
  <2>1. \A i \in I, j \in DOMAIN s : s[j] = r[i] => j \in J OBVIOUS
  <2>2. Total(BalanceCost, s, J) <= L.balance[a] /\ Total(BondedCost, s, J) <= L.bonded[a]
    BY DEF WithinMeans
  <2>3. \A t \in Txs : c[t] \in Nat BY CostsTyped
  <2>c. \A t \in Txs : d[t] \in Nat BY CostsTyped
  <2>4. \A t \in Txs : c[t] = BalanceCost(t) /\ d[t] = BondedCost(t) OBVIOUS
  <2>5. /\ (\A i \in I : i \in DOMAIN r) /\ (\A j \in J : j \in DOMAIN s) OBVIOUS
  <2> HIDE DEF I, J, c, d
  <2>6. /\ [i \in I |-> BalanceCost(r[i])] = [i \in I |-> c[r[i]]]
        /\ [j \in J |-> BalanceCost(s[j])] = [j \in J |-> c[s[j]]]
        /\ [i \in I |-> BondedCost(r[i])] = [i \in I |-> d[r[i]]]
        /\ [j \in J |-> BondedCost(s[j])] = [j \in J |-> d[s[j]]]
    BY <1>s, <2>4, <2>5
  <2>7. /\ Total(BalanceCost, r, I) <= Total(BalanceCost, s, J)
        /\ Total(BalanceCost, r, I) \in Nat /\ Total(BalanceCost, s, J) \in Nat
    <3>1. CostsNoMore(c, r, I, s, J) BY <2>1, <2>3, <2>5, TotalShrinks
    <3> QED BY <2>6, <3>1 DEF Total, CostsNoMore
  <2>8. /\ Total(BondedCost, r, I) <= Total(BondedCost, s, J)
        /\ Total(BondedCost, r, I) \in Nat /\ Total(BondedCost, s, J) \in Nat
    <3>1. CostsNoMore(d, r, I, s, J) BY <2>1, <2>c, <2>5, TotalShrinks
    <3> QED BY <2>6, <3>1 DEF Total, CostsNoMore
  <2>9. Total(BalanceCost, r, I) <= L.balance[a] /\ Total(BondedCost, r, I) <= L.bonded[a]
    BY <1>0, <2>2, <2>7, <2>8
  <2> QED BY <2>9 DEF I
<1>2. Total(LAMBDA t : EscrowRelease(L, t), r, DOMAIN r) <= L.balance["htlc"]
  <2> DEFINE c == [t \in Txs |-> EscrowRelease(L, t)]
  <2>1. \A t \in Txs : c[t] \in Nat BY CostsTyped
  <2>2. \A t \in Txs : c[t] = EscrowRelease(L, t) OBVIOUS
  <2> HIDE DEF c
  <2>3. /\ [i \in DOMAIN r |-> EscrowRelease(L, r[i])] = [i \in DOMAIN r |-> c[r[i]]]
        /\ [j \in DOMAIN s |-> EscrowRelease(L, s[j])] = [j \in DOMAIN s |-> c[s[j]]]
    BY <1>s, <2>2
  <2>4. /\ SumFunction([i \in DOMAIN r |-> c[r[i]]]) <= SumFunction([j \in DOMAIN s |-> c[s[j]]])
        /\ SumFunction([i \in DOMAIN r |-> c[r[i]]]) \in Nat
        /\ SumFunction([j \in DOMAIN s |-> c[s[j]]]) \in Nat
    <3>1. CostsNoMore(c, r, DOMAIN r, s, DOMAIN s) BY <2>1, TotalShrinks
    <3> QED BY <3>1 DEF CostsNoMore
  <2>6. Total(LAMBDA t : EscrowRelease(L, t), s, DOMAIN s) <= L.balance["htlc"]
    BY DEF WithinMeans
  <2>7. SumFunction([j \in DOMAIN s |-> c[s[j]]]) <= L.balance["htlc"]
    BY <2>3, <2>6 DEF Total
  <2>8. SumFunction([i \in DOMAIN r |-> c[r[i]]]) <= L.balance["htlc"]
    BY <1>0, <2>4, <2>7
  <2> QED BY <2>3, <2>8 DEF Total
<1> QED BY <1>1, <1>2 DEF WithinMeans

-----------------------------------------------------------------------------
(* Filling a candidate. *)

\* The recursive function behind Selected.
Selecting(g) ==
  g = [i \in 0 .. Len(pool) |->
         IF i = 0 THEN <<>> ELSE Chosen(g[i - 1], pool[i])]

\* There is such a function, so that Selected is what it says.
LEMMA SelectingExists ==
  ASSUME pool \in Seq(Txs)
  PROVE  /\ \E g : Selecting(g)
         /\ Selected = (CHOOSE g : Selecting(g))[Len(pool)]
<1> DEFINE Fills(g, n) ==
             g = [i \in 0 .. n |-> IF i = 0 THEN <<>> ELSE Chosen(g[i - 1], pool[i])]
           N == {n \in Nat : \E g : Fills(g, n)}
<1>1. 0 \in N
  <2> DEFINE h == [i \in 0 .. 0 |-> <<>>]
  <2>1. \A i \in 0 .. 0 : i = 0 OBVIOUS
  <2>2. Fills(h, 0) BY <2>1
  <2> QED BY <2>2
<1>2. ASSUME NEW n \in N PROVE n + 1 \in N
  <2>1. n \in Nat OBVIOUS
  <2>2. PICK g : Fills(g, n) OBVIOUS
  <2> DEFINE h == [i \in 0 .. n + 1 |->
                     IF i <= n THEN g[i] ELSE Chosen(g[n], pool[n + 1])]
             k == [i \in 0 .. n + 1 |-> IF i = 0 THEN <<>> ELSE Chosen(h[i - 1], pool[i])]
  <2>3. \A i \in 0 .. n : g[i] = IF i = 0 THEN <<>> ELSE Chosen(g[i - 1], pool[i])
    BY <2>2
  <2>4. ASSUME NEW i \in 0 .. n + 1 PROVE h[i] = k[i]
    <3>1. CASE i = n + 1
      <4>1. i - 1 = n /\ ~(i <= n) /\ i # 0 /\ n \in 0 .. n + 1 /\ n <= n
        BY <2>1, <3>1
      <4>2. h[i] = Chosen(g[n], pool[n + 1]) BY <4>1
      <4>3. h[i - 1] = g[n] BY <4>1
      <4>4. k[i] = Chosen(h[i - 1], pool[i]) BY <4>1
      <4> QED BY <3>1, <4>2, <4>3, <4>4
    <3>2. CASE i # n + 1
      <4>1. i \in 0 .. n /\ i <= n BY <2>1, <3>2
      <4>2. CASE i = 0 BY <2>3, <4>1, <4>2
      <4>3. CASE i # 0
        <5>1. i - 1 \in 0 .. n + 1 /\ i - 1 <= n BY <2>1, <4>1, <4>3
        <5>2. h[i - 1] = g[i - 1] BY <5>1
        <5>3. k[i] = Chosen(h[i - 1], pool[i]) BY <4>3
        <5>4. h[i] = g[i] BY <4>1
        <5> QED BY <2>3, <4>1, <4>3, <5>2, <5>3, <5>4
      <4> QED BY <4>2, <4>3
    <3> QED BY <3>1, <3>2
  <2>5. h = k
    <3>1. DOMAIN h = 0 .. n + 1 /\ DOMAIN k = 0 .. n + 1 OBVIOUS
    <3>2. h = [i \in 0 .. n + 1 |-> h[i]] /\ k = [i \in 0 .. n + 1 |-> k[i]] OBVIOUS
    <3> HIDE DEF h, k
    <3>3. [i \in 0 .. n + 1 |-> h[i]] = [i \in 0 .. n + 1 |-> k[i]] BY <2>4
    <3> QED BY <3>2, <3>3
  <2>6. Fills(h, n + 1) BY <2>5, Zenon
  <2> HIDE DEF h
  <2>7. n + 1 \in Nat BY <2>1
  <2> QED BY <2>6, <2>7
<1> HIDE DEF N
<1>3. N = Nat
  <2>1. N \subseteq Nat BY DEF N
  <2> QED BY <1>1, <1>2, <2>1, NatInduct
<1>4. Len(pool) \in N BY <1>3
<1>5. \E g : Selecting(g) BY <1>4 DEF N, Selecting
<1>6. Selected = (CHOOSE g : Selecting(g))[Len(pool)] BY DEF Selected, Selecting
<1> QED BY <1>5, <1>6

\* What is chosen so far is payable, without repetitions, and every member is
\* valid, unmined and pooled.
GoodChoice(s) ==
  /\ s \in Seq(Txs) /\ Unique(s) /\ WithinMeans(ledger, s)
  /\ \A k \in DOMAIN s : /\ s[k].id \notin ledger.mined /\ Valid(ledger, s[k])
                         /\ \E j \in DOMAIN pool : pool[j] = s[k]

\* Nothing costs nothing.
LEMMA NothingWithinMeans ==
  ASSUME NEW L \in Ledgers, Solvent(L)
  PROVE  WithinMeans(L, <<>>)
<1>1. DOMAIN <<>> = {} OBVIOUS
<1>2. \A a \in Accounts : L.balance[a] \in Int /\ L.bonded[a] \in Int
                          /\ 0 <= L.balance[a] /\ 0 <= L.bonded[a]
  BY LedgerTypes DEF Solvent, Holders
<1>3. L.balance["htlc"] \in Int /\ 0 <= L.balance["htlc"]
  BY LedgerTypes DEF Solvent, Holders, Reserved
<1>4. \A f : DOMAIN f = {} => SumFunction(f) = 0 BY SumEmpty DEF SumFunction
<1>5. ASSUME NEW a \in Accounts
      PROVE  LET I == {i \in DOMAIN <<>> : <<>>[i].sender = a}
             IN  /\ Total(BalanceCost, <<>>, I) <= L.balance[a]
                 /\ Total(BondedCost, <<>>, I) <= L.bonded[a]
  <2> DEFINE I == {i \in DOMAIN <<>> : <<>>[i].sender = a}
  <2>1. I = {} BY <1>1
  <2> HIDE DEF I
  <2>2. Total(BalanceCost, <<>>, I) = 0 BY <1>4, <2>1 DEF Total
  <2>3. Total(BondedCost, <<>>, I) = 0 BY <1>4, <2>1 DEF Total
  <2> QED BY <1>2, <2>2, <2>3 DEF I
<1>6. Total(LAMBDA t : EscrowRelease(L, t), <<>>, DOMAIN <<>>) <= L.balance["htlc"]
  <2>1. SumFunction([i \in DOMAIN <<>> |-> EscrowRelease(L, <<>>[i])]) = 0 BY <1>1, <1>4
  <2> QED BY <1>3, <2>1 DEF Total
<1> QED BY <1>5, <1>6 DEF WithinMeans

\* _candidate_pool returns a good choice.
LEMMA SelectedGood ==
  ASSUME pool \in Seq(Txs), Unique(pool), ledger \in Ledgers, Solvent(ledger)
  PROVE  GoodChoice(Selected)
<1>1. PICK g : Selecting(g) /\ Selected = g[Len(pool)] BY SelectingExists
<1>2. \A i \in 0 .. Len(pool) :
        g[i] = IF i = 0 THEN <<>> ELSE Chosen(g[i - 1], pool[i])
  BY <1>1 DEF Selecting
<1>3. Len(pool) \in Nat /\ DOMAIN pool = 1 .. Len(pool) OBVIOUS
<1> DEFINE Good(s, n) == /\ GoodChoice(s)
                         /\ \A k \in DOMAIN s : \E j \in 1 .. n : pool[j] = s[k]
           N == {n \in Nat : n <= Len(pool) => Good(g[n], n)}
<1>4. 0 \in N
  <2>1. g[0] = <<>> BY <1>2, <1>3
  <2>2. WithinMeans(ledger, <<>>) BY NothingWithinMeans
  <2>3. Good(<<>>, 0) BY <2>2 DEF GoodChoice, Unique
  <2> QED BY <2>1, <2>3
<1>5. ASSUME NEW n \in N PROVE n + 1 \in N
  <2>1. n \in Nat /\ n + 1 \in Nat OBVIOUS
  <2> SUFFICES ASSUME n + 1 <= Len(pool) PROVE Good(g[n + 1], n + 1) BY <2>1
  <2>2. Good(g[n], n) /\ n + 1 \in 1 .. Len(pool) BY <1>3, <2>1
  <2> DEFINE s == g[n]
             t == pool[n + 1]
  <2>3. g[n + 1] = Chosen(s, t)
    <3>1. n + 1 \in 0 .. Len(pool) /\ n + 1 # 0 /\ (n + 1) - 1 = n BY <1>3, <2>1
    <3> QED BY <1>2, <3>1
  <2>4. t \in Txs BY <1>3, <2>2
  <2>5. \A k \in DOMAIN s : \E j \in 1 .. n : pool[j] = s[k] BY <2>2
  <2>6. GoodChoice(s) BY <2>2
  <2> HIDE DEF s, Good
  <2>7. 1 .. n \subseteq 1 .. n + 1 /\ n + 1 \in 1 .. n + 1 BY <2>1
  <2>8. CASE ~(t.id \notin ledger.mined /\ Valid(ledger, t)
               /\ WithinMeans(ledger, Append(s, t)))
    <3>1. g[n + 1] = s BY <2>3, <2>8 DEF Chosen
    <3> QED BY <2>5, <2>6, <2>7, <3>1 DEF Good
  <2>9. CASE t.id \notin ledger.mined /\ Valid(ledger, t)
             /\ WithinMeans(ledger, Append(s, t))
    <3> DEFINE r == Append(s, t)
    <3>1. g[n + 1] = r BY <2>3, <2>9 DEF Chosen
    <3>2. s \in Seq(Txs) /\ Unique(s) BY <2>6 DEF GoodChoice
    <3>3. /\ r \in Seq(Txs) /\ Len(s) \in Nat
          /\ DOMAIN r = 1 .. Len(s) + 1 /\ DOMAIN s = 1 .. Len(s)
          /\ r[Len(s) + 1] = t
          /\ \A k \in DOMAIN s : r[k] = s[k]
      BY <2>4, <3>2
    <3>4. \A k \in DOMAIN s : s[k].id # t.id
      <4>1. SUFFICES ASSUME NEW k \in DOMAIN s, s[k].id = t.id PROVE FALSE OBVIOUS
      <4>2. PICK j \in 1 .. n : pool[j] = s[k] BY <2>5
      <4>3. j \in DOMAIN pool /\ n + 1 \in DOMAIN pool /\ j # n + 1
        BY <1>3, <2>1, <2>2, <4>2
      <4> QED BY <4>1, <4>2, <4>3 DEF Unique
    <3> HIDE DEF r
    <3>5. \A k \in DOMAIN r : k \in DOMAIN s \/ k = Len(s) + 1 BY <3>3
    <3>6. Unique(r)
      <4> SUFFICES ASSUME NEW k \in DOMAIN r, NEW l \in DOMAIN r, r[k].id = r[l].id
                   PROVE  k = l
        BY DEF Unique
      <4>1. CASE k \in DOMAIN s /\ l \in DOMAIN s
        <5>1. s[k].id = s[l].id BY <3>3, <4>1
        <5> QED BY <3>2, <4>1, <5>1 DEF Unique
      <4>2. CASE k \in DOMAIN s /\ l = Len(s) + 1
        <5>1. s[k].id = t.id BY <3>3, <4>2
        <5> QED BY <3>4, <4>2, <5>1
      <4>3. CASE l \in DOMAIN s /\ k = Len(s) + 1
        <5>1. s[l].id = t.id BY <3>3, <4>3
        <5> QED BY <3>4, <4>3, <5>1
      <4>4. CASE k = Len(s) + 1 /\ l = Len(s) + 1 BY <4>4
      <4> QED BY <3>5, <4>1, <4>2, <4>3, <4>4
    <3>7. ASSUME NEW k \in DOMAIN r
          PROVE  /\ r[k].id \notin ledger.mined /\ Valid(ledger, r[k])
                 /\ \E j \in DOMAIN pool : pool[j] = r[k]
                 /\ \E j \in 1 .. n + 1 : pool[j] = r[k]
      <4>1. CASE k \in DOMAIN s
        <5>1. r[k] = s[k] BY <3>3, <4>1
        <5> QED BY <2>5, <2>6, <2>7, <4>1, <5>1 DEF GoodChoice
      <4>2. CASE k = Len(s) + 1
        <5>1. r[k] = t BY <3>3, <4>2
        <5> QED BY <1>3, <2>2, <2>7, <2>9, <5>1
      <4> QED BY <3>5, <4>1, <4>2
    <3>8. WithinMeans(ledger, r) BY <2>9 DEF r
    <3>9. GoodChoice(r) BY <3>3, <3>6, <3>7, <3>8 DEF GoodChoice
    <3> QED BY <3>1, <3>7, <3>9 DEF Good
  <2> QED BY <2>8, <2>9
<1> HIDE DEF N
<1>6. N = Nat
  <2>1. N \subseteq Nat BY DEF N
  <2> QED BY <1>4, <1>5, <2>1, NatInduct
<1>7. Good(g[Len(pool)], Len(pool)) BY <1>3, <1>6 DEF N
<1> QED BY <1>1, <1>7

\* Transactions that share a reserved-uniqueness key, seen from either.
LEMMA ClashSymmetric ==
  ASSUME NEW t, NEW u, Clash(t, u)
  PROVE  Clash(u, t)
  BY DEF Clash

\* A candidate passes verify_block on the ledger it was filled for.
LEMMA CandidateGood ==
  ASSUME pool \in Seq(Txs), Unique(pool), ledger \in Ledgers, Solvent(ledger),
         NEW h
  PROVE  /\ Matched(Selected, h) \in SUBSET Txs
         /\ BodyOk(ledger, InIdOrder(Matched(Selected, h)), h)
<1> DEFINE s == Selected
           M == Matched(s, h)
           r == InIdOrder(M)
<1>1. GoodChoice(s) BY SelectedGood
<1>2. s \in Seq(Txs) /\ WithinMeans(ledger, s) BY <1>1 DEF GoodChoice
<1> HIDE DEF s
<1>3. ASSUME NEW t \in M
      PROVE  /\ t \in Txs /\ LandsAt(t, h)
             /\ \E k \in DOMAIN s : s[k] = t
             /\ \A u \in M : Clash(t, u) => t.id <= u.id
  BY <1>2 DEF Matched, ToSet
<1>4. M \in SUBSET Txs BY <1>3
<1> HIDE DEF M
<1>5. /\ r \in Seq(Txs) /\ InTxidOrder(r)
      /\ \A k \in DOMAIN r : r[k] \in M
  BY <1>4, InOrder
<1> HIDE DEF r
<1>6. \A k \in DOMAIN r : r[k].id \in Nat
  <2>1. \A t \in Txs : t.id \in Nat BY TxsAssumption, TxShape
  <2> QED BY <1>5, <2>1
<1>7. DOMAIN r \subseteq Nat BY <1>5
<1>8. ASSUME NEW k \in DOMAIN r, NEW l \in DOMAIN r, r[k].id = r[l].id PROVE k = l
  <2>1. k < l => r[k].id < r[l].id BY <1>5 DEF InTxidOrder
  <2>2. l < k => r[l].id < r[k].id BY <1>5 DEF InTxidOrder
  <2>3. k \in Nat /\ l \in Nat BY <1>7
  <2> QED BY <1>6, <1>8, <2>1, <2>2, <2>3
<1>9. Unique(r) BY <1>8 DEF Unique
<1>10. ASSUME NEW k \in DOMAIN r, NEW l \in DOMAIN r, k # l PROVE ~Clash(r[k], r[l])
  <2>1. SUFFICES ASSUME Clash(r[k], r[l]) PROVE FALSE OBVIOUS
  <2>2. Clash(r[l], r[k]) BY <2>1, ClashSymmetric
  <2>3. r[k].id <= r[l].id /\ r[l].id <= r[k].id BY <1>3, <1>5, <2>1, <2>2
  <2>4. r[k].id = r[l].id BY <1>6, <2>3
  <2> QED BY <1>8, <1>10, <2>4
<1>11. IsPart(r, s) BY <1>3, <1>5 DEF IsPart
<1>12. WithinMeans(ledger, r) BY <1>2, <1>5, <1>9, <1>11, PartWithinMeans
<1>13. ASSUME NEW k \in DOMAIN r
       PROVE  LandsAt(r[k], h) /\ r[k].id \notin ledger.mined /\ Valid(ledger, r[k])
  BY <1>1, <1>3, <1>5 DEF GoodChoice
<1>14. BodyOk(ledger, r, h) BY <1>5, <1>10, <1>12, <1>13 DEF BodyOk
<1> QED BY <1>4, <1>14 DEF M, r, s

-----------------------------------------------------------------------------
(* Applying a block. *)

\* The recursive function behind Path.
Walks(g, L, body, h) ==
  g = [i \in 0 .. Len(body) |->
         IF i = 0 THEN L ELSE Reflect(g[i - 1], body[i], h)]

\* There is such a function, so that Path is what it says.
LEMMA PathSteps ==
  ASSUME NEW body \in Seq(Txs), NEW L, NEW h
  PROVE  \A i \in 0 .. Len(body) : Path(L, body, h)[i] =
           IF i = 0 THEN L ELSE Reflect(Path(L, body, h)[i - 1], body[i], h)
<1> DEFINE Fills(g, n) ==
             g = [i \in 0 .. n |-> IF i = 0 THEN L ELSE Reflect(g[i - 1], body[i], h)]
           N == {n \in Nat : \E g : Fills(g, n)}
<1>1. 0 \in N
  <2> DEFINE f == [i \in 0 .. 0 |-> L]
  <2>1. \A i \in 0 .. 0 : i = 0 OBVIOUS
  <2>2. Fills(f, 0) BY <2>1
  <2> QED BY <2>2
<1>2. ASSUME NEW n \in N PROVE n + 1 \in N
  <2>1. n \in Nat OBVIOUS
  <2>2. PICK g : Fills(g, n) OBVIOUS
  <2> DEFINE f == [i \in 0 .. n + 1 |->
                     IF i <= n THEN g[i] ELSE Reflect(g[n], body[n + 1], h)]
             k == [i \in 0 .. n + 1 |-> IF i = 0 THEN L ELSE Reflect(f[i - 1], body[i], h)]
  <2>3. \A i \in 0 .. n : g[i] = IF i = 0 THEN L ELSE Reflect(g[i - 1], body[i], h)
    BY <2>2
  <2>4. ASSUME NEW i \in 0 .. n + 1 PROVE f[i] = k[i]
    <3>1. CASE i = n + 1
      <4>1. i - 1 = n /\ ~(i <= n) /\ i # 0 /\ n \in 0 .. n + 1 /\ n <= n
        BY <2>1, <3>1
      <4>2. f[i] = Reflect(g[n], body[n + 1], h) BY <4>1
      <4>3. f[i - 1] = g[n] BY <4>1
      <4>4. k[i] = Reflect(f[i - 1], body[i], h) BY <4>1
      <4> QED BY <3>1, <4>2, <4>3, <4>4
    <3>2. CASE i # n + 1
      <4>1. i \in 0 .. n /\ i <= n BY <2>1, <3>2
      <4>2. CASE i = 0 BY <2>3, <4>1, <4>2
      <4>3. CASE i # 0
        <5>1. i - 1 \in 0 .. n + 1 /\ i - 1 <= n BY <2>1, <4>1, <4>3
        <5>2. f[i - 1] = g[i - 1] BY <5>1
        <5>3. k[i] = Reflect(f[i - 1], body[i], h) BY <4>3
        <5>4. f[i] = g[i] BY <4>1
        <5> QED BY <2>3, <4>1, <4>3, <5>2, <5>3, <5>4
      <4> QED BY <4>2, <4>3
    <3> QED BY <3>1, <3>2
  <2>5. f = k
    <3>1. f = [i \in 0 .. n + 1 |-> f[i]] /\ k = [i \in 0 .. n + 1 |-> k[i]] OBVIOUS
    <3> HIDE DEF f, k
    <3>2. [i \in 0 .. n + 1 |-> f[i]] = [i \in 0 .. n + 1 |-> k[i]] BY <2>4
    <3> QED BY <3>1, <3>2
  <2>6. Fills(f, n + 1) BY <2>5, Zenon
  <2> HIDE DEF f
  <2>7. n + 1 \in Nat BY <2>1
  <2> QED BY <2>6, <2>7
<1> HIDE DEF N
<1>3. N = Nat
  <2>1. N \subseteq Nat BY DEF N
  <2> QED BY <1>1, <1>2, <2>1, NatInduct
<1>4. Len(body) \in N BY <1>3
<1>5. \E g : Walks(g, L, body, h) BY <1>4 DEF N, Walks
<1>6. Path(L, body, h) = CHOOSE g : Walks(g, L, body, h) BY DEF Path, Walks
<1>7. Walks(Path(L, body, h), L, body, h) BY <1>5, <1>6
<1> HIDE <1>6
<1> QED BY <1>7 DEF Walks

\* A ledger that the next block, of height h, finds.
Sound(L, h) == L \in Ledgers /\ Fresh(L) /\ Unburned(L, h) /\ Solvent(L)

\* A block that verify_block let through and that does not raise leaves a
\* ledger that the next one finds.
LEMMA AppliedSound ==
  ASSUME NEW body \in Seq(Txs), NEW L, NEW h \in Heights, Sound(L, h),
         BodyOk(L, body, h), ~Raises(L, body, h)
  PROVE  Sound(Applied(L, body, h), h + 1)
<1> DEFINE g == Path(L, body, h)
           P(i) == /\ Sound(g[i], h)
                   /\ \A j \in DOMAIN body : j > i => Applicable(g[i], body[j])
           N == {n \in Nat : n <= Len(body) => P(n)}
<1>1. \A i \in 0 .. Len(body) :
        g[i] = IF i = 0 THEN L ELSE Reflect(g[i - 1], body[i], h)
  BY PathSteps
<1>2. \A i \in DOMAIN body : Fits(g[i - 1], body[i]) BY DEF Raises
<1> HIDE DEF g
<1>3. Len(body) \in Nat /\ DOMAIN body = 1 .. Len(body)
      /\ \A j \in DOMAIN body : body[j] \in Txs
  OBVIOUS
<1>4. 0 \in N
  <2>1. g[0] = L BY <1>1, <1>3
  <2>2. \A j \in DOMAIN body : Applicable(L, body[j])
    BY <1>3, ValidApplicable DEF BodyOk, Sound
  <2> QED BY <2>1, <2>2
<1>5. ASSUME NEW n \in N PROVE n + 1 \in N
  <2>1. n \in Nat /\ n + 1 \in Nat OBVIOUS
  <2> SUFFICES ASSUME n + 1 <= Len(body) PROVE P(n + 1) BY <2>1
  <2> DEFINE M == g[n]
             t == body[n + 1]
  <2>2. P(n) BY <2>1, <1>3
  <2>3. n + 1 \in DOMAIN body /\ t \in Txs /\ n + 1 > n BY <1>3, <2>1
  <2>4. g[n + 1] = Reflect(M, t, h)
    <3>1. n + 1 \in 0 .. Len(body) /\ n + 1 # 0 /\ (n + 1) - 1 = n BY <1>3, <2>1
    <3> QED BY <1>1, <3>1
  <2>5. Applicable(M, t) BY <2>2, <2>3
  <2>6. Fits(M, t)
    <3>1. (n + 1) - 1 = n BY <2>1
    <3> QED BY <1>2, <2>3, <3>1
  <2>7. Sound(M, h) BY <2>2
  <2>8. \A j \in DOMAIN body : j > n => Applicable(M, body[j]) BY <2>2
  <2> HIDE DEF M
  <2>9. Sound(Reflect(M, t, h), h)
    <3>1. Reflect(M, t, h) \in Ledgers BY <2>3, <2>5, <2>7, ReflectTyped DEF Sound
    <3>2. Fresh(Reflect(M, t, h)) BY <2>3, <2>5, <2>7, FreshKept DEF Sound
    <3>3. Reflect(M, t, h).burned = M.burned BY DEF Reflect
    <3>4. Unburned(Reflect(M, t, h), h) BY <2>7, <3>3 DEF Sound, Unburned
    <3>5. Solvent(Reflect(M, t, h))
      BY <2>3, <2>5, <2>6, <2>7, ReflectSolvent DEF Sound
    <3> QED BY <3>1, <3>2, <3>4, <3>5 DEF Sound
  <2>10. ASSUME NEW j \in DOMAIN body, j > n + 1
         PROVE  Applicable(Reflect(M, t, h), body[j])
    <3>1. j \in Nat /\ j > n /\ n + 1 < j /\ n + 1 # j BY <1>3, <2>1, <2>10
    <3>2. body[j] \in Txs /\ Applicable(M, body[j]) BY <1>3, <2>8, <3>1
    <3>3. t.id < body[j].id BY <2>3, <3>1 DEF BodyOk, InTxidOrder
    <3>4. t.id \in Nat /\ body[j].id \in Nat BY <2>3, <3>2, TxsAssumption, TxShape
    <3>5. t.id # body[j].id BY <3>3, <3>4
    <3>6. ~Clash(t, body[j]) BY <2>3, <3>1 DEF BodyOk
    <3> QED BY <2>3, <2>5, <2>7, <3>2, <3>5, <3>6, Frame DEF Sound
  <2> QED BY <2>4, <2>9, <2>10
<1> HIDE DEF N
<1>6. N = Nat
  <2>1. N \subseteq Nat BY DEF N
  <2> QED BY <1>4, <1>5, <2>1, NatInduct
<1>7. Sound(g[Len(body)], h) BY <1>3, <1>6 DEF N
<1> DEFINE M == g[Len(body)]
<1>8. Applied(L, body, h) = Seal(M, Header, h) BY DEF Applied, g
<1>9. Header.reward \in Nat /\ Header.creator \in Accounts BY GenesisAssumption
<1> HIDE DEF M
<1>10. Sound(M, h) BY <1>7 DEF M
<1>11. Seal(M, Header, h) \in Ledgers BY <1>9, <1>10, SealTyped DEF Sound
<1>12. Fresh(Seal(M, Header, h)) /\ Unburned(Seal(M, Header, h), h + 1)
  BY <1>10, SealSettles DEF Sound
<1>13. Solvent(Seal(M, Header, h)) BY <1>9, <1>10, SealSolvent DEF Sound
<1> QED BY <1>8, <1>11, <1>12, <1>13 DEF Sound

-----------------------------------------------------------------------------
(* The inductive invariant. *)

MergeStates == [tx: Txs, step: {"checked", "fits", "overspends"}]

Typed ==
  /\ chain \in Seq([txs: Seq(Txs), before: Ledgers]) /\ Tip <= MaxHeight
  /\ pool \in Seq(Txs)
  /\ merging \in [Threads -> MergeStates \cup {NoMerge}]
  /\ core \in {"loop", "built", "evicted", "tidy", "reinsert"}
  /\ block \in [own: BOOLEAN, txs: Seq(Txs)]
  /\ freed \in Seq(Txs) /\ reverted \subseteq Txs

\* The block thread merges what it has to reinsert, and nothing else.
Reinserts ==
  /\ core = "reinsert" <=> freed # <<>>
  /\ merging["core"] # NoMerge => core = "reinsert"

\* Who looked at the cap of the pool and has not appended yet counts with those
\* that are in the pool.
Busy == {p \in Threads : merging[p] # NoMerge}
PoolBounded == Len(pool) + Cardinality(Busy) < PoolMaxTxs + Cardinality(Threads)

\* The block in hand is valid for the ledger until it is applied or given up.
BlockStands ==
  core \in {"built", "evicted"} =>
    Tip < MaxHeight /\ BodyOk(ledger, block.txs, Tip + 1)

LedgersSound ==
  /\ Sound(ledger, Tip + 1)
  /\ \A i \in DOMAIN chain : Sound(chain[i].before, i)

MempoolInv ==
  /\ Typed /\ Reinserts /\ PoolUnique /\ PoolBounded /\ BlockStands /\ LedgersSound

\* Who is merging is some of finitely many threads.
LEMMA ThreadsFinite ==
  /\ IsFiniteSet(Threads) /\ Cardinality(Threads) \in Nat
  /\ \A B \in SUBSET Threads : /\ IsFiniteSet(B) /\ Cardinality(B) \in Nat
                               /\ Cardinality(B) <= Cardinality(Threads)
<1>1. IsFiniteSet(Threads) BY MempoolAssumption, FS_AddElement DEF Threads
<1>2. \A B \in SUBSET Threads : IsFiniteSet(B) /\ Cardinality(B) <= Cardinality(Threads)
  BY <1>1, FS_Subset
<1> QED BY <1>1, <1>2, FS_CardinalityType

\* The block thread is one of those that merge.
LEMMA CoreMerges == "core" \in Threads BY DEF Threads

\* What the invariant says of the types, in the form the steps need.
LEMMA InvTypes ==
  ASSUME MempoolInv
  PROVE  /\ pool \in Seq(Txs) /\ Len(pool) \in Nat /\ DOMAIN pool = 1 .. Len(pool)
         /\ \A i \in DOMAIN pool : pool[i] \in Txs
         /\ Unique(pool)
         /\ ledger \in Ledgers /\ Solvent(ledger)
         /\ Tip \in Nat /\ Tip <= MaxHeight /\ MaxHeight \in Nat
         /\ PoolMaxTxs \in Nat \ {0}
         /\ Len(pool) + Cardinality(Busy) < PoolMaxTxs + Cardinality(Threads)
         /\ Cardinality(Busy) \in Nat /\ IsFiniteSet(Busy)
<1>1. Busy \in SUBSET Threads BY DEF Busy
<1>2. Cardinality(Busy) \in Nat /\ IsFiniteSet(Busy) BY <1>1, ThreadsFinite
<1>3. MaxHeight \in Nat BY BoundsAssumption
<1>4. Tip \in Nat BY DEF MempoolInv, Typed, Tip
<1> QED BY <1>2, <1>3, <1>4, MempoolAssumption
        DEF MempoolInv, Typed, PoolUnique, Unique, LedgersSound, Sound, PoolBounded

\* An empty chain, an empty pool, and nobody merging.
LEMMA InitInv ==
  ASSUME Init
  PROVE  MempoolInv
<1>1. Typed
  <2>1. chain \in Seq([txs: Seq(Txs), before: Ledgers]) /\ Tip = 0 BY DEF Init, Tip
  <2>2. 0 <= MaxHeight BY BoundsAssumption
  <2>3. pool \in Seq(Txs) /\ freed \in Seq(Txs) /\ reverted \subseteq Txs BY DEF Init
  <2>4. merging \in [Threads -> MergeStates \cup {NoMerge}] BY DEF Init
  <2>5. block \in [own: BOOLEAN, txs: Seq(Txs)] BY DEF Init, NoBlock
  <2>6. core \in {"loop", "built", "evicted", "tidy", "reinsert"} BY DEF Init
  <2> QED BY <2>1, <2>2, <2>3, <2>4, <2>5, <2>6 DEF Typed
<1>2. Reinserts BY CoreMerges DEF Init, Reinserts
<1>3. PoolUnique BY DEF Init, PoolUnique
<1>4. PoolBounded
  <2>1. Busy = {} BY DEF Init, Busy
  <2>2. Cardinality(Busy) = 0 BY <2>1, FS_EmptySet
  <2>3. Len(pool) = 0 BY DEF Init
  <2>4. 0 < PoolMaxTxs + Cardinality(Threads) BY MempoolAssumption, ThreadsFinite
  <2> QED BY <2>2, <2>3, <2>4 DEF PoolBounded
<1>5. BlockStands BY DEF Init, BlockStands
<1>6. LedgersSound
  <2>1. Fresh(Genesis) BY GenesisAssumption, NoneAssumption DEF Fresh
  <2>2. Unburned(Genesis, 1) BY GenesisAssumption DEF Unburned
  <2>3. Sound(Genesis, 1) BY <2>1, <2>2, GenesisAssumption DEF Sound
  <2>4. Tip + 1 = 1 BY DEF Init, Tip
  <2>5. DOMAIN chain = {} BY DEF Init
  <2>6. ledger = Genesis BY DEF Init
  <2> QED BY <2>3, <2>4, <2>5, <2>6 DEF LedgersSound
<1> QED BY <1>1, <1>2, <1>3, <1>4, <1>5, <1>6 DEF MempoolInv

\* A thread more that merges, after the pool was seen below its cap.
LEMMA OneMoreMerges ==
  ASSUME MempoolInv, NEW p \in Threads, NEW t \in Txs, merging[p] = NoMerge,
         Len(pool) < PoolMaxTxs,
         merging' = [merging EXCEPT ![p] = [tx |-> t, step |-> "checked"]],
         UNCHANGED pool
  PROVE  /\ merging' \in [Threads -> MergeStates \cup {NoMerge}]
         /\ PoolBounded'
<1>1. merging' \in [Threads -> MergeStates \cup {NoMerge}]
  <2>1. [tx |-> t, step |-> "checked"] \in MergeStates BY DEF MergeStates
  <2>2. merging \in [Threads -> MergeStates \cup {NoMerge}] BY DEF MempoolInv, Typed
  <2> QED BY <2>1, <2>2
<1>2. Busy' \in SUBSET Threads BY DEF Busy
<1>3. Cardinality(Busy') \in Nat /\ Cardinality(Busy') <= Cardinality(Threads)
  BY <1>2, ThreadsFinite
<1>4. Len(pool) + Cardinality(Busy') < PoolMaxTxs + Cardinality(Threads)
  BY <1>3, ThreadsFinite, InvTypes
<1> QED BY <1>1, <1>4 DEF PoolBounded

\* A pool of fewer transactions, with everybody merging what they did.
LEMMA Fewer ==
  ASSUME MempoolInv, NEW S, pool' = Among(pool, S), UNCHANGED merging
  PROVE  /\ pool' \in Seq(Txs) /\ PoolUnique' /\ PoolBounded'
<1>1. pool' \in Seq(Txs) /\ Len(pool') <= Len(pool) BY InvTypes, AmongKeeps
<1>2. Unique(pool') BY InvTypes, AmongUnique
<1>3. PoolUnique' BY <1>2 DEF Unique, PoolUnique
<1>4. Busy' = Busy BY DEF Busy
<1>5. Len(pool') \in Nat BY <1>1
<1>6. Len(pool') + Cardinality(Busy) < PoolMaxTxs + Cardinality(Threads)
  BY <1>1, <1>5, InvTypes, ThreadsFinite
<1> QED BY <1>1, <1>3, <1>4, <1>6 DEF PoolBounded

\* The handlers' first step.
LEMMA AdmitInv ==
  ASSUME MempoolInv, NEW p \in Handlers, NEW t \in Txs, Admit(p, t)
  PROVE  MempoolInv'
<1>1. p \in Threads /\ p # "core" BY MempoolAssumption DEF Threads
<1>2. /\ merging[p] = NoMerge /\ Len(pool) < PoolMaxTxs
      /\ merging' = [merging EXCEPT ![p] = [tx |-> t, step |-> "checked"]]
      /\ UNCHANGED <<chain, ledger, pool, core, block, freed, reverted>>
  BY DEF Admit, Admissible
<1>3. merging' \in [Threads -> MergeStates \cup {NoMerge}] /\ PoolBounded'
  BY <1>1, <1>2, OneMoreMerges
<1>4. Typed' BY <1>2, <1>3 DEF MempoolInv, Typed, Tip
<1>5. merging'["core"] = merging["core"]
  BY <1>1, <1>2, CoreMerges DEF MempoolInv, Typed
<1>6. Reinserts' BY <1>2, <1>5 DEF MempoolInv, Reinserts
<1>7. PoolUnique' BY <1>2 DEF MempoolInv, PoolUnique
<1>8. BlockStands' BY <1>2 DEF MempoolInv, BlockStands, Tip
<1>9. LedgersSound' BY <1>2 DEF MempoolInv, LedgersSound, Tip
<1> QED BY <1>3, <1>4, <1>6, <1>7, <1>8, <1>9 DEF MempoolInv

\* validate_single_spending.
LEMMA WeighInv ==
  ASSUME MempoolInv, NEW p \in Threads, Weigh(p)
  PROVE  MempoolInv'
<1> DEFINE step == IF Affordable(merging[p].tx) THEN "fits" ELSE "overspends"
<1>1. /\ merging[p].step = "checked"
      /\ merging' = [merging EXCEPT ![p].step = step]
      /\ UNCHANGED <<chain, ledger, pool, core, block, freed, reverted>>
  BY DEF Weigh
<1>2. step \in {"fits", "overspends"} OBVIOUS
<1> HIDE DEF step
<1>3. merging \in [Threads -> MergeStates \cup {NoMerge}] BY DEF MempoolInv, Typed
<1>4. merging[p] \in MergeStates BY <1>1, <1>3 DEF NoMerge
<1>5. /\ merging' \in [Threads -> MergeStates \cup {NoMerge}]
      /\ merging'[p] \in MergeStates
      /\ \A q \in Threads : q # p => merging'[q] = merging[q]
  <2> DEFINE new == [merging[p] EXCEPT !.step = step]
  <2>1. new \in MergeStates BY <1>2, <1>4 DEF MergeStates
  <2>2. merging' = [merging EXCEPT ![p] = new] BY <1>1
  <2> HIDE DEF new
  <2> QED BY <1>3, <2>1, <2>2
<1>6. \A m \in MergeStates : m # NoMerge BY DEF MergeStates, NoMerge
<1>7. Busy' = Busy BY <1>4, <1>5, <1>6 DEF Busy
<1>8. PoolBounded' BY <1>1, <1>7 DEF MempoolInv, PoolBounded
<1>9. Typed' BY <1>1, <1>5 DEF MempoolInv, Typed, Tip
<1>10. merging'["core"] # NoMerge => merging["core"] # NoMerge
  BY <1>4, <1>5, <1>6, CoreMerges
<1>11. Reinserts' BY <1>1, <1>10 DEF MempoolInv, Reinserts
<1>12. PoolUnique' BY <1>1 DEF MempoolInv, PoolUnique
<1>13. BlockStands' BY <1>1 DEF MempoolInv, BlockStands, Tip
<1>14. LedgersSound' BY <1>1 DEF MempoolInv, LedgersSound, Tip
<1> QED BY <1>8, <1>9, <1>11, <1>12, <1>13, <1>14 DEF MempoolInv

\* The rest of a sequence that is not empty.
LEMMA Rest ==
  ASSUME NEW X, NEW s \in Seq(X), s # <<>>
  PROVE  /\ Tail(s) \in Seq(X) /\ Len(s) \in Nat \ {0} /\ Head(s) \in X
         /\ Tail(s) # <<>> <=> Len(s) # 1
<1>1. Len(s) \in Nat \ {0} /\ Head(s) \in X OBVIOUS
<1>2. Tail(s) \in Seq(X) /\ Len(Tail(s)) = Len(s) - 1 OBVIOUS
<1> DEFINE r == Tail(s)
<1>3. r \in Seq(X) /\ Len(r) = Len(s) - 1 BY <1>2
<1> HIDE DEF r
<1>4. r # <<>> <=> Len(r) # 0 BY <1>3
<1>5. r # <<>> <=> Len(s) # 1 BY <1>1, <1>3, <1>4
<1> QED BY <1>1, <1>3, <1>5 DEF r

\* The end of a merge: what the block thread has still to reinsert.
LEMMA NextFreedInv ==
  ASSUME MempoolInv, NEW p \in Threads, NextFreed(p),
         p = "core" => core = "reinsert"
  PROVE  /\ freed' \in Seq(Txs) /\ core' \in {"loop", "built", "evicted", "tidy", "reinsert"}
         /\ core' = "reinsert" <=> freed' # <<>>
         /\ p # "core" => core' = core
         /\ core' \in {"built", "evicted"} => core' = core
<1>1. /\ freed \in Seq(Txs) /\ core \in {"loop", "built", "evicted", "tidy", "reinsert"}
      /\ core = "reinsert" <=> freed # <<>>
  BY DEF MempoolInv, Typed, Reinserts
<1>2. CASE p # "core" BY <1>1, <1>2 DEF NextFreed
<1>3. CASE p = "core"
  <2>1. freed' = Tail(freed) /\ core' = IF Len(freed) = 1 THEN "loop" ELSE core
    BY <1>3 DEF NextFreed
  <2>2. freed # <<>> /\ core = "reinsert" BY <1>1, <1>3
  <2>3. Tail(freed) \in Seq(Txs) /\ (Tail(freed) # <<>> <=> Len(freed) # 1)
    BY <1>1, <2>2, Rest
  <2> QED BY <1>3, <2>1, <2>2, <2>3
<1> QED BY <1>2, <1>3

\* The append under the lock, or the purge.
LEMMA SettleInv ==
  ASSUME MempoolInv, NEW p \in Threads, Settle(p)
  PROVE  MempoolInv'
<1> DEFINE t == merging[p].tx
<1>1. /\ \/ merging[p].step = "fits" /\ pool' = JoinedOnce(t)
         \/ merging[p].step = "overspends" /\ pool' = Purged(t.sender)
      /\ merging' = [merging EXCEPT ![p] = NoMerge]
      /\ NextFreed(p)
      /\ UNCHANGED <<chain, ledger, block, reverted>>
  BY DEF Settle
<1>2. merging \in [Threads -> MergeStates \cup {NoMerge}] BY DEF MempoolInv, Typed
<1>3. merging[p] \in MergeStates /\ merging[p] # NoMerge
  BY <1>1, <1>2 DEF NoMerge
<1>4. t \in Txs BY <1>3 DEF MergeStates
<1> HIDE DEF t
<1>5. p = "core" => core = "reinsert" BY <1>3 DEF MempoolInv, Reinserts
<1>6. /\ merging' \in [Threads -> MergeStates \cup {NoMerge}] /\ merging'[p] = NoMerge
      /\ \A q \in Threads : q # p => merging'[q] = merging[q]
  BY <1>1, <1>2
<1>7. Busy' = Busy \ {p} /\ p \in Busy BY <1>3, <1>6 DEF Busy
<1>8. Cardinality(Busy') = Cardinality(Busy) - 1 BY <1>7, InvTypes, FS_RemoveElement
<1>9. /\ pool' \in Seq(Txs) /\ Unique(pool') /\ Len(pool') \in Nat
      /\ Len(pool') <= Len(pool) + 1
  <2>1. CASE pool' = JoinedOnce(t) /\ t.id \in Pooled
    BY <2>1, InvTypes DEF JoinedOnce
  <2>2. CASE pool' = JoinedOnce(t) /\ t.id \notin Pooled
    <3>1. pool' = Append(pool, t) BY <2>2 DEF JoinedOnce
    <3>2. /\ pool' \in Seq(Txs) /\ Len(pool') = Len(pool) + 1
          /\ DOMAIN pool' = 1 .. Len(pool) + 1
          /\ pool'[Len(pool) + 1] = t
          /\ \A i \in DOMAIN pool : pool'[i] = pool[i]
      BY <1>4, <3>1, InvTypes
    <3>3. \A i \in DOMAIN pool : pool[i].id # t.id BY <2>2 DEF Pooled
    <3>4. \A i \in DOMAIN pool' : i \in DOMAIN pool \/ i = Len(pool) + 1
      BY <3>2, InvTypes
    <3>5. ASSUME NEW i \in DOMAIN pool', NEW j \in DOMAIN pool', pool'[i].id = pool'[j].id
          PROVE  i = j
      <4>1. CASE i \in DOMAIN pool /\ j \in DOMAIN pool
        <5>1. pool[i].id = pool[j].id BY <3>2, <3>5, <4>1
        <5> QED BY <4>1, <5>1 DEF MempoolInv, PoolUnique
      <4>2. CASE i \in DOMAIN pool /\ j = Len(pool) + 1
        <5>1. pool[i].id = t.id BY <3>2, <3>5, <4>2
        <5> QED BY <3>3, <4>2, <5>1
      <4>3. CASE j \in DOMAIN pool /\ i = Len(pool) + 1
        <5>1. pool[j].id = t.id BY <3>2, <3>5, <4>3
        <5> QED BY <3>3, <4>3, <5>1
      <4>4. CASE i = Len(pool) + 1 /\ j = Len(pool) + 1 BY <4>4
      <4> QED BY <3>4, <4>1, <4>2, <4>3, <4>4
    <3>6. Unique(pool') BY <3>5 DEF Unique
    <3> QED BY <3>2, <3>6, InvTypes
  <2>3. CASE pool' = Purged(t.sender)
    <3> DEFINE S == {u \in Txs : u.sender # t.sender}
    <3>1. pool' = Among(pool, S) BY <2>3 DEF Purged
    <3> HIDE DEF S
    <3>2. pool' \in Seq(Txs) /\ Len(pool') <= Len(pool) BY <3>1, InvTypes, AmongKeeps
    <3>3. Unique(pool') BY <3>1, InvTypes, AmongUnique
    <3>4. Len(pool') \in Nat BY <3>2
    <3> QED BY <3>2, <3>3, <3>4, InvTypes
  <2> QED BY <1>1, <2>1, <2>2, <2>3
<1>10. PoolUnique' BY <1>9 DEF PoolUnique, Unique
<1>11. PoolBounded'
  <2>1. Len(pool') + Cardinality(Busy') < PoolMaxTxs + Cardinality(Threads)
    BY <1>8, <1>9, InvTypes, ThreadsFinite
  <2> QED BY <2>1 DEF PoolBounded
<1>12. /\ freed' \in Seq(Txs) /\ core' \in {"loop", "built", "evicted", "tidy", "reinsert"}
       /\ core' = "reinsert" <=> freed' # <<>>
       /\ p # "core" => core' = core
       /\ core' \in {"built", "evicted"} => core' = core
  BY <1>1, <1>5, NextFreedInv
<1>13. Typed' BY <1>1, <1>6, <1>9, <1>12 DEF MempoolInv, Typed, Tip
<1>14. merging'["core"] # NoMerge => core' = "reinsert"
  <2>1. p # "core" => merging'["core"] = merging["core"] /\ core' = core
    BY <1>6, <1>12, CoreMerges
  <2> QED BY <1>6, <2>1 DEF MempoolInv, Reinserts
<1>15. Reinserts' BY <1>12, <1>14 DEF Reinserts
<1>16. BlockStands' BY <1>1, <1>12 DEF MempoolInv, BlockStands, Tip
<1>17. LedgersSound' BY <1>1 DEF MempoolInv, LedgersSound, Tip
<1> QED BY <1>10, <1>11, <1>13, <1>15, <1>16, <1>17 DEF MempoolInv

\* Filtering what is in the pool twice is filtering it.
LEMMA CullInv ==
  ASSUME MempoolInv, Cull
  PROVE  MempoolInv'
<1> DEFINE kept == Among(pool, {t \in Txs : t.id \notin ledger.mined})
           drop == {kept[i].id : i \in Surplus(kept)}
           S    == {t \in Txs : t.id \notin drop}
<1>1. /\ pool' = Among(kept, S) /\ core = "loop"
      /\ UNCHANGED <<chain, ledger, merging, core, block, freed, reverted>>
  BY DEF Cull, Culled
<1> HIDE DEF S
<1>2. kept \in Seq(Txs) /\ Len(kept) <= Len(pool) BY InvTypes, AmongKeeps
<1>3. Unique(kept) BY InvTypes, AmongUnique
<1> HIDE DEF kept
<1>4. pool' \in Seq(Txs) /\ Len(pool') <= Len(kept) BY <1>1, <1>2, AmongKeeps
<1>5. Unique(pool') BY <1>1, <1>2, <1>3, AmongUnique
<1>6. PoolUnique' BY <1>5 DEF PoolUnique, Unique
<1>7. PoolBounded'
  <2>1. Len(pool') \in Nat /\ Len(kept) \in Nat BY <1>2, <1>4
  <2>2. Len(pool') + Cardinality(Busy) < PoolMaxTxs + Cardinality(Threads)
    BY <1>2, <1>4, <2>1, InvTypes, ThreadsFinite
  <2>3. Busy' = Busy BY <1>1 DEF Busy
  <2> QED BY <2>2, <2>3 DEF PoolBounded
<1>8. Typed' BY <1>1, <1>4 DEF MempoolInv, Typed, Tip
<1>9. Reinserts' BY <1>1 DEF MempoolInv, Reinserts
<1>10. BlockStands' BY <1>1 DEF MempoolInv, BlockStands, Tip
<1>11. LedgersSound' BY <1>1 DEF MempoolInv, LedgersSound, Tip
<1> QED BY <1>6, <1>7, <1>8, <1>9, <1>10, <1>11 DEF MempoolInv

\* A block in hand that is valid at the next height.
LEMMA InHandInv ==
  ASSUME MempoolInv, NEW own \in BOOLEAN, NEW body \in Seq(Txs),
         core = "loop", Tip < MaxHeight, BodyOk(ledger, body, Tip + 1),
         core' = "built", block' = [own |-> own, txs |-> body],
         UNCHANGED <<chain, ledger, pool, merging, freed, reverted>>
  PROVE  MempoolInv'
<1>1. Typed' BY DEF MempoolInv, Typed, Tip
<1>2. Reinserts' BY DEF MempoolInv, Reinserts
<1>3. PoolUnique' BY DEF MempoolInv, PoolUnique
<1>4. PoolBounded'
  <2>1. Busy' = Busy BY DEF Busy
  <2> QED BY <2>1 DEF MempoolInv, PoolBounded
<1>5. BlockStands'
  <2>1. block'.txs = body OBVIOUS
  <2> QED BY <2>1 DEF BlockStands, Tip
<1>6. LedgersSound' BY DEF MempoolInv, LedgersSound, Tip
<1> QED BY <1>1, <1>2, <1>3, <1>4, <1>5, <1>6 DEF MempoolInv

\* A candidate is a block that verification lets through.
LEMMA BuildInv ==
  ASSUME MempoolInv, Build
  PROVE  MempoolInv'
<1> DEFINE body == Candidate
<1>1. /\ core = "loop" /\ Tip < MaxHeight /\ core' = "built"
      /\ block' = [own |-> TRUE, txs |-> body]
      /\ UNCHANGED <<chain, ledger, pool, merging, freed, reverted>>
  BY DEF Build
<1>2. /\ Matched(Selected, Tip + 1) \in SUBSET Txs
      /\ BodyOk(ledger, InIdOrder(Matched(Selected, Tip + 1)), Tip + 1)
  BY InvTypes, CandidateGood
<1>3. body \in Seq(Txs) /\ BodyOk(ledger, body, Tip + 1) BY <1>2, InOrder DEF Candidate
<1> HIDE DEF body
<1> QED BY <1>1, <1>3, InHandInv

\* So is the block of an honest peer.
LEMMA ReceiveInv ==
  ASSUME MempoolInv, Receive
  PROVE  MempoolInv'
<1>1. PICK S \in SUBSET Txs : /\ BodyOk(ledger, InIdOrder(S), Tip + 1)
                              /\ block' = [own |-> FALSE, txs |-> InIdOrder(S)]
  BY DEF Receive
<1>2. InIdOrder(S) \in Seq(Txs) BY InOrder
<1>3. /\ core = "loop" /\ Tip < MaxHeight /\ core' = "built"
      /\ UNCHANGED <<chain, ledger, pool, merging, freed, reverted>>
  BY DEF Receive
<1> QED BY <1>1, <1>2, <1>3, InHandInv

\* validate_transactions_in_block.
LEMMA EvictInv ==
  ASSUME MempoolInv, Evict
  PROVE  MempoolInv'
<1> DEFINE S == {t \in Txs : t.id \notin {u.id : u \in ToSet(block.txs)}}
<1>1. /\ core = "built" /\ core' = "evicted" /\ pool' = Among(pool, S)
      /\ UNCHANGED <<chain, ledger, merging, block, freed, reverted>>
  BY DEF Evict
<1> HIDE DEF S
<1>2. pool' \in Seq(Txs) /\ PoolUnique' /\ PoolBounded' BY <1>1, Fewer
<1>3. Typed' BY <1>1, <1>2 DEF MempoolInv, Typed, Tip
<1>4. Reinserts' BY <1>1 DEF MempoolInv, Reinserts
<1>5. BlockStands' BY <1>1 DEF MempoolInv, BlockStands, Tip
<1>6. LedgersSound' BY <1>1 DEF MempoolInv, LedgersSound, Tip
<1> QED BY <1>2, <1>3, <1>4, <1>5, <1>6 DEF MempoolInv

\* remove_outdated_transactions.
LEMMA TidyInv ==
  ASSUME MempoolInv, Tidy
  PROVE  MempoolInv'
<1> DEFINE S == {t \in Txs : Tip < t.lands.max /\ t.lands.max < Tip + LandingWindow}
<1>1. /\ core = "tidy" /\ core' = "loop" /\ pool' = Among(pool, S)
      /\ UNCHANGED <<chain, ledger, merging, block, freed, reverted>>
  BY DEF Tidy
<1> HIDE DEF S
<1>2. pool' \in Seq(Txs) /\ PoolUnique' /\ PoolBounded' BY <1>1, Fewer
<1>3. Typed' BY <1>1, <1>2 DEF MempoolInv, Typed, Tip
<1>4. Reinserts' BY <1>1 DEF MempoolInv, Reinserts
<1>5. BlockStands' BY <1>1 DEF MempoolInv, BlockStands, Tip
<1>6. LedgersSound' BY <1>1 DEF MempoolInv, LedgersSound, Tip
<1> QED BY <1>2, <1>3, <1>4, <1>5, <1>6 DEF MempoolInv

\* The block is done with, the pool and those who merge are as they were.
LEMMA FinishInv ==
  ASSUME MempoolInv, core = "evicted", Finish,
         UNCHANGED <<pool, merging, freed, reverted>>
  PROVE  /\ core' \in {"loop", "tidy"} /\ block' \in [own: BOOLEAN, txs: Seq(Txs)]
         /\ Reinserts' /\ PoolUnique' /\ PoolBounded' /\ BlockStands'
<1>1. core' \in {"loop", "tidy"} /\ block' = NoBlock BY DEF Finish
<1>2. block' \in [own: BOOLEAN, txs: Seq(Txs)] BY <1>1 DEF NoBlock
<1>3. Reinserts' BY <1>1 DEF MempoolInv, Reinserts
<1>4. PoolUnique' BY DEF MempoolInv, PoolUnique
<1>5. Busy' = Busy BY DEF Busy
<1>6. PoolBounded' BY <1>5 DEF MempoolInv, PoolBounded
<1>7. BlockStands' BY <1>1 DEF BlockStands
<1> QED BY <1>1, <1>2, <1>3, <1>4, <1>6, <1>7

\* The ledger is as it was.
LEMMA FailInv ==
  ASSUME MempoolInv, Fail
  PROVE  MempoolInv'
<1>1. /\ core = "evicted" /\ Finish
      /\ UNCHANGED <<chain, ledger, pool, merging, freed, reverted>>
  BY DEF Fail
<1>2. /\ core' \in {"loop", "tidy"} /\ block' \in [own: BOOLEAN, txs: Seq(Txs)]
      /\ Reinserts' /\ PoolUnique' /\ PoolBounded' /\ BlockStands'
  BY <1>1, FinishInv
<1>3. Typed' BY <1>1, <1>2 DEF MempoolInv, Typed, Tip
<1>4. LedgersSound' BY <1>1 DEF MempoolInv, LedgersSound, Tip
<1> QED BY <1>2, <1>3, <1>4 DEF MempoolInv

\* incorporate_block.
LEMMA CommitInv ==
  ASSUME MempoolInv, Commit
  PROVE  MempoolInv'
<1> DEFINE h == Tip + 1
           entry == [txs |-> block.txs, before |-> ledger]
           Entry == [txs: Seq(Txs), before: Ledgers]
<1>1. /\ core = "evicted" /\ ~Raises(ledger, block.txs, h)
      /\ chain' = Append(chain, entry)
      /\ ledger' = Applied(ledger, block.txs, h)
      /\ Finish /\ UNCHANGED <<pool, merging, freed, reverted>>
  BY DEF Commit
<1>2. /\ core' \in {"loop", "tidy"} /\ block' \in [own: BOOLEAN, txs: Seq(Txs)]
      /\ Reinserts' /\ PoolUnique' /\ PoolBounded' /\ BlockStands'
  BY <1>1, FinishInv
<1>3. /\ block.txs \in Seq(Txs) /\ chain \in Seq(Entry) /\ Len(chain) = Tip
      /\ ledger \in Ledgers
  BY InvTypes DEF MempoolInv, Typed, Tip
<1>4. Tip < MaxHeight /\ BodyOk(ledger, block.txs, h)
  BY <1>1 DEF MempoolInv, BlockStands
<1>5. h \in Heights /\ h \in Nat /\ h <= MaxHeight BY <1>4, InvTypes DEF Heights
<1>6. entry \in Entry /\ entry.before = ledger BY <1>3
<1>7. Sound(ledger, h) BY DEF MempoolInv, LedgersSound
<1> HIDE DEF entry, Entry
<1>8. /\ chain' \in Seq(Entry) /\ Len(chain') = h /\ DOMAIN chain' = 1 .. h
      /\ chain'[h] = entry
      /\ \A i \in DOMAIN chain : chain'[i] = chain[i]
      /\ DOMAIN chain = 1 .. Tip
  BY <1>1, <1>3, <1>6, InvTypes
<1>9. Tip' = h BY <1>8 DEF Tip
<1> HIDE DEF h
<1>10. Sound(ledger', h + 1)
  BY <1>1, <1>3, <1>4, <1>5, <1>7, AppliedSound
<1>11. ASSUME NEW i \in DOMAIN chain' PROVE Sound(chain'[i].before, i)
  <2>1. CASE i = h BY <1>6, <1>7, <1>8, <2>1
  <2>2. CASE i # h
    <3>1. i \in DOMAIN chain BY <1>8, <2>2, InvTypes DEF h
    <3> QED BY <1>8, <3>1 DEF MempoolInv, LedgersSound
  <2> QED BY <2>1, <2>2
<1>12. LedgersSound' BY <1>9, <1>10, <1>11 DEF LedgersSound
<1>13. Typed' BY <1>1, <1>2, <1>5, <1>8, <1>9 DEF MempoolInv, Typed, Entry
<1> QED BY <1>2, <1>12, <1>13 DEF MempoolInv

\* All but the last of a sequence that is not empty.
LEMMA Firsts ==
  ASSUME NEW X, NEW s \in Seq(X), Len(s) > 0
  PROVE  /\ Front(s) \in Seq(X) /\ Len(Front(s)) = Len(s) - 1
         /\ DOMAIN Front(s) = 1 .. Len(s) - 1
         /\ \A i \in DOMAIN Front(s) : i \in DOMAIN s /\ Front(s)[i] = s[i]
         /\ Len(s) \in DOMAIN s /\ Last(s) = s[Len(s)] /\ Last(s) \in X
<1> DEFINE n == Len(s) - 1
           f == SubSeq(s, 1, n)
<1>1. n \in Nat /\ DOMAIN s = 1 .. n + 1 /\ n + 1 = Len(s) /\ n <= Len(s) OBVIOUS
<1>2. Last(s) = s[Len(s)] /\ Len(s) \in DOMAIN s /\ Last(s) \in X BY <1>1 DEF Last
<1>3. Front(s) = f BY DEF Front
<1> HIDE DEF n
<1>4. Len(f) = n BY <1>1
<1>5. ASSUME NEW i \in 1 .. n PROVE f[i] = s[i] /\ i \in DOMAIN s BY <1>1
<1>6. f \in Seq(X) BY <1>1
<1> HIDE DEF f
<1>7. DOMAIN f = 1 .. n BY <1>4, <1>6
<1> QED BY <1>2, <1>3, <1>4, <1>5, <1>6, <1>7 DEF n

\* rollback_one_block, in the reorg leg.
LEMMA RollBackInv ==
  ASSUME MempoolInv, RollBack
  PROVE  MempoolInv'
<1> DEFINE Entry == [txs: Seq(Txs), before: Ledgers]
           last == Last(chain)
<1>1. /\ core = "loop" /\ Tip > 0
      /\ chain' = Front(chain) /\ ledger' = last.before /\ freed' = last.txs
      /\ reverted' = reverted \cup ToSet(freed')
      /\ core' = IF freed' = <<>> THEN "loop" ELSE "reinsert"
      /\ UNCHANGED <<pool, merging, block>>
  BY DEF RollBack
<1>2. chain \in Seq(Entry) /\ Len(chain) = Tip BY DEF MempoolInv, Typed, Tip
<1> HIDE DEF Entry, last
<1>3. /\ chain' \in Seq(Entry) /\ Len(chain') = Tip - 1
      /\ DOMAIN chain' = 1 .. Tip - 1
      /\ \A i \in DOMAIN chain' : i \in DOMAIN chain /\ chain'[i] = chain[i]
      /\ Tip \in DOMAIN chain /\ last = chain[Tip] /\ last \in Entry
  BY <1>1, <1>2, Firsts DEF last
<1>4. Tip' = Tip - 1 BY <1>3 DEF Tip
<1>5. last.txs \in Seq(Txs) BY <1>3 DEF Entry
<1>6. freed' \in Seq(Txs) /\ ToSet(freed') \subseteq Txs BY <1>1, <1>5 DEF ToSet
<1>7. Sound(ledger', Tip) BY <1>1, <1>3 DEF MempoolInv, LedgersSound
<1>8. LedgersSound'
  <2>1. Tip' + 1 = Tip BY <1>4, InvTypes
  <2>2. \A i \in DOMAIN chain' : Sound(chain'[i].before, i)
    BY <1>3 DEF MempoolInv, LedgersSound
  <2> QED BY <1>7, <2>1, <2>2 DEF LedgersSound
<1>9. Typed'
  <2>1. Tip' <= MaxHeight BY <1>4, InvTypes
  <2>2. reverted' \subseteq Txs BY <1>1, <1>6 DEF MempoolInv, Typed
  <2>3. core' \in {"loop", "built", "evicted", "tidy", "reinsert"} BY <1>1
  <2>4. chain' \in Seq([txs: Seq(Txs), before: Ledgers]) BY <1>3 DEF Entry
  <2> QED BY <1>1, <1>6, <2>1, <2>2, <2>3, <2>4 DEF MempoolInv, Typed
<1>10. Reinserts'
  <2>1. merging'["core"] = NoMerge BY <1>1 DEF MempoolInv, Reinserts
  <2> QED BY <1>1, <2>1 DEF Reinserts
<1>11. PoolUnique' BY <1>1 DEF MempoolInv, PoolUnique
<1>12. PoolBounded'
  <2>1. Busy' = Busy BY <1>1 DEF Busy
  <2> QED BY <1>1, <2>1 DEF MempoolInv, PoolBounded
<1>13. BlockStands' BY <1>1 DEF BlockStands
<1> QED BY <1>8, <1>9, <1>10, <1>11, <1>12, <1>13 DEF MempoolInv

\* The block thread's own first step of a merge.
LEMMA ReinsertInv ==
  ASSUME MempoolInv, Reinsert
  PROVE  MempoolInv'
<1>1. /\ core = "reinsert" /\ merging["core"] = NoMerge
      /\ UNCHANGED <<chain, ledger, pool, block, reverted>>
  BY DEF Reinsert
<1>2. freed \in Seq(Txs) /\ freed # <<>> BY <1>1 DEF MempoolInv, Typed, Reinserts
<1>3. PoolUnique' BY <1>1 DEF MempoolInv, PoolUnique
<1>4. LedgersSound' BY <1>1 DEF MempoolInv, LedgersSound, Tip
<1>5. CASE Admissible(Head(freed))
  <2>1. /\ merging' = [merging EXCEPT !["core"] = [tx |-> Head(freed), step |-> "checked"]]
        /\ UNCHANGED <<freed, core>>
    BY <1>5 DEF Reinsert
  <2>2. Head(freed) \in Txs BY <1>2, Rest
  <2>3. Len(pool) < PoolMaxTxs BY <1>5 DEF Admissible
  <2>4. merging' \in [Threads -> MergeStates \cup {NoMerge}] /\ PoolBounded'
    BY <1>1, <2>1, <2>2, <2>3, CoreMerges, OneMoreMerges
  <2>5. Typed' BY <1>1, <2>1, <2>4 DEF MempoolInv, Typed, Tip
  <2>6. Reinserts' BY <1>1, <2>1 DEF MempoolInv, Reinserts
  <2>7. BlockStands' BY <1>1, <2>1 DEF BlockStands
  <2> QED BY <1>3, <1>4, <2>4, <2>5, <2>6, <2>7 DEF MempoolInv
<1>6. CASE ~Admissible(Head(freed))
  <2>1. NextFreed("core") /\ UNCHANGED merging BY <1>6 DEF Reinsert
  <2>2. /\ freed' \in Seq(Txs) /\ core' \in {"loop", "built", "evicted", "tidy", "reinsert"}
        /\ core' = "reinsert" <=> freed' # <<>>
        /\ core' \in {"built", "evicted"} => core' = core
    BY <1>1, <2>1, CoreMerges, NextFreedInv
  <2>3. Typed' BY <1>1, <2>1, <2>2 DEF MempoolInv, Typed, Tip
  <2>4. Reinserts' BY <1>1, <2>1, <2>2 DEF Reinserts
  <2>5. PoolBounded'
    <3>1. Busy' = Busy BY <2>1 DEF Busy
    <3> QED BY <1>1, <3>1 DEF MempoolInv, PoolBounded
  <2>6. BlockStands' BY <1>1, <2>2 DEF BlockStands
  <2> QED BY <1>3, <1>4, <2>3, <2>4, <2>5, <2>6 DEF MempoolInv
<1> QED BY <1>5, <1>6

\* Nothing happens.
LEMMA StutterInv ==
  ASSUME MempoolInv, UNCHANGED vars
  PROVE  MempoolInv'
<1>1. Typed' BY DEF MempoolInv, vars, Typed, Tip
<1>2. Reinserts' BY DEF MempoolInv, vars, Reinserts
<1>3. PoolUnique' BY DEF MempoolInv, vars, PoolUnique
<1>4. PoolBounded'
  <2>1. Busy' = Busy BY DEF vars, Busy
  <2> QED BY <2>1 DEF MempoolInv, vars, PoolBounded
<1>5. BlockStands' BY DEF MempoolInv, vars, BlockStands, Tip
<1>6. LedgersSound' BY DEF MempoolInv, vars, LedgersSound, Tip
<1> QED BY <1>1, <1>2, <1>3, <1>4, <1>5, <1>6 DEF MempoolInv

\* Whatever the threads do, in whatever order, the invariant holds.
THEOREM MempoolSafe == Spec => []MempoolInv
<1>1. Init => MempoolInv BY InitInv
<1>2. MempoolInv /\ [Next]_vars => MempoolInv'
  <2> SUFFICES ASSUME MempoolInv, [Next]_vars PROVE MempoolInv' OBVIOUS
  <2>1. ASSUME NEW p \in Handlers, NEW t \in Txs, Admit(p, t) PROVE MempoolInv'
    BY <2>1, AdmitInv
  <2>2. ASSUME NEW p \in Threads, Weigh(p) PROVE MempoolInv' BY <2>2, WeighInv
  <2>3. ASSUME NEW p \in Threads, Settle(p) PROVE MempoolInv' BY <2>3, SettleInv
  <2>4. CASE Cull BY <2>4, CullInv
  <2>5. CASE Build BY <2>5, BuildInv
  <2>6. CASE Receive BY <2>6, ReceiveInv
  <2>7. CASE Evict BY <2>7, EvictInv
  <2>8. CASE Commit BY <2>8, CommitInv
  <2>9. CASE Fail BY <2>9, FailInv
  <2>10. CASE Tidy BY <2>10, TidyInv
  <2>11. CASE RollBack BY <2>11, RollBackInv
  <2>12. CASE Reinsert BY <2>12, ReinsertInv
  <2>13. CASE UNCHANGED vars BY <2>13, StutterInv
  <2> QED BY <2>1, <2>2, <2>3, <2>4, <2>5, <2>6, <2>7, <2>8, <2>9, <2>10, <2>11,
             <2>12, <2>13 DEF Next
<1> QED BY <1>1, <1>2, PTL DEF Spec

\* Mempool: every variable keeps its type, and the pool is never longer than
\* its cap and the number of threads allow, for any number of handlers.
THEOREM PoolTyped == Spec => []TypeOK
<1>1. MempoolInv => TypeOK
  <2> SUFFICES ASSUME MempoolInv PROVE TypeOK OBVIOUS
  <2>1. Len(pool) < PoolMaxTxs + Cardinality(Threads)
    BY InvTypes, ThreadsFinite
  <2>2. ASSUME NEW p \in Threads
        PROVE  \/ merging[p] = NoMerge
               \/ merging[p] \in [tx: Txs, step: {"checked", "fits", "overspends"}]
    BY DEF MempoolInv, Typed, MergeStates
  <2> QED BY <2>1, <2>2, InvTypes DEF MempoolInv, Typed, Reinserts, TypeOK
<1> QED BY <1>1, MempoolSafe, PTL

\* Mempool: no interleaving of handlers and block thread puts a transaction
\* into the pool twice.
THEOREM PoolAlwaysUnique == Spec => []PoolUnique
<1>1. MempoolInv => PoolUnique BY DEF MempoolInv
<1> QED BY <1>1, MempoolSafe, PTL

\* Mempool: whatever the pool holds, the candidate filled from it is a block
\* that verification lets through.
THEOREM CandidateAlwaysStands == Spec => []CandidateStands
<1>1. MempoolInv => CandidateStands BY DEF MempoolInv, BlockStands, CandidateStands
<1> QED BY <1>1, MempoolSafe, PTL

-----------------------------------------------------------------------------
(* What a candidate leaves behind. *)

\* A transaction that may be mined next.
MayBeMined(t) == t.id \notin ledger.mined /\ Valid(ledger, t)

\* When the senders can pay for all that may be mined, all of it is chosen.
LEMMA SelectedAll ==
  ASSUME pool \in Seq(Txs), Unique(pool), ledger \in Ledgers, Solvent(ledger),
         WithinMeans(ledger, Mineable)
  PROVE  \A j \in DOMAIN pool : MayBeMined(pool[j]) =>
           \E k \in DOMAIN Selected : Selected[k] = pool[j]
<1> DEFINE S == {t \in Txs : MayBeMined(t)}
           all == Mineable
<1>1. all = Among(pool, S) BY DEF Mineable, MayBeMined
<1>2. all \in Seq(Txs) BY <1>1, AmongKeeps
<1>3. PICK m : KeptAt(all, pool, S, m) BY <1>1, AmongKeeps
<1>4. \A i \in DOMAIN pool : MayBeMined(pool[i]) => \E k \in DOMAIN all : all[k] = pool[i]
  BY <1>3 DEF KeptAt
<1> HIDE DEF all
<1>5. PICK g : Selecting(g) /\ Selected = g[Len(pool)] BY SelectingExists
<1>6. \A i \in 0 .. Len(pool) :
        g[i] = IF i = 0 THEN <<>> ELSE Chosen(g[i - 1], pool[i])
  BY <1>5 DEF Selecting
<1>7. Len(pool) \in Nat /\ DOMAIN pool = 1 .. Len(pool) OBVIOUS
<1> DEFINE Good(s, n) ==
             /\ s \in Seq(Txs) /\ Unique(s) /\ IsPart(s, all)
             /\ \A k \in DOMAIN s : \E j \in 1 .. n : pool[j] = s[k]
             /\ \A j \in 1 .. n : MayBeMined(pool[j]) => \E k \in DOMAIN s : s[k] = pool[j]
           N == {n \in Nat : n <= Len(pool) => Good(g[n], n)}
<1>8. 0 \in N
  <2>1. g[0] = <<>> BY <1>6, <1>7
  <2>2. Good(<<>>, 0) BY DEF Unique, IsPart
  <2> QED BY <2>1, <2>2
<1>9. ASSUME NEW n \in N PROVE n + 1 \in N
  <2>1. n \in Nat /\ n + 1 \in Nat OBVIOUS
  <2> SUFFICES ASSUME n + 1 <= Len(pool) PROVE Good(g[n + 1], n + 1) BY <2>1
  <2>2. Good(g[n], n) /\ n + 1 \in 1 .. Len(pool) BY <1>7, <2>1
  <2> DEFINE s == g[n]
             t == pool[n + 1]
             r == Append(s, t)
  <2>3. g[n + 1] = Chosen(s, t)
    <3>1. n + 1 \in 0 .. Len(pool) /\ n + 1 # 0 /\ (n + 1) - 1 = n BY <1>7, <2>1
    <3> QED BY <1>6, <3>1
  <2>4. t \in Txs BY <1>7, <2>2
  <2>5. /\ s \in Seq(Txs) /\ Unique(s) /\ IsPart(s, all)
        /\ \A k \in DOMAIN s : \E j \in 1 .. n : pool[j] = s[k]
        /\ \A j \in 1 .. n : MayBeMined(pool[j]) => \E k \in DOMAIN s : s[k] = pool[j]
    BY <2>2
  <2> HIDE DEF s, Good
  <2>6. \A j \in 1 .. n + 1 : j \in 1 .. n \/ j = n + 1 BY <2>1
  <2>7. n + 1 \in 1 .. n + 1 /\ \A j \in 1 .. n : j \in 1 .. n + 1 BY <2>1
  <2>8. CASE ~MayBeMined(t)
    <3>1. g[n + 1] = s BY <2>3, <2>8 DEF Chosen, MayBeMined
    <3>2. \A k \in DOMAIN s : \E j \in 1 .. n + 1 : pool[j] = s[k] BY <2>5, <2>7
    <3>3. \A j \in 1 .. n + 1 : MayBeMined(pool[j]) => \E k \in DOMAIN s : s[k] = pool[j]
      BY <2>5, <2>6, <2>8
    <3> QED BY <2>5, <3>1, <3>2, <3>3 DEF Good
  <2>9. CASE MayBeMined(t)
    <3>1. /\ r \in Seq(Txs) /\ Len(s) \in Nat
          /\ DOMAIN r = 1 .. Len(s) + 1 /\ DOMAIN s = 1 .. Len(s)
          /\ r[Len(s) + 1] = t
          /\ \A k \in DOMAIN s : r[k] = s[k]
      BY <2>4, <2>5
    <3> HIDE DEF r
    <3>2. \A k \in DOMAIN r : k \in DOMAIN s \/ k = Len(s) + 1 BY <3>1
    <3>3. Len(s) + 1 \in DOMAIN r /\ \A k \in DOMAIN s : k \in DOMAIN r BY <3>1
    <3>4. \A k \in DOMAIN s : s[k].id # t.id
      <4>1. SUFFICES ASSUME NEW k \in DOMAIN s, s[k].id = t.id PROVE FALSE OBVIOUS
      <4>2. PICK j \in 1 .. n : pool[j] = s[k] BY <2>5
      <4>3. j \in DOMAIN pool /\ n + 1 \in DOMAIN pool /\ j # n + 1
        BY <1>7, <2>1, <2>2, <4>2
      <4> QED BY <4>1, <4>2, <4>3 DEF Unique
    <3>5. Unique(r)
      <4> SUFFICES ASSUME NEW k \in DOMAIN r, NEW l \in DOMAIN r, r[k].id = r[l].id
                   PROVE  k = l
        BY DEF Unique
      <4>1. CASE k \in DOMAIN s /\ l \in DOMAIN s
        <5>1. s[k].id = s[l].id BY <3>1, <4>1
        <5> QED BY <2>5, <4>1, <5>1 DEF Unique
      <4>2. CASE k \in DOMAIN s /\ l = Len(s) + 1
        <5>1. s[k].id = t.id BY <3>1, <4>2
        <5> QED BY <3>4, <4>2, <5>1
      <4>3. CASE l \in DOMAIN s /\ k = Len(s) + 1
        <5>1. s[l].id = t.id BY <3>1, <4>3
        <5> QED BY <3>4, <4>3, <5>1
      <4>4. CASE k = Len(s) + 1 /\ l = Len(s) + 1 BY <4>4
      <4> QED BY <3>2, <4>1, <4>2, <4>3, <4>4
    <3>6. IsPart(r, all)
      <4> SUFFICES ASSUME NEW k \in DOMAIN r PROVE \E j \in DOMAIN all : all[j] = r[k]
        BY DEF IsPart
      <4>1. CASE k \in DOMAIN s
        <5>1. r[k] = s[k] BY <3>1, <4>1
        <5> QED BY <2>5, <4>1, <5>1 DEF IsPart
      <4>2. CASE k = Len(s) + 1
        <5>1. r[k] = t BY <3>1, <4>2
        <5>2. \E j \in DOMAIN all : all[j] = t BY <1>4, <1>7, <2>2, <2>9
        <5> QED BY <5>1, <5>2
      <4> QED BY <3>2, <4>1, <4>2
    <3>7. WithinMeans(ledger, r)
      BY <1>2, <3>1, <3>5, <3>6, PartWithinMeans DEF all
    <3>8. g[n + 1] = r BY <2>3, <2>9, <3>7 DEF Chosen, MayBeMined, r
    <3>9. \A k \in DOMAIN r : \E j \in 1 .. n + 1 : pool[j] = r[k]
      <4> SUFFICES ASSUME NEW k \in DOMAIN r PROVE \E j \in 1 .. n + 1 : pool[j] = r[k]
        OBVIOUS
      <4>1. CASE k \in DOMAIN s
        <5>1. r[k] = s[k] BY <3>1, <4>1
        <5> QED BY <2>5, <2>7, <4>1, <5>1
      <4>2. CASE k = Len(s) + 1
        <5>1. r[k] = t BY <3>1, <4>2
        <5> QED BY <2>7, <5>1
      <4> QED BY <3>2, <4>1, <4>2
    <3>10. ASSUME NEW j \in 1 .. n + 1, MayBeMined(pool[j])
           PROVE  \E k \in DOMAIN r : r[k] = pool[j]
      <4>1. CASE j \in 1 .. n
        <5>1. PICK k \in DOMAIN s : s[k] = pool[j] BY <2>5, <3>10, <4>1
        <5>2. k \in DOMAIN r /\ r[k] = s[k] BY <3>1, <3>3
        <5> QED BY <5>1, <5>2
      <4>2. CASE j = n + 1 BY <3>1, <3>3, <4>2
      <4> QED BY <2>6, <4>1, <4>2
    <3> QED BY <3>1, <3>5, <3>6, <3>8, <3>9, <3>10 DEF Good
  <2> QED BY <2>8, <2>9
<1> HIDE DEF N
<1>10. N = Nat
  <2>1. N \subseteq Nat BY DEF N
  <2> QED BY <1>8, <1>9, <2>1, NatInduct
<1> HIDE DEF Good
<1>11. Len(pool) \in N BY <1>7, <1>10
<1>12. Good(g[Len(pool)], Len(pool)) BY <1>7, <1>11 DEF N
<1>13. \A j \in 1 .. Len(pool) : MayBeMined(pool[j]) =>
         \E k \in DOMAIN g[Len(pool)] : g[Len(pool)][k] = pool[j]
  BY <1>12 DEF Good
<1> QED BY <1>5, <1>7, <1>13

\* Whatever clashes with a transaction that clashes with t clashes with t: a
\* reserved-uniqueness key is one value.
LEMMA ClashTransitive ==
  ASSUME NEW t, NEW u, NEW v, Clash(t, u), Clash(u, v)
  PROVE  Clash(t, v)
<1>1. CASE t.kind \in {"withdraw", "unbond"} BY <1>1 DEF Clash
<1>2. CASE t.kind = "slash" BY <1>2 DEF Clash
<1>3. CASE t.kind \in {"htlc_claim", "htlc_refund"} BY <1>3 DEF Clash
<1> QED BY <1>1, <1>2, <1>3 DEF Clash

\* Of what is due, a transaction or its lowest rival is matched.
LEMMA MatchedOrRival ==
  ASSUME NEW s \in Seq(Txs), NEW h, NEW i \in DOMAIN s, LandsAt(s[i], h)
  PROVE  \E u \in Matched(s, h) : u = s[i] \/ Clash(s[i], u)
<1> DEFINE due == {t \in ToSet(s) : LandsAt(t, h)}
           t == s[i]
           R == {u \in due : u = t \/ Clash(t, u)}
           I == {u.id : u \in R}
<1>1. due \subseteq Txs /\ t \in due BY DEF ToSet
<1>2. t \in Txs OBVIOUS
<1>3. Matched(s, h) = {u \in due : \A v \in due : Clash(u, v) => u.id <= v.id}
  BY DEF Matched
<1> HIDE DEF due
<1>4. t \in R BY <1>1
<1>5. \A u \in due : u.id \in Nat BY <1>1, TxsAssumption, TxShape
<1>6. I \subseteq Nat /\ I # {} BY <1>4, <1>5
<1>7. PICK n \in I : \A x \in I : n <= x BY <1>6, LeastNatural
<1>8. PICK u \in R : u.id = n BY <1>7
<1> HIDE DEF t
<1>9. ASSUME NEW v \in due, Clash(u, v) PROVE u.id <= v.id
  <2>1. u = t \/ Clash(t, u) BY <1>8
  <2>2. Clash(t, v) BY <1>9, <2>1, ClashTransitive
  <2>3. v \in R BY <2>2
  <2> QED BY <1>7, <1>8, <2>3
<1>10. u \in Matched(s, h) BY <1>3, <1>8, <1>9
<1> QED BY <1>8, <1>10 DEF t

\* The action property's step.
LEMMA BuildFull ==
  ASSUME MempoolInv, Build, WithinMeans(ledger, Mineable),
         NEW t \in ToSet(Mineable), LandsAt(t, Tip + 1)
  PROVE  \E u \in ToSet(block'.txs) : u = t \/ Clash(t, u)
<1> DEFINE S == {u \in Txs : MayBeMined(u)}
           h == Tip + 1
           M == Matched(Selected, h)
           r == InIdOrder(M)
<1>1. Mineable = Among(pool, S) BY DEF Mineable, MayBeMined
<1>2. PICK m : KeptAt(Mineable, pool, S, m) BY <1>1, InvTypes, AmongKeeps
<1>3. PICK k \in DOMAIN Mineable : Mineable[k] = t BY DEF ToSet
<1>4. m[k] \in DOMAIN pool /\ pool[m[k]] = t /\ t \in S BY <1>2, <1>3 DEF KeptAt
<1>5. PICK j \in DOMAIN Selected : Selected[j] = t
  BY <1>4, InvTypes, SelectedAll
<1>6. Selected \in Seq(Txs) BY InvTypes, SelectedGood DEF GoodChoice
<1>7. PICK u \in M : u = t \/ Clash(t, u) BY <1>5, <1>6, MatchedOrRival
<1>8. M \in SUBSET Txs BY InvTypes, CandidateGood
<1>9. block'.txs = r BY DEF Build, Candidate
<1> HIDE DEF M
<1>10. PICK l \in DOMAIN r : r[l] = u BY <1>7, <1>8, InOrder
<1>11. u \in ToSet(r) BY <1>10 DEF ToSet
<1> QED BY <1>7, <1>9, <1>11

\* Mempool: when the senders can pay for what may be mined, every transaction
\* that may land at the next height is in the candidate, or one with its key.
THEOREM CandidateAlwaysFull == Spec => CandidateFull
<1>1. MempoolInv /\ [Next]_vars =>
        [Build /\ WithinMeans(ledger, Mineable) =>
           \A t \in ToSet(Mineable) :
             LandsAt(t, Tip + 1) =>
               \E u \in ToSet(block'.txs) : u = t \/ Clash(t, u)]_vars
  BY BuildFull
<1> QED BY <1>1, MempoolSafe, PTL DEF CandidateFull, Spec

=============================================================================
