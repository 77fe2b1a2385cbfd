----------------------------- MODULE SumTheorems -----------------------------
(***************************************************************************)
(* What the sums of the models are: facts about SumFunctionOnSet of module *)
(* Functions, which the ledger's totals are written with.                  *)
(*                                                                         *)
(* The library's induction theorems quantify over an operator, which the   *)
(* provers cannot instantiate.  Induction is done here with SETS instead:  *)
(* a set of naturals that holds 0 and is closed under successor is Nat     *)
(* (NatInduct, from the well-foundedness of <), and a family of subsets    *)
(* that holds {} and is closed under adding an element holds every finite  *)
(* set (SetInduct).  The fold is a recursive function, whose existence is  *)
(* proved the same way (TableExists).                                      *)
(***************************************************************************)
EXTENDS FiniteSetTheorems, TLAPS

-----------------------------------------------------------------------------
(* Induction. *)

\* Every set of naturals has a least element.
LEMMA LeastNatural ==
  ASSUME NEW T, T \subseteq Nat, T # {}
  PROVE  \E n \in T : \A m \in T : n <= m
<1> DEFINE R == OpToRel(<, Nat)
<1>1. IsWellFoundedOn(R, Nat) BY NatLessThanWellFounded
<1> HIDE DEF R
<1>2. PICK n \in T : \A m \in T : ~ (<<m, n>> \in R) BY <1>1, WFMin
<1>3. ASSUME NEW m \in T PROVE n <= m
  <2>1. m \in Nat /\ n \in Nat OBVIOUS
  <2>2. m < n => <<m, n>> \in R BY <2>1 DEF R, OpToRel
  <2> QED BY <2>1, <2>2, <1>2
<1> QED BY <1>3

\* Induction over the naturals.
LEMMA NatInduct ==
  ASSUME NEW P, P \subseteq Nat, 0 \in P, \A n \in P : n + 1 \in P
  PROVE  P = Nat
<1> DEFINE T == Nat \ P
<1>1. SUFFICES ASSUME T # {} PROVE FALSE OBVIOUS
<1>2. PICK n \in T : \A m \in T : n <= m BY <1>1, LeastNatural
<1>3. n # 0 /\ n \in Nat /\ n - 1 \in Nat OBVIOUS
<1>4. n - 1 \in P BY <1>2, <1>3
<1>5. (n - 1) + 1 \in P BY <1>4
<1> QED BY <1>5, <1>3

\* The subsets of a finite set are finite; one element less is one less.
LEMMA Subsets ==
  ASSUME NEW S, IsFiniteSet(S)
  PROVE  \A T \in SUBSET S :
           /\ IsFiniteSet(T) /\ Cardinality(T) \in Nat
           /\ Cardinality(T) = 0 <=> T = {}
           /\ \A x \in T : Cardinality(T \ {x}) = Cardinality(T) - 1
<1> SUFFICES ASSUME NEW T \in SUBSET S
             PROVE  /\ IsFiniteSet(T) /\ Cardinality(T) \in Nat
                    /\ Cardinality(T) = 0 <=> T = {}
                    /\ \A x \in T : Cardinality(T \ {x}) = Cardinality(T) - 1
  OBVIOUS
<1>1. IsFiniteSet(T) BY FS_Subset
<1> QED BY <1>1, FS_CardinalityType, FS_EmptySet, FS_RemoveElement

\* Induction over the subsets of a finite set.
LEMMA SetInduct ==
  ASSUME NEW S, IsFiniteSet(S), NEW P, {} \in P,
         \A T \in SUBSET S, x \in S : T \in P /\ x \notin T => T \cup {x} \in P
  PROVE  SUBSET S \subseteq P
<1> DEFINE N == {n \in Nat : \A T \in SUBSET S : Cardinality(T) = n => T \in P}
<1>1. 0 \in N BY Subsets
<1>2. ASSUME NEW n \in N PROVE n + 1 \in N
  <2> SUFFICES ASSUME NEW T \in SUBSET S, Cardinality(T) = n + 1 PROVE T \in P
    OBVIOUS
  <2>0. n \in Nat OBVIOUS
  <2>1. T # {} BY <2>0, Subsets
  <2>2. PICK x \in T : TRUE BY <2>1
  <2>3. Cardinality(T \ {x}) = n BY <2>0, <2>2, Subsets
  <2>4. T \ {x} \in P BY <2>3
  <2>5. (T \ {x}) \cup {x} \in P BY <2>4, <2>2
  <2>6. (T \ {x}) \cup {x} = T BY <2>2
  <2> QED BY <2>5, <2>6
<1>3. N = Nat
  <2> HIDE DEF N
  <2>1. N \subseteq Nat BY DEF N
  <2> QED BY <1>1, <1>2, <2>1, NatInduct
<1> QED BY <1>3, Subsets

-----------------------------------------------------------------------------
(* The fold is what its recursion says. *)

Pick(s) == CHOOSE x \in s : TRUE

\* g holds the sum of f over every set of the family D.
Tabulates(g, f, D) ==
  g = [s \in D |-> IF s = {} THEN 0 ELSE f[Pick(s)] + g[s \ {Pick(s)}]]

Table(f, S) == CHOOSE g : Tabulates(g, f, SUBSET S)

\* What is picked from a set is in it.
LEMMA PickIn ==
  ASSUME NEW s, s # {}
  PROVE  Pick(s) \in s
  BY DEF Pick

\* The library's fold is the table, at the whole set.
LEMMA SumIsTable ==
  ASSUME NEW f, NEW S
  PROVE  SumFunctionOnSet(f, S) = Table(f, S)[S]
  BY DEF SumFunctionOnSet, FoldFunctionOnSet, MapThenFoldSet, Tabulates, Table, Pick

\* The table of a finite set exists: it is built one cardinality at a time.
LEMMA TableExists ==
  ASSUME NEW f, NEW S, IsFiniteSet(S)
  PROVE  Tabulates(Table(f, S), f, SUBSET S)
<1> DEFINE D == [n \in Nat |-> {t \in SUBSET S : Cardinality(t) <= n}]
           N == {n \in Nat : \E g : Tabulates(g, f, D[n])}
<1>1. 0 \in N
  <2>1. D[0] = {{}} BY Subsets
  <2> DEFINE g == [s \in {{}} |-> 0]
  <2>2. Tabulates(g, f, {{}}) BY DEF Tabulates
  <2> QED BY <2>1, <2>2
<1>2. ASSUME NEW n \in N PROVE n + 1 \in N
  <2>0. n \in Nat /\ n + 1 \in Nat OBVIOUS
  <2>1. PICK g : Tabulates(g, f, D[n]) OBVIOUS
  <2> DEFINE h == [s \in D[n + 1] |->
                     IF s = {} THEN 0 ELSE f[Pick(s)] + g[s \ {Pick(s)}]]
  <2>2. D[n] \subseteq D[n + 1] BY <2>0, Subsets
  <2>3. ASSUME NEW s \in D[n + 1], s # {} PROVE s \ {Pick(s)} \in D[n]
    <3>1. Pick(s) \in s BY <2>3, PickIn
    <3>2. Cardinality(s \ {Pick(s)}) = Cardinality(s) - 1 BY <2>0, <3>1, Subsets
    <3> QED BY <2>0, <3>2, Subsets
  <2> HIDE DEF D
  <2>4. ASSUME NEW s \in D[n] PROVE h[s] = g[s]
    BY <2>1, <2>2, <2>4 DEF Tabulates
  <2>5. Tabulates(h, f, D[n + 1]) BY <2>2, <2>3, <2>4 DEF Tabulates
  <2> HIDE DEF h
  <2> QED BY <2>0, <2>5
<1>3. N = Nat
  <2> HIDE DEF N
  <2>1. N \subseteq Nat BY DEF N
  <2> QED BY <1>1, <1>2, <2>1, NatInduct
<1>4. Cardinality(S) \in N /\ D[Cardinality(S)] = SUBSET S
  BY <1>3, Subsets, FS_Subset
<1>5. \E g : Tabulates(g, f, SUBSET S) BY <1>4
<1> QED BY <1>5 DEF Table

\* The table of a set holds the sums over its subsets.
LEMMA TablesAgree ==
  ASSUME NEW f, NEW S, IsFiniteSet(S), NEW T \in SUBSET S
  PROVE  Table(f, S)[T] = SumFunctionOnSet(f, T)
<1> DEFINE g == Table(f, S)
           h == Table(f, T)
           N == {n \in Nat : \A U \in SUBSET T : Cardinality(U) = n => g[U] = h[U]}
<1>0. IsFiniteSet(T) BY FS_Subset
<1>1. Tabulates(g, f, SUBSET S) /\ Tabulates(h, f, SUBSET T) BY <1>0, TableExists
<1> HIDE DEF g, h
<1>2. 0 \in N
  <2>1. \A U \in SUBSET T : Cardinality(U) = 0 => U = {} BY <1>0, Subsets
  <2>2. g[{}] = 0 /\ h[{}] = 0 BY <1>1 DEF Tabulates
  <2> QED BY <2>1, <2>2
<1>3. ASSUME NEW n \in N PROVE n + 1 \in N
  <2> SUFFICES ASSUME NEW U \in SUBSET T, Cardinality(U) = n + 1 PROVE g[U] = h[U]
    OBVIOUS
  <2>0. n \in Nat OBVIOUS
  <2>1. U # {} BY <2>0, <1>0, Subsets
  <2>2. Pick(U) \in U BY <2>1, PickIn
  <2>3. Cardinality(U \ {Pick(U)}) = n BY <2>0, <2>2, <1>0, Subsets
  <2>4. g[U \ {Pick(U)}] = h[U \ {Pick(U)}] BY <2>3
  <2> QED BY <2>1, <2>4, <1>1 DEF Tabulates
<1>4. N = Nat
  <2> HIDE DEF N
  <2>1. N \subseteq Nat BY DEF N
  <2> QED BY <1>2, <1>3, <2>1, NatInduct
<1>5. g[T] = h[T] BY <1>0, <1>4, Subsets
<1> QED BY <1>5, SumIsTable DEF g, h

\* The sum of a finite set is one element and the sum of the others.
LEMMA SumRecursion ==
  ASSUME NEW f, NEW S, IsFiniteSet(S)
  PROVE  /\ SumFunctionOnSet(f, {}) = 0
         /\ S # {} => SumFunctionOnSet(f, S)
                        = f[Pick(S)] + SumFunctionOnSet(f, S \ {Pick(S)})
<1>1. Tabulates(Table(f, S), f, SUBSET S) BY TableExists
<1>2. \A T \in SUBSET S : Table(f, S)[T] = SumFunctionOnSet(f, T) BY TablesAgree
<1>3. S \ {Pick(S)} \in SUBSET S OBVIOUS
<1> QED BY <1>1, <1>2, <1>3 DEF Tabulates

-----------------------------------------------------------------------------
(* Sums of integers. *)

\* A set of numbers that is closed under addition holds the sums of its members.
LEMMA SumClosed ==
  ASSUME NEW V, 0 \in V, \A a, b \in V : a + b \in V,
         NEW f, NEW S, IsFiniteSet(S), \A x \in S : f[x] \in V
  PROVE  SumFunctionOnSet(f, S) \in V
<1> DEFINE N == {n \in Nat : \A T \in SUBSET S :
                   Cardinality(T) = n => SumFunctionOnSet(f, T) \in V}
<1>1. 0 \in N
  <2>1. \A T \in SUBSET S : Cardinality(T) = 0 => T = {} BY Subsets
  <2>2. SumFunctionOnSet(f, {}) \in V BY SumRecursion
  <2> QED BY <2>1, <2>2
<1>2. ASSUME NEW n \in N PROVE n + 1 \in N
  <2> SUFFICES ASSUME NEW T \in SUBSET S, Cardinality(T) = n + 1
               PROVE  SumFunctionOnSet(f, T) \in V
    OBVIOUS
  <2>0. n \in Nat OBVIOUS
  <2> DEFINE p == Pick(T)
  <2>1. T # {} /\ IsFiniteSet(T) BY <2>0, Subsets
  <2>2. p \in T BY <2>1, PickIn
  <2>3. Cardinality(T \ {p}) = n BY <2>0, <2>2, Subsets
  <2>4. SumFunctionOnSet(f, T \ {p}) \in V BY <2>3
  <2>5. SumFunctionOnSet(f, T) = f[p] + SumFunctionOnSet(f, T \ {p})
    BY <2>1, SumRecursion
  <2> QED BY <2>2, <2>4, <2>5
<1>3. N = Nat
  <2> HIDE DEF N
  <2>1. N \subseteq Nat BY DEF N
  <2> QED BY <1>1, <1>2, <2>1, NatInduct
<1> QED BY <1>3, Subsets, FS_Subset

\* Sums of integers are integers.
LEMMA SumInt ==
  ASSUME NEW f, NEW S, IsFiniteSet(S), \A x \in S : f[x] \in Int
  PROVE  SumFunctionOnSet(f, S) \in Int
  BY SumClosed

\* Sums of naturals are naturals.
LEMMA SumNat ==
  ASSUME NEW f, NEW S, IsFiniteSet(S), \A x \in S : f[x] \in Nat
  PROVE  SumFunctionOnSet(f, S) \in Nat
<1>1. 0 \in Nat /\ \A a, b \in Nat : a + b \in Nat OBVIOUS
<1> QED BY <1>1, SumClosed

\* Any element may be taken out of a sum of integers first.
LEMMA SumTakeOut ==
  ASSUME NEW f, NEW S, IsFiniteSet(S), \A x \in S : f[x] \in Int
  PROVE  \A x \in S : SumFunctionOnSet(f, S) = f[x] + SumFunctionOnSet(f, S \ {x})
<1> DEFINE Good(T) == \A x \in T :
                        SumFunctionOnSet(f, T) = f[x] + SumFunctionOnSet(f, T \ {x})
           N == {n \in Nat : \A T \in SUBSET S : Cardinality(T) = n => Good(T)}
<1>0. \A T \in SUBSET S : SumFunctionOnSet(f, T) \in Int BY SumInt, Subsets
<1>1. 0 \in N BY Subsets
<1>2. ASSUME NEW n \in N PROVE n + 1 \in N
  <2> SUFFICES ASSUME NEW T \in SUBSET S, Cardinality(T) = n + 1 PROVE Good(T)
    OBVIOUS
  <2>0. n \in Nat OBVIOUS
  <2> DEFINE p == Pick(T)
  <2>1. T # {} /\ IsFiniteSet(T) BY <2>0, Subsets
  <2>2. p \in T BY <2>1, PickIn
  <2>3. \A x \in T : Cardinality(T \ {x}) = n BY <2>0, Subsets
  <2>4. \A x \in T : Good(T \ {x}) BY <2>3
  <2>5. SumFunctionOnSet(f, T) = f[p] + SumFunctionOnSet(f, T \ {p})
    BY <2>1, SumRecursion
  <2> HIDE DEF p
  <2>6. ASSUME NEW x \in T, x # p
        PROVE  SumFunctionOnSet(f, T) = f[x] + SumFunctionOnSet(f, T \ {x})
    <3> DEFINE rest == SumFunctionOnSet(f, (T \ {p}) \ {x})
    <3>1. SumFunctionOnSet(f, T \ {p}) = f[x] + rest BY <2>2, <2>4, <2>6
    <3>2. (T \ {p}) \ {x} = (T \ {x}) \ {p} OBVIOUS
    <3>3. SumFunctionOnSet(f, T \ {x}) = f[p] + rest BY <2>2, <2>4, <2>6, <3>2
    <3>4. rest \in Int /\ f[x] \in Int /\ f[p] \in Int BY <1>0, <2>2
    <3> HIDE DEF rest
    <3> QED BY <2>5, <3>1, <3>3, <3>4
  <2> QED BY <2>5, <2>6
<1>3. N = Nat
  <2> HIDE DEF N
  <2>1. N \subseteq Nat BY DEF N
  <2> QED BY <1>1, <1>2, <2>1, NatInduct
<1> QED BY <1>3, Subsets, FS_Subset

\* The sum over no element.
LEMMA SumEmpty ==
  ASSUME NEW f
  PROVE  SumFunctionOnSet(f, {}) = 0
  BY SumRecursion, FS_EmptySet

\* The sum over one element more.
LEMMA SumAddElement ==
  ASSUME NEW f, NEW S, IsFiniteSet(S), NEW x, x \notin S,
         \A y \in S \cup {x} : f[y] \in Int
  PROVE  SumFunctionOnSet(f, S \cup {x}) = f[x] + SumFunctionOnSet(f, S)
<1>1. IsFiniteSet(S \cup {x}) BY FS_AddElement
<1>2. (S \cup {x}) \ {x} = S OBVIOUS
<1> QED BY <1>1, <1>2, SumTakeOut

\* Sums are linear: where h is f + g on S, so are the sums.
LEMMA SumPlus ==
  ASSUME NEW f, NEW g, NEW h, NEW S, IsFiniteSet(S),
         \A x \in S : f[x] \in Int /\ g[x] \in Int /\ h[x] = f[x] + g[x]
  PROVE  SumFunctionOnSet(h, S) = SumFunctionOnSet(f, S) + SumFunctionOnSet(g, S)
<1> DEFINE P == {T \in SUBSET S : SumFunctionOnSet(h, T)
                   = SumFunctionOnSet(f, T) + SumFunctionOnSet(g, T)}
<1>1. {} \in P BY SumEmpty
<1>2. ASSUME NEW T \in SUBSET S, NEW x \in S, T \in P, x \notin T
      PROVE  T \cup {x} \in P
  <2>1. IsFiniteSet(T) BY Subsets
  <2>2. /\ SumFunctionOnSet(f, T \cup {x}) = f[x] + SumFunctionOnSet(f, T)
        /\ SumFunctionOnSet(g, T \cup {x}) = g[x] + SumFunctionOnSet(g, T)
        /\ SumFunctionOnSet(h, T \cup {x}) = h[x] + SumFunctionOnSet(h, T)
    BY <1>2, <2>1, SumAddElement
  <2>3. SumFunctionOnSet(f, T) \in Int /\ SumFunctionOnSet(g, T) \in Int
    BY <2>1, SumInt
  <2>4. SumFunctionOnSet(h, T) = SumFunctionOnSet(f, T) + SumFunctionOnSet(g, T)
    BY <1>2
  <2> QED BY <2>2, <2>3, <2>4
<1>3. SUBSET S \subseteq P
  <2> HIDE DEF P
  <2> QED BY <1>1, <1>2, SetInduct
<1>4. S \in P BY <1>3
<1> QED BY <1>4

\* A sum depends on the function's values on the set only.
LEMMA SumSame ==
  ASSUME NEW f, NEW g, NEW S, IsFiniteSet(S),
         \A x \in S : f[x] \in Int /\ g[x] = f[x]
  PROVE  SumFunctionOnSet(g, S) = SumFunctionOnSet(f, S)
<1> DEFINE P == {T \in SUBSET S : SumFunctionOnSet(g, T) = SumFunctionOnSet(f, T)}
<1>1. {} \in P BY SumEmpty
<1>2. ASSUME NEW T \in SUBSET S, NEW x \in S, T \in P, x \notin T
      PROVE  T \cup {x} \in P
  <2>1. IsFiniteSet(T) BY Subsets
  <2> QED BY <1>2, <2>1, SumAddElement
<1>3. SUBSET S \subseteq P
  <2> HIDE DEF P
  <2> QED BY <1>1, <1>2, SetInduct
<1>4. S \in P BY <1>3
<1> QED BY <1>4

\* A sum is monotonic in its terms.
LEMMA SumMonotonic ==
  ASSUME NEW f, NEW g, NEW S, IsFiniteSet(S),
         \A x \in S : f[x] \in Int /\ g[x] \in Int /\ f[x] <= g[x]
  PROVE  SumFunctionOnSet(f, S) <= SumFunctionOnSet(g, S)
<1> DEFINE d == [x \in S |-> g[x] - f[x]]
<1>1. SumFunctionOnSet(d, S) \in Nat BY SumNat
<1>2. SumFunctionOnSet(g, S) = SumFunctionOnSet(f, S) + SumFunctionOnSet(d, S)
  BY SumPlus
<1>3. SumFunctionOnSet(f, S) \in Int BY SumInt
<1> QED BY <1>1, <1>2, <1>3

\* A sum of zeros is zero.
LEMMA SumZero ==
  ASSUME NEW f, NEW S, IsFiniteSet(S), \A y \in S : f[y] = 0
  PROVE  SumFunctionOnSet(f, S) = 0
<1>1. 0 \in {0} /\ \A a, b \in {0} : a + b \in {0} OBVIOUS
<1>2. SumFunctionOnSet(f, S) \in {0} BY <1>1, SumClosed
<1> QED BY <1>2

\* A function that is zero but at x sums to its value there.
LEMMA SumPoint ==
  ASSUME NEW f, NEW S, IsFiniteSet(S), NEW x \in S, f[x] \in Int,
         \A y \in S \ {x} : f[y] = 0
  PROVE  SumFunctionOnSet(f, S) = f[x]
<1>1. IsFiniteSet(S \ {x}) BY Subsets
<1>2. SumFunctionOnSet(f, S \ {x}) = 0 BY <1>1, SumZero
<1>3. \A y \in S : f[y] \in Int OBVIOUS
<1> QED BY <1>2, <1>3, SumTakeOut

\* Adding n to one term adds n to the sum.
LEMMA SumBump ==
  ASSUME NEW f, NEW h, NEW S, IsFiniteSet(S), NEW p \in S, NEW n \in Int,
         \A x \in S : f[x] \in Int /\ h[x] = f[x] + (IF x = p THEN n ELSE 0)
  PROVE  SumFunctionOnSet(h, S) = SumFunctionOnSet(f, S) + n
<1> DEFINE d == [x \in S |-> IF x = p THEN n ELSE 0]
<1>1. SumFunctionOnSet(d, S) = d[p] BY SumPoint
<1>2. \A x \in S : d[x] \in Int /\ h[x] = f[x] + d[x] OBVIOUS
<1>3. d[p] = n OBVIOUS
<1> HIDE DEF d
<1> QED BY <1>1, <1>2, <1>3, SumPlus

\* Only the terms that are not zero count.
LEMMA SumRestrict ==
  ASSUME NEW f, NEW g, NEW S, IsFiniteSet(S), NEW T \in SUBSET S,
         \A x \in T : f[x] \in Int,
         \A x \in S : g[x] = IF x \in T THEN f[x] ELSE 0
  PROVE  SumFunctionOnSet(g, S) = SumFunctionOnSet(f, T)
<1> DEFINE P == {U \in SUBSET (S \ T) :
                   SumFunctionOnSet(g, T \cup U) = SumFunctionOnSet(f, T)}
<1>0. IsFiniteSet(T) /\ S \ T \in SUBSET S /\ IsFiniteSet(S \ T) BY Subsets
<1>1. {} \in P
  <2>1. T \cup {} = T OBVIOUS
  <2>2. \A x \in T : f[x] \in Int /\ g[x] = f[x] OBVIOUS
  <2> QED BY <1>0, <2>1, <2>2, SumSame
<1>2. ASSUME NEW U \in SUBSET (S \ T), NEW x \in S \ T, U \in P, x \notin U
      PROVE  U \cup {x} \in P
  <2>1. T \cup U \in SUBSET S /\ x \notin T \cup U BY <1>2
  <2>2. IsFiniteSet(T \cup U) BY <2>1, Subsets
  <2>3. T \cup (U \cup {x}) = (T \cup U) \cup {x} OBVIOUS
  <2>4. \A y \in (T \cup U) \cup {x} : g[y] \in Int BY <2>1
  <2>5. SumFunctionOnSet(g, (T \cup U) \cup {x}) = g[x] + SumFunctionOnSet(g, T \cup U)
    BY <2>1, <2>2, <2>4, SumAddElement
  <2>6. g[x] = 0 OBVIOUS
  <2>7. SumFunctionOnSet(g, T \cup U) = SumFunctionOnSet(f, T) BY <1>2
  <2>8. SumFunctionOnSet(f, T) \in Int BY <1>0, SumInt
  <2>9. U \cup {x} \in SUBSET (S \ T) OBVIOUS
  <2> QED BY <2>3, <2>5, <2>6, <2>7, <2>8, <2>9
<1> DEFINE R == S \ T
<1>3. SUBSET R \subseteq P
  <2>1. \A U \in SUBSET R, x \in R : U \in P /\ x \notin U => U \cup {x} \in P BY <1>2
  <2>2. IsFiniteSet(R) BY <1>0
  <2> HIDE DEF P, R
  <2> QED BY <1>1, <2>1, <2>2, SetInduct
<1>4. R \in P /\ T \cup R = S BY <1>3
<1> QED BY <1>4

\* Two sums are equal if their terms correspond one to one.
LEMMA SumRenamed ==
  ASSUME NEW f, NEW g, NEW m, NEW S, IsFiniteSet(S),
         \A x \in S : f[x] \in Int /\ g[m[x]] = f[x],
         \A x, y \in S : m[x] = m[y] => x = y
  PROVE  SumFunctionOnSet(g, {m[x] : x \in S}) = SumFunctionOnSet(f, S)
<1> DEFINE Image(T) == {m[x] : x \in T}
           P == {T \in SUBSET S : /\ IsFiniteSet(Image(T))
                                  /\ SumFunctionOnSet(g, Image(T)) = SumFunctionOnSet(f, T)}
<1>1. {} \in P
  <2>1. Image({}) = {} OBVIOUS
  <2> QED BY <2>1, SumEmpty, FS_EmptySet
<1>2. ASSUME NEW T \in SUBSET S, NEW x \in S, T \in P, x \notin T
      PROVE  T \cup {x} \in P
  <2>1. Image(T \cup {x}) = Image(T) \cup {m[x]} OBVIOUS
  <2>2. m[x] \notin Image(T) BY <1>2
  <2>3. IsFiniteSet(T) /\ IsFiniteSet(Image(T)) BY <1>2, Subsets
  <2>4. \A z \in Image(T) \cup {m[x]} : g[z] \in Int BY <1>2
  <2>5. SumFunctionOnSet(f, T \cup {x}) = f[x] + SumFunctionOnSet(f, T)
    BY <1>2, <2>3, SumAddElement
  <2> HIDE DEF Image
  <2>6. SumFunctionOnSet(g, Image(T) \cup {m[x]}) = g[m[x]] + SumFunctionOnSet(g, Image(T))
    BY <2>2, <2>3, <2>4, SumAddElement
  <2>7. IsFiniteSet(Image(T) \cup {m[x]}) BY <2>3, FS_AddElement
  <2> QED BY <1>2, <2>1, <2>5, <2>6, <2>7
<1> HIDE DEF P
<1>3. SUBSET S \subseteq P BY <1>1, <1>2, SetInduct
<1> QED BY <1>3 DEF P

==============================================================================
