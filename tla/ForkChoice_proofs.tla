--------------------------- MODULE ForkChoice_proofs ---------------------------
(***************************************************************************)
(* The fork choice is a strict total order on chains, so that every set of *)
(* tips has one best; the types of the network's state; what a node may do *)
(* to a block it holds as final; and when purges leave a chain.            *)
(***************************************************************************)
EXTENDS ForkChoice, SumTheorems, SequenceTheorems

-----------------------------------------------------------------------------
(* Prefixes. *)

\* The first blocks of a chain are a chain.
LEMMA AtType ==
  ASSUME NEW c \in Seq(Nat), NEW h \in Nat, h <= Len(c)
  PROVE  /\ At(c, h) \in Seq(Nat) /\ Len(At(c, h)) = h
         /\ \A j \in 1 .. h : At(c, h)[j] = c[j]
<1>1. \A i \in 1 .. h : c[i] \in Nat BY LenProperties, ElementOfSeq
<1>2. /\ SubSeq(c, 1, h) \in Seq(Nat)
      /\ Len(SubSeq(c, 1, h)) = IF 1 <= h THEN h - 1 + 1 ELSE 0
      /\ \A i \in 1 .. h - 1 + 1 : SubSeq(c, 1, h)[i] = c[1 + i - 1]
  BY <1>1, SubSeqProperties
<1> QED BY <1>1, <1>2 DEF At

\* Two chains agree up to a height exactly if their blocks do.
LEMMA AtEqual ==
  ASSUME NEW b \in Seq(Nat), NEW c \in Seq(Nat),
         NEW h \in Nat, h <= Len(b), h <= Len(c)
  PROVE  At(b, h) = At(c, h) <=> \A j \in 1 .. h : b[j] = c[j]
<1>1. \A j \in 1 .. h : At(b, h)[j] = b[j] /\ At(c, h)[j] = c[j] BY AtType
<1>2. ASSUME \A j \in 1 .. h : b[j] = c[j] PROVE At(b, h) = At(c, h)
  <2>1. /\ At(b, h) \in Seq(Nat) /\ At(c, h) \in Seq(Nat)
        /\ Len(At(b, h)) = h /\ Len(At(c, h)) = h
    BY AtType
  <2>2. \A j \in 1 .. h : At(b, h)[j] = At(c, h)[j] BY <1>1, <1>2
  <2> QED BY <2>1, <2>2, SeqEqual
<1> QED BY <1>1, <1>2

\* A chain is its own first blocks.
LEMMA AtAll ==
  ASSUME NEW c \in Seq(Nat)
  PROVE  At(c, Len(c)) = c
  BY SubSeqFull DEF At

\* b is on c exactly if c begins with its blocks.
LEMMA OnChainFacts ==
  ASSUME NEW b \in Seq(Nat), NEW c \in Seq(Nat)
  PROVE  OnChain(b, c) <=> Len(b) <= Len(c) /\ \A j \in 1 .. Len(b) : b[j] = c[j]
<1>1. Len(b) \in Nat BY LenProperties
<1>2. ASSUME Len(b) <= Len(c) PROVE b = SubSeq(c, 1, Len(b)) <=> At(b, Len(b)) = At(c, Len(b))
  BY AtAll DEF At
<1> QED BY <1>1, <1>2, AtEqual DEF OnChain

-----------------------------------------------------------------------------
(* Weight. *)

\* The bonds below each block, which add to its weight.
Shares(b) ==
  {ij \in {i \in 1 .. Len(b) : b[i] \in Bonding} \X (1 .. Len(b)) : ij[1] < ij[2]}

LEMMA WorkIs ==
  ASSUME NEW b \in Seq(Nat)
  PROVE  /\ IsFiniteSet(Shares(b)) /\ Cardinality(Shares(b)) \in Nat
         /\ Work(b) = Len(b) + Cardinality(Shares(b)) /\ Work(b) \in Nat
<1> DEFINE I == 1 .. Len(b)
<1>1. Len(b) \in Nat BY LenProperties
<1>2. IsFiniteSet(I) BY <1>1, FS_Interval
<1>3. IsFiniteSet(I \X I) BY <1>2, FS_Product
<1>4. Shares(b) \in SUBSET (I \X I) BY DEF Shares
<1>5. IsFiniteSet(Shares(b)) BY <1>3, <1>4, FS_Subset
<1>6. Cardinality(Shares(b)) \in Nat BY <1>5, FS_CardinalityType
<1>7. Work(b) = Len(b) + Cardinality(Shares(b)) BY DEF Work, Shares
<1> QED BY <1>1, <1>5, <1>6, <1>7

\* A chain is heavier than those it extends.
LEMMA WorkRises ==
  ASSUME NEW b \in Seq(Nat), NEW c \in Seq(Nat),
         Len(b) < Len(c), \A j \in 1 .. Len(b) : b[j] = c[j]
  PROVE  Work(b) < Work(c)
<1>1. Len(b) \in Nat /\ Len(c) \in Nat BY LenProperties
<1>2. Shares(b) \in SUBSET Shares(c) BY <1>1 DEF Shares
<1>3. Cardinality(Shares(b)) <= Cardinality(Shares(c)) BY <1>2, WorkIs, FS_Subset
<1> QED BY <1>1, <1>3, WorkIs

-----------------------------------------------------------------------------
(* The order. *)

\* The first block in which two chains differ decides.
LEMMA LowerHashIs ==
  ASSUME NEW b \in Seq(Nat), NEW c \in Seq(Nat)
  PROVE  LowerHash(b, c) <=>
           \E i \in 1 .. Len(b) :
             i <= Len(c) /\ b[i] < c[i] /\ \A j \in 1 .. i - 1 : b[j] = c[j]
<1>1. Len(b) \in Nat /\ Len(c) \in Nat BY LenProperties
<1>2. ASSUME NEW i \in 1 .. Len(b), i <= Len(c)
      PROVE  At(b, i - 1) = At(c, i - 1) <=> \A j \in 1 .. i - 1 : b[j] = c[j]
  <2>1. i - 1 \in Nat /\ i - 1 <= Len(b) /\ i - 1 <= Len(c) BY <1>1, <1>2
  <2> QED BY <2>1, AtEqual
<1> QED BY <1>2 DEF LowerHash

LEMMA LowerHashOneWay ==
  ASSUME NEW b \in Seq(Nat), NEW c \in Seq(Nat), LowerHash(b, c)
  PROVE  ~LowerHash(c, b)
<1>1. PICK i \in 1 .. Len(b) :
        i <= Len(c) /\ b[i] < c[i] /\ \A j \in 1 .. i - 1 : b[j] = c[j]
  BY LowerHashIs
<1>2. SUFFICES ASSUME LowerHash(c, b) PROVE FALSE OBVIOUS
<1>3. PICK k \in 1 .. Len(c) :
        k <= Len(b) /\ c[k] < b[k] /\ \A j \in 1 .. k - 1 : c[j] = b[j]
  BY <1>2, LowerHashIs
<1>4. Len(b) \in Nat /\ Len(c) \in Nat BY LenProperties
<1>5. b[i] \in Nat /\ c[i] \in Nat /\ b[k] \in Nat /\ c[k] \in Nat
  <2>1. i \in 1 .. Len(b) /\ i \in 1 .. Len(c) BY <1>1, <1>4
  <2>2. k \in 1 .. Len(b) /\ k \in 1 .. Len(c) BY <1>3, <1>4
  <2>3. b[i] \in Nat /\ c[i] \in Nat BY <2>1, ElementOfSeq
  <2>4. b[k] \in Nat /\ c[k] \in Nat BY <2>2, ElementOfSeq
  <2> QED BY <2>3, <2>4
<1>6. CASE i = k BY <1>1, <1>3, <1>5, <1>6
<1>7. CASE i < k
  <2>1. i \in 1 .. k - 1 BY <1>4, <1>7
  <2> QED BY <2>1, <1>1, <1>3, <1>5
<1>8. CASE k < i
  <2>1. k \in 1 .. i - 1 BY <1>4, <1>8
  <2> QED BY <2>1, <1>1, <1>3, <1>5
<1> QED BY <1>4, <1>6, <1>7, <1>8

LEMMA LowerHashTransitive ==
  ASSUME NEW b \in Seq(Nat), NEW c \in Seq(Nat), NEW d \in Seq(Nat),
         LowerHash(b, c), LowerHash(c, d)
  PROVE  LowerHash(b, d)
<1>1. PICK i \in 1 .. Len(b) :
        i <= Len(c) /\ b[i] < c[i] /\ \A j \in 1 .. i - 1 : b[j] = c[j]
  BY LowerHashIs
<1>2. PICK k \in 1 .. Len(c) :
        k <= Len(d) /\ c[k] < d[k] /\ \A j \in 1 .. k - 1 : c[j] = d[j]
  BY LowerHashIs
<1>3. Len(b) \in Nat /\ Len(c) \in Nat /\ Len(d) \in Nat BY LenProperties
<1>4. SUFFICES \E m \in 1 .. Len(b) :
                 m <= Len(d) /\ b[m] < d[m] /\ \A j \in 1 .. m - 1 : b[j] = d[j]
  BY LowerHashIs
<1>5. CASE i <= k
  <2>0. i \in 1 .. Len(b) /\ i \in 1 .. Len(c) /\ i \in 1 .. Len(d) /\ i <= Len(d)
    BY <1>1, <1>2, <1>3, <1>5
  <2>1. b[i] \in Nat /\ c[i] \in Nat /\ d[i] \in Nat BY <2>0, ElementOfSeq
  <2>2. b[i] < d[i]
    <3>1. CASE i = k BY <1>1, <1>2, <2>1, <3>1
    <3>2. CASE i < k
      <4>1. i \in 1 .. k - 1 BY <1>3, <3>2
      <4> QED BY <4>1, <1>1, <1>2
    <3> QED BY <1>3, <1>5, <3>1, <3>2
  <2>3. \A j \in 1 .. i - 1 : b[j] = d[j]
    <3>1. \A j \in 1 .. i - 1 : j \in 1 .. k - 1 BY <1>3, <1>5
    <3> QED BY <3>1, <1>1, <1>2
  <2> QED BY <2>0, <2>2, <2>3
<1>6. CASE k < i
  <2>1. k \in 1 .. Len(b) BY <1>3, <1>6
  <2>2. b[k] = c[k]
    <3>1. k \in 1 .. i - 1 BY <1>3, <1>6
    <3> QED BY <3>1, <1>1
  <2>3. \A j \in 1 .. k - 1 : b[j] = d[j]
    <3>1. \A j \in 1 .. k - 1 : j \in 1 .. i - 1 BY <1>3, <1>6
    <3> QED BY <3>1, <1>1, <1>2
  <2> QED BY <2>1, <2>2, <2>3, <1>2
<1> QED BY <1>3, <1>5, <1>6

\* Of two chains of one weight, one has the lower hash: neither extends the other.
LEMMA LowerHashDecides ==
  ASSUME NEW b \in Seq(Nat), NEW c \in Seq(Nat), b # c, Work(b) = Work(c)
  PROVE  LowerHash(b, c) \/ LowerHash(c, b)
<1>1. Len(b) \in Nat /\ Len(c) \in Nat BY LenProperties
<1>2. Work(b) \in Nat /\ Work(c) \in Nat BY WorkIs
<1> DEFINE T == {i \in Nat : i >= 1 /\ i <= Len(b) /\ i <= Len(c) /\ b[i] # c[i]}
<1>3. T # {}
  <2>1. SUFFICES ASSUME T = {} PROVE FALSE OBVIOUS
  <2>2. \A i \in Nat : i >= 1 /\ i <= Len(b) /\ i <= Len(c) => b[i] = c[i] BY <2>1
  <2>3. CASE Len(b) = Len(c)
    <3>1. \A i \in 1 .. Len(b) : b[i] = c[i] BY <1>1, <2>2, <2>3
    <3> QED BY <3>1, <2>3, SeqEqual
  <2>4. CASE Len(b) < Len(c)
    <3>1. \A i \in 1 .. Len(b) : b[i] = c[i] BY <1>1, <2>2, <2>4
    <3> QED BY <3>1, <2>4, <1>2, WorkRises
  <2>5. CASE Len(c) < Len(b)
    <3>1. \A i \in 1 .. Len(c) : c[i] = b[i] BY <1>1, <2>2, <2>5
    <3> QED BY <3>1, <2>5, <1>2, WorkRises
  <2> QED BY <1>1, <2>3, <2>4, <2>5
<1>4. PICK i \in T : \A j \in T : i <= j
  <2>1. T \subseteq Nat OBVIOUS
  <2> HIDE DEF T
  <2> QED BY <1>3, <2>1, LeastNatural
<1>5. i \in 1 .. Len(b) /\ i \in 1 .. Len(c) /\ b[i] # c[i] BY <1>1, <1>4
<1>6. b[i] \in Nat /\ c[i] \in Nat BY <1>5, ElementOfSeq
<1>7. \A j \in 1 .. i - 1 : b[j] = c[j]
  <2> TAKE j \in 1 .. i - 1
  <2>1. j \in Nat /\ j < i /\ j >= 1 /\ j <= Len(b) /\ j <= Len(c) BY <1>1, <1>5
  <2>2. j \notin T BY <2>1, <1>4
  <2> QED BY <2>1, <2>2
<1>8. i <= Len(b) /\ i <= Len(c) BY <1>1, <1>5
<1>9. CASE b[i] < c[i] BY <1>5, <1>7, <1>8, <1>9, LowerHashIs
<1>10. CASE c[i] < b[i]
  <2>1. \A j \in 1 .. i - 1 : c[j] = b[j] BY <1>7
  <2> QED BY <1>5, <2>1, <1>8, <1>10, LowerHashIs
<1> QED BY <1>5, <1>6, <1>9, <1>10

\* Better is a strict total order on chains.
LEMMA BetterIsTotalOrder ==
  ASSUME NEW b \in Seq(Nat), NEW c \in Seq(Nat), NEW d \in Seq(Nat)
  PROVE  /\ ~(Better(b, c) /\ Better(c, b))
         /\ Better(b, c) /\ Better(c, d) => Better(b, d)
         /\ b # c => Better(b, c) \/ Better(c, b)
<1>1. Work(b) \in Nat /\ Work(c) \in Nat /\ Work(d) \in Nat BY WorkIs
<1>2. ~(Better(b, c) /\ Better(c, b)) BY <1>1, LowerHashOneWay DEF Better
<1>3. Better(b, c) /\ Better(c, d) => Better(b, d)
  BY <1>1, LowerHashTransitive DEF Better
<1>4. b # c => Better(b, c) \/ Better(c, b) BY <1>1, LowerHashDecides DEF Better
<1> QED BY <1>2, <1>3, <1>4

\* Of finitely many chains one is better than all others.
LEMMA BestExists ==
  ASSUME NEW S, IsFiniteSet(S), S \subseteq Seq(Nat), S # {}
  PROVE  \E t \in S : \A u \in S \ {t} : Better(t, u)
<1> DEFINE P == {T \in SUBSET S : T = {} \/ \E t \in T : \A u \in T \ {t} : Better(t, u)}
<1>1. {} \in P OBVIOUS
<1>2. ASSUME NEW T \in SUBSET S, NEW x \in S, T \in P, x \notin T PROVE T \cup {x} \in P
  <2>1. CASE T = {} BY <2>1
  <2>2. CASE T # {}
    <3>1. PICK t \in T : \A u \in T \ {t} : Better(t, u) BY <1>2, <2>2
    <3>2. t # x /\ t \in Seq(Nat) /\ x \in Seq(Nat) BY <1>2
    <3>3. CASE Better(t, x) BY <3>1, <3>3
    <3>4. CASE Better(x, t)
      <4>1. ASSUME NEW u \in T PROVE Better(x, u)
        <5>1. CASE u = t BY <5>1, <3>4
        <5>2. CASE u # t
          <6>1. Better(t, u) BY <3>1, <5>2
          <6>2. u \in Seq(Nat) OBVIOUS
          <6> QED BY <6>1, <6>2, <3>2, <3>4, BetterIsTotalOrder
        <5> QED BY <5>1, <5>2
      <4> QED BY <4>1
    <3> QED BY <3>2, <3>3, <3>4, BetterIsTotalOrder
  <2> QED BY <2>1, <2>2
<1> HIDE DEF P
<1>3. SUBSET S \subseteq P BY <1>1, <1>2, SetInduct
<1>4. S \in P BY <1>3
<1> QED BY <1>4 DEF P

-----------------------------------------------------------------------------
(* The tips a node sees. *)

LEMMA TipsFacts ==
  ASSUME TypeOK, NEW n \in Nodes
  PROVE  /\ Peers(n) \subseteq Nodes /\ IsFiniteSet(Peers(n))
         /\ \A m \in Nodes : chain[m] \in Seq(Nat)
         /\ Tips(n) \subseteq Seq(Nat) /\ IsFiniteSet(Tips(n)) /\ Tips(n) # {}
<1>1. \A m \in Nodes : chain[m] \in Seq(Nat) BY DEF TypeOK
<1>2. Peers(n) \subseteq Nodes BY DEF Peers
<1>3. IsFiniteSet(Peers(n)) BY <1>2, NodeAssumption, FS_Subset
<1> DEFINE I == {chain[p] : p \in Peers(n)}
           f == [p \in Peers(n) |-> chain[p]]
<1>4. f \in Surjection(Peers(n), I) BY DEF Surjection
<1>5. IsFiniteSet(I)
  <2> HIDE DEF I, f
  <2> QED BY <1>3, <1>4, FS_Surjection
<1>6. IsFiniteSet(I \ benched[n]) BY <1>5, FS_Difference
<1>7. IsFiniteSet(Tips(n)) BY <1>6, FS_AddElement DEF Tips
<1>8. Tips(n) \subseteq Seq(Nat) BY <1>1, <1>2 DEF Tips
<1>9. Tips(n) # {} BY DEF Tips
<1> QED BY <1>1, <1>2, <1>3, <1>7, <1>8, <1>9

\* The heaviest tip is one of them, and better than all others.
LEMMA HeaviestFacts ==
  ASSUME TypeOK, NEW n \in Nodes
  PROVE  /\ Heaviest(n) \in Tips(n) /\ Heaviest(n) \in Seq(Nat)
         /\ \A u \in Tips(n) \ {Heaviest(n)} : Better(Heaviest(n), u)
<1>1. \E t \in Tips(n) : \A u \in Tips(n) \ {t} : Better(t, u)
  BY TipsFacts, BestExists
<1>2. /\ Heaviest(n) \in Tips(n)
      /\ \A u \in Tips(n) \ {Heaviest(n)} : Better(Heaviest(n), u)
  BY <1>1 DEF Heaviest
<1> QED BY <1>2, TipsFacts

-----------------------------------------------------------------------------
(* The floor. *)

LEMMA HighestOfTwo ==
  ASSUME NEW a \in Int, NEW b \in Int
  PROVE  /\ Highest({a, b}) \in {a, b}
         /\ a <= Highest({a, b}) /\ b <= Highest({a, b})
<1>1. \E h \in {a, b} : \A g \in {a, b} : g <= h OBVIOUS
<1> QED BY <1>1 DEF Highest

\* The floor rises, if it moves, and stays below the new block.
LEMMA RaisedFacts ==
  ASSUME TypeOK, NEW n \in Nodes, NEW b \in Seq(Nat), floor[n] <= Len(b)
  PROVE  /\ Raised(n, b) \in Nat /\ floor[n] <= Raised(n, b)
         /\ Raised(n, b) <= Len(b)
<1>1. floor[n] \in Nat BY DEF TypeOK
<1>2. Len(b) \in Nat /\ FinalityDepth \in Nat BY LenProperties, BoundAssumption
<1>3. Len(b) - FinalityDepth \in Int /\ Len(b) - FinalityDepth <= Len(b) BY <1>2
<1> DEFINE h == Highest({floor[n], Len(b) - FinalityDepth})
<1>4. h \in {floor[n], Len(b) - FinalityDepth} /\ floor[n] <= h
  <2>1. \A a, c \in Int : Highest({a, c}) \in {a, c} /\ a <= Highest({a, c})
    BY HighestOfTwo
  <2>2. floor[n] \in Int BY <1>1
  <2> QED BY <2>1, <2>2, <1>3, Zenon
<1>5. h \in Nat /\ h <= Len(b) BY <1>1, <1>2, <1>3, <1>4
<1> HIDE DEF h
<1>6. Raised(n, b) = h \/ Raised(n, b) = floor[n] BY DEF Raised, h
<1> QED BY <1>1, <1>4, <1>5, <1>6

-----------------------------------------------------------------------------
(* What the steps do to a chain. *)

\* A donor's next block extends the node's tip by one.
LEMMA FastForwardFacts ==
  ASSUME TypeOK, NEW n \in Nodes, NEW p \in Nodes, FastForward(n, p)
  PROVE  LET b == At(chain[p], Len(chain[n]) + 1)
         IN /\ b \in Seq(Nat) /\ Len(b) = Len(chain[n]) + 1 /\ Len(b) <= MaxHeight
            /\ \A j \in 1 .. Len(chain[n]) : b[j] = chain[n][j]
<1>1. /\ chain[n] \in Seq(Nat) /\ chain[p] \in Seq(Nat)
      /\ Len(chain[n]) \in Nat /\ Len(chain[p]) \in Nat /\ Len(chain[p]) <= MaxHeight
  BY LenProperties DEF TypeOK
<1>2. chain[p] # chain[n] BY DEF FastForward, Behind, Donors
<1>3. Len(chain[n]) <= Len(chain[p]) /\ \A j \in 1 .. Len(chain[n]) : chain[n][j] = chain[p][j]
  BY <1>1, OnChainFacts DEF FastForward
<1>4. Len(chain[n]) # Len(chain[p]) BY <1>1, <1>2, <1>3, SeqEqual
<1>5. Len(chain[n]) + 1 \in Nat /\ Len(chain[n]) + 1 <= Len(chain[p]) BY <1>1, <1>3, <1>4
<1> DEFINE b == At(chain[p], Len(chain[n]) + 1)
<1>6. /\ b \in Seq(Nat) /\ Len(b) = Len(chain[n]) + 1
      /\ \A j \in 1 .. Len(chain[n]) + 1 : b[j] = chain[p][j]
  BY <1>1, <1>5, AtType
<1> HIDE DEF b
<1>7. \A j \in 1 .. Len(chain[n]) : b[j] = chain[n][j]
  <2> TAKE j \in 1 .. Len(chain[n])
  <2>1. j \in 1 .. Len(chain[n]) + 1 BY <1>1
  <2> QED BY <2>1, <1>3, <1>6
<1>8. Len(b) <= MaxHeight
  <2>1. MaxHeight \in Nat BY BoundAssumption
  <2> QED BY <2>1, <1>1, <1>5, <1>6
<1> QED BY <1>6, <1>7, <1>8 DEF b

LEMMA CandidateFacts ==
  ASSUME TypeOK, NEW n \in Nodes
  PROVE  /\ Candidate(n) \in Seq(Nat) /\ Len(Candidate(n)) = Len(chain[n]) + 1
         /\ \A j \in 1 .. Len(chain[n]) : Candidate(n)[j] = chain[n][j]
<1>1. chain[n] \in Seq(Nat) /\ Len(chain[n]) \in Nat /\ Mempool[n] \in Nat
  BY LenProperties, NodeAssumption DEF TypeOK
<1> QED BY <1>1, AppendProperties DEF Candidate

\* A snapshot is the finalized block of a peer.
LEMMA AnchorFacts ==
  ASSUME TypeOK, NEW n \in Nodes, NEW above, NEW s \in Anchors(n, above)
  PROVE  /\ s \in Seq(Nat) /\ Len(s) \in Nat /\ Len(s) <= MaxHeight /\ Len(s) > above
         /\ \E p \in Peers(n) :
              s = At(chain[p], floor[p]) /\ Work(chain[p]) > Work(chain[n])
<1> DEFINE offers == {p \in Peers(n) : s \in Snapshots(p) /\ Work(chain[p]) > Work(chain[n])}
<1>1. Cardinality(offers) >= MinAnswers \/ offers \cap Seeds # {} BY DEF Anchors
<1>2. offers # {}
  <2>1. SUFFICES ASSUME offers = {} PROVE FALSE OBVIOUS
  <2>2. Cardinality(offers) = 0 BY <2>1, FS_EmptySet
  <2>3. MinAnswers \in Nat \ {0} BY BoundAssumption
  <2> HIDE DEF offers
  <2> QED BY <1>1, <2>1, <2>2, <2>3
<1>3. PICK p \in offers : TRUE BY <1>2
<1>4. p \in Peers(n) /\ s = At(chain[p], floor[p]) /\ Work(chain[p]) > Work(chain[n])
  BY <1>3 DEF Snapshots
<1>5. p \in Nodes BY <1>4 DEF Peers
<1>6. /\ chain[p] \in Seq(Nat) /\ Len(chain[p]) \in Nat /\ Len(chain[p]) <= MaxHeight
      /\ floor[p] \in Nat /\ floor[p] <= Len(chain[p])
  BY <1>5, LenProperties DEF TypeOK
<1>7. s \in Seq(Nat) /\ Len(s) = floor[p] BY <1>4, <1>6, AtType
<1>8. Len(s) <= MaxHeight
  <2>1. MaxHeight \in Nat BY BoundAssumption
  <2> QED BY <2>1, <1>6, <1>7
<1>9. Len(s) > above BY DEF Anchors
<1> QED BY <1>4, <1>6, <1>7, <1>8, <1>9

-----------------------------------------------------------------------------
(* Types. *)

LEMMA TypeInit == Init => TypeOK
<1> SUFFICES ASSUME Init PROVE TypeOK OBVIOUS
<1>1. MaxHeight \in Nat /\ MaxRollbacks \in Nat BY BoundAssumption
<1>2. Genesis \in Seq(Nat) /\ Len(Genesis) = 0 BY EmptySeq DEF Genesis
<1>3. chain \in [Nodes -> Seq(Nat)] /\ \A n \in Nodes : chain[n] = Genesis
  BY <1>2 DEF Init
<1>4. floor \in [Nodes -> Nat] /\ \A n \in Nodes : floor[n] = 0 BY DEF Init
<1>5. \A n \in Nodes : Len(chain[n]) <= MaxHeight /\ floor[n] <= Len(chain[n])
  BY <1>1, <1>2, <1>3, <1>4
<1>6. rollbacks \in [Nodes -> 0 .. MaxRollbacks] BY <1>1 DEF Init
<1>7. benched \in [Nodes -> SUBSET Seq(Nat)] BY DEF Init
<1>8. /\ waited \subseteq Nodes /\ doomed \subseteq Nodes
      /\ net \subseteq FullNet /\ healed \in BOOLEAN
  BY NodeAssumption DEF Init
<1> QED BY <1>3, <1>4, <1>5, <1>6, <1>7, <1>8 DEF TypeOK

\* One node's chain and floor are replaced: what is left to show of their types.
LEMMA OneChain ==
  ASSUME TypeOK, NEW n \in Nodes, NEW b \in Seq(Nat), NEW h \in Nat,
         Len(b) <= MaxHeight, h <= Len(b),
         chain' = [chain EXCEPT ![n] = b], floor' = [floor EXCEPT ![n] = h]
  PROVE  /\ chain' \in [Nodes -> Seq(Nat)] /\ \A m \in Nodes : Len(chain'[m]) <= MaxHeight
         /\ floor' \in [Nodes -> Nat] /\ \A m \in Nodes : floor'[m] <= Len(chain'[m])
  BY DEF TypeOK

LEMMA TypeNext == TypeOK /\ [Next]_vars => TypeOK'
<1> SUFFICES ASSUME TypeOK, [Next]_vars PROVE TypeOK' OBVIOUS
<1>0. /\ MaxHeight \in Nat /\ MaxRollbacks \in Nat
      /\ \A m \in Nodes : Len(chain[m]) \in Nat
  BY BoundAssumption, LenProperties DEF TypeOK
<1>1. CASE Relink
  <2>1. net' \subseteq FullNet BY <1>1, NodeAssumption DEF Relink
  <2> QED BY <2>1, <1>1 DEF Relink, TypeOK
<1>2. CASE Heal BY <1>2 DEF Heal, TypeOK
<1>3. ASSUME NEW minting \in SUBSET Nodes, Produce(minting) PROVE TypeOK'
  <2>1. ASSUME NEW n \in minting
        PROVE  /\ Candidate(n) \in Seq(Nat) /\ Len(Candidate(n)) <= MaxHeight
               /\ Raised(n, Candidate(n)) \in Nat
               /\ Raised(n, Candidate(n)) <= Len(Candidate(n))
    <3>1. Len(chain[n]) < MaxHeight BY <1>3 DEF Produce, CanMint
    <3>2. Candidate(n) \in Seq(Nat) /\ Len(Candidate(n)) = Len(chain[n]) + 1
      BY CandidateFacts
    <3>3. Len(Candidate(n)) <= MaxHeight BY <1>0, <3>1, <3>2
    <3>4. floor[n] \in Nat /\ floor[n] <= Len(chain[n]) BY DEF TypeOK
    <3>5. floor[n] <= Len(Candidate(n)) BY <1>0, <3>2, <3>4
    <3> QED BY <3>2, <3>3, <3>5, RaisedFacts
  <2>2. /\ chain' = [n \in Nodes |-> IF n \in minting THEN Candidate(n) ELSE chain[n]]
        /\ floor' = [n \in Nodes |-> IF n \in minting THEN Raised(n, Candidate(n)) ELSE floor[n]]
        /\ waited' = waited \cup {n \in minting : Waiting(n)}
        /\ UNCHANGED <<benched, rollbacks, doomed, net, healed>>
    BY <1>3 DEF Produce
  <2>3. chain' \in [Nodes -> Seq(Nat)] /\ \A m \in Nodes : Len(chain'[m]) <= MaxHeight
    BY <2>1, <2>2 DEF TypeOK
  <2>4. floor' \in [Nodes -> Nat] /\ \A m \in Nodes : floor'[m] <= Len(chain'[m])
    BY <2>1, <2>2 DEF TypeOK
  <2> QED BY <2>2, <2>3, <2>4 DEF TypeOK
<1>4. ASSUME NEW n \in Nodes, NEW p \in Nodes, FastForward(n, p) PROVE TypeOK'
  <2> DEFINE b == At(chain[p], Len(chain[n]) + 1)
  <2>1. b \in Seq(Nat) /\ Len(b) = Len(chain[n]) + 1 /\ Len(b) <= MaxHeight
    BY <1>4, FastForwardFacts
  <2>2. /\ chain' = [chain EXCEPT ![n] = b] /\ floor' = [floor EXCEPT ![n] = Raised(n, b)]
        /\ UNCHANGED <<benched, rollbacks, waited, doomed, net, healed>>
    BY <1>4 DEF FastForward
  <2> HIDE DEF b
  <2>3. floor[n] \in Nat /\ floor[n] <= Len(chain[n]) BY DEF TypeOK
  <2>4. floor[n] <= Len(b) BY <1>0, <2>1, <2>3
  <2>5. Raised(n, b) \in Nat /\ Raised(n, b) <= Len(b) BY <2>1, <2>4, RaisedFacts
  <2>6. /\ chain' \in [Nodes -> Seq(Nat)] /\ \A m \in Nodes : Len(chain'[m]) <= MaxHeight
        /\ floor' \in [Nodes -> Nat] /\ \A m \in Nodes : floor'[m] <= Len(chain'[m])
    BY <2>1, <2>2, <2>5, OneChain
  <2> QED BY <2>2, <2>6 DEF TypeOK
<1>5. ASSUME NEW n \in Nodes, RollBackOne(n) PROVE TypeOK'
  <2>1. /\ chain' = [chain EXCEPT ![n] = At(chain[n], Len(chain[n]) - 1)]
        /\ rollbacks' = [rollbacks EXCEPT ![n] = rollbacks[n] + 1]
        /\ rollbacks[n] < MaxRollbacks /\ Len(chain[n]) > floor[n]
        /\ UNCHANGED <<floor, benched, waited, doomed, net, healed>>
    BY <1>5 DEF RollBackOne
  <2>2. chain[n] \in Seq(Nat) /\ floor[n] \in Nat /\ Len(chain[n]) <= MaxHeight
    BY DEF TypeOK
  <2>3. Len(chain[n]) - 1 \in Nat /\ Len(chain[n]) - 1 <= Len(chain[n])
    BY <1>0, <2>1, <2>2
  <2> DEFINE b == At(chain[n], Len(chain[n]) - 1)
  <2>4. b \in Seq(Nat) /\ Len(b) = Len(chain[n]) - 1 BY <2>2, <2>3, AtType
  <2> HIDE DEF b
  <2>5. Len(b) <= MaxHeight /\ floor[n] <= Len(b) BY <1>0, <2>1, <2>2, <2>4
  <2>6. chain' = [chain EXCEPT ![n] = b] BY <2>1 DEF b
  <2>7. floor' = [floor EXCEPT ![n] = floor[n]] BY <2>1 DEF TypeOK
  <2>8. /\ chain' \in [Nodes -> Seq(Nat)] /\ \A m \in Nodes : Len(chain'[m]) <= MaxHeight
        /\ floor' \in [Nodes -> Nat] /\ \A m \in Nodes : floor'[m] <= Len(chain'[m])
    BY <2>2, <2>4, <2>5, <2>6, <2>7, OneChain
  <2>9. rollbacks' \in [Nodes -> 0 .. MaxRollbacks]
    <3>1. rollbacks \in [Nodes -> 0 .. MaxRollbacks] BY DEF TypeOK
    <3>2. rollbacks[n] + 1 \in 0 .. MaxRollbacks BY <1>0, <2>1, <3>1
    <3> QED BY <2>1, <3>1, <3>2
  <2> QED BY <2>1, <2>8, <2>9 DEF TypeOK
<1>6. ASSUME NEW n \in Nodes
      PROVE  /\ WithHeaviestBenched(n) \in [Nodes -> SUBSET Seq(Nat)]
             /\ [rollbacks EXCEPT ![n] = 0] \in [Nodes -> 0 .. MaxRollbacks]
  <2>1. WithHeaviestBenched(n) \in [Nodes -> SUBSET Seq(Nat)]
    BY HeaviestFacts DEF WithHeaviestBenched, TypeOK
  <2>2. [rollbacks EXCEPT ![n] = 0] \in [Nodes -> 0 .. MaxRollbacks] BY <1>0 DEF TypeOK
  <2> QED BY <2>1, <2>2
<1>7. ASSUME NEW n \in Nodes, RejectTip(n) PROVE TypeOK'
  BY <1>6, <1>7 DEF RejectTip, TypeOK
<1>8. ASSUME NEW n \in Nodes, Release(n) PROVE TypeOK'
  BY <1>8 DEF Release, TypeOK
<1>9. ASSUME NEW n \in Nodes, Leave(n) PROVE TypeOK'
  BY <1>6, <1>9 DEF Leave, TypeOK
<1>10. ASSUME NEW n \in Nodes, Reanchor(n) PROVE TypeOK'
  <2>1. PICK s \in Anchors(n, IF ForkState(n) = "reorg" THEN floor[n] ELSE 0) :
          chain' = [chain EXCEPT ![n] = s] /\ floor' = [floor EXCEPT ![n] = Len(s)]
    BY <1>10 DEF Reanchor
  <2>2. /\ rollbacks' = [rollbacks EXCEPT ![n] = 0]
        /\ benched' = IF GivesUp(n) THEN WithHeaviestBenched(n) ELSE benched
        /\ UNCHANGED <<waited, doomed, net, healed>>
    BY <1>10 DEF Reanchor
  <2>3. s \in Seq(Nat) /\ Len(s) \in Nat /\ Len(s) <= MaxHeight /\ Len(s) <= Len(s)
    BY AnchorFacts
  <2>4. /\ chain' \in [Nodes -> Seq(Nat)] /\ \A m \in Nodes : Len(chain'[m]) <= MaxHeight
        /\ floor' \in [Nodes -> Nat] /\ \A m \in Nodes : floor'[m] <= Len(chain'[m])
    BY <2>1, <2>3, OneChain
  <2> QED BY <1>6, <2>2, <2>4 DEF TypeOK
<1>11. ASSUME NEW n \in Nodes, Condemn(n) PROVE TypeOK'
  BY <1>11 DEF Condemn, TypeOK
<1>12. ASSUME NEW n \in Nodes, Escape(n) PROVE TypeOK'
  <2>0. Genesis \in Seq(Nat) /\ Len(Genesis) = 0 BY EmptySeq DEF Genesis
  <2>1. 0 \in Nat /\ Len(Genesis) <= MaxHeight /\ 0 <= Len(Genesis) BY <1>0, <2>0
  <2>2. /\ chain' \in [Nodes -> Seq(Nat)] /\ \A m \in Nodes : Len(chain'[m]) <= MaxHeight
        /\ floor' \in [Nodes -> Nat] /\ \A m \in Nodes : floor'[m] <= Len(chain'[m])
    <3>1. chain' = [chain EXCEPT ![n] = Genesis] /\ floor' = [floor EXCEPT ![n] = 0]
      BY <1>12 DEF Escape
    <3> QED BY <2>0, <2>1, <3>1, OneChain
  <2> QED BY <1>6, <1>12, <2>2 DEF Escape, TypeOK
<1>13. CASE UNCHANGED vars BY <1>13 DEF vars, TypeOK
<1> QED BY <1>1, <1>2, <1>3, <1>4, <1>5, <1>7, <1>8, <1>9, <1>10, <1>11, <1>12, <1>13
        DEF Next, Act

\* No floor is above its tip and no burst over its budget, whatever the network,
\* the failures and the depth of forks (core_loop.py).
THEOREM NetworkTyped == Spec => []TypeOK
<1>1. Init => TypeOK BY TypeInit
<1>2. TypeOK /\ [Next]_vars => TypeOK' BY TypeNext
<1> QED BY <1>1, <1>2, PTL DEF Spec

-----------------------------------------------------------------------------
(* Ties. *)

\* Of linked nodes that do not bench one another's tips and of which none sees a
\* better one, all hold one chain.
QuietMeansAgreed ==
  \A m, n \in Nodes :
    /\ {m, n} \in net /\ chain[m] \notin benched[n] /\ chain[n] \notin benched[m]
    /\ ~Behind(m) /\ ~Behind(n)
    => chain[m] = chain[n]

LEMMA QuietNow == TypeOK => QuietMeansAgreed
<1> SUFFICES ASSUME TypeOK, NEW m \in Nodes, NEW n \in Nodes, {m, n} \in net,
                    chain[m] \notin benched[n], chain[n] \notin benched[m],
                    ~Behind(m), ~Behind(n), chain[m] # chain[n]
             PROVE  FALSE
  BY DEF QuietMeansAgreed
<1>1. {n, m} \in net BY SMT
<1>2. chain[m] \in Tips(n) /\ chain[n] \in Tips(m) BY <1>1 DEF Tips, Peers
<1>3. Heaviest(m) = chain[m] /\ Heaviest(n) = chain[n] BY DEF Behind
<1>4. Better(chain[m], chain[n]) /\ Better(chain[n], chain[m])
  BY <1>2, <1>3, HeaviestFacts
<1>5. chain[m] \in Seq(Nat) /\ chain[n] \in Seq(Nat) BY TipsFacts
<1> QED BY <1>4, <1>5, BetterIsTotalOrder

\* "the deterministic tie-break every node computes identically" (core_loop.py):
\* the network cannot come to rest on a fork.
THEOREM NoRestOnAFork == Spec => []QuietMeansAgreed
BY NetworkTyped, QuietNow, PTL

-----------------------------------------------------------------------------
(* Finality. *)

\* n keeps its final block, or purges its chain as it had decided, or adopts the
\* final block of a peer on a heavier chain: on a measured fork state, and above
\* its floor unless it is on a fork below it.
Kept(n) ==
  \/ floor[n] <= floor'[n] /\ At(chain'[n], floor[n]) = At(chain[n], floor[n])
  \/ n \in doomed /\ chain'[n] = Genesis
  \/ /\ ForkState(n) = "dead_fork" \/ (ForkState(n) = "reorg" /\ floor[n] < floor'[n])
     /\ \E p \in Peers(n) :
          chain'[n] = At(chain[p], floor[p]) /\ Work(chain[p]) > Work(chain[n])

\* What a node holds as final stays on its chain and its floor does not sink, but
\* for a purge or a snapshot.
FinalIsKept == [][\A n \in Nodes : Kept(n)]_vars

\* A chain that is extended keeps its final block.
LEMMA ExtensionKeeps ==
  ASSUME TypeOK, NEW n \in Nodes, NEW b \in Seq(Nat),
         Len(b) = Len(chain[n]) + 1, \A j \in 1 .. Len(chain[n]) : b[j] = chain[n][j]
  PROVE  /\ At(b, floor[n]) = At(chain[n], floor[n])
         /\ floor[n] <= Raised(n, b)
<1>1. /\ chain[n] \in Seq(Nat) /\ Len(chain[n]) \in Nat
      /\ floor[n] \in Nat /\ floor[n] <= Len(chain[n])
  BY LenProperties DEF TypeOK
<1>2. floor[n] <= Len(b) BY <1>1
<1>3. \A j \in 1 .. floor[n] : b[j] = chain[n][j] BY <1>1
<1> QED BY <1>1, <1>2, <1>3, AtEqual, RaisedFacts

\* So does one that is rolled back above its floor.
LEMMA RollBackKeeps ==
  ASSUME TypeOK, NEW n \in Nodes, Len(chain[n]) > floor[n]
  PROVE  At(At(chain[n], Len(chain[n]) - 1), floor[n]) = At(chain[n], floor[n])
<1>1. /\ chain[n] \in Seq(Nat) /\ Len(chain[n]) \in Nat
      /\ floor[n] \in Nat /\ floor[n] <= Len(chain[n])
  BY LenProperties DEF TypeOK
<1>2. Len(chain[n]) - 1 \in Nat /\ Len(chain[n]) - 1 <= Len(chain[n])
  BY <1>1
<1> DEFINE b == At(chain[n], Len(chain[n]) - 1)
<1>3. /\ b \in Seq(Nat) /\ Len(b) = Len(chain[n]) - 1
      /\ \A j \in 1 .. Len(chain[n]) - 1 : b[j] = chain[n][j]
  BY <1>1, <1>2, AtType
<1> HIDE DEF b
<1>4. floor[n] <= Len(b) /\ \A j \in 1 .. floor[n] : b[j] = chain[n][j] BY <1>1, <1>3
<1>5. At(b, floor[n]) = At(chain[n], floor[n]) BY <1>1, <1>3, <1>4, AtEqual
<1> QED BY <1>5 DEF b

\* The exceptions are the two the code makes: no sync, rollback, production or
\* bench ever gives up a final block (rollback.py, _maybe_reanchor,
\* _maybe_escape_dead_fork).
THEOREM FinalBlocksKept == Spec => FinalIsKept
<1>1. TypeOK /\ [Next]_vars => [\A n \in Nodes : Kept(n)]_vars
  <2> SUFFICES ASSUME TypeOK, Next, NEW m \in Nodes PROVE Kept(m) BY DEF vars
  <2>0. chain \in [Nodes -> Seq(Nat)] /\ floor \in [Nodes -> Nat] BY DEF TypeOK
  <2>1. ASSUME chain'[m] = chain[m], floor'[m] = floor[m] PROVE Kept(m)
    <3>1. floor[m] <= floor[m] BY <2>0
    <3> QED BY <2>1, <3>1 DEF Kept
  <2>2. ASSUME NEW b \in Seq(Nat), chain'[m] = b, floor'[m] = Raised(m, b),
               Len(b) = Len(chain[m]) + 1, \A j \in 1 .. Len(chain[m]) : b[j] = chain[m][j]
        PROVE  Kept(m)
    BY <2>2, ExtensionKeeps DEF Kept
  <2>3. CASE Relink BY <2>1, <2>3 DEF Relink
  <2>4. CASE Heal BY <2>1, <2>4 DEF Heal
  <2>5. ASSUME NEW minting \in SUBSET Nodes, Produce(minting) PROVE Kept(m)
    <3>1. CASE m \in minting
      <4>1. chain'[m] = Candidate(m) /\ floor'[m] = Raised(m, Candidate(m))
        BY <2>5, <3>1 DEF Produce
      <4> QED BY <4>1, <2>2, CandidateFacts
    <3>2. CASE m \notin minting BY <2>1, <2>5, <3>2 DEF Produce
    <3> QED BY <3>1, <3>2
  <2>6. ASSUME NEW n \in Nodes, Act(n), n # m PROVE Kept(m)
    <3>1. chain'[m] = chain[m] /\ floor'[m] = floor[m]
      BY <2>0, <2>6 DEF Act, RollBackOne, RejectTip, Release, Leave, Reanchor, Condemn, Escape,
                        FastForward
    <3> QED BY <2>1, <3>1
  <2>7. CASE RejectTip(m) \/ Release(m) \/ Leave(m) \/ Condemn(m)
    BY <2>1, <2>7 DEF RejectTip, Release, Leave, Condemn
  <2>8. CASE RollBackOne(m)
    <3>1. /\ chain'[m] = At(chain[m], Len(chain[m]) - 1) /\ floor'[m] = floor[m]
          /\ Len(chain[m]) > floor[m]
      BY <2>0, <2>8 DEF RollBackOne
    <3>2. At(chain'[m], floor[m]) = At(chain[m], floor[m]) BY <3>1, RollBackKeeps
    <3>3. floor[m] <= floor'[m] BY <2>0, <3>1
    <3> QED BY <3>2, <3>3 DEF Kept
  <2>9. CASE Reanchor(m)
    <3>1. ForkState(m) \in {"reorg", "dead_fork"} BY <2>9 DEF Reanchor
    <3>2. PICK s \in Anchors(m, IF ForkState(m) = "reorg" THEN floor[m] ELSE 0) :
            chain' = [chain EXCEPT ![m] = s] /\ floor' = [floor EXCEPT ![m] = Len(s)]
      BY <2>9 DEF Reanchor
    <3>3. chain'[m] = s /\ floor'[m] = Len(s) BY <2>0, <3>2
    <3>4. \E p \in Peers(m) : s = At(chain[p], floor[p]) /\ Work(chain[p]) > Work(chain[m])
      BY AnchorFacts
    <3>5. ForkState(m) = "reorg" => Len(s) > floor[m] BY AnchorFacts
    <3>6. ForkState(m) = "reorg" => floor[m] < floor'[m] BY <2>0, <3>3, <3>5, AnchorFacts
    <3> QED BY <3>1, <3>3, <3>4, <3>6 DEF Kept
  <2>10. CASE Escape(m)
    <3>1. m \in doomed /\ chain'[m] = Genesis BY <2>0, <2>10 DEF Escape
    <3> QED BY <3>1 DEF Kept
  <2>11. ASSUME NEW p \in Nodes, FastForward(m, p) PROVE Kept(m)
    <3> DEFINE b == At(chain[p], Len(chain[m]) + 1)
    <3>1. /\ b \in Seq(Nat) /\ Len(b) = Len(chain[m]) + 1
          /\ \A j \in 1 .. Len(chain[m]) : b[j] = chain[m][j]
      BY <2>11, FastForwardFacts
    <3>2. chain'[m] = b /\ floor'[m] = Raised(m, b) BY <2>0, <2>11 DEF FastForward
    <3> HIDE DEF b
    <3> QED BY <3>1, <3>2, <2>2
  <2> QED BY <2>3, <2>4, <2>5, <2>6, <2>7, <2>8, <2>9, <2>10, <2>11 DEF Next, Act
<1> QED BY <1>1, NetworkTyped, PTL DEF Spec, FinalIsKept

-----------------------------------------------------------------------------
(* Mutual purges. *)

\* A purge is decided by weight: the node's chain is lighter than one that
\* opposes it, not just opposed by everybody.
Lighter       == \A n \in Nodes : Condemn(n) => BestOpposing(n) > Work(chain[n])
LighterYields == [][Lighter]_vars

\* No chain is better than the node's.
Best(p) == \A m \in Nodes : chain[m] # chain[p] => Better(chain[p], chain[m])

LEMMA BestNode ==
  ASSUME TypeOK, Nodes # {}
  PROVE  \E p \in Nodes : Best(p)
<1> DEFINE I == {chain[p] : p \in Nodes}
           f == [p \in Nodes |-> chain[p]]
<1>1. f \in Surjection(Nodes, I) BY DEF Surjection
<1>2. IsFiniteSet(I)
  <2> HIDE DEF I, f
  <2> QED BY <1>1, NodeAssumption, FS_Surjection
<1>3. I \subseteq Seq(Nat) /\ I # {} BY DEF TypeOK
<1>4. \E t \in I : \A u \in I \ {t} : Better(t, u)
  <2> HIDE DEF I
  <2> QED BY <1>2, <1>3, BestExists
<1> QED BY <1>4 DEF Best

\* It is as heavy as any, and has nobody to follow.
LEMMA BestFacts ==
  ASSUME TypeOK, NEW p \in Nodes, Best(p)
  PROVE  /\ ~Behind(p)
         /\ \A m \in Nodes : /\ Work(chain[m]) \in Nat /\ Work(chain[p]) \in Nat
                             /\ Work(chain[m]) <= Work(chain[p])
<1>1. \A m \in Nodes : chain[m] \in Seq(Nat) BY DEF TypeOK
<1>2. ASSUME NEW m \in Nodes
      PROVE  /\ Work(chain[m]) \in Nat /\ Work(chain[p]) \in Nat
             /\ Work(chain[m]) <= Work(chain[p])
  <2>1. Work(chain[m]) \in Nat /\ Work(chain[p]) \in Nat BY <1>1, WorkIs
  <2>2. CASE chain[m] = chain[p] BY <2>1, <2>2
  <2>3. CASE chain[m] # chain[p] BY <2>1, <2>3 DEF Best, Better
  <2> QED BY <2>2, <2>3
<1>3. ~Behind(p)
  <2>1. SUFFICES ASSUME Heaviest(p) # chain[p] PROVE FALSE BY DEF Behind
  <2>2. chain[p] \in Tips(p) BY DEF Tips
  <2>3. Better(Heaviest(p), chain[p]) BY <2>1, <2>2, HeaviestFacts
  <2>4. PICK m \in Nodes : Heaviest(p) = chain[m]
    BY HeaviestFacts DEF Tips, Peers
  <2>5. Better(chain[p], Heaviest(p)) BY <2>1, <2>4 DEF Best
  <2> QED BY <1>1, <2>3, <2>4, <2>5, BetterIsTotalOrder
<1> QED BY <1>2, <1>3

\* The heaviest of those that oppose a node, if enough do.
LEMMA BestOpposingFacts ==
  ASSUME TypeOK, NEW n \in Nodes, Stranded(n)
  PROVE  \E q \in Nodes : BestOpposing(n) = Work(chain[q])
<1> DEFINE O == Opposing(n)
           W == {Work(chain[p]) : p \in O}
           f == [p \in O |-> Work(chain[p])]
<1>1. O \subseteq Nodes BY DEF Opposing, Probed, Peers
<1>2. IsFiniteSet(O) BY <1>1, NodeAssumption, FS_Subset
<1>3. O # {}
  <2>1. SUFFICES ASSUME O = {} PROVE FALSE OBVIOUS
  <2>2. Cardinality(O) = 0 BY <2>1, FS_EmptySet
  <2>3. Cardinality(O) >= MinAnswers /\ MinAnswers \in Nat \ {0}
    BY BoundAssumption DEF Stranded
  <2> HIDE DEF O
  <2> QED BY <2>2, <2>3
<1>4. f \in Surjection(O, W) BY DEF Surjection
<1>5. IsFiniteSet(W)
  <2> HIDE DEF O, W, f
  <2> QED BY <1>2, <1>4, FS_Surjection
<1>6. W \subseteq Nat /\ W # {}
  <2>1. \A p \in O : Work(chain[p]) \in Nat BY <1>1, WorkIs DEF TypeOK
  <2> HIDE DEF O
  <2> QED BY <2>1, <1>3
<1>7. \E h \in W : \A g \in W : g <= h
  <2> DEFINE P == {T \in SUBSET W : T = {} \/ \E h \in T : \A g \in T : g <= h}
  <2>1. {} \in P OBVIOUS
  <2>2. ASSUME NEW T \in SUBSET W, NEW x \in W, T \in P, x \notin T PROVE T \cup {x} \in P
    <3> HIDE DEF W
    <3>1. CASE T = {} BY <3>1, <1>6
    <3>2. CASE T # {}
      <4>1. PICK h \in T : \A g \in T : g <= h BY <2>2, <3>2
      <4>2. h \in Nat /\ x \in Nat /\ \A g \in T : g \in Nat BY <1>6, <4>1
      <4>3. CASE x <= h BY <4>1, <4>3
      <4>4. CASE h < x
        <5>1. \A g \in T \cup {x} : g <= x BY <4>1, <4>2, <4>4
        <5> QED BY <5>1
      <4> QED BY <4>2, <4>3, <4>4
    <3> QED BY <3>1, <3>2
  <2> HIDE DEF P, W
  <2>3. SUBSET W \subseteq P BY <1>5, <2>1, <2>2, SetInduct
  <2>4. W \in P BY <2>3
  <2> QED BY <2>4, <1>6 DEF P
<1>8. Highest(W) \in W
  <2> HIDE DEF W
  <2> QED BY <1>7 DEF Highest
<1> QED BY <1>1, <1>8 DEF BestOpposing

\* Some node that does not purge its chain is heavier than all that do.
HeavierStays ==
  Nodes # {} =>
    \E p \in Nodes \ doomed : \A d \in doomed : Work(chain[d]) < Work(chain[p])

\* What a step does, but for the weights: the best node keeps its chain or
\* extends it, and nodes about to purge theirs do nothing else.
LEMMA BestStays ==
  ASSUME TypeOK, Next, Lighter, NEW p \in Nodes \ doomed, Best(p)
  PROVE  /\ Work(chain[p]) <= Work(chain'[p]) /\ p \notin doomed'
         /\ \A d \in doomed' :
              chain'[d] = chain[d] /\ (d \in doomed \/ Work(chain[d]) < Work(chain[p]))
<1> DEFINE Goal ==
      /\ Work(chain[p]) <= Work(chain'[p]) /\ p \notin doomed'
      /\ \A d \in doomed' :
           chain'[d] = chain[d] /\ (d \in doomed \/ Work(chain[d]) < Work(chain[p]))
<1>0. /\ chain \in [Nodes -> Seq(Nat)] /\ doomed \subseteq Nodes
      /\ Work(chain[p]) \in Nat /\ Work(chain[p]) <= Work(chain[p])
  BY BestFacts DEF TypeOK
<1>1. ASSUME chain' = chain, doomed' \subseteq doomed PROVE Goal BY <1>0, <1>1
<1>2. ASSUME NEW n \in Nodes \ doomed, n # p, doomed' = doomed,
             \A m \in Nodes \ {n} : chain'[m] = chain[m]
      PROVE  Goal
  BY <1>0, <1>2
<1>3. CASE Relink BY <1>1, <1>3 DEF Relink
<1>4. CASE Heal BY <1>1, <1>4 DEF Heal
<1>5. ASSUME NEW minting \in SUBSET Nodes, Produce(minting) PROVE Goal
  <2>1. /\ chain' = [n \in Nodes |-> IF n \in minting THEN Candidate(n) ELSE chain[n]]
        /\ doomed' = doomed /\ \A n \in minting : n \notin doomed
    BY <1>5 DEF Produce, CanMint
  <2>2. Work(chain[p]) < Work(Candidate(p))
    <3>1. Len(chain[p]) < Len(Candidate(p)) BY <1>0, CandidateFacts, LenProperties
    <3> QED BY <1>0, <3>1, CandidateFacts, WorkRises
  <2>3. Candidate(p) \in Seq(Nat) BY CandidateFacts
  <2>4. Work(Candidate(p)) \in Nat BY <2>3, WorkIs
  <2>5. Work(chain[p]) <= Work(chain'[p])
    <3>1. CASE p \in minting BY <1>0, <2>1, <2>2, <2>4, <3>1
    <3>2. CASE p \notin minting BY <1>0, <2>1, <3>2
    <3> QED BY <3>1, <3>2
  <2> QED BY <1>0, <2>1, <2>5
<1>6. ASSUME NEW n \in Nodes, RejectTip(n) \/ Release(n) \/ Leave(n) PROVE Goal
  BY <1>1, <1>6 DEF RejectTip, Release, Leave
<1>7. ASSUME NEW n \in Nodes, RollBackOne(n) \/ Reanchor(n) PROVE Goal
  <2>1. Behind(n) /\ n \notin doomed
    BY <1>7 DEF RollBackOne, Reanchor, Active, GivesUp, Spent, Refused, Diverged
  <2>2. n # p BY <2>1, BestFacts
  <2>3. doomed' = doomed /\ \A m \in Nodes \ {n} : chain'[m] = chain[m]
    BY <1>0, <1>7 DEF RollBackOne, Reanchor
  <2> QED BY <2>1, <2>2, <2>3, <1>2
<1>8. ASSUME NEW n \in Nodes, NEW q \in Nodes, FastForward(n, q) PROVE Goal
  <2>1. Behind(n) /\ n \notin doomed BY <1>8 DEF FastForward, Active
  <2>2. n # p BY <2>1, BestFacts
  <2>3. doomed' = doomed /\ \A m \in Nodes \ {n} : chain'[m] = chain[m]
    BY <1>0, <1>8 DEF FastForward
  <2> QED BY <2>1, <2>2, <2>3, <1>2
<1>9. ASSUME NEW n \in Nodes, Condemn(n) PROVE Goal
  <2>1. Stranded(n) /\ doomed' = doomed \cup {n} /\ chain' = chain BY <1>9 DEF Condemn
  <2>2. BestOpposing(n) > Work(chain[n]) BY <1>9 DEF Lighter
  <2>3. PICK q \in Nodes : BestOpposing(n) = Work(chain[q]) BY <2>1, BestOpposingFacts
  <2>4. Work(chain[n]) < Work(chain[p]) BY <2>2, <2>3, BestFacts
  <2>5. n # p BY <2>4, <1>0
  <2> QED BY <1>0, <2>1, <2>4, <2>5
<1>10. ASSUME NEW n \in Nodes, Escape(n) PROVE Goal
  <2>1. n \in doomed /\ doomed' = doomed \ {n} /\ \A m \in Nodes \ {n} : chain'[m] = chain[m]
    BY <1>0, <1>10 DEF Escape
  <2>2. n # p BY <2>1
  <2> QED BY <1>0, <2>1, <2>2
<1> QED BY <1>3, <1>4, <1>5, <1>6, <1>7, <1>8, <1>9, <1>10 DEF Next, Act

\* While a lighter node always yields to a heavier one, the best chain is never
\* purged, whatever partition, failure or block comes between decision and purge
\* (_maybe_escape_dead_fork): a wipe of all takes the other clause.
THEOREM WeightNeverWipesAll == Spec /\ LighterYields => NoMutualWipe
<1>1. Init => HeavierStays BY DEF Init, HeavierStays
<1>2. ASSUME TypeOK, HeavierStays, Nodes # {}
      PROVE  \E p \in Nodes \ doomed :
               Best(p) /\ \A d \in doomed : Work(chain[d]) < Work(chain[p])
  <2>1. PICK q \in Nodes \ doomed : \A d \in doomed : Work(chain[d]) < Work(chain[q])
    BY <1>2 DEF HeavierStays
  <2>2. PICK p \in Nodes : Best(p) BY <1>2, BestNode
  <2>3. ASSUME NEW d \in doomed PROVE Work(chain[d]) < Work(chain[p])
    <3>1. d \in Nodes BY <1>2 DEF TypeOK
    <3> QED BY <1>2, <2>1, <2>2, <3>1, BestFacts
  <2>4. Work(chain[p]) \in Nat BY <1>2, <2>2, BestFacts
  <2>5. p \notin doomed BY <2>3, <2>4
  <2> QED BY <2>2, <2>3, <2>5
<1>3. TypeOK /\ TypeOK' /\ HeavierStays /\ [Next]_vars /\ [Lighter]_vars => HeavierStays'
  <2> SUFFICES ASSUME TypeOK, TypeOK', HeavierStays, [Next]_vars, [Lighter]_vars, Nodes # {}
               PROVE  \E p \in Nodes \ doomed' : \A d \in doomed' : Work(chain'[d]) < Work(chain'[p])
    BY DEF HeavierStays
  <2>1. CASE UNCHANGED vars
    <3>1. chain' = chain /\ doomed' = doomed BY <2>1 DEF vars
    <3> QED BY <3>1 DEF HeavierStays
  <2>2. CASE ~ UNCHANGED vars
    <3>1. PICK p \in Nodes \ doomed :
            Best(p) /\ \A d \in doomed : Work(chain[d]) < Work(chain[p])
      BY <1>2
    <3>2. /\ Work(chain[p]) <= Work(chain'[p]) /\ p \notin doomed'
          /\ \A d \in doomed' :
               chain'[d] = chain[d] /\ (d \in doomed \/ Work(chain[d]) < Work(chain[p]))
      BY <2>2, <3>1, BestStays
    <3>3. ASSUME NEW d \in doomed' PROVE Work(chain'[d]) < Work(chain'[p])
      <4>1. d \in Nodes BY DEF TypeOK
      <4>2. Work(chain[d]) \in Nat /\ Work(chain[p]) \in Nat /\ Work(chain'[p]) \in Nat
        BY <4>1, WorkIs DEF TypeOK
      <4>3. chain'[d] = chain[d] /\ Work(chain[d]) < Work(chain[p]) BY <3>1, <3>2
      <4> QED BY <3>2, <4>2, <4>3
    <3> QED BY <3>2, <3>3
  <2> QED BY <2>1, <2>2
<1>4. TypeOK /\ TypeOK' /\ HeavierStays /\ [Next]_vars /\ [Lighter]_vars =>
        [(\E n \in Nodes : chain[n] # Genesis) => \E n \in Nodes : chain'[n] # Genesis]_vars
  <2> SUFFICES ASSUME TypeOK, TypeOK', HeavierStays, Next, Lighter,
                      NEW n \in Nodes, chain[n] # Genesis
               PROVE  \E m \in Nodes : chain'[m] # Genesis
    BY DEF vars
  <2>1. PICK p \in Nodes \ doomed : Best(p) BY <1>2
  <2>2. Work(chain[p]) <= Work(chain'[p]) BY <2>1, BestStays
  <2>3. Work(chain[n]) >= 1
    <3>1. chain[n] \in Seq(Nat) /\ Len(chain[n]) \in Nat BY LenProperties DEF TypeOK
    <3>2. Len(chain[n]) # 0 BY <3>1, EmptySeq DEF Genesis
    <3> QED BY <3>1, <3>2, WorkIs
  <2>4. Work(chain[n]) <= Work(chain[p]) /\ Work(chain[n]) \in Nat /\ Work(chain[p]) \in Nat
    BY <2>1, BestFacts
  <2>5. Work(chain'[p]) \in Nat BY WorkIs DEF TypeOK
  <2>6. Work(chain'[p]) >= 1 BY <2>2, <2>3, <2>4, <2>5
  <2>7. Work(Genesis) = 0
    <3>1. Genesis \in Seq(Nat) /\ Len(Genesis) = 0 BY EmptySeq DEF Genesis
    <3>2. Shares(Genesis) = {} BY <3>1 DEF Shares
    <3>3. Cardinality(Shares(Genesis)) = 0 BY <3>2, FS_EmptySet
    <3>4. Work(Genesis) = Len(Genesis) + Cardinality(Shares(Genesis)) BY <3>1, WorkIs
    <3> QED BY <3>1, <3>3, <3>4
  <2>8. chain'[p] # Genesis BY <2>6, <2>7
  <2> QED BY <2>8
<1>5. Spec => []TypeOK BY NetworkTyped
<1> QED BY <1>1, <1>3, <1>4, <1>5, PTL DEF Spec, LighterYields, NoMutualWipe

=============================================================================
