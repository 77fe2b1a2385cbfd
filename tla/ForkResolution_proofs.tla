------------------------ MODULE ForkResolution_proofs ------------------------
(***************************************************************************)
(* What the search for the common ancestor concludes rests on majorities   *)
(* of answers, for any peers, windows, chains and lost answers.            *)
(***************************************************************************)
EXTENDS ForkResolution, SumTheorems

-----------------------------------------------------------------------------
(* Numbers. *)

LEMMA MiddleIsBetween ==
  ASSUME NEW a \in Int, NEW b \in Int, ~(b - a <= 1)
  PROVE  /\ (a + b) \div 2 \in Int
         /\ a < (a + b) \div 2 /\ (a + b) \div 2 < b
OBVIOUS

LEMMA SweepIsWithin ==
  ASSUME NEW n \in Nat, NEW i \in Nat, NEW d \in Nat \ {0}
  PROVE  n - (n * i) \div d \in Int /\ n - (n * i) \div d <= n
<1>1. n * i \in Nat OBVIOUS
<1> DEFINE m == n * i
<1>2. m \in Nat BY <1>1
<1> HIDE DEF m
<1>3. m \div d \in Nat BY <1>2
<1>4. n - m \div d \in Int /\ n - m \div d <= n BY <1>3
<1> QED BY <1>4 DEF m

\* Division rounds down.
LEMMA DivFacts ==
  ASSUME NEW x \in Nat, NEW d \in Nat \ {0}
  PROVE  /\ x \div d \in Nat
         /\ (x \div d) * d <= x /\ x < (x \div d + 1) * d
BY SMTT(30)

LEMMA TimesRises ==
  ASSUME NEW a \in Int, NEW b \in Int, NEW d \in Nat, a <= b
  PROVE  a * d <= b * d
<1>1. (b - a) * d >= 0 OBVIOUS
<1>2. (b - a) * d = b * d - a * d OBVIOUS
<1>3. a * d \in Int /\ b * d \in Int OBVIOUS
<1> QED BY <1>1, <1>2, <1>3

\* A quotient is below a number exactly if its dividend is below the product.
LEMMA QuotientBelow ==
  ASSUME NEW x \in Nat, NEW d \in Nat \ {0}, NEW k \in Int, x < k * d
  PROVE  x \div d < k
<1>1. PICK q \in Nat : q = x \div d /\ q * d <= x BY DivFacts
<1>2. k * d \in Int OBVIOUS
<1>3. k <= q => k * d <= q * d BY TimesRises
<1> QED BY <1>1, <1>2, <1>3

LEMMA QuotientAbove ==
  ASSUME NEW x \in Nat, NEW d \in Nat \ {0}, NEW k \in Int, x \div d < k
  PROVE  x < k * d
<1>1. PICK q \in Nat : q = x \div d /\ x < (q + 1) * d BY DivFacts
<1>2. (q + 1) * d <= k * d BY <1>1, TimesRises
<1>3. k * d \in Int /\ (q + 1) * d \in Int OBVIOUS
<1> QED BY <1>1, <1>2, <1>3

\* Of the heights the sweep divides a range of n into, one lies in every window
\* that is no narrower than a part of it.
LEMMA SweepMeets ==
  ASSUME NEW n \in Nat, NEW d \in Nat \ {0}, NEW g \in Nat, NEW h \in Nat,
         g > 0, h < n, n <= (h - g + 1) * d
  PROVE  \E i \in 1 .. d - 1 : g <= n - (n * i) \div d /\ n - (n * i) \div d <= h
<1> DEFINE T == {i \in Nat : n - (n * i) \div d <= h}
<1>1. \A i \in Nat : n * i \in Nat /\ (n * i) \div d \in Nat
  <2> TAKE i \in Nat
  <2>1. n * i \in Nat OBVIOUS
  <2> QED BY <2>1, DivFacts
<1>2. (n * d) \div d = n
  <2>1. PICK x \in Nat : x = n * d BY <1>1
  <2>2. x < (n + 1) * d /\ x >= n * d BY <2>1
  <2>3. x \div d < n + 1 BY <2>1, <2>2, QuotientBelow
  <2>4. x \div d \in Nat BY <2>1, DivFacts
  <2>5. ~(x \div d < n) BY <2>1, QuotientAbove
  <2> QED BY <2>1, <2>3, <2>4, <2>5
<1>3. d \in T BY <1>2
<1>4. PICK i \in T : \A j \in T : i <= j
  <2> HIDE DEF T
  <2>1. T \subseteq Nat BY DEF T
  <2> QED BY <1>3, <2>1, LeastNatural
<1>5. i \in Nat /\ i <= d /\ n - (n * i) \div d <= h BY <1>3, <1>4
<1>6. i # 0
  <2>1. n * 0 = 0 /\ 0 \div d < 1 BY QuotientBelow
  <2>2. 0 \div d \in Nat BY DivFacts
  <2> QED BY <1>5, <2>1, <2>2
<1>7. PICK j \in Nat : j = i - 1 BY <1>5, <1>6
<1>8. (n * j) \div d < n - h
  <2>1. j \notin T BY <1>4, <1>5, <1>7
  <2> QED BY <1>1, <2>1
<1>9. n * j < (n - h) * d BY <1>1, <1>8, QuotientAbove
<1>10. n * i < (n - g + 1) * d
  <2>1. n * i = n * j + n BY <1>5, <1>7
  <2>2. (n - g + 1) * d = (n - h) * d + (h - g + 1) * d OBVIOUS
  <2>3. (n - h) * d \in Int /\ (h - g + 1) * d \in Int /\ n * j \in Int OBVIOUS
  <2> QED BY <1>9, <2>1, <2>2, <2>3
<1>11. (n * i) \div d < n - g + 1 BY <1>1, <1>5, <1>10, QuotientBelow
<1>12. g <= n - (n * i) \div d BY <1>1, <1>5, <1>11
<1>13. i # d BY <1>2, <1>12
<1>14. i \in 1 .. d - 1 BY <1>5, <1>6, <1>13
<1> QED BY <1>5, <1>12, <1>14

\* A world has the types its description says.
LEMMA WorldFacts ==
  ASSUME TypeOK
  PROVE  /\ world.tip \in Nat /\ world.finalized \in Nat
         /\ world.finalized <= world.tip
         /\ \A p \in Peers : world.parts[p] \in Int /\ world.branch[p] # "ours"
BY WorldAssumption DEF TypeOK, IsWorld

\* What a probe can say of a height.
LEMMA AgreesFacts ==
  ASSUME NEW h
  PROVE  Agrees(h) \subseteq {"same", "other", NONE}
BY DEF Agrees

\* A majority for the node's own hash has a member that holds its block.
LEMMA AgreementHasHolder ==
  ASSUME TypeOK, NEW h \in Int, "same" \in Agrees(h)
  PROVE  \E p \in Holders(h) : world.parts[p] >= h
<1>1. NONE # "same" BY NoneAssumption
<1>2. "ours" \in MajorityHashes(h) BY <1>1 DEF Agrees
<1>3. PICK answering \in Answering(h) : "ours" \in Majority(h, answering)
  BY <1>2 DEF MajorityHashes
<1>4. PICK p \in answering : HashOf(p, h) = "ours" BY <1>3 DEF Majority
<1>5. p \in Holders(h) BY <1>4 DEF Answering
<1>6. p \in Peers BY <1>5 DEF Holders
<1>7. world.parts[p] \in Int /\ world.branch[p] # "ours" BY <1>6, WorldFacts
<1>8. h <= world.parts[p] BY <1>4, <1>7 DEF HashOf
<1> QED BY <1>5, <1>7, <1>8

-----------------------------------------------------------------------------
(* The invariant. *)

LEMMA InitHolds == Init => TypeOK /\ SearchInv
<1> SUFFICES ASSUME Init PROVE TypeOK /\ SearchInv OBVIOUS
<1>1. world.tip \in Nat BY WorldAssumption DEF Init, IsWorld
<1> QED BY <1>1, NumberAssumption DEF Init, TypeOK, SearchInv, Ranges, Bracketed, Judged

\* Answers depend on the world alone, and the world does not change.
LEMMA AgreesStays ==
  ASSUME UNCHANGED world, NEW h
  PROVE  Agrees(h)' = Agrees(h)
BY DEF Agrees, MajorityHashes, Unanswered, Majority, Answering, Holders, HashOf

LEMMA NextKeeps ==
  ASSUME TypeOK, SearchInv, [Next]_vars
  PROVE  TypeOK' /\ SearchInv'
<1> USE NumberAssumption, NoneAssumption
<1>0. UNCHANGED world
  BY DEF Next, vars, Keep, Stride, ProbeGenesis, SweepRange, NothingAnswerable,
         LowestAnswerable, RaiseFloor, ProbeTop, HighestAnswerable, LowerCeiling,
         ProbeLowest, Bisect, Resolve
<1>1. /\ world.tip \in Nat /\ world.finalized \in Nat /\ world.finalized <= world.tip
      /\ floor \in Int /\ ceiling \in Int /\ 0 <= floor /\ floor <= ceiling /\ ceiling <= world.tip
      /\ lo \in Int /\ hi \in Nat /\ step \in Nat
  BY WorldFacts DEF TypeOK
<1>2. \A h : Agrees(h) \subseteq {"same", "other", NONE} BY AgreesFacts
<1>3. CASE Stride
  <2>1. 2 * step \in Nat /\ world.tip - 2 * step \in Int /\ world.tip - 2 * step <= world.tip
    BY <1>1
  <2> QED BY <1>0, <1>1, <1>3, <2>1
          DEF Stride, TypeOK, SearchInv, Ranges, Bracketed, Judged, Keep, Goto
<1>4. CASE ProbeGenesis
  <2>1. TypeOK' BY <1>0, <1>1, <1>4 DEF ProbeGenesis, TypeOK, Keep, Goto
  <2>2. Ranges' BY <1>0, <1>1, <1>4 DEF ProbeGenesis, TypeOK, SearchInv, Ranges, Keep, Goto
  <2>3. Bracketed' BY <1>0, <1>1, <1>4 DEF ProbeGenesis, Bracketed, Keep, Goto
  <2>4. Judged' BY <1>0, <1>1, <1>4 DEF ProbeGenesis, Judged, Keep, Goto
  <2> QED BY <2>1, <2>2, <2>3, <2>4 DEF SearchInv
<1>5. CASE SweepRange
  <2>1. SweepHeight \in Int /\ SweepHeight <= world.tip BY <1>1, SweepIsWithin DEF SweepHeight
  <2> QED BY <1>0, <1>1, <1>5, <2>1
          DEF SweepRange, TypeOK, SearchInv, Ranges, Bracketed, Judged, Keep, Goto
<1>6. CASE NothingAnswerable
  BY <1>0, <1>1, <1>6
  DEF NothingAnswerable, TypeOK, SearchInv, Ranges, Bracketed, Judged, Keep, Goto, Found
<1>7. CASE LowestAnswerable
  BY <1>0, <1>1, <1>7
  DEF LowestAnswerable, TypeOK, SearchInv, Ranges, Bracketed, Judged, Keep, Goto, SearchOver
<1>8. CASE RaiseFloor
  <2>1. CASE Closed
    BY <1>0, <1>1, <1>8, <2>1
    DEF RaiseFloor, Closed, TypeOK, SearchInv, Ranges, Bracketed, Judged, Keep, Goto, SearchOver
  <2>2. CASE ~Closed
    <3>1. Middle \in Int /\ lo < Middle /\ Middle < hi BY <1>1, <2>2, MiddleIsBetween DEF Middle, Closed
    <3> QED BY <1>0, <1>1, <1>8, <2>2, <3>1
            DEF RaiseFloor, TypeOK, SearchInv, Ranges, Bracketed, Judged, Keep, Goto, SearchOver
  <2> QED BY <2>1, <2>2
<1>9. CASE ProbeTop
  <2>1. TypeOK' /\ Ranges'
    BY <1>0, <1>1, <1>9 DEF ProbeTop, TypeOK, SearchInv, Ranges, Keep, Goto, Found
  <2>2. Bracketed'
    BY <1>0, <1>1, <1>9, AgreesStays DEF ProbeTop, SearchInv, Bracketed, Keep, Goto, Found
  <2>3. Judged'
    BY <1>0, <1>1, <1>9, AgreesStays DEF ProbeTop, SearchInv, Judged, Explained, Keep, Goto, Found
  <2> QED BY <2>1, <2>2, <2>3 DEF SearchInv
<1>10. CASE HighestAnswerable
  BY <1>0, <1>1, <1>10
  DEF HighestAnswerable, TypeOK, SearchInv, Ranges, Bracketed, Judged, Keep, Goto, Found, SearchOver
<1>11. CASE LowerCeiling
  <2>1. CASE Closed
    BY <1>0, <1>1, <1>11, <2>1
    DEF LowerCeiling, Closed, TypeOK, SearchInv, Ranges, Bracketed, Judged, Keep, Goto, SearchOver
  <2>2. CASE ~Closed
    <3>1. Middle \in Int /\ lo < Middle /\ Middle < hi BY <1>1, <2>2, MiddleIsBetween DEF Middle, Closed
    <3> QED BY <1>0, <1>1, <1>11, <2>2, <3>1
            DEF LowerCeiling, TypeOK, SearchInv, Ranges, Bracketed, Judged, Keep, Goto, SearchOver
  <2> QED BY <2>1, <2>2
<1>12. CASE ProbeLowest
  <2>1. TypeOK' /\ Ranges'
    BY <1>0, <1>1, <1>12 DEF ProbeLowest, TypeOK, SearchInv, Ranges, Keep, Goto, Found, SearchOver
  <2>2. Bracketed'
    BY <1>0, <1>1, <1>12, AgreesStays
    DEF ProbeLowest, SearchInv, Bracketed, Keep, Goto, Found, SearchOver
  <2>3. Judged'
    BY <1>0, <1>1, <1>12, AgreesStays
    DEF ProbeLowest, SearchInv, Judged, Explained, Keep, Goto, Found, SearchOver
  <2> QED BY <2>1, <2>2, <2>3 DEF SearchInv
<1>13. CASE Bisect
  <2>1. CASE Closed
    <3>1. at = "bisect" BY <1>13 DEF Bisect
    <3>2. floor <= lo /\ lo <= hi /\ hi <= ceiling /\ (lo < hi \/ lo = ceiling) /\ "same" \in Agrees(lo) /\ "other" \in Agrees(hi)
      BY <3>1 DEF SearchInv, Ranges, Bracketed
    <3>3. ancestor' = lo /\ at' = "classify" /\ UNCHANGED <<world, lo, hi, step, floor, ceiling, state>>
      BY <1>13, <2>1 DEF Bisect, Keep, Found, Goto
    <3>4. TypeOK' /\ Ranges' /\ Bracketed'
      BY <1>0, <1>1, <3>1, <3>2, <3>3 DEF TypeOK, SearchInv, Ranges, Bracketed
    <3>5. Explained(lo)
      <4>1. lo = ceiling \/ (hi = lo + 1 /\ lo \in floor .. ceiling - 1)
        BY <1>1, <2>1, <3>2 DEF Closed
      <4> QED BY <3>2, <4>1 DEF Explained
    <3>6. Explained(lo)'
      BY <1>0, <3>3, <3>5, AgreesStays DEF Explained
    <3>7. Judged' BY <3>3, <3>6 DEF Judged
    <3> QED BY <3>4, <3>7 DEF SearchInv
  <2>2. CASE ~Closed
    <3>1. Middle \in Int /\ lo < Middle /\ Middle < hi BY <1>1, <2>2, MiddleIsBetween DEF Middle, Closed
    <3>2. at = "bisect" BY <1>13 DEF Bisect
    <3>3. floor <= lo /\ lo <= hi /\ hi <= ceiling /\ "same" \in Agrees(lo)
          /\ "other" \in Agrees(hi) /\ "other" \in Agrees(ceiling)
      BY <3>2 DEF SearchInv, Ranges, Bracketed
    <3>4. PICK a \in Agrees(Middle) :
            \/ a = NONE  /\ Found(NONE) /\ Keep(<<lo, hi>>)
            \/ a = "same" /\ SearchOver(Middle, hi) /\ Keep(<<at, ancestor>>)
            \/ a = "other" /\ SearchOver(lo, Middle) /\ Keep(<<at, ancestor>>)
      BY <1>13, <2>2 DEF Bisect
    <3>5. UNCHANGED <<world, step, floor, ceiling, state>> BY <1>13 DEF Bisect, Keep
    <3>6. TypeOK' BY <1>1, <3>1, <3>3, <3>4, <3>5 DEF TypeOK, Keep, Goto, Found, SearchOver
    <3>7. Ranges' BY <1>1, <3>1, <3>2, <3>3, <3>4, <3>5 DEF Ranges, Keep, Goto, Found, SearchOver
    <3>8. Bracketed'
      BY <3>2, <3>3, <3>4, <3>5, AgreesStays DEF Bracketed, Keep, Goto, Found, SearchOver
    <3>9. Judged' BY <3>2, <3>4, <3>5 DEF Judged, Keep, Goto, Found, SearchOver
    <3> QED BY <3>6, <3>7, <3>8, <3>9 DEF SearchInv
  <2> QED BY <2>1, <2>2
<1>14. CASE Resolve
  <2>1. at = "classify" /\ at' = "done" /\ UNCHANGED <<world, lo, hi, step, floor, ceiling>>
    BY <1>14 DEF Resolve, Keep, Goto
  <2>2. Ranges' /\ Bracketed' BY <2>1 DEF Ranges, Bracketed
  <2>3. CASE ancestor' = ancestor /\ state' = Classify(ancestor)
    <3>1. ancestor = NONE \/ Explained(ancestor) BY <2>1 DEF SearchInv, Judged
    <3>2. Explained(ancestor) => Explained(ancestor)'
      BY <2>1, <2>3, AgreesStays DEF Explained
    <3>3. Classify(ancestor)' = Classify(ancestor) BY <2>1, <2>3 DEF Classify
    <3>4. Classify(ancestor) \in {"unknown", "behind", "reorg", "dead_fork"}
      BY DEF Classify
    <3>5. ancestor = NONE => Classify(ancestor) = "unknown" BY DEF Classify
    <3>6. TypeOK' BY <2>1, <2>3, <3>4 DEF TypeOK
    <3>7. Judged' BY <2>1, <2>3, <3>1, <3>2, <3>3, <3>5 DEF Judged
    <3> QED BY <2>2, <3>6, <3>7 DEF SearchInv
  <2>4. CASE /\ ancestor = NONE /\ world.finalized > 0 /\ "other" \in Agrees(world.finalized)
             /\ state' = "dead_fork" /\ ancestor' = world.finalized - 1
    <3>2. ("other" \in Agrees(world.finalized))' BY <2>1, <2>4, AgreesStays
    <3>3. TypeOK' BY <1>1, <2>1, <2>4 DEF TypeOK
    <3>4. Judged' BY <2>1, <2>4, <3>2 DEF Judged
    <3> QED BY <2>2, <3>3, <3>4 DEF SearchInv
  <2>5. CASE ancestor = NONE /\ state' = "unknown" /\ ancestor' = ancestor
    <3>1. TypeOK' BY <2>1, <2>5 DEF TypeOK
    <3>2. Judged' BY <2>1, <2>5 DEF Judged
    <3> QED BY <2>2, <3>1, <3>2 DEF SearchInv
  <2> QED BY <1>14, <2>3, <2>4, <2>5 DEF Resolve, Keep
<1>15. CASE UNCHANGED vars
  BY <1>0, <1>15, AgreesStays
  DEF vars, TypeOK, SearchInv, Ranges, Bracketed, Judged, Explained, Classify
<1> QED BY <1>3, <1>4, <1>5, <1>6, <1>7, <1>8, <1>9, <1>10, <1>11, <1>12, <1>13, <1>14, <1>15 DEF Next

\* Every variable keeps its type.
THEOREM SearchTypeCorrect == Spec => []TypeOK
<1>1. Init => TypeOK /\ SearchInv BY InitHolds
<1>2. TypeOK /\ SearchInv /\ [Next]_vars => (TypeOK /\ SearchInv)' BY NextKeeps
<1> QED BY <1>1, <1>2, PTL DEF Spec

\* The search stays in its range, and its conclusions rest on answers.
THEOREM SearchInvariant == Spec => []SearchInv
<1>1. Init => TypeOK /\ SearchInv BY InitHolds
<1>2. TypeOK /\ SearchInv /\ [Next]_vars => (TypeOK /\ SearchInv)' BY NextKeeps
<1> QED BY <1>1, <1>2, PTL DEF Spec

\* The block a node is told to sync from or roll back to is held by a peer.
THEOREM AncestorAlwaysShared == Spec => []AncestorIsShared
<1>1. TypeOK /\ SearchInv => AncestorIsShared
  <2> SUFFICES ASSUME TypeOK, SearchInv, Verdict("behind") \/ Verdict("reorg")
               PROVE  /\ ancestor \in 0 .. world.tip
                      /\ \E p \in Holders(ancestor) : world.parts[p] >= ancestor
    BY DEF AncestorIsShared
  <2>1. ancestor # NONE /\ Explained(ancestor) /\ state = Classify(ancestor)
    BY DEF Verdict, SearchInv, Judged
  <2>2. world.tip \in Nat /\ world.finalized \in Nat BY WorldFacts
  <2>3. ancestor \in -1 .. world.tip BY <2>1 DEF TypeOK
  <2>4. ancestor # -1 BY <2>1, <2>2, NoneAssumption DEF Verdict, Classify
  <2>5. "same" \in Agrees(ancestor) BY <2>1, <2>4 DEF Explained
  <2>6. \E p \in Holders(ancestor) : world.parts[p] >= ancestor
    BY <2>3, <2>5, AgreementHasHolder
  <2> QED BY <2>2, <2>3, <2>4, <2>6
<1> QED BY <1>1, SearchTypeCorrect, SearchInvariant, PTL

\* A dead fork is never concluded while the heights above the floor could be
\* answered and nobody named another block at or below it.
THEOREM DeadForkAlwaysWitnessed == Spec => []DeadForkHasWitness
<1>1. TypeOK /\ SearchInv => DeadForkHasWitness
  <2> SUFFICES ASSUME TypeOK, SearchInv, Verdict("dead_fork"), ~(ceiling < world.finalized)
               PROVE  \E h \in 0 .. world.finalized : "other" \in Agrees(h)
    BY DEF DeadForkHasWitness
  <2>1. world.tip \in Nat /\ world.finalized \in Nat /\ world.finalized <= world.tip BY WorldFacts
  <2>2. CASE "other" \in Agrees(world.finalized) BY <2>1, <2>2
  <2>3. CASE ancestor # NONE /\ Explained(ancestor) /\ state = Classify(ancestor)
    <3>1. ancestor \in -1 .. world.tip BY <2>3 DEF TypeOK
    <3>2. ancestor < world.finalized BY <2>1, <2>3, <3>1, NoneAssumption DEF Verdict, Classify
    <3>3. ceiling \in Int /\ floor \in Nat BY <2>1 DEF TypeOK
    <3> QED BY <2>1, <2>3, <3>1, <3>2, <3>3 DEF Explained
  <2> QED BY <2>2, <2>3 DEF Verdict, SearchInv, Judged
<1> QED BY <1>1, SearchTypeCorrect, SearchInvariant, PTL

-----------------------------------------------------------------------------
(* Where the search ends if nothing is lost and there is one chain. *)

Clear ==
  ~world.lossy /\ OneChain /\ Contiguous /\ WideEnough /\ Agreed # {}

\* Each stage keeps the edge of the answerable window, or of the agreement,
\* that it looks for inside its interval.
Located ==
  /\ at = "stride" => lo = world.tip \/ world.tip \notin Answerable
  /\ at = "sweep" =>
       /\ step > 0 /\ 0 \notin Answerable /\ world.tip \notin Answerable
       /\ \A i \in 1 .. step - 1 :
            world.tip - (world.tip * i) \div Sweep \notin Answerable
  /\ at = "floor" => lo \in Answerable
  /\ at = "raise" => lo \notin Answerable /\ hi \in Answerable
  /\ at \in {"top", "ahead", "lower", "lowered", "lowest", "bisect"} =>
       floor \in Answerable /\ \A g \in Answerable : floor <= g
  /\ at = "ahead" => world.tip \notin Answerable
  /\ at = "lower" => lo \in Answerable /\ hi \notin Answerable
  /\ at = "lowered" => ceiling \in Answerable /\ \A g \in Answerable : g <= ceiling
  /\ at \in {"lowest", "bisect"} => ceiling \in Answerable /\ ceiling \notin Agreed
  /\ at = "bisect" => lo \in Agreed /\ hi \in Answerable /\ hi \notin Agreed
  /\ at \in {"classify", "done"} => ancestor \in Agreed /\ \A g \in Agreed : g <= ancestor
  /\ at = "done" => state = Classify(ancestor)

LEMMA HoldersAreFinite ==
  ASSUME NEW h
  PROVE  IsFiniteSet(Holders(h)) /\ Cardinality(Holders(h)) \in Nat
<1>1. Holders(h) \subseteq Peers BY DEF Holders
<1>2. IsFiniteSet(Holders(h)) BY <1>1, PeersAssumption, FS_Subset
<1> QED BY <1>2, FS_CardinalityType

\* Nobody is lost, so that all who hold a height say the same of it.
LEMMA ClearAnswers ==
  ASSUME TypeOK, Clear, NEW h \in 0 .. world.tip
  PROVE  /\ h \notin Answerable => Agrees(h) = {NONE}
         /\ h \in Agreed => Agrees(h) = {"same"}
         /\ h \in Answerable /\ h \notin Agreed => Agrees(h) = {"other"}
<1> DEFINE H == Holders(h)
<1>1. Answering(h) = {H} BY DEF Clear, Answering
<1>2. MajorityHashes(h) = Majority(h, H) /\ (Unanswered(h) <=> Majority(h, H) = {})
  BY <1>1 DEF MajorityHashes, Unanswered
<1>3. Cardinality(H) \in Nat /\ MinAnswers \in Nat \ {0} BY HoldersAreFinite, NumberAssumption
<1>4. h \in Answerable <=> Cardinality(H) >= MinAnswers BY DEF Answerable
<1>5. ASSUME h \notin Answerable PROVE Agrees(h) = {NONE}
  <2>1. Majority(h, H) = {} BY <1>4, <1>5 DEF Majority
  <2> QED BY <1>2, <2>1 DEF Agrees
<1>6. ASSUME h \in Answerable, NEW x, \A p \in H : HashOf(p, h) = x
      PROVE  Agrees(h) = {IF x = "ours" THEN "same" ELSE "other"}
  <2>1. Cardinality(H) >= MinAnswers BY <1>4, <1>6
  <2>2. H # {}
    <3>1. Cardinality(H) # 0 BY <1>3, <2>1
    <3> QED BY <3>1, FS_EmptySet
  <2>3. {HashOf(p, h) : p \in H} = {x} BY <1>6, <2>2
  <2>4. {p \in H : HashOf(p, h) = x} = H BY <1>6
  <2>5. 2 * Cardinality(H) > Cardinality(H) BY <1>3, <2>1
  <2>6. Majority(h, H) = {x} BY <2>1, <2>3, <2>4, <2>5 DEF Majority
  <2> QED BY <1>2, <2>6 DEF Agrees
<1>7. \A p \in H : p \in Peers BY DEF Holders
<1>8. ASSUME h \in Agreed PROVE Agrees(h) = {"same"}
  <2>1. h \in Answerable /\ \A p \in H : world.parts[p] >= h BY <1>8 DEF Agreed
  <2>2. \A p \in H : HashOf(p, h) = "ours" BY <1>7, <2>1, WorldFacts DEF HashOf
  <2> QED BY <1>6, <2>1, <2>2
<1>9. ASSUME h \in Answerable, h \notin Agreed PROVE Agrees(h) = {"other"}
  <2>1. PICK q \in H : ~(world.parts[q] >= h) BY <1>9 DEF Agreed
  <2>2. \A p \in Peers : world.parts[p] = world.parts[q] /\ world.branch[p] = world.branch[q]
    BY <1>7, <2>1 DEF Clear, OneChain
  <2>3. world.parts[q] \in Int /\ world.branch[q] # "ours" BY <1>7, <2>1, WorldFacts
  <2>4. \A p \in H : HashOf(p, h) = world.branch[q] BY <1>7, <2>1, <2>2, <2>3 DEF HashOf
  <2> QED BY <1>6, <1>9, <2>3, <2>4
<1> QED BY <1>5, <1>8, <1>9

\* Where the two chains agree they agree below.
LEMMA AgreedBelow ==
  ASSUME TypeOK, Clear, NEW g \in Answerable, NEW h \in Agreed, g <= h
  PROVE  g \in Agreed
<1>1. g \in Nat /\ h \in Nat /\ h \in Answerable BY WorldFacts DEF Answerable, Agreed
<1>2. Cardinality(Holders(h)) \in Nat /\ Cardinality(Holders(h)) # 0
  BY <1>1, HoldersAreFinite, NumberAssumption DEF Answerable
<1>3. PICK q \in Holders(h) : TRUE BY <1>2, FS_EmptySet
<1>4. world.parts[q] >= h BY <1>3 DEF Agreed
<1>5. q \in Peers /\ \A p \in Holders(g) : p \in Peers BY <1>3 DEF Holders
<1>6. \A p \in Holders(g) : world.parts[p] = world.parts[q] BY <1>5 DEF Clear, OneChain
<1>7. world.parts[q] \in Int BY <1>5, WorldFacts
<1>8. \A p \in Holders(g) : world.parts[p] >= g BY <1>1, <1>4, <1>6, <1>7
<1> QED BY <1>8 DEF Agreed

LEMMA SweepDescends ==
  ASSUME NEW n \in Nat, NEW i \in Nat, NEW j \in Nat, NEW d \in Nat \ {0}, j <= i
  PROVE  n - (n * i) \div d <= n - (n * j) \div d
<1>1. PICK x \in Nat : x = n * i OBVIOUS
<1>2. PICK y \in Nat : y = n * j OBVIOUS
<1>3. y <= x
  <2>1. j * n <= i * n BY TimesRises
  <2> QED BY <1>1, <1>2, <2>1
<1>4. PICK q \in Nat : q = y \div d /\ q * d <= y BY DivFacts
<1>5. ~(x \div d < q)
  <2> SUFFICES ASSUME x \div d < q PROVE FALSE OBVIOUS
  <2>1. x < q * d BY QuotientAbove
  <2>2. q * d \in Int OBVIOUS
  <2> QED BY <1>3, <1>4, <2>1, <2>2
<1>6. x \div d \in Nat BY DivFacts
<1> QED BY <1>1, <1>2, <1>4, <1>5, <1>6

\* The sweep hits the window, or the tip or genesis is in it.
LEMMA SweepFinds ==
  ASSUME TypeOK, Clear, 0 \notin Answerable, world.tip \notin Answerable
  PROVE  \E i \in 1 .. Sweep - 1 :
           world.tip - (world.tip * i) \div Sweep \in Answerable
<1>1. PICK g, h \in Answerable : world.tip <= (h - g + 1) * Sweep BY DEF Clear, WideEnough
<1>2. PICK n \in Nat : n = world.tip BY WorldFacts
<1>3. g \in 0 .. n /\ h \in 0 .. n BY <1>2 DEF Answerable
<1>4. PICK d \in Nat \ {0} : d = Sweep BY NumberAssumption
<1>5. g > 0 /\ h > 0 /\ h < n BY <1>2, <1>3
<1>6. g <= h
  <2> SUFFICES ASSUME h - g + 1 <= 0 PROVE FALSE BY <1>3
  <2>1. (h - g + 1) * d <= 0 * d BY <1>3, TimesRises
  <2>2. n <= (h - g + 1) * d BY <1>1, <1>2, <1>4
  <2>3. (h - g + 1) * d \in Int BY <1>3
  <2> QED BY <1>3, <1>5, <2>1, <2>2, <2>3
<1>7. PICK i \in 1 .. d - 1 : g <= n - (n * i) \div d /\ n - (n * i) \div d <= h
  <2>1. g \in Nat /\ h \in Nat /\ n <= (h - g + 1) * d BY <1>1, <1>2, <1>3, <1>4
  <2> QED BY <1>5, <2>1, SweepMeets
<1>8. n - (n * i) \div d \in Int BY SweepIsWithin
<1>9. n - (n * i) \div d \in g .. h BY <1>3, <1>7, <1>8
<1>10. g .. h \subseteq Answerable BY DEF Clear, Contiguous
<1> QED BY <1>2, <1>4, <1>7, <1>9, <1>10

\* A height of the range, and what is answered there.
LEMMA ProbeSays ==
  ASSUME TypeOK, Clear, NEW h \in 0 .. world.tip, NEW a \in Agrees(h)
  PROVE  /\ a = NONE <=> h \notin Answerable
         /\ a = "same" <=> h \in Agreed
         /\ a = "other" <=> h \in Answerable /\ h \notin Agreed
<1>1. NONE # "same" /\ NONE # "other" BY NoneAssumption
<1>2. h \in Agreed => h \in Answerable BY DEF Agreed
<1> QED BY <1>1, <1>2, ClearAnswers

LEMMA WorldStays ==
  ASSUME UNCHANGED world
  PROVE  Answerable' = Answerable /\ Agreed' = Agreed /\ (Clear' <=> Clear)
<1>1. Answerable' = Answerable /\ Agreed' = Agreed BY DEF Answerable, Agreed, Holders
<1> QED BY <1>1 DEF Clear, OneChain, Contiguous, WideEnough

LEMMA LocatedInit == Init => Located
BY DEF Init, Located

LEMMA LocatedNext ==
  ASSUME TypeOK, SearchInv, Clear => Located, [Next]_vars
  PROVE  Clear' => Located'
<1>0. UNCHANGED world
  BY DEF Next, vars, Keep, Stride, ProbeGenesis, SweepRange, NothingAnswerable,
         LowestAnswerable, RaiseFloor, ProbeTop, HighestAnswerable, LowerCeiling,
         ProbeLowest, Bisect, Resolve
<1> SUFFICES ASSUME Clear, Located PROVE Located' BY <1>0, WorldStays
<1>2. Answerable' = Answerable /\ Agreed' = Agreed BY <1>0, WorldStays
<1>3. /\ world.tip \in Nat /\ NONE \notin Int
      /\ floor \in Nat /\ ceiling \in Nat /\ floor <= ceiling /\ ceiling <= world.tip
      /\ lo \in Int /\ hi \in Nat /\ step \in Nat
  BY WorldFacts, NumberAssumption DEF TypeOK
<1>4. Agreed \subseteq Answerable /\ Answerable \subseteq 0 .. world.tip
  BY DEF Agreed, Answerable
<1>5. \A g, h \in Answerable : \A m \in Nat : g <= m /\ m <= h => m \in Answerable
  BY <1>3, <1>4 DEF Clear, Contiguous
<1>6. \A g \in Answerable, h \in Agreed : g <= h => g \in Agreed BY AgreedBelow
<1>7. CASE Stride
  <2>1. at = "stride" /\ lo > 0 /\ lo <= world.tip BY <1>7 DEF Stride, SearchInv, Ranges
  <2>2. PICK a \in Agrees(lo) :
          IF a # NONE THEN Goto("floor") /\ Keep(<<lo, step>>)
                      ELSE step' = 2 * step /\ lo' = world.tip - 2 * step /\ Keep(at)
    BY <1>7 DEF Stride
  <2>3. a = NONE <=> lo \notin Answerable BY <1>3, <2>1, ProbeSays
  <2> QED BY <1>0, <1>2, <2>1, <2>2, <2>3 DEF Located, Keep, Goto
<1>8. CASE ProbeGenesis
  <2>1. at = "stride" /\ lo <= 0 BY <1>8 DEF ProbeGenesis
  <2>2. PICK a \in Agrees(0) :
          IF a # NONE THEN lo' = 0 /\ Goto("floor") /\ Keep(step)
                      ELSE step' = 1 /\ Goto("sweep") /\ Keep(lo)
    BY <1>8 DEF ProbeGenesis
  <2>3. a = NONE <=> 0 \notin Answerable BY <1>3, ProbeSays
  <2>4. a = NONE => world.tip \notin Answerable BY <1>3, <2>1, <2>3 DEF Located
  <2> QED BY <1>0, <1>2, <2>2, <2>3, <2>4 DEF Located, Keep, Goto
<1>9. CASE SweepRange
  <2>1. at = "sweep" /\ SweepHeight \in 0 .. world.tip
    <3>1. SweepHeight \in Int /\ SweepHeight <= world.tip
      BY <1>3, NumberAssumption, SweepIsWithin DEF SweepHeight
    <3> QED BY <1>3, <1>9, <3>1 DEF SweepRange
  <2>2. PICK a \in Agrees(SweepHeight) :
          IF a # NONE THEN lo' = SweepHeight /\ Goto("floor") /\ Keep(step)
                      ELSE step' = step + 1 /\ Keep(<<lo, at>>)
    BY <1>9 DEF SweepRange
  <2>3. a = NONE <=> SweepHeight \notin Answerable BY <2>1, ProbeSays
  <2>4. CASE a # NONE BY <1>2, <2>2, <2>3, <2>4 DEF Located, Keep, Goto
  <2>5. CASE a = NONE
    <3>1. world.tip - (world.tip * step) \div Sweep \notin Answerable
      BY <2>3, <2>5 DEF SweepHeight
    <3>2. \A i \in 1 .. step' - 1 : world.tip - (world.tip * i) \div Sweep \notin Answerable
      <4> TAKE i \in 1 .. step' - 1
      <4>1. i \in 1 .. step - 1 \/ i = step BY <1>3, <2>2, <2>5
      <4> QED BY <2>1, <3>1, <4>1 DEF Located
    <3>3. step' > 0 BY <1>3, <2>2, <2>5
    <3> QED BY <1>0, <1>2, <2>1, <2>2, <2>5, <3>2, <3>3 DEF Located, Keep
  <2> QED BY <2>4, <2>5
<1>10. CASE NothingAnswerable
  <2>1. at = "sweep" /\ (step >= Sweep \/ SweepHeight <= 0) BY <1>10 DEF NothingAnswerable
  <2>2. 0 \notin Answerable /\ world.tip \notin Answerable /\ step > 0
    BY <2>1 DEF Located
  <2>3. PICK i \in 1 .. Sweep - 1 :
          world.tip - (world.tip * i) \div Sweep \in Answerable
    BY <2>2, SweepFinds
  <2>4. ~(i < step) BY <1>3, <2>1, <2>3, NumberAssumption DEF Located
  <2>5. i \in Nat /\ i < Sweep /\ Sweep \in Nat \ {0} BY <2>3, NumberAssumption
  <2>6. world.tip - (world.tip * step) \div Sweep <= 0
    BY <1>3, <2>1, <2>4, <2>5 DEF SweepHeight
  <2>7. world.tip - (world.tip * i) \div Sweep <= world.tip - (world.tip * step) \div Sweep
    BY <1>3, <2>4, <2>5, SweepDescends
  <2>8. world.tip - (world.tip * i) \div Sweep \in 0 .. world.tip BY <1>4, <2>3
  <2>9. world.tip - (world.tip * step) \div Sweep \in Int BY <1>3, <2>5, SweepIsWithin
  <2> QED BY <2>2, <2>3, <2>6, <2>7, <2>8, <2>9
<1>11. CASE LowestAnswerable
  <2>1. at = "floor" /\ lo \in Answerable BY <1>11 DEF LowestAnswerable, Located
  <2>2. PICK a \in Agrees(0) :
          IF a # NONE THEN floor' = 0 /\ Goto("top") /\ Keep(<<lo, hi>>)
                      ELSE SearchOver(0, lo) /\ Goto("raise") /\ Keep(floor)
    BY <1>11 DEF LowestAnswerable
  <2>3. a = NONE <=> 0 \notin Answerable BY <1>3, ProbeSays
  <2>4. \A g \in Answerable : 0 <= g BY <1>4
  <2> QED BY <1>2, <2>1, <2>2, <2>3, <2>4 DEF Located, Keep, Goto, SearchOver
<1>12. CASE RaiseFloor
  <2>1. /\ at = "raise" /\ 0 <= lo /\ lo <= hi /\ hi <= world.tip
        /\ lo \notin Answerable /\ hi \in Answerable
    BY <1>12 DEF RaiseFloor, SearchInv, Ranges, Located
  <2>2. CASE Closed
    <3>1. hi = lo + 1 BY <1>3, <2>1, <2>2 DEF Closed
    <3>2. \A g \in Answerable : hi <= g
      <4> SUFFICES ASSUME NEW g \in Answerable, g < hi PROVE FALSE BY <1>3, <1>4
      <4>1. g <= lo /\ lo <= hi /\ lo \in Nat BY <1>3, <1>4, <2>1, <3>1
      <4> QED BY <1>5, <2>1, <4>1
    <3>3. floor' = hi /\ at' = "top" BY <1>12, <2>2 DEF RaiseFloor, Goto
    <3> QED BY <1>2, <2>1, <3>2, <3>3 DEF Located
  <2>3. CASE ~Closed
    <3>1. Middle \in 0 .. world.tip
      BY <1>3, <2>1, <2>3, MiddleIsBetween DEF Middle, Closed
    <3>2. PICK a \in Agrees(Middle) :
            IF a = NONE THEN SearchOver(Middle, hi) ELSE SearchOver(lo, Middle)
      BY <1>12, <2>3 DEF RaiseFloor
    <3>3. a = NONE <=> Middle \notin Answerable BY <3>1, ProbeSays
    <3>4. at' = "raise" BY <1>12, <2>1, <2>3 DEF RaiseFloor, Keep
    <3> QED BY <1>2, <2>1, <3>2, <3>3, <3>4 DEF Located, SearchOver
  <2> QED BY <2>2, <2>3
<1>13. CASE ProbeTop
  <2>1. /\ at \in {"top", "lowered"} /\ UNCHANGED <<world, lo, hi, step, floor, ceiling, state>>
        /\ floor \in Answerable /\ \A g \in Answerable : floor <= g
    BY <1>13 DEF ProbeTop, Located, Keep
  <2>2. PICK a \in Agrees(ceiling) :
          \/ a = "same" /\ Found(ceiling)
          \/ a = "other" /\ Goto("lowest") /\ Keep(ancestor)
          \/ a = NONE  /\ at = "top"     /\ Goto("ahead") /\ Keep(ancestor)
          \/ a = NONE  /\ at = "lowered" /\ Found(NONE)
    BY <1>13 DEF ProbeTop
  <2>3. /\ a = NONE <=> ceiling \notin Answerable
        /\ a = "same" <=> ceiling \in Agreed
        /\ a = "other" <=> ceiling \in Answerable /\ ceiling \notin Agreed
    BY <1>3, ProbeSays
  <2>4. at = "top" => ceiling = world.tip BY DEF SearchInv, Ranges
  <2>5. \A g \in Agreed : g <= ceiling BY <1>3, <1>4, <2>1, <2>4 DEF Located
  <2>6. CASE a = "same" BY <1>2, <2>1, <2>2, <2>3, <2>5, <2>6, NoneAssumption
                        DEF Located, Found, Goto
  <2>7. CASE a = "other" BY <1>2, <2>1, <2>2, <2>3, <2>7, NoneAssumption DEF Located, Goto
  <2>8. CASE a = NONE
    <3>1. at = "top" BY <2>1, <2>3, <2>8 DEF Located
    <3>2. at' = "ahead" BY <2>2, <2>8, <3>1, NoneAssumption DEF Goto
    <3> QED BY <1>2, <2>1, <2>3, <2>4, <2>8, <3>1, <3>2 DEF Located
  <2> QED BY <2>2, <2>6, <2>7, <2>8
<1>14. CASE HighestAnswerable
  <2>1. /\ at = "ahead" /\ UNCHANGED <<world, step, floor, ceiling, state>>
        /\ floor \in Answerable /\ (\A g \in Answerable : floor <= g)
        /\ world.tip \notin Answerable /\ ceiling = world.tip
    BY <1>14 DEF HighestAnswerable, Located, Keep, SearchInv, Ranges
  <2>2. PICK a \in Agrees(floor) :
          IF a = NONE THEN Found(NONE) /\ Keep(<<lo, hi>>)
                      ELSE SearchOver(floor, ceiling) /\ Goto("lower") /\ Keep(ancestor)
    BY <1>14 DEF HighestAnswerable
  <2>3. floor \in 0 .. world.tip BY <1>3
  <2>4. a # NONE BY <2>1, <2>3, ProbeSays
  <2>5. lo' = floor /\ hi' = ceiling /\ at' = "lower" BY <2>2, <2>4 DEF SearchOver, Goto
  <2> QED BY <1>2, <2>1, <2>5 DEF Located
<1>15. CASE LowerCeiling
  <2>1. /\ at = "lower" /\ UNCHANGED <<world, step, floor, ancestor, state>>
        /\ floor \in Answerable /\ (\A g \in Answerable : floor <= g)
        /\ lo \in Answerable /\ hi \notin Answerable
        /\ lo <= hi /\ hi <= ceiling
    BY <1>15 DEF LowerCeiling, Located, Keep, SearchInv, Ranges
  <2>2. lo \in Nat BY <1>4, <2>1
  <2>3. CASE Closed
    <3>1. hi = lo + 1 BY <1>3, <2>1, <2>3 DEF Closed
    <3>2. \A g \in Answerable : g <= lo
      <4> SUFFICES ASSUME NEW g \in Answerable, g > lo PROVE FALSE BY <1>3, <1>4
      <4>1. lo <= hi /\ hi <= g BY <1>3, <1>4, <2>1, <3>1
      <4> QED BY <1>3, <1>5, <2>1, <4>1
    <3>3. ceiling' = lo /\ at' = "lowered" BY <1>15, <2>3 DEF LowerCeiling, Goto
    <3> QED BY <1>2, <2>1, <3>2, <3>3 DEF Located
  <2>4. CASE ~Closed
    <3>1. Middle \in 0 .. world.tip
      BY <1>3, <2>1, <2>2, <2>4, MiddleIsBetween DEF Middle, Closed
    <3>2. PICK a \in Agrees(Middle) :
            IF a = NONE THEN SearchOver(lo, Middle) ELSE SearchOver(Middle, hi)
      BY <1>15, <2>4 DEF LowerCeiling
    <3>3. a = NONE <=> Middle \notin Answerable BY <3>1, ProbeSays
    <3>4. at' = "lower" BY <1>15, <2>1, <2>4 DEF LowerCeiling, Keep
    <3> QED BY <1>2, <2>1, <3>2, <3>3, <3>4 DEF Located, SearchOver
  <2> QED BY <2>3, <2>4
<1>16. CASE ProbeLowest
  <2>1. /\ at = "lowest" /\ UNCHANGED <<world, step, floor, ceiling, state>>
        /\ floor \in Answerable /\ (\A g \in Answerable : floor <= g)
        /\ ceiling \in Answerable /\ ceiling \notin Agreed
    BY <1>16 DEF ProbeLowest, Located, Keep
  <2>2. PICK a \in Agrees(floor) :
          \/ a = NONE  /\ Found(NONE) /\ Keep(<<lo, hi>>)
          \/ a = "other" /\ Found(IF floor > 0 THEN NONE ELSE floor - 1) /\ Keep(<<lo, hi>>)
          \/ a = "same" /\ SearchOver(floor, ceiling) /\ Goto("bisect") /\ Keep(ancestor)
    BY <1>16 DEF ProbeLowest
  <2>3. floor \in Agreed
    <3>1. PICK h \in Agreed : TRUE BY DEF Clear
    <3> QED BY <1>4, <1>6, <2>1, <3>1
  <2>4. floor \in 0 .. world.tip BY <1>3
  <2>5. a = "same" BY <2>3, <2>4, ProbeSays
  <2>6. lo' = floor /\ hi' = ceiling /\ at' = "bisect"
    BY <2>2, <2>5, NoneAssumption DEF SearchOver, Goto
  <2> QED BY <1>2, <2>1, <2>3, <2>6 DEF Located
<1>17. CASE Bisect
  <2>1. /\ at = "bisect" /\ UNCHANGED <<world, step, floor, ceiling, state>>
        /\ floor \in Answerable /\ (\A g \in Answerable : floor <= g)
        /\ ceiling \in Answerable /\ ceiling \notin Agreed
        /\ lo \in Agreed /\ hi \in Answerable /\ hi \notin Agreed
        /\ lo <= hi
    BY <1>17 DEF Bisect, Located, Keep, SearchInv, Ranges
  <2>2. lo \in Nat /\ lo \in Answerable /\ hi <= world.tip BY <1>4, <2>1
  <2>3. CASE Closed
    <3>1. hi = lo + 1 BY <1>3, <2>1, <2>3 DEF Closed
    <3>2. \A g \in Agreed : g <= lo
      <4> SUFFICES ASSUME NEW g \in Agreed, g > lo PROVE FALSE BY <1>3, <1>4
      <4>1. hi <= g BY <1>3, <1>4, <3>1
      <4> QED BY <1>6, <2>1, <4>1
    <3>3. ancestor' = lo /\ at' = "classify" BY <1>17, <2>3 DEF Bisect, Found, Goto
    <3> QED BY <1>2, <2>1, <3>2, <3>3 DEF Located
  <2>4. CASE ~Closed
    <3>1. Middle \in 0 .. world.tip /\ lo <= Middle /\ Middle <= hi
      BY <1>3, <2>2, <2>4, MiddleIsBetween DEF Middle, Closed
    <3>2. PICK a \in Agrees(Middle) :
            \/ a = NONE  /\ Found(NONE) /\ Keep(<<lo, hi>>)
            \/ a = "same" /\ SearchOver(Middle, hi) /\ Keep(<<at, ancestor>>)
            \/ a = "other" /\ SearchOver(lo, Middle) /\ Keep(<<at, ancestor>>)
      BY <1>17, <2>4 DEF Bisect
    <3>3. Middle \in Answerable BY <1>5, <2>1, <2>2, <3>1
    <3>4. /\ a # NONE
          /\ a = "same" <=> Middle \in Agreed
          /\ a = "other" <=> Middle \notin Agreed
      BY <3>1, <3>3, ProbeSays
    <3>5. at' = "bisect" BY <2>1, <3>2, <3>4 DEF Keep
    <3> QED BY <1>2, <2>1, <3>2, <3>3, <3>4, <3>5 DEF Located, SearchOver
  <2> QED BY <2>3, <2>4
<1>18. CASE Resolve
  <2>1. /\ at = "classify" /\ at' = "done" /\ UNCHANGED <<world, lo, hi, step, floor, ceiling>>
        /\ ancestor \in Agreed /\ \A g \in Agreed : g <= ancestor
    BY <1>18 DEF Resolve, Located, Keep, Goto
  <2>2. ancestor # NONE BY <1>3, <1>4, <2>1
  <2>3. ancestor' = ancestor /\ state' = Classify(ancestor) BY <1>18, <2>2 DEF Resolve, Keep
  <2>4. Classify(ancestor)' = Classify(ancestor) BY <2>1, <2>3 DEF Classify
  <2> QED BY <1>2, <2>1, <2>3, <2>4 DEF Located
<1>19. CASE UNCHANGED vars
  <2>1. UNCHANGED <<at, lo, hi, step, floor, ceiling, ancestor, state>> BY <1>19 DEF vars
  <2>2. Classify(ancestor)' = Classify(ancestor) BY <1>0, <2>1 DEF Classify
  <2> QED BY <1>0, <1>2, <2>1, <2>2 DEF Located
<1> QED BY <1>7, <1>8, <1>9, <1>10, <1>11, <1>12, <1>13, <1>14, <1>15, <1>16, <1>17, <1>18,
           <1>19 DEF Next

\* Without lost answers, against one chain, the search keeps what it looks for
\* between its bounds.
THEOREM SearchLocates == Spec => [](Clear => Located)
<1>1. Init => (Clear => Located) BY LocatedInit
<1>2. TypeOK /\ SearchInv /\ (Clear => Located) /\ [Next]_vars => (Clear => Located)'
  BY LocatedNext
<1> QED BY <1>1, <1>2, SearchTypeCorrect, SearchInvariant, PTL DEF Spec

\* The search finds the height it is defined by (find_common_ancestor), and
\* the verdict is that height's.
THEOREM AncestorAlwaysHighest == Spec => []AncestorIsHighest
<1>1. TypeOK /\ (Clear => Located) => AncestorIsHighest
  <2> SUFFICES ASSUME TypeOK, Clear, Located, at = "done"
               PROVE  ancestor = Highest(Agreed) /\ state = Classify(ancestor)
    BY DEF AncestorIsHighest, Clear
  <2>1. /\ ancestor \in Agreed /\ \A g \in Agreed : g <= ancestor
        /\ state = Classify(ancestor)
    BY DEF Located
  <2>2. PICK h : h = Highest(Agreed) OBVIOUS
  <2>3. h \in Agreed /\ \A g \in Agreed : g <= h BY <2>1, <2>2 DEF Highest
  <2>4. Agreed \subseteq Int BY DEF Agreed, Answerable
  <2>5. h = ancestor BY <2>1, <2>3, <2>4
  <2> QED BY <2>1, <2>2, <2>5
<1> QED BY <1>1, SearchTypeCorrect, SearchLocates, PTL

=============================================================================
