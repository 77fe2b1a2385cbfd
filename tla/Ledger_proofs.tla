----------------------------- MODULE Ledger_proofs -----------------------------
(***************************************************************************)
(* Theorems about Ledger.  Reversible (module LedgerInv) is inductive; from*)
(* it follow type correctness, that a rollback restores the ledger its     *)
(* block was applied to, and that Ledger implements AtomicChain.           *)
(* RowsExplained is inductive together with it; from that follow that a    *)
(* transaction is mined once, that a withdrawal was asked for and has      *)
(* matured, and that a swap is settled once and in time.  CoinsAccounted,  *)
(* MeansLast and TotalsExplained follow: nothing mints or leaks coins, the *)
(* escrow can pay every open swap, what can make an application or a       *)
(* rollback raise, and that the destroyed coins and the age of a bond are  *)
(* what the chain makes them.                                              *)
(***************************************************************************)
EXTENDS LedgerInv, LedgerOps_proofs, SumTheorems

-----------------------------------------------------------------------------
(* Runs: the ledgers a block goes through. *)

\* A body made of transactions is a sequence of them.
LEMMA BlockTyped ==
  ASSUME NEW head \in Headers, NEW body \in Bodies
  PROVE  /\ Block(head, body) \in BlockType
         /\ Block(head, body).txs = body /\ body \in Seq(Txs)
<1>1. body \in Seq(Txs)
  <2>1. PICK n \in 0 .. MaxTxs : body \in [1 .. n -> Txs] BY DEF Bodies
  <2> QED BY <2>1, DepthAssumption
<1> QED BY <1>1, HeadersAssumption DEF Block, BlockType

\* A verified block can start a run.
LEMMA RunStarts ==
  ASSUME NEW L \in Ledgers, NEW body \in Seq(Txs), NEW h \in Heights,
         Fresh(L), Unburned(L, h), BodyOk(L, body, h)
  PROVE  IsRun(<<L>>, body, h) /\ CleanBody(body)
<1>1. ASSUME NEW j \in 1 .. Len(body)
      PROVE  Applicable(L, body[j]) /\ L.slashed \cap Offences(body[j]) = {}
  <2>1. body[j] \in Txs /\ j \in DOMAIN body OBVIOUS
  <2>2. Valid(L, body[j]) /\ body[j].id \notin L.mined BY <2>1 DEF BodyOk
  <2> QED BY <2>1, <2>2, ValidApplicable
<1>2. IsRun(<<L>>, body, h) BY <1>1 DEF IsRun
<1>3. CleanBody(body)
  <2> SUFFICES ASSUME NEW i \in DOMAIN body, NEW j \in DOMAIN body, i # j
               PROVE  body[i].id # body[j].id /\ ~Clash(body[i], body[j])
    BY DEF CleanBody
  <2>1. ~Clash(body[i], body[j]) BY DEF BodyOk
  <2>2. i \in 1 .. Len(body) /\ j \in 1 .. Len(body) OBVIOUS
  <2>3. body[i].id \in Nat /\ body[j].id \in Nat
    BY <2>2, TxsAssumption, TxShape
  <2>4. i < j \/ j < i BY <2>2
  <2>5. (i < j => body[i].id < body[j].id) /\ (j < i => body[j].id < body[i].id)
    BY DEF BodyOk, InTxidOrder
  <2> QED BY <2>1, <2>3, <2>4, <2>5
<1> QED BY <1>2, <1>3

\* Applying the next transaction of a clean body continues the run: it can be
\* applied, and what remains still finds its rows (Frame).
LEMMA RunExtends ==
  ASSUME NEW path, NEW body \in Seq(Txs), NEW h \in Heights,
         IsRun(path, body, h), CleanBody(body), Len(path) <= Len(body)
  PROVE  LET next == Reflect(path[Len(path)], body[Len(path)], h)
         IN  next \in Ledgers /\ IsRun(Append(path, next), body, h)
<1> DEFINE n == Len(path)
           next == Reflect(path[n], body[n], h)
           longer == Append(path, next)
<1>1. path \in Seq(Ledgers) /\ n \in Nat /\ 1 <= n /\ n \in 1 .. Len(body)
  BY DEF IsRun
<1>2. path[n] \in Ledgers /\ body[n] \in Txs BY <1>1
<1>3. Fresh(path[n]) /\ Unburned(path[n], h) BY <1>1 DEF IsRun
<1>4. \A j \in n .. Len(body) : Applicable(path[n], body[j]) BY <1>1 DEF IsRun
<1>5. Applicable(path[n], body[n]) BY <1>1, <1>4
<1>6. next \in Ledgers BY <1>2, <1>5, ReflectTyped
<1>7. Fresh(next) BY <1>2, <1>3, <1>5, FreshKept
<1>8. Unburned(next, h)
  <2>1. next.burned = path[n].burned BY DEF Reflect
  <2> QED BY <2>1, <1>3 DEF Unburned
<1>9. ASSUME NEW j \in n + 1 .. Len(body) PROVE Applicable(next, body[j])
  <2>1. j \in 1 .. Len(body) /\ j \in n .. Len(body) /\ j # n BY <1>1
  <2>2. body[j] \in Txs /\ Applicable(path[n], body[j]) BY <2>1, <1>4
  <2>3. body[n].id # body[j].id /\ ~Clash(body[n], body[j])
    BY <2>1, <1>1 DEF CleanBody
  <2> QED BY <1>2, <1>5, <2>2, <2>3, Frame
<1> HIDE DEF next
<1>10. /\ longer \in Seq(Ledgers) /\ Len(longer) = n + 1 /\ longer[n + 1] = next
       /\ \A i \in 1 .. n : longer[i] = path[i]
  BY <1>1, <1>6
<1> HIDE DEF longer
<1>11. ASSUME NEW i \in 1 .. n + 1
       PROVE  /\ Fresh(longer[i]) /\ Unburned(longer[i], h)
              /\ \A j \in i .. Len(body) : Applicable(longer[i], body[j])
  <2>1. CASE i = n + 1 BY <2>1, <1>7, <1>8, <1>9, <1>10
  <2>2. CASE i \in 1 .. n BY <2>2, <1>10 DEF IsRun
  <2> QED BY <2>1, <2>2, <1>1
<1>12. ASSUME NEW i \in 1 .. n PROVE longer[i + 1] = Reflect(longer[i], body[i], h)
  <2>1. CASE i = n BY <2>1, <1>1, <1>10 DEF next
  <2>2. CASE i \in 1 .. n - 1
    <3>1. path[i + 1] = Reflect(path[i], body[i], h) BY <2>2 DEF IsRun
    <3>2. i + 1 \in 1 .. n BY <2>2, <1>1
    <3> QED BY <3>1, <3>2, <1>10
  <2> QED BY <2>1, <2>2, <1>1
<1>13. \A j \in 1 .. Len(body) : longer[1].slashed \cap Offences(body[j]) = {}
  BY <1>1, <1>10 DEF IsRun
<1>14. IsRun(longer, body, h)
  BY <1>1, <1>10, <1>11, <1>12, <1>13 DEF IsRun
<1> QED BY <1>6, <1>14 DEF longer, next

\* Undoing one transaction of a complete run leads one step back on it.
LEMMA StepBack ==
  ASSUME NEW path, NEW b \in BlockType, NEW h \in Heights, FullRun(path, b, h),
         NEW i \in 1 .. Len(b.txs)
  PROVE  Unreflect(Without(path[i + 1], OffencesFrom(b.txs, i + 1)), b.txs[i])
           = Without(path[i], OffencesFrom(b.txs, i))
<1> DEFINE body == b.txs
           D == OffencesFrom(body, i + 1)
<1>1. body \in Seq(Txs) BY DEF BlockType
<1>2. body[i] \in Txs BY <1>1
<1>3. /\ path \in Seq(Ledgers) /\ Len(path) = Len(body) + 1
      /\ path[i + 1] = Reflect(path[i], body[i], h)
      /\ Applicable(path[i], body[i])
  BY <1>1 DEF FullRun, IsRun
<1>4. path[i] \in Ledgers BY <1>1, <1>3
<1>5. OffencesFrom(body, i) = D \cup Offences(body[i])
  <2>1. i .. Len(body) = (i + 1 .. Len(body)) \cup {i} BY <1>1
  <2> QED BY <2>1 DEF OffencesFrom
<1>6. Unreflect(Without(Reflect(path[i], body[i], h), D), body[i])
        = Without(path[i], D \cup Offences(body[i]))
  BY <1>2, <1>3, <1>4, UndoExact
<1> QED BY <1>3, <1>5, <1>6

\* At both ends of a complete run no marker is missing.
LEMMA RunEnds ==
  ASSUME NEW path, NEW b \in BlockType, NEW h, FullRun(path, b, h)
  PROVE  /\ Without(path[1], OffencesFrom(b.txs, 1)) = path[1]
         /\ Without(path[Len(b.txs) + 1], OffencesFrom(b.txs, Len(b.txs) + 1))
              = path[Len(b.txs) + 1]
<1> DEFINE n == Len(b.txs)
<1>1. n \in Nat BY DEF BlockType
<1>2. path[1] \in Ledgers /\ path[n + 1] \in Ledgers
  BY <1>1 DEF FullRun, IsRun
<1>3. path[1].slashed \cap OffencesFrom(b.txs, 1) = {}
  BY DEF FullRun, IsRun, OffencesFrom
<1>4. OffencesFrom(b.txs, n + 1) = {}
  <2>1. n + 1 .. n = {} BY <1>1
  <2> QED BY <2>1 DEF OffencesFrom
<1> QED BY <1>2, <1>3, <1>4, WithoutNothing

-----------------------------------------------------------------------------
(* The invariant is inductive: one lemma per action. *)

\* Genesis has no history.
LEMMA InitReversible ==
  ASSUME Init
  PROVE  Reversible
<1>1. Tip = 0 BY DEF Init, Tip
<1>2. TypeOK BY <1>1, GenesisAssumption DEF Init, TypeOK
<1>3. Settles
  <2>1. Fresh(Genesis) BY GenesisAssumption DEF Fresh
  <2>2. Unburned(Genesis, 1) BY GenesisAssumption DEF Unburned
  <2> QED BY <1>1, <2>1, <2>2 DEF Init, Settles
<1>4. History BY <1>1 DEF History
<1>5. Incorporating /\ RollingBack BY DEF Init, Incorporating, RollingBack
<1>6. Tip <= MaxHeight BY <1>1, BoundsAssumption
<1> QED BY <1>2, <1>3, <1>4, <1>5, <1>6 DEF Reversible

\* What the actions that leave the committed state alone keep.
LEMMA CommittedKept ==
  ASSUME Reversible, UNCHANGED <<chain, ledger, finalized, trace>>
  PROVE  /\ Tip' = Tip /\ Tip' <= MaxHeight /\ Settles' /\ History'
         /\ chain' \in Seq(BlockType) /\ ledger' \in Ledgers
         /\ finalized' \in Nat /\ finalized' <= Tip'
         /\ trace' \in Seq(Seq(Ledgers)) /\ Len(trace') = Tip'
  BY DEF Reversible, TypeOK, Tip, Settles, History, LedgerAfter

\* Dropping the write transaction leaves the committed state as it is.
LEMMA CloseKeeps ==
  ASSUME Reversible, CloseTxn, UNCHANGED <<chain, ledger, finalized, trace>>
  PROVE  Reversible'
<1>1. TypeOK' BY CommittedKept DEF CloseTxn, TypeOK
<1>2. Incorporating' /\ RollingBack' BY DEF CloseTxn, Incorporating, RollingBack
<1> QED BY <1>1, <1>2, CommittedKept DEF Reversible

\* A verified block starts a run from the committed ledger.
LEMMA VerifyKeeps ==
  ASSUME Reversible, NEW head \in Headers, NEW body \in Bodies,
         VerifyBlock(head, body)
  PROVE  Reversible'
<1>1. UNCHANGED <<chain, ledger, finalized, trace>> BY DEF VerifyBlock
<1>2. block' \in BlockType /\ block'.txs = body /\ body \in Seq(Txs)
  BY BlockTyped DEF VerifyBlock
<1>3. ledger \in Ledgers /\ Tip \in Nat /\ Tip + 1 \in Heights
  BY BoundsAssumption DEF Reversible, TypeOK, Tip, VerifyBlock, Heights
<1>4. IsRun(<<ledger>>, body, Tip + 1) /\ CleanBody(body)
  BY <1>2, <1>3, RunStarts DEF VerifyBlock, Reversible, Settles
<1>5. op' = "incorporate" /\ at' = 0 /\ txn' = ledger /\ steps' = <<ledger>>
  BY DEF VerifyBlock
<1>6. TypeOK' BY <1>1, <1>2, <1>3, <1>5, CommittedKept DEF TypeOK
<1>7. Incorporating'
  <2>1. Tip' < MaxHeight BY <1>1 DEF VerifyBlock, Tip
  <2> QED BY <1>1, <1>2, <1>4, <1>5, <2>1, CommittedKept DEF Incorporating
<1>8. RollingBack' BY <1>5 DEF RollingBack
<1> QED BY <1>1, <1>6, <1>7, <1>8, CommittedKept DEF Reversible

\* Indexing a transaction continues the run.
LEMMA IndexKeeps ==
  ASSUME Reversible, IndexTransaction
  PROVE  Reversible'
<1> DEFINE body == block.txs
           h == Tip + 1
<1>1. UNCHANGED <<chain, ledger, finalized, trace, op, block>>
  BY DEF IndexTransaction
<1>2. op = "incorporate" /\ at < Len(body) /\ at' = at + 1 BY DEF IndexTransaction
<1>3. block \in BlockType /\ at \in 0 .. Len(body) BY <1>2 DEF Reversible, TypeOK
<1>4. body \in Seq(Txs) BY <1>3 DEF BlockType
<1>5. /\ Tip < MaxHeight /\ IsRun(steps, body, h) /\ CleanBody(body)
      /\ Len(steps) = at + 1 /\ steps[1] = ledger /\ txn = steps[at + 1]
  BY <1>2 DEF Reversible, Incorporating
<1>6. Tip \in Nat /\ h \in Heights
  BY <1>5, BoundsAssumption DEF Reversible, TypeOK, Tip, Heights
<1>7. txn' = Reflect(steps[Len(steps)], body[Len(steps)], h)
  BY <1>5 DEF IndexTransaction
<1>8. steps' = Append(steps, txn') BY DEF IndexTransaction
<1>9. txn' \in Ledgers /\ IsRun(steps', body, h)
  BY <1>2, <1>3, <1>4, <1>5, <1>6, <1>7, <1>8, RunExtends
<1>10. /\ steps \in Seq(Ledgers) /\ Len(steps') = at' + 1
       /\ steps'[1] = ledger /\ txn' = steps'[at' + 1]
  BY <1>2, <1>3, <1>5, <1>8, <1>9 DEF Reversible, TypeOK
<1>11. TypeOK'
  <2>1. steps' \in Seq(Ledgers) BY <1>9 DEF IsRun
  <2>2. at' \in 0 .. Len(block'.txs) /\ at' \in Nat BY <1>1, <1>2, <1>3, <1>4
  <2> QED BY <1>1, <1>2, <1>3, <1>9, <2>1, <2>2, CommittedKept DEF TypeOK
<1>12. Incorporating'
  BY <1>1, <1>5, <1>9, <1>10, CommittedKept DEF Incorporating
<1>13. RollingBack' BY <1>1, <1>2 DEF RollingBack
<1> QED BY <1>1, <1>11, <1>12, <1>13, CommittedKept DEF Reversible

\* A committed block's run becomes the last history, linked to the new ledger
\* by the seal.
LEMMA CommitKeeps ==
  ASSUME Reversible, CommitBlock
  PROVE  Reversible'
<1> DEFINE h == Tip + 1
<1>1. op = "incorporate" /\ at = Len(block.txs) BY DEF CommitBlock
<1>2. block \in BlockType BY <1>1 DEF Reversible, TypeOK
<1>3. block.txs \in Seq(Txs) /\ block.reward \in Nat /\ block.creator \in Accounts
  BY <1>2 DEF BlockType
<1>4. /\ Tip < MaxHeight /\ Len(steps) = at + 1
      /\ steps[1] = ledger /\ txn = steps[at + 1]
      /\ FullRun(steps, block, h)
  BY <1>1 DEF Reversible, Incorporating, FullRun
<1>5. /\ chain \in Seq(BlockType) /\ Tip \in Nat /\ ledger \in Ledgers
      /\ trace \in Seq(Seq(Ledgers)) /\ Len(trace) = Tip
      /\ steps \in Seq(Ledgers) /\ finalized \in Nat /\ finalized <= Tip
  BY DEF Reversible, TypeOK, Tip
<1>6. h \in Heights BY <1>4, <1>5, BoundsAssumption DEF Heights
<1>7. txn \in Ledgers /\ Fresh(txn) /\ Unburned(txn, h)
  <2>1. Len(steps) \in 1 .. Len(steps) BY <1>4, <1>5, <1>3, <1>1
  <2> QED BY <2>1, <1>4, <1>5 DEF FullRun, IsRun
<1>8. ledger' = Seal(txn, block, h) /\ ledger' \in Ledgers
  BY <1>3, <1>6, <1>7, SealTyped DEF CommitBlock
<1>9. Fresh(ledger') /\ Unburned(ledger', h + 1)
  BY <1>6, <1>7, <1>8, SealSettles
<1>10. chain' = Append(chain, block) /\ trace' = Append(trace, steps)
  BY DEF CommitBlock
<1>11. /\ chain' \in Seq(BlockType) /\ Tip' = h
       /\ trace' \in Seq(Seq(Ledgers)) /\ Len(trace') = h
       /\ \A g \in 1 .. Tip : chain'[g] = chain[g] /\ trace'[g] = trace[g]
       /\ chain'[h] = block /\ trace'[h] = steps
  BY <1>2, <1>5, <1>10 DEF Tip
<1>12. finalized' \in Nat /\ finalized' <= Tip'
  <2>1. AdvanceFloor(h) BY DEF CommitBlock
  <2>2. finalized' \in {finalized, h - FinalityDepth} BY <2>1 DEF AdvanceFloor
  <2>3. finalized' >= finalized BY <2>1, <1>5, DepthAssumption DEF AdvanceFloor
  <2> QED BY <2>2, <2>3, <1>5, <1>11, DepthAssumption
<1>13. CloseTxn BY DEF CommitBlock
<1>14. TypeOK' BY <1>8, <1>11, <1>12, <1>13 DEF CloseTxn, TypeOK
<1>15. Settles' BY <1>9, <1>11 DEF Settles
<1>16. History'
  <2> SUFFICES ASSUME NEW g \in 1 .. h
               PROVE  /\ FullRun(trace'[g], chain'[g], g)
                      /\ LedgerAfter(g)' = Seal(trace'[g][Len(trace'[g])], chain'[g], g)
    BY <1>11 DEF History
  <2>1. CASE g = h
    BY <2>1, <1>4, <1>5, <1>8, <1>11 DEF LedgerAfter
  <2>2. CASE g \in 1 .. Tip
    <3>1. FullRun(trace[g], chain[g], g) BY <2>2 DEF Reversible, History
    <3>2. LedgerAfter(g) = Seal(trace[g][Len(trace[g])], chain[g], g)
      BY <2>2 DEF Reversible, History
    <3>3. LedgerAfter(g)' = LedgerAfter(g)
      <4>1. CASE g = Tip
        <5>1. LedgerAfter(g)' = trace'[g + 1][1] BY <2>2, <1>5, <1>11 DEF LedgerAfter
        <5>2. trace'[g + 1][1] = ledger BY <4>1, <1>4, <1>11
        <5>3. LedgerAfter(g) = ledger BY <4>1, <1>5 DEF LedgerAfter
        <5> QED BY <5>1, <5>2, <5>3
      <4>2. CASE g # Tip
        <5>1. g < Tip /\ g < Tip' /\ g + 1 \in 1 .. Tip BY <4>2, <2>2, <1>5, <1>11
        <5> QED BY <5>1, <1>11 DEF LedgerAfter
      <4> QED BY <4>1, <4>2
    <3> QED BY <3>1, <3>2, <3>3, <2>2, <1>11
  <2> QED BY <2>1, <2>2, <1>5
<1>17. Incorporating' /\ RollingBack'
  BY <1>13 DEF CloseTxn, Incorporating, RollingBack
<1>18. Tip' <= MaxHeight
  <2>1. Tip' = h BY <1>11
  <2>2. Tip < MaxHeight BY <1>4
  <2>3. Tip \in Nat BY <1>5
  <2>4. MaxHeight \in Nat BY BoundsAssumption
  <2> QED BY <2>1, <2>2, <2>3, <2>4
<1> QED BY <1>14, <1>15, <1>16, <1>17, <1>18 DEF Reversible

\* Breaking the seal leads to the end of the tip's run.
LEMMA StartKeeps ==
  ASSUME Reversible, StartRollback
  PROVE  Reversible'
<1> DEFINE b == chain[Tip]
           n == Len(b.txs)
<1>1. UNCHANGED <<chain, ledger, finalized, steps, trace>> BY DEF StartRollback
<1>2. /\ op' = "rollback" /\ block' = b /\ at' = n
      /\ txn' = Unseal(ledger, b, Tip) /\ Tip > 0 /\ Tip - 1 >= finalized
  BY DEF StartRollback
<1>3. /\ chain \in Seq(BlockType) /\ Tip \in Nat /\ Tip <= MaxHeight
      /\ steps \in Seq(Ledgers)
  BY DEF Reversible, TypeOK, Tip
<1>4. Tip \in Heights /\ Tip \in 1 .. Tip BY <1>2, <1>3, BoundsAssumption DEF Heights
<1>5. b \in BlockType BY <1>3, <1>4 DEF Tip
<1>6. b.txs \in Seq(Txs) /\ b.reward \in Nat /\ b.creator \in Accounts
  BY <1>5 DEF BlockType
<1>7. FullRun(trace[Tip], b, Tip) BY <1>4 DEF Reversible, History
<1>8. ledger = Seal(trace[Tip][n + 1], b, Tip)
  <2>1. LedgerAfter(Tip) = Seal(trace[Tip][Len(trace[Tip])], b, Tip)
    BY <1>4 DEF Reversible, History
  <2>2. LedgerAfter(Tip) = ledger BY <1>3 DEF LedgerAfter
  <2> QED BY <2>1, <2>2, <1>7 DEF FullRun
<1>9. trace[Tip][n + 1] \in Ledgers /\ Unburned(trace[Tip][n + 1], Tip)
  BY <1>6, <1>7 DEF FullRun, IsRun
<1>10. txn' = trace[Tip][n + 1] BY <1>2, <1>4, <1>6, <1>8, <1>9, UnsealSeal
<1>11. RollingBack'
  <2>1. Without(trace[Tip][n + 1], OffencesFrom(b.txs, n + 1)) = trace[Tip][n + 1]
    BY <1>5, <1>7, RunEnds
  <2> QED BY <2>1, <1>1, <1>2, <1>10 DEF RollingBack, Tip
<1>12. TypeOK'
  <2>1. at' \in 0 .. Len(block'.txs) /\ at' \in Nat BY <1>2, <1>6
  <2> QED BY <2>1, <1>1, <1>2, <1>3, <1>5, <1>9, <1>10, CommittedKept DEF TypeOK
<1>13. Incorporating' BY <1>2 DEF Incorporating
<1> QED BY <1>1, <1>11, <1>12, <1>13, CommittedKept DEF Reversible

\* Undoing a transaction leads one step back on the tip's run.
LEMMA UnindexKeeps ==
  ASSUME Reversible, UnindexTransaction
  PROVE  Reversible'
<1>1. UNCHANGED <<chain, ledger, op, block, finalized, steps, trace>>
  BY DEF UnindexTransaction
<1>2. /\ op = "rollback" /\ at > 0 /\ at' = at - 1
      /\ txn' = Unreflect(txn, block.txs[at])
  BY DEF UnindexTransaction
<1>3. /\ block = chain[Tip] /\ Tip > 0 /\ Tip - 1 >= finalized
      /\ txn = Without(trace[Tip][at + 1], OffencesFrom(block.txs, at + 1))
  BY <1>2 DEF Reversible, RollingBack
<1>4. /\ block \in BlockType /\ at \in 0 .. Len(block.txs)
      /\ Tip \in Nat /\ Tip <= MaxHeight /\ steps \in Seq(Ledgers)
  BY <1>2 DEF Reversible, TypeOK, Tip
<1>5. at \in 1 .. Len(block.txs) BY <1>2, <1>4 DEF BlockType
<1>6. Tip \in Heights /\ Tip \in 1 .. Tip BY <1>3, <1>4, BoundsAssumption DEF Heights
<1>7. FullRun(trace[Tip], block, Tip) BY <1>3, <1>6 DEF Reversible, History
<1>8. txn' = Without(trace[Tip][at], OffencesFrom(block.txs, at))
  BY <1>2, <1>3, <1>4, <1>5, <1>6, <1>7, StepBack
<1>9. at' + 1 = at BY <1>2, <1>4
<1>10. RollingBack' BY <1>1, <1>2, <1>3, <1>8, <1>9 DEF RollingBack, Tip
<1>11. txn' \in Ledgers
  <2>1. block.txs \in Seq(Txs) BY <1>4 DEF BlockType
  <2>2. trace[Tip][at] \in Ledgers BY <1>5, <1>7, <2>1 DEF FullRun, IsRun
  <2> QED BY <2>2, <1>8 DEF Without, Ledgers
<1>12. TypeOK'
  <2>1. at' \in 0 .. Len(block'.txs) /\ at' \in Nat BY <1>1, <1>2, <1>4, <1>5
  <2> QED BY <2>1, <1>1, <1>2, <1>4, <1>11, CommittedKept DEF TypeOK
<1>13. Incorporating' BY <1>1, <1>2 DEF Incorporating
<1> QED BY <1>1, <1>10, <1>12, <1>13, CommittedKept DEF Reversible

\* When every transaction is undone, what is left is what the block was
\* applied to.
LEMMA RolledBack ==
  ASSUME Reversible, op = "rollback", at = 0
  PROVE  /\ Tip \in Nat /\ Tip > 0 /\ Tip > finalized
         /\ txn = trace[Tip][1] /\ txn = LedgerAfter(Tip - 1)
<1>1. /\ block = chain[Tip] /\ Tip > 0 /\ Tip - 1 >= finalized
      /\ txn = Without(trace[Tip][1], OffencesFrom(block.txs, 1))
  BY DEF Reversible, RollingBack
<1>2. block \in BlockType /\ Tip \in Nat /\ finalized \in Nat
  BY DEF Reversible, TypeOK, Tip
<1>3. FullRun(trace[Tip], block, Tip) BY <1>1, <1>2 DEF Reversible, History
<1>4. txn = trace[Tip][1] BY <1>1, <1>2, <1>3, RunEnds
<1>5. LedgerAfter(Tip - 1) = trace[Tip][1] BY <1>1, <1>2 DEF LedgerAfter
<1> QED BY <1>1, <1>2, <1>4, <1>5

\* Committing a rollback forgets the tip and its history.
LEMMA CommitRollbackKeeps ==
  ASSUME Reversible, CommitRollback
  PROVE  Reversible'
<1>1. op = "rollback" /\ at = 0 BY DEF CommitRollback
<1>2. /\ Tip \in Nat /\ Tip > 0 /\ Tip > finalized /\ txn = trace[Tip][1]
  BY <1>1, RolledBack
<1>3. /\ chain' = SubSeq(chain, 1, Tip - 1) /\ trace' = SubSeq(trace, 1, Tip - 1)
      /\ ledger' = txn /\ finalized' = finalized /\ CloseTxn
  BY DEF CommitRollback
<1>4. /\ chain \in Seq(BlockType) /\ trace \in Seq(Seq(Ledgers)) /\ Len(trace) = Tip
      /\ Len(chain) = Tip /\ finalized \in Nat /\ txn \in Ledgers /\ Tip <= MaxHeight
  BY <1>1 DEF Reversible, TypeOK, Tip
<1>5. /\ chain' \in Seq(BlockType) /\ trace' \in Seq(Seq(Ledgers))
      /\ Tip' = Tip - 1 /\ Len(trace') = Tip - 1
      /\ \A g \in 1 .. Tip - 1 : chain'[g] = chain[g] /\ trace'[g] = trace[g]
  BY <1>2, <1>3, <1>4 DEF Tip
<1>6. TypeOK' BY <1>2, <1>3, <1>4, <1>5 DEF CloseTxn, TypeOK
<1>7. Settles'
  <2>1. FullRun(trace[Tip], chain[Tip], Tip) BY <1>2 DEF Reversible, History
  <2>2. Fresh(txn) /\ Unburned(txn, Tip) BY <1>2, <2>1 DEF FullRun, IsRun
  <2>3. Tip' + 1 = Tip BY <1>2, <1>5
  <2> QED BY <2>2, <2>3, <1>3 DEF Settles
<1>8. History'
  <2> SUFFICES ASSUME NEW g \in 1 .. Tip - 1
               PROVE  /\ FullRun(trace'[g], chain'[g], g)
                      /\ LedgerAfter(g)' = Seal(trace'[g][Len(trace'[g])], chain'[g], g)
    BY <1>5 DEF History
  <2>1. /\ FullRun(trace[g], chain[g], g)
        /\ LedgerAfter(g) = Seal(trace[g][Len(trace[g])], chain[g], g)
    BY <1>2 DEF Reversible, History
  <2>2. LedgerAfter(g)' = LedgerAfter(g)
    <3>1. CASE g = Tip - 1 BY <3>1, <1>2, <1>3, <1>5 DEF LedgerAfter
    <3>2. CASE g # Tip - 1
      <4>1. g < Tip - 1 /\ g < Tip /\ g + 1 \in 1 .. Tip - 1 BY <3>2, <1>2
      <4> QED BY <4>1, <1>5 DEF LedgerAfter
    <3> QED BY <3>1, <3>2
  <2> QED BY <2>1, <2>2, <1>5
<1>9. Incorporating' /\ RollingBack'
  BY <1>3 DEF CloseTxn, Incorporating, RollingBack
<1>10. Tip' <= MaxHeight BY <1>2, <1>4, <1>5, BoundsAssumption
<1> QED BY <1>6, <1>7, <1>8, <1>9, <1>10 DEF Reversible

\* Every step keeps the invariant.
LEMMA NextReversible ==
  ASSUME Reversible, [Next]_vars
  PROVE  Reversible'
<1>1. ASSUME NEW head \in Headers, NEW body \in Bodies, VerifyBlock(head, body)
      PROVE  Reversible'
  BY <1>1, VerifyKeeps
<1>2. CASE IndexTransaction BY <1>2, IndexKeeps
<1>3. CASE CommitBlock BY <1>3, CommitKeeps
<1>4. CASE StartRollback BY <1>4, StartKeeps
<1>5. CASE UnindexTransaction BY <1>5, UnindexKeeps
<1>6. CASE CommitRollback BY <1>6, CommitRollbackKeeps
<1>7. CASE Raise BY <1>7, CloseKeeps DEF Raise
<1>8. CASE Crash BY <1>8, CloseKeeps DEF Crash
<1>9. CASE UNCHANGED vars
  <2>1. UNCHANGED <<chain, ledger, finalized, trace>> BY <1>9 DEF vars
  <2>2. TypeOK' BY <1>9, CommittedKept DEF vars, TypeOK, Reversible
  <2>3. Incorporating' /\ RollingBack'
    BY <1>9, CommittedKept DEF vars, Reversible, Incorporating, RollingBack
  <2> QED BY <2>1, <2>2, <2>3, CommittedKept DEF Reversible
<1> QED BY <1>1, <1>2, <1>3, <1>4, <1>5, <1>6, <1>7, <1>8, <1>9 DEF Next

-----------------------------------------------------------------------------
(* The theorems. *)

\* In every reachable state the history of every block can be walked back
\* step by step: index_transactions and unindex_transactions stay inverse to
\* each other whatever blocks were accepted before.
THEOREM ReversibleInvariant == Spec => []Reversible
<1>1. Init => Reversible BY InitReversible
<1>2. Reversible /\ [Next]_vars => Reversible' BY NextReversible
<1> QED BY <1>1, <1>2, PTL DEF Spec

\* Every variable keeps its type; in particular no sequence of block
\* applications, rollbacks and crashes builds a row of the wrong shape.
THEOREM TypeCorrect == Spec => []TypeOK
<1>1. Reversible => TypeOK BY DEF Reversible
<1> QED BY <1>1, ReversibleInvariant, PTL

\* rollback_one_block restores, field for field, the ledger that the block it
\* takes off was applied to.
THEOREM RollbackIsExact == Spec => RollbackExact
<1> DEFINE Exact == Len(chain') < Len(chain) => ledger' = trace[Len(chain)][1]
<1>1. Reversible /\ [Next]_vars => [Exact]_vars
  <2> SUFFICES ASSUME Reversible, [Next]_vars, Len(chain') < Len(chain)
               PROVE  ledger' = trace[Len(chain)][1]
    OBVIOUS
  <2>1. chain \in Seq(BlockType) BY DEF Reversible, TypeOK
  <2>2. CASE CommitRollback
    BY <2>2, RolledBack DEF CommitRollback, Tip
  <2>3. CASE CommitBlock
    <3>1. block \in BlockType BY <2>3 DEF CommitBlock, Reversible, TypeOK
    <3>2. Len(chain') = Len(chain) + 1 BY <2>1, <2>3, <3>1 DEF CommitBlock
    <3> QED BY <2>1, <3>2
  <2>4. CASE UNCHANGED chain BY <2>1, <2>4
  <2> QED BY <2>2, <2>3, <2>4 DEF Next, VerifyBlock, IndexTransaction, StartRollback,
             UnindexTransaction, Raise, Crash, vars
<1>2. Spec => [][Exact]_vars
  BY <1>1, ReversibleInvariant, PTL DEF Spec
<1> QED BY <1>2 DEF RollbackExact

-----------------------------------------------------------------------------
(* Refinement. *)

States == Append([k \in 1 .. Tip |-> trace[k][1]], ledger)

\* The committed states that the refinement mapping shows.
StatesOk ==
  /\ Tip \in Nat /\ States \in Seq(Ledgers) /\ Len(States) = Tip + 1
  /\ \A k \in 1 .. Tip : States[k] = trace[k][1]
  /\ States[Tip + 1] = ledger

LEMMA StatesShape == Reversible => StatesOk
<1> SUFFICES ASSUME Reversible PROVE StatesOk
  OBVIOUS
<1>1. /\ Tip \in Nat /\ ledger \in Ledgers
      /\ trace \in Seq(Seq(Ledgers)) /\ Len(trace) = Tip
  BY DEF Reversible, TypeOK, Tip
<1>2. \A k \in 1 .. Tip : trace[k][1] \in Ledgers
  <2> SUFFICES ASSUME NEW k \in 1 .. Tip PROVE trace[k][1] \in Ledgers OBVIOUS
  <2>1. FullRun(trace[k], chain[k], k) BY DEF Reversible, History
  <2> QED BY <2>1 DEF FullRun, IsRun
<1> DEFINE firsts == [k \in 1 .. Tip |-> trace[k][1]]
<1>3. firsts \in Seq(Ledgers) /\ Len(firsts) = Tip BY <1>1, <1>2, SMTT(30)
<1>4. \A k \in 1 .. Tip : firsts[k] = trace[k][1] OBVIOUS
<1>5. States = Append(firsts, ledger) BY DEF States
<1> HIDE DEF firsts
<1>6. /\ States \in Seq(Ledgers) /\ Len(States) = Tip + 1
      /\ States[Tip + 1] = ledger
  BY <1>1, <1>3, <1>5
<1>7. \A k \in 1 .. Tip : States[k] = firsts[k] BY <1>1, <1>3, <1>5, SMTT(30)
<1> QED BY <1>1, <1>4, <1>6, <1>7 DEF StatesOk

\* They keep this shape in the next state.
LEMMA StatesShapeNext == Reversible' => StatesOk'
  BY StatesShape, PTL

\* A step that keeps the committed state is invisible.
LEMMA InvisibleStep ==
  ASSUME UNCHANGED <<chain, ledger, finalized, trace>>
  PROVE  UNCHANGED <<States, finalized>>
  BY DEF States, Tip

\* Committing a block adds its state to those that are visible.
LEMMA CommitExtends ==
  ASSUME Reversible, Reversible', CommitBlock
  PROVE  /\ Len(States') = Len(States) + 1
         /\ SubSeq(States', 1, Len(States)) = States
         /\ finalized' >= finalized /\ finalized' <= Len(States) - 1
<1>1. /\ Tip \in Nat /\ States \in Seq(Ledgers) /\ Len(States) = Tip + 1
      /\ \A k \in 1 .. Tip : States[k] = trace[k][1]
      /\ States[Tip + 1] = ledger
  BY StatesShape DEF StatesOk
<1>2. /\ Tip' \in Nat /\ States' \in Seq(Ledgers) /\ Len(States') = Tip' + 1
      /\ \A k \in 1 .. Tip' : States'[k] = trace'[k][1]
      /\ States'[Tip' + 1] = ledger'
  BY StatesShapeNext DEF StatesOk
<1>3. /\ chain' = Append(chain, block) /\ trace' = Append(trace, steps)
      /\ AdvanceFloor(Tip + 1) /\ op = "incorporate"
  BY DEF CommitBlock
<1>4. /\ chain \in Seq(BlockType) /\ block \in BlockType
      /\ trace \in Seq(Seq(Ledgers)) /\ Len(trace) = Tip /\ steps \in Seq(Ledgers)
      /\ finalized \in Nat /\ finalized <= Tip /\ steps[1] = ledger
  BY <1>3 DEF Reversible, TypeOK, Incorporating, Tip
<1>5. Tip' = Tip + 1 BY <1>3, <1>4 DEF Tip
<1>6. \A k \in 1 .. Tip + 1 : States'[k] = States[k]
  <2> SUFFICES ASSUME NEW k \in 1 .. Tip + 1 PROVE States'[k] = States[k]
    OBVIOUS
  <2>1. CASE k = Tip + 1 BY <2>1, <1>1, <1>2, <1>3, <1>4, <1>5
  <2>2. CASE k \in 1 .. Tip
    <3>1. trace'[k] = trace[k] BY <2>2, <1>3, <1>4
    <3> QED BY <2>2, <3>1, <1>1, <1>2, <1>5
  <2> QED BY <2>1, <2>2, <1>1
<1>7. SubSeq(States', 1, Len(States)) = States
  BY <1>1, <1>2, <1>5, <1>6
<1>8. finalized' >= finalized /\ finalized' <= Tip
  BY <1>1, <1>3, <1>4, DepthAssumption DEF AdvanceFloor
<1> QED BY <1>1, <1>2, <1>5, <1>7, <1>8

\* Committing a rollback removes the last visible state, and only above the
\* finalized height.
LEMMA RollbackReverts ==
  ASSUME Reversible, Reversible', CommitRollback
  PROVE  /\ Len(States) - 1 > finalized
         /\ States' = SubSeq(States, 1, Len(States) - 1)
         /\ UNCHANGED finalized
<1>1. /\ Tip \in Nat /\ States \in Seq(Ledgers) /\ Len(States) = Tip + 1
      /\ \A k \in 1 .. Tip : States[k] = trace[k][1]
      /\ States[Tip + 1] = ledger
  BY StatesShape DEF StatesOk
<1>2. /\ Tip' \in Nat /\ States' \in Seq(Ledgers) /\ Len(States') = Tip' + 1
      /\ \A k \in 1 .. Tip' : States'[k] = trace'[k][1]
      /\ States'[Tip' + 1] = ledger'
  BY StatesShapeNext DEF StatesOk
<1>3. /\ chain' = SubSeq(chain, 1, Tip - 1) /\ trace' = SubSeq(trace, 1, Tip - 1)
      /\ ledger' = txn /\ finalized' = finalized
  BY DEF CommitRollback
<1>4. Tip > 0 /\ Tip > finalized /\ txn = trace[Tip][1]
  BY RolledBack DEF CommitRollback
<1>5. chain \in Seq(BlockType) /\ trace \in Seq(Seq(Ledgers)) /\ Len(trace) = Tip
  BY DEF Reversible, TypeOK
<1>6. Tip' = Tip - 1 BY <1>1, <1>3, <1>4, <1>5 DEF Tip
<1>7. \A k \in 1 .. Tip : States'[k] = States[k]
  <2> SUFFICES ASSUME NEW k \in 1 .. Tip PROVE States'[k] = States[k]
    OBVIOUS
  <2>1. CASE k = Tip BY <2>1, <1>1, <1>2, <1>3, <1>4, <1>6
  <2>2. CASE k \in 1 .. Tip - 1
    <3>1. trace'[k] = trace[k] BY <2>2, <1>1, <1>3, <1>5
    <3> QED BY <2>2, <3>1, <1>1, <1>2, <1>6
  <2> QED BY <2>1, <2>2, <1>1
<1>8. States' = SubSeq(States, 1, Tip) BY <1>1, <1>2, <1>4, <1>6, <1>7
<1> QED BY <1>1, <1>3, <1>4, <1>8

\* Seen from outside, blocks are applied and taken off atomically, each
\* rollback exact and none below the finalized height, whatever happens
\* between the first transaction and the commit.
THEOREM ImplementsAtomicChain == Spec => AtomicSpec
<1>1. Init => Atomic!Init
  <2> SUFFICES ASSUME Init PROVE Atomic!Init OBVIOUS
  <2>1. Tip = 0 BY DEF Init, Tip
  <2>2. Len(States) = 1 BY <2>1, InitReversible, StatesShape DEF StatesOk
  <2> QED BY <2>2 DEF Init, Atomic!Init, States
<1>2. Reversible /\ Reversible' /\ [Next]_vars => [Atomic!Next]_Atomic!vars
  <2> SUFFICES ASSUME Reversible, Reversible', [Next]_vars
               PROVE  [Atomic!Next]_Atomic!vars
    OBVIOUS
  <2>1. CASE CommitBlock
    <3>1. /\ Len(States') = Len(States) + 1
          /\ SubSeq(States', 1, Len(States)) = States
          /\ finalized' >= finalized /\ finalized' <= Len(States) - 1
      BY <2>1, CommitExtends
    <3>2. Atomic!Extend BY <3>1 DEF Atomic!Extend, Atomic!Height, States
    <3> QED BY <3>2 DEF Atomic!Next
  <2>2. CASE CommitRollback
    <3>1. Atomic!Revert BY <2>2, RollbackReverts DEF Atomic!Revert, Atomic!Height, States
    <3> QED BY <3>1 DEF Atomic!Next
  <2>3. CASE UNCHANGED <<chain, ledger, finalized, trace>>
    BY <2>3, InvisibleStep DEF Atomic!vars, States
  <2> QED BY <2>1, <2>2, <2>3 DEF Next, VerifyBlock, IndexTransaction, StartRollback,
             UnindexTransaction, Raise, Crash, vars
<1> QED BY <1>1, <1>2, ReversibleInvariant, PTL DEF Spec, AtomicSpec, Atomic!Spec

-----------------------------------------------------------------------------
(* One transaction: its entry joins the history that explains the ledger. *)

Entry(t, h, i) == [tx |-> t, at |-> h, ix |-> i]

\* The entry of a transaction says what it was made from.
LEMMA EntryFields ==
  ASSUME NEW t, NEW h, NEW i
  PROVE  Entry(t, h, i).tx = t /\ Entry(t, h, i).at = h /\ Entry(t, h, i).ix = i
  BY DEF Entry

\* Indexing a transaction that is not in the index adds it to both.
LEMMA IndexStep ==
  ASSUME NEW L, NEW t, NEW h, NEW i, NEW D, IndexIs(L, D), t.id \notin L.mined
  PROVE  IndexIs(Reflect(L, t, h), D \cup {Entry(t, h, i)})
<1> DEFINE n == Entry(t, h, i)
<1>1. Reflect(L, t, h).mined = L.mined \cup {t.id} BY DEF Reflect
<1>2. n.tx = t BY EntryFields
<1> HIDE DEF n
<1>3. Reflect(L, t, h).mined = {d.tx.id : d \in D \cup {n}}
  BY <1>1, <1>2 DEF IndexIs
<1>4. \A d \in D : d.tx.id # t.id BY DEF IndexIs
<1>5. \A d, e \in D \cup {n} : d.tx.id = e.tx.id => d = e
  BY <1>2, <1>4 DEF IndexIs
<1> QED BY <1>3, <1>5 DEF IndexIs, n

\* A new request is explained by its own entry, a withdrawal by the request it
\* consumes; the other pending unbonds and withdrawals stay explained.
LEMMA UnbondsStep ==
  ASSUME NEW L \in Ledgers, NEW t \in Txs, NEW h \in Nat, NEW i, NEW D,
         \A d \in D : d.at \in Nat /\ d.at <= h,
         Applicable(L, t), Timely(L, t, h), UnbondsAre(L, D)
  PROVE  UnbondsAre(Reflect(L, t, h), D \cup {Entry(t, h, i)})
<1> DEFINE n == Entry(t, h, i)
           E == D \cup {n}
           M == Reflect(L, t, h)
<1>1. n.tx = t /\ n.at = h BY EntryFields
<1>2. M.unbonding = UnbondingAfter(L, t, h) BY DEF Reflect
<1>3. t \in Transaction /\ t.sender \in Accounts BY TxsAssumption, TxShape
<1>4. L.unbonding \in [Accounts -> Pending \cup {NONE}] BY LedgerTypes
<1>5. BondUnlockDelay \in Nat BY BoundsAssumption
<1> HIDE DEF n, M
<1>6. ASSUME NEW a \in Accounts, M.unbonding[a] # NONE
      PROVE  Asked(M.unbonding[a], a, E)
  <2>1. CASE t.kind = "unbond" /\ a = t.sender
    <3> DEFINE p == [amount |-> t.amount, release |-> h + BondUnlockDelay]
    <3>1. M.unbonding[a] = p BY <2>1, <1>2, <1>4 DEF UnbondingAfter
    <3>2. p.amount = t.amount /\ p.release = h + BondUnlockDelay OBVIOUS
    <3>3. ASSUME NEW x \in E PROVE Withdraws(x, a) => x.at <= n.at
      BY <3>3, <1>1
    <3>4. Asked(p, a, E)
      BY <2>1, <3>2, <3>3, <1>1 DEF Asked
    <3> QED BY <3>1, <3>4
  <2>2. CASE ~(t.kind = "unbond" /\ a = t.sender)
    <3>1. /\ M.unbonding[a] = L.unbonding[a]
          /\ ~(t.kind = "withdraw" /\ a = t.sender)
      BY <2>2, <1>2, <1>4, <1>6 DEF UnbondingAfter
    <3>2. PICK u \in D : /\ u.tx.kind = "unbond" /\ u.tx.sender = a
                         /\ u.tx.amount = L.unbonding[a].amount
                         /\ u.at + BondUnlockDelay = L.unbonding[a].release
                         /\ \A x \in D : Withdraws(x, a) => x.at <= u.at
      BY <1>6, <3>1 DEF UnbondsAre, Asked
    <3>3. ~Withdraws(n, a) BY <3>1, <1>1 DEF Withdraws
    <3> QED BY <3>1, <3>2, <3>3 DEF Asked
  <2> QED BY <2>1, <2>2
<1>7. ASSUME NEW w \in D, w.tx.kind = "withdraw" PROVE Matured(w, E)
  <2>1. PICK u \in D : /\ u.tx.kind = "unbond" /\ u.tx.sender = w.tx.sender
                       /\ u.tx.amount = w.tx.claims /\ u.at + BondUnlockDelay <= w.at
                       /\ \A x \in D : Withdraws(x, w.tx.sender) /\ x.at > u.at => x.at >= w.at
    BY <1>7 DEF UnbondsAre, Matured
  <2>2. n.at >= w.at BY <1>1
  <2> QED BY <2>1, <2>2 DEF Matured
<1>8. ASSUME t.kind = "withdraw" PROVE Matured(n, E)
  <2>1. L.unbonding[t.sender] = [amount |-> t.claims, release |-> t.release]
    BY <1>8 DEF Applicable
  <2>2. L.unbonding[t.sender] # NONE /\ t \in Withdraw
    <3>1. t \in Withdraw /\ t.claims \in Nat /\ t.release \in Nat BY <1>3, <1>8, TxShape
    <3> QED BY <3>1, <2>1, NoneAssumption DEF Pending
  <2>3. PICK u \in D : /\ u.tx.kind = "unbond" /\ u.tx.sender = t.sender
                       /\ u.tx.amount = t.claims
                       /\ u.at + BondUnlockDelay = t.release
                       /\ \A x \in D : Withdraws(x, t.sender) => x.at <= u.at
    BY <1>3, <2>1, <2>2 DEF UnbondsAre, Asked
  <2>4. t.release <= h BY <1>8 DEF Timely
  <2>5. \A x \in E : Withdraws(x, t.sender) /\ x.at > u.at => x.at >= n.at
    BY <2>3, <1>1
  <2> QED BY <2>3, <2>4, <2>5, <1>1 DEF Matured
<1>9. \A w \in E : w.tx.kind = "withdraw" => Matured(w, E)
  BY <1>1, <1>7, <1>8
<1> QED BY <1>6, <1>9 DEF UnbondsAre, n, M

\* A lock opens a row nobody settled, a claim or a refund settles an open row;
\* the other rows keep their status and expiry.
LEMMA SwapStep ==
  ASSUME NEW L \in Ledgers, NEW t \in Txs, NEW h \in Nat, NEW i, NEW D,
         Applicable(L, t), Timely(L, t, h), NEW s \in TxIds, SwapIs(L, s, D)
  PROVE  SwapIs(Reflect(L, t, h), s, D \cup {Entry(t, h, i)})
<1> DEFINE n == Entry(t, h, i)
           E == D \cup {n}
           M == Reflect(L, t, h)
<1> SUFFICES SwapIs(M, s, E) OBVIOUS
<1>1. n.tx = t /\ n.at = h BY EntryFields
<1>2. M.swaps = SwapsAfter(L, t) BY DEF Reflect
<1>3. L.swaps \in [TxIds -> Swap \cup {NONE}] BY LedgerTypes
<1>4. t.id \in TxIds BY DEF TxIds
<1>5. \A r \in Swap : r # NONE BY NoneAssumption
<1> HIDE DEF n, M
<1>6. CASE ~Settling(n, s)
  <2>1. CASE t.kind = "htlc_lock" /\ s = t.id
    <3>1. L.swaps[s] = NONE BY <2>1 DEF Applicable
    <3>2. M.swaps[s] = Opened(t) BY <2>1, <1>2, <1>3, <1>4 DEF SwapsAfter
    <3>3. M.swaps[s].status = "open" BY <3>2 DEF Opened
    <3>4. \A d \in D : ~Settling(d, s)
      BY <3>1 DEF SwapIs, Settling, Releases
    <3> QED BY <1>6, <3>3, <3>4 DEF SwapIs
  <2>2. CASE ~(t.kind = "htlc_lock" /\ s = t.id)
    <3>1. M.swaps[s] = L.swaps[s]
      BY <2>2, <1>1, <1>2, <1>3, <1>6 DEF SwapsAfter, Settling, Releases
    <3> QED BY <1>6, <3>1 DEF SwapIs
  <2> QED BY <2>1, <2>2
<1>7. CASE Settling(n, s)
  <2>1. Releases(t) /\ t.swap = s BY <1>1, <1>7 DEF Settling
  <2>2. L.swaps[s] # NONE /\ L.swaps[s].status = "open"
    BY <2>1 DEF Applicable, IsOpen
  <2>3. \A d \in D : ~Settling(d, s)
    BY <2>2 DEF SwapIs, Settling, Releases
  <2>4. CASE t.kind = "htlc_claim"
    <3>1. M.swaps[s] = Settled(L.swaps[s], "claimed", t.preimage)
      BY <2>1, <2>4, <1>2, <1>3 DEF SwapsAfter
    <3>2. M.swaps[s].status = "claimed" /\ M.swaps[s].expiry = L.swaps[s].expiry
      BY <3>1 DEF Settled
    <3>3. M.swaps[s] # NONE
      <4>1. t.preimage \in Secrets BY <2>4, TxsAssumption, TxShape
      <4>2. M.swaps[s] \in Swap
        BY <2>2, <3>1, <1>3, <4>1 DEF Settled, Swap
      <4> QED BY <4>2, <1>5
    <3>4. h < L.swaps[s].expiry BY <2>1, <2>4 DEF Timely
    <3> QED BY <2>3, <2>4, <3>2, <3>3, <3>4, <1>1, <1>7 DEF SwapIs
  <2>5. CASE t.kind = "htlc_refund"
    <3>1. M.swaps[s] = Settled(L.swaps[s], "refunded", NONE)
      BY <2>1, <2>5, <1>2, <1>3 DEF SwapsAfter
    <3>2. M.swaps[s].status = "refunded" /\ M.swaps[s].expiry = L.swaps[s].expiry
      BY <3>1 DEF Settled
    <3>3. M.swaps[s] # NONE
      <4>1. M.swaps[s] \in Swap
        BY <2>2, <3>1, <1>3 DEF Settled, Swap
      <4> QED BY <4>1, <1>5
    <3>4. h >= L.swaps[s].expiry BY <2>1, <2>5 DEF Timely
    <3> QED BY <2>3, <2>5, <3>2, <3>3, <3>4, <1>1, <1>7 DEF SwapIs
  <2> QED BY <2>1, <2>4, <2>5 DEF Releases
<1> QED BY <1>6, <1>7

\* What waits to be applied stays on the right side of its delay.
LEMMA TimelyKept ==
  ASSUME NEW L \in Ledgers, NEW t \in Txs, NEW u \in Txs, NEW h,
         Applicable(L, t), Applicable(L, u), Timely(L, u, h)
  PROVE  Timely(Reflect(L, t, h), u, h)
<1> DEFINE M == Reflect(L, t, h)
<1> SUFFICES Timely(M, u, h) OBVIOUS
<1>1. M.swaps = SwapsAfter(L, t) BY DEF Reflect
<1>2. L.swaps \in [TxIds -> Swap \cup {NONE}] BY LedgerTypes
<1> HIDE DEF M
<1>3. ASSUME Releases(u) PROVE M.swaps[u.swap].expiry = L.swaps[u.swap].expiry
  <2>1. u.swap \in TxIds /\ L.swaps[u.swap] # NONE
    BY <1>3 DEF Applicable, IsOpen
  <2>2. CASE t.kind = "htlc_lock"
    <3>1. L.swaps[t.id] = NONE BY <2>2 DEF Applicable
    <3> QED BY <2>1, <2>2, <3>1, <1>1, <1>2 DEF SwapsAfter
  <2>3. CASE t.kind = "htlc_claim" /\ t.swap = u.swap
    <3>1. M.swaps[u.swap] = Settled(L.swaps[u.swap], "claimed", t.preimage)
      BY <2>1, <2>3, <1>1, <1>2 DEF SwapsAfter
    <3> QED BY <3>1 DEF Settled
  <2>4. CASE t.kind = "htlc_refund" /\ t.swap = u.swap
    <3>1. M.swaps[u.swap] = Settled(L.swaps[u.swap], "refunded", NONE)
      BY <2>1, <2>4, <1>1, <1>2 DEF SwapsAfter
    <3> QED BY <3>1 DEF Settled
  <2>5. CASE t.kind # "htlc_lock" /\ ~(Releases(t) /\ t.swap = u.swap)
    BY <2>1, <2>5, <1>1, <1>2 DEF SwapsAfter, Releases
  <2> QED BY <2>2, <2>3, <2>4, <2>5 DEF Releases
<1> QED BY <1>3 DEF Timely, Releases

\* Applying a transaction explains the new ledger by the longer history.
LEMMA ExplainsStep ==
  ASSUME NEW L \in Ledgers, NEW t \in Txs, NEW h \in Nat, NEW i, NEW D,
         \A d \in D : d.at \in Nat /\ d.at <= h,
         Applicable(L, t), Timely(L, t, h), Explains(D, L)
  PROVE  Explains(D \cup {Entry(t, h, i)}, Reflect(L, t, h))
<1>1. IndexIs(Reflect(L, t, h), D \cup {Entry(t, h, i)})
  BY IndexStep DEF Explains, Applicable
<1>2. UnbondsAre(Reflect(L, t, h), D \cup {Entry(t, h, i)})
  BY UnbondsStep DEF Explains
<1>3. \A s \in TxIds : SwapIs(Reflect(L, t, h), s, D \cup {Entry(t, h, i)})
  BY SwapStep DEF Explains
<1> QED BY <1>1, <1>2, <1>3 DEF Explains

\* Rewards, burns and totals touch none of the explained rows.
LEMMA SealExplains ==
  ASSUME NEW L, NEW b, NEW h, NEW D, Explains(D, L)
  PROVE  Explains(D, Seal(L, b, h))
<1>1. /\ Seal(L, b, h).mined = L.mined
      /\ Seal(L, b, h).unbonding = L.unbonding
      /\ Seal(L, b, h).swaps = L.swaps
  BY DEF Seal
<1> QED BY <1>1 DEF Explains, IndexIs, UnbondsAre, SwapIs

-----------------------------------------------------------------------------
(* The history of a chain. *)

\* Entries of one more transaction, entries of none, and their heights.
LEMMA EntriesGrow ==
  ASSUME NEW body, NEW n \in Nat, NEW h
  PROVE  /\ Entries(body, n + 1, h) = Entries(body, n, h) \cup {Entry(body[n + 1], h, n + 1)}
         /\ Entries(body, 0, h) = {}
         /\ \A d \in Entries(body, n, h) : d.at = h
<1>1. 1 .. n + 1 = (1 .. n) \cup {n + 1} /\ 1 .. 0 = {} OBVIOUS
<1>2. Entries(body, n + 1, h) = Entries(body, n, h) \cup {Entry(body[n + 1], h, n + 1)}
  BY <1>1, Zenon DEF Entries, Entry
<1>3. Entries(body, 0, h) = {} BY <1>1 DEF Entries
<1>4. \A d \in Entries(body, n, h) : d.at = h BY DEF Entries
<1> QED BY <1>2, <1>3, <1>4

\* The history up to the next height, and the heights in it.
LEMMA DoneGrows ==
  ASSUME NEW h \in Nat
  PROVE  /\ Done(h + 1) = Done(h) \cup Entries(chain[h + 1].txs, Len(chain[h + 1].txs), h + 1)
         /\ Done(0) = {}
<1>1. 1 .. h + 1 = (1 .. h) \cup {h + 1} /\ 1 .. 0 = {} OBVIOUS
<1> QED BY <1>1 DEF Done

LEMMA DoneHeights ==
  ASSUME NEW h \in Nat, NEW d \in Done(h)
  PROVE  d.at \in Nat /\ d.at <= h
<1>1. PICK g \in 1 .. h : d \in Entries(chain[g].txs, Len(chain[g].txs), g)
  BY DEF Done
<1>2. d.at = g BY <1>1 DEF Entries
<1> QED BY <1>2

\* The history of the part of the chain that stays does not change.
LEMMA DoneKept ==
  ASSUME NEW h \in Nat, \A g \in 1 .. h : chain'[g] = chain[g]
  PROVE  Done(h)' = Done(h)
  BY DEF Done, Entries

-----------------------------------------------------------------------------
(* RowsExplained is inductive: one lemma per action. *)

\* Genesis has no rows to explain.
LEMMA InitExplained ==
  ASSUME Init
  PROVE  RowsExplained
<1>1. Tip = 0 /\ ledger = Genesis /\ op = "idle" BY DEF Init, Tip
<1>2. Done(0) = {} BY DoneGrows
<1>3. LedgerAfter(0) = Genesis BY <1>1 DEF LedgerAfter
<1>4. Explains({}, Genesis)
  <2>1. IndexIs(Genesis, {}) BY GenesisAssumption DEF IndexIs
  <2>2. UnbondsAre(Genesis, {}) BY GenesisAssumption DEF UnbondsAre
  <2>3. \A s \in TxIds : SwapIs(Genesis, s, {}) BY GenesisAssumption DEF SwapIs
  <2> QED BY <2>1, <2>2, <2>3 DEF Explains
<1>5. BodiesBounded BY <1>1 DEF BodiesBounded
<1>6. \A h \in 0 .. Tip : h = 0 BY <1>1
<1> QED BY <1>1, <1>2, <1>3, <1>4, <1>5, <1>6 DEF RowsExplained

\* What the actions that leave the committed state alone keep.
LEMMA CommittedExplained ==
  ASSUME RowsExplained, UNCHANGED <<chain, ledger, trace>>
  PROVE  /\ Tip' = Tip /\ \A h : Done(h)' = Done(h)
         /\ \A h \in 1 .. Tip' : Len(chain'[h].txs) <= MaxTxs
         /\ \A h \in 0 .. Tip' : Explains(Done(h), LedgerAfter(h))'
<1>1. Tip' = Tip BY DEF Tip
<1>2. \A h : Done(h)' = Done(h) /\ LedgerAfter(h)' = LedgerAfter(h)
  BY <1>1 DEF Done, Entries, LedgerAfter
<1>3. \A h \in 0 .. Tip : Explains(Done(h), LedgerAfter(h)) BY DEF RowsExplained
<1>4. \A h \in 0 .. Tip' : Explains(Done(h), LedgerAfter(h))'
  BY <1>1, <1>2, <1>3 DEF Explains, IndexIs, UnbondsAre, SwapIs, Asked, Matured
<1>5. \A h \in 1 .. Tip' : Len(chain'[h].txs) <= MaxTxs
  BY <1>1 DEF RowsExplained, BodiesBounded
<1> QED BY <1>1, <1>2, <1>4, <1>5

\* Outside a write transaction there is nothing else to explain.
LEMMA QuietExplained ==
  ASSUME RowsExplained, UNCHANGED <<chain, ledger, trace>>, op' # "incorporate"
  PROVE  RowsExplained'
  BY CommittedExplained DEF RowsExplained, BodiesBounded

\* Verification puts every transaction of the block on the right side of its
\* delay, as it lands at exactly max_block.
LEMMA VerifiedTimely ==
  ASSUME NEW L \in Ledgers, NEW t \in Txs, NEW h \in Nat, LandsAt(t, h), Valid(L, t)
  PROVE  Timely(L, t, h)
<1>1. ASSUME t.kind \in {"withdraw", "htlc_claim", "htlc_refund"} PROVE h = t.lands.max
  BY <1>1 DEF LandsAt, LandsFlexibly
<1>2. ASSUME t.kind = "withdraw" PROVE t.release <= h
  <2>1. t.lands.max >= t.release BY <1>2 DEF Valid, ValidWithdraw
  <2>2. t.release \in Nat BY <1>2, TxsAssumption, TxShape
  <2> QED BY <2>1, <2>2, <1>1, <1>2
<1>3. ASSUME t.kind = "htlc_claim" PROVE h < L.swaps[t.swap].expiry
  BY <1>1, <1>3 DEF Valid, ValidClaim
<1>4. ASSUME t.kind = "htlc_refund" PROVE h >= L.swaps[t.swap].expiry
  BY <1>1, <1>4 DEF Valid, ValidRefund
<1> QED BY <1>2, <1>3, <1>4 DEF Timely

LEMMA VerifyExplained ==
  ASSUME Reversible, RowsExplained, NEW head \in Headers, NEW body \in Bodies,
         VerifyBlock(head, body)
  PROVE  RowsExplained'
<1>1. /\ UNCHANGED <<chain, ledger, trace>> /\ op' = "incorporate"
      /\ block' = Block(head, body) /\ at' = 0 /\ txn' = ledger
      /\ BodyOk(ledger, body, Tip + 1)
  BY DEF VerifyBlock
<1>2. block'.txs = body /\ body \in Seq(Txs) BY <1>1, BlockTyped
<1>3. Tip \in Nat /\ ledger \in Ledgers BY DEF Reversible, TypeOK, Tip
<1>4. Len(body) <= MaxTxs
  <2>1. PICK n \in 0 .. MaxTxs : body \in [1 .. n -> Txs] BY DEF Bodies
  <2> QED BY <2>1, DepthAssumption
<1>5. Explains(Done(Tip), ledger)
  <2>1. LedgerAfter(Tip) = ledger BY <1>3 DEF LedgerAfter
  <2> QED BY <2>1, <1>3 DEF RowsExplained
<1>6. (Explains(Done(Tip) \cup Entries(block.txs, at, Tip + 1), txn))'
  <2>1. Entries(body, 0, Tip + 1) = {} BY EntriesGrow
  <2>2. Tip' = Tip /\ Done(Tip)' = Done(Tip) BY <1>1, CommittedExplained
  <2>3. (Done(Tip) \cup Entries(block.txs, at, Tip + 1))' = Done(Tip)
    BY <1>1, <1>2, <2>1, <2>2 DEF Entries
  <2> QED BY <1>1, <1>5, <2>3 DEF Explains, IndexIs, UnbondsAre, SwapIs, Asked, Matured
<1>7. ASSUME NEW j \in 1 .. Len(body) PROVE Timely(ledger, body[j], Tip + 1)
  <2>1. body[j] \in Txs /\ j \in DOMAIN body BY <1>2
  <2>2. LandsAt(body[j], Tip + 1) /\ Valid(ledger, body[j]) BY <1>1, <2>1 DEF BodyOk
  <2> QED BY <1>3, <2>1, <2>2, VerifiedTimely
<1>8. Tip' = Tip BY <1>1 DEF Tip
<1>9. (\A j \in at + 1 .. Len(block.txs) : Timely(txn, block.txs[j], Tip + 1))'
  BY <1>1, <1>2, <1>7, <1>8
<1>10. BodiesBounded' BY <1>1, <1>2, <1>4, CommittedExplained DEF BodiesBounded
<1> QED BY <1>1, <1>6, <1>9, <1>10, CommittedExplained DEF RowsExplained

\* The entry of the transaction indexed joins the block's.
LEMMA IndexExplained ==
  ASSUME Reversible, RowsExplained, IndexTransaction
  PROVE  RowsExplained'
<1> DEFINE body == block.txs
           h == Tip + 1
           t == body[at + 1]
           D == Done(Tip) \cup Entries(body, at, h)
<1>1. /\ UNCHANGED <<chain, ledger, trace, op, block>>
      /\ op = "incorporate" /\ at < Len(body) /\ at' = at + 1
      /\ txn' = Reflect(txn, t, h)
  BY DEF IndexTransaction
<1>2. block \in BlockType /\ at \in Nat /\ txn \in Ledgers /\ Tip \in Nat
  BY <1>1 DEF Reversible, TypeOK, Tip
<1>3. body \in Seq(Txs) /\ at + 1 \in 1 .. Len(body) /\ h \in Nat
  BY <1>1, <1>2 DEF BlockType
<1>4. t \in Txs BY <1>3
<1>5. ASSUME NEW j \in at + 1 .. Len(body) PROVE Applicable(txn, body[j])
  <2>1. IsRun(steps, body, h) /\ Len(steps) = at + 1 /\ txn = steps[at + 1]
    BY <1>1 DEF Reversible, Incorporating
  <2>2. at + 1 \in 1 .. Len(steps) BY <2>1, <1>2
  <2> QED BY <2>1, <2>2 DEF IsRun
<1>6. Explains(D, txn) /\ \A j \in at + 1 .. Len(body) : Timely(txn, body[j], h)
  BY <1>1 DEF RowsExplained
<1>7. \A d \in D : d.at \in Nat /\ d.at <= h
  <2>1. \A d \in Done(Tip) : d.at \in Nat /\ d.at <= h
    BY <1>2, DoneHeights
  <2>2. \A d \in Entries(body, at, h) : d.at = h BY <1>2, EntriesGrow
  <2> QED BY <1>3, <2>1, <2>2
<1>8. Applicable(txn, t) /\ Timely(txn, t, h) BY <1>3, <1>5, <1>6
<1> HIDE DEF D
<1>9. Explains(D \cup {Entry(t, h, at + 1)}, txn')
  BY <1>1, <1>2, <1>3, <1>4, <1>6, <1>7, <1>8, ExplainsStep
<1>10. D \cup {Entry(t, h, at + 1)} = Done(Tip) \cup Entries(body, at + 1, h)
  BY <1>2, EntriesGrow DEF D
<1>11. Tip' = Tip /\ Done(Tip)' = Done(Tip) BY <1>1, CommittedExplained
<1>12. (Done(Tip) \cup Entries(block.txs, at, Tip + 1))' = D \cup {Entry(t, h, at + 1)}
  BY <1>1, <1>10, <1>11 DEF Entries
<1>13. (Explains(Done(Tip) \cup Entries(block.txs, at, Tip + 1), txn))'
  BY <1>9, <1>12 DEF Explains, IndexIs, UnbondsAre, SwapIs, Asked, Matured
<1>14. ASSUME NEW j \in at + 2 .. Len(body) PROVE Timely(txn', body[j], h)
  <2>1. j \in at + 1 .. Len(body) /\ j \in 1 .. Len(body) BY <1>2, <1>3
  <2>2. body[j] \in Txs BY <1>3, <2>1
  <2>3. Applicable(txn, body[j]) /\ Timely(txn, body[j], h) BY <2>1, <1>5, <1>6
  <2> QED BY <1>1, <1>2, <1>4, <1>8, <2>2, <2>3, TimelyKept
<1>15. (\A j \in at + 1 .. Len(block.txs) : Timely(txn, block.txs[j], Tip + 1))'
  <2>1. at' + 1 = at + 2 BY <1>1, <1>2
  <2> QED BY <1>1, <1>11, <1>14, <2>1
<1>16. BodiesBounded' BY <1>1, CommittedExplained DEF BodiesBounded, RowsExplained
<1> QED BY <1>1, <1>13, <1>15, <1>16, CommittedExplained DEF RowsExplained

\* The block's entries join the chain's.
LEMMA CommitExplained ==
  ASSUME Reversible, RowsExplained, CommitBlock
  PROVE  RowsExplained'
<1>1. /\ op = "incorporate" /\ at = Len(block.txs) /\ op' = "idle"
      /\ chain' = Append(chain, block) /\ trace' = Append(trace, steps)
      /\ ledger' = Seal(txn, block, Tip + 1)
  BY DEF CommitBlock, CloseTxn
<1>2. /\ chain \in Seq(BlockType) /\ block \in BlockType /\ Tip \in Nat
      /\ trace \in Seq(Seq(Ledgers)) /\ Len(trace) = Tip /\ steps \in Seq(Ledgers)
  BY <1>1 DEF Reversible, TypeOK, Tip
<1>h. PICK h \in Nat : h = Tip + 1 BY <1>2
<1>3. steps[1] = ledger BY <1>1 DEF Reversible, Incorporating
<1>4. /\ Tip' = h /\ chain'[h] = block /\ trace'[h] = steps
      /\ \A g \in 1 .. Tip : chain'[g] = chain[g] /\ trace'[g] = trace[g]
  BY <1>1, <1>2, <1>h DEF Tip
<1>5. \A g \in 0 .. Tip : Done(g)' = Done(g) BY <1>2, <1>4, DoneKept
<1>6. ASSUME NEW g \in 0 .. Tip PROVE LedgerAfter(g)' = LedgerAfter(g)
  <2>1. CASE g = Tip
    BY <2>1, <1>2, <1>3, <1>4, <1>h DEF LedgerAfter
  <2>2. CASE g # Tip
    <3>1. g < Tip /\ g < Tip' /\ g + 1 \in 1 .. Tip BY <2>2, <1>2, <1>4, <1>h
    <3> QED BY <3>1, <1>4 DEF LedgerAfter
  <2> QED BY <2>1, <2>2
<1>7. ASSUME NEW g \in 0 .. Tip PROVE Explains(Done(g), LedgerAfter(g))'
  <2>1. Explains(Done(g), LedgerAfter(g)) BY DEF RowsExplained
  <2> QED BY <2>1, <1>5, <1>6
          DEF Explains, IndexIs, UnbondsAre, SwapIs, Asked, Matured
<1>8. Explains(Done(h), LedgerAfter(h))'
  <2>1. Done(h)' = Done(Tip) \cup Entries(block.txs, Len(block.txs), h)
    <3>1. 1 .. h = (1 .. Tip) \cup {h} BY <1>2, <1>h
    <3>2. \A g \in 1 .. Tip : Entries(chain'[g].txs, Len(chain'[g].txs), g)
                              = Entries(chain[g].txs, Len(chain[g].txs), g)
      BY <1>4
    <3>3. Entries(chain'[h].txs, Len(chain'[h].txs), h)
            = Entries(block.txs, Len(block.txs), h)
      BY <1>4
    <3>4. Done(h)' = UNION {Entries(chain'[g].txs, Len(chain'[g].txs), g) : g \in 1 .. h}
      BY DEF Done, Entries
    <3> QED BY <3>1, <3>2, <3>3, <3>4 DEF Done
  <2>2. LedgerAfter(h)' = ledger' BY <1>4 DEF LedgerAfter
  <2>3. Explains(Done(Tip) \cup Entries(block.txs, Len(block.txs), h), txn)
    BY <1>1, <1>h DEF RowsExplained
  <2>4. Explains(Done(Tip) \cup Entries(block.txs, Len(block.txs), h), ledger')
    BY <2>3, <1>1, <1>h, SealExplains
  <2> QED BY <2>1, <2>2, <2>4
          DEF Explains, IndexIs, UnbondsAre, SwapIs, Asked, Matured
<1>9. \A g \in 0 .. Tip' : Explains(Done(g), LedgerAfter(g))'
  <2>1. \A g \in 0 .. Tip' : g \in 0 .. Tip \/ g = h BY <1>2, <1>4, <1>h
  <2> QED BY <2>1, <1>7, <1>8
<1>10. BodiesBounded'
  <2>1. \A g \in 1 .. Tip' : g \in 1 .. Tip \/ g = h BY <1>2, <1>4, <1>h
  <2>2. \A g \in 1 .. Tip : Len(chain[g].txs) <= MaxTxs BY DEF RowsExplained, BodiesBounded
  <2>3. Len(block.txs) <= MaxTxs BY <1>1 DEF RowsExplained, BodiesBounded
  <2> QED BY <2>1, <2>2, <2>3, <1>1, <1>4 DEF BodiesBounded
<1> QED BY <1>1, <1>9, <1>10 DEF RowsExplained

\* A rollback leads back to a ledger that its own history explains.
LEMMA RollbackExplained ==
  ASSUME Reversible, RowsExplained, CommitRollback
  PROVE  RowsExplained'
<1>1. /\ op = "rollback" /\ at = 0 /\ op' = "idle" /\ ledger' = txn
      /\ chain' = SubSeq(chain, 1, Tip - 1) /\ trace' = SubSeq(trace, 1, Tip - 1)
  BY DEF CommitRollback, CloseTxn
<1>2. Tip \in Nat /\ Tip > 0 /\ txn = LedgerAfter(Tip - 1) BY <1>1, RolledBack
<1>3. /\ chain \in Seq(BlockType) /\ trace \in Seq(Seq(Ledgers)) /\ Len(trace) = Tip
      /\ Len(chain) = Tip
  BY DEF Reversible, TypeOK, Tip
<1>4. /\ Tip' = Tip - 1
      /\ \A g \in 1 .. Tip - 1 : chain'[g] = chain[g] /\ trace'[g] = trace[g]
  BY <1>1, <1>2, <1>3 DEF Tip
<1>5. ASSUME NEW g \in 0 .. Tip' PROVE Explains(Done(g), LedgerAfter(g))'
  <2>1. Done(g)' = Done(g) BY <1>2, <1>4, DoneKept
  <2>2. LedgerAfter(g)' = LedgerAfter(g)
    <3>1. CASE g = Tip - 1 BY <3>1, <1>1, <1>2, <1>4 DEF LedgerAfter
    <3>2. CASE g # Tip - 1
      <4>1. g < Tip - 1 /\ g < Tip /\ g + 1 \in 1 .. Tip - 1 BY <3>2, <1>2, <1>4
      <4> QED BY <4>1, <1>4 DEF LedgerAfter
    <3> QED BY <3>1, <3>2
  <2>3. Explains(Done(g), LedgerAfter(g)) BY <1>2, <1>4 DEF RowsExplained
  <2> QED BY <2>1, <2>2, <2>3
          DEF Explains, IndexIs, UnbondsAre, SwapIs, Asked, Matured
<1>6. BodiesBounded'
  <2>1. \A g \in 1 .. Tip : Len(chain[g].txs) <= MaxTxs BY DEF RowsExplained, BodiesBounded
  <2> QED BY <2>1, <1>1, <1>2, <1>4 DEF BodiesBounded
<1> QED BY <1>1, <1>5, <1>6 DEF RowsExplained

LEMMA NextExplained ==
  ASSUME Reversible, RowsExplained, [Next]_vars
  PROVE  RowsExplained'
<1>1. ASSUME NEW head \in Headers, NEW body \in Bodies, VerifyBlock(head, body)
      PROVE  RowsExplained'
  BY <1>1, VerifyExplained
<1>2. CASE IndexTransaction BY <1>2, IndexExplained
<1>3. CASE CommitBlock BY <1>3, CommitExplained
<1>4. CASE StartRollback BY <1>4, QuietExplained DEF StartRollback
<1>5. CASE UnindexTransaction BY <1>5, QuietExplained DEF UnindexTransaction
<1>6. CASE CommitRollback BY <1>6, RollbackExplained
<1>7. CASE Raise BY <1>7, QuietExplained DEF Raise, CloseTxn
<1>8. CASE Crash BY <1>8, QuietExplained DEF Crash, CloseTxn
<1>9. CASE UNCHANGED vars
  <2>1. UNCHANGED <<chain, ledger, trace, op, block, at, txn>> BY <1>9 DEF vars
  <2>2. Tip' = Tip /\ Done(Tip)' = Done(Tip) BY <2>1, CommittedExplained
  <2>3. BodiesBounded' BY <2>1, CommittedExplained DEF BodiesBounded, RowsExplained
  <2>4. (Done(Tip) \cup Entries(block.txs, at, Tip + 1))'
          = Done(Tip) \cup Entries(block.txs, at, Tip + 1)
    BY <2>1, <2>2 DEF Entries
  <2>5. (op = "incorporate" =>
           /\ Explains(Done(Tip) \cup Entries(block.txs, at, Tip + 1), txn)
           /\ \A j \in at + 1 .. Len(block.txs) : Timely(txn, block.txs[j], Tip + 1))'
    BY <2>1, <2>2, <2>4
       DEF RowsExplained, Explains, IndexIs, UnbondsAre, SwapIs, Asked, Matured
  <2> QED BY <2>1, <2>3, <2>5, CommittedExplained DEF RowsExplained
<1> QED BY <1>1, <1>2, <1>3, <1>4, <1>5, <1>6, <1>7, <1>8, <1>9 DEF Next

-----------------------------------------------------------------------------
(* The theorems. *)

\* In every reachable state each row of the tx index, of the pending unbonds
\* and of the swaps has the history on the chain that it stands for, so that
\* looking at the row is as good as looking at the chain.
THEOREM RowsInvariant == Spec => [](Reversible /\ RowsExplained)
<1>1. Init => RowsExplained BY InitExplained
<1>2. Reversible /\ RowsExplained /\ [Next]_vars => RowsExplained'
  BY NextExplained
<1> QED BY <1>1, <1>2, ReversibleInvariant, PTL DEF Spec

\* What the invariant says of the whole chain.
LEMMA TipExplained ==
  ASSUME Reversible, RowsExplained
  PROVE  Explains(Done(Tip), ledger)
<1>1. Tip \in Nat BY DEF Reversible, TypeOK, Tip
<1>2. LedgerAfter(Tip) = ledger BY <1>1 DEF LedgerAfter
<1> QED BY <1>1, <1>2 DEF RowsExplained

\* The positions that the properties of Ledger quantify over, and the entries
\* of the history, are the same thing.
LEMMA PositionsAreEntries ==
  ASSUME Reversible, RowsExplained
  PROVE  /\ \A p \in Everywhere :
              /\ p = <<p[1], p[2]>> /\ p[1] \in 1 .. Tip
              /\ Entry(TxAt(p), p[1], p[2]) \in Done(Tip)
         /\ \A k : \A p \in OnChain(k) : p \in Everywhere /\ TxAt(p).kind = k
         /\ \A d \in Done(Tip) :
              /\ <<d.at, d.ix>> \in Everywhere /\ TxAt(<<d.at, d.ix>>) = d.tx
              /\ <<d.at, d.ix>> \in OnChain(d.tx.kind)
<1>1. chain \in Seq(BlockType) /\ Tip = Len(chain) /\ Tip \in Nat /\ MaxTxs \in Nat
  BY DepthAssumption DEF Reversible, TypeOK, Tip
<1>2. ASSUME NEW h \in 1 .. Tip
      PROVE  chain[h].txs \in Seq(Txs) /\ Len(chain[h].txs) <= MaxTxs
  <2>1. chain[h] \in BlockType BY <1>1
  <2> QED BY <2>1 DEF BlockType, RowsExplained, BodiesBounded
<1>3. ASSUME NEW k, NEW p \in OnChain(k)
      PROVE  /\ p = <<p[1], p[2]>> /\ p[1] \in 1 .. Tip /\ p[2] \in 1 .. Len(chain[p[1]].txs)
             /\ TxAt(p).kind = k /\ TxAt(p) \in Txs
             /\ Entry(TxAt(p), p[1], p[2]) \in Done(Tip)
  <2>1. PICK h \in 1 .. Tip, i \in 1 .. MaxTxs :
          p = <<h, i>> /\ i <= Len(chain[h].txs) /\ chain[h].txs[i].kind = k
    BY <1>3 DEF OnChain
  <2>2. p[1] = h /\ p[2] = i /\ TxAt(p) = chain[h].txs[i] BY <2>1 DEF TxAt
  <2>3. i \in 1 .. Len(chain[h].txs) BY <1>1, <1>2, <2>1
  <2>4. chain[h].txs[i] \in Txs BY <1>2, <2>3
  <2>5. Entry(chain[h].txs[i], h, i) \in Entries(chain[h].txs, Len(chain[h].txs), h)
    BY <2>3 DEF Entry, Entries
  <2>6. Entry(chain[h].txs[i], h, i) \in Done(Tip) BY <2>5 DEF Done
  <2> QED BY <2>1, <2>2, <2>3, <2>4, <2>6
<1>4. ASSUME NEW k, NEW p \in OnChain(k) PROVE p \in Everywhere
  <2>1. k \in {t.kind : t \in Txs} BY <1>3, <1>4
  <2> QED BY <1>4, <2>1 DEF Everywhere
<1>5. ASSUME NEW p \in Everywhere PROVE \E k : p \in OnChain(k) BY <1>5 DEF Everywhere
<1>6. ASSUME NEW d \in Done(Tip)
      PROVE  /\ <<d.at, d.ix>> \in OnChain(d.tx.kind) /\ TxAt(<<d.at, d.ix>>) = d.tx
  <2>1. PICK g \in 1 .. Tip : d \in Entries(chain[g].txs, Len(chain[g].txs), g)
    BY <1>6 DEF Done
  <2>2. PICK i \in 1 .. Len(chain[g].txs) : d = [tx |-> chain[g].txs[i], at |-> g, ix |-> i]
    BY <2>1 DEF Entries
  <2>3. d.tx = chain[g].txs[i] /\ d.at = g /\ d.ix = i BY <2>2
  <2>4. i \in 1 .. MaxTxs /\ i <= Len(chain[g].txs) BY <1>1, <1>2
  <2>5. TxAt(<<g, i>>) = chain[g].txs[i] BY DEF TxAt
  <2> QED BY <2>3, <2>4, <2>5 DEF OnChain
<1> QED BY <1>3, <1>4, <1>5, <1>6

\* A transaction is mined at most once on the chain, and the tx index lists
\* exactly the chain's transactions, through every rollback and crash: the
\* replay check of validate_transaction needs no other source.
THEOREM MinedAtMostOnce == Spec => []MinedOnce
<1>1. Reversible /\ RowsExplained => MinedOnce
  <2> SUFFICES ASSUME Reversible, RowsExplained PROVE MinedOnce OBVIOUS
  <2>1. IndexIs(ledger, Done(Tip)) BY TipExplained DEF Explains
  <2>2. ASSUME NEW p \in Everywhere, NEW q \in Everywhere, TxAt(p).id = TxAt(q).id
        PROVE  p = q
    <3>1. Entry(TxAt(p), p[1], p[2]) = Entry(TxAt(q), q[1], q[2])
      BY <2>1, <2>2, PositionsAreEntries, EntryFields DEF IndexIs
    <3>2. p[1] = q[1] /\ p[2] = q[2] BY <3>1, EntryFields
    <3> QED BY <3>2, PositionsAreEntries
  <2>3. {d.tx.id : d \in Done(Tip)} = {TxAt(p).id : p \in Everywhere}
    <3>1. ASSUME NEW d \in Done(Tip) PROVE \E p \in Everywhere : d.tx.id = TxAt(p).id
      BY <3>1, PositionsAreEntries
    <3>2. ASSUME NEW p \in Everywhere PROVE \E d \in Done(Tip) : TxAt(p).id = d.tx.id
      BY <3>2, PositionsAreEntries, EntryFields
    <3> QED BY <3>1, <3>2
  <2> QED BY <2>1, <2>2, <2>3 DEF MinedOnce, IndexIs
<1> QED BY <1>1, RowsInvariant, PTL

\* A bond is paid out only after a request at least BondUnlockDelay blocks
\* old, and each request pays out once, whatever is rolled back and reapplied
\* in between (reflect_transaction, unbond and withdraw).
THEOREM WithdrawalsMature == Spec => []WithdrawalsMatured
<1>1. Reversible /\ RowsExplained => WithdrawalsMatured
  <2> SUFFICES ASSUME Reversible, RowsExplained, NEW w \in OnChain("withdraw")
               PROVE  \E u \in OnChain("unbond") :
                         /\ TxAt(u).sender = TxAt(w).sender
                         /\ TxAt(u).amount = TxAt(w).claims
                         /\ u[1] + BondUnlockDelay <= w[1]
                         /\ \A x \in OnChain("withdraw") :
                               TxAt(x).sender = TxAt(w).sender /\ x[1] > u[1]
                                 => x[1] >= w[1]
    BY DEF WithdrawalsMatured
  <2> DEFINE n == Entry(TxAt(w), w[1], w[2])
  <2>1. n \in Done(Tip) /\ n.tx = TxAt(w) /\ n.at = w[1] /\ n.tx.kind = "withdraw"
    BY PositionsAreEntries, EntryFields
  <2> HIDE DEF n
  <2>2. Matured(n, Done(Tip)) BY <2>1, TipExplained DEF Explains, UnbondsAre
  <2>3. PICK d \in Done(Tip) :
          /\ d.tx.kind = "unbond" /\ d.tx.sender = TxAt(w).sender
          /\ d.tx.amount = TxAt(w).claims /\ d.at + BondUnlockDelay <= w[1]
          /\ \A x \in Done(Tip) : Withdraws(x, TxAt(w).sender) /\ x.at > d.at => x.at >= w[1]
    BY <2>1, <2>2 DEF Matured
  <2> DEFINE u == <<d.at, d.ix>>
  <2>4. u \in OnChain("unbond") /\ TxAt(u) = d.tx /\ u[1] = d.at
    BY <2>3, PositionsAreEntries
  <2>5. ASSUME NEW x \in OnChain("withdraw"), TxAt(x).sender = TxAt(w).sender, x[1] > d.at
        PROVE  x[1] >= w[1]
    <3>1. Entry(TxAt(x), x[1], x[2]) \in Done(Tip) /\ TxAt(x).kind = "withdraw"
      BY PositionsAreEntries
    <3> QED BY <2>3, <2>5, <3>1, EntryFields DEF Withdraws
  <2> QED BY <2>3, <2>4, <2>5
<1> QED BY <1>1, RowsInvariant, PTL

\* A swap is settled at most once, claimed before its expiry or refunded from
\* then on, and its stored status says which (the htlc kinds of
\* reflect_transaction and their inverses).
THEOREM SwapsSettleOnce == Spec => []SwapSettledOnce
<1>1. Reversible /\ RowsExplained => SwapSettledOnce
  <2> SUFFICES ASSUME Reversible, RowsExplained, NEW s \in TxIds
               PROVE  LET claims  == {p \in OnChain("htlc_claim")  : TxAt(p).swap = s}
                          refunds == {p \in OnChain("htlc_refund") : TxAt(p).swap = s}
                      IN  /\ Cardinality(claims \cup refunds) <= 1
                          /\ claims # {} <=> ledger.swaps[s] # NONE /\ ledger.swaps[s].status = "claimed"
                          /\ refunds # {} <=> ledger.swaps[s] # NONE /\ ledger.swaps[s].status = "refunded"
                          /\ \A p \in claims  : p[1] < ledger.swaps[s].expiry
                          /\ \A p \in refunds : p[1] >= ledger.swaps[s].expiry
    BY DEF SwapSettledOnce
  <2> DEFINE claims  == {p \in OnChain("htlc_claim")  : TxAt(p).swap = s}
             refunds == {p \in OnChain("htlc_refund") : TxAt(p).swap = s}
             of(p) == Entry(TxAt(p), p[1], p[2])
  <2>1. SwapIs(ledger, s, Done(Tip)) BY TipExplained DEF Explains
  <2>2. ASSUME NEW p \in claims \cup refunds
        PROVE  /\ p = <<p[1], p[2]>>
               /\ of(p) \in Done(Tip) /\ Settling(of(p), s) /\ of(p).at = p[1]
               /\ p \in claims => of(p).tx.kind = "htlc_claim"
               /\ p \in refunds => of(p).tx.kind = "htlc_refund"
    <3>1. p \in Everywhere BY PositionsAreEntries
    <3>2. TxAt(p).swap = s OBVIOUS
    <3>3. /\ p \in claims => TxAt(p).kind = "htlc_claim"
          /\ p \in refunds => TxAt(p).kind = "htlc_refund"
      BY PositionsAreEntries
    <3> QED BY <3>1, <3>2, <3>3, PositionsAreEntries, EntryFields DEF Settling, Releases
  <2>3. ASSUME NEW d \in Done(Tip), Settling(d, s)
        PROVE  /\ d.tx.kind = "htlc_claim" => claims # {}
               /\ d.tx.kind = "htlc_refund" => refunds # {}
    <3>1. <<d.at, d.ix>> \in OnChain(d.tx.kind) /\ TxAt(<<d.at, d.ix>>).swap = s
      BY <2>3, PositionsAreEntries DEF Settling
    <3> QED BY <3>1
  <2>4. \A p, q \in claims \cup refunds : p = q
    <3> SUFFICES ASSUME NEW p \in claims \cup refunds, NEW q \in claims \cup refunds
                 PROVE  p = q
      OBVIOUS
    <3>1. of(p) = of(q) BY <2>1, <2>2 DEF SwapIs
    <3>2. p[1] = q[1] /\ p[2] = q[2] BY <3>1, EntryFields
    <3> QED BY <2>2, <3>2
  <2> HIDE DEF claims, refunds, of
  <2>5. Cardinality(claims \cup refunds) <= 1
    <3>1. CASE claims \cup refunds = {} BY <3>1, FS_EmptySet
    <3>2. CASE claims \cup refunds # {}
      <4>1. PICK p : claims \cup refunds = {p} BY <3>2, <2>4
      <4>2. Cardinality({p}) = 1 BY FS_Singleton, Zenon
      <4> QED BY <4>1, <4>2
    <3> QED BY <3>1, <3>2
  <2>6. claims # {} <=> \E d \in Done(Tip) : Settling(d, s) /\ d.tx.kind = "htlc_claim"
    BY <2>2, <2>3
  <2>7. refunds # {} <=> \E d \in Done(Tip) : Settling(d, s) /\ d.tx.kind = "htlc_refund"
    BY <2>2, <2>3
  <2>8. ASSUME NEW p \in claims PROVE p[1] < ledger.swaps[s].expiry
    BY <2>1, <2>2, <2>8 DEF SwapIs
  <2>9. ASSUME NEW p \in refunds PROVE p[1] >= ledger.swaps[s].expiry
    BY <2>1, <2>2, <2>9 DEF SwapIs
  <2> QED BY <2>1, <2>5, <2>6, <2>7, <2>8, <2>9 DEF SwapIs, claims, refunds
<1> QED BY <1>1, RowsInvariant, PTL

-----------------------------------------------------------------------------
(* Sums over the rows of a ledger. *)

\* There are finitely many holders.
LEMMA FiniteHolders == IsFiniteSet(Holders) /\ Reserved \subseteq Holders
<1>1. Reserved = (({} \cup {"htlc"}) \cup {"dividend_pool"}) \cup {"treasury"}
  BY DEF Reserved
<1>2. IsFiniteSet({}) BY FS_EmptySet
<1>3. IsFiniteSet({} \cup {"htlc"}) BY <1>2, FS_AddElement
<1>4. IsFiniteSet(({} \cup {"htlc"}) \cup {"dividend_pool"}) BY <1>3, FS_AddElement
<1>5. IsFiniteSet(Reserved) BY <1>1, <1>4, FS_AddElement
<1> QED BY <1>5, FiniteAssumption, FS_Union DEF Holders

\* There are finitely many txids.
LEMMA FiniteTxIds == IsFiniteSet(TxIds)
<1> DEFINE f == [t \in Txs |-> t.id]
<1>1. f \in Surjection(Txs, TxIds) BY DEF Surjection, TxIds
<1> QED BY <1>1, FiniteAssumption, FS_Surjection

\* The coins of a ledger are its balances and its bonds.
LEMMA CoinsAreSums ==
  ASSUME NEW L \in Ledgers
  PROVE  /\ Coins(L) = SumFunctionOnSet(L.balance, Holders)
                         + SumFunctionOnSet(L.bonded, Accounts)
         /\ SumFunctionOnSet(L.balance, Holders) \in Int
         /\ SumFunctionOnSet(L.bonded, Accounts) \in Int
<1>1. L.balance \in [Holders -> Int] /\ L.bonded \in [Accounts -> Int] BY LedgerTypes
<1>2. [a \in Holders |-> L.balance[a]] = L.balance
      /\ [a \in Accounts |-> L.bonded[a]] = L.bonded
  BY <1>1
<1>3. SumFunction(L.balance) = SumFunctionOnSet(L.balance, Holders)
      /\ SumFunction(L.bonded) = SumFunctionOnSet(L.bonded, Accounts)
  BY <1>1 DEF SumFunction
<1>4. Coins(L) = SumFunction(L.balance) + SumFunction(L.bonded)
  BY <1>2 DEF Coins, SumOver
<1> QED BY <1>1, <1>3, <1>4, SumInt, FiniteHolders, FiniteAssumption

\* The debt of the escrow account is a sum over all txids.
Debt(L) == [s \in TxIds |-> Owed(L, s)]

\* What Escrowed says, as a sum over all txids.
LEMMA EscrowIsSum ==
  ASSUME NEW L \in Ledgers
  PROVE  /\ Escrowed(L) <=> L.balance["htlc"] >= SumFunctionOnSet(Debt(L), TxIds)
         /\ SumFunctionOnSet(Debt(L), TxIds) \in Nat
         /\ \A s \in TxIds : Debt(L)[s] = Owed(L, s) /\ Owed(L, s) \in Nat
<1>1. L.swaps \in [TxIds -> Swap \cup {NONE}] BY LedgerTypes
<1>2. \A s \in TxIds : Debt(L)[s] = Owed(L, s) /\ Owed(L, s) \in Nat
  BY <1>1 DEF Owed, Swap, Debt
<1>3. SumFunctionOnSet(Debt(L), TxIds) \in Nat BY <1>2, SumNat, FiniteTxIds
<1>4. SumFunction(Debt(L)) = SumFunctionOnSet(Debt(L), TxIds) BY DEF SumFunction, Debt
<1>5. SumOver(LAMBDA s : Owed(L, s), TxIds) = SumFunction(Debt(L)) BY DEF SumOver, Debt
<1>6. Escrowed(L) <=> L.balance["htlc"] >= SumFunction(Debt(L)) BY <1>5 DEF Escrowed
<1> QED BY <1>2, <1>3, <1>4, <1>6

-----------------------------------------------------------------------------
(* One transaction. *)

\* No transaction mints or leaks.
LEMMA ReflectSupply ==
  ASSUME NEW L \in Ledgers, NEW t \in Txs, NEW h \in Heights, Applicable(L, t)
  PROVE  Supply(Reflect(L, t, h)) = Supply(L)
<1>1. PICK M \in Ledgers : M = Reflect(L, t, h) BY ReflectTyped
<1>2. /\ L.balance \in [Holders -> Int] /\ L.bonded \in [Accounts -> Int]
      /\ L.fees \in Int /\ L.produced \in Int
  BY LedgerTypes
<1>3. /\ M.balance = [a \in Holders |-> L.balance[a] + CoinMove(L, t, a)]
      /\ M.bonded = [a \in Accounts |-> L.bonded[a] + StakeMove(t, a)]
      /\ M.fees = L.fees + Destroys(t) /\ M.produced = L.produced
  BY <1>1 DEF Reflect
<1>4. PICK p \in Holders, q \in Holders, s \in Accounts,
           out \in Int, gain \in Int, stake \in Int, lost \in Int :
        /\ p = Payer(t) /\ q = Payee(L, t) /\ s = Staker(t)
        /\ out = -Pays(L, t) /\ gain = Receives(L, t)
        /\ stake = StakeMove(t, s) /\ lost = Destroys(t)
        /\ gain + out + stake + lost = 0
  <2>1. -Pays(L, t) \in Int /\ Receives(L, t) \in Int /\ Destroys(t) \in Int BY MovesBalance
  <2> QED BY <2>1, MovesBalance
<1>5. PICK paid :
        \A a \in Holders : /\ paid[a] = L.balance[a] + (IF a = p THEN out ELSE 0)
                           /\ paid[a] \in Int
  <2>1. LET f == [a \in Holders |-> L.balance[a] + (IF a = p THEN out ELSE 0)]
        IN  \A a \in Holders : /\ f[a] = L.balance[a] + (IF a = p THEN out ELSE 0)
                               /\ f[a] \in Int
    BY <1>2
  <2> QED BY <2>1
<1>6. SumFunctionOnSet(paid, Holders) = SumFunctionOnSet(L.balance, Holders) + out
  BY <1>2, <1>5, SumBump, FiniteHolders
<1>7. \A a \in Holders : M.balance[a] = paid[a] + (IF a = q THEN gain ELSE 0)
  <2> SUFFICES ASSUME NEW a \in Holders
               PROVE  M.balance[a] = paid[a] + (IF a = q THEN gain ELSE 0)
    OBVIOUS
  <2>1. M.balance[a] = L.balance[a] + CoinMove(L, t, a) BY <1>3
  <2>2. PICK n \in Nat : n = Pays(L, t) /\ out = -n BY <1>4, MovesBalance
  <2>3. CoinMove(L, t, a) = (IF a = q THEN gain ELSE 0) - (IF a = p THEN n ELSE 0)
    BY <1>4, <2>2 DEF CoinMove
  <2>4. L.balance[a] \in Int BY <1>2
  <2>5. paid[a] = L.balance[a] + (IF a = p THEN -n ELSE 0) BY <1>5, <2>2
  <2> QED BY <2>1, <2>3, <2>4, <2>5
<1>8. SumFunctionOnSet(M.balance, Holders) = SumFunctionOnSet(paid, Holders) + gain
  BY <1>5, <1>7, SumBump, FiniteHolders
<1>9. \A a \in Accounts : M.bonded[a] = L.bonded[a] + (IF a = s THEN stake ELSE 0)
  BY <1>2, <1>3, <1>4 DEF StakeMove
<1>10. SumFunctionOnSet(M.bonded, Accounts) = SumFunctionOnSet(L.bonded, Accounts) + stake
  <2>1. \A a \in Accounts : L.bonded[a] \in Int BY <1>2
  <2> QED BY <1>9, <2>1, SumBump, FiniteAssumption
<1>11. Coins(M) = Coins(L) + gain + out + stake /\ Coins(L) \in Int
  BY <1>1, <1>6, <1>8, <1>10, CoinsAreSums
<1> QED BY <1>1, <1>2, <1>3, <1>4, <1>11 DEF Supply
-----------------------------------------------------------------------------
(* What closes a block. *)

\* A reward mints exactly what `produced' counts, and a burn destroys what it
\* adds to `fees'.
LEMMA SealSupply ==
  ASSUME NEW L \in Ledgers, NEW h \in Heights,
         NEW b, b.reward \in Nat, b.creator \in Accounts
  PROVE  Supply(Seal(L, b, h)) = Supply(L)
<1>1. PICK M \in Ledgers : M = Seal(L, b, h) BY SealTyped
<1>2. PICK n \in Int : n = BurnAt(L, b, h) BY BurnTyped
<1>3. PICK x \in Int, y \in Int, z \in Int :
        /\ x = RewardOf(b).producer /\ y = RewardOf(b).dividend
        /\ z = RewardOf(b).treasury /\ x + y + z = b.reward
  BY RewardParts
<1>4. /\ \A a \in Holders : M.balance[a] = L.balance[a] + RewardMove(b, a)
                                            - (IF a = "treasury" THEN n ELSE 0)
      /\ M.bonded = L.bonded
      /\ M.fees = L.fees + n /\ M.produced = L.produced + b.reward
  BY <1>1, <1>2 DEF Seal
<1>5. /\ L.fees \in Int /\ L.produced \in Int
      /\ \A a \in Holders : L.balance[a] \in Int
  BY LedgerTypes
<1>6. PICK c \in Holders : /\ c = b.creator
                          /\ "dividend_pool" \in Holders /\ "treasury" \in Holders
  BY DEF Holders, Reserved
<1>7. PICK f : \A a \in Holders :
        f[a] = L.balance[a] + (IF a = c THEN x ELSE 0) /\ f[a] \in Int
  <2>1. LET g == [a \in Holders |-> L.balance[a] + (IF a = c THEN x ELSE 0)]
        IN  \A a \in Holders :
              g[a] = L.balance[a] + (IF a = c THEN x ELSE 0) /\ g[a] \in Int
    BY <1>5
  <2> QED BY <2>1
<1>8. PICK g : \A a \in Holders :
        g[a] = f[a] + (IF a = "dividend_pool" THEN y ELSE 0) /\ g[a] \in Int
  <2>1. LET e == [a \in Holders |-> f[a] + (IF a = "dividend_pool" THEN y ELSE 0)]
        IN  \A a \in Holders :
              e[a] = f[a] + (IF a = "dividend_pool" THEN y ELSE 0) /\ e[a] \in Int
    BY <1>7
  <2> QED BY <2>1
<1>9. \A a \in Holders : M.balance[a] = g[a] + (IF a = "treasury" THEN z - n ELSE 0)
  <2> SUFFICES ASSUME NEW a \in Holders
               PROVE  M.balance[a] = g[a] + (IF a = "treasury" THEN z - n ELSE 0)
    OBVIOUS
  <2>1. RewardMove(b, a) = (IF a = c THEN x ELSE 0)
                             + (IF a = "dividend_pool" THEN y ELSE 0)
                             + (IF a = "treasury" THEN z ELSE 0)
    BY <1>3, <1>6 DEF RewardMove
  <2>2. M.balance[a] = L.balance[a] + RewardMove(b, a) - (IF a = "treasury" THEN n ELSE 0)
    BY <1>4
  <2>3. f[a] = L.balance[a] + (IF a = c THEN x ELSE 0) /\ f[a] \in Int BY <1>7
  <2>4. g[a] = f[a] + (IF a = "dividend_pool" THEN y ELSE 0) /\ g[a] \in Int BY <1>8
  <2>5. L.balance[a] \in Int BY <1>5
  <2> QED BY <2>1, <2>2, <2>3, <2>4, <2>5
<1>10. SumFunctionOnSet(f, Holders) = SumFunctionOnSet(L.balance, Holders) + x
  <2>1. \A a \in Holders : L.balance[a] \in Int BY <1>5
  <2>2. \A a \in Holders : f[a] = L.balance[a] + (IF a = c THEN x ELSE 0) BY <1>7
  <2> QED BY <2>1, <2>2, SumBump, FiniteHolders
<1>11. SumFunctionOnSet(g, Holders) = SumFunctionOnSet(f, Holders) + y
  <2>1. "dividend_pool" \in Holders BY <1>6
  <2>2. \A a \in Holders : f[a] \in Int BY <1>7
  <2>3. \A a \in Holders : g[a] = f[a] + (IF a = "dividend_pool" THEN y ELSE 0) BY <1>8
  <2> QED BY <2>1, <2>2, <2>3, SumBump, FiniteHolders
<1>12. SumFunctionOnSet(M.balance, Holders) = SumFunctionOnSet(g, Holders) + (z - n)
  <2>1. z - n \in Int OBVIOUS
  <2>2. "treasury" \in Holders BY <1>6
  <2>3. \A a \in Holders : g[a] \in Int BY <1>8
  <2> QED BY <1>9, <2>1, <2>2, <2>3, SumBump, FiniteHolders
<1>13. Coins(M) = Coins(L) + x + y + z - n /\ Coins(L) \in Int
  <2>1. SumFunctionOnSet(L.balance, Holders) \in Int /\ SumFunctionOnSet(L.bonded, Accounts) \in Int
    BY CoinsAreSums
  <2> QED BY <1>4, <1>10, <1>11, <1>12, <2>1, CoinsAreSums
<1> QED BY <1>1, <1>3, <1>4, <1>5, <1>13 DEF Supply

-----------------------------------------------------------------------------
(* The escrow account. *)

\* A transaction adds to the escrow account at least what it adds to its debt:
\* a lock both, a settlement neither, a stray transfer to it only coins.
LEMMA ReflectEscrowed ==
  ASSUME NEW L \in Ledgers, NEW t \in Txs, NEW h \in Heights, Applicable(L, t),
         Escrowed(L)
  PROVE  Escrowed(Reflect(L, t, h))
<1>1. PICK M \in Ledgers : M = Reflect(L, t, h) BY ReflectTyped
<1>2. /\ M.swaps = SwapsAfter(L, t)
      /\ M.balance = [a \in Holders |-> L.balance[a] + CoinMove(L, t, a)]
  BY <1>1 DEF Reflect
<1>3. /\ t \in Transaction /\ t.id \in TxIds /\ L.swaps \in [TxIds -> Swap \cup {NONE}]
      /\ L.balance \in [Holders -> Int] /\ "htlc" \in Holders /\ "htlc" \notin Accounts
  BY TxsAssumption, HoldersAssumption, LedgerTypes DEF TxIds, Holders, Reserved
<1>4. Releases(t) => /\ t.swap \in TxIds /\ L.swaps[t.swap] \in Swap
                     /\ L.swaps[t.swap].status = "open"
                     /\ L.swaps[t.swap].amount \in Nat
                     /\ L.swaps[t.swap].sender \in Accounts
                     /\ L.swaps[t.swap].claimant \in Accounts
  BY <1>3 DEF Applicable, IsOpen, Swap
<1>5. PICK k \in TxIds : k = (IF Releases(t) THEN t.swap ELSE t.id) BY <1>3, <1>4
<1>6. PICK d \in Int : d = (IF t.kind = "htlc_lock" THEN t.amount
                            ELSE IF Releases(t) THEN -L.swaps[t.swap].amount ELSE 0)
  <2>1. t.amount \in Int BY <1>3, TxShape
  <2>2. Releases(t) => -L.swaps[t.swap].amount \in Int BY <1>4
  <2> QED BY <2>1, <2>2
<1>7. \A s \in TxIds : Owed(M, s) = Owed(L, s) + (IF s = k THEN d ELSE 0)
  <2> SUFFICES ASSUME NEW s \in TxIds
               PROVE  Owed(M, s) = Owed(L, s) + (IF s = k THEN d ELSE 0)
    OBVIOUS
  <2>0. Owed(L, s) \in Nat BY EscrowIsSum
  <2>1. CASE t.kind = "htlc_lock"
    <3>1. /\ k = t.id /\ d = t.amount /\ L.swaps[t.id] = NONE
          /\ M.swaps = [L.swaps EXCEPT ![t.id] = Opened(t)]
      BY <1>2, <1>5, <1>6, <2>1 DEF SwapsAfter, Applicable, Releases
    <3>2. Opened(t) # NONE /\ Opened(t).status = "open" /\ Opened(t).amount = t.amount
      <4>1. Opened(t) \in Swap BY <1>3, <2>1, TxShape DEF Opened, Swap, Lock
      <4> QED BY <4>1, NoneAssumption DEF Opened
    <3>3. t.amount \in Nat BY <1>3, TxShape
    <3>4. CASE s = k
      <4>1. M.swaps[s] = Opened(t) BY <1>3, <3>1, <3>4
      <4>2. Owed(M, s) = t.amount BY <3>2, <4>1 DEF Owed
      <4>3. Owed(L, s) = 0 BY <3>1, <3>4 DEF Owed
      <4> QED BY <3>1, <3>3, <3>4, <4>2, <4>3
    <3>5. CASE s # k
      <4>1. M.swaps[s] = L.swaps[s] BY <1>3, <3>1, <3>5
      <4>2. Owed(M, s) = Owed(L, s) BY <4>1 DEF Owed
      <4> QED BY <2>0, <3>5, <4>2
    <3> QED BY <3>4, <3>5
  <2>2. CASE Releases(t)
    <3>1. k = t.swap /\ d = -L.swaps[k].amount
      BY <1>5, <1>6, <2>2 DEF Releases
    <3>2. PICK v, w : v # "open" /\ M.swaps = [L.swaps EXCEPT ![k] = Settled(L.swaps[k], v, w)]
      BY <1>2, <2>2, <3>1 DEF SwapsAfter, Releases
    <3>3. CASE s = k
      <4>1. M.swaps[s] = Settled(L.swaps[k], v, w) BY <1>3, <3>2, <3>3
      <4>2. M.swaps[s].status # "open" BY <3>2, <4>1 DEF Settled
      <4>3. Owed(M, s) = 0 BY <4>2 DEF Owed
      <4>4. L.swaps[k] # NONE /\ L.swaps[k].status = "open"
        BY <1>4, <2>2, <3>1, NoneAssumption
      <4>5. Owed(L, s) = L.swaps[k].amount BY <3>3, <4>4 DEF Owed
      <4> QED BY <2>0, <3>1, <3>3, <4>3, <4>5
    <3>4. CASE s # k
      <4>1. M.swaps[s] = L.swaps[s] BY <1>3, <3>2, <3>4
      <4>2. Owed(M, s) = Owed(L, s) BY <4>1 DEF Owed
      <4> QED BY <2>0, <3>4, <4>2
    <3> QED BY <3>3, <3>4
  <2>3. CASE t.kind # "htlc_lock" /\ ~Releases(t)
    <3>1. d = 0 /\ M.swaps = L.swaps BY <1>2, <1>6, <2>3 DEF SwapsAfter, Releases
    <3>2. Owed(M, s) = Owed(L, s) BY <3>1 DEF Owed
    <3> QED BY <2>0, <3>1, <3>2
  <2> QED BY <2>1, <2>2, <2>3
<1>8. CoinMove(L, t, "htlc") \in Int /\ CoinMove(L, t, "htlc") >= d
  <2>1. PICK n \in Nat, m \in Nat : n = Pays(L, t) /\ m = Receives(L, t) BY MovesBalance
  <2>2. CoinMove(L, t, "htlc") = (IF "htlc" = Payee(L, t) THEN m ELSE 0)
                                   - (IF "htlc" = Payer(t) THEN n ELSE 0)
    BY <2>1 DEF CoinMove
  <2>3. t.sender \in Accounts BY <1>3, TxShape
  <2>4. CASE t.kind = "htlc_lock"
    <3>1. Payee(L, t) = "htlc" /\ Payer(t) # "htlc" /\ m = d
      BY <1>3, <1>6, <2>1, <2>3, <2>4 DEF Payee, Payer, Receives, Releases
    <3> QED BY <2>2, <3>1
  <2>5. CASE Releases(t)
    <3>1. Payer(t) = "htlc" /\ Payee(L, t) # "htlc" /\ d = -n
      BY <1>3, <1>4, <1>6, <2>1, <2>5 DEF Payee, Payer, Pays, Releases
    <3> QED BY <2>2, <3>1
  <2>6. CASE t.kind # "htlc_lock" /\ ~Releases(t)
    <3>1. Payer(t) # "htlc" /\ d = 0 BY <1>3, <1>6, <2>3, <2>6 DEF Payer
    <3> QED BY <2>2, <3>1
  <2> QED BY <2>4, <2>5, <2>6
<1>9. /\ L.balance["htlc"] >= SumFunctionOnSet(Debt(L), TxIds)
      /\ SumFunctionOnSet(Debt(L), TxIds) \in Nat
  BY EscrowIsSum
<1>10. PICK f, g : /\ f = Debt(L) /\ g = Debt(M)
                   /\ \A s \in TxIds : /\ f[s] = Owed(L, s) /\ f[s] \in Int
                                       /\ g[s] = Owed(M, s)
  BY EscrowIsSum
<1>11. SumFunctionOnSet(g, TxIds) = SumFunctionOnSet(f, TxIds) + d
  <2>1. \A s \in TxIds : f[s] \in Int /\ g[s] = f[s] + (IF s = k THEN d ELSE 0)
    BY <1>7, <1>10
  <2> QED BY <2>1, SumBump, FiniteTxIds
<1>12. M.balance["htlc"] = L.balance["htlc"] + CoinMove(L, t, "htlc")
       /\ L.balance["htlc"] \in Int
  BY <1>2, <1>3
<1>13. M.balance["htlc"] >= SumFunctionOnSet(g, TxIds)
  BY <1>8, <1>9, <1>10, <1>11, <1>12
<1> QED BY <1>1, <1>10, <1>13, EscrowIsSum

\* The end of a block does not touch the escrow account.
LEMMA SealEscrowed ==
  ASSUME NEW L \in Ledgers, NEW h \in Heights, Escrowed(L),
         NEW b, b.reward \in Nat, b.creator \in Accounts
  PROVE  Escrowed(Seal(L, b, h))
<1>1. PICK M \in Ledgers : M = Seal(L, b, h) BY SealTyped
<1>2. /\ M.balance = [a \in Holders |-> L.balance[a] + RewardMove(b, a)
                                        - (IF a = "treasury" THEN BurnAt(L, b, h) ELSE 0)]
      /\ M.swaps = L.swaps
  BY <1>1 DEF Seal
<1>3. "htlc" \in Holders /\ "htlc" # b.creator
  BY HoldersAssumption DEF Holders, Reserved
<1>4. RewardMove(b, "htlc") = 0 BY <1>3 DEF RewardMove
<1>5. M.balance["htlc"] = L.balance["htlc"]
  <2>1. L.balance["htlc"] \in Int BY <1>3, LedgerTypes
  <2> QED BY <1>2, <1>3, <1>4, <2>1
<1>6. \A s : Owed(M, s) = Owed(L, s) BY <1>2 DEF Owed
<1>7. Debt(M) = Debt(L) BY <1>6 DEF Debt
<1> QED BY <1>1, <1>5, <1>7, EscrowIsSum

-----------------------------------------------------------------------------
(* The invariant. *)

\* A transaction that fits keeps a ledger sound.
LEMMA ReflectSound ==
  ASSUME NEW L \in Ledgers, NEW t \in Txs, NEW h \in Heights, Applicable(L, t),
         Fits(L, t), Sound(L)
  PROVE  Sound(Reflect(L, t, h))
  BY ReflectSupply, ReflectSolvent, ReflectEscrowed DEF Sound

\* So does the end of a block.
LEMMA SealSound ==
  ASSUME NEW L \in Ledgers, NEW h \in Heights, Sound(L),
         NEW b, b.reward \in Nat, b.creator \in Accounts
  PROVE  Sound(Seal(L, b, h))
  BY SealSupply, SealSolvent, SealEscrowed DEF Sound

\* Genesis is sound: it owes no swap anything.
LEMMA GenesisSound == Sound(Genesis)
<1>1. Genesis \in Ledgers /\ \A s \in TxIds : Genesis.swaps[s] = NONE BY GenesisAssumption
<1>2. \A s \in TxIds : Owed(Genesis, s) = 0 BY <1>1 DEF Owed
<1>3. \A s \in TxIds : Debt(Genesis)[s] = 0 BY <1>2 DEF Debt
<1>4. SumFunctionOnSet(Debt(Genesis), TxIds) = 0 BY <1>3, SumZero, FiniteTxIds
<1>5. Genesis.balance["htlc"] >= 0 BY SolventAssumption DEF Solvent, Holders, Reserved
<1>6. Escrowed(Genesis) BY <1>1, <1>4, <1>5, EscrowIsSum
<1> QED BY <1>6, SolventAssumption DEF Sound, Solvent

-----------------------------------------------------------------------------
(* The invariant is kept. *)

\* The block being applied: what is under its write transaction.
LEMMA ApplyingShape ==
  ASSUME Reversible, op = "incorporate"
  PROVE  /\ Tip + 1 \in Heights /\ Tip \in Nat
         /\ block.txs \in Seq(Txs) /\ block.reward \in Nat /\ block.creator \in Accounts
         /\ at \in 0 .. Len(block.txs) /\ steps \in Seq(Ledgers)
         /\ Len(steps) = at + 1 /\ txn = steps[at + 1] /\ txn \in Ledgers
         /\ \A j \in at + 1 .. Len(block.txs) : block.txs[j] \in Txs /\ Applicable(txn, block.txs[j])
<1>1. /\ block \in BlockType /\ Tip \in Nat /\ steps \in Seq(Ledgers) /\ txn \in Ledgers
      /\ at \in 0 .. Len(block.txs)
  BY DEF Reversible, TypeOK, Tip
<1>2. /\ Tip < MaxHeight /\ IsRun(steps, block.txs, Tip + 1)
      /\ Len(steps) = at + 1 /\ txn = steps[at + 1]
  BY DEF Reversible, Incorporating
<1>3. Tip + 1 \in Heights BY <1>1, <1>2, BoundsAssumption DEF Heights
<1>4. block.txs \in Seq(Txs) /\ block.reward \in Nat /\ block.creator \in Accounts
  BY <1>1 DEF BlockType
<1>5. \A i \in 1 .. Len(steps) : \A j \in i .. Len(block.txs) : Applicable(steps[i], block.txs[j])
  BY <1>2 DEF IsRun
<1>6. at + 1 \in 1 .. Len(steps) BY <1>1, <1>2, <1>4
<1>7. \A j \in at + 1 .. Len(block.txs) : block.txs[j] \in Txs /\ Applicable(txn, block.txs[j])
  <2>1. \A j \in at + 1 .. Len(block.txs) : block.txs[j] \in Txs BY <1>1, <1>4
  <2> QED BY <1>2, <1>5, <1>6, <2>1
<1> QED BY <1>1, <1>2, <1>3, <1>4, <1>7

\* The chain starts from a sound ledger.
LEMMA InitCoins == Init => CoinsAccounted
<1> SUFFICES ASSUME Init PROVE CoinsAccounted OBVIOUS
<1>1. Tip = 0 /\ Len(steps) = 0 /\ ledger = Genesis BY DEF Init, Tip
<1> QED BY <1>1, GenesisSound DEF CoinsAccounted

\* A transaction that fits leads to a sound ledger.
LEMMA IndexCoins ==
  ASSUME Reversible, CoinsAccounted, IndexTransaction
  PROVE  CoinsAccounted'
<1>1. /\ op = "incorporate" /\ at < Len(block.txs) /\ Fits(txn, block.txs[at + 1])
      /\ txn' = Reflect(txn, block.txs[at + 1], Tip + 1)
      /\ steps' = Append(steps, txn')
      /\ UNCHANGED <<chain, ledger, trace>>
  BY DEF IndexTransaction
<1>2. /\ Tip + 1 \in Heights /\ block.txs \in Seq(Txs) /\ at \in 0 .. Len(block.txs)
      /\ steps \in Seq(Ledgers) /\ Len(steps) = at + 1 /\ txn = steps[at + 1]
      /\ txn \in Ledgers
      /\ \A j \in at + 1 .. Len(block.txs) : block.txs[j] \in Txs /\ Applicable(txn, block.txs[j])
  BY <1>1, ApplyingShape
<1>3. block.txs[at + 1] \in Txs /\ Applicable(txn, block.txs[at + 1]) BY <1>1, <1>2
<1>4. Sound(txn) BY <1>2 DEF CoinsAccounted
<1>5. txn' \in Ledgers /\ Sound(txn')
  BY <1>1, <1>2, <1>3, <1>4, ReflectSound, ReflectTyped
<1>6. \A i \in 1 .. Len(steps') : Sound(steps'[i])
  <2>1. Len(steps') = Len(steps) + 1
        /\ \A i \in 1 .. Len(steps') : steps'[i] = (IF i <= Len(steps) THEN steps[i] ELSE txn')
    BY <1>1, <1>2, <1>5
  <2> QED BY <1>2, <1>5, <2>1 DEF CoinsAccounted
<1> QED BY <1>1, <1>6 DEF CoinsAccounted, Tip

\* A sealed block leads to a sound ledger, by sound ledgers.
LEMMA CommitCoins ==
  ASSUME Reversible, CoinsAccounted, CommitBlock
  PROVE  CoinsAccounted'
<1>1. /\ op = "incorporate" /\ at = Len(block.txs)
      /\ ledger' = Seal(txn, block, Tip + 1)
      /\ chain' = Append(chain, block) /\ trace' = Append(trace, steps) /\ steps' = <<>>
  BY DEF CommitBlock, CloseTxn
<1>2. /\ Tip + 1 \in Heights /\ Tip \in Nat /\ at \in 0 .. Len(block.txs)
      /\ block.txs \in Seq(Txs) /\ block.reward \in Nat /\ block.creator \in Accounts
      /\ Len(steps) = at + 1 /\ txn = steps[at + 1] /\ txn \in Ledgers
      /\ steps \in Seq(Ledgers)
  BY <1>1, ApplyingShape
<1>3. Sound(txn) BY <1>2 DEF CoinsAccounted
<1>4. Sound(ledger') BY <1>1, <1>2, <1>3, SealSound
<1>5. /\ trace \in Seq(Seq(Ledgers)) /\ Len(trace) = Tip /\ chain \in Seq(BlockType)
  BY DEF Reversible, TypeOK
<1>6. /\ Tip' = Tip + 1
      /\ \A h \in 1 .. Tip' : trace'[h] = (IF h <= Tip THEN trace[h] ELSE steps)
  BY <1>1, <1>2, <1>5 DEF Tip
<1>7. \A h \in 1 .. Tip' : \A i \in 1 .. Len(trace'[h]) : Sound(trace'[h][i])
  BY <1>2, <1>6 DEF CoinsAccounted
<1>8. Len(steps') = 0 BY <1>1
<1> QED BY <1>4, <1>7, <1>8 DEF CoinsAccounted

\* A rollback puts back a ledger of the history.
LEMMA RollbackCoins ==
  ASSUME Reversible, CoinsAccounted, CommitRollback
  PROVE  CoinsAccounted'
<1>1. /\ op = "rollback" /\ at = 0 /\ ledger' = txn
      /\ chain' = SubSeq(chain, 1, Tip - 1) /\ trace' = SubSeq(trace, 1, Tip - 1)
      /\ steps' = <<>>
  BY DEF CommitRollback, CloseTxn
<1>2. Tip \in Nat /\ Tip > 0 /\ txn = trace[Tip][1] BY <1>1, RolledBack
<1>3. 1 \in 1 .. Len(trace[Tip])
  <2>1. Tip \in 1 .. Tip BY <1>2
  <2>2. FullRun(trace[Tip], chain[Tip], Tip) BY <2>1 DEF Reversible, History
  <2>3. Len(trace[Tip]) \in Nat /\ 1 <= Len(trace[Tip]) BY <2>2 DEF FullRun, IsRun
  <2> QED BY <2>3
<1>4. Sound(ledger') BY <1>1, <1>2, <1>3 DEF CoinsAccounted
<1>5. /\ trace \in Seq(Seq(Ledgers)) /\ Len(trace) = Tip /\ chain \in Seq(BlockType)
      /\ Len(chain) = Tip
  BY DEF Reversible, TypeOK, Tip
<1>6. Tip' = Tip - 1 /\ \A h \in 1 .. Tip' : trace'[h] = trace[h] /\ h \in 1 .. Tip
  BY <1>1, <1>2, <1>5 DEF Tip
<1>7. Len(steps') = 0 BY <1>1
<1> QED BY <1>4, <1>6, <1>7 DEF CoinsAccounted

\* A dropped write transaction leaves what was committed.
LEMMA CloseCoins ==
  ASSUME CoinsAccounted, CloseTxn, UNCHANGED <<chain, ledger, finalized, trace>>
  PROVE  CoinsAccounted'
<1>1. Len(steps') = 0 BY DEF CloseTxn
<1> QED BY <1>1 DEF CoinsAccounted, Tip

\* Every step keeps the invariant.
LEMMA NextCoins ==
  ASSUME Reversible, CoinsAccounted, [Next]_vars
  PROVE  CoinsAccounted'
<1>1. ASSUME NEW head \in Headers, NEW body \in Bodies, VerifyBlock(head, body)
      PROVE  CoinsAccounted'
  <2>1. steps' = <<ledger>> /\ UNCHANGED <<chain, ledger, trace>> BY <1>1 DEF VerifyBlock
  <2>2. Len(steps') = 1 /\ steps'[1] = ledger BY <2>1
  <2> QED BY <2>1, <2>2 DEF CoinsAccounted, Tip
<1>2. CASE IndexTransaction BY <1>2, IndexCoins
<1>3. CASE CommitBlock BY <1>3, CommitCoins
<1>4. CASE StartRollback BY <1>4 DEF StartRollback, CoinsAccounted, Tip
<1>5. CASE UnindexTransaction BY <1>5 DEF UnindexTransaction, CoinsAccounted, Tip
<1>6. CASE CommitRollback BY <1>6, RollbackCoins
<1>7. CASE Raise BY <1>7, CloseCoins DEF Raise
<1>8. CASE Crash BY <1>8, CloseCoins DEF Crash
<1>9. CASE UNCHANGED vars BY <1>9 DEF vars, CoinsAccounted, Tip
<1> QED BY <1>1, <1>2, <1>3, <1>4, <1>5, <1>6, <1>7, <1>8, <1>9 DEF Next

\* Every ledger a node commits, and every ledger it goes through on the way,
\* has the supply its totals claim, owes nobody and can pay its open swaps.
THEOREM CoinsInvariant == Spec => []CoinsAccounted
<1>1. Init => CoinsAccounted BY InitCoins
<1>2. Reversible /\ CoinsAccounted /\ [Next]_vars => CoinsAccounted' BY NextCoins
<1> QED BY <1>1, <1>2, ReversibleInvariant, PTL DEF Spec

-----------------------------------------------------------------------------
(* The theorems. *)

\* Through every sequence of blocks, rollbacks and crashes the accounts and
\* bonds hold exactly the supply that emission reads (check_l1_supply): no
\* transaction, reward, slash, burn or rollback mints or leaks.
THEOREM SupplyIsConserved == Spec => []SupplyConserved
<1>1. CoinsAccounted => SupplyConserved
  BY DEF CoinsAccounted, Sound, Supply, SupplyConserved
<1> QED BY <1>1, CoinsInvariant, PTL

\* The escrow account can pay every swap that is still open, whatever was
\* locked, settled, rolled back and applied again.
THEOREM EscrowIsCovered == Spec => []EscrowCovers
<1>1. Reversible /\ CoinsAccounted => EscrowCovers
  <2> SUFFICES ASSUME Reversible, CoinsAccounted PROVE EscrowCovers OBVIOUS
  <2>1. ledger \in Ledgers /\ ledger.swaps \in [TxIds -> Swap \cup {NONE}]
    BY LedgerTypes DEF Reversible, TypeOK
  <2>2. Escrowed(ledger) BY DEF CoinsAccounted, Sound
  <2>3. ledger.balance["htlc"] >= SumFunctionOnSet(Debt(ledger), TxIds)
    BY <2>1, <2>2, EscrowIsSum
  <2>4. PICK f : f = [s \in OpenSwaps |-> ledger.swaps[s].amount] OBVIOUS
  <2>5. SumOver(LAMBDA s : ledger.swaps[s].amount, OpenSwaps) = SumFunctionOnSet(f, OpenSwaps)
    BY <2>4 DEF SumOver, SumFunction
  <2>6. OpenSwaps \in SUBSET TxIds BY DEF OpenSwaps
  <2>7. \A s \in OpenSwaps : f[s] \in Int
    BY <2>1, <2>4 DEF OpenSwaps, Swap
  <2>8. \A s \in TxIds : Debt(ledger)[s] = (IF s \in OpenSwaps THEN f[s] ELSE 0)
    BY <2>4 DEF Debt, Owed, OpenSwaps
  <2>9. SumFunctionOnSet(Debt(ledger), TxIds) = SumFunctionOnSet(f, OpenSwaps)
    BY <2>6, <2>7, <2>8, SumRestrict, FiniteTxIds
  <2> QED BY <2>3, <2>5, <2>9 DEF EscrowCovers
<1> QED BY <1>1, CoinsInvariant, ReversibleInvariant, PTL

\* Undoing a transaction where it was applied never hits a zero floor: it
\* debits what it had credited.
LEMMA UndoFitsApplied ==
  ASSUME NEW L \in Ledgers, NEW t \in Txs, NEW h \in Heights, NEW D,
         Applicable(L, t), Solvent(L)
  PROVE  UndoFits(Without(Reflect(L, t, h), D), t)
<1>1. PICK M : M = Without(Reflect(L, t, h), D) OBVIOUS
<1>2. /\ M.balance = [a \in Holders |-> L.balance[a] + CoinMove(L, t, a)]
      /\ M.bonded = [a \in Accounts |-> L.bonded[a] + StakeMove(t, a)]
      /\ M.swaps = SwapsAfter(L, t)
  BY <1>1 DEF Without, Reflect
<1>3. Payee(M, t) = Payee(L, t) /\ Receives(M, t) = Receives(L, t) /\ Pays(M, t) = Pays(L, t)
  <2>1. CASE Releases(t)
    <3>1. /\ t.swap \in TxIds /\ L.swaps \in [TxIds -> Swap \cup {NONE}]
      BY <2>1, LedgerTypes DEF Applicable, IsOpen
    <3>2. PICK v, w : M.swaps = [L.swaps EXCEPT ![t.swap] = Settled(L.swaps[t.swap], v, w)]
      BY <1>2, <2>1 DEF SwapsAfter, Releases
    <3>3. M.swaps[t.swap] = Settled(L.swaps[t.swap], v, w) BY <3>1, <3>2
    <3>4. /\ M.swaps[t.swap].amount = L.swaps[t.swap].amount
          /\ M.swaps[t.swap].sender = L.swaps[t.swap].sender
          /\ M.swaps[t.swap].claimant = L.swaps[t.swap].claimant
      BY <3>3 DEF Settled
    <3> QED BY <2>1, <3>4 DEF Payee, Receives, Pays, Releases
  <2>2. CASE ~Releases(t) BY <2>2 DEF Payee, Receives, Pays, Releases
  <2> QED BY <2>1, <2>2
<1>4. PICK n \in Nat, m \in Nat, q \in Holders, s \in Accounts, d \in Int :
        n = Pays(L, t) /\ m = Receives(L, t) /\ q = Payee(L, t)
        /\ s = Staker(t) /\ d = StakeMove(t, s)
  BY MovesBalance
<1>5. M.balance[q] = L.balance[q] + m - (IF q = Payer(t) THEN n ELSE 0)
  <2>1. CoinMove(L, t, q) = m - (IF q = Payer(t) THEN n ELSE 0) BY <1>4 DEF CoinMove
  <2>2. L.balance[q] \in Int BY LedgerTypes
  <2>3. M.balance[q] = L.balance[q] + CoinMove(L, t, q) BY <1>2
  <2> QED BY <2>1, <2>2, <2>3
<1>6. M.bonded[s] = L.bonded[s] + d BY <1>2, <1>4
<1>7. /\ L.balance[q] \in Int /\ L.balance[q] >= 0
      /\ L.bonded[s] \in Int /\ L.bonded[s] >= 0
  BY LedgerTypes DEF Solvent
<1>8. M.balance[q] + (IF q = Payer(t) THEN n ELSE 0) >= m BY <1>5, <1>7
<1>9. M.bonded[s] - d >= 0 BY <1>6, <1>7
<1> QED BY <1>1, <1>3, <1>4, <1>8, <1>9 DEF UndoFits

\* Taking a reward back where it was paid never hits a zero floor either,
\* unless the burn of that height took more than the treasury held before its
\* share of the reward.
LEMMA UnsealFitsSealed ==
  ASSUME NEW L \in Ledgers, NEW h \in Heights, Solvent(L),
         NEW b, b.reward \in Nat, b.creator \in Accounts,
         BurnAt(L, b, h) <= L.balance["treasury"]
  PROVE  UnsealFits(Seal(L, b, h), b)
<1>1. PICK M \in Ledgers : M = Seal(L, b, h) BY SealTyped
<1>2. /\ M.balance = [a \in Holders |-> L.balance[a] + RewardMove(b, a)
                                        - (IF a = "treasury" THEN BurnAt(L, b, h) ELSE 0)]
      /\ M.earned = Add(L.earned, b.creator, RewardOf(b).producer)
  BY <1>1 DEF Seal
<1>3. PICK n \in Nat : n = BurnAt(L, b, h) /\ n <= L.balance["treasury"]
  <2>1. L.balance["treasury"] >= 0 BY DEF Solvent, Holders, Reserved
  <2> QED BY <2>1, BurnBounds
<1>4. ASSUME NEW a \in Holders PROVE M.balance[a] >= RewardMove(b, a)
  <2>1. PICK m \in Int : m = RewardMove(b, a) BY RewardTyped
  <2>2. M.balance[a] = L.balance[a] + m - (IF a = "treasury" THEN n ELSE 0)
    BY <1>2, <1>3, <2>1
  <2>3. L.balance[a] \in Int /\ L.balance[a] >= 0 BY LedgerTypes DEF Solvent
  <2> QED BY <1>3, <2>1, <2>2, <2>3
<1>5. M.earned[b.creator] >= RewardOf(b).producer
  <2>1. PICK x \in Nat : x = RewardOf(b).producer BY RewardParts
  <2>2. L.earned \in [Accounts -> Int] /\ L.earned[b.creator] >= 0
    BY LedgerTypes DEF Solvent
  <2>3. M.earned[b.creator] = L.earned[b.creator] + x BY <1>2, <2>1, <2>2 DEF Add
  <2> QED BY <2>1, <2>2, <2>3
<1> QED BY <1>1, <1>4, <1>5 DEF UnsealFits

\* No rollback above the finality floor raises half way, in every state where
\* no burn took more than the treasury held before its block.  The condition is
\* needed: rollback_one_block takes the treasury's share of the reward back
\* before it restores the burn of that height.
THEOREM RollbacksGoThrough == Spec => [](BurnsCovered => RollbackNeverRaises)
<1>1. Reversible /\ CoinsAccounted => (BurnsCovered => RollbackNeverRaises)
  <2> SUFFICES ASSUME Reversible, CoinsAccounted, BurnsCovered, RollbackBlocked
               PROVE  FALSE
    BY DEF RollbackNeverRaises
  <2>1. Tip \in Nat /\ chain \in Seq(BlockType) /\ finalized \in Nat /\ Tip <= MaxHeight
    BY DEF Reversible, TypeOK, Tip
  <2>2. CASE op = "rollback" /\ at > 0 /\ ~UndoFits(txn, block.txs[at])
    <3>1. /\ block = chain[Tip] /\ Tip > 0
          /\ txn = Without(trace[Tip][at + 1], OffencesFrom(block.txs, at + 1))
      BY <2>2 DEF Reversible, RollingBack
    <3>2. block \in BlockType /\ at \in 0 .. Len(block.txs)
      BY <2>2 DEF Reversible, TypeOK
    <3>3. block.txs \in Seq(Txs) /\ at \in 1 .. Len(block.txs)
      BY <2>2, <3>2 DEF BlockType
    <3>4. Tip \in Heights /\ Tip \in 1 .. Tip BY <2>1, <3>1, BoundsAssumption DEF Heights
    <3>5. FullRun(trace[Tip], block, Tip) BY <3>1, <3>4 DEF Reversible, History
    <3>6. /\ at \in 1 .. Len(trace[Tip]) /\ trace[Tip][at] \in Ledgers
          /\ trace[Tip][at + 1] = Reflect(trace[Tip][at], block.txs[at], Tip)
          /\ Applicable(trace[Tip][at], block.txs[at])
      <4>1. at \in 1 .. Len(trace[Tip]) - 1 /\ at \in at .. Len(block.txs)
        BY <3>3, <3>5 DEF FullRun
      <4> QED BY <3>3, <3>5, <4>1 DEF FullRun, IsRun
    <3>7. Solvent(trace[Tip][at]) BY <3>4, <3>6 DEF CoinsAccounted, Sound
    <3>8. block.txs[at] \in Txs BY <3>3
    <3> QED BY <2>2, <3>1, <3>4, <3>6, <3>7, <3>8, UndoFitsApplied
  <2>3. CASE op = "idle" /\ Tip > finalized /\ ~UnsealFits(ledger, chain[Tip])
    <3>1. Tip \in Heights /\ Tip \in 1 .. Tip BY <2>1, <2>3, BoundsAssumption DEF Heights
    <3>2. PICK b : b = chain[Tip] OBVIOUS
    <3>3. b \in BlockType /\ b.txs \in Seq(Txs) /\ b.reward \in Nat /\ b.creator \in Accounts
      <4>1. b \in BlockType BY <2>1, <3>1, <3>2 DEF Tip
      <4> QED BY <4>1 DEF BlockType
    <3>4. FullRun(trace[Tip], b, Tip) BY <3>1, <3>2 DEF Reversible, History
    <3>5. PICK L : L = trace[Tip][Len(trace[Tip])] OBVIOUS
    <3>6. ledger = Seal(L, b, Tip)
      <4>1. LedgerAfter(Tip) = Seal(L, b, Tip) BY <3>1, <3>2, <3>5 DEF Reversible, History
      <4> QED BY <4>1, <2>1 DEF LedgerAfter
    <3>7. Len(trace[Tip]) \in 1 .. Len(trace[Tip]) BY <3>4 DEF FullRun, IsRun
    <3>8. L \in Ledgers BY <3>4, <3>5, <3>7 DEF FullRun, IsRun
    <3>9. Solvent(L) BY <3>1, <3>5, <3>7 DEF CoinsAccounted, Sound
    <3>10. ledger.burned[Tip] = BurnAt(L, b, Tip)
      <4>1. ledger.burned = [L.burned EXCEPT ![Tip] = BurnAt(L, b, Tip)]
        BY <3>6 DEF Seal
      <4>2. L.burned \in [Heights -> Int] BY <3>8, LedgerTypes
      <4> QED BY <3>1, <4>1, <4>2
    <3>11. BurnAt(L, b, Tip) <= L.balance["treasury"]
      BY <3>1, <3>5, <3>10 DEF BurnsCovered
    <3> QED BY <2>3, <3>1, <3>2, <3>3, <3>6, <3>8, <3>9, <3>11, UnsealFitsSealed
  <2> QED BY <2>2, <2>3 DEF RollbackBlocked
<1> QED BY <1>1, CoinsInvariant, ReversibleInvariant, PTL

-----------------------------------------------------------------------------
(* What verification leaves to the transactions of a block. *)

\* What is spent and what is released, position by position of a body.
Costs(body) == [i \in 1 .. Len(body) |-> BalanceCost(body[i])]
Releasings(L, body) == [i \in 1 .. Len(body) |-> EscrowRelease(L, body[i])]

\* The totals of WithinMeans are sums of naturals over positions.
LEMMA TotalsAreSums ==
  ASSUME NEW L \in Ledgers, NEW body \in Seq(Txs), NEW I, I \subseteq 1 .. Len(body)
  PROVE  /\ IsFiniteSet(I)
         /\ Total(BalanceCost, body, I) = SumFunctionOnSet(Costs(body), I)
         /\ Total(LAMBDA t : EscrowRelease(L, t), body, I)
              = SumFunctionOnSet(Releasings(L, body), I)
         /\ \A i \in I : Costs(body)[i] \in Nat /\ Releasings(L, body)[i] \in Nat
         /\ \A i \in I : Costs(body)[i] = BalanceCost(body[i])
         /\ \A i \in I : Releasings(L, body)[i] = EscrowRelease(L, body[i])
<1>0. IsFiniteSet(I)
  <2>1. Len(body) \in Int /\ 1 \in Int OBVIOUS
  <2>2. IsFiniteSet(1 .. Len(body)) BY <2>1, FS_Interval
  <2> QED BY <2>2, FS_Subset
<1>1. ASSUME NEW i \in I
      PROVE  /\ Costs(body)[i] = BalanceCost(body[i]) /\ BalanceCost(body[i]) \in Nat
             /\ Releasings(L, body)[i] = EscrowRelease(L, body[i])
             /\ EscrowRelease(L, body[i]) \in Nat
  <2>1. i \in 1 .. Len(body) /\ body[i] \in Txs BY <1>1
  <2>2. body[i] \in Transaction BY <2>1, TxsAssumption
  <2>3. BalanceCost(body[i]) \in Nat BY <2>2, TxShape DEF BalanceCost
  <2>4. EscrowRelease(L, body[i]) \in Nat
    <3>1. L.swaps \in [TxIds -> Swap \cup {NONE}] BY LedgerTypes
    <3>2. IsOpen(L, body[i]) => L.swaps[body[i].swap].amount \in Nat
      BY <3>1 DEF IsOpen, Swap
    <3> QED BY <3>2 DEF EscrowRelease
  <2> QED BY <2>1, <2>3, <2>4 DEF Costs, Releasings
<1>2. PICK f : f = [i \in I |-> BalanceCost(body[i])] OBVIOUS
<1>3. PICK g : g = [i \in I |-> EscrowRelease(L, body[i])] OBVIOUS
<1>4. Total(BalanceCost, body, I) = SumFunctionOnSet(f, I)
  BY <1>2 DEF Total, SumFunction
<1>5. Total(LAMBDA t : EscrowRelease(L, t), body, I) = SumFunctionOnSet(g, I)
  BY <1>3 DEF Total, SumFunction
<1>6. \A i \in I : Costs(body)[i] \in Int /\ f[i] = Costs(body)[i] BY <1>1, <1>2
<1>7. \A i \in I : Releasings(L, body)[i] \in Int /\ g[i] = Releasings(L, body)[i]
  BY <1>1, <1>3
<1>8. SumFunctionOnSet(f, I) = SumFunctionOnSet(Costs(body), I) BY <1>0, <1>6, SumSame
<1>9. SumFunctionOnSet(g, I) = SumFunctionOnSet(Releasings(L, body), I)
  BY <1>0, <1>7, SumSame
<1> QED BY <1>0, <1>1, <1>4, <1>5, <1>8, <1>9

\* One member of a sum of naturals is no more than the sum.
LEMMA MemberOfSum ==
  ASSUME NEW f, NEW S, IsFiniteSet(S), \A x \in S : f[x] \in Nat, NEW x \in S
  PROVE  f[x] <= SumFunctionOnSet(f, S)
<1>1. SumFunctionOnSet(f, S) = f[x] + SumFunctionOnSet(f, S \ {x}) BY SumTakeOut
<1>2. IsFiniteSet(S \ {x}) BY Subsets
<1>3. SumFunctionOnSet(f, S \ {x}) \in Nat BY <1>2, SumNat
<1> QED BY <1>1, <1>3

\* What is still to be paid, as sums.
RestOf(body, n, a) == {i \in n + 1 .. Len(body) : body[i].sender = a}

\* What Affordable says, as sums of fixed functions.
LEMMA AffordableSums ==
  ASSUME NEW L \in Ledgers, NEW body \in Seq(Txs), NEW n \in 0 .. Len(body)
  PROVE  Affordable(L, body, n) <=>
           /\ \A a \in Accounts :
                SumFunctionOnSet(Costs(body), RestOf(body, n, a)) <= L.balance[a]
           /\ SumFunctionOnSet(Releasings(L, body), n + 1 .. Len(body)) <= L.balance["htlc"]
           /\ ~StakeContested(body) =>
                \A i \in n + 1 .. Len(body) :
                  Loses(body[i]) => L.bonded[Staker(body[i])]
                                      + StakeMove(body[i], Staker(body[i])) >= 0
<1>1. \A a \in Accounts : Total(BalanceCost, body, RestOf(body, n, a))
                            = SumFunctionOnSet(Costs(body), RestOf(body, n, a))
  <2> TAKE a \in Accounts
  <2>1. RestOf(body, n, a) \subseteq 1 .. Len(body) BY DEF RestOf
  <2> QED BY <2>1, TotalsAreSums
<1>2. n + 1 .. Len(body) \subseteq 1 .. Len(body) OBVIOUS
<1>3. Total(LAMBDA t : EscrowRelease(L, t), body, n + 1 .. Len(body))
        = SumFunctionOnSet(Releasings(L, body), n + 1 .. Len(body))
  BY <1>2, TotalsAreSums
<1> QED BY <1>1, <1>3 DEF Affordable, RestOf

\* A transaction takes from an account at most what verification reckoned.
LEMMA MovesAtMost ==
  ASSUME NEW L \in Ledgers, NEW t \in Txs, Applicable(L, t)
  PROVE  /\ BalanceCost(t) \in Nat /\ EscrowRelease(L, t) \in Nat
         /\ \A a \in Accounts : /\ CoinMove(L, t, a) \in Int
                                /\ CoinMove(L, t, a) >= (IF a = t.sender THEN -BalanceCost(t) ELSE 0)
         /\ CoinMove(L, t, "htlc") \in Int
         /\ CoinMove(L, t, "htlc") >= -EscrowRelease(L, t)
         /\ Releases(t) => Pays(L, t) = EscrowRelease(L, t)
         /\ ~Releases(t) => Pays(L, t) = BalanceCost(t)
<1>1. t \in Transaction /\ t.sender \in Accounts /\ t.amount \in Nat /\ t.fee \in Nat
  BY TxsAssumption, TxShape
<1>2. "htlc" \notin Accounts BY HoldersAssumption DEF Reserved
<1>3. PICK n \in Nat, m \in Nat : n = Pays(L, t) /\ m = Receives(L, t) BY MovesBalance
<1>4. \A a : CoinMove(L, t, a) = (IF a = Payee(L, t) THEN m ELSE 0)
                                   - (IF a = Payer(t) THEN n ELSE 0)
  BY <1>3 DEF CoinMove
<1>5. CASE Releases(t)
  <2>1. EscrowRelease(L, t) = n
    BY <1>3, <1>5 DEF EscrowRelease, Pays, Applicable, Releases
  <2>2. t.amount = 0 /\ t.fee = 0
    BY <1>1, <1>5 DEF Releases, Transaction, Transfer, Bond, Unbond, Withdraw, Slash,
                      Lock, Claim, Refund
  <2>3. BalanceCost(t) = 0 BY <2>2 DEF BalanceCost
  <2>4. Payer(t) = "htlc" BY <1>5 DEF Payer
  <2> QED BY <1>2, <1>3, <1>4, <1>5, <2>1, <2>3, <2>4
<1>6. CASE ~Releases(t)
  <2>1. EscrowRelease(L, t) = 0 BY <1>6 DEF EscrowRelease, Releases
  <2>2. Payer(t) = t.sender BY <1>6 DEF Payer
  <2>3. BalanceCost(t) = n
    <3>1. CASE t.kind \in {"transfer", "bond", "htlc_lock"}
      BY <1>3, <3>1 DEF BalanceCost, Pays
    <3>2. CASE t.kind \notin {"transfer", "bond", "htlc_lock"}
      <4>1. n = 0 BY <1>3, <1>6, <3>2 DEF Pays
      <4>2. t.fee = 0 /\ (t.kind = "unbond" \/ t.amount = 0)
        BY <1>1, <1>6, <3>2 DEF Releases, Transaction, Transfer, Bond, Unbond, Withdraw,
                                Slash, Lock, Claim, Refund
      <4> QED BY <4>1, <4>2 DEF BalanceCost
    <3> QED BY <3>1, <3>2
  <2> QED BY <1>1, <1>2, <1>3, <1>4, <1>6, <2>1, <2>2, <2>3
<1> QED BY <1>5, <1>6

\* What another transaction of the body will release stays what it was.
LEMMA ReleaseKept ==
  ASSUME NEW L \in Ledgers, NEW h \in Heights, NEW t \in Txs, NEW u \in Txs,
         Applicable(L, t), Applicable(L, u), t.id # u.id, ~Clash(t, u)
  PROVE  EscrowRelease(Reflect(L, t, h), u) = EscrowRelease(L, u)
<1>1. PICK M : M = Reflect(L, t, h) OBVIOUS
<1>2. Applicable(M, u) BY <1>1, Frame
<1>3. CASE ~Releases(u) BY <1>1, <1>3 DEF EscrowRelease, Releases
<1>4. CASE Releases(u)
  <2>1. /\ IsOpen(L, u) /\ IsOpen(M, u) BY <1>2, <1>4 DEF Applicable
  <2>2. /\ u.swap \in TxIds /\ L.swaps[u.swap] # NONE
        /\ L.swaps \in [TxIds -> Swap \cup {NONE}] /\ M.swaps = SwapsAfter(L, t)
    BY <1>1, <2>1, LedgerTypes DEF IsOpen, Reflect
  <2>3. M.swaps[u.swap] = L.swaps[u.swap]
    <3>1. CASE t.kind = "htlc_lock"
      <4>1. L.swaps[t.id] = NONE BY <3>1 DEF Applicable
      <4> QED BY <2>2, <3>1, <4>1 DEF SwapsAfter
    <3>2. CASE Releases(t)
      <4>1. t.swap # u.swap BY <1>4, <3>2 DEF Clash, Releases
      <4> QED BY <2>2, <3>2, <4>1 DEF SwapsAfter, Releases
    <3>3. CASE t.kind # "htlc_lock" /\ ~Releases(t)
      BY <2>2, <3>3 DEF SwapsAfter, Releases
    <3> QED BY <3>1, <3>2, <3>3
  <2> QED BY <1>1, <2>1, <2>3 DEF EscrowRelease
<1> QED BY <1>3, <1>4

\* Only two kinds take stake away.
LEMMA OnlyLosses ==
  ASSUME NEW t \in Txs, NEW s, ~(Loses(t) /\ s = Staker(t))
  PROVE  StakeMove(t, s) \in Nat
<1>1. t \in Transaction /\ t.amount \in Nat BY TxsAssumption, TxShape
<1> QED BY <1>1 DEF Loses, StakeMove

\* What passes verification can be paid for.
LEMMA VerifiedAffordable ==
  ASSUME NEW L \in Ledgers, NEW body \in Seq(Txs), NEW h, BodyOk(L, body, h)
  PROVE  Affordable(L, body, 0)
<1>1. WithinMeans(L, body) /\ DOMAIN body = 1 .. Len(body) BY DEF BodyOk
<1>2. 0 + 1 .. Len(body) = 1 .. Len(body) OBVIOUS
<1>3. \A a \in Accounts :
        Total(BalanceCost, body, {i \in 0 + 1 .. Len(body) : body[i].sender = a}) <= L.balance[a]
  BY <1>1, <1>2 DEF WithinMeans
<1>4. Total(LAMBDA t : EscrowRelease(L, t), body, 0 + 1 .. Len(body)) <= L.balance["htlc"]
  BY <1>1, <1>2 DEF WithinMeans
<1>5. ASSUME NEW i \in 0 + 1 .. Len(body), Loses(body[i])
      PROVE  L.bonded[Staker(body[i])] + StakeMove(body[i], Staker(body[i])) >= 0
  <2>1. i \in DOMAIN body /\ body[i] \in Txs BY <1>5
  <2>2. body[i] \in Transaction BY <2>1, TxsAssumption
  <2>3. Valid(L, body[i]) BY <2>1 DEF BodyOk
  <2>4. CASE body[i].kind = "withdraw"
    <3>1. /\ body[i].claims \in Nat /\ body[i].sender \in Accounts BY <2>2, <2>4, TxShape
    <3>2. L.bonded[body[i].sender] >= body[i].claims
      BY <2>3, <2>4 DEF Valid, ValidWithdraw
    <3>3. L.bonded[body[i].sender] \in Int BY <3>1, LedgerTypes
    <3>4. Staker(body[i]) = body[i].sender
          /\ StakeMove(body[i], body[i].sender) = -body[i].claims
      BY <2>4 DEF Staker, StakeMove
    <3> QED BY <3>1, <3>2, <3>3, <3>4
  <2>5. CASE body[i].kind = "slash"
    <3>1. body[i].offender \in Accounts BY <2>2, <2>5, TxShape
    <3>2. L.bonded[body[i].offender] >= SlashPenalty
      BY <2>3, <2>5 DEF Valid, ValidSlash
    <3>3. L.bonded[body[i].offender] \in Int /\ SlashPenalty \in Nat
      BY <3>1, LedgerTypes, BoundsAssumption
    <3>4. Staker(body[i]) = body[i].offender
          /\ StakeMove(body[i], body[i].offender) = -SlashPenalty
      BY <2>5 DEF Staker, StakeMove
    <3> QED BY <3>2, <3>3, <3>4
  <2> QED BY <1>5, <2>4, <2>5 DEF Loses
<1> QED BY <1>3, <1>4, <1>5 DEF Affordable

\* Applying a transaction leaves enough for the rest of the body: each sum
\* loses the member that was paid.
LEMMA AffordableKept ==
  ASSUME NEW L \in Ledgers, NEW body \in Seq(Txs), NEW n \in Nat, n < Len(body),
         NEW h \in Heights, CleanBody(body), Affordable(L, body, n),
         \A j \in n + 1 .. Len(body) : Applicable(L, body[j])
  PROVE  Affordable(Reflect(L, body[n + 1], h), body, n + 1)
<1>1. PICK k \in 1 .. Len(body), t \in Txs : k = n + 1 /\ t = body[k]
  <2>1. n + 1 \in 1 .. Len(body) /\ body[n + 1] \in Txs OBVIOUS
  <2> QED BY <2>1
<1>2. Applicable(L, t) BY <1>1
<1>3. PICK M \in Ledgers : M = Reflect(L, t, h) BY <1>2, ReflectTyped
<1>4. /\ M.balance = [a \in Holders |-> L.balance[a] + CoinMove(L, t, a)]
      /\ M.bonded = [a \in Accounts |-> L.bonded[a] + StakeMove(t, a)]
  BY <1>3 DEF Reflect
<1>5. /\ L.balance \in [Holders -> Int] /\ L.bonded \in [Accounts -> Int]
      /\ Accounts \subseteq Holders /\ "htlc" \in Holders
  BY LedgerTypes DEF Holders, Reserved
<1>6. n \in 0 .. Len(body) /\ n + 1 \in 0 .. Len(body) OBVIOUS
<1>7. ASSUME NEW a \in Accounts
      PROVE  SumFunctionOnSet(Costs(body), RestOf(body, n + 1, a)) <= M.balance[a]
  <2>1. PICK S, R : S = RestOf(body, n, a) /\ R = RestOf(body, n + 1, a) OBVIOUS
  <2>2. S \subseteq 1 .. Len(body) /\ R \subseteq 1 .. Len(body) BY <2>1 DEF RestOf
  <2>3. IsFiniteSet(S) /\ \A i \in S : Costs(body)[i] \in Nat BY <2>2, TotalsAreSums
  <2>4. SumFunctionOnSet(Costs(body), R) \in Nat BY <2>2, TotalsAreSums, SumNat
  <2>5. SumFunctionOnSet(Costs(body), S) <= L.balance[a]
    BY <1>6, <2>1, AffordableSums
  <2>6. M.balance[a] = L.balance[a] + CoinMove(L, t, a) /\ L.balance[a] \in Int
    BY <1>4, <1>5
  <2>7. CoinMove(L, t, a) \in Int BY <1>2, MovesAtMost
  <2>8. CASE a = t.sender
    <3>1. k \in S /\ R = S \ {k} BY <1>1, <2>1, <2>8 DEF RestOf
    <3>2. PICK c \in Nat : c = Costs(body)[k] /\ c = BalanceCost(t)
      BY <1>1, <2>2, <3>1, TotalsAreSums
    <3>3. SumFunctionOnSet(Costs(body), S) = c + SumFunctionOnSet(Costs(body), R)
      <4>1. PICK f : f = Costs(body) OBVIOUS
      <4>2. \A i \in S : f[i] \in Int BY <2>3, <4>1
      <4>3. \A i \in S : SumFunctionOnSet(f, S) = f[i] + SumFunctionOnSet(f, S \ {i})
        BY <2>3, <4>2, SumTakeOut
      <4> QED BY <3>1, <3>2, <4>1, <4>3
    <3>4. CoinMove(L, t, a) >= -c BY <1>2, <2>8, <3>2, MovesAtMost
    <3> QED BY <2>1, <2>4, <2>5, <2>6, <2>7, <3>2, <3>3, <3>4
  <2>9. CASE a # t.sender
    <3>1. R = S
      <4>1. \A i \in n + 1 .. Len(body) : i = k \/ i \in (n + 1) + 1 .. Len(body) BY <1>1
      <4>2. \A i \in (n + 1) + 1 .. Len(body) : i \in n + 1 .. Len(body) OBVIOUS
      <4> QED BY <1>1, <2>1, <2>9, <4>1, <4>2 DEF RestOf
    <3>2. CoinMove(L, t, a) >= 0 BY <1>2, <2>9, MovesAtMost
    <3> QED BY <2>1, <2>4, <2>5, <2>6, <2>7, <3>1, <3>2
  <2> QED BY <2>8, <2>9
<1>8. SumFunctionOnSet(Releasings(M, body), (n + 1) + 1 .. Len(body)) <= M.balance["htlc"]
  <2>1. PICK S, R : S = n + 1 .. Len(body) /\ R = (n + 1) + 1 .. Len(body) OBVIOUS
  <2>2. S \subseteq 1 .. Len(body) /\ R \subseteq 1 .. Len(body) /\ k \in S /\ R = S \ {k}
    BY <1>1, <2>1
  <2>3. PICK f, g : f = Releasings(L, body) /\ g = Releasings(M, body) OBVIOUS
  <2>4. IsFiniteSet(S) /\ \A i \in S : f[i] \in Nat /\ f[i] = EscrowRelease(L, body[i])
    BY <2>2, <2>3, TotalsAreSums
  <2>5. IsFiniteSet(R) /\ \A i \in R : g[i] = EscrowRelease(M, body[i])
    BY <2>2, <2>3, TotalsAreSums
  <2>6. ASSUME NEW i \in R PROVE f[i] \in Int /\ g[i] = f[i]
    <3>1. i \in S /\ i # k /\ i \in 1 .. Len(body) /\ k \in 1 .. Len(body) BY <2>2
    <3>2. body[i] \in Txs /\ Applicable(L, body[i]) BY <2>1, <3>1
    <3>3. t.id # body[i].id /\ ~Clash(t, body[i]) BY <1>1, <3>1 DEF CleanBody
    <3>4. EscrowRelease(M, body[i]) = EscrowRelease(L, body[i])
      BY <1>2, <1>3, <3>2, <3>3, ReleaseKept
    <3> QED BY <2>4, <2>5, <3>1, <3>4
  <2>7. SumFunctionOnSet(g, R) = SumFunctionOnSet(f, R) BY <2>5, <2>6, SumSame
  <2>8. SumFunctionOnSet(f, S) = f[k] + SumFunctionOnSet(f, R)
    <3>1. \A i \in S : f[i] \in Int BY <2>4
    <3>2. \A i \in S : SumFunctionOnSet(f, S) = f[i] + SumFunctionOnSet(f, S \ {i})
      BY <2>4, <3>1, SumTakeOut
    <3> QED BY <2>2, <3>2
  <2>9. PICK c \in Nat : c = f[k] /\ c = EscrowRelease(L, t) BY <1>1, <2>2, <2>4
  <2>10. SumFunctionOnSet(f, R) \in Int BY <2>5, <2>6, SumInt
  <2>11. SumFunctionOnSet(f, S) <= L.balance["htlc"]
    BY <1>6, <2>1, <2>3, AffordableSums
  <2>12. CoinMove(L, t, "htlc") \in Int /\ CoinMove(L, t, "htlc") >= -c
    BY <1>2, <2>9, MovesAtMost
  <2>13. M.balance["htlc"] = L.balance["htlc"] + CoinMove(L, t, "htlc")
         /\ L.balance["htlc"] \in Int
    BY <1>4, <1>5
  <2> QED BY <2>1, <2>3, <2>7, <2>8, <2>9, <2>10, <2>11, <2>12, <2>13
<1>9. ASSUME ~StakeContested(body), NEW i \in (n + 1) + 1 .. Len(body), Loses(body[i])
      PROVE  M.bonded[Staker(body[i])] + StakeMove(body[i], Staker(body[i])) >= 0
  <2>1. i \in DOMAIN body /\ k \in DOMAIN body /\ i # k /\ i \in n + 1 .. Len(body)
        /\ body[i] \in Txs
    BY <1>1, <1>9
  <2>2. PICK s \in Accounts, d \in Int : s = Staker(body[i]) /\ d = StakeMove(body[i], s)
    <3>1. Applicable(L, body[i]) BY <2>1
    <3> QED BY <2>1, <3>1, MovesBalance
  <2>3. L.bonded[s] + d >= 0 BY <1>6, <1>9, <2>1, <2>2, AffordableSums
  <2>4. ~(Loses(t) /\ s = Staker(t)) BY <1>1, <1>9, <2>1, <2>2 DEF StakeContested
  <2>5. StakeMove(t, s) \in Nat BY <2>4, OnlyLosses
  <2>6. M.bonded[s] = L.bonded[s] + StakeMove(t, s) /\ L.bonded[s] \in Int BY <1>4, <1>5
  <2> QED BY <2>2, <2>3, <2>5, <2>6
<1> QED BY <1>1, <1>3, <1>6, <1>7, <1>8, <1>9, AffordableSums

\* What can be paid for is paid: nothing but contested stake hits a zero floor.
LEMMA AffordableFits ==
  ASSUME NEW L \in Ledgers, NEW body \in Seq(Txs), NEW n \in Nat, n < Len(body),
         Affordable(L, body, n), ~StakeContested(body), Solvent(L),
         Applicable(L, body[n + 1])
  PROVE  Fits(L, body[n + 1])
<1>1. PICK k \in 1 .. Len(body), t \in Txs : k = n + 1 /\ t = body[k]
  <2>1. n + 1 \in 1 .. Len(body) /\ body[n + 1] \in Txs OBVIOUS
  <2> QED BY <2>1
<1>2. Applicable(L, t) /\ n \in 0 .. Len(body) /\ k \in n + 1 .. Len(body) BY <1>1
<1>3. t.sender \in Accounts BY TxsAssumption, TxShape
<1>4. L.balance[Payer(t)] >= Pays(L, t)
  <2>1. CASE Releases(t)
    <3>1. PICK S : S = n + 1 .. Len(body) OBVIOUS
    <3>2. S \subseteq 1 .. Len(body) /\ k \in S BY <1>2, <3>1
    <3>3. PICK f : f = Releasings(L, body) OBVIOUS
    <3>4. IsFiniteSet(S) /\ (\A i \in S : f[i] \in Nat) /\ f[k] = EscrowRelease(L, t)
      BY <1>1, <3>2, <3>3, TotalsAreSums
    <3>5. f[k] <= SumFunctionOnSet(f, S) BY <3>2, <3>4, MemberOfSum
    <3>6. SumFunctionOnSet(f, S) <= L.balance["htlc"]
      BY <1>2, <3>1, <3>3, AffordableSums
    <3>7. SumFunctionOnSet(f, S) \in Nat BY <3>4, SumNat
    <3>8. L.balance["htlc"] \in Int BY LedgerTypes DEF Holders, Reserved
    <3>9. Pays(L, t) = f[k] /\ f[k] \in Nat BY <1>2, <2>1, <3>2, <3>4, MovesAtMost
    <3>10. Payer(t) = "htlc" BY <2>1 DEF Payer
    <3> QED BY <3>5, <3>6, <3>7, <3>8, <3>9, <3>10
  <2>2. CASE ~Releases(t)
    <3>1. PICK S : S = RestOf(body, n, t.sender) OBVIOUS
    <3>2. S \subseteq 1 .. Len(body) /\ k \in S BY <1>1, <1>2, <3>1 DEF RestOf
    <3>3. PICK f : f = Costs(body) OBVIOUS
    <3>4. IsFiniteSet(S) /\ (\A i \in S : f[i] \in Nat) /\ f[k] = BalanceCost(t)
      BY <1>1, <3>2, <3>3, TotalsAreSums
    <3>5. f[k] <= SumFunctionOnSet(f, S) BY <3>2, <3>4, MemberOfSum
    <3>6. SumFunctionOnSet(f, S) <= L.balance[t.sender]
      BY <1>2, <1>3, <3>1, <3>3, AffordableSums
    <3>7. SumFunctionOnSet(f, S) \in Nat BY <3>4, SumNat
    <3>8. L.balance[t.sender] \in Int BY <1>3, LedgerTypes DEF Holders
    <3>9. Pays(L, t) = f[k] /\ f[k] \in Nat BY <1>2, <2>2, <3>2, <3>4, MovesAtMost
    <3>10. Payer(t) = t.sender BY <2>2 DEF Payer
    <3> QED BY <3>5, <3>6, <3>7, <3>8, <3>9, <3>10
  <2> QED BY <2>1, <2>2
<1>5. L.bonded[Staker(t)] + StakeMove(t, Staker(t)) >= 0
  <2>1. CASE Loses(t) BY <1>1, <1>2, <2>1, AffordableSums
  <2>2. CASE ~Loses(t)
    <3>1. StakeMove(t, Staker(t)) \in Nat BY <2>2, OnlyLosses
    <3>2. Staker(t) \in Accounts BY <1>2, MovesBalance
    <3>3. L.bonded[Staker(t)] \in Int /\ L.bonded[Staker(t)] >= 0
      BY <3>2, LedgerTypes DEF Solvent
    <3> QED BY <3>1, <3>3
  <2> QED BY <2>1, <2>2
<1> QED BY <1>1, <1>4, <1>5 DEF Fits

\* Every step keeps what the rest of a block may cost within the open ledger.
LEMMA NextMeans ==
  ASSUME Reversible, MeansLast, [Next]_vars
  PROVE  MeansLast'
<1>1. ASSUME NEW head \in Headers, NEW body \in Bodies, VerifyBlock(head, body)
      PROVE  MeansLast'
  <2>1. /\ BodyOk(ledger, body, Tip + 1) /\ txn' = ledger /\ at' = 0
        /\ block' = Block(head, body)
    BY <1>1 DEF VerifyBlock
  <2>2. block'.txs = body /\ body \in Seq(Txs) BY <2>1, BlockTyped
  <2>3. ledger \in Ledgers BY DEF Reversible, TypeOK
  <2>4. Affordable(ledger, body, 0) BY <2>1, <2>2, <2>3, VerifiedAffordable
  <2> QED BY <2>1, <2>2, <2>4 DEF MeansLast
<1>2. CASE IndexTransaction
  <2>1. /\ op = "incorporate" /\ at < Len(block.txs)
        /\ txn' = Reflect(txn, block.txs[at + 1], Tip + 1)
        /\ at' = at + 1 /\ UNCHANGED <<op, block>>
    BY <1>2 DEF IndexTransaction
  <2>2. /\ Tip + 1 \in Heights /\ block.txs \in Seq(Txs) /\ at \in 0 .. Len(block.txs)
        /\ txn \in Ledgers
        /\ \A j \in at + 1 .. Len(block.txs) : Applicable(txn, block.txs[j])
    BY <2>1, ApplyingShape
  <2>3. CleanBody(block.txs) BY <2>1 DEF Reversible, Incorporating
  <2>4. Affordable(txn, block.txs, at) BY <2>1 DEF MeansLast
  <2>5. at \in Nat BY <2>2
  <2>6. Affordable(txn', block.txs, at + 1)
    BY <2>1, <2>2, <2>3, <2>4, <2>5, AffordableKept
  <2> QED BY <2>1, <2>6 DEF MeansLast
<1>3. CASE CommitBlock BY <1>3 DEF CommitBlock, CloseTxn, MeansLast
<1>4. CASE StartRollback BY <1>4 DEF StartRollback, MeansLast
<1>5. CASE UnindexTransaction BY <1>5 DEF UnindexTransaction, MeansLast
<1>6. CASE CommitRollback BY <1>6 DEF CommitRollback, CloseTxn, MeansLast
<1>7. CASE Raise BY <1>7 DEF Raise, CloseTxn, MeansLast
<1>8. CASE Crash BY <1>8 DEF Crash, CloseTxn, MeansLast
<1>9. CASE UNCHANGED vars BY <1>9 DEF vars, MeansLast
<1> QED BY <1>1, <1>2, <1>3, <1>4, <1>5, <1>6, <1>7, <1>8, <1>9 DEF Next

\* In the middle of a block, the open ledger can pay for the rest of it: the
\* sums that SpendingLedger compared with the parent's balances are kept by
\* every transaction that is applied.
THEOREM MeansInvariant == Spec => []MeansLast
<1>1. Init => MeansLast BY DEF Init, MeansLast
<1>2. Reversible /\ MeansLast /\ [Next]_vars => MeansLast' BY NextMeans
<1> QED BY <1>1, <1>2, ReversibleInvariant, PTL DEF Spec

\* A block that passed verification makes incorporate_block raise only if two
\* of its transactions take stake from one bond: balances, fees and the escrow
\* account always suffice, whatever the order and the history.
THEOREM OnlyContestedRaises == Spec => []RaisesOnlyIfContested
<1>1. Reversible /\ CoinsAccounted /\ MeansLast => RaisesOnlyIfContested
  <2> SUFFICES ASSUME Reversible, CoinsAccounted, MeansLast, IncorporationBlocked,
                      ~StakeContested(block.txs)
               PROVE  FALSE
    BY DEF RaisesOnlyIfContested
  <2>1. op = "incorporate" /\ at < Len(block.txs) /\ ~Fits(txn, block.txs[at + 1])
    BY DEF IncorporationBlocked
  <2>2. /\ block.txs \in Seq(Txs) /\ at \in 0 .. Len(block.txs)
        /\ txn \in Ledgers /\ Len(steps) = at + 1 /\ txn = steps[at + 1]
        /\ \A j \in at + 1 .. Len(block.txs) : Applicable(txn, block.txs[j])
    BY <2>1, ApplyingShape
  <2>3. Solvent(txn) BY <2>2 DEF CoinsAccounted, Sound
  <2>4. Affordable(txn, block.txs, at) BY <2>1 DEF MeansLast
  <2>5. at \in Nat /\ Applicable(txn, block.txs[at + 1]) BY <2>1, <2>2
  <2> QED BY <2>1, <2>2, <2>3, <2>4, <2>5, AffordableFits
<1> QED BY <1>1, CoinsInvariant, MeansInvariant, ReversibleInvariant, PTL

\* Where no transaction takes stake, a block that passed verification is always
\* applied to its end ("successful execution mandatory, must not raise a
\* failure").
THEOREM NothingElseRaises ==
  (\A t \in Txs : ~Loses(t)) => (Spec => []IncorporationNeverRaises)
<1> SUFFICES ASSUME \A t \in Txs : ~Loses(t) PROVE Spec => []IncorporationNeverRaises
  OBVIOUS
<1>1. Reversible /\ RaisesOnlyIfContested => IncorporationNeverRaises
  <2> SUFFICES ASSUME Reversible, IncorporationBlocked, StakeContested(block.txs)
               PROVE  FALSE
    BY DEF RaisesOnlyIfContested, IncorporationNeverRaises
  <2>1. op = "incorporate" BY DEF IncorporationBlocked
  <2>2. block.txs \in Seq(Txs) BY <2>1, ApplyingShape
  <2>3. PICK i \in DOMAIN block.txs : Loses(block.txs[i]) BY DEF StakeContested
  <2> QED BY <2>2, <2>3
<1> QED BY <1>1, OnlyContestedRaises, ReversibleInvariant, PTL

-----------------------------------------------------------------------------
(* The totals and the history. *)

AllEntries == [tx : Txs, at : Nat, ix : Nat]
FeeIn == [d \in AllEntries |-> d.tx.fee]

\* A fee is a natural.
LEMMA FeeTyped ==
  ASSUME NEW d \in AllEntries
  PROVE  FeeIn[d] = d.tx.fee /\ FeeIn[d] \in Nat
  BY TxsAssumption, TxShape DEF AllEntries, FeeIn

\* What Booked says, as sums of fixed functions.
LEMMA BookedIsSum ==
  ASSUME NEW L \in Ledgers, NEW D \in SUBSET AllEntries, IsFiniteSet(D)
  PROVE  Booked(L, D) <=> L.fees = Genesis.fees + SumFunctionOnSet(FeeIn, D)
                                     + SumFunctionOnSet(L.burned, Heights)
                                     + SlashPenalty * Cardinality(L.slashed)
<1> DEFINE f == [d \in D |-> d.tx.fee]
           g == [h \in Heights |-> L.burned[h]]
<1>1. SumFunctionOnSet(f, D) = SumFunctionOnSet(FeeIn, D)
  <2>1. \A d \in D : FeeIn[d] \in Int /\ f[d] = FeeIn[d] BY FeeTyped
  <2> QED BY <2>1, SumSame
<1>2. g = L.burned /\ SumFunction(g) = SumFunctionOnSet(L.burned, Heights)
  <2>1. L.burned \in [Heights -> Int] BY LedgerTypes
  <2>2. g = L.burned BY <2>1
  <2> QED BY <2>2 DEF SumFunction
<1>3. SumFunction(f) = SumFunctionOnSet(f, D) BY DEF SumFunction
<1>4. SumOver(LAMBDA d : d.tx.fee, D) = SumFunction(f) BY DEF SumOver
<1>5. SumOver(LAMBDA h : L.burned[h], Heights) = SumFunction(g) BY DEF SumOver
<1>6. SumOver(LAMBDA d : d.tx.fee, D) = SumFunctionOnSet(FeeIn, D) BY <1>1, <1>3, <1>4
<1>7. SumOver(LAMBDA h : L.burned[h], Heights) = SumFunctionOnSet(L.burned, Heights)
  BY <1>2, <1>5
<1> HIDE DEF f, g
<1> QED BY <1>6, <1>7, Zenon DEF Booked

\* A transaction that reports no known offence adds its fee, and a penalty with
\* the marker of a new offence.
LEMMA BookedStep ==
  ASSUME NEW L \in Ledgers, NEW t \in Txs, NEW h \in Heights, NEW i \in Nat,
         Applicable(L, t), L.slashed \cap Offences(t) = {},
         NEW D \in SUBSET AllEntries, IsFiniteSet(D), IsFiniteSet(L.slashed),
         Entry(t, h, i) \notin D, Booked(L, D)
  PROVE  /\ D \cup {Entry(t, h, i)} \in SUBSET AllEntries
         /\ IsFiniteSet(D \cup {Entry(t, h, i)})
         /\ IsFiniteSet(Reflect(L, t, h).slashed)
         /\ Booked(Reflect(L, t, h), D \cup {Entry(t, h, i)})
<1>1. PICK e : e = Entry(t, h, i) OBVIOUS
<1>2. e \in AllEntries /\ e.tx = t BY <1>1 DEF AllEntries, Entry, Heights
<1>3. PICK M \in Ledgers : M = Reflect(L, t, h) BY ReflectTyped
<1>4. M.fees = L.fees + Destroys(t) /\ M.burned = L.burned
      /\ M.slashed = L.slashed \cup Offences(t)
  BY <1>3 DEF Reflect
<1>5. PICK k \in Nat : k = t.fee BY TxsAssumption, TxShape
<1>6. SumFunctionOnSet(FeeIn, D \cup {e}) = k + SumFunctionOnSet(FeeIn, D)
      /\ SumFunctionOnSet(FeeIn, D) \in Int
  <2>1. \A d \in D \cup {e} : FeeIn[d] \in Int BY <1>2, FeeTyped
  <2>2. FeeIn[e] = k BY <1>2, <1>5, FeeTyped
  <2> QED BY <1>1, <2>1, <2>2, SumAddElement, SumInt
<1>7. SumFunctionOnSet(L.burned, Heights) \in Int
  <2>1. \A g \in Heights : L.burned[g] \in Int BY LedgerTypes
  <2>2. IsFiniteSet(Heights) BY BoundsAssumption, FS_Interval DEF Heights
  <2> QED BY <2>1, <2>2, SumInt
<1>8. /\ IsFiniteSet(M.slashed) /\ Cardinality(L.slashed) \in Nat
      /\ Cardinality(M.slashed) = Cardinality(L.slashed) + (IF t.kind = "slash" THEN 1 ELSE 0)
  <2>1. CASE t.kind = "slash"
    <3>1. M.slashed = L.slashed \cup {OffenceOf(t)} /\ OffenceOf(t) \notin L.slashed
      BY <2>1, <1>4 DEF Offences
    <3> QED BY <2>1, <3>1, FS_AddElement, FS_CardinalityType
  <2>2. CASE t.kind # "slash"
    <3>1. M.slashed = L.slashed BY <2>2, <1>4 DEF Offences
    <3> QED BY <2>2, <3>1, FS_CardinalityType
  <2> QED BY <2>1, <2>2
<1>9. Genesis.fees \in Int /\ L.fees \in Int /\ SlashPenalty \in Nat
  BY GenesisAssumption, BoundsAssumption, LedgerTypes
<1>10. L.fees = Genesis.fees + SumFunctionOnSet(FeeIn, D)
                  + SumFunctionOnSet(L.burned, Heights)
                  + SlashPenalty * Cardinality(L.slashed)
  BY BookedIsSum
<1>11. M.fees = Genesis.fees + SumFunctionOnSet(FeeIn, D \cup {e})
                  + SumFunctionOnSet(M.burned, Heights)
                  + SlashPenalty * Cardinality(M.slashed)
  <2>1. PICK c \in Nat : c = Cardinality(L.slashed) BY <1>8
  <2>2. PICK x \in Int, y \in Int : /\ x = SumFunctionOnSet(FeeIn, D)
                                   /\ y = SumFunctionOnSet(L.burned, Heights)
    BY <1>6, <1>7
  <2>3. L.fees = Genesis.fees + x + y + SlashPenalty * c BY <1>10, <2>1, <2>2
  <2>4. CASE t.kind = "slash"
    <3>1. M.fees = L.fees + k + SlashPenalty BY <2>4, <1>4, <1>5, <1>9 DEF Destroys
    <3>2. Cardinality(M.slashed) = c + 1 BY <2>4, <1>8, <2>1
    <3>3. SlashPenalty * (c + 1) = SlashPenalty * c + SlashPenalty
          /\ SlashPenalty * c \in Int
      BY <1>9
    <3> QED BY <3>1, <3>2, <3>3, <2>2, <2>3, <1>4, <1>6, <1>9
  <2>5. CASE t.kind # "slash"
    <3>1. M.fees = L.fees + k BY <2>5, <1>4, <1>5, <1>9 DEF Destroys
    <3>2. Cardinality(M.slashed) = c BY <2>5, <1>8, <2>1
    <3>3. SlashPenalty * c \in Int BY <1>9
    <3> QED BY <3>1, <3>2, <3>3, <2>2, <2>3, <1>4, <1>6, <1>9
  <2> QED BY <2>4, <2>5
<1>12. D \cup {e} \in SUBSET AllEntries /\ IsFiniteSet(D \cup {e})
  BY <1>2, FS_AddElement
<1>13. Booked(M, D \cup {e}) BY <1>11, <1>12, BookedIsSum
<1> QED BY <1>1, <1>3, <1>8, <1>12, <1>13

\* The burn of a block is booked with it.
LEMMA BookedSeal ==
  ASSUME NEW L \in Ledgers, NEW h \in Heights, Unburned(L, h),
         NEW b, b.reward \in Nat, b.creator \in Accounts,
         NEW D \in SUBSET AllEntries, IsFiniteSet(D), IsFiniteSet(L.slashed), Booked(L, D)
  PROVE  Booked(Seal(L, b, h), D)
<1>1. PICK M \in Ledgers : M = Seal(L, b, h) BY SealTyped
<1>2. PICK n \in Int : n = BurnAt(L, b, h)
  BY BurnTyped
<1>3. M.fees = L.fees + n /\ M.burned = [L.burned EXCEPT ![h] = n] /\ M.slashed = L.slashed
  BY <1>1, <1>2 DEF Seal
<1>4. \A g \in Heights : L.burned[g] \in Int
                         /\ M.burned[g] = L.burned[g] + (IF g = h THEN n ELSE 0)
  <2>1. L.burned \in [Heights -> Int] BY LedgerTypes
  <2>2. L.burned[h] = 0 BY DEF Unburned, Heights
  <2> QED BY <1>3, <2>1, <2>2
<1>5. IsFiniteSet(Heights) BY BoundsAssumption, FS_Interval DEF Heights
<1>6. SumFunctionOnSet(M.burned, Heights) = SumFunctionOnSet(L.burned, Heights) + n
      /\ SumFunctionOnSet(L.burned, Heights) \in Int
  <2>1. PICK f, g : f = L.burned /\ g = M.burned OBVIOUS
  <2>2. \A x \in Heights : f[x] \in Int /\ g[x] = f[x] + (IF x = h THEN n ELSE 0)
    BY <1>4, <2>1
  <2>3. SumFunctionOnSet(g, Heights) = SumFunctionOnSet(f, Heights) + n
    BY <2>2, <1>5, SumBump
  <2>4. SumFunctionOnSet(f, Heights) \in Int BY <2>2, <1>5, SumInt
  <2> QED BY <2>1, <2>3, <2>4
<1>7. /\ SumFunctionOnSet(FeeIn, D) \in Int
      /\ Genesis.fees \in Int /\ L.fees \in Int
  <2>1. \A d \in D : FeeIn[d] \in Int BY FeeTyped
  <2> QED BY <2>1, SumInt, GenesisAssumption, LedgerTypes
<1>8. L.fees = Genesis.fees + SumFunctionOnSet(FeeIn, D)
                  + SumFunctionOnSet(L.burned, Heights)
                  + SlashPenalty * Cardinality(L.slashed)
  BY BookedIsSum
<1>9. PICK c \in Int : c = SlashPenalty * Cardinality(L.slashed)
  <2>1. Cardinality(L.slashed) \in Nat /\ SlashPenalty \in Nat
    BY FS_CardinalityType, BoundsAssumption
  <2> QED BY <2>1
<1>10. M.fees = Genesis.fees + SumFunctionOnSet(FeeIn, D)
                  + SumFunctionOnSet(M.burned, Heights)
                  + SlashPenalty * Cardinality(M.slashed)
  BY <1>3, <1>6, <1>7, <1>8, <1>9
<1>11. Booked(M, D) BY <1>10, BookedIsSum
<1> QED BY <1>1, <1>11

-----------------------------------------------------------------------------
(* The age of a bond. *)

\* A later height is in no earlier epoch.
LEMMA EpochOrder ==
  ASSUME NEW g \in Nat, NEW h \in Nat, g <= h
  PROVE  Epoch(g) \in Nat /\ Epoch(h) \in Nat /\ Epoch(g) <= Epoch(h)
  BY BoundsAssumption DEF Epoch

\* A weighted mean, rounded down, is no less than the least of its parts.
LEMMA MeanAtLeast ==
  ASSUME NEW v \in Nat \ {0}, NEW w \in Nat, NEW x \in Nat, NEW y \in Nat,
         NEW m \in Nat, m <= x, m <= y
  PROVE  (v * x + w * y) \div (v + w) >= m
<1> DEFINE n == v * x + w * y
           d == v + w
<1>1. PICK j \in Nat, k \in Nat : x = m + j /\ y = m + k
  <2>1. x - m \in Nat /\ y - m \in Nat OBVIOUS
  <2> QED BY <2>1
<1>2. n = m * d + (v * j + w * k) /\ v * j + w * k \in Nat /\ m * d \in Nat BY <1>1
<1>3. n \in Nat /\ d \in Nat \ {0} /\ m * d <= n BY <1>2
<1> HIDE DEF n, d
<1>4. n \div d >= m
  <2>1. PICK q \in Int, r \in Int : /\ q = n \div d /\ n = d * q + r /\ 0 <= r /\ r < d
    BY <1>3
  <2>2. CASE q < m
    <3>1. PICK u \in Nat : m = q + 1 + u
      <4>1. m - q - 1 \in Nat BY <2>2
      <4> QED BY <4>1
    <3>2. m * d = d * q + d + u * d /\ u * d \in Nat /\ d * q \in Int BY <3>1, <1>3
    <3> QED BY <3>2, <2>1, <1>3
  <2> QED BY <2>1, <2>2
<1> QED BY <1>4 DEF n, d

\* Nobody bonds twice in the first epoch of the history D.
EarlyOnce(D) ==
  \A d, e \in D : /\ d.tx.kind = "bond" /\ e.tx.kind = "bond"
                  /\ d.tx.sender = e.tx.sender
                  /\ Epoch(d.at) = 0 /\ Epoch(e.at) = 0
                  => d = e

\* A first bond is as old as its epoch, or younger; a top-up makes a stake no
\* older than its first bond, and never as old as one of genesis.
LEMMA AgedStep ==
  ASSUME NEW L \in Ledgers, NEW t \in Txs, NEW h \in Heights, NEW i \in Nat,
         Applicable(L, t), NEW D, \A d \in D : d.at \in Nat /\ d.at <= h,
         Entry(t, h, i) \notin D, EarlyOnce(D \cup {Entry(t, h, i)}), Aged(L, D)
  PROVE  Aged(Reflect(L, t, h), D \cup {Entry(t, h, i)})
<1>1. PICK n : n = Entry(t, h, i) OBVIOUS
<1>2. n.tx = t /\ n.at = h /\ n \notin D /\ EarlyOnce(D \cup {n}) BY <1>1, EntryFields
<1>3. PICK M \in Ledgers : M = Reflect(L, t, h) BY ReflectTyped
<1>4. /\ M.bonded = [a \in Accounts |-> L.bonded[a] + StakeMove(t, a)]
      /\ M.since = SinceAfter(L, t, h)
  BY <1>3 DEF Reflect
<1>5. L.since \in [Accounts -> Nat \cup {NONE}] /\ L.bonded \in [Accounts -> Int]
  BY LedgerTypes
<1>6. t \in Transaction BY TxsAssumption
<1>7. SUFFICES ASSUME NEW a \in Accounts, Genesis.bonded[a] <= 0, M.bonded[a] > 0
               PROVE  /\ M.since[a] \in Nat \ {0}
                      /\ \E d \in D \cup {n} : BondedBy(d, a) /\ Epoch(d.at) <= M.since[a]
  BY <1>1, <1>3 DEF Aged
<1>8. CASE t.kind = "bond" /\ t.sender = a
  <2>1. PICK w \in Nat : w = t.amount BY <1>6, TxShape
  <2>2. PICK v \in Int : v = L.bonded[a] BY <1>5
  <2>3. PICK y \in Nat : y = Epoch(h) BY EpochTyped
  <2>4. M.since[a] = BondAge(L, t, h) BY <1>4, <1>5, <1>8 DEF SinceAfter
  <2>5. M.bonded[a] = v + w
    BY <1>4, <1>8, <2>1, <2>2 DEF StakeMove, Staker
  <2>6. BondedBy(n, a) /\ Epoch(n.at) = y BY <1>2, <1>8, <2>3 DEF BondedBy
  <2>7. CASE v <= 0
    <3>1. BondAge(L, t, h) = IF y > 1 THEN y ELSE 1
      BY <1>8, <2>2, <2>3, <2>7 DEF BondAge
    <3> QED BY <2>3, <2>4, <2>6, <3>1
  <2>8. CASE v > 0
    <3>1. PICK x \in Nat \ {0} : x = L.since[a] BY <2>2, <2>8, <1>7 DEF Aged
    <3>2. PICK d \in D : BondedBy(d, a) /\ Epoch(d.at) <= x
      BY <2>2, <2>8, <1>7, <3>1 DEF Aged
    <3>3. PICK m \in Nat : m = Epoch(d.at) /\ m <= y
      BY <2>3, EpochOrder DEF Heights
    <3>4. x # NONE BY NoneAssumption
    <3>5. BondAge(L, t, h) = (v * x + w * y) \div (v + w)
      BY <1>8, <2>1, <2>2, <2>3, <2>8, <3>1, <3>4 DEF BondAge
    <3>6. BondAge(L, t, h) >= m
      BY <2>8, <3>2, <3>3, <3>5, MeanAtLeast
    <3>7. y # 0
      <4>1. SUFFICES ASSUME y = 0 PROVE FALSE OBVIOUS
      <4>2. m = 0 BY <3>3, <4>1
      <4>3. d = n BY <1>2, <1>8, <2>6, <3>2, <3>3, <4>1, <4>2 DEF EarlyOnce, BondedBy
      <4> QED BY <1>2, <4>3
    <3>8. BondAge(L, t, h) >= 1
      <4>1. 1 <= x /\ 1 <= y /\ v \in Nat \ {0} BY <2>8, <3>7
      <4> QED BY <3>5, <4>1, MeanAtLeast
    <3>9. BondAge(L, t, h) \in Nat BY <1>6, <1>8, TxShape, BondAgeTyped
    <3> QED BY <2>4, <3>2, <3>3, <3>6, <3>8, <3>9
  <2> QED BY <2>7, <2>8
<1>9. CASE ~(t.kind = "bond" /\ t.sender = a)
  <2>1. M.since[a] = L.since[a] BY <1>4, <1>5, <1>6, <1>9, TxShape DEF SinceAfter
  <2>2. L.bonded[a] > 0
    <3>1. StakeMove(t, a) \in Int /\ StakeMove(t, a) <= 0
      BY <1>6, <1>9, TxShape, BoundsAssumption DEF StakeMove, Staker
    <3>2. M.bonded[a] = L.bonded[a] + StakeMove(t, a) /\ L.bonded[a] \in Int BY <1>4, <1>5
    <3> QED BY <1>7, <3>1, <3>2
  <2> QED BY <1>7, <2>1, <2>2 DEF Aged
<1> QED BY <1>8, <1>9

-----------------------------------------------------------------------------
(* One block, then the chain. *)

\* No two transactions of the body report one offence.
TwinFree(body) ==
  \A i, j \in DOMAIN body :
    /\ body[i].kind = "slash" /\ body[j].kind = "slash"
    /\ OffenceOf(body[i]) = OffenceOf(body[j])
    => i = j

\* The entries of a body are entries, and none of them is earlier history.
LEMMA EntriesTyped ==
  ASSUME NEW body \in Seq(Txs), NEW n \in Nat, n <= Len(body), NEW h \in Nat
  PROVE  Entries(body, n, h) \in SUBSET AllEntries
<1>1. \A i \in 1 .. n : body[i] \in Txs /\ i \in Nat OBVIOUS
<1> QED BY <1>1 DEF Entries, AllEntries

\* The totals after a block, if they were right before it.
LEMMA BookedBlock ==
  ASSUME NEW h \in Heights, NEW b \in BlockType, NEW path, FullRun(path, b, h),
         TwinFree(b.txs), NEW D \in SUBSET AllEntries, IsFiniteSet(D),
         \A d \in D : d.at < h, IsFiniteSet(path[1].slashed), Booked(path[1], D)
  PROVE  LET L == Seal(path[Len(path)], b, h)
             E == D \cup Entries(b.txs, Len(b.txs), h)
         IN  /\ E \in SUBSET AllEntries /\ IsFiniteSet(E)
             /\ IsFiniteSet(L.slashed) /\ Booked(L, E)
<1> DEFINE body == b.txs
           E(n) == D \cup Entries(body, n, h)
           G(n) == /\ E(n) \in SUBSET AllEntries /\ IsFiniteSet(E(n))
                   /\ IsFiniteSet(path[n + 1].slashed) /\ Booked(path[n + 1], E(n))
                   /\ path[n + 1].slashed \subseteq
                        path[1].slashed \cup UNION {Offences(body[j]) : j \in 1 .. n}
           P == {n \in Nat : n <= Len(body) => G(n)}
<1>1. /\ body \in Seq(Txs) /\ path \in Seq(Ledgers) /\ Len(path) = Len(body) + 1
      /\ Len(body) \in Nat /\ b.reward \in Nat /\ b.creator \in Accounts
      /\ DOMAIN body = 1 .. Len(body)
      /\ \A i \in 1 .. Len(path) : path[i] \in Ledgers /\ Unburned(path[i], h)
      /\ \A i \in 1 .. Len(body) : /\ path[i + 1] = Reflect(path[i], body[i], h)
                                   /\ Applicable(path[i], body[i])
                                   /\ path[1].slashed \cap Offences(body[i]) = {}
  BY DEF FullRun, IsRun, BlockType
<1>2. 0 \in P
  <2>1. E(0) = D BY EntriesGrow
  <2>2. 0 + 1 = 1 OBVIOUS
  <2> QED BY <2>1, <2>2
<1>3. ASSUME NEW n \in P PROVE n + 1 \in P
  <2>0. n \in Nat OBVIOUS
  <2> SUFFICES ASSUME n + 1 <= Len(body) PROVE G(n + 1) OBVIOUS
  <2>1. n <= Len(body) /\ n + 1 \in 1 .. Len(body) /\ n + 1 \in 1 .. Len(path)
    BY <2>0, <1>1
  <2>2. G(n) BY <2>1
  <2>3. PICK L \in Ledgers, t \in Txs : L = path[n + 1] /\ t = body[n + 1] BY <1>1, <2>1
  <2>4. path[(n + 1) + 1] = Reflect(L, t, h) /\ Applicable(L, t)
        /\ path[1].slashed \cap Offences(t) = {}
    BY <1>1, <2>1, <2>3
  <2>5. L.slashed \cap Offences(t) = {}
    <3>1. SUFFICES ASSUME NEW o \in L.slashed, o \in Offences(t) PROVE FALSE OBVIOUS
    <3>2. PICK j \in 1 .. n : o \in Offences(body[j]) BY <2>2, <2>3, <2>4, <3>1
    <3>3. /\ t.kind = "slash" /\ body[j].kind = "slash"
          /\ OffenceOf(t) = OffenceOf(body[j])
      BY <3>1, <3>2 DEF Offences
    <3>4. j \in DOMAIN body /\ n + 1 \in DOMAIN body /\ j # n + 1 BY <1>1, <2>0, <2>1
    <3> QED BY <3>3, <3>4, <2>3 DEF TwinFree
  <2>6. PICK e : e = Entry(t, h, n + 1) OBVIOUS
  <2>7. E(n + 1) = E(n) \cup {e} BY <2>0, <2>3, <2>6, EntriesGrow
  <2>8. e \notin E(n)
    <3>1. e.at = h /\ e.ix = n + 1 BY <2>6, EntryFields
    <3>2. \A d \in Entries(body, n, h) : d.ix <= n BY <2>0 DEF Entries
    <3>3. h \in Nat BY DEF Heights
    <3> QED BY <3>1, <3>2, <3>3, <2>0
  <2>9. PICK F : F = E(n) OBVIOUS
  <2>10. /\ F \cup {e} \in SUBSET AllEntries /\ IsFiniteSet(F \cup {e})
         /\ IsFiniteSet(Reflect(L, t, h).slashed) /\ Booked(Reflect(L, t, h), F \cup {e})
    <3>1. F \in SUBSET AllEntries /\ IsFiniteSet(F) /\ IsFiniteSet(L.slashed) /\ Booked(L, F)
      BY <2>2, <2>3, <2>9
    <3>2. Entry(t, h, n + 1) \notin F BY <2>6, <2>8, <2>9
    <3>3. n + 1 \in Nat BY <2>0
    <3> HIDE DEF P, G, E
    <3> QED BY <2>4, <2>5, <2>6, <3>1, <3>2, <3>3, BookedStep
  <2>11. path[(n + 1) + 1].slashed \subseteq
           path[1].slashed \cup UNION {Offences(body[j]) : j \in 1 .. n + 1}
    <3>1. path[(n + 1) + 1].slashed = L.slashed \cup Offences(t) BY <2>4 DEF Reflect
    <3>2. L.slashed \subseteq path[1].slashed \cup UNION {Offences(body[j]) : j \in 1 .. n}
      BY <2>2, <2>3
    <3>3. \A j \in 1 .. n : j \in 1 .. n + 1 BY <2>0
    <3>4. n + 1 \in 1 .. n + 1 BY <2>0
    <3> QED BY <3>1, <3>2, <3>3, <3>4, <2>3
  <2> QED BY <2>4, <2>7, <2>9, <2>10, <2>11
<1>4. P = Nat
  <2> HIDE DEF P
  <2>1. P \subseteq Nat BY DEF P
  <2> QED BY <1>2, <1>3, <2>1, NatInduct
<1>5. G(Len(body))
  <2>1. Len(body) \in P BY <1>1, <1>4
  <2>2. Len(body) <= Len(body) BY <1>1
  <2> QED BY <2>1, <2>2
<1>6. PICK L, F : /\ L \in Ledgers /\ Unburned(L, h)
                  /\ L = path[Len(path)] /\ F = E(Len(body))
  <2>1. Len(path) \in 1 .. Len(path) BY <1>1
  <2>2. path[Len(path)] \in Ledgers /\ Unburned(path[Len(path)], h) BY <1>1, <2>1
  <2> QED BY <2>2
<1>7. /\ F \in SUBSET AllEntries /\ IsFiniteSet(F) /\ IsFiniteSet(L.slashed)
      /\ Booked(L, F)
  BY <1>1, <1>5, <1>6
<1>8. Booked(Seal(L, b, h), F) BY <1>1, <1>6, <1>7, BookedSeal
<1>9. Seal(L, b, h).slashed = L.slashed BY DEF Seal
<1> QED BY <1>6, <1>7, <1>8, <1>9

\* The ages after a block, if they were right before it.
LEMMA AgedBlock ==
  ASSUME NEW h \in Heights, NEW b \in BlockType, NEW path, FullRun(path, b, h),
         NEW D, \A d \in D : d.at \in Nat /\ d.at < h, Aged(path[1], D),
         EarlyOnce(D \cup Entries(b.txs, Len(b.txs), h))
  PROVE  Aged(Seal(path[Len(path)], b, h), D \cup Entries(b.txs, Len(b.txs), h))
<1> DEFINE body == b.txs
           E(n) == D \cup Entries(body, n, h)
           P == {n \in Nat : n <= Len(body) => Aged(path[n + 1], E(n))}
<1>1. /\ body \in Seq(Txs) /\ path \in Seq(Ledgers) /\ Len(path) = Len(body) + 1
      /\ Len(body) \in Nat
      /\ \A i \in 1 .. Len(path) : path[i] \in Ledgers
      /\ \A i \in 1 .. Len(body) : /\ path[i + 1] = Reflect(path[i], body[i], h)
                                   /\ Applicable(path[i], body[i])
  BY DEF FullRun, IsRun, BlockType
<1>2. 0 \in P
  <2>1. E(0) = D BY EntriesGrow
  <2>2. 0 + 1 = 1 OBVIOUS
  <2> QED BY <2>1, <2>2
<1>3. ASSUME NEW n \in P PROVE n + 1 \in P
  <2>0. n \in Nat OBVIOUS
  <2> SUFFICES ASSUME n + 1 <= Len(body) PROVE Aged(path[(n + 1) + 1], E(n + 1)) OBVIOUS
  <2>1. n <= Len(body) /\ n + 1 \in 1 .. Len(body) /\ n + 1 \in 1 .. Len(path)
    BY <2>0, <1>1
  <2>2. PICK L \in Ledgers, t \in Txs : L = path[n + 1] /\ t = body[n + 1] BY <1>1, <2>1
  <2>3. path[(n + 1) + 1] = Reflect(L, t, h) /\ Applicable(L, t) BY <1>1, <2>1, <2>2
  <2>4. PICK e : e = Entry(t, h, n + 1) OBVIOUS
  <2>5. E(n + 1) = E(n) \cup {e} BY <2>0, <2>2, <2>4, EntriesGrow
  <2>6. h \in Nat BY DEF Heights
  <2>7. e \notin E(n) /\ \A d \in E(n) : d.at \in Nat /\ d.at <= h
    <3>1. e.at = h /\ e.ix = n + 1 BY <2>4, EntryFields
    <3>2. \A d \in Entries(body, n, h) : d.ix <= n /\ d.at = h BY <2>0 DEF Entries
    <3> QED BY <3>1, <3>2, <2>0, <2>6
  <2>8. EarlyOnce(E(n + 1))
    <3>1. E(n + 1) \subseteq D \cup Entries(body, Len(body), h)
      <4>1. \A j \in 1 .. n + 1 : j \in 1 .. Len(body) BY <2>0, <2>1, <1>1
      <4> QED BY <4>1 DEF Entries
    <3> QED BY <3>1 DEF EarlyOnce
  <2>9. PICK F : F = E(n) OBVIOUS
  <2>10. Aged(Reflect(L, t, h), F \cup {e})
    <3>1. Aged(L, F) BY <2>1, <2>2, <2>9
    <3>2. EarlyOnce(F \cup {e}) BY <2>5, <2>8, <2>9
    <3>3. n + 1 \in Nat BY <2>0
    <3>4. e \notin F /\ \A d \in F : d.at \in Nat /\ d.at <= h BY <2>7, <2>9
    <3> HIDE DEF P, E
    <3> QED BY <2>3, <2>4, <3>1, <3>2, <3>3, <3>4, AgedStep
  <2> QED BY <2>3, <2>5, <2>9, <2>10
<1>4. P = Nat
  <2> HIDE DEF P
  <2>1. P \subseteq Nat BY DEF P
  <2> QED BY <1>2, <1>3, <2>1, NatInduct
<1>5. Aged(path[Len(path)], E(Len(body)))
  <2>1. Len(body) \in P BY <1>1, <1>4
  <2>2. Len(body) <= Len(body) BY <1>1
  <2> QED BY <2>1, <2>2, <1>1
<1>6. /\ Seal(path[Len(path)], b, h).bonded = path[Len(path)].bonded
      /\ Seal(path[Len(path)], b, h).since = path[Len(path)].since
  BY DEF Seal
<1> QED BY <1>5, <1>6 DEF Aged

\* What the properties of Ledger say of positions, for the blocks they are in.
LEMMA ChainBodies ==
  ASSUME Reversible, RowsExplained
  PROVE  /\ NoTwinReports => \A h \in 1 .. Tip : TwinFree(chain[h].txs)
         /\ LateTopUps => EarlyOnce(Done(Tip))
<1>1. ASSUME NoTwinReports, NEW h \in 1 .. Tip PROVE TwinFree(chain[h].txs)
  <2> SUFFICES ASSUME NEW i \in DOMAIN chain[h].txs, NEW j \in DOMAIN chain[h].txs,
                      chain[h].txs[i].kind = "slash", chain[h].txs[j].kind = "slash",
                      OffenceOf(chain[h].txs[i]) = OffenceOf(chain[h].txs[j])
               PROVE  i = j
    BY DEF TwinFree
  <2>1. chain[h].txs \in Seq(Txs) /\ Len(chain[h].txs) <= MaxTxs
    <3>1. chain[h] \in BlockType BY DEF Reversible, TypeOK, Tip
    <3> QED BY <3>1 DEF BlockType, RowsExplained, BodiesBounded
  <2>2. /\ i \in 1 .. MaxTxs /\ i <= Len(chain[h].txs)
        /\ j \in 1 .. MaxTxs /\ j <= Len(chain[h].txs)
    BY <2>1, DepthAssumption
  <2>3. TxAt(<<h, i>>) = chain[h].txs[i] /\ TxAt(<<h, j>>) = chain[h].txs[j] BY DEF TxAt
  <2>4. <<h, i>> \in OnChain("slash") /\ <<h, j>> \in OnChain("slash")
    BY <2>2 DEF OnChain
  <2>5. <<h, i>> = <<h, j>> BY <1>1, <2>3, <2>4 DEF NoTwinReports
  <2> QED BY <2>5
<1>2. ASSUME LateTopUps PROVE EarlyOnce(Done(Tip))
  <2> SUFFICES ASSUME NEW d \in Done(Tip), NEW e \in Done(Tip),
                      d.tx.kind = "bond", e.tx.kind = "bond",
                      d.tx.sender = e.tx.sender, Epoch(d.at) = 0, Epoch(e.at) = 0
               PROVE  d = e
    BY DEF EarlyOnce
  <2>1. /\ <<d.at, d.ix>> \in OnChain("bond") /\ TxAt(<<d.at, d.ix>>) = d.tx
        /\ <<e.at, e.ix>> \in OnChain("bond") /\ TxAt(<<e.at, e.ix>>) = e.tx
    BY PositionsAreEntries
  <2>2. <<d.at, d.ix>> = <<e.at, e.ix>> BY <1>2, <2>1 DEF LateTopUps
  <2>3. d.tx.id = e.tx.id BY <2>1, <2>2
  <2> QED BY <2>3, TipExplained DEF Explains, IndexIs
<1> QED BY <1>1, <1>2

\* The totals, from genesis up.
LEMMA TotalsFollow ==
  ASSUME Reversible, RowsExplained, Rooted
  PROVE  TotalsExplained
<1> DEFINE Fine(h) ==
             /\ Done(h) \in SUBSET AllEntries /\ IsFiniteSet(Done(h))
             /\ NoTwinReports => /\ IsFiniteSet(LedgerAfter(h).slashed)
                                 /\ Booked(LedgerAfter(h), Done(h))
             /\ LateTopUps => Aged(LedgerAfter(h), Done(h))
           P == {h \in Nat : h <= Tip => Fine(h)}
<1>1. Tip \in Nat /\ chain \in Seq(BlockType) /\ Len(chain) = Tip /\ Tip <= MaxHeight
  BY DEF Reversible, TypeOK, Tip
<1>2. 0 \in P
  <2>1. Done(0) = {} BY DoneGrows
  <2>2. Genesis \in Ledgers /\ Genesis.slashed = {} /\ \A h \in Heights : Genesis.burned[h] = 0
    BY GenesisAssumption
  <2>3. IsFiniteSet({}) /\ Cardinality({}) = 0 BY FS_EmptySet
  <2>4. Booked(Genesis, {})
    <3>1. SumFunctionOnSet(FeeIn, {}) = 0 BY SumEmpty
    <3>2. SumFunctionOnSet(Genesis.burned, Heights) = 0
      <4>1. IsFiniteSet(Heights) BY BoundsAssumption, FS_Interval DEF Heights
      <4> QED BY <2>2, <4>1, SumZero
    <3>3. SlashPenalty * Cardinality(Genesis.slashed) = 0
      BY <2>2, <2>3, BoundsAssumption
    <3>4. Genesis.fees \in Int BY <2>2, LedgerTypes
    <3>5. Genesis.fees = Genesis.fees + SumFunctionOnSet(FeeIn, {})
                           + SumFunctionOnSet(Genesis.burned, Heights)
                           + SlashPenalty * Cardinality(Genesis.slashed)
      BY <3>1, <3>2, <3>3, <3>4
    <3> QED BY <2>2, <2>3, <3>5, BookedIsSum
  <2>5. Aged(Genesis, {})
    <3>1. Genesis.bonded \in [Accounts -> Int] BY <2>2, LedgerTypes
    <3> QED BY <3>1 DEF Aged
  <2> QED BY <2>1, <2>2, <2>3, <2>4, <2>5 DEF Rooted
<1>3. ASSUME NEW g \in P PROVE g + 1 \in P
  <2>0. g \in Nat OBVIOUS
  <2> SUFFICES ASSUME g + 1 <= Tip PROVE Fine(g + 1) OBVIOUS
  <2>1. g <= Tip /\ g + 1 \in 1 .. Tip /\ g + 1 \in Heights
    BY <2>0, <1>1, BoundsAssumption DEF Heights
  <2>2. Fine(g) BY <2>1
  <2>a. PICK b \in BlockType : b = chain[g + 1] BY <1>1, <2>1
  <2>b. PICK path : path = trace[g + 1] OBVIOUS
  <2>3. b = chain[g + 1] /\ path = trace[g + 1] BY <2>a, <2>b
  <2>4. FullRun(path, b, g + 1) /\ LedgerAfter(g + 1) = Seal(path[Len(path)], b, g + 1)
    BY <2>1, <2>3 DEF Reversible, History
  <2>5. LedgerAfter(g) = path[1]
    <3>1. g < Tip BY <2>0, <2>1, <1>1
    <3> QED BY <2>3, <3>1 DEF LedgerAfter
  <2>6. Done(g + 1) = Done(g) \cup Entries(b.txs, Len(b.txs), g + 1)
    BY <2>0, <2>3, DoneGrows
  <2>7. \A d \in Done(g) : d.at \in Nat /\ d.at < g + 1 BY <2>0, DoneHeights
  <2>8. Done(g + 1) \in SUBSET AllEntries /\ IsFiniteSet(Done(g + 1))
    <3>1. b.txs \in Seq(Txs) /\ Len(b.txs) \in Nat BY DEF BlockType
    <3>2. Entries(b.txs, Len(b.txs), g + 1) \in SUBSET AllEntries
      BY <3>1, <2>0, EntriesTyped
    <3>3. IsFiniteSet(Entries(b.txs, Len(b.txs), g + 1))
      <4> DEFINE I == 1 .. Len(b.txs)
                 f == [i \in I |-> [tx |-> b.txs[i], at |-> g + 1, ix |-> i]]
      <4>1. IsFiniteSet(I) BY <3>1, FS_Interval
      <4>2. f \in Surjection(I, Entries(b.txs, Len(b.txs), g + 1))
        BY DEF Surjection, Entries
      <4> QED BY <4>1, <4>2, FS_Surjection
    <3> QED BY <2>2, <2>6, <3>2, <3>3, FS_Union
  <2>9. ASSUME NoTwinReports
        PROVE  /\ IsFiniteSet(LedgerAfter(g + 1).slashed)
               /\ Booked(LedgerAfter(g + 1), Done(g + 1))
    <3>1. TwinFree(b.txs) BY <2>1, <2>3, <2>9, ChainBodies
    <3>2. IsFiniteSet(path[1].slashed) /\ Booked(path[1], Done(g))
          /\ Done(g) \in SUBSET AllEntries /\ IsFiniteSet(Done(g))
      BY <2>2, <2>5, <2>9
    <3> HIDE DEF P, Fine
    <3> QED BY <2>1, <2>4, <2>6, <2>7, <3>1, <3>2, BookedBlock
  <2>10. ASSUME LateTopUps PROVE Aged(LedgerAfter(g + 1), Done(g + 1))
    <3>1. EarlyOnce(Done(g + 1))
      <4>1. \A h \in 1 .. g + 1 : h \in 1 .. Tip BY <2>0, <2>1, <1>1
      <4>2. Done(g + 1) \subseteq Done(Tip) BY <4>1 DEF Done
      <4> QED BY <4>2, <2>10, ChainBodies DEF EarlyOnce
    <3>2. Aged(path[1], Done(g)) BY <2>2, <2>5, <2>10
    <3> HIDE DEF P, Fine
    <3> QED BY <2>1, <2>4, <2>6, <2>7, <3>1, <3>2, AgedBlock
  <2> QED BY <2>8, <2>9, <2>10
<1>4. P = Nat
  <2> HIDE DEF P
  <2>1. P \subseteq Nat BY DEF P
  <2> QED BY <1>2, <1>3, <2>1, NatInduct
<1>5. \A h \in 0 .. Tip : Fine(h) BY <1>1, <1>4
<1> QED BY <1>5 DEF TotalsExplained

\* No block and no rollback touches the ledger the chain started from.
LEMMA RootKept ==
  ASSUME Reversible, Rooted, [Next]_vars
  PROVE  Rooted'
<1>0. Tip \in Nat /\ Len(chain) = Tip /\ chain \in Seq(BlockType)
      /\ trace \in Seq(Seq(Ledgers)) /\ Len(trace) = Tip
  BY DEF Reversible, TypeOK, Tip
<1> SUFFICES LedgerAfter(0)' = LedgerAfter(0) BY DEF Rooted
<1>1. CASE UNCHANGED <<chain, ledger, trace>> BY <1>1 DEF LedgerAfter, Tip
<1>2. CASE CommitBlock
  <2>1. /\ op = "incorporate" /\ chain' = Append(chain, block)
        /\ trace' = Append(trace, steps)
    BY <1>2 DEF CommitBlock
  <2>2. steps[1] = ledger BY <2>1 DEF Reversible, Incorporating
  <2>3. Tip' = Tip + 1 /\ trace'[1] = (IF Tip = 0 THEN steps ELSE trace[1])
    BY <1>0, <2>1 DEF Tip
  <2>4. 0 < Tip' /\ 0 + 1 = 1 BY <1>0, <2>3
  <2>5. LedgerAfter(0)' = trace'[1][1] BY <2>4 DEF LedgerAfter
  <2>6. LedgerAfter(0) = IF 0 < Tip THEN trace[1][1] ELSE ledger BY DEF LedgerAfter
  <2> QED BY <1>0, <2>2, <2>3, <2>5, <2>6
<1>3. CASE CommitRollback
  <2>1. /\ op = "rollback" /\ at = 0 /\ ledger' = txn
        /\ chain' = SubSeq(chain, 1, Tip - 1) /\ trace' = SubSeq(trace, 1, Tip - 1)
    BY <1>3 DEF CommitRollback
  <2>2. Tip > 0 /\ txn = LedgerAfter(Tip - 1) BY <2>1, RolledBack
  <2>3. Tip' = Tip - 1 /\ (Tip > 1 => trace'[1] = trace[1]) BY <1>0, <2>1, <2>2 DEF Tip
  <2>4. CASE Tip = 1
    <3>1. LedgerAfter(0)' = ledger' BY <2>3, <2>4 DEF LedgerAfter
    <3> QED BY <2>1, <2>2, <2>4, <3>1
  <2>5. CASE Tip # 1
    <3>1. Tip > 1 /\ 0 < Tip' /\ 0 + 1 = 1 BY <1>0, <2>2, <2>3, <2>5
    <3>2. LedgerAfter(0)' = trace'[1][1] BY <3>1 DEF LedgerAfter
    <3>3. LedgerAfter(0) = trace[1][1]
      <4>1. 0 < Tip BY <3>1, <1>0
      <4> QED BY <3>1, <4>1 DEF LedgerAfter
    <3> QED BY <2>3, <3>1, <3>2, <3>3
  <2> QED BY <2>4, <2>5
<1>4. [Next]_vars => \/ UNCHANGED <<chain, ledger, trace>> \/ CommitBlock \/ CommitRollback
  BY DEF Next, vars, VerifyBlock, IndexTransaction, StartRollback, UnindexTransaction,
         Raise, Crash
<1> QED BY <1>1, <1>2, <1>3, <1>4

\* The counters and the ages of the ledger are those its chain gives them, in
\* the committed ledger and in every one a rollback leads back to.
THEOREM TotalsInvariant == Spec => []TotalsExplained
<1>1. Init => Rooted BY DEF Init, Rooted, LedgerAfter, Tip
<1>2. Reversible /\ Rooted /\ [Next]_vars => Rooted' BY RootKept
<1>3. Reversible /\ RowsExplained /\ Rooted => TotalsExplained
  BY TotalsFollow
<1> QED BY <1>1, <1>2, <1>3, RowsInvariant, PTL DEF Spec

\* Where no block carries two reports of one offence, the destroyed coins are
\* the fees, the burns, and one penalty per recorded offence: a report in a
\* later block is refused, and a rollback that clears a marker pays back its
\* penalty (apply_slash).
THEOREM OnePenaltyUnlessTwins == Spec => [](NoTwinReports => OnePenaltyPerOffence)
<1>1. Reversible /\ RowsExplained /\ TotalsExplained
        => (NoTwinReports => OnePenaltyPerOffence)
  <2> SUFFICES ASSUME Reversible, RowsExplained, TotalsExplained, NoTwinReports
               PROVE  OnePenaltyPerOffence
    OBVIOUS
  <2>1. Tip \in Nat /\ LedgerAfter(Tip) = ledger BY DEF Reversible, TypeOK, Tip, LedgerAfter
  <2>2. Booked(ledger, Done(Tip)) BY <2>1 DEF TotalsExplained
  <2> DEFINE m == [p \in Everywhere |-> Entry(TxAt(p), p[1], p[2])]
             f == [p \in Everywhere |-> TxAt(p).fee]
             g == [d \in Done(Tip) |-> d.tx.fee]
  <2>3. \A p \in Everywhere : /\ m[p] \in Done(Tip) /\ m[p].tx = TxAt(p)
                              /\ m[p].at = p[1] /\ m[p].ix = p[2]
                              /\ p = <<p[1], p[2]>>
    BY PositionsAreEntries, EntryFields
  <2>4. {m[p] : p \in Everywhere} = Done(Tip)
    <3>1. ASSUME NEW d \in Done(Tip) PROVE \E p \in Everywhere : m[p] = d
      <4>1. PICK p \in Everywhere : p = <<d.at, d.ix>> /\ TxAt(p) = d.tx
        BY PositionsAreEntries
      <4>2. m[p].tx.id = d.tx.id /\ m[p] \in Done(Tip) BY <4>1, <2>3
      <4> QED BY <4>2, TipExplained DEF Explains, IndexIs
    <3> QED BY <2>3, <3>1
  <2>5. \A p, q \in Everywhere : m[p] = m[q] => p = q BY <2>3
  <2>6. \A p \in Everywhere : f[p] \in Int /\ g[m[p]] = f[p]
    <3>1. \A d \in Done(Tip) : d.tx \in Txs
      <4> SUFFICES ASSUME NEW d \in Done(Tip) PROVE d.tx \in Txs OBVIOUS
      <4>1. PICK h \in 1 .. Tip : d \in Entries(chain[h].txs, Len(chain[h].txs), h)
        BY DEF Done
      <4>2. PICK i \in 1 .. Len(chain[h].txs) : d.tx = chain[h].txs[i] BY <4>1 DEF Entries
      <4>3. chain[h] \in BlockType BY DEF Reversible, TypeOK, Tip
      <4> QED BY <4>2, <4>3 DEF BlockType
    <3>2. \A d \in Done(Tip) : d.tx.fee \in Int BY <3>1, TxsAssumption, TxShape
    <3> QED BY <2>3, <3>2
  <2>7. IsFiniteSet(Everywhere)
    <3> DEFINE Grid == (1 .. Tip) \X (1 .. MaxTxs)
    <3>1. IsFiniteSet(Grid)
      <4>1. IsFiniteSet(1 .. Tip) /\ IsFiniteSet(1 .. MaxTxs)
        BY <2>1, DepthAssumption, FS_Interval
      <4> QED BY <4>1, FS_Product
    <3>2. Everywhere \subseteq Grid
      <4>1. \A k : OnChain(k) \subseteq Grid BY DEF OnChain
      <4> QED BY <4>1 DEF Everywhere
    <3> QED BY <3>1, <3>2, FS_Subset
  <2>8. SumFunctionOnSet(g, Done(Tip)) = SumFunctionOnSet(f, Everywhere)
    <3> HIDE DEF m, f, g
    <3> QED BY <2>4, <2>5, <2>6, <2>7, SumRenamed
  <2>9. SumOver(LAMBDA p : TxAt(p).fee, Everywhere) = SumFunctionOnSet(f, Everywhere)
    BY DEF SumOver, SumFunction
  <2>10. SumOver(LAMBDA d : d.tx.fee, Done(Tip)) = SumFunctionOnSet(g, Done(Tip))
    BY DEF SumOver, SumFunction
  <2>11. SumOver(LAMBDA p : TxAt(p).fee, Everywhere) = SumOver(LAMBDA d : d.tx.fee, Done(Tip))
    BY <2>8, <2>9, <2>10
  <2> QED BY <2>2, <2>11, Zenon DEF Booked, OnePenaltyPerOffence
<1> QED BY <1>1, RowsInvariant, TotalsInvariant, PTL

\* Where nobody bonds twice in the first epoch, stake counts only if it was
\* there at genesis or its owner has been bonding for ActivationEpochs epochs:
\* neither top-ups nor slashes, withdrawals and rollbacks make it look older
\* (apply_bond_since, _vote_activated).
THEOREM YoungStakeUnlessEarlyTopUps == Spec => [](LateTopUps => YoungStakeHasNoWeight)
<1>1. Reversible /\ RowsExplained /\ TotalsExplained
        => (LateTopUps => YoungStakeHasNoWeight)
  <2> SUFFICES ASSUME Reversible, RowsExplained, TotalsExplained, LateTopUps,
                      NEW a \in Accounts, Activated(ledger, a, Tip + 1),
                      ~(Genesis.bonded[a] > 0)
               PROVE  \E p \in OnChain("bond") :
                         /\ TxAt(p).sender = a
                         /\ Epoch(p[1]) + ActivationEpochs <= Epoch(Tip + 1)
    BY DEF YoungStakeHasNoWeight
  <2>1. Tip \in Nat /\ LedgerAfter(Tip) = ledger /\ ledger \in Ledgers
    BY DEF Reversible, TypeOK, Tip, LedgerAfter
  <2>2. Aged(ledger, Done(Tip)) BY <2>1 DEF TotalsExplained
  <2>3. Genesis.bonded[a] <= 0 /\ ledger.bonded[a] > 0
    <3>1. Genesis.bonded[a] \in Int /\ ledger.bonded[a] \in Int
      BY <2>1, GenesisAssumption, LedgerTypes
    <3>2. SlashPenalty \in Nat /\ SlashPenalty > 0 BY PenaltyAssumption, BoundsAssumption
    <3> QED BY <3>1, <3>2 DEF Activated
  <2>4. PICK x \in Nat \ {0} : x = ledger.since[a] BY <2>2, <2>3 DEF Aged
  <2>5. PICK d \in Done(Tip) : BondedBy(d, a) /\ Epoch(d.at) <= x
    BY <2>2, <2>3, <2>4 DEF Aged
  <2>6. Epoch(Tip + 1) - x >= ActivationEpochs
    <3>1. x # NONE /\ x # 0 BY NoneAssumption
    <3> QED BY <3>1, <2>4 DEF Activated
  <2>7. d.at \in Nat /\ Epoch(d.at) \in Nat /\ Epoch(Tip + 1) \in Nat
    <3>1. d.at \in Nat BY <2>1, DoneHeights
    <3> QED BY <3>1, <2>1, EpochOrder
  <2>8. Epoch(d.at) + ActivationEpochs <= Epoch(Tip + 1)
    BY <2>5, <2>6, <2>7, BoundsAssumption
  <2>9. PICK p \in OnChain("bond") : p = <<d.at, d.ix>> /\ TxAt(p) = d.tx
    BY <2>5, PositionsAreEntries DEF BondedBy
  <2>10. p[1] = d.at /\ TxAt(p).sender = a BY <2>5, <2>9 DEF BondedBy
  <2> QED BY <2>8, <2>10
<1> QED BY <1>1, RowsInvariant, TotalsInvariant, PTL

===============================================================================
