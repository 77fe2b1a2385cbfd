---------------------------- MODULE Duties_proofs ----------------------------
(***************************************************************************)
(* An honest validator never signs two attestations of one epoch, whatever *)
(* happens to its chain and its process, for any lengths of epochs and     *)
(* chains: what it signs for an epoch is what the memo of the epoch says,  *)
(* and the memo of an epoch it may still be in is not dropped.             *)
(***************************************************************************)
EXTENDS Duties, TLAPS

-----------------------------------------------------------------------------
(* Epochs. *)

LEMMA EpochIsNat == ASSUME NEW h \in Nat PROVE Epoch(h) \in Nat
BY DutiesAssumption, SMTT(30) DEF Epoch

LEMMA EpochRises ==
  ASSUME NEW g \in Nat, NEW h \in Nat, g <= h
  PROVE  Epoch(g) <= Epoch(h)
BY DutiesAssumption, SMTT(30) DEF Epoch

LEMMA EpochEnds ==
  ASSUME NEW h \in Nat
  PROVE  Checkpoint(Epoch(h)) <= h /\ h <= LastOf(Epoch(h))
BY DutiesAssumption, SMTT(30) DEF Epoch, Checkpoint, LastOf

LEMMA EpochIsBetween ==
  ASSUME NEW e \in Nat, NEW h \in Nat, Checkpoint(e) <= h, h <= LastOf(e)
  PROVE  Epoch(h) = e
BY DutiesAssumption, SMTT(30) DEF Epoch, Checkpoint, LastOf

LEMMA HeightsAreNumbers ==
  ASSUME NEW e \in Nat
  PROVE  Checkpoint(e) \in Nat /\ LastOf(e) \in Nat /\ RevealUntil(e) \in Int
BY DutiesAssumption, SMTT(30) DEF Checkpoint, LastOf, RevealUntil

\* A height of the chain is in an epoch that the rows are kept for.
LEMMA EpochIsKnown ==
  ASSUME NEW h \in Nat, h <= MaxHeight
  PROVE  Epoch(h) \in Epochs /\ Epoch(h) + 1 \in Epochs /\ Epoch(h) + 2 \in Epochs
<1>1. MaxHeight \in Nat BY DutiesAssumption
<1>2. Epoch(h) <= Epoch(MaxHeight) BY <1>1, EpochRises
<1>3. Epoch(h) \in Nat /\ Epoch(MaxHeight) \in Nat BY <1>1, EpochIsNat
<1>4. Epochs = 0 .. Epoch(MaxHeight) + 2 BY DEF Epochs, Epoch
<1> QED BY <1>2, <1>3, <1>4

-----------------------------------------------------------------------------
(* The invariant. *)

Dues == [at : Nat, attest : Seq(Blocks), commit : Secrets, reveal : Secrets]

\* A signed attestation is the one in the memo of its epoch, unless that memo
\* was dropped, which happens only to epochs below the floor.
MemoInv ==
  /\ floor <= Tip
  /\ \A p \in wire : Epoch(p.at) \in Epochs
  /\ task # "idle" => synced
  /\ task # "idle" /\ MayAttest => memo[Here] = Hash(chain, Checkpoint(Here))
  /\ "memo" \notin lost =>
       /\ synced => pruned <= Epoch(floor)
       /\ \A p \in wire : p.attest # <<>> /\ pruned <= Epoch(p.at) =>
            memo[Epoch(p.at)] = p.attest

DutyInv == TypeOK /\ wire \subseteq Dues /\ MemoInv /\ NotSlashable

LEMMA TipFacts ==
  ASSUME TypeOK
  PROVE  /\ Tip \in Nat /\ Tip <= MaxHeight
         /\ Here \in Nat /\ Here \in Epochs /\ Here + 1 \in Epochs /\ Here + 2 \in Epochs
         /\ Checkpoint(Here) \in Nat /\ Checkpoint(Here) <= Tip /\ Tip <= LastOf(Here)
         /\ LastOf(Here) \in Nat
         /\ Hash(chain, Checkpoint(Here)) \in Seq(Blocks)
<1>1. chain \in Seq(Blocks) /\ Tip \in Nat /\ Tip <= MaxHeight BY DEF TypeOK, Tip
<1>2. Here \in Nat BY <1>1, EpochIsNat DEF Here
<1>3. Here \in Epochs /\ Here + 1 \in Epochs /\ Here + 2 \in Epochs
  BY <1>1, EpochIsKnown DEF Here
<1>4. Checkpoint(Here) <= Tip /\ Tip <= LastOf(Here) BY <1>1, EpochEnds DEF Here
<1>5. Checkpoint(Here) \in Nat /\ LastOf(Here) \in Nat BY <1>2, HeightsAreNumbers
<1>6. SubSeq(chain, 1, Checkpoint(Here)) \in Seq(Blocks) BY <1>1, <1>4, <1>5 DEF Tip
<1> QED BY <1>1, <1>2, <1>3, <1>4, <1>5, <1>6 DEF Hash

\* The transaction lands in the epoch it was made in, for which it is valid.
LEMMA LandsInEpoch ==
  ASSUME TypeOK
  PROVE  LandsAt \in Nat /\ Epoch(LandsAt) = Here
<1>1. Tip \in Nat /\ Here \in Nat /\ Tip <= LastOf(Here) /\ LastOf(Here) \in Nat
      /\ Checkpoint(Here) <= Tip /\ Checkpoint(Here) \in Nat BY TipFacts
<1>2. RevealUntil(Here + 1) \in Int BY <1>1, HeightsAreNumbers
<1>3. RevealUntil(Here + 1) <= LastOf(Here)
  BY <1>1, DutiesAssumption, SMTT(30) DEF RevealUntil, LastOf
<1>4. Margin \in Nat \ {0} BY DutiesAssumption
<1>5. LandsAt \in Nat /\ Tip <= LandsAt /\ LandsAt <= LastOf(Here)
  BY <1>1, <1>2, <1>3, <1>4 DEF LandsAt
<1> QED BY <1>1, <1>5, EpochIsBetween

\* What the chain holds of secrets are secrets.
LEMMA ChainSecrets ==
  ASSUME NEW c \in Seq(Blocks), NEW e \in Int
  PROVE  CommitOf(c, e) \in Secrets /\ RevealOf(c, e) \in Secrets
<1>0. 0 \in Secrets BY DutiesAssumption DEF Secrets
<1>1. \A h \in 1 .. Len(c) : c[h].duty.commit \in Secrets /\ c[h].duty.reveal \in Secrets
  <2> TAKE h \in 1 .. Len(c)
  <2>1. c[h] \in Blocks OBVIOUS
  <2> QED BY <2>1 DEF Blocks
<1>2. CommitOf(c, e) \in Secrets
  <2> DEFINE at == {h \in Landed(c, e - 2) : c[h].duty.commit # 0}
  <2>1. CASE at = {} BY <1>0, <2>1 DEF CommitOf
  <2>2. CASE at # {}
    <3>1. (CHOOSE h \in at : TRUE) \in at BY <2>2
    <3>2. (CHOOSE h \in at : TRUE) \in 1 .. Len(c) BY <3>1 DEF Landed
    <3> QED BY <1>1, <2>2, <3>2 DEF CommitOf
  <2> QED BY <2>1, <2>2
<1>3. RevealOf(c, e) \in Secrets
  <2> DEFINE at == {h \in Landed(c, e - 1) : c[h].duty.reveal # 0}
  <2>1. CASE at = {} BY <1>0, <2>1 DEF RevealOf
  <2>2. CASE at # {}
    <3>1. (CHOOSE h \in at : TRUE) \in at BY <2>2
    <3>2. (CHOOSE h \in at : TRUE) \in 1 .. Len(c) BY <3>1 DEF Landed
    <3> QED BY <1>1, <2>2, <3>2 DEF RevealOf
  <2> QED BY <2>1, <2>2
<1> QED BY <1>2, <1>3

LEMMA SignedIsDue ==
  ASSUME TypeOK
  PROVE  Signed \in Dues
<1>1. LandsAt \in Nat BY LandsInEpoch
<1>2. Hash(chain, Checkpoint(Here)) \in Seq(Blocks) /\ <<>> \in Seq(Blocks) BY TipFacts
<1>3. Here + 1 \in Epochs /\ Here + 2 \in Epochs BY TipFacts
<1>4. secrets[Here + 1] \in Secrets /\ secrets[Here + 2] \in Secrets BY <1>3 DEF TypeOK
<1>5. 0 \in Secrets BY DutiesAssumption DEF Secrets
<1> QED BY <1>1, <1>2, <1>4, <1>5 DEF Signed, Duty, Dues

\* Less is claimed of a node that has lost more.
LEMMA LossIsForever ==
  ASSUME NotSlashable, wire' = wire, lost \subseteq lost'
  PROVE  NotSlashable'
BY DEF NotSlashable, Slashable

-----------------------------------------------------------------------------
LEMMA InitHolds == Init => DutyInv
<1> SUFFICES ASSUME Init PROVE DutyInv OBVIOUS
<1>1. 0 \in Secrets /\ MaxHeight \in Nat /\ MaxBranches \in Nat
  BY DutiesAssumption DEF Secrets
<1>2. Tip = 0 /\ chain \in Seq(Blocks) /\ <<>> \in Seq(Blocks) BY DEF Init, Tip
<1>3. TypeOK BY <1>1, <1>2 DEF Init, TypeOK
<1>4. 0 <= Epoch(0) BY EpochIsNat
<1> QED BY <1>2, <1>3, <1>4 DEF Init, DutyInv, MemoInv, NotSlashable, Slashable

\* The next block keeps the floor below the tip and the memos above the floor.
LEMMA ExtendKeeps ==
  ASSUME DutyInv, Extend
  PROVE  DutyInv'
<1> DEFINE h == Tip + 1
<1>1. TypeOK /\ wire \subseteq Dues /\ MemoInv /\ NotSlashable BY DEF DutyInv
<1>2. Tip \in Nat /\ h \in Nat /\ h <= MaxHeight BY <1>1, TipFacts DEF Extend
<1>3. PICK duty \in {NoDuty} \cup
             {Applied(tx) : tx \in {t \in wire : t.at = h /\ Valid(chain, t)}} :
        chain' = Append(chain, [branch |-> branch, duty |-> duty])
  BY DEF Extend
<1>4. duty \in [attest : BOOLEAN, commit : Secrets, reveal : Secrets]
  <2>1. CASE duty = NoDuty BY <2>1, DutiesAssumption DEF NoDuty, Secrets
  <2>2. CASE duty # NoDuty
    <3>1. PICK tx \in wire : duty = Applied(tx) BY <1>3, <2>2
    <3>2. tx \in Dues BY <1>1
    <3> QED BY <3>1, <3>2 DEF Applied, Dues
  <2> QED BY <2>1, <2>2
<1>5. chain' \in Seq(Blocks) /\ Tip' = h
  BY <1>1, <1>3, <1>4 DEF TypeOK, Tip, Blocks
<1>6. floor \in Nat /\ floor <= Tip /\ FinalityDepth \in Nat /\ MaxHeight \in Nat
  BY <1>1, DutiesAssumption DEF TypeOK, MemoInv
<1>7. floor' \in Nat /\ floor <= floor' /\ floor' <= h
  BY <1>2, <1>6 DEF Extend, Deeper
<1>8. /\ pruned' \in Nat /\ pruned <= pruned'
      /\ pruned <= Epoch(floor') => pruned' <= Epoch(floor')
      /\ memo' \in [Epochs -> Seq(Blocks)]
      /\ \A e \in Epochs : pruned' <= e => memo'[e] = memo[e]
  <2>1. pruned \in Nat /\ memo \in [Epochs -> Seq(Blocks)] /\ <<>> \in Seq(Blocks)
    BY <1>1 DEF TypeOK
  <2>2. Epoch(floor') \in Nat /\ MemoEpochs \in Nat BY <1>7, EpochIsNat, DutiesAssumption
  <2>3. PruneMemo(h, floor') BY DEF Extend
  <2>4. Epochs \subseteq Int BY DutiesAssumption DEF Epochs
  <2>5. CASE pruned' = Epoch(floor') - MemoEpochs /\ pruned' > pruned
             /\ memo' = [e \in Epochs |-> IF e < pruned' THEN <<>> ELSE memo[e]]
    BY <2>1, <2>2, <2>4, <2>5
  <2>6. CASE UNCHANGED <<memo, pruned>> BY <2>1, <2>6
  <2> QED BY <2>3, <2>5, <2>6 DEF PruneMemo
<1>9. TypeOK'
  <2>1. \A e \in Epochs : RevealOf(chain', e) \in Secrets
    BY <1>5, ChainSecrets, DutiesAssumption DEF Epochs
  <2>2. seeded' \in [Epochs -> Secrets \cup {Unset}] BY <1>1, <2>1 DEF Extend, TypeOK
  <2>3. lost' \subseteq {"chain", "memo", "file", "floor"} BY <1>1 DEF Extend, TypeOK
  <2>4. pool' \subseteq wire' BY <1>1 DEF Extend, TypeOK
  <2>5. floor' \in 0 .. MaxHeight BY <1>2, <1>6, <1>7
  <2> QED BY <1>1, <1>2, <1>5, <1>8, <2>2, <2>3, <2>4, <2>5 DEF Extend, TypeOK
<1>10. MemoInv'
  <2>1. task' = "idle" /\ wire' = wire /\ synced' = synced /\ lost \subseteq lost'
        /\ ("memo" \in lost' => "memo" \in lost)
    BY DEF Extend
  <2>2. Epoch(floor) <= Epoch(floor') /\ Epoch(floor) \in Nat /\ Epoch(floor') \in Nat
    BY <1>6, <1>7, EpochRises, EpochIsNat
  <2>3. pruned \in Nat BY <1>1 DEF TypeOK
  <2>4. ASSUME "memo" \notin lost, synced PROVE pruned' <= Epoch(floor')
    BY <1>1, <1>8, <2>2, <2>3, <2>4 DEF MemoInv
  <2>5. ASSUME "memo" \notin lost, NEW p \in wire, p.attest # <<>>, pruned' <= Epoch(p.at)
        PROVE  memo'[Epoch(p.at)] = p.attest
    <3>1. Epoch(p.at) \in Epochs /\ Epoch(p.at) \in Nat
      BY <1>1, EpochIsNat DEF Dues, MemoInv
    <3>2. pruned <= Epoch(p.at) BY <1>8, <2>3, <2>5, <3>1
    <3>3. memo[Epoch(p.at)] = p.attest BY <1>1, <2>5, <3>2 DEF MemoInv
    <3> QED BY <1>8, <2>5, <3>1, <3>3
  <2>6. \A p \in wire' : Epoch(p.at) \in Epochs BY <1>1, <2>1 DEF MemoInv
  <2> QED BY <1>5, <1>7, <2>1, <2>4, <2>5, <2>6 DEF MemoInv
<1>11. NotSlashable' BY <1>1, LossIsForever DEF Extend
<1> QED BY <1>1, <1>9, <1>10, <1>11 DEF DutyInv, Extend

LEMMA RollBackKeeps ==
  ASSUME DutyInv, RollBack
  PROVE  DutyInv'
<1>1. TypeOK /\ wire \subseteq Dues /\ MemoInv /\ NotSlashable BY DEF DutyInv
<1>2. Tip \in Nat /\ Tip <= MaxHeight /\ chain \in Seq(Blocks)
  BY <1>1, TipFacts DEF TypeOK
<1>3. floor \in Nat /\ floor < Tip BY <1>1 DEF RollBack, TypeOK
<1>4. chain' = SubSeq(chain, 1, Tip - 1) BY DEF RollBack, Front, Tip
<1>5. chain' \in Seq(Blocks) /\ Tip' = Tip - 1
  <2>1. Tip - 1 \in Nat /\ Tip - 1 <= Len(chain) BY <1>2, <1>3 DEF Tip
  <2>2. SubSeq(chain, 1, Tip - 1) \in Seq(Blocks) /\ Len(SubSeq(chain, 1, Tip - 1)) = Tip - 1
    BY <1>2, <2>1
  <2> QED BY <1>4, <2>2 DEF Tip
<1>6. Last(chain).branch \in 0 .. MaxBranches
  <2>1. chain[Tip] \in Blocks BY <1>2, <1>3 DEF Tip
  <2> QED BY <2>1 DEF Last, Tip, Blocks
<1>7. branch' \in 0 .. MaxBranches
  BY <1>1, <1>6, DutiesAssumption DEF RollBack, TypeOK
<1>8. pool' \subseteq wire' BY <1>1 DEF RollBack, TypeOK
<1>9. TypeOK'
  BY <1>1, <1>2, <1>3, <1>5, <1>7, <1>8, DutiesAssumption DEF RollBack, TypeOK
<1>10. MemoInv' BY <1>1, <1>2, <1>3, <1>5 DEF RollBack, MemoInv
<1>11. NotSlashable' BY <1>1, LossIsForever DEF RollBack
<1> QED BY <1>1, <1>9, <1>10, <1>11 DEF DutyInv, RollBack

\* The memo is written before anything is signed, and only over an empty one.
LEMMA StartDutyKeeps ==
  ASSUME DutyInv, StartDuty
  PROVE  DutyInv'
<1>1. TypeOK /\ wire \subseteq Dues /\ MemoInv /\ NotSlashable BY DEF DutyInv
<1>2. Here \in Epochs /\ Hash(chain, Checkpoint(Here)) \in Seq(Blocks) BY <1>1, TipFacts
<1>3. memo \in [Epochs -> Seq(Blocks)] BY <1>1 DEF TypeOK
<1>4. UNCHANGED <<chain, branch, synced, floor, pruned, secrets, saved, drawn,
                  pool, wire, seeded, lost>> /\ task' = "noted" /\ synced
  BY DEF StartDuty
<1>5. /\ memo' \in [Epochs -> Seq(Blocks)]
      /\ MayAttest => memo'[Here] = Hash(chain, Checkpoint(Here))
      /\ ~MayAttest => memo' = memo
      /\ \A e \in Epochs : memo[e] = memo'[e] \/ memo[e] = <<>>
  BY <1>2, <1>3 DEF StartDuty, MayAttest
<1>6. TypeOK' BY <1>1, <1>4, <1>5 DEF TypeOK, Tip
<1>7. MemoInv'
  <2>1. MayAttest' => memo'[Here] = Hash(chain, Checkpoint(Here))
    BY <1>4, <1>5 DEF MayAttest, Here, Tip
  <2>2. ASSUME NEW p \in wire, p.attest # <<>>, "memo" \notin lost,
               pruned <= Epoch(p.at)
        PROVE  memo'[Epoch(p.at)] = p.attest
    BY <1>1, <1>5, <2>2 DEF MemoInv
  <2>3. Tip' = Tip /\ Here' = Here BY <1>4 DEF Tip, Here
  <2> QED BY <1>1, <1>4, <2>1, <2>2, <2>3 DEF MemoInv
<1>8. NotSlashable' BY <1>1, <1>4, LossIsForever
<1> QED BY <1>1, <1>4, <1>6, <1>7, <1>8 DEF DutyInv

LEMMA SaveSecretsKeeps ==
  ASSUME DutyInv, SaveSecrets
  PROVE  DutyInv'
<1>1. TypeOK /\ wire \subseteq Dues /\ MemoInv /\ NotSlashable BY DEF DutyInv
<1>2. UNCHANGED <<chain, branch, synced, floor, memo, pruned, pool, wire, seeded>>
      /\ task = "noted" /\ task' = "saved"
  BY DEF SaveSecrets
<1>3. lost \subseteq lost' /\ lost' \subseteq lost \cup {"file"} BY DEF SaveSecrets
<1>4. /\ secrets' \in [Epochs -> Secrets] /\ saved' \in [Epochs -> Secrets]
      /\ drawn' \in [Epochs -> Secrets]
  <2> DEFINE e == Here + 2
             known == [secrets EXCEPT ![e] = IF secrets[e] = 0 THEN drawn[e] + 1 ELSE @]
  <2>1. e \in Epochs BY <1>1, TipFacts
  <2>2. /\ secrets \in [Epochs -> Secrets] /\ saved \in [Epochs -> Secrets]
        /\ drawn \in [Epochs -> Secrets]
    BY <1>1 DEF TypeOK
  <2>3. Secrets = 0 .. MaxSecrets /\ MaxSecrets \in Nat BY DutiesAssumption DEF Secrets
  <2>4. CASE ~MayCommit BY <2>2, <2>4 DEF SaveSecrets
  <2>5. CASE MayCommit
    <3>1. secrets[e] = 0 => drawn[e] < MaxSecrets BY <2>5 DEF SaveSecrets
    <3>2. secrets[e] = 0 => drawn[e] + 1 \in Secrets BY <2>1, <2>2, <2>3, <3>1
    <3>3. known \in [Epochs -> Secrets] BY <2>1, <2>2, <3>2
    <3>4. Live(known) \in [Epochs -> Secrets] BY <2>3, <3>3 DEF Live
    <3>5. drawn' \in [Epochs -> Secrets] BY <2>1, <2>2, <2>5, <3>2 DEF SaveSecrets
    <3>6. secrets' = Live(known) /\ (saved' = Live(known) \/ saved' = saved)
      BY <2>5 DEF SaveSecrets
    <3> QED BY <2>2, <3>4, <3>5, <3>6
  <2> QED BY <2>4, <2>5
<1>5. TypeOK' BY <1>1, <1>2, <1>3, <1>4 DEF TypeOK, Tip
<1>6. MemoInv'
  <2>1. Tip' = Tip /\ Here' = Here /\ MayAttest' = MayAttest
    BY <1>2 DEF Tip, Here, MayAttest
  <2> QED BY <1>1, <1>2, <1>3, <2>1 DEF MemoInv
<1>7. NotSlashable' BY <1>1, <1>2, <1>3, LossIsForever
<1> QED BY <1>1, <1>2, <1>5, <1>6, <1>7 DEF DutyInv

\* What is signed for the running epoch is what its memo says, and the memos
\* of the running epoch are above the floor.
LEMMA SendDutyKeeps ==
  ASSUME DutyInv, SendDuty
  PROVE  DutyInv'
<1>1. TypeOK /\ wire \subseteq Dues /\ MemoInv /\ NotSlashable BY DEF DutyInv
<1>2. UNCHANGED <<chain, branch, synced, floor, memo, pruned, secrets, saved,
                  drawn, seeded, lost>> /\ task = "saved" /\ task' = "idle"
  BY DEF SendDuty
<1>3. \/ pool' = pool /\ wire' = wire
      \/ pool' = pool \cup {Signed} /\ wire' = wire \cup {Signed}
  BY DEF SendDuty
<1>4. Signed \in Dues /\ Signed.at = LandsAt /\ Epoch(Signed.at) = Here /\ Here \in Epochs
  BY <1>1, SignedIsDue, LandsInEpoch, TipFacts DEF Signed, Duty
<1>5. Signed.attest # <<>> => memo[Here] = Signed.attest
  BY <1>1, <1>2 DEF Signed, Duty, MemoInv
<1>6. TypeOK' /\ wire' \subseteq Dues BY <1>1, <1>2, <1>3, <1>4 DEF TypeOK, Tip
<1>7. MemoInv'
  <2>1. Tip' = Tip BY <1>2 DEF Tip
  <2> QED BY <1>1, <1>2, <1>3, <1>4, <1>5, <2>1 DEF MemoInv
<1>8. NotSlashable'
  <2> SUFFICES ASSUME "memo" \notin lost, NEW p \in wire', NEW q \in wire',
                      Epoch(p.at) = Epoch(q.at), p.attest # <<>>, q.attest # <<>>
               PROVE  p.attest = q.attest
    BY <1>2 DEF NotSlashable, Slashable
  <2>1. pruned <= Here
    <3>1. floor \in Nat /\ Tip \in Nat /\ pruned \in Nat BY <1>1, TipFacts DEF TypeOK
    <3>2. Epoch(floor) <= Here BY <1>1, <3>1, EpochRises DEF Here, MemoInv
    <3>3. Epoch(floor) \in Nat /\ Here \in Nat BY <3>1, EpochIsNat DEF Here
    <3> QED BY <1>1, <1>2, <3>1, <3>2, <3>3 DEF MemoInv
  <2>2. \A r \in wire : r.attest # <<>> /\ Epoch(r.at) = Here => memo[Here] = r.attest
    BY <1>1, <2>1 DEF MemoInv
  <2>3. CASE p \in wire /\ q \in wire BY <1>1, <2>3 DEF NotSlashable, Slashable
  <2>4. CASE p = Signed \/ q = Signed BY <1>3, <1>4, <1>5, <2>2, <2>4
  <2> QED BY <1>3, <2>3, <2>4
<1> QED BY <1>6, <1>7, <1>8 DEF DutyInv

LEMMA RestartKeeps ==
  ASSUME DutyInv, Restart
  PROVE  DutyInv'
<1>1. TypeOK /\ wire \subseteq Dues /\ MemoInv /\ NotSlashable BY DEF DutyInv
<1>2. TypeOK' BY <1>1 DEF Restart, TypeOK, Tip
<1>3. MemoInv' BY <1>1 DEF Restart, MemoInv, Tip
<1>4. NotSlashable' BY <1>1, LossIsForever DEF Restart
<1> QED BY <1>1, <1>2, <1>3, <1>4 DEF DutyInv, Restart

\* Leaving the chain breaks no promise: nothing is signed until the node has
\* caught up, and then only in epochs whose memos it still has.
LEMMA LeaveChainKeeps ==
  ASSUME DutyInv, NEW h \in 0 .. Tip, LeaveChain(h),
         secrets' \in {secrets, saved},
         \/ UNCHANGED <<memo, pruned>> /\ lost' = lost \cup {"chain"}
         \/ /\ memo' = [e \in Epochs |-> <<>>] /\ pruned' = 0
            /\ lost' = lost \cup {"chain", "memo"}
  PROVE  DutyInv'
<1>1. TypeOK /\ wire \subseteq Dues /\ MemoInv /\ NotSlashable BY DEF DutyInv
<1>2. Tip \in Nat /\ Tip <= MaxHeight /\ chain \in Seq(Blocks) /\ h \in Nat /\ h <= Tip
  BY <1>1, TipFacts DEF TypeOK
<1>3. chain' \in Seq(Blocks) /\ Tip' = h BY <1>2 DEF LeaveChain, Tip
<1>4. branch' \in 0 .. MaxBranches BY <1>1, DutiesAssumption DEF LeaveChain, TypeOK
<1>5. <<>> \in Seq(Blocks) OBVIOUS
<1>6. MaxHeight \in Nat BY DutiesAssumption
<1>7. TypeOK'
  <2>0. synced' \in BOOLEAN /\ pool' \subseteq wire' /\ task' = task BY DEF LeaveChain
  <2>1. floor' \in 0 .. MaxHeight /\ Tip' <= MaxHeight
    <3>1. floor' = h BY DEF LeaveChain
    <3> QED BY <1>2, <1>3, <1>6, <3>1
  <2>2. /\ seeded' \in [Epochs -> Secrets \cup {Unset}]
        /\ saved' \in [Epochs -> Secrets] /\ drawn' \in [Epochs -> Secrets]
    BY <1>1 DEF LeaveChain, TypeOK, Unset
  <2>3. secrets' \in [Epochs -> Secrets] BY <1>1 DEF TypeOK
  <2>4. memo' \in [Epochs -> Seq(Blocks)] /\ pruned' \in Nat
    <3>1. CASE UNCHANGED <<memo, pruned>> BY <1>1, <3>1 DEF TypeOK
    <3>2. CASE memo' = [e \in Epochs |-> <<>>] /\ pruned' = 0 BY <1>5, <3>2
    <3> QED BY <3>1, <3>2
  <2>5. lost' \subseteq {"chain", "memo", "file", "floor"} BY <1>1 DEF TypeOK
  <2>6. task' \in {"idle", "noted", "saved"} BY <1>1, <2>0 DEF TypeOK
  <2> QED BY <1>3, <1>4, <2>0, <2>1, <2>2, <2>3, <2>4, <2>5, <2>6 DEF TypeOK
<1>8. MemoInv' BY <1>1, <1>2, <1>3 DEF LeaveChain, MemoInv
<1>9. NotSlashable' BY <1>1, LossIsForever DEF LeaveChain
<1> QED BY <1>1, <1>7, <1>8, <1>9 DEF DutyInv, LeaveChain

LEMMA CatchUpKeeps ==
  ASSUME DutyInv, CatchUp
  PROVE  DutyInv'
<1>1. TypeOK /\ wire \subseteq Dues /\ MemoInv /\ NotSlashable BY DEF DutyInv
<1>2. Tip \in Nat /\ Tip <= MaxHeight BY <1>1, TipFacts
<1>3. floor \in Nat /\ floor <= Tip /\ FinalityDepth \in Nat /\ MaxHeight \in Nat
  BY <1>1, DutiesAssumption DEF TypeOK, MemoInv
<1>4. floor' \in Nat /\ floor' <= Tip BY <1>2, <1>3 DEF CatchUp, Deeper
<1>5. TypeOK' BY <1>1, <1>2, <1>3, <1>4 DEF CatchUp, TypeOK, Tip
<1>6. MemoInv'
  <2>1. Epoch(floor') \in Nat /\ pruned \in Nat BY <1>1, <1>4, EpochIsNat DEF TypeOK
  <2>2. "memo" \notin lost' => pruned <= Epoch(floor') /\ "memo" \notin lost
    BY <2>1 DEF CatchUp
  <2>3. task = "idle" BY <1>1 DEF CatchUp, MemoInv
  <2> QED BY <1>1, <1>4, <2>2, <2>3 DEF CatchUp, MemoInv, Tip
<1>7. NotSlashable' BY <1>1, LossIsForever DEF CatchUp
<1> QED BY <1>1, <1>5, <1>6, <1>7 DEF DutyInv, CatchUp

LEMMA NextKeeps ==
  ASSUME DutyInv, [Next]_vars
  PROVE  DutyInv'
<1>1. CASE Extend BY <1>1, ExtendKeeps
<1>2. CASE RollBack BY <1>2, RollBackKeeps
<1>3. CASE StartDuty BY <1>3, StartDutyKeeps
<1>4. CASE SaveSecrets BY <1>4, SaveSecretsKeeps
<1>5. CASE SendDuty BY <1>5, SendDutyKeeps
<1>6. CASE Restart BY <1>6, RestartKeeps
<1>7. CASE Reanchor
  <2>1. PICK h \in 0 .. Tip : LeaveChain(h) BY <1>7 DEF Reanchor
  <2> QED BY <1>7, <2>1, LeaveChainKeeps DEF Reanchor
<1>8. CASE Purge
  <2>1. PICK h \in 0 .. Tip : LeaveChain(h) BY <1>8 DEF Purge
  <2> QED BY <1>8, <2>1, LeaveChainKeeps DEF Purge
<1>9. CASE CatchUp BY <1>9, CatchUpKeeps
<1>10. CASE UNCHANGED vars
  BY <1>10 DEF vars, DutyInv, TypeOK, MemoInv, NotSlashable, Slashable, Tip, Here, MayAttest
<1> QED BY <1>1, <1>2, <1>3, <1>4, <1>5, <1>6, <1>7, <1>8, <1>9, <1>10 DEF Next

-----------------------------------------------------------------------------
\* A signed attestation and the memo of its epoch agree as long as the epoch
\* may still be the running one (attest_memo_put, attest_memo_prune).
THEOREM DutyInvariant == Spec => []DutyInv
<1>1. Init => DutyInv BY InitHolds
<1>2. DutyInv /\ [Next]_vars => DutyInv' BY NextKeeps
<1> QED BY <1>1, <1>2, PTL DEF Spec

\* Every variable of the validator keeps its type.
THEOREM DutyTypeCorrect == Spec => []TypeOK
<1>1. DutyInv => TypeOK BY DEF DutyInv
<1> QED BY <1>1, DutyInvariant, PTL

\* No reorg, re-anchor, lost duty or restart makes an honest validator sign
\* two attestations of one epoch, unless a memo it would need was dropped.
THEOREM NeverTwoAttestations == Spec => []NotSlashable
<1>1. DutyInv => NotSlashable BY DEF DutyInv
<1> QED BY <1>1, DutyInvariant, PTL

-----------------------------------------------------------------------------
(* The beacon. *)

\* A reveal lands in its window, the window of an epoch that has a beacon is
\* below the floor, and the beacon is what the chain still reveals.
BeaconInv ==
  /\ \A h \in 1 .. Tip :
       chain[h].duty.reveal # 0 => h <= RevealUntil(Epoch(h) + 1)
  /\ \A e \in Epochs : seeded[e] # Unset =>
       /\ Checkpoint(e) - FinalityDepth <= floor
       /\ RevealOf(chain, e) = seeded[e]

\* A block on top changes the reveals of an epoch only by one of its own.
LEMMA RevealStays ==
  ASSUME NEW c \in Seq(Blocks), NEW d \in Seq(Blocks), NEW e \in Int,
         Len(d) = Len(c) + 1, \A h \in 1 .. Len(c) : d[h] = c[h],
         Epoch(Len(d)) = e - 1 => d[Len(d)].duty.reveal = 0
  PROVE  RevealOf(d, e) = RevealOf(c, e)
<1> DEFINE In(s) == {h \in Landed(s, e - 1) : s[h].duty.reveal # 0}
<1>1. Len(c) \in Nat OBVIOUS
<1>2. 1 .. Len(d) = (1 .. Len(c)) \cup {Len(d)} BY <1>1
<1>3. In(d) = In(c)
  <2>1. \A h \in 1 .. Len(c) : h \in In(d) <=> h \in In(c) BY <1>2 DEF Landed
  <2>2. Len(d) \notin In(d) /\ Len(d) \notin In(c) BY <1>1 DEF Landed
  <2>3. In(c) \subseteq 1 .. Len(c) /\ In(d) \subseteq 1 .. Len(d) BY DEF Landed
  <2> QED BY <1>2, <2>1, <2>2, <2>3
<1>4. CASE In(c) = {} BY <1>3, <1>4 DEF RevealOf
<1>5. CASE In(c) # {}
  <2>1. (CHOOSE h \in In(c) : TRUE) \in In(c) BY <1>5
  <2>2. (CHOOSE h \in In(c) : TRUE) \in 1 .. Len(c) BY <2>1 DEF Landed
  <2>3. d[CHOOSE h \in In(c) : TRUE] = c[CHOOSE h \in In(c) : TRUE] BY <2>2
  <2>4. RevealOf(c, e) = c[CHOOSE h \in In(c) : TRUE].duty.reveal BY <1>5 DEF RevealOf
  <2>5. RevealOf(d, e) = d[CHOOSE h \in In(c) : TRUE].duty.reveal BY <1>3, <1>5 DEF RevealOf
  <2> QED BY <2>3, <2>4, <2>5
<1> QED BY <1>4, <1>5

\* A window that ends below a height lets nothing be revealed there.
LEMMA WindowIsOver ==
  ASSUME NEW e \in Nat, NEW h \in Nat, Checkpoint(e) - FinalityDepth <= h,
         Epoch(h) = e - 1
  PROVE  ~(h <= RevealUntil(Epoch(h) + 1))
<1>1. Epoch(h) + 1 = e BY EpochIsNat
<1>2. Checkpoint(e) \in Nat /\ FinalityDepth \in Nat BY HeightsAreNumbers, DutiesAssumption
<1>3. RevealUntil(e) = Checkpoint(e) - FinalityDepth - 1
  BY DEF RevealUntil, Checkpoint
<1> QED BY <1>1, <1>2, <1>3

LEMMA BeaconInit == Init => BeaconInv
<1> SUFFICES ASSUME Init PROVE BeaconInv OBVIOUS
<1>1. Tip = 0 BY DEF Init, Tip
<1>2. \A e \in Epochs : seeded[e] = Unset BY DEF Init
<1> QED BY <1>1, <1>2 DEF BeaconInv

LEMMA ExtendKeepsBeacon ==
  ASSUME DutyInv, BeaconInv, Extend
  PROVE  BeaconInv'
<1> DEFINE h == Tip + 1
<1>1. TypeOK /\ TypeOK' /\ wire \subseteq Dues /\ MemoInv
  BY ExtendKeeps DEF DutyInv
<1>2. Tip \in Nat /\ h \in Nat /\ chain \in Seq(Blocks) /\ chain' \in Seq(Blocks)
  <2>1. Tip \in Nat BY <1>1, TipFacts
  <2>2. chain \in Seq(Blocks) BY <1>1 DEF TypeOK
  <2>3. chain' \in Seq(Blocks) BY <1>1 DEF TypeOK
  <2> QED BY <2>1, <2>2, <2>3
<1>3. PICK duty \in {NoDuty} \cup
             {Applied(tx) : tx \in {t \in wire : t.at = h /\ Valid(chain, t)}} :
        chain' = Append(chain, [branch |-> branch, duty |-> duty])
  BY DEF Extend
<1>4. /\ Tip' = h /\ chain'[h].duty = duty
      /\ \A g \in 1 .. Tip : chain'[g] = chain[g]
  <2> DEFINE b == [branch |-> branch, duty |-> duty]
  <2>1. b.duty = duty OBVIOUS
  <2> HIDE DEF b
  <2>2. Tip = Len(chain) /\ h = Len(chain) + 1 BY DEF Tip
  <2>3. /\ Len(Append(chain, b)) = Len(chain) + 1
        /\ Append(chain, b)[Len(chain) + 1] = b
        /\ \A g \in 1 .. Len(chain) : Append(chain, b)[g] = chain[g]
    BY <1>2
  <2>4. chain' = Append(chain, b) BY <1>3 DEF b
  <2> QED BY <2>1, <2>2, <2>3, <2>4 DEF Tip
<1>5. duty.reveal # 0 => h <= RevealUntil(Epoch(h) + 1)
  <2>1. CASE duty = NoDuty BY <2>1 DEF NoDuty
  <2>2. CASE duty # NoDuty
    <3>1. PICK tx \in wire : tx.at = h /\ Valid(chain, tx) /\ duty = Applied(tx)
      BY <1>3, <2>2
    <3> QED BY <3>1 DEF Applied, Valid, ValidReveal
  <2> QED BY <2>1, <2>2
<1>6. \A g \in 1 .. Tip' :
        chain'[g].duty.reveal # 0 => g <= RevealUntil(Epoch(g) + 1)
  <2>1. 1 .. Tip' = (1 .. Tip) \cup {h} BY <1>2, <1>4
  <2> QED BY <1>4, <1>5, <2>1 DEF BeaconInv
<1>7. ASSUME NEW e \in Epochs, seeded'[e] # Unset
      PROVE  /\ Checkpoint(e) - FinalityDepth <= floor'
             /\ RevealOf(chain', e) = seeded'[e]
  <2>1. e \in Nat /\ Checkpoint(e) \in Nat /\ FinalityDepth \in Nat
    BY HeightsAreNumbers, DutiesAssumption DEF Epochs
  <2>2. floor \in Nat /\ floor <= Tip /\ floor' \in Nat /\ floor <= floor'
    BY <1>1, <1>2, DutiesAssumption DEF TypeOK, MemoInv, Extend, Deeper
  <2>3. CASE h = Checkpoint(e) /\ floor' >= h - FinalityDepth /\ seeded[e] = Unset
    BY <2>1, <2>2, <2>3 DEF Extend
  <2>4. CASE ~(h = Checkpoint(e) /\ floor' >= h - FinalityDepth /\ seeded[e] = Unset)
    <3>1. seeded'[e] = seeded[e] BY <2>4 DEF Extend
    <3>2. Checkpoint(e) - FinalityDepth <= floor /\ RevealOf(chain, e) = seeded[e]
      BY <1>7, <3>1 DEF BeaconInv
    <3>3. Epoch(h) = e - 1 => duty.reveal = 0
      BY <1>2, <1>5, <2>1, <2>2, <3>2, WindowIsOver
    <3>4. RevealOf(chain', e) = RevealOf(chain, e)
      BY <1>2, <1>4, <2>1, <3>3, RevealStays DEF Tip
    <3> QED BY <2>1, <2>2, <3>1, <3>2, <3>4
  <2> QED BY <2>3, <2>4
<1> QED BY <1>6, <1>7 DEF BeaconInv

LEMMA RollBackKeepsBeacon ==
  ASSUME DutyInv, BeaconInv, RollBack
  PROVE  BeaconInv'
<1>1. TypeOK /\ TypeOK' BY RollBackKeeps DEF DutyInv
<1>2. Tip \in Nat /\ chain \in Seq(Blocks) /\ chain' \in Seq(Blocks) /\ floor \in Nat
  BY <1>1, TipFacts DEF TypeOK
<1>3. floor < Tip /\ floor' = floor /\ seeded' = seeded BY DEF RollBack
<1>4. Tip - 1 \in Nat /\ Tip - 1 <= Len(chain) BY <1>2, <1>3 DEF Tip
<1>5. chain' = SubSeq(chain, 1, Tip - 1) BY DEF RollBack, Front, Tip
<1>6. Tip' = Tip - 1 /\ \A g \in 1 .. Tip' : chain[g] = chain'[g]
  <2>1. Len(SubSeq(chain, 1, Tip - 1)) = Tip - 1 BY <1>2, <1>4
  <2>2. \A g \in 1 .. Tip - 1 : SubSeq(chain, 1, Tip - 1)[g] = chain[g] BY <1>2, <1>4
  <2>3. Tip' = Tip - 1 BY <1>5, <2>1 DEF Tip
  <2> QED BY <1>5, <2>2, <2>3
<1>7. \A g \in 1 .. Tip' :
        chain'[g].duty.reveal # 0 => g <= RevealUntil(Epoch(g) + 1)
  BY <1>2, <1>6 DEF BeaconInv
<1>8. ASSUME NEW e \in Epochs, seeded[e] # Unset
      PROVE  RevealOf(chain', e) = seeded[e]
  <2>1. e \in Nat /\ Checkpoint(e) \in Nat /\ FinalityDepth \in Nat
    BY HeightsAreNumbers, DutiesAssumption DEF Epochs
  <2>2. Checkpoint(e) - FinalityDepth <= floor /\ RevealOf(chain, e) = seeded[e]
    BY <1>8 DEF BeaconInv
  <2>3. Tip \in 1 .. Tip BY <1>2, <1>3
  <2>4. Epoch(Tip) = e - 1 => chain[Tip].duty.reveal = 0
    BY <1>2, <1>3, <2>1, <2>2, <2>3, WindowIsOver DEF BeaconInv
  <2>5. RevealOf(chain, e) = RevealOf(chain', e)
    BY <1>2, <1>6, <2>1, <2>4, RevealStays DEF Tip
  <2> QED BY <2>2, <2>5
<1> QED BY <1>3, <1>7, <1>8 DEF BeaconInv

LEMMA BeaconNext ==
  ASSUME DutyInv, BeaconInv, [Next]_vars
  PROVE  BeaconInv'
<1>1. CASE Extend BY <1>1, ExtendKeepsBeacon
<1>2. CASE RollBack BY <1>2, RollBackKeepsBeacon
<1>3. CASE UNCHANGED <<chain, floor, seeded>> BY <1>3 DEF BeaconInv, Tip, RevealOf, Landed
<1>4. CASE CatchUp
  <2>1. chain' = chain /\ seeded' = seeded BY <1>4 DEF CatchUp
  <2>2. floor \in Nat /\ floor' \in Int /\ floor <= floor'
    BY <1>4, TipFacts, DutiesAssumption DEF CatchUp, Deeper, DutyInv, TypeOK
  <2>3. \A e \in Epochs : Checkpoint(e) - FinalityDepth \in Int
    BY HeightsAreNumbers, DutiesAssumption DEF Epochs
  <2>4. Tip' = Tip /\ \A e \in Epochs : RevealOf(chain', e) = RevealOf(chain, e)
    BY <2>1 DEF Tip
  <2>5. \A e \in Epochs :
          Checkpoint(e) - FinalityDepth <= floor => Checkpoint(e) - FinalityDepth <= floor'
    BY <2>2, <2>3
  <2> QED BY <2>1, <2>4, <2>5 DEF BeaconInv
<1>5. ASSUME NEW h \in 0 .. Tip, LeaveChain(h) PROVE BeaconInv'
  <2>1. chain \in Seq(Blocks) /\ Tip \in Nat BY TipFacts DEF DutyInv, TypeOK
  <2>2. Tip' = h /\ \A g \in 1 .. h : chain'[g] = chain[g]
    BY <1>5, <2>1 DEF LeaveChain, Tip
  <2>3. \A e \in Epochs : seeded'[e] = Unset BY <1>5 DEF LeaveChain
  <2> QED BY <2>1, <2>2, <2>3 DEF BeaconInv
<1> QED BY <1>1, <1>2, <1>3, <1>4, <1>5
        DEF Next, StartDuty, SaveSecrets, SendDuty, Restart, Reanchor, Purge, vars

\* Once a node has drawn an epoch's beacon from a chain whose tip the network
\* corroborated, no reorg gives that epoch another one (epoch_beacon).
THEOREM BeaconNeverChanges == Spec => []BeaconStands
<1>1. Init => BeaconInv BY BeaconInit
<1>2. DutyInv /\ BeaconInv /\ [Next]_vars => BeaconInv' BY BeaconNext
<1>3. BeaconInv => BeaconStands BY DEF BeaconInv, BeaconStands
<1> QED BY <1>1, <1>2, <1>3, DutyInvariant, PTL DEF Spec

-----------------------------------------------------------------------------
(* The secrets. *)

\* The validator has kept its chain, its file and a floor that rises.
Whole == lost \cap {"chain", "file", "floor"} = {}

\* A commitment on the chain is one the validator signed for that height, and
\* the secret of every commitment that may still land in time, or has landed
\* and may still be revealed, is in memory and on disk.
SecretInv ==
  /\ \A tx \in wire : Epoch(tx.at) + 2 \in Epochs
  /\ \A h \in 1 .. Tip : chain[h].duty.commit # 0 =>
       \E tx \in wire : tx.at = h /\ tx.commit = chain[h].duty.commit
  /\ Whole =>
       /\ synced /\ secrets = saved
       /\ Tip - FinalityDepth <= floor
       /\ \A tx \in wire :
            LET e == Epoch(tx.at) + 2
            IN  tx.commit # 0 /\ floor < RevealUntil(e) => saved[e] = tx.commit

\* What is committed for an epoch was signed two epochs before.
LEMMA CommitWasSigned ==
  ASSUME TypeOK, SecretInv, NEW e \in Int, CommitOf(chain, e) # 0
  PROVE  \E tx \in wire : Epoch(tx.at) + 2 = e /\ tx.commit = CommitOf(chain, e)
<1> DEFINE at == {h \in Landed(chain, e - 2) : chain[h].duty.commit # 0}
<1>1. at # {} BY DEF CommitOf
<1>2. PICK h \in at : CommitOf(chain, e) = chain[h].duty.commit
  <2>1. (CHOOSE h \in at : TRUE) \in at BY <1>1
  <2> QED BY <1>1, <2>1 DEF CommitOf
<1>3. h \in 1 .. Tip /\ Epoch(h) = e - 2 /\ chain[h].duty.commit # 0
  BY <1>2 DEF Landed, Tip
<1>4. PICK tx \in wire : tx.at = h /\ tx.commit = chain[h].duty.commit
  BY <1>3 DEF SecretInv
<1> QED BY <1>2, <1>3, <1>4

\* A commitment that can still be revealed is for a secret the node has.
LEMMA CommittedIsKnown ==
  ASSUME DutyInv, SecretInv, Whole, NEW e \in Epochs,
         CommitOf(chain, e) # 0, Tip < RevealUntil(e)
  PROVE  saved[e] = CommitOf(chain, e)
<1>1. TypeOK /\ floor <= Tip /\ floor \in Nat /\ Tip \in Nat /\ e \in Nat
  <2>1. TypeOK /\ floor <= Tip BY DEF DutyInv, MemoInv
  <2>2. floor \in Nat BY <2>1, DutiesAssumption DEF TypeOK
  <2>3. e \in Nat BY DutiesAssumption DEF Epochs
  <2> QED BY <2>1, <2>2, <2>3, TipFacts
<1>2. PICK tx \in wire : Epoch(tx.at) + 2 = e /\ tx.commit = CommitOf(chain, e)
  BY <1>1, CommitWasSigned
<1>3. floor < RevealUntil(e) BY <1>1, HeightsAreNumbers
<1> QED BY <1>2, <1>3 DEF SecretInv

LEMMA SecretInit == Init => SecretInv
<1> SUFFICES ASSUME Init PROVE SecretInv OBVIOUS
<1>1. Tip = 0 BY DEF Init, Tip
<1>2. 0 - FinalityDepth <= 0 BY DutiesAssumption
<1> QED BY <1>1, <1>2 DEF Init, SecretInv

LEMMA ExtendKeepsSecrets ==
  ASSUME DutyInv, SecretInv, Extend
  PROVE  SecretInv'
<1> DEFINE h == Tip + 1
<1>1. TypeOK /\ wire \subseteq Dues /\ MemoInv BY DEF DutyInv
<1>2. Tip \in Nat /\ chain \in Seq(Blocks) /\ floor \in Nat /\ floor <= Tip
      /\ FinalityDepth \in Nat
  BY <1>1, TipFacts, DutiesAssumption DEF TypeOK, MemoInv
<1>3. PICK duty \in {NoDuty} \cup
             {Applied(tx) : tx \in {t \in wire : t.at = h /\ Valid(chain, t)}} :
        chain' = Append(chain, [branch |-> branch, duty |-> duty])
  BY DEF Extend
<1>4. /\ Tip' = h /\ chain'[h].duty = duty
      /\ \A g \in 1 .. Tip : chain'[g] = chain[g]
  <2> DEFINE b == [branch |-> branch, duty |-> duty]
  <2>1. b.duty = duty OBVIOUS
  <2> HIDE DEF b
  <2>2. Tip = Len(chain) /\ h = Len(chain) + 1 BY DEF Tip
  <2>3. /\ Len(Append(chain, b)) = Len(chain) + 1
        /\ Append(chain, b)[Len(chain) + 1] = b
        /\ \A g \in 1 .. Len(chain) : Append(chain, b)[g] = chain[g]
    BY <1>2
  <2>4. chain' = Append(chain, b) BY <1>3 DEF b
  <2> QED BY <2>1, <2>2, <2>3, <2>4 DEF Tip
<1>5. wire' = wire /\ secrets' = secrets /\ saved' = saved /\ synced' = synced
      /\ lost \subseteq lost'
  BY DEF Extend
<1>6. ASSUME NEW g \in 1 .. Tip', chain'[g].duty.commit # 0
      PROVE  \E tx \in wire' : tx.at = g /\ tx.commit = chain'[g].duty.commit
  <2>1. CASE g = h
    <3>1. duty # NoDuty BY <1>4, <1>6, <2>1 DEF NoDuty
    <3>2. PICK tx \in wire : tx.at = h /\ duty = Applied(tx) BY <1>3, <3>1
    <3> QED BY <1>4, <1>5, <2>1, <3>2 DEF Applied
  <2>2. CASE g # h
    <3>1. g \in 1 .. Tip /\ chain'[g] = chain[g] BY <1>2, <1>4, <2>2
    <3> QED BY <1>5, <1>6, <3>1 DEF SecretInv
  <2> QED BY <2>1, <2>2
<1>7. ASSUME Whole'
      PROVE  /\ Whole /\ floor' \in Nat /\ floor <= floor'
             /\ Tip' - FinalityDepth <= floor'
  <2>1. Whole BY <1>5, <1>7 DEF Whole
  <2>2. synced BY <2>1 DEF SecretInv
  <2>3. floor' \in Nat /\ floor <= floor' BY <1>2 DEF Extend, Deeper
  <2>4. ~(floor' < h - FinalityDepth) BY <1>7, <2>2 DEF Extend, Whole
  <2> QED BY <1>2, <1>4, <2>1, <2>3, <2>4
<1>8. ASSUME Whole', NEW tx \in wire', tx.commit # 0, floor' < RevealUntil(Epoch(tx.at) + 2)
      PROVE  saved'[Epoch(tx.at) + 2] = tx.commit
  <2>1. tx \in wire /\ Epoch(tx.at) \in Nat BY <1>1, <1>5, EpochIsNat DEF Dues
  <2>2. RevealUntil(Epoch(tx.at) + 2) \in Int BY <2>1, HeightsAreNumbers
  <2>3. floor < RevealUntil(Epoch(tx.at) + 2) BY <1>2, <1>7, <1>8, <2>2
  <2> QED BY <1>5, <1>7, <1>8, <2>1, <2>3 DEF SecretInv
<1> QED BY <1>5, <1>6, <1>7, <1>8 DEF SecretInv

LEMMA RollBackKeepsSecrets ==
  ASSUME DutyInv, SecretInv, RollBack
  PROVE  SecretInv'
<1>1. Tip \in Nat /\ chain \in Seq(Blocks) /\ floor \in Nat /\ FinalityDepth \in Nat
  BY TipFacts, DutiesAssumption DEF DutyInv, TypeOK
<1>2. floor < Tip BY DEF RollBack
<1>3. Tip - 1 \in Nat /\ Tip - 1 <= Len(chain) BY <1>1, <1>2 DEF Tip
<1>4. chain' = SubSeq(chain, 1, Tip - 1) BY DEF RollBack, Front, Tip
<1>5. Tip' = Tip - 1
  <2>1. Len(SubSeq(chain, 1, Tip - 1)) = Tip - 1 BY <1>1, <1>3
  <2> QED BY <1>4, <2>1 DEF Tip
<1>6. \A g \in 1 .. Tip - 1 : chain'[g] = chain[g] BY <1>1, <1>3, <1>4
<1>7. UNCHANGED <<wire, synced, secrets, saved, floor, lost>> BY DEF RollBack
<1>8. 1 .. Tip' \subseteq 1 .. Tip BY <1>1, <1>5
<1>9. \A g \in 1 .. Tip' : chain'[g].duty.commit # 0 =>
        \E tx \in wire' : tx.at = g /\ tx.commit = chain'[g].duty.commit
  BY <1>5, <1>6, <1>7, <1>8 DEF SecretInv
<1>10. Whole' => Whole BY <1>7 DEF Whole
<1>11. Tip - FinalityDepth <= floor => Tip' - FinalityDepth <= floor' BY <1>1, <1>5, <1>7
<1> QED BY <1>7, <1>9, <1>10, <1>11 DEF SecretInv

\* Only secrets too old to be revealed are forgotten.
LEMMA SaveSecretsKeepsSecrets ==
  ASSUME DutyInv, SecretInv, SaveSecrets
  PROVE  SecretInv'
<1> DEFINE e == Here + 2
           known == [secrets EXCEPT ![e] = IF secrets[e] = 0 THEN drawn[e] + 1 ELSE @]
<1>1. TypeOK /\ wire \subseteq Dues /\ MemoInv BY DEF DutyInv
<1>2. UNCHANGED <<chain, synced, floor, wire>> /\ Tip' = Tip BY DEF SaveSecrets, Tip
<1>3. CASE ~MayCommit
  <2>1. UNCHANGED <<secrets, saved, lost>> BY <1>3 DEF SaveSecrets
  <2> QED BY <1>2, <2>1 DEF SecretInv, Whole
<1>4. CASE MayCommit
  <2>1. \/ saved' = secrets' /\ lost' = lost
        \/ saved' = saved /\ lost' = lost \cup {"file"}
    BY <1>4 DEF SaveSecrets
  <2>2. Whole' => Whole /\ saved' = secrets' BY <2>1 DEF Whole
  <2>3. secrets' = [x \in Epochs |-> IF x >= Here + 1 THEN known[x] ELSE 0]
    BY <1>4 DEF SaveSecrets, Live
  <2>4. ASSUME Whole, NEW tx \in wire, tx.commit # 0,
               floor < RevealUntil(Epoch(tx.at) + 2)
        PROVE  secrets'[Epoch(tx.at) + 2] = tx.commit
    <3>1. PICK d \in Nat : d = Epoch(tx.at) + 2
      BY <1>1, EpochIsNat DEF Dues
    <3>2. saved[d] = tx.commit /\ secrets = saved
          /\ Tip - FinalityDepth <= floor
      BY <2>4, <3>1 DEF SecretInv
    <3>3. Tip \in Nat /\ Here \in Nat /\ floor \in Nat /\ Checkpoint(Here) <= Tip
          /\ Checkpoint(Here) \in Nat /\ FinalityDepth \in Nat
      BY <1>1, TipFacts, DutiesAssumption DEF TypeOK
    <3>4. d >= Here + 1
      <4> SUFFICES ASSUME d <= Here PROVE FALSE BY <3>1, <3>3
      <4>1. Checkpoint(d) <= Checkpoint(Here) /\ Checkpoint(d) \in Nat
        BY <3>1, <3>3, DutiesAssumption, SMTT(30) DEF Checkpoint
      <4>2. RevealUntil(d) = Checkpoint(d) - FinalityDepth - 1 BY DEF RevealUntil, Checkpoint
      <4>3. floor < RevealUntil(d) BY <2>4, <3>1
      <4> QED BY <3>2, <3>3, <4>1, <4>2, <4>3
    <3>5. secrets \in [Epochs -> Secrets] /\ saved \in [Epochs -> Secrets]
      BY <1>1 DEF TypeOK
    <3>6. d \in Epochs BY <3>1 DEF SecretInv
    <3>7. known[d] = tx.commit BY <2>4, <3>2, <3>5, <3>6
    <3> QED BY <2>3, <3>1, <3>4, <3>6, <3>7
  <2> QED BY <1>2, <2>2, <2>4 DEF SecretInv
<1> QED BY <1>3, <1>4

\* What is signed commits to the secret that was just saved.
LEMMA SendDutyKeepsSecrets ==
  ASSUME DutyInv, SecretInv, SendDuty
  PROVE  SecretInv'
<1>1. TypeOK /\ wire \subseteq Dues BY DEF DutyInv
<1>2. UNCHANGED <<chain, synced, floor, secrets, saved, lost>> /\ Tip' = Tip
  BY DEF SendDuty, Tip
<1>3. wire \subseteq wire' /\ wire' \subseteq wire \cup {Signed} BY DEF SendDuty
<1>4. Signed.at = LandsAt /\ Epoch(LandsAt) = Here /\ Here + 2 \in Epochs
  BY <1>1, LandsInEpoch, TipFacts DEF Signed, Duty
<1>5. Signed.commit # 0 => Signed.commit = secrets[Here + 2] BY DEF Signed, Duty
<1>6. Whole' <=> Whole BY <1>2 DEF Whole
<1>7. \A h \in 1 .. Tip : chain[h].duty.commit # 0 =>
        \E tx \in wire' : tx.at = h /\ tx.commit = chain[h].duty.commit
  BY <1>3 DEF SecretInv
<1>8. \A tx \in wire' : Epoch(tx.at) + 2 \in Epochs BY <1>3, <1>4 DEF SecretInv
<1>9. ASSUME Whole, NEW tx \in wire', tx.commit # 0, floor < RevealUntil(Epoch(tx.at) + 2)
      PROVE  saved[Epoch(tx.at) + 2] = tx.commit
  <2>1. CASE tx \in wire BY <1>9, <2>1 DEF SecretInv
  <2>2. CASE tx = Signed BY <1>4, <1>5, <1>9, <2>2 DEF SecretInv
  <2> QED BY <1>3, <2>1, <2>2
<1> QED BY <1>2, <1>6, <1>7, <1>8, <1>9 DEF SecretInv

LEMMA SecretNext ==
  ASSUME DutyInv, SecretInv, [Next]_vars
  PROVE  SecretInv'
<1>1. CASE Extend BY <1>1, ExtendKeepsSecrets
<1>2. CASE RollBack BY <1>2, RollBackKeepsSecrets
<1>3. CASE SaveSecrets BY <1>3, SaveSecretsKeepsSecrets
<1>4. CASE SendDuty BY <1>4, SendDutyKeepsSecrets
<1>5. CASE UNCHANGED <<chain, synced, floor, saved, wire, lost>> /\ secrets' \in {secrets, saved}
  BY <1>5 DEF SecretInv, Whole, Tip
<1>6. CASE CatchUp
  <2>1. UNCHANGED <<chain, wire>> /\ Tip' = Tip BY <1>6 DEF CatchUp, Tip
  <2>2. ~Whole'
    <3>1. ~Whole BY <1>6 DEF CatchUp, SecretInv
    <3>2. lost \subseteq lost' BY <1>6 DEF CatchUp
    <3> QED BY <3>1, <3>2 DEF Whole
  <2> QED BY <2>1, <2>2 DEF SecretInv
<1>7. ASSUME NEW h \in 0 .. Tip, LeaveChain(h), "chain" \in lost' PROVE SecretInv'
  <2>1. chain \in Seq(Blocks) /\ Tip \in Nat BY TipFacts DEF DutyInv, TypeOK
  <2>2. chain' = SubSeq(chain, 1, h) /\ wire' = wire BY <1>7 DEF LeaveChain
  <2>3. Tip' = h /\ \A g \in 1 .. h : chain'[g] = chain[g] BY <2>1, <2>2 DEF Tip
  <2>4. 1 .. Tip' \subseteq 1 .. Tip BY <2>1, <2>3
  <2>5. ~Whole' BY <1>7 DEF Whole
  <2> QED BY <2>2, <2>3, <2>4, <2>5 DEF SecretInv
<1>8. CASE StartDuty BY <1>5, <1>8 DEF StartDuty
<1>9. CASE Restart BY <1>5, <1>9 DEF Restart
<1>10. CASE Reanchor BY <1>7, <1>10 DEF Reanchor
<1>11. CASE Purge BY <1>7, <1>11 DEF Purge
<1>12. CASE UNCHANGED vars BY <1>5, <1>12 DEF vars
<1> QED BY <1>1, <1>2, <1>3, <1>4, <1>6, <1>8, <1>9, <1>10, <1>11, <1>12 DEF Next

\* The secrets of all commitments that count are in memory and on disk, as
\* long as the validator has lost none of what it relies on.
THEOREM SecretsInvariant == Spec => []SecretInv
<1>1. Init => SecretInv BY SecretInit
<1>2. DutyInv /\ SecretInv /\ [Next]_vars => SecretInv' BY SecretNext
<1> QED BY <1>1, <1>2, DutyInvariant, PTL DEF Spec

\* The secret behind a commitment that can still be revealed is on disk, so
\* that a restart wastes no commitment (memserver).
THEOREM NoCommitmentWasted == Spec => []CommitsCanBeRevealed
<1>1. DutyInv /\ SecretInv => CommitsCanBeRevealed
  BY CommittedIsKnown DEF CommitsCanBeRevealed, Whole
<1> QED BY <1>1, DutyInvariant, SecretsInvariant, PTL

\* A reveal that would land in time is made before its window is over.
LEMMA RevealIsInTime ==
  ASSUME TypeOK, MayReveal
  PROVE  Tip < RevealUntil(Here + 1)
<1>1. /\ Tip \in Nat /\ Here \in Nat /\ LastOf(Here) \in Nat /\ Tip <= LastOf(Here)
      /\ FinalityDepth \in Nat \ {0} /\ Margin \in Nat \ {0}
  BY TipFacts, DutiesAssumption
<1>2. RevealUntil(Here + 1) = LastOf(Here) - FinalityDepth
  <2>1. (Here + 1) * EpochLength \in Int BY <1>1, DutiesAssumption
  <2> QED BY <1>1, <2>1 DEF RevealUntil, LastOf
<1>3. LandsAt <= RevealUntil(Here + 1) BY DEF MayReveal
<1>4. CASE RevealUntil(Here + 1) > Tip BY <1>1, <1>2, <1>4
<1>5. CASE ~(RevealUntil(Here + 1) > Tip)
  BY <1>1, <1>2, <1>3, <1>5 DEF LandsAt
<1> QED BY <1>4, <1>5

\* What is signed validates on the chain it was made on.
LEMMA SignedIsValid ==
  ASSUME DutyInv, SecretInv, Whole
  PROVE  Valid(chain, Signed)
<1>1. TypeOK BY DEF DutyInv
<1>2. Epoch(Signed.at) = Here /\ Signed.at = LandsAt
  BY <1>1, LandsInEpoch DEF Signed, Duty
<1>3. Checkpoint(Here) <= Len(chain) /\ Here \in Nat /\ Here + 1 \in Epochs
  BY <1>1, TipFacts DEF Tip
<1>4. Signed.attest # <<>> => ValidAttest(chain, Signed)
  <2>1. Signed.attest # <<>> =>
          MayAttest /\ Signed.attest = Hash(chain, Checkpoint(Here))
    BY DEF Signed, Duty
  <2> QED BY <1>2, <1>3, <2>1 DEF MayAttest, ValidAttest
<1>5. Signed.commit # 0 => ValidCommit(chain, Signed)
  <2>1. Signed.commit # 0 => MayCommit BY DEF Signed, Duty
  <2> QED BY <1>2, <2>1 DEF MayCommit, ValidCommit
<1>6. ASSUME Signed.reveal # 0 PROVE ValidReveal(chain, Signed)
  <2>1. MayReveal /\ Signed.reveal = secrets[Here + 1] BY <1>6 DEF Signed, Duty
  <2>2. LandsAt <= RevealUntil(Here + 1) /\ CommitOf(chain, Here + 1) # 0
        /\ RevealOf(chain, Here + 1) # secrets[Here + 1]
    BY <2>1 DEF MayReveal, RevealDue
  <2>3. Tip < RevealUntil(Here + 1) BY <1>1, <2>1, RevealIsInTime
  <2>4. saved[Here + 1] = CommitOf(chain, Here + 1)
    BY <1>3, <2>2, <2>3, CommittedIsKnown
  <2>5. secrets = saved BY DEF SecretInv
  <2> QED BY <1>2, <2>1, <2>2, <2>4, <2>5 DEF ValidReveal
<1> QED BY <1>4, <1>5, <1>6 DEF Valid

\* The merged transaction offers no section that would not validate.
THEOREM DutiesAreAccepted == Spec => []DutyAccepted
<1>1. DutyInv /\ SecretInv => DutyAccepted
  BY SignedIsValid DEF DutyAccepted, Whole
<1> QED BY <1>1, DutyInvariant, SecretsInvariant, PTL

=============================================================================
