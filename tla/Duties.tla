------------------------------- MODULE Duties -------------------------------
(***************************************************************************)
(* The consensus duties of one bonded validator (maybe_epoch_duty): it     *)
(* attests the first block of the running epoch, commits to a secret for   *)
(* the epoch after the next, and reveals the secret of the next epoch, all *)
(* in one transaction that lands at exactly one height.  Meanwhile its     *)
(* chain grows, is rolled back, is left for another one, and the process   *)
(* dies between any two writes.  A signed attestation is public for ever.  *)
(*                                                                         *)
(* A block is what tells it from its siblings: the number of the branch it *)
(* was made on, and this validator's duty in it, if any.  The hash of a    *)
(* block is the chain up to it.  A secret is a number, 0 is none.          *)
(***************************************************************************)
EXTENDS Integers, FiniteSets, Sequences, SequencesExt

CONSTANTS
  EpochLength,      \* EPOCH_LENGTH
  FinalityDepth,    \* FINALITY_DEPTH, of the reveal window and of the node
  Margin,           \* DUTY_TX_MARGIN
  MemoEpochs,       \* epochs below the floor whose memo is kept
  MaxHeight,        \* bound on the height of a chain
  MaxBranches,      \* bound on the branches a chain is taken to
  MaxSecrets        \* bound on the secrets drawn for one epoch

ASSUME DutiesAssumption ==
  /\ EpochLength \in Nat \ {0} /\ FinalityDepth \in Nat \ {0}
  /\ FinalityDepth < EpochLength
  /\ Margin \in Nat \ {0} /\ MemoEpochs \in Nat /\ MaxHeight \in Nat
  /\ MaxBranches \in Nat /\ MaxSecrets \in Nat

VARIABLES
  chain,     \* the blocks above genesis
  branch,    \* the number of the branch blocks are made on
  synced,    \* the node is caught up: it produces and does its duties
  floor,     \* finalized_height
  memo,      \* attest_memo: per epoch the hash signed, <<>> for none
  pruned,    \* memos of epochs below this one were dropped
  secrets,   \* randao_secrets in memory
  saved,     \* private/randao_secrets.json
  drawn,     \* history: how many secrets were drawn per epoch
  task,      \* where maybe_epoch_duty is
  pool,      \* this validator's duties in its own mempool
  wire,      \* history: every duty ever signed, which any producer may hold
  seeded,    \* history: the reveal epoch_beacon first used for an epoch
  lost       \* history: what the node has lost so far

vars == <<chain, branch, synced, floor, memo, pruned, secrets, saved, drawn,
          task, pool, wire, seeded, lost>>

-----------------------------------------------------------------------------
Epochs   == 0 .. MaxHeight \div EpochLength + 2
Secrets  == 0 .. MaxSecrets
Unset    == -1
NoDuty   == [attest |-> FALSE, commit |-> 0, reveal |-> 0]
Blocks   == [branch : 0 .. MaxBranches,
             duty : [attest : BOOLEAN, commit : Secrets, reveal : Secrets]]
Tip      == Len(chain)
Epoch(h) == h \div EpochLength

\* The hash of the block at height h.
Hash(c, h) == SubSeq(c, 1, h)

\* The height the duty of epoch e attests, and the last one of the epoch.
Checkpoint(e) == e * EpochLength
LastOf(e)     == (e + 1) * EpochLength - 1

\* A seeded bug: the window of a reveal is the whole epoch before.
RevealUntilTheEnd(e) == e * EpochLength - 1

\* The last height a reveal for epoch e may land at.
RevealUntil(e) == e * EpochLength - FinalityDepth - 1

\* Where the duty of an epoch was applied: attestation_exists, commit_get and
\* reveals_for_epoch, on the chain c.
Landed(c, e)  == {h \in 1 .. Len(c) : Epoch(h) = e}
Attested(c, e) == \E h \in Landed(c, e) : c[h].duty.attest
CommitOf(c, e) ==
  LET at == {h \in Landed(c, e - 2) : c[h].duty.commit # 0}
  IN  IF at = {} THEN 0 ELSE c[CHOOSE h \in at : TRUE].duty.commit
RevealOf(c, e) ==
  LET at == {h \in Landed(c, e - 1) : c[h].duty.reveal # 0}
  IN  IF at = {} THEN 0 ELSE c[CHOOSE h \in at : TRUE].duty.reveal

-----------------------------------------------------------------------------
\* A duty as it is signed: the height it lands at, the hash it attests (<<>>
\* for none), the secret it commits to and the one it reveals.
Duty(at, hash, commit, reveal) ==
  [at |-> at, attest |-> hash, commit |-> commit, reveal |-> reveal]

\* What applying it puts into the block it lands in.
Applied(tx) == [attest |-> tx.attest # <<>>,
                commit |-> tx.commit, reveal |-> tx.reveal]

\* The three sections as validate_transaction sees them on the chain c.
ValidAttest(c, tx) ==
  LET e == Epoch(tx.at)
  IN  /\ ~Attested(c, e)
      /\ Checkpoint(e) <= Len(c) /\ tx.attest = Hash(c, Checkpoint(e))
ValidCommit(c, tx) == CommitOf(c, Epoch(tx.at) + 2) = 0
ValidReveal(c, tx) ==
  LET e == Epoch(tx.at) + 1
  IN  /\ tx.at <= RevealUntil(e)
      /\ tx.reveal = CommitOf(c, e)
      /\ RevealOf(c, e) # tx.reveal

Valid(c, tx) ==
  /\ tx.attest # <<>> => ValidAttest(c, tx)
  /\ tx.commit # 0 => ValidCommit(c, tx)
  /\ tx.reveal # 0 => ValidReveal(c, tx)

-----------------------------------------------------------------------------
Init ==
  /\ chain = <<>> /\ branch = 0 /\ synced = TRUE /\ floor = 0
  /\ memo = [e \in Epochs |-> <<>>] /\ pruned = 0
  /\ secrets = [e \in Epochs |-> 0] /\ saved = [e \in Epochs |-> 0]
  /\ drawn = [e \in Epochs |-> 0]
  /\ task = "idle" /\ pool = {} /\ wire = {}
  /\ seeded = [e \in Epochs |-> Unset] /\ lost = {}

\* A seeded bug: the floor follows the tip down.
DeeperAnew(f, h) == h - FinalityDepth

\* The floor of a chain of height h, if the network corroborates the tip.
Deeper(f, h) == IF h - FinalityDepth > f THEN h - FinalityDepth ELSE f

\* attest_memo_prune, at the first block of an epoch.
PruneMemo(h, f) ==
  IF h % EpochLength = 0 /\ Epoch(f) - MemoEpochs > pruned
  THEN /\ pruned' = Epoch(f) - MemoEpochs
       /\ memo' = [e \in Epochs |-> IF e < pruned' THEN <<>> ELSE memo[e]]
  ELSE UNCHANGED <<memo, pruned>>

\* The next block: with a duty of this validator that lands at this height
\* and is valid on the chain, or with none.  Its epoch's beacon is fixed by
\* the first block of the epoch on a corroborated tip.
Extend ==
  LET h == Tip + 1 IN
  /\ task = "idle" /\ h <= MaxHeight
  /\ \E duty \in {NoDuty} \cup
        {Applied(tx) : tx \in {t \in wire : t.at = h /\ Valid(chain, t)}} :
       chain' = Append(chain, [branch |-> branch, duty |-> duty])
  /\ pool' = {tx \in pool : tx.at > h}
  /\ floor' \in IF synced THEN {floor, Deeper(floor, h)} ELSE {floor}
  /\ PruneMemo(h, floor')
  /\ seeded' = [e \in Epochs |->
       IF h = Checkpoint(e) /\ floor' >= h - FinalityDepth /\ seeded[e] = Unset
       THEN RevealOf(chain', e) ELSE seeded[e]]
  /\ lost' = IF synced /\ floor' < h - FinalityDepth THEN lost \cup {"floor"} ELSE lost
  /\ UNCHANGED <<branch, synced, secrets, saved, drawn, task, wire>>

\* rollback_one_block with the reinsertion of the transactions it frees: the
\* next block is another one.
RollBack ==
  LET duty == Last(chain).duty IN
  /\ task = "idle" /\ synced
  /\ Tip > floor
  /\ Last(chain).branch < branch \/ branch < MaxBranches
  /\ chain' = Front(chain)
  /\ branch' = IF Last(chain).branch = branch THEN branch + 1 ELSE branch
  /\ pool' = pool \cup {tx \in wire : /\ tx.at = Tip /\ Applied(tx) = duty
                                     /\ Valid(chain', tx)}
  /\ UNCHANGED <<synced, floor, memo, pruned, secrets, saved, drawn, task,
                 wire, seeded, lost>>

-----------------------------------------------------------------------------
\* maybe_epoch_duty.  The block thread runs it, so that the chain stands
\* still until it is done, but the process may die after each of its writes.
Here == Epoch(Tip)

\* _reserved_tx_pending: a duty of this epoch is in the pool.
Pending == \E tx \in pool : Epoch(tx.at) = Here

\* A reveal is due: committed on the chain, its secret known, not yet made.
RevealDue ==
  /\ secrets[Here + 1] # 0
  /\ CommitOf(chain, Here + 1) # 0
  /\ RevealOf(chain, Here + 1) # secrets[Here + 1]

\* The height the duty is to land at.
LandsAt ==
  LET last == IF RevealDue /\ RevealUntil(Here + 1) > Tip
              THEN RevealUntil(Here + 1) ELSE LastOf(Here)
  IN  IF Tip + Margin < last THEN Tip + Margin ELSE last

\* A seeded bug: an attestation that has not landed is signed again.
MayAttestAgain == Here >= 1 /\ ~Attested(chain, Here)

\* The attestation the epoch still lacks and the node may still sign: it has
\* signed none for this epoch, or this very one.
MayAttest ==
  /\ Here >= 1 /\ ~Attested(chain, Here)
  /\ memo[Here] \in {<<>>, Hash(chain, Checkpoint(Here))}

MayCommit == CommitOf(chain, Here + 2) = 0
\* A seeded bug: a reveal is added whenever it is due.
MayRevealLate == RevealDue

MayReveal == RevealDue /\ LandsAt <= RevealUntil(Here + 1)

\* First the memo is written.
StartDuty ==
  /\ task = "idle" /\ synced
  /\ ~Pending /\ LandsAt > Tip
  /\ MayAttest \/ MayCommit \/ MayReveal
  /\ memo' = IF MayAttest
             THEN [memo EXCEPT ![Here] = Hash(chain, Checkpoint(Here))]
             ELSE memo
  /\ task' = "noted"
  /\ UNCHANGED <<chain, branch, synced, floor, pruned, secrets, saved, drawn,
                 pool, wire, seeded, lost>>

\* A seeded bug: one epoch too many is forgotten.
LiveShort(s) == [e \in Epochs |-> IF e >= Here + 2 THEN s[e] ELSE 0]

\* The secrets that can still be revealed.
Live(s) == [e \in Epochs |-> IF e >= Here + 1 THEN s[e] ELSE 0]

\* Then, if a commitment is due, its secret is drawn, unless there is one, and
\* all live ones are written to disk.  A failed write is logged.
SaveSecrets ==
  LET e == Here + 2
      fresh == secrets[e] = 0
      known == [secrets EXCEPT ![e] = IF fresh THEN drawn[e] + 1 ELSE @]
  IN
  /\ task = "noted"
  /\ IF MayCommit
     THEN /\ fresh => drawn[e] < MaxSecrets
          /\ drawn' = [drawn EXCEPT ![e] = IF fresh THEN @ + 1 ELSE @]
          /\ secrets' = Live(known)
          /\ \/ saved' = Live(known) /\ lost' = lost
             \/ saved' = saved /\ lost' = lost \cup {"file"}
     ELSE UNCHANGED <<secrets, saved, drawn, lost>>
  /\ task' = "saved"
  /\ UNCHANGED <<chain, branch, synced, floor, memo, pruned, pool, wire,
                 seeded>>

\* What is signed in the end.  The chain has not moved since StartDuty.
Signed ==
  Duty(LandsAt,
       IF MayAttest THEN Hash(chain, Checkpoint(Here)) ELSE <<>>,
       IF MayCommit THEN secrets[Here + 2] ELSE 0,
       IF MayReveal THEN secrets[Here + 1] ELSE 0)

\* Last the duty is signed and merged into the mempool, from where all peers
\* fetch it.  merge_transaction refuses what does not validate.
SendDuty ==
  /\ task = "saved"
  /\ IF Valid(chain, Signed)
     THEN pool' = pool \cup {Signed} /\ wire' = wire \cup {Signed}
     ELSE UNCHANGED <<pool, wire>>
  /\ task' = "idle"
  /\ UNCHANGED <<chain, branch, synced, floor, memo, pruned, secrets, saved,
                 drawn, seeded, lost>>

-----------------------------------------------------------------------------
\* The process dies and starts again: what was in memory is gone.
Restart ==
  /\ task' = "idle" /\ pool' = {} /\ secrets' = saved
  /\ UNCHANGED <<chain, branch, synced, floor, memo, pruned, saved, drawn,
                 wire, seeded, lost>>

\* The node leaves its chain below the floor for another one, which it then
\* fetches block by block.  A re-anchor keeps the memos on purpose; a purge
\* removes the whole index, the memos with it, keeps private/, and restarts.
LeaveChain(h) ==
  /\ task = "idle" /\ synced /\ h < floor /\ branch < MaxBranches
  /\ chain' = SubSeq(chain, 1, h)
  /\ branch' = branch + 1 /\ synced' = FALSE /\ floor' = h
  /\ pool' = {}
  /\ seeded' = [e \in Epochs |-> Unset]
  /\ UNCHANGED <<saved, drawn, task, wire>>

Reanchor ==
  /\ \E h \in 0 .. Tip : LeaveChain(h)
  /\ lost' = lost \cup {"chain"}
  /\ UNCHANGED <<memo, pruned, secrets>>

Purge ==
  /\ \E h \in 0 .. Tip : LeaveChain(h)
  /\ memo' = [e \in Epochs |-> <<>>] /\ pruned' = 0
  /\ secrets' = saved
  /\ lost' = lost \cup {"chain", "memo"}

\* It has caught up with the other chain.  An epoch whose memo was dropped
\* below an earlier floor may become the running one again.
CatchUp ==
  /\ ~synced
  /\ synced' = TRUE
  /\ floor' = Deeper(floor, Tip)
  /\ lost' = IF Epoch(floor') < pruned THEN lost \cup {"memo"} ELSE lost
  /\ UNCHANGED <<chain, branch, memo, pruned, secrets, saved, drawn, task,
                 pool, wire, seeded>>

Next ==
  \/ Extend \/ RollBack
  \/ StartDuty \/ SaveSecrets \/ SendDuty
  \/ Restart \/ Reanchor \/ Purge \/ CatchUp

Spec == Init /\ [][Next]_vars

-----------------------------------------------------------------------------
TypeOK ==
  /\ chain \in Seq(Blocks) /\ Tip <= MaxHeight
  /\ branch \in 0 .. MaxBranches /\ synced \in BOOLEAN
  /\ floor \in 0 .. MaxHeight /\ pruned \in Nat
  /\ memo \in [Epochs -> Seq(Blocks)]
  /\ secrets \in [Epochs -> Secrets] /\ saved \in [Epochs -> Secrets]
  /\ drawn \in [Epochs -> Secrets]
  /\ task \in {"idle", "noted", "saved"}
  /\ pool \subseteq wire
  /\ seeded \in [Epochs -> Secrets \cup {Unset}]
  /\ lost \subseteq {"chain", "memo", "file", "floor"}

\* The validator has signed two attestations of one epoch, a proof with which
\* anyone may slash it (verify_attestation_equivocation_proof).
Slashable ==
  \E p, q \in wire : /\ Epoch(p.at) = Epoch(q.at)
                     /\ p.attest # q.attest /\ <<>> \notin {p.attest, q.attest}

\* Reorgs, re-anchors, lost duties and restarts at any point make the honest
\* validator sign again for an epoch whose checkpoint is now another block;
\* what it signs is never a proof against itself (attest_memo_put), as long
\* as no memo of an epoch that may come again was dropped.
NotSlashable == "memo" \notin lost => ~Slashable

\* The test of the memo says it without the condition ("now makes a second,
\* differing signature impossible", test_no_self_equivocation_across_reorg).
NeverSlashable == ~Slashable

\* The beacon of an epoch is drawn from the reveals below its first block.  A
\* node that has used it, on a tip the network corroborated, never sees
\* another one for that epoch, however often it rolls back over the boundary
\* and on ("immutable when this beacon is first needed", epoch_beacon).
BeaconStands ==
  \A e \in Epochs :
    seeded[e] # Unset /\ Tip >= Checkpoint(e) => RevealOf(chain, e) = seeded[e]

\* The secret behind a commitment that can still be revealed is on disk, and a
\* restart wastes no commitment (memserver), unless its file could not be
\* written or the node changed its chain.
CommitsCanBeRevealed ==
  lost \cap {"chain", "file", "floor"} = {} =>
    \A e \in Epochs :
      CommitOf(chain, e) # 0 /\ Tip < RevealUntil(e) => saved[e] = CommitOf(chain, e)

\* "Secrets live in memserver.randao_secrets (in-memory: an unrevealed secret after
\* a restart is a wasted commit, harmless)", maybe_epoch_duty.  FALSE: they are
\* loaded from the file they were saved to.
SecretsDieWithProcess == [][Restart => \A e \in Epochs : secrets'[e] = 0]_vars

\* The merged transaction offers no section that would not validate, which
\* would take the others down with it.  A floor that stands still is left out:
\* the secret of an epoch is then dropped and drawn again below it, and the
\* first commitment may be the one that lands.
DutyAccepted ==
  task = "saved" /\ lost \cap {"chain", "file", "floor"} = {} =>
    Valid(chain, Signed)
=============================================================================
