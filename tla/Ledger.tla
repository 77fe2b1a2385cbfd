-------------------------------- MODULE Ledger --------------------------------
(***************************************************************************)
(* The block thread of a node (loops/core_loop.py, rollback.py): blocks    *)
(* are validated against the committed ledger, applied one transaction at  *)
(* a time inside one LMDB write transaction, sealed and committed, and     *)
(* taken off again in reverse.  A crash or an exception drops the open     *)
(* write transaction.                                                      *)
(*                                                                         *)
(* `ledger' is the committed environment and `txn' the environment as the  *)
(* open write transaction sees it.  `steps' and `trace' are history        *)
(* variables: the ledgers the block being applied, and every block of the  *)
(* chain, went through (before its first transaction, after each one).     *)
(***************************************************************************)
EXTENDS LedgerOps

CONSTANTS
  Genesis,        \* the ledger the chain starts from
  Headers,        \* the [lane, creator, reward] triples of block headers
  MaxTxs,         \* bound on the transactions of one block
  FinalityDepth   \* memserver.finality_depth

ASSUME HeadersAssumption ==
  Headers \subseteq [lane: {"open", "bonded"}, creator: Accounts, reward: Nat]
ASSUME DepthAssumption == MaxTxs \in Nat /\ FinalityDepth \in Nat \ {0}

\* Rows that a transaction of the chain still has to write are absent: genesis
\* has balances and bonds, and nothing pending.
ASSUME GenesisAssumption ==
  /\ Genesis \in Ledgers
  /\ Genesis.mined = {} /\ Genesis.slashed = {}
  /\ \A i \in TxIds : Genesis.prior[i] = NONE /\ Genesis.swaps[i] = NONE
  /\ \A h \in Heights : Genesis.burned[h] = 0
  /\ \A a \in Accounts : Genesis.unbonding[a] = NONE
ASSUME SolventAssumption == Solvent(Genesis)

VARIABLES
  chain,      \* applied blocks, the block of height h at index h
  ledger,     \* committed state
  op,         \* what the block thread is doing
  block,      \* the block it is doing it to
  at,         \* how many of its transactions are applied in txn
  txn,        \* state inside the open write transaction
  finalized,  \* meta finalized_height
  steps, trace

vars == <<chain, ledger, op, block, at, txn, finalized, steps, trace>>

Tip == Len(chain)
Bodies == UNION {[1 .. n -> Txs] : n \in 0 .. MaxTxs}
Header(b) == [lane |-> b.lane, creator |-> b.creator, reward |-> b.reward]
Block(head, body) == [lane |-> head.lane, creator |-> head.creator,
                      reward |-> head.reward, txs |-> body]

Init ==
  /\ chain = <<>> /\ trace = <<>>
  /\ ledger = Genesis
  /\ op = "idle" /\ block = NONE /\ at = 0 /\ txn = NONE /\ steps = <<>>
  /\ finalized = 0

(***************************************************************************)
(* Applying a block: verify_block, then incorporate_block.                 *)
(***************************************************************************)
VerifyBlock(head, body) ==
  /\ op = "idle" /\ Tip < MaxHeight
  /\ BodyOk(ledger, body, Tip + 1)
  /\ op' = "incorporate"
  /\ block' = Block(head, body) /\ at' = 0
  /\ txn' = ledger /\ steps' = <<ledger>>
  /\ UNCHANGED <<chain, ledger, finalized, trace>>

IndexTransaction ==
  /\ op = "incorporate" /\ at < Len(block.txs)
  /\ Fits(txn, block.txs[at + 1])
  /\ txn' = Reflect(txn, block.txs[at + 1], Tip + 1)
  /\ at' = at + 1
  /\ steps' = Append(steps, txn')
  /\ UNCHANGED <<chain, ledger, op, block, finalized, trace>>

\* A seeded bug: the floor is recomputed without looking at the stored one.
SetFloor(h) ==
  \E corroborated \in BOOLEAN :
    finalized' = IF corroborated THEN h - FinalityDepth ELSE finalized

\* The depth floor rises only while the peer majority's tip is on this chain.
AdvanceFloor(h) ==
  \E corroborated \in BOOLEAN :
    finalized' = IF corroborated /\ h - FinalityDepth > finalized
                 THEN h - FinalityDepth ELSE finalized

CloseTxn ==
  op' = "idle" /\ block' = NONE /\ at' = 0 /\ txn' = NONE /\ steps' = <<>>

CommitBlock ==
  /\ op = "incorporate" /\ at = Len(block.txs)
  /\ ledger' = Seal(txn, block, Tip + 1)
  /\ chain' = Append(chain, block)
  /\ trace' = Append(trace, steps)
  /\ AdvanceFloor(Tip + 1)
  /\ CloseTxn

(***************************************************************************)
(* Taking the tip off: rollback_one_block.                                 *)
(***************************************************************************)
\* A seeded bug: a rollback does not look at the finalized height.
StartAnyRollback ==
  /\ op = "idle" /\ Tip > 0
  /\ UnsealFits(ledger, chain[Tip])
  /\ op' = "rollback"
  /\ block' = chain[Tip] /\ at' = Len(chain[Tip].txs)
  /\ txn' = Unseal(ledger, chain[Tip], Tip)
  /\ UNCHANGED <<chain, ledger, finalized, steps, trace>>

StartRollback ==
  /\ op = "idle" /\ Tip > 0
  /\ Tip - 1 >= finalized
  /\ UnsealFits(ledger, chain[Tip])
  /\ op' = "rollback"
  /\ block' = chain[Tip] /\ at' = Len(chain[Tip].txs)
  /\ txn' = Unseal(ledger, chain[Tip], Tip)
  /\ UNCHANGED <<chain, ledger, finalized, steps, trace>>

UnindexTransaction ==
  /\ op = "rollback" /\ at > 0
  /\ UndoFits(txn, block.txs[at])
  /\ txn' = Unreflect(txn, block.txs[at])
  /\ at' = at - 1
  /\ UNCHANGED <<chain, ledger, op, block, finalized, steps, trace>>

CommitRollback ==
  /\ op = "rollback" /\ at = 0
  /\ ledger' = txn
  /\ chain' = SubSeq(chain, 1, Tip - 1)
  /\ trace' = SubSeq(trace, 1, Tip - 1)
  /\ UNCHANGED finalized
  /\ CloseTxn

(***************************************************************************)
(* The write transaction is lost: an update hit its zero floor and raised, *)
(* or the process died.                                                    *)
(***************************************************************************)
IncorporationBlocked ==
  op = "incorporate" /\ at < Len(block.txs) /\ ~Fits(txn, block.txs[at + 1])

RollbackBlocked ==
  \/ op = "rollback" /\ at > 0 /\ ~UndoFits(txn, block.txs[at])
  \/ op = "idle" /\ Tip > finalized /\ ~UnsealFits(ledger, chain[Tip])

Raise ==
  /\ IncorporationBlocked
  /\ CloseTxn /\ UNCHANGED <<chain, ledger, finalized, trace>>

Crash ==
  /\ op # "idle"
  /\ CloseTxn /\ UNCHANGED <<chain, ledger, finalized, trace>>

Next ==
  \/ \E head \in Headers, body \in Bodies : VerifyBlock(head, body)
  \/ IndexTransaction \/ CommitBlock
  \/ StartRollback \/ UnindexTransaction \/ CommitRollback
  \/ Raise \/ Crash

Spec == Init /\ [][Next]_vars

-----------------------------------------------------------------------------
(***************************************************************************)
(* Properties.                                                             *)
(***************************************************************************)
BlockType == [lane: {"open", "bonded"}, creator: Accounts, reward: Nat,
              txs: Seq(Txs)]

\* Every variable has its type; in particular the open write transaction
\* exists exactly while a block is being applied or taken off.
TypeOK ==
  /\ chain \in Seq(BlockType)
  /\ ledger \in Ledgers
  /\ op \in {"idle", "incorporate", "rollback"}
  /\ op = "idle" => block = NONE /\ txn = NONE
  /\ op # "idle" => block \in BlockType /\ txn \in Ledgers /\ at \in 0 .. Len(block.txs)
  /\ finalized \in Nat /\ finalized <= Tip
  /\ at \in Nat
  /\ steps \in Seq(Ledgers)
  /\ trace \in Seq(Seq(Ledgers)) /\ Len(trace) = Tip

OnChain(kind) ==
  {p \in {<<h, i>> : h \in 1 .. Tip, i \in 1 .. MaxTxs} :
     p[2] <= Len(chain[p[1]].txs) /\ chain[p[1]].txs[p[2]].kind = kind}
TxAt(p) == chain[p[1]].txs[p[2]]
Everywhere == UNION {OnChain(k) : k \in {t.kind : t \in Txs}}

SumOver(Amount(_), S) == SumFunction([x \in S |-> Amount(x)])
Coins(L) == SumOver(LAMBDA a : L.balance[a], Holders)
              + SumOver(LAMBDA a : L.bonded[a], Accounts)

\* Every coin is in an account or a bond, and the supply figure that emission
\* reads (produced - fees, totals_get) agrees with the accounts: no kind of
\* transaction, reward, slash, burn or rollback mints or leaks
\* (ops/invariants.check_l1_supply).
SupplyConserved ==
  Coins(ledger) - (ledger.produced - ledger.fees)
    = Coins(Genesis) - (Genesis.produced - Genesis.fees)

\* A txid is mined at most once on the chain, and the tx index the replay check
\* reads lists exactly the chain's transactions, also after rollbacks.
MinedOnce ==
  /\ \A p, q \in Everywhere : TxAt(p).id = TxAt(q).id => p = q
  /\ ledger.mined = {TxAt(p).id : p \in Everywhere}

\* Stake leaves a bond only through a request that is at least BondUnlockDelay
\* blocks old, and each request pays out once (reflect_transaction, unbond and
\* withdraw).
WithdrawalsMatured ==
  \A w \in OnChain("withdraw") : \E u \in OnChain("unbond") :
     /\ TxAt(u).sender = TxAt(w).sender
     /\ TxAt(u).amount = TxAt(w).claims
     /\ u[1] + BondUnlockDelay <= w[1]
     /\ \A x \in OnChain("withdraw") :
           TxAt(x).sender = TxAt(w).sender /\ x[1] > u[1] => x[1] >= w[1]

\* The destroyed coins are the fees, the treasury burns and ONE penalty per
\* recorded offence (apply_slash).
OnePenaltyPerOffence ==
  ledger.fees = Genesis.fees
                  + SumOver(LAMBDA p : TxAt(p).fee, Everywhere)
                  + SumOver(LAMBDA h : ledger.burned[h], Heights)
                  + SlashPenalty * Cardinality(ledger.slashed)

\* No block carries two reports of one offence.
NoTwinReports ==
  \A p, q \in OnChain("slash") :
    p[1] = q[1] /\ OffenceOf(TxAt(p)) = OffenceOf(TxAt(q)) => p = q

OpenSwaps == {s \in TxIds : ledger.swaps[s] # NONE /\ ledger.swaps[s].status = "open"}

\* The escrow account can pay every swap that is still open.
EscrowCovers ==
  ledger.balance["htlc"] >= SumOver(LAMBDA s : ledger.swaps[s].amount, OpenSwaps)

\* A swap is paid out at most once, to the claimant before its expiry or back
\* to its sender from then on, and its stored status says which.
SwapSettledOnce ==
  \A s \in TxIds :
    LET claims  == {p \in OnChain("htlc_claim")  : TxAt(p).swap = s}
        refunds == {p \in OnChain("htlc_refund") : TxAt(p).swap = s}
    IN  /\ Cardinality(claims \cup refunds) <= 1
        /\ claims # {} <=> ledger.swaps[s] # NONE /\ ledger.swaps[s].status = "claimed"
        /\ refunds # {} <=> ledger.swaps[s] # NONE /\ ledger.swaps[s].status = "refunded"
        /\ \A p \in claims  : p[1] < ledger.swaps[s].expiry
        /\ \A p \in refunds : p[1] >= ledger.swaps[s].expiry

\* "successful execution mandatory, must not raise a failure": a block that
\* passed verification never makes incorporate_block raise.
IncorporationNeverRaises == ~IncorporationBlocked

\* Two transactions of the body take stake from the same bond.
Loses(t) == t.kind \in {"withdraw", "slash"}
StakeContested(body) ==
  \E i, j \in DOMAIN body :
    /\ i # j /\ Loses(body[i]) /\ Loses(body[j])
    /\ Staker(body[i]) = Staker(body[j])

\* Verification holds a block against the parent ledger, transaction by
\* transaction; what it leaves open is only stake that two transactions of the
\* block both take: everything else it admits can be applied
\* (validate_all_spending, reflect_transaction).
RaisesOnlyIfContested == IncorporationBlocked => StakeContested(block.txs)

\* No rollback above the finality floor raises half way.
RollbackNeverRaises == ~RollbackBlocked

\* A rollback restores, field for field, the ledger its block was applied to.
RollbackExact ==
  [][Len(chain') < Len(chain) => ledger' = trace[Len(chain)][1]]_vars

\* Bonded stake younger than the activation period has no weight
\* (apply_bond_since, _vote_activated): who counts held a stake at genesis or
\* bonded at least ActivationEpochs epochs ago.
YoungStakeHasNoWeight ==
  \A a \in Accounts :
    Activated(ledger, a, Tip + 1) =>
      \/ Genesis.bonded[a] > 0
      \/ \E p \in OnChain("bond") :
            /\ TxAt(p).sender = a
            /\ Epoch(p[1]) + ActivationEpochs <= Epoch(Tip + 1)

\* Nobody bonds twice in the first epoch of the chain.
LateTopUps ==
  \A p, q \in OnChain("bond") :
    TxAt(p).sender = TxAt(q).sender /\ Epoch(p[1]) = 0 /\ Epoch(q[1]) = 0 => p = q

\* The age of a stake that only grew is the stake-weighted mean of the epochs
\* its parts were bonded in, rounded down ("a top-up re-ramps the new portion",
\* apply_bond_since).
StakeAgeIsWeighted ==
  \A a \in Accounts :
    LET parts == {p \in OnChain("bond") : TxAt(p).sender = a}
    IN  /\ ledger.since[a] # NONE /\ Genesis.bonded[a] = 0
        /\ ledger.bonded[a] = SumOver(LAMBDA p : TxAt(p).amount, parts)
        => (ledger.since[a] + 1) * ledger.bonded[a]
             > SumOver(LAMBDA p : TxAt(p).amount * Epoch(p[1]), parts)

\* Outside, blocks are applied and reverted atomically and exactly.
Atomic == INSTANCE AtomicChain WITH
  states <- Append([k \in 1 .. Tip |-> trace[k][1]], ledger),
  final  <- finalized
AtomicSpec == Atomic!Spec

=============================================================================
