# NADO: a TLA+ model of the L1 node

NADO is a blockchain node in Python. One block thread verifies, applies and reverts blocks on an
LMDB environment; other threads gossip transactions and peer status; HTTP handlers read the result.
Its correctness rests on a few promises: a block is applied whole or not at all, a rollback is the
exact inverse of an application, a crash loses at most the block in progress, and coins are neither
made nor lost on the way. These modules state those promises, check them on small instances with TLC
and prove the central ones for every instance with TLAPS.

Paths are relative to the root of the repository (`src/` in `PROJECT.json`).

1. [The system](#1-the-system)
2. [The modules](#2-the-modules)
3. [What each run checks](#3-what-each-run-checks)
4. [Disagreements between the code and its documentation](#4-disagreements-between-the-code-and-its-documentation)
5. [What is proved](#5-what-is-proved)
6. [What is not modelled](#6-what-is-not-modelled)
7. [Plan](#7-plan)

## 1. The system

| part | code | state | operations | modelled in |
|---|---|---|---|---|
| ledger | `ops/account_ops.py`, `ops/transaction_ops.py`, `ops/reward_ops.py` | balances, bonds and their ages, pending unbonds, slash markers, swaps, treasury, supply totals, tx index | validate, apply and revert each kind of transaction; credit rewards; burn | `LedgerOps` (partly) |
| block thread | `loops/core_loop.py`, `rollback.py` | chain, open write transaction, finality floor | verify, incorporate, roll back | `Ledger`, `AtomicChain` |
| state database | `ops/kv_ops.py` | LMDB tables | read, write transaction, commit, abort | inside `Ledger`, `ChainStore` |
| block store | `ops/block_ops.py`, `ops/segment_store.py` | append-only segments, locators, height index, tip file | append, index, unindex, prune, recover | `ChainStore` |
| fork choice, sync | `loops/core_loop.py`, `loops/consensus_loop.py`, `ops/fork_resolution.py` | peers' tips and weights, bench, rollback budget, finality floor | produce, fast-forward, reorg, give up, re-anchor, purge | `ForkChoice`; the measured fork state in `ForkResolution` |
| epoch duties, RANDAO | `loops/core_loop.py`, `ops/block_ops.py`, `ops/mining_ops.py` | attest memos, secrets file, beacon | attest, commit, reveal, restart, re-anchor | `Duties` |
| FFG checkpoints | `ops/attestation_ops.py` | attestations per epoch | justify, finalise | planned: `Checkpoints` |
| committee, producer draw | `ops/mining_ops.py`, `ops/block_ops.py` | registries, beacon | draw | no |
| mempool | `memserver.py`, `ops/pool_ops.py` | pool, candidate | merge, cull, purge, candidate, reinsertion | `Mempool` |
| settlement, bridge, DA | `ops/settlement_ops.py`, `ops/da.py`, `ops/da_store.py` | votes per root, escrows, shards | settle, withdraw, accept, prune | planned: `Settlement` |
| treasury | `ops/account_ops.py`, `ops/settlement_ops.py` | votes with snapshot weights, executed proposals | vote, execute | planned: kinds of `LedgerOps` |
| registration, lease, idle GC | `ops/gc_ops.py`, `ops/reg_difficulty.py`, `ops/posw.py` | registry, recert rows, GC journal | register, sweep, restore | planned: `Registry` |
| snapshots | `ops/snapshot_ops.py` | checkpoints | persist, import, adopt | planned |
| message pool | `ops/message_pool.py` | mailbox with expiry and caps | add, evict | planned |
| the rest | `nado.py`, `execnode/`, `ops/self_update.py`, wallets, games, provers, web | | | no: I/O, cryptography, user interfaces, or a program of its own |

### How the parts interact

The block thread is the only writer of consensus state. A pass of its loop either *produces* (takes a
candidate body from the mempool) or *syncs* (fetches blocks after the tip, or takes the tip off and
tries the parent). Both end in `produce_block`:

    verify_block         against the committed state, as of the parent
    save_block           append to a segment, fsync, then write the locator
    write transaction    index the transactions, credit the reward, burn, totals, height index
    block_ends.dat       the tip file
    finalized_height     the depth floor, if the peers' majority is on this chain
    memserver.latest_block

`rollback_one_block` is one write transaction that recomputes all of the third line backwards, then
the tip file, then the in-memory tip. Fork choice, mempool and message loops reach the block thread
through shared fields of `memserver` and `consensus`; only the append and the removal of pooled
transactions hold a lock.

### What makes it hard, and what makes it correct

| part | hard behaviour | what must hold |
|---|---|---|
| ledger | every kind of transaction has a hand-written inverse; all transactions of a block are checked against the parent's state and then applied one after another; integer splits and means | rollback restores every field; the supply equals what was issued minus what was burned; escrows cover what they owe; a verified block never raises |
| block thread | a crash or an exception between any two transactions of a block or of a rollback | the outside sees whole blocks only; the floor is never crossed |
| block store | four stores written one after the other; torn appends; pruning beside rollbacks | locators resolve; what a rollback needs is readable; state, index and tip agree, or are one block apart |
| fork choice | pools of tips and weights refreshed at different times; a bench with backoff; a budget of rollbacks; a floor that rises on what peers advertise | the heaviest obtainable chain is reached; two sides of a partition do not both finalise |
| duties | an attestation signed again after a reorg, a resync or a restart; a secret in memory and on disk; reveals racing the cut-off | nothing is signed twice; a commitment can be revealed; a beacon that was used stays |
| checkpoints | the quorum's denominator leaks inactive members; dynasties rotate | two conflicting checkpoints cost a third of the stake |
| mempool | the spending check runs outside the lock the insertion takes; reinsertion after a reorg | the pool stays spendable; a reverted transaction is not lost inside its window |
| settlement, treasury | votes recorded with the weight of one height and counted at another | one result per proposal; payouts reverted exactly |
| registry, idle GC | a sweep that runs last in apply and first in revert | what a reorg removes comes back |

The complete list of hazards, each with its line and the properties that would catch it, is in
`PROJECT.json` under `hazards`.

## 2. The modules

| module | what it is |
|---|---|
| `LedgerOps` | the ledger as a pure data type: kinds of transactions, validation, apply and revert, rewards, burn |
| `AtomicChain` | the abstract specification: a stack of committed states above a floor |
| `Ledger` | the block thread around `LedgerOps`, with its write transaction; the properties of the ledger |
| `LedgerInv` | the inductive invariants of the ledger: `Reversible`, `RowsExplained`, `CoinsAccounted`, `MeansLast`, `TotalsExplained` |
| `LedgerOps_proofs`, `Ledger_proofs` | the theorems of the ledger |
| `SumTheorems` | lemmas: induction over naturals and finite sets, and the sums of `Functions` |
| `ChainStore` | segments, locators, indexes, tip file and in-memory tip, with crashes between any two writes |
| `ChainStoreInv`, `ChainStore_proofs` | its inductive invariants `StorageInv` and `StoresInv` and its theorems |
| `ForkResolution`, `ForkResolution_proofs` | the search for the common ancestor, probe by probe, and its theorems |
| `ForkChoice`, `ForkChoice_proofs` | several nodes: production, sync, reorganisation, floor, re-anchor and purge, and its theorems |
| `Duties`, `Duties_proofs` | one validator's attestations, commitments and reveals, and its theorems |
| `Mempool`, `Mempool_proofs` | the pool between handlers that merge and the block thread, and its theorems |
| `MCLedger` and `MCStake`, `MCSwap`, `MCSlash`; `MCChainStore`, `MCForkResolution`, `MCForkChoice`, `MCDuties`, `MCMempool` | small worlds for TLC |

How they compose:

- `Ledger` and `ChainStore` are two views of the same block thread. `Ledger` opens the write
  transaction up and takes the disk for granted; `ChainStore` takes the write transaction for one step,
  as `Ledger` shows it to be, and opens up everything written before and after it.
- `Mempool` extends `LedgerOps`: a pooled transaction is valid, applied and reverted by the operators
  that `Ledger` is about, a whole block in one step.
- `ForkChoice` takes the measured fork state for what `ForkResolution` shows its search to return.
- `Duties` and `ForkChoice` take a rollback for the removal of the last block, as `RollbackIsExact` says.

### LedgerOps and Ledger

A **ledger** is a record with a field per LMDB table the modelled transactions touch: `balance`,
`earned` (produced count), `bonded`, `since` and `prior` (`bond_since` and the rows that remember its
prior value per txid), `unbonding`, `slashed`, `swaps`, `mined` (the tx index), `inflow` (dividend
inflow per epoch), `burned` (treasury burn per height), `produced` and `fees` (totals).

A **transaction** is a record with its kind, its id and the fields that kind reads: transfer, bond,
unbond, withdraw, slash, htlc_lock, htlc_claim, htlc_refund. A block body is an arbitrary sequence of
transactions of the constant `Txs`, so that every order a producer could choose occurs; `BodyOk`
accepts those `validate_transactions_in_block` accepts. Ids are numbers and the txid order of
`sort_transaction_pool` is their order.

| action | code |
|---|---|
| `VerifyBlock` | `verify_block`: body checked against the committed ledger, write transaction opened |
| `IndexTransaction` | one pass of the loop of `index_transactions` |
| `CommitBlock` | rewards, treasury burn, totals, height index, commit; finality floor |
| `StartRollback` | `rollback_one_block` up to and including the reversal of rewards, burn and totals |
| `UnindexTransaction` | one pass of the loop of `unindex_transactions` |
| `CommitRollback` | commit of the rollback |
| `Raise` | an update hit its zero floor and raised; the write transaction is dropped |
| `Crash` | the process dies; the write transaction is dropped |

Choices made in the abstraction:

- The floor advances with the commit in `Ledger`. In the code it is a later write; a crash in between
  leaves the floor where it was, which is the outcome of `AdvanceFloor` when the tip is not corroborated.
- Fees are booked into the totals with the transaction in `Ledger` and with the block in the code; both
  are inside the write transaction.
- The reward of a block is any value of the constant `Headers`. The bond-elastic emission curve that
  determines it is a pure function and is not modelled.
- `steps` and `trace` are history variables. They record the ledgers a block went through and take no
  part in any guard.

Operators whose comment says "a seeded bug" are not part of the model. Each one is a plausible
mistake in the operator that follows it, used to show that the property it is paired with in
`PROJECT.json` (`mutants`) can fail.

### ChainStore

A block is the sequence of the bodies and state roots of its ancestors and itself, as its hash commits
to all of them. The consensus state is the bag of the effects of the blocks applied: adding and taking
away is exact, which is what `RollbackIsExact` proves of the ledger, and applying twice shows.

| variables | stands for |
|---|---|
| `files` | `blocks/seg-*.dat`: per segment a sequence of records, whole or torn |
| `loc` | `block_loc`, whose live counters per segment are derived (`Live`) |
| `state` | everything the state root covers |
| `byNum`, `byHash` | `block_by_num`, `block_by_hash` |
| `finalized`, `prunedBelow` | the two rows of `meta` |
| `latest` | `latest_block` in `block_ends.dat` |
| `up`, `tip`, `task` | process, in-memory tip, and where the block thread is |
| `cut` | history: a commit was once not followed by its tip file, because of a crash or an exception |

| actions | code |
|---|---|
| `Accept` | `produce_block`, `verify_block` and the idempotence test of `incorporate_block` |
| `SaveBody`, `SaveFails`, `LocateBody`, `LocateFails` | `save_block` with its retries |
| `ApplyBlock`, `Abandon` | the write transaction, committed or aborted |
| `PointTip`, `ReindexTip`, `Settle`, `LoseTrack` | `set_latest_block_info`, floor, in-memory tip; an exception in between |
| `RollBack` | the guards and the write transaction of `rollback_one_block` |
| `StartPrune`, `PassOver`, `Unreference`, `CarryBody`, `RepointBody`, `MarkPruned`, `CollectSegments` | `prune_block_bodies`, one write at a time |
| `Crash`, `Restart` | death with an append in flight; `_repair_tail` and `get_block_ends_info` |

Not part of this model: the cap of 4000 heights per pruning call (never reached within the bounds), and
the earliest-block pointer, which is display and recomputed at start.

### ForkResolution

One search of `find_common_ancestor` and the verdict of `resolve` over it. A *world* says what the node
and each peer hold: a window of heights, since old bodies are pruned and peers may be behind, and the
height up to which the peer's chain is the node's. Every probe is one step and asks `majority_hash`; any
answer may be lost, anew at every probe.

| actions | code |
|---|---|
| `Stride`, `ProbeGenesis`, `SweepRange`, `NothingAnswerable` | any height that can be answered: back from the tip with doubling strides, then genesis, then a uniform sweep |
| `LowestAnswerable`, `RaiseFloor` | the lowest height that can be answered, by bisection if it is not genesis |
| `ProbeTop`, `HighestAnswerable`, `LowerCeiling` | our own tip; if nobody answers there, the highest height that somebody does |
| `ProbeLowest`, `Bisect` | agreement at the lowest height, then the last height of agreement, by bisection |
| `Resolve` | `resolve`: behind, reorg, dead fork or unknown |

### ForkChoice

A block is the sequence of the contents of its ancestors and its own. `Work` is `cumulative_weight` with a
share per bond below the block; ties go to a total order on contents, for the lowest hash.

| variables | stands for |
|---|---|
| `chain`, `floor` | `latest_block` and `finalized_height` of each node |
| `benched`, `rollbacks` | the rejected tips and the rollbacks of the burst |
| `waited` | nodes that have minted once while a better tip was known, which they may not do again before they have followed it |
| `doomed` | nodes between the decision to purge and the purge |
| `net`, `healed` | who reaches whom; whether that has been settled for good |

| actions | code |
|---|---|
| `Produce` | the caught-up gate, `produce_block`, `_depth_floor_corroborated`: a set of nodes at once, before they hear of one another |
| `FastForward` | emergency mode when the donor knows our tip |
| `RollBackOne`, `RejectTip`, `Release`, `Leave` | when it does not: one block back, the budget of a burst, the bench, the end of a burst |
| `Reanchor` | adoption of a snapshot on a heavier chain, on the measured fork state |
| `Condemn`, `Escape` | `_maybe_escape_dead_fork` in its two halves: probe and decide; purge and restart |
| `Relink`, `Heal` | partitions that come and go; a network that stays whole |

Abstracted: a node acts on the present tips of its peers, which the status loop polls several times per
block, except for minting at once; every node keeps the bodies of its chain. With `Prompt` a sync or a
purge takes less than the time of a block, and so a node mints only when no other has a block to fetch or to take
back; but the grace before a tip of equal weight is followed is as long as a block (`MINORITY_GRACE_S`), so that nodes
that tie mint on. The hour of the "sustained" isolation override is longer than any purge in progress: it lets a
node yield that nobody agrees with while no other purge is pending. Left out: the separate pools of status and weights, body
prefetch, the handling of a missing parent, the cooldowns and streaks around a rejection, strikes against peers, and the download of a snapshot. `MaxRollbacks = 0` stands for a fork
deeper than one burst. `LongBench` says whether a node that has benched a tip may go on minting for as long
as the bench lasts.

### Duties

One bonded validator, whose chain grows, is rolled back, is left for another one, and whose process dies
between any two writes.

| variables | stands for |
|---|---|
| `chain`, `branch`, `synced`, `floor` | its chain with its own duties in it, whether it is caught up, `finalized_height` |
| `memo`, `pruned` | `attest_memo`, and up to where old memos were dropped |
| `secrets`, `saved`, `drawn` | `randao_secrets` in memory, on disk, and how many were drawn |
| `task` | where `maybe_epoch_duty` is |
| `pool`, `wire` | its duties in its pool, and all it ever signed, which any producer may include at any time |
| `seeded`, `lost` | history: the reveals an epoch was first drawn from; what the node has lost |

| actions | code |
|---|---|
| `Extend`, `RollBack` | `incorporate_block` with or without one of its duties, with the floor and the memo pruning; `rollback_one_block` |
| `StartDuty`, `SaveSecrets`, `SendDuty` | `maybe_epoch_duty`: memo, secret in memory, secrets file (which may fail), signed transaction |
| `Restart` | death and restart at any point: memory is what the disk says |
| `Reanchor`, `Purge`, `CatchUp` | the chain is replaced by a snapshot, or from genesis, and synced again |

Abstracted: whether the validator has a seat is open in every epoch, a superset of the throttle of
`_last_duty_height`; the reveals of the other validators are represented by its own; only the depth floor
is modelled, and a node whose configured finality depth exceeds the protocol's is not.

### Mempool

Handlers run in threads of their own, so that every step between two shared reads is an action.

| actions | code |
|---|---|
| `Admit`, `Weigh`, `Settle` | `merge_transaction`: the checks against pool, window and ledger; `validate_single_spending` over the pool; append, or purge of the sender, under the lock |
| `Cull` | what was mined leaves the pool, and the cheapest when it holds too many bytes |
| `Build`, `Receive` | a candidate filled from the pool; a block of another honest node |
| `Evict`, `Commit`, `Fail`, `Tidy` | its transactions leave the pool before it is applied, or is not; outdated ones leave afterwards |
| `RollBack`, `Reinsert` | the tip comes off, then each of its transactions is merged again |

Abstracted: a transaction counts as one byte; `Admit` reads tip, ledger and pool in one step, and the tip
is set together with the ledger. Left out: the gossip queue and its backpressure, the node's own duty and
bond transactions, blobs, and the rebuilding of a candidate that fails its own verification, which
`CandidateStands` shows is never needed.

The list comprehensions and sorts of the code are said with ranks: `Among(s, S)` is what of `s` is in `S`,
in the order of `s`, its `k`-th member being the one at the `k`-th smallest place (`Nth`). `Commit` happens
only if no transaction of the block raises (`Raises`, by the rule `Fits` of `LedgerOps`); otherwise the
block is given up (`Fail`).

## 3. What each run checks

| run | question | distinct states |
|---|---|---|
| `stake` | bond, unbond, withdraw, slash and transfers over both lanes with treasury burns: are coins conserved, bodies mined once, withdrawals mature, one penalty per offence, rollbacks possible; does a verified block raise only where two of its transactions take stake from one bond; and does it all implement `AtomicChain`? | 107,105 |
| `swap` | two swaps in both directions through one escrow account around their expiry: is `Reversible` an invariant, does the escrow cover them, is each settled once and on the right side of its expiry, does a verified block never raise? | 2,587 |
| `slash` | are rollbacks exact although two reports of one offence share a marker, in one block too? Does stake count only after it has aged, when none is bonded in epoch 0? | 350,796 |
| `store` | with torn and failed appends, failed locator writes, failed tip writes, pruning and crashes anywhere: do locators resolve, are retained and blob bodies readable, do the stores agree, is a crash worth at most one block, is a final block final? | 2,536,008 |
| `fork_search` | over peers that are pruned, behind, ahead or forked at any height, with answers lost at any probe: is the ancestor shared, is it the highest one when nothing is lost, does a verdict of dead fork have a witness, does the search end? | 202,968 |
| `fork_choice` | a pair and a lone node mint and finalise apart, with failing fetches, long benches and a bridge that comes and goes: once the network heals, do they cease to hold different blocks as final, whoever is heavier? | 20,718 |
| `even_split` | two pairs with final blocks of their own meet again, and either may overtake the other while a purge is pending: do they never purge each other away? | 14,197 |
| `shallow_fork` | does every fork of three nodes within one burst end in one chain, under weakly fair scheduling, although nodes that tie mint on? | 52,123 |
| `duties` | with reorgs, resyncs, restarts between any two writes, a failing secrets file and duties that any producer may include at any time: is nothing signed twice, does a used beacon stay, can a commitment be revealed, is a merged duty valid as a whole? | 2,623,041 |
| `mempool` | two handlers merge rival payments and unbonds while the block thread takes from the pool, fails, receives, rolls back and reinserts: is no transaction pooled twice, does a candidate pass its verification, does it leave nothing out? | 1,260,448 |
| `stake_raises`, `duplicate_purges` | two code bugs of section 4 | violated |

All runs but `stake`, `swap` and `slash` switch the deadlock check off, because bounds end their
behaviours: the appended records of `store`, the end of the search in `fork_search`, the heights, branches
and rollbacks of the others.

**Bounds of the ledger runs.** Heights up to 4, 5 or 6, blocks of at most two transactions, two accounts
beside the treasury, the dividend pool and the swap escrow. Epochs of two blocks, and delays, timelocks
and spend periods of two, so that a run crosses several epoch boundaries, burns, maturities and expiries.
Two transactions per block are what an interaction inside a block needs, since bodies are in txid order
and each txid set offers both orders; four heights are what a bond needs from its request to its
withdrawal and back off the chain. Amounts are small and reward and fee shares keep the code's basis
points, so that every split has a remainder. The finality depth of 2 or 3 leaves room for rollbacks of
that depth, which means a block can be taken off, replaced and taken off again.

**Bounds of the store run.** A chain of three blocks, two bodies of which one has a blob, two records per
segment, five appends with the genesis record: enough for a pruned height, a carried blob, a collected
segment, a torn append and a retry. Finality depth 1 and retention 0 are the tightest values the code's
formulas allow: every height the floor passes is prunable, and the parent of the lowest block that may
be rolled back is the lowest readable one.

**Bounds of the search.** A node of six blocks and three peers, each with one of seven windows, so that the
doubling stride can jump over all of them and every later stage is reached. The sweep has four parts, so that
a window of one block can be missed, as the code says of windows below its resolution; `AncestorIsHighest`
leaves exactly these out (`WideEnough`). The *calm* worlds have one
fork and lose nothing, the *stormy* ones have two forks and lose any answer.

**Bounds of the fork runs.** Three nodes are the smallest network with a majority, four the smallest even
split. `fork_choice` parts a node from the two others, which build the same blocks; a bridge to one of them comes
and goes until the network heals. The lone node builds blocks with the lowest hashes, so that it wins ties, and as
nobody waits for anybody across the parting, either side may be ahead when the network heals. A finality depth of 1 and two blocks let
both sides finalise a block and differ in weight, and `MaxRollbacks = 0` stands for forks deeper than a burst. `MinPeers`
is 0, so that a node mints alone, which is the harder case.
`MCLoneSide.cfg` has a deeper fork instead of failures: depth 2, three blocks, one rollback per burst, and the lone
node cut off until the network heals. It passes too (30,246 states); strong fairness is what bounds these two.
`even_split` starts where each side has a final block and another one on top, of equal weight; the second block of
one side bonds. Each side has one block to mint, which is heavier on the side that bonded, so that the side that
was lighter at the decision overtakes the other if it mints before its purge: TLC reaches states where one node of
it is about to purge and its partner is heavier than everybody on the other side.
`shallow_fork` starts from every fork of up to three blocks per node that fits in one burst, with one
content that adds weight, so that shorter chains can be heavier. Its network has healed, so that no fetch fails:
failing ones are the subject of `fork_choice`, and for a pair of `MCPairHeals.cfg`. With `Prompt = FALSE`, where blocks
come between any two steps of a sync, TLC refutes the property: two nodes mint on both sides while the third rolls
back, the fork grows deeper than the budget, and then it stays. Symmetry is used in `even_split` for
nodes of one side, which build the same, and in `mempool` for the two handlers; no liveness property
is checked with symmetry.

**Bounds of the duties run.** Epochs of four blocks and a reveal window that ends two blocks before them;
the run starts at the last block of epoch 0 and crosses two boundaries, and the chain can be left once.
One kind of loss per behaviour (`OneLoss`): memory, the file, the chain or a regressed floor. Memos are
dropped as soon as their epoch is below the floor (`MemoEpochs = 0`), where the code keeps two more.

**Bounds of the mempool run.** Two heights and five transactions: payments that two senders cannot both
afford, with windows of different length, and two rival unbonds. A pool of one transaction is full at
once, and three threads can still push it to three.

**Fairness.** Three runs check liveness. `Terminates` needs weak fairness of the search alone, which is one
call of the block thread. `ShallowForksHeal` assumes weak fairness only (`Scheduling`): of each step of the block thread of
each node, which loops about once a second; of `Release`, as a bench is a timer; and that a network stays whole
once healed. `FloorsRejoin` assumes strong fairness beside it (`Persistence`), where a bench interrupts what a node
does: of `FastForward`, because the bench is off for many passes of the loop between two rejections; of
`Reanchor`, because every burst that gives up attempts it; and of `Condemn`, because peers are probed for as long
as the node runs. Nothing is assumed to be produced. What is assumed of the time of blocks is what `Prompt` says,
and `MaxHeight` ends production: beyond it nodes still sync, purge and adopt, so that both properties speak of
what is reached while blocks are still to come and after the last one.

**Properties worth pointing at.**

- `RollbackExact` compares the ledger after a rollback with the one recorded before the block.
- `AtomicSpec` is the refinement: `states` is what was committed after genesis and each block. It
  forbids any visible intermediate state and any step below the floor.
- `RollbackNeverRaises` says a node can always leave its branch down to the floor. It is not a
  consequence of exactness: a debit on the way back could hit the zero floor first.
- `DurableWithinOne` speaks of the disk at every moment, also while the node is down: it is why a
  restart could repair the tip, had it looked at the index.
- `FinalIsForever` holds even on nodes that lost their tip.
- `FloorsRejoin` is what is left of a promise that the code cannot keep: two sides of a partition may finalise different
  blocks, even with peers to corroborate them (`MCLoneFinality.cfg`). It is the purge that brings them together, and
  of its three clauses the last two matter, since a lone node wins every slot and is the heavier one.
  That all nodes end on one *tip* does not follow, and TLC refutes it in the world of `MCLoneSide.cfg`: in a fork deeper
  than a burst a node mints anew what it has taken back; in `MCDeepTie.cfg` two nodes restore each other's chain.
- `ShallowForksHeal` speaks of forks within one burst; deeper ones need not heal (`MCDeepTie.cfg`).
- `NotSlashable` holds because a memo is written before anything is signed and outlives the chain. It
  has one condition, `"memo" \notin lost`: that no memo was dropped of an epoch that came again.
- `BeaconStands` is why the reveal window ends a finality depth before the epoch: a node that drew from a
  beacon has all reveals below its floor.
- `CandidateStands` says a node never loses its slot to a pool spoilt by races and reorgs.
- `CandidateFull` is its converse: a candidate is not safe by leaving things out.

## 4. Disagreements between the code and its documentation

Two are code bugs, each a run TLC must find violated, with the sentence it contradicts quoted in
`PROJECT.json`.

| run | what the code does |
|---|---|
| `stake_raises` | A withdrawal and a slash of the same bond in one block are each checked against the parent's bond and both pass; the second debit raises inside `incorporate_block`. |
| `duplicate_purges` | A transaction that another thread has appended between the look for duplicates and the spending check counts twice, and its sender loses everything it has in the pool. |

The others are kept as configurations beside the runs. Each checks one property which TLC finds violated,
and each is a sentence of the repository that the code outgrew or that leaves a case out.

| configuration (module) | property | the sentence, and what the code does |
|---|---|---|
| `MCSlashTwice` (`MCSlash`) | `OnePenaltyPerOffence` | "one slash per (offender, height)" (`ops/kv_ops.py`). Two reports of one attestation offence in one block get different uniqueness keys, as the key reads fields that only authorship evidence has. |
| `MCFirstEpoch` (`MCSlash`) | `YoungStakeHasNoWeight` | "an epoch-0 bonder must still age normally" (`apply_bond_since`). A top-up inside epoch 0 turns the age of a new stake into 0, the mark of a fully aged one. |
| `MCTopUps` (`MCSlash`) | `StakeAgeIsWeighted` | "a top-up re-ramps the new portion" (`apply_bond_since`). The mean age is rounded down at every top-up and the remainder forgotten. |
| `MCStaleTip` (`MCChainStore`) | `StaleTipResyncs` | "a stale tip that re-syncs forward" (`core_loop.py`). After a crash between commit and tip file the next block is refused for its state root before the idempotence check is reached; a candidate of the node's own applies on top of the state. |
| `MCTipLost` (`MCChainStore`) | `TipBodyKept` | "the latest body is always kept" (`ops/block_ops.py`). After a crash between a rollback's commit and the tip file the file names a body whose locator is gone. |
| `MCWatermark` (`MCChainStore`) | `WatermarkHonest` | "bodies at/above it are kept" (`ops/block_ops.py`). A crash inside pruning leaves unreferenced bodies above the watermark. |
| `MCOutage` (`MCForkResolution`) | `OutageIsNoFork` | "an outage must never be read as a fork" (`ops/fork_resolution.py`). When nobody answers at the node's own tip, the ancestor is at most the highest height that is answered, and is compared with the tip all the same. |
| `MCLoneFinality` (`MCForkChoice`) | `NoneFinalizesAlone` | "a node producing alone on a minority fork must never self-finalize it" (`core_loop.py`). A peer that lags at any common ancestor corroborates the fork. |
| `MCMutualWipe` (`MCForkChoice`) | `OneSidePurges` | "a mutual wipe is impossible" (`core_loop.py`). In a split three ways everybody is opposed by all others, and weight is not asked. |
| `MCAgreeingPeer` (`MCForkChoice`) | `NobodyAgrees` | "only if NOBODY agrees with us" (`core_loop.py`). The agreement of a lighter peer is not counted any more. |
| `MCDeepTie` (`MCForkChoice`) | `TiesConverge` | "they all converge on the lowest-hash tip" (`core_loop.py`). In a fork deeper than a burst, two nodes that roll back by turns restore each other's chain. |
| `MCEqualTip` (`MCForkChoice`) | `FirstSeenKept` | "Equal or lower weight -> keep our tip (first-seen on ties)" (`minority_block_consensus`, `core_loop.py:784`); "so we never switch away from an equal-or-heavier local chain (first-seen on ties)" and "an equal-weight peer never displaces our tip" (`refresh_heaviest_tip`, `consensus_loop.py:300-301` and `319`). Tips are sorted by weight and then by hash, the node's own among them, and the node syncs whenever the first is not its own (`core_loop.py:789-794`). That is what lets `ShallowForksHeal` cover ties; the rule of the comments is its mutant. |
| `MCSavedSecrets` (`MCDuties`) | `SecretsDieWithProcess` | "in-memory: an unrevealed secret after a restart is a wasted commit, harmless" (`maybe_epoch_duty`, `core_loop.py:2109-2110`). Secrets are saved (`core_loop.py:2177-2188`) and loaded at start, so that a restart wastes no commitment, which is `CommitsCanBeRevealed`. |
| `MCPurgedMemo` (`MCDuties`) | `NeverSlashable` | "now makes a second, differing signature impossible" (`tests/test_seed_divergence.py`). A purge drops the memos with the database. |
| `MCReorgDrops` (`MCMempool`) | `ReorgKeepsTxs` | "never drop them" (`_rollback_one_for_reorg`). A transaction mined at the far end of its window is beyond the window once the tip is lower, and its merge is refused. |

`MCPairHeals.cfg` and `MCLoneSide.cfg` pass: two nodes alone heal too, with failing fetches (14,685 states), and
`FloorsRejoin` holds of deeper forks (section 3).

Observed while modelling, without a property of their own:

- A block's transactions leave the pool before it is known to commit, so that a failed block loses them.
- `remove_outdated_transactions` keeps a window of `<` where the merge admits `<=`: what is merged at the
  far end between a commit and the tidying after it is dropped although it could be mined.
- The exemption of protocol transactions from the fee floor of the cull does not know duties, slashes and
  swap settlements, which carry no fee and are therefore culled first.
- A reveal is offered if there is *some* commitment on the chain, not if it is the secret's. A commitment
  whose secret never reached the file is offered a mismatched reveal after a restart; so is one that lands
  again after its epoch was left, its secret dropped and another one drawn, on a branch that the floor had
  not followed. One invalid section takes the whole merged duty down. `DutyAccepted` therefore holds only
  with the file written and the floor rising: with two secrets per epoch and two branches TLC finds a
  behaviour of 27 steps that breaks it without the second condition.

## 5. What is proved

TLAPS checks the theorems below for all values of the constants that satisfy the assumptions of the
modules: any finite sets of accounts and transactions, any headers, solvent genesis ledger, block
size and chain length; any bodies, segment size and retention; any finite set of peers with any windows and
branches; any finite network with any links, budget and finality depth; any epoch length above the finality
depth; any finite set of handlers, caps and landing window.

| theorem | says |
|---|---|
| `ReversibleInvariant` | `Reversible` is an invariant of `Ledger` |
| `TypeCorrect` | so is `TypeOK` |
| `RollbackIsExact` | `RollbackExact` holds of `Ledger` |
| `ImplementsAtomicChain` | `Ledger` implements `AtomicChain` under the mapping of `AtomicSpec` |
| `UndoExact` | `Unreflect` undoes `Reflect` for each kind of transaction |
| `UnsealSeal` | `Unseal` undoes `Seal` |
| `Frame` | a transaction leaves alone the rows another one's inverse reads |
| `RowsInvariant` | `RowsExplained` is an invariant of `Ledger`, with `Reversible` |
| `MinedAtMostOnce`, `WithdrawalsMature`, `SwapsSettleOnce` | so are `MinedOnce`, `WithdrawalsMatured` and `SwapSettledOnce` |
| `SupplyIsConserved`, `EscrowIsCovered` | so are `SupplyConserved` and `EscrowCovers`, from the invariant `CoinsAccounted` (`CoinsInvariant`) |
| `RollbacksGoThrough` | so is `RollbackNeverRaises` wherever no burn took more than the treasury held before its block |
| `OnlyContestedRaises`, `NothingElseRaises` | so is `RaisesOnlyIfContested`, from `MeansLast` (`MeansInvariant`); and `IncorporationNeverRaises` if no transaction takes stake |
| `OnePenaltyUnlessTwins` | so is `OnePenaltyPerOffence`, where no block carries two reports of one offence |
| `YoungStakeUnlessEarlyTopUps` | so is `YoungStakeHasNoWeight`, where nobody bonds twice in the first epoch; both from `TotalsExplained` (`TotalsInvariant`) |
| `StorageInvariant` | `StorageInv` is an invariant of `ChainStore` |
| `LocatorsAlwaysResolve`, `BlobsAreForever` | so are `LocatorsResolve` and `BlobsForever` |
| `StoreTypeCorrect`, `RetainedStayReadable`, `StoresAlwaysAgree`, `AlwaysWithinOne` | so are `TypeOK`, `RetainedBodiesReadable`, `StoresAgree` and `DurableWithinOne`, from the invariant `StoresInv` (`StoresInvariant`) |
| `FinalBlocksStay` | `FinalIsForever` holds of every step of `ChainStore` |
| `SearchInvariant`, `SearchTypeCorrect` | `SearchInv` and `TypeOK` are invariants of `ForkResolution` |
| `AncestorAlwaysShared`, `DeadForkAlwaysWitnessed` | so are `AncestorIsShared` and `DeadForkHasWitness` |
| `AncestorAlwaysHighest` | so is `AncestorIsHighest`, from `Located` (`SearchLocates`) |
| `BetterIsTotalOrder` | weight and then the lowest hash is a strict total order on chains |
| `NetworkTyped`, `NoRestOnAFork` | `TypeOK` and `QuietMeansAgreed` are invariants of `ForkChoice` |
| `FinalBlocksKept` | `FinalIsKept` holds of every step of `ForkChoice` |
| `WeightNeverWipesAll` | `NoMutualWipe` holds of every step if purges are decided by weight alone (`LighterYields`), not by unanimity or isolation |
| `DutyInvariant`, `DutyTypeCorrect` | `DutyInv` and `TypeOK` are invariants of `Duties`, from its own `Init` |
| `NeverTwoAttestations`, `BeaconNeverChanges` | so are `NotSlashable` and `BeaconStands` |
| `NoCommitmentWasted`, `DutiesAreAccepted` | so are `CommitsCanBeRevealed` and `DutyAccepted`, from `SecretInv` (`SecretsInvariant`) |
| `MempoolSafe`, `PoolTyped`, `PoolAlwaysUnique` | `MempoolInv`, `TypeOK` and `PoolUnique` are invariants of `Mempool` |
| `CandidateAlwaysStands`, `CandidateAlwaysFull` | so is `CandidateStands`, and `CandidateFull` holds of every step |

What the constants are assumed to be is what the code's own values are. Reward shares leave the producer
and the dividend something and a burn takes at most what there is (`SharesAssumption`: `protocol.py` has
10 % for the treasury, 20 % for the tip, 20 % for the dividend, 1 % for the burn). A penalty is not zero
(`PenaltyAssumption`: it is `B_MIN`). Genesis owes nobody and has no markers, swaps, pending unbonds or burns
(`GenesisAssumption`, `SolventAssumption`: it is written from a list of balances). The peers asked are finitely
many (`PeersAssumption`), and so are the nodes of a network (`NodeAssumption`), accounts and transactions
(`FiniteAssumption`) and the threads that merge (`MempoolAssumption`); the pool's cap is not zero. TLC evaluates each
assumption in the runs of its module.

**Rollbacks.** A rollback does not restore a saved state. It recomputes the old one from the rows the
ledger holds at the time, one transaction after another. So exactness is not a property of one
transaction: `Unreflect` is the inverse of `Reflect` only on ledgers where the rows it reads are still
the ones `Reflect` left, and where the row a transaction creates was absent before (`Applicable`, `Fresh`,
`Unburned`). The invariant carries this along the whole chain. `History` says the recorded ledgers of each
block are a *run*: each is `Reflect` of the one before, each finds what its inverse will need, and the
transactions still to come are still applicable, which `Frame` preserves because ids differ and
`Clash`-free bodies touch different rows. Runs are linked by `Seal`. `RollingBack` says a rollback in
progress is on the run of the tip, `at` steps from its start.

*The exception.* Slash markers are a set, and two reports in one block can set the same one (section
4). Undoing the first clears it for both, so the ledger in the middle of a rollback is not the one on the
run. The invariant states what it is instead: the ledger of the run without the markers of the reports
already undone (`Without`), and that none of the block's markers existed before the block. At the
end both coincide, which is why `RollbackExact` holds where `OnePenaltyPerOffence` does not, and why
`OnePenaltyUnlessTwins` has a condition that `RollbackIsExact` has not.

**Rows.** The code refuses replays, early withdrawals and second settlements by looking at a row, never at
the chain. `RowsExplained` says the row is as good as the chain: `Explains(D, L)` relates a history `D`, the
set of entries of what was applied where, to the index, the pending unbonds and the swaps of a ledger
`L`. `ExplainsStep` adds one transaction to both sides and needs `Applicable` of it, which
`Reversible` supplies, and `Timely`, which verification against the parent supplies and `TimelyKept`
carries past the other transactions of the block. Since the invariant holds of every ledger that a
rollback leads back to, and rollbacks lead exactly there, nothing is said about undoing. What TLC is told
of positions on the chain and what the invariant says of entries is the same (`PositionsAreEntries`).

**Coins.** `SupplyConserved` of the committed ledger is not inductive, although every step forwards keeps
it: a rollback may debit what its block paid out, and can do so only if the ledger *before* the block
was in order. So `CoinsAccounted` speaks of every ledger of the history, of the recorded runs and of the
block in progress: each has the supply of genesis when what was produced and destroyed is taken off,
owes nobody, and can pay its open swaps. A rollback then needs no case of its own, since `Reversible` says it
is on the run. The totals are `SumFunctionOnSet` of the community module `Functions`, a fold over a recursive
function. The library's induction theorems take an operator, which no prover here can instantiate;
`SumTheorems` does the induction with sets instead: a set of naturals with 0 and all successors is `Nat`
(`NatInduct`), a family of sets with `{}` that is closed under adding an element holds all finite sets
(`SetInduct`), and the recursion has a solution for the same reason (`TableExists`).

*Rollbacks* raise only where `BurnsCovered` fails: `rollback_one_block` takes the treasury's share of the
reward back before it restores the burn of that height, so that a burn of more than the treasury held
before its block would not leave enough. The run `stake` checks `RollbackNeverRaises` without the
condition, in a world where it always holds; the theorem keeps it, because other constants break it. In the
code's numbers a burn is 1 % of what has gathered over many rewards, and only a payout can make it fail.

*Blocks.* `SpendingLedger` compares sums over the whole body with the parent's balances; the body is
applied one transaction at a time. `MeansLast` says that in the middle of the block the open ledger can pay
for the rest: what one transaction takes was part of its sender's sum, and what it credits only helps.
Stake is the exception, since the checks on bonds look at one transaction at a time; `RaisesOnlyIfContested`
leaves these out, and the run `stake_raises` shows that it must.

*Totals.* The counter of the destroyed coins and the age of a bond are updated in place. `TotalsExplained`
says they are what the history makes them, in every ledger a rollback leads back to. Each
theorem has the condition under which this is true, and section 4 says what happens without it:
`NoTwinReports`, since a second report in a block burns again under the same marker; `LateTopUps`, since
an age of 0 is also the mark of a fully aged stake.

**The store.** `LocatorsResolve` is not inductive: the next step may cut a record off,
or name one that is not there. `StorageInv` adds why neither happens. A record is only ever appended to
the segment with the highest number (`AppendedKeeps`, `RollKeeps`), so nothing located moves. Only the
last record of that segment can be torn, and only while the node is down (`OnlyTailTorn`), because a
node that stays up closes the segment behind a half-written record; so the repair at start cuts off
one record at most, and one no locator names (`RepairFacts`). Between the append and the locator's own
write the block thread holds the place of the record (`Halfway`), which the steps in between keep. For
blobs, `Blocks` says that a block is indexed at its own height only, so that a rollback takes an index entry
together with its locator; and pruning drops a locator only after a body that `LocatorsResolve` says can
be read was seen to have no blob.

`StoresInv` puts the four stores side by side. The state and the two indexes are those of one branch, the
block in hand between a commit and the rewriting of the tip file, the tip file's otherwise (`OnOneBranch`); the
floor has not passed it; and every height from the retention window up has a locator (`Retained`),
which pruning keeps because the floor stands still while the thread prunes. All of this is
conditional on `~cut`: a crash or a failure between commit and tip file is what breaks it, and
`FinalIsForever` holds even then, because nothing rolls back below the floor the indexes themselves tell.

**The search.** `SearchInv` says in which interval each stage works (`Ranges`), that each end of the last
bisection rests on an answer some majority gave (`Bracketed`), and that so does the conclusion
(`Judged`). The two safety theorems read off the conclusion: a majority that gave the node's own hash
contains a peer that holds it. For the third, `Located` says that every stage keeps the edge it looks for
in its interval: the strides and the sweep that no window lies where they have probed, the bisections that
one end is inside and the other outside. That the sweep hits a window as wide as one of its parts is
`SweepMeets`; that agreement is a prefix on one chain, `AgreedBelow`. `WideEnough` is the condition the code
states itself, that narrower windows may be missed; a first version of the property without it was refuted by
TLC at a sweep of four parts.

**The network.** `TypeOK` of `ForkChoice` needs that the heaviest tip is one of those seen, also where no
donor is named, as when a fetch fails. `Heaviest` is a choice, so this is a statement about the order:
`BestExists`, by induction over the finite set of tips, from `BetterIsTotalOrder`. Of two chains of one weight
neither extends the other, because a block always adds weight (`WorkRises`); so there is a first block where
they differ, and it decides. What the code's comment says of the tie-break, that every node computes it
identically, comes to this: a network cannot rest on a fork (`NoRestOnAFork`), since of two linked nodes the
one with the worse tip is behind. It may still never come to rest (`TiesConverge` is false, section 4).
`FinalIsKept` says by which steps a node may contradict what it held as final, and there are two: the
purge, once decided, and the snapshot of a heavier chain, which is above the floor unless the node was measured
to be on a fork below it. The guards that this rests on are far apart: a rollback stops at the floor, fast-forward
takes a child of the tip, and the floor is the maximum of its two candidates. The two invariants and the
action property were checked with TLC in the worlds of six configurations.

*Purges.* `NoMutualWipe` does not hold of a split three ways (TLC refutes it in the world of
`MCMutualWipe.cfg`): the clause by which a node yields when everybody opposes it applies to all three.
`WeightNeverWipesAll` says that only this clause and the one on isolation are to blame. While each purge is decided because an opposing chain is heavier, some node that does not purge is heavier than all
that are about to (`HeavierStays`): the best node is never behind, so it can only extend its chain
(`BestStays`), and those that have decided do nothing until they purge, so that what they were lighter than
when they decided they still are. `even_split` covers the rest for two sides: a node whose partner has adopted the other
side's snapshot is alone, and yields even if it has become the heaviest of all. The inductive invariant was also checked with TLC.

**Duties.** `MemoInv` says that whatever was signed for an epoch whose memo cannot have been pruned is
what the memo holds, and that a duty in progress has written its memo before it signs; `NotSlashable`
follows, as the memo is only written over an empty one. `BeaconInv` says that a reveal lands in its window,
that the window of an epoch that was drawn from is below the floor, and that the chain below the floor
still gives the value drawn. `SecretInv` says that a commitment on the chain was signed by the validator, and
that the secret of a signed one is on disk until the floor passes its reveal window: secrets are dropped
only with epochs whose window the floor has passed, and after the commitment. It holds while neither chain,
file nor floor was lost (`Whole`). The last condition came out of the proof: without it, TLC found the
behaviour described in section 4.

**The pool.** A merge looks at the pool in three steps, so `MempoolInv` says nothing of what a thread has
found out on the way: between its checks and the lock everything may have changed. What holds is what the
last step establishes. `PoolUnique` is kept because the append looks for the id again under the lock,
and every other writer of the pool filters it (`AmongUnique`). The cap is not looked at again, and `PoolBounded`
counts those who are on their way with those who are there, from which the bound in `TypeOK` follows. The
ledgers, the present one and those a rollback returns to, are `Sound` for their height: nobody owes, and the
rows keyed by a txid are there for mined transactions only. `AppliedSound` carries this through a block
that verification let through and that does not raise, one transaction at a time, with the lemmas of
`Ledger` (`ValidApplicable`, `Frame`, `ReflectSolvent`, `SealSolvent`).

*Candidates.* `SelectedGood` goes through the pool as `_candidate_pool` does: what was chosen so far has no
repetitions, is valid and can be paid for. What lands at another height, and whoever has a rival with a
lower id, is then left out, and `PartWithinMeans` says that the rest can still be paid for: fewer
transactions cost no more, in any order, and this is where the ids must be unique. That two members of the
candidate cannot clash needs that `Clash` is symmetric. `BlockStands` is what `CandidateStands` says for as
long as the block is in hand. `CandidateFull` goes through the pool the other way: if all that may be
mined can be paid for, each choice is part of it, so that none is refused (`SelectedAll`); and of those that
share a key the lowest is matched, because `Clash` is transitive (`MatchedOrRival`).

**Model-checked only.** `IncorporationNeverRaises` as such is false (`stake_raises`) and holds in the world of
`swap`, which has no stake to contest; `NothingElseRaises` is that case for all constants. `NoMutualWipe` without
the condition of its theorem is false in general and left to its run. Out of
the prover's reach are liveness (`Terminates`, `ShallowForksHeal`, `FloorsRejoin`) and `ENABLED`. The inductive invariants that no run lists were
checked with TLC in the worlds of the runs before they were proved.

## 6. What is not modelled

- In the ledger: registration and leases, aliases and transfers to an alias, message keys, bridge and
  shield escrows, dividend withdrawal, treasury votes and payouts, multisignature accounts, the idle
  sweep, execution summaries, the revert rows of duties. Signatures are taken as valid.
- The bond-elastic emission curve, the producer draw and the seats of the duty committee: functions of
  the state without a state of their own.
- FFG justification, whose quorum leaks inactive members: planned as `Checkpoints`. `Ledger`, `ForkChoice` and
  `Duties` know the depth floor only.
- Reading concurrently with a write transaction: LMDB gives readers the committed environment, which is
  `ledger` in the model.
- Peers that do not answer truly. The network of `ForkChoice` and the peers of `ForkResolution` lose
  answers and partition, and run the same code.
- The download and verification of a snapshot. `ForkChoice` and `Duties` have its outcome.
- Settlement, bridge and data availability, the message pool, HTTP and status handling: see the plan, and
  the notes in `PROJECT.json`.
- The execution node and its games, STARK provers, native and WebAssembly code, wallets, forum, web
  pages, self-update and telemetry: other programs, cryptography or user interfaces.

## 7. Plan

Done: `Ledger`, `ChainStore`, `ForkResolution`, `ForkChoice`, `Duties`, `Mempool`. To come, in this order:

1. `Checkpoints`: attestations, quorum with leak, justification; abstract specification: two conflicting
   finalised checkpoints imply a third of the stake equivocated. Composed with the floor of `ForkChoice`.
2. `Settlement`: weighted votes per root, escrow release, bridge nonces.
3. Treasury votes and payouts, aliases and dividends as further kinds of `LedgerOps`; with them the
   rollback at the burn height of a nearly empty treasury and the alias that moves inside a block.
4. `Registry`: lease, recertification, idle sweep with its journal; execution summaries with theirs.
5. In `ForkChoice`, the status and weight pools as variables of their own.
6. Message pool and snapshots.

Theorems to come: accountable safety of `Checkpoints`; under which partitions, if any short of none, floors agree
without a purge.
