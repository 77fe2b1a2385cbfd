------------------------------- MODULE Mempool -------------------------------
(***************************************************************************)
(* The transaction pool of a node between its HTTP handlers, which merge   *)
(* what users submit and peers gossip, and its block thread, which culls   *)
(* it, fills candidates from it, applies blocks and takes them off again.  *)
(* A merge reads the tip, the ledger and the pool in turn, and only its    *)
(* last step holds the mempool lock, so that anything may happen between.  *)
(*                                                                         *)
(* The ledger and the validity of transactions are those of LedgerOps.     *)
(* Blocks are applied and reverted in one step each: module Ledger shows   *)
(* that nobody sees them half done and that a rollback is exact.           *)
(*                                                                         *)
(* The prover knows nothing of SelectSeq and SortSeq.  What is filtered or *)
(* sorted here is said with the rank of its members instead.               *)
(***************************************************************************)
EXTENDS LedgerOps, SequencesExt

CONSTANTS
  Genesis,         \* the ledger the chain starts from
  Header,          \* the lane, creator and reward of every block
  Handlers,        \* the threads that merge for users and peers
  LandingWindow,   \* TX_LANDING_WINDOW
  PoolMaxTxs,      \* transaction_pool_max_txs
  PoolMaxBytes,    \* transaction_pool_max_bytes, a transaction being one
  MaxRollbacks     \* bound on the blocks ever taken off

ASSUME GenesisAssumption ==
  /\ Genesis \in Ledgers /\ Genesis.mined = {}
  /\ \A i \in TxIds : Genesis.prior[i] = NONE /\ Genesis.swaps[i] = NONE
  /\ \A h \in Heights : Genesis.burned[h] = 0
  /\ Solvent(Genesis)
  /\ Header \in [lane: {"open", "bonded"}, creator: Accounts, reward: Nat]
ASSUME MempoolAssumption ==
  /\ IsFiniteSet(Handlers) /\ "core" \notin Handlers
  /\ {LandingWindow, PoolMaxBytes, MaxRollbacks} \subseteq Nat
  /\ PoolMaxTxs \in Nat \ {0}

VARIABLES
  chain,     \* applied blocks: their transactions and the ledger before them
  ledger,    \* committed state
  pool,      \* memserver.transaction_pool
  merging,   \* where each thread is in merge_transaction
  core,      \* where the block thread is
  block,     \* the block it works on
  freed,     \* the transactions of a reverted block still to be reinserted
  reverted   \* history: every transaction that a reorg took off the chain

vars == <<chain, ledger, pool, merging, core, block, freed, reverted>>

-----------------------------------------------------------------------------
Threads  == Handlers \cup {"core"}
NoMerge  == [tx |-> NONE, step |-> "none"]
NoBlock  == [own |-> FALSE, txs |-> <<>>]
Tip      == Len(chain)
Pooled   == {pool[i].id : i \in DOMAIN pool}

\* The k-th smallest of a set of numbers.
Nth(P, k) == CHOOSE i \in P : Cardinality({j \in P : j <= i}) = k

\* What of s is in S, in the order of s.
Among(s, S) ==
  LET P == {i \in DOMAIN s : s[i] \in S}
  IN  [k \in 1 .. Cardinality(P) |-> s[Nth(P, k)]]

InIdOrder(S) ==
  LET ids == {t.id : t \in S}
  IN  [k \in 1 .. Cardinality(ids) |-> CHOOSE t \in S : t.id = Nth(ids, k)]

\* The ledgers a block of these transactions goes through.
Path(L, body, h) ==
  LET after[i \in 0 .. Len(body)] ==
        IF i = 0 THEN L ELSE Reflect(after[i - 1], body[i], h)
  IN  after

Applied(L, body, h) == Seal(Path(L, body, h)[Len(body)], Header, h)
Raises(L, body, h)  == \E i \in DOMAIN body : ~Fits(Path(L, body, h)[i - 1], body[i])

Init ==
  /\ chain = <<>> /\ ledger = Genesis /\ pool = <<>>
  /\ merging = [p \in Threads |-> NoMerge]
  /\ core = "loop" /\ block = NoBlock /\ freed = <<>> /\ reverted = {}

(***************************************************************************)
(* merge_transaction.                                                      *)
(***************************************************************************)
\* A seeded bug: the number of pooled transactions is not looked at.
AdmissibleToAny(t) ==
  /\ t.id \notin Pooled
  /\ Tip < t.lands.max /\ t.lands.max <= Tip + LandingWindow
  /\ t.id \notin ledger.mined
  /\ Valid(ledger, t)

Admissible(t) ==
  /\ t.id \notin Pooled
  /\ Len(pool) < PoolMaxTxs
  /\ Tip < t.lands.max /\ t.lands.max <= Tip + LandingWindow
  /\ t.id \notin ledger.mined
  /\ Valid(ledger, t)

\* validate_single_spending: what the sender has in the pool, and this one.
Affordable(t) ==
  LET mine == Append(Among(pool, {u \in Txs : u.sender = t.sender}), t)
  IN  /\ Total(BalanceCost, mine, DOMAIN mine) <= ledger.balance[t.sender]
      /\ Total(BondedCost, mine, DOMAIN mine) <= ledger.bonded[t.sender]

\* The checks, in a handler; the block thread goes through them with the next
\* transaction it reinserts.
Admit(p, t) ==
  /\ p \in Handlers /\ merging[p] = NoMerge
  /\ Admissible(t)
  /\ merging' = [merging EXCEPT ![p] = [tx |-> t, step |-> "checked"]]
  /\ UNCHANGED <<chain, ledger, pool, core, block, freed, reverted>>

Weigh(p) ==
  /\ merging[p].step = "checked"
  /\ merging' = [merging EXCEPT ![p].step =
       IF Affordable(merging[p].tx) THEN "fits" ELSE "overspends"]
  /\ UNCHANGED <<chain, ledger, pool, core, block, freed, reverted>>

\* A seeded bug: the lock is taken, but what the pool holds is not read again.
Joined(t) == Append(pool, t)

\* The append, under the lock.
JoinedOnce(t) == IF t.id \in Pooled THEN pool ELSE Append(pool, t)

\* purge_txs_of_sender.
Purged(s) == Among(pool, {t \in Txs : t.sender # s})

\* The block thread has dealt with the transaction it was reinserting.
NextFreed(p) ==
  IF p = "core"
  THEN /\ freed' = Tail(freed)
       /\ core' = IF Len(freed) = 1 THEN "loop" ELSE core
  ELSE UNCHANGED <<freed, core>>

Settle(p) ==
  LET t == merging[p].tx IN
  /\ \/ merging[p].step = "fits" /\ pool' = JoinedOnce(t)
     \/ merging[p].step = "overspends" /\ pool' = Purged(t.sender)
  /\ merging' = [merging EXCEPT ![p] = NoMerge]
  /\ NextFreed(p)
  /\ UNCHANGED <<chain, ledger, block, reverted>>

(***************************************************************************)
(* The block thread, between two blocks: transactions that were mined      *)
(* leave the pool, and the cheapest ones when it holds too many bytes.     *)
(***************************************************************************)
FeeExempt(t) == t.kind \in {"unbond", "withdraw"}

\* cull_buffer: the ordinary transactions that go, cheapest first.
Surplus(s) ==
  LET ordinary == {i \in DOMAIN s : ~FeeExempt(s[i])}
      Before(i, j) == \/ s[i].fee < s[j].fee
                      \/ s[i].fee = s[j].fee /\ i < j
  IN  {i \in ordinary :
         Cardinality({j \in ordinary : Before(j, i)}) < Len(s) - PoolMaxBytes}

Culled ==
  LET kept == Among(pool, {t \in Txs : t.id \notin ledger.mined})
      drop == {kept[i].id : i \in Surplus(kept)}
  IN  Among(kept, {t \in Txs : t.id \notin drop})

Cull ==
  /\ core = "loop" /\ Len(Culled) < Len(pool)
  /\ pool' = Culled
  /\ UNCHANGED <<chain, ledger, merging, core, block, freed, reverted>>

(***************************************************************************)
(* A candidate is filled from the pool: what is valid at the next height   *)
(* and within the means of its sender and of the escrow, in the order of   *)
(* the pool; of that, what may land there; of two that clash, the lower.   *)
(***************************************************************************)
\* A seeded bug: each transaction is held against the whole parent balance.
SelectedEach ==
  Among(pool, {t \in Txs : /\ t.id \notin ledger.mined /\ Valid(ledger, t)
                           /\ WithinMeans(ledger, <<t>>)})

Chosen(chosen, t) ==
  IF /\ t.id \notin ledger.mined /\ Valid(ledger, t)
     /\ WithinMeans(ledger, Append(chosen, t))
  THEN Append(chosen, t) ELSE chosen

\* _candidate_pool.
Selected ==
  LET chosen[i \in 0 .. Len(pool)] ==
        IF i = 0 THEN <<>> ELSE Chosen(chosen[i - 1], pool[i])
  IN  chosen[Len(pool)]

\* A seeded bug: a transaction is not due at the last height of its window.
MatchedEarly(s, h) ==
  LET due == {t \in ToSet(s) : t.lands.min <= h /\ h < t.lands.max}
  IN  {t \in due : \A u \in due : Clash(t, u) => t.id <= u.id}

\* match_transactions_target and dedupe_reserved.
Matched(s, h) ==
  LET due == {t \in ToSet(s) : LandsAt(t, h)}
  IN  {t \in due : \A u \in due : Clash(t, u) => t.id <= u.id}

Candidate == InIdOrder(Matched(Selected, Tip + 1))

Build ==
  /\ core = "loop" /\ Tip < MaxHeight
  /\ block' = [own |-> TRUE, txs |-> Candidate]
  /\ core' = "built"
  /\ UNCHANGED <<chain, ledger, pool, merging, freed, reverted>>

\* A peer's block, of an honest peer.
Receive ==
  /\ core = "loop" /\ Tip < MaxHeight
  /\ \E S \in SUBSET Txs :
       /\ BodyOk(ledger, InIdOrder(S), Tip + 1)
       /\ block' = [own |-> FALSE, txs |-> InIdOrder(S)]
  /\ core' = "built"
  /\ UNCHANGED <<chain, ledger, pool, merging, freed, reverted>>

\* validate_transactions_in_block takes the block's transactions out of the
\* pool...
Evict ==
  /\ core = "built"
  /\ LET in == {t.id : t \in ToSet(block.txs)}
     IN  pool' = Among(pool, {t \in Txs : t.id \notin in})
  /\ core' = "evicted"
  /\ UNCHANGED <<chain, ledger, merging, block, freed, reverted>>

\* A node that made the block itself then looks for outdated transactions.
Finish ==
  /\ core' = IF block.own THEN "tidy" ELSE "loop"
  /\ block' = NoBlock

\* ...before incorporate_block commits it, if no transaction raises...
Commit ==
  /\ core = "evicted" /\ ~Raises(ledger, block.txs, Tip + 1)
  /\ chain' = Append(chain, [txs |-> block.txs, before |-> ledger])
  /\ ledger' = Applied(ledger, block.txs, Tip + 1)
  /\ Finish
  /\ UNCHANGED <<pool, merging, freed, reverted>>

\* ...or it is not: it raises, a proof it needs is not there yet, the disk is
\* full.
Fail ==
  /\ core = "evicted"
  /\ Finish
  /\ UNCHANGED <<chain, ledger, pool, merging, freed, reverted>>

\* remove_outdated_transactions.
Tidy ==
  /\ core = "tidy"
  /\ pool' = Among(pool, {t \in Txs :
       Tip < t.lands.max /\ t.lands.max < Tip + LandingWindow})
  /\ core' = "loop"
  /\ UNCHANGED <<chain, ledger, merging, block, freed, reverted>>

(***************************************************************************)
(* The reorg leg takes the tip off and merges its transactions again.      *)
(***************************************************************************)
RollBack ==
  /\ core = "loop" /\ Tip > 0
  /\ Cardinality(reverted) < MaxRollbacks
  /\ chain' = Front(chain) /\ ledger' = Last(chain).before
  /\ freed' = Last(chain).txs
  /\ reverted' = reverted \cup ToSet(freed')
  /\ core' = IF freed' = <<>> THEN "loop" ELSE "reinsert"
  /\ UNCHANGED <<pool, merging, block>>

Reinsert ==
  /\ core = "reinsert" /\ merging["core"] = NoMerge
  /\ IF Admissible(Head(freed))
     THEN /\ merging' = [merging EXCEPT !["core"] =
                           [tx |-> Head(freed), step |-> "checked"]]
          /\ UNCHANGED <<freed, core>>
     ELSE NextFreed("core") /\ UNCHANGED merging
  /\ UNCHANGED <<chain, ledger, pool, block, reverted>>

Next ==
  \/ \E p \in Handlers, t \in Txs : Admit(p, t)
  \/ \E p \in Threads : Weigh(p) \/ Settle(p)
  \/ Cull \/ Build \/ Receive \/ Evict \/ Commit \/ Fail \/ Tidy
  \/ RollBack \/ Reinsert

Spec == Init /\ [][Next]_vars

-----------------------------------------------------------------------------
\* The cap on the pool is looked at when a merge begins, so that every thread
\* may add one transaction to a pool that has since been filled.
TypeOK ==
  /\ chain \in Seq([txs: Seq(Txs), before: Ledgers]) /\ Tip <= MaxHeight
  /\ ledger \in Ledgers
  /\ pool \in Seq(Txs) /\ Len(pool) < PoolMaxTxs + Cardinality(Threads)
  /\ \A p \in Threads :
       \/ merging[p] = NoMerge
       \/ merging[p] \in [tx: Txs, step: {"checked", "fits", "overspends"}]
  /\ core \in {"loop", "built", "evicted", "tidy", "reinsert"}
  /\ block \in [own: BOOLEAN, txs: Seq(Txs)]
  /\ freed \in Seq(Txs) /\ reverted \subseteq Txs
  /\ core = "reinsert" <=> freed # <<>>

\* The pool never holds a transaction twice, whichever threads merge it and
\* while the block thread puts another pool in its place: "double-accept /
\* lost-append races" is what the lock in merge_transaction is for.
PoolUnique ==
  \A i, j \in DOMAIN pool : pool[i].id = pool[j].id => i = j

\* A node's own candidate passes the verification it is put to next, whatever
\* rivals, stale and unaffordable transactions the pool had gathered by races,
\* blocks and reorgs: "verify_block's whole-block spending check cannot abort
\* our own candidate" (_candidate_pool); a failure costs the production slot.
CandidateStands ==
  core = "built" /\ block.own => BodyOk(ledger, block.txs, Tip + 1)

\* What of the pool is still to be mined.
Mineable == Among(pool, {t \in Txs : t.id \notin ledger.mined /\ Valid(ledger, t)})

\* Of a pool whose valid transactions are within the means of their senders,
\* all that may land at the next height are in the candidate, but for those
\* that clash with one that is: every node with the same pool makes the same
\* block, and no transaction waits for its last height only to miss it.
CandidateFull ==
  [][Build /\ WithinMeans(ledger, Mineable) =>
       \A t \in ToSet(Mineable) :
         LandsAt(t, Tip + 1) =>
           \E u \in ToSet(block'.txs) : u = t \/ Clash(t, u)]_vars

\* A transaction that is already pooled is "a benign success, not an error"
\* (merge_transaction): merging it again leaves its sender's others alone.
DuplicateIsBenign ==
  \A p \in Handlers :
    merging[p].step = "overspends" => merging[p].tx.id \notin Pooled

\* A reorg re-mines the transactions it takes off the chain and never drops
\* them (_rollback_one_for_reorg), where no other thread interferes.
ReorgKeepsTxs ==
  core = "loop" =>
    \A t \in reverted : \/ t.id \in ledger.mined \cup Pooled
                        \/ t.lands.max <= Tip
=============================================================================
