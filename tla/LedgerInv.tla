------------------------------ MODULE LedgerInv ------------------------------
(***************************************************************************)
(* The inductive invariant of Ledger.                                      *)
(*                                                                         *)
(* A rollback recomputes the ledger backwards, so that it is exact only    *)
(* if every step backwards undoes a step that was taken forwards.  The     *)
(* invariant says so: the history of every block of the chain is a run of  *)
(* Reflect whose every step found the rows it overwrites in the state its  *)
(* inverse restores, the histories are linked by Seal, and a rollback is   *)
(* somewhere on the history of the tip.                                    *)
(*                                                                         *)
(* Slash markers are the one place where a rollback leaves its history:    *)
(* two transactions of one block can set the same marker, and the first    *)
(* one undone clears it for both.  The markers are right again when the    *)
(* whole block is undone, because none of them was there before it.        *)
(***************************************************************************)
EXTENDS Ledger

CleanBody(body) ==
  \A i, j \in DOMAIN body :
    i # j => body[i].id # body[j].id /\ ~Clash(body[i], body[j])

\* `path' is what the ledger went through while `body' was applied at h.
IsRun(path, body, h) ==
  /\ path \in Seq(Ledgers) /\ 1 <= Len(path) /\ Len(path) <= Len(body) + 1
  /\ \A i \in 1 .. Len(path) :
       /\ Fresh(path[i]) /\ Unburned(path[i], h)
       /\ \A j \in i .. Len(body) : Applicable(path[i], body[j])
  /\ \A i \in 1 .. Len(path) - 1 : path[i + 1] = Reflect(path[i], body[i], h)
  /\ \A j \in 1 .. Len(body) : path[1].slashed \cap Offences(body[j]) = {}

FullRun(path, b, h) ==
  IsRun(path, b.txs, h) /\ Len(path) = Len(b.txs) + 1 /\ CleanBody(b.txs)

LedgerAfter(h) == IF h < Tip THEN trace[h + 1][1] ELSE ledger

OffencesFrom(body, i) == UNION {Offences(body[j]) : j \in i .. Len(body)}

Settles == Fresh(ledger) /\ Unburned(ledger, Tip + 1)

History ==
  \A h \in 1 .. Tip :
    /\ FullRun(trace[h], chain[h], h)
    /\ LedgerAfter(h) = Seal(trace[h][Len(trace[h])], chain[h], h)

Incorporating ==
  op = "incorporate" =>
    /\ Tip < MaxHeight
    /\ IsRun(steps, block.txs, Tip + 1) /\ CleanBody(block.txs)
    /\ Len(steps) = at + 1
    /\ steps[1] = ledger /\ txn = steps[at + 1]

RollingBack ==
  op = "rollback" =>
    /\ Tip > 0 /\ Tip - 1 >= finalized
    /\ block = chain[Tip]
    /\ txn = Without(trace[Tip][at + 1], OffencesFrom(block.txs, at + 1))

\* The history of every block on the chain can be walked back step by step,
\* and a rollback in progress is on the history of the tip (index_transactions
\* and unindex_transactions are inverse to each other).
Reversible ==
  /\ TypeOK /\ Tip <= MaxHeight
  /\ Settles /\ History /\ Incorporating /\ RollingBack

-----------------------------------------------------------------------------
(***************************************************************************)
(* What the rows of the ledger say of the chain.  Replays, withdrawals and *)
(* settlements are refused by looking at a row (tx index, pending unbond,  *)
(* swap), never at the chain; they are safe only if every row has the      *)
(* history it stands for, after every block and in the middle of one.      *)
(*                                                                         *)
(* A history is a set of entries: which transaction was applied at which   *)
(* height, and where in the block.                                         *)
(***************************************************************************)
Entries(body, n, h) == {[tx |-> body[i], at |-> h, ix |-> i] : i \in 1 .. n}
Done(h) == UNION {Entries(chain[g].txs, Len(chain[g].txs), g) : g \in 1 .. h}

Withdraws(d, a) == d.tx.kind = "withdraw" /\ d.tx.sender = a
Settling(d, s)  == Releases(d.tx) /\ d.tx.swap = s

\* The tx index lists the history, in which each txid occurs once.
IndexIs(L, D) ==
  /\ L.mined = {d.tx.id : d \in D}
  /\ \A d, e \in D : d.tx.id = e.tx.id => d = e

\* A pending unbond was asked for and not withdrawn since.
Asked(p, a, D) ==
  \E u \in D : /\ u.tx.kind = "unbond" /\ u.tx.sender = a
               /\ u.tx.amount = p.amount /\ u.at + BondUnlockDelay = p.release
               /\ \A x \in D : Withdraws(x, a) => x.at <= u.at

\* A withdrawal was asked for, matured, and is the first one since.
Matured(w, D) ==
  \E u \in D : /\ u.tx.kind = "unbond" /\ u.tx.sender = w.tx.sender
               /\ u.tx.amount = w.tx.claims /\ u.at + BondUnlockDelay <= w.at
               /\ \A x \in D : Withdraws(x, w.tx.sender) /\ x.at > u.at => x.at >= w.at

UnbondsAre(L, D) ==
  /\ \A a \in Accounts : L.unbonding[a] # NONE => Asked(L.unbonding[a], a, D)
  /\ \A w \in D : w.tx.kind = "withdraw" => Matured(w, D)

\* The row of a swap says whether and how it was settled, and when it may be.
SwapIs(L, s, D) ==
  /\ \A d, e \in D : Settling(d, s) /\ Settling(e, s) => d = e
  /\ (\E d \in D : Settling(d, s) /\ d.tx.kind = "htlc_claim")
       <=> L.swaps[s] # NONE /\ L.swaps[s].status = "claimed"
  /\ (\E d \in D : Settling(d, s) /\ d.tx.kind = "htlc_refund")
       <=> L.swaps[s] # NONE /\ L.swaps[s].status = "refunded"
  /\ \A d \in D : Settling(d, s) =>
       IF d.tx.kind = "htlc_claim" THEN d.at < L.swaps[s].expiry
                                   ELSE d.at >= L.swaps[s].expiry

Explains(D, L) ==
  IndexIs(L, D) /\ UnbondsAre(L, D) /\ \A s \in TxIds : SwapIs(L, s, D)

\* A transaction still to be applied at h is on the right side of its delay.
Timely(L, t, h) ==
  /\ t.kind = "withdraw" => t.release <= h
  /\ t.kind = "htlc_claim" => h < L.swaps[t.swap].expiry
  /\ t.kind = "htlc_refund" => h >= L.swaps[t.swap].expiry

BodiesBounded ==
  /\ \A h \in 1 .. Tip : Len(chain[h].txs) <= MaxTxs
  /\ op = "incorporate" => Len(block.txs) <= MaxTxs

\* Every row of the committed ledger, of the ledgers a rollback leads back to
\* and of the open write transaction is explained by the blocks applied to it.
RowsExplained ==
  /\ BodiesBounded
  /\ \A h \in 0 .. Tip : Explains(Done(h), LedgerAfter(h))
  /\ op = "incorporate" =>
       /\ Explains(Done(Tip) \cup Entries(block.txs, at, Tip + 1), txn)
       /\ \A j \in at + 1 .. Len(block.txs) : Timely(txn, block.txs[j], Tip + 1)

-----------------------------------------------------------------------------
(***************************************************************************)
(* What the ledgers of the history have in common, whatever blocks led to  *)
(* them.  A rollback debits what a block paid out, so that it can raise    *)
(* only where a balance BEFORE the block was short: the property of the    *)
(* committed ledger alone would not do.                                    *)
(***************************************************************************)
Supply(L) == Coins(L) - (L.produced - L.fees)

\* What the escrow account owes for a swap.
Owed(L, s) == IF L.swaps[s] # NONE /\ L.swaps[s].status = "open"
              THEN L.swaps[s].amount ELSE 0
Escrowed(L) == L.balance["htlc"] >= SumOver(LAMBDA s : Owed(L, s), TxIds)

Sound(L) == Supply(L) = Supply(Genesis) /\ Solvent(L) /\ Escrowed(L)

\* The committed ledger and every ledger its blocks went through are sound,
\* and so is every ledger the block being applied went through.
CoinsAccounted ==
  /\ Sound(ledger)
  /\ \A h \in 1 .. Tip : \A i \in 1 .. Len(trace[h]) : Sound(trace[h][i])
  /\ \A i \in 1 .. Len(steps) : Sound(steps[i])

\* No burn of the chain took more than the treasury held BEFORE its own
\* block's share of the reward.
BurnsCovered ==
  \A h \in 1 .. Tip :
    ledger.burned[h] <= trace[h][Len(trace[h])].balance["treasury"]

-----------------------------------------------------------------------------
(***************************************************************************)
(* What the verification of a block leaves to its transactions.  The sums  *)
(* of WithinMeans are over the whole body and the parent ledger; in the    *)
(* middle of the block they bound what is still to be paid.                *)
(***************************************************************************)
Affordable(L, body, n) ==
  LET rest == n + 1 .. Len(body)
  IN  /\ \A a \in Accounts :
           Total(BalanceCost, body, {i \in rest : body[i].sender = a}) <= L.balance[a]
      /\ Total(LAMBDA t : EscrowRelease(L, t), body, rest) <= L.balance["htlc"]
      /\ ~StakeContested(body) =>
           \A i \in rest : LET t == body[i]
                           IN  Loses(t) => L.bonded[Staker(t)]
                                             + StakeMove(t, Staker(t)) >= 0

\* The open write transaction can pay for what the block still has to do.
MeansLast == op = "incorporate" => Affordable(txn, block.txs, at)

-----------------------------------------------------------------------------
(***************************************************************************)
(* What the totals of the ledger say of the chain.  The counter of the     *)
(* destroyed coins and the age of a bond are updated in place, one step at *)
(* a time; that they are what the history makes them is known only from    *)
(* genesis on.                                                             *)
(***************************************************************************)
BondedBy(d, a) == d.tx.kind = "bond" /\ d.tx.sender = a

\* What was destroyed: the fees of D, the burns, and one penalty per offence.
Booked(L, D) ==
  L.fees = Genesis.fees
             + SumOver(LAMBDA d : d.tx.fee, D)
             + SumOver(LAMBDA h : L.burned[h], Heights)
             + SlashPenalty * Cardinality(L.slashed)

\* A stake that was not there at genesis has an age, which never says it was
\* there before its owner's first bond.
Aged(L, D) ==
  \A a \in Accounts : Genesis.bonded[a] <= 0 /\ L.bonded[a] > 0 =>
    /\ L.since[a] \in Nat \ {0}
    /\ \E d \in D : BondedBy(d, a) /\ Epoch(d.at) <= L.since[a]

Rooted == LedgerAfter(0) = Genesis

\* The chain starts at genesis, and its totals are those of its history.
TotalsExplained ==
  /\ Rooted
  /\ \A h \in 0 .. Tip :
       /\ NoTwinReports => Booked(LedgerAfter(h), Done(h))
       /\ LateTopUps => Aged(LedgerAfter(h), Done(h))

=============================================================================
