------------------------------- MODULE MCLedger -------------------------------
(***************************************************************************)
(* What the model-checking worlds of Ledger share: two accounts,           *)
(* constructors for signed transactions, and an empty ledger.              *)
(***************************************************************************)
EXTENDS LedgerInv

CONSTANTS alice, bob

MCAccounts == {alice, bob}

At(h)    == [min |-> h, max |-> h]
In(g, h) == [min |-> g, max |-> h]

TransferTx(id, from, to, n, window) ==
  [kind |-> "transfer", id |-> id, sender |-> from, to |-> to, amount |-> n,
   fee |-> MinFee, lands |-> window]
BondTx(id, from, n, h) ==
  [kind |-> "bond", id |-> id, sender |-> from, amount |-> n, fee |-> MinFee,
   lands |-> At(h)]
UnbondTx(id, from, n, h) ==
  [kind |-> "unbond", id |-> id, sender |-> from, amount |-> n, fee |-> 0,
   lands |-> At(h)]
WithdrawTx(id, from, n, release, h) ==
  [kind |-> "withdraw", id |-> id, sender |-> from, claims |-> n,
   release |-> release, amount |-> 0, fee |-> 0, lands |-> At(h)]
SlashTx(id, from, offender, proof, slot, h) ==
  [kind |-> "slash", id |-> id, sender |-> from, offender |-> offender,
   proof |-> proof, slot |-> slot, amount |-> 0, fee |-> 0, lands |-> At(h)]

LockTx(id, from, claimant, n, lock, expiry, h) ==
  [kind |-> "htlc_lock", id |-> id, sender |-> from, claimant |-> claimant,
   amount |-> n, hashlock |-> lock, expiry |-> expiry, fee |-> MinFee,
   lands |-> At(h)]
ClaimTx(id, from, swap, secret, h) ==
  [kind |-> "htlc_claim", id |-> id, sender |-> from, swap |-> swap,
   preimage |-> secret, amount |-> 0, fee |-> 0, lands |-> At(h)]
RefundTx(id, from, swap, h) ==
  [kind |-> "htlc_refund", id |-> id, sender |-> from, swap |-> swap,
   amount |-> 0, fee |-> 0, lands |-> At(h)]

\* A ledger with these balances and bonds, and no other row.
LedgerWith(balance, bonded) ==
  [balance   |-> balance,
   earned    |-> [a \in Accounts |-> 0],
   bonded    |-> bonded,
   since     |-> [a \in Accounts |-> NONE],
   prior     |-> [i \in TxIds |-> NONE],
   unbonding |-> [a \in Accounts |-> NONE],
   slashed   |-> {},
   swaps     |-> [i \in TxIds |-> NONE],
   mined     |-> {},
   inflow    |-> [e \in 0 .. Epoch(MaxHeight) |-> 0],
   burned    |-> [h \in Heights |-> 0],
   produced  |-> 0, fees |-> 0]

Balances(each, treasury) ==
  [a \in Holders |-> IF a \in Accounts THEN each
                     ELSE IF a = "treasury" THEN treasury ELSE 0]

=============================================================================
