------------------------------ MODULE MCMempool ------------------------------
(***************************************************************************)
(* A small mempool world for TLC: alice and bob pay one another, two of    *)
(* bob's payments are more than he has, and alice asks twice for her bond  *)
(* to be unlocked at one height.                                           *)
(***************************************************************************)
EXTENDS Mempool

CONSTANTS alice, bob, h1, h2

MCAccounts == {alice, bob}
MCHandlers == {h1, h2}

Transfers(id, from, to, n, fee, first, last) ==
  [kind |-> "transfer", id |-> id, sender |-> from, to |-> to, amount |-> n,
   fee |-> fee, lands |-> [min |-> first, max |-> last]]
Unbonds(id, from, n, h) ==
  [kind |-> "unbond", id |-> id, sender |-> from, amount |-> n, fee |-> 0,
   lands |-> [min |-> h, max |-> h]]

PoolTxs ==
  { Transfers(1, alice, bob, 4, 1, 1, 2),
    Transfers(2, alice, bob, 3, 2, 1, 3),
    Unbonds(3, bob, 2, 2),
    Unbonds(4, bob, 1, 2),
    Transfers(5, bob, alice, 4, 1, 1, 3) }

PoolHeader == [lane |-> "open", creator |-> alice, reward |-> 0]

PoolGenesis ==
  [balance   |-> [a \in Holders |-> IF a \in Accounts THEN 5 ELSE 0],
   earned    |-> [a \in Accounts |-> 0],
   bonded    |-> [a \in Accounts |-> IF a = bob THEN 3 ELSE 0],
   since     |-> [a \in Accounts |-> NONE],
   prior     |-> [i \in TxIds |-> NONE],
   unbonding |-> [a \in Accounts |-> NONE],
   slashed   |-> {},
   swaps     |-> [i \in TxIds |-> NONE],
   mined     |-> {},
   inflow    |-> [e \in 0 .. Epoch(MaxHeight) |-> 0],
   burned    |-> [h \in Heights |-> 0],
   produced  |-> 0, fees |-> 0]

Alike == Permutations({h1, h2})

=============================================================================
