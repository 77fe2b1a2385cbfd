------------------------------- MODULE MCStake -------------------------------
(***************************************************************************)
(* A small stake world for TLC: two accounts, transfers and the life of a  *)
(* bond (bond, unbond, withdraw, slash).  Txids are chosen so that both    *)
(* orders of a withdrawal and a slash exist.                               *)
(***************************************************************************)
EXTENDS MCLedger

\* alice unbonds at height 1 or 2 and withdraws at 3 or 4; the withdrawals
\* with the wrong release height are refused; bob tops up and is slashed.
StakeTxs ==
  { TransferTx(1, alice, bob, 2, In(1, 3)),
    TransferTx(2, bob, alice, 5, In(2, 4)),
    UnbondTx(3, alice, 2, 1),
    UnbondTx(4, alice, 1, 2),
    WithdrawTx(5, alice, 2, 3, 3),
    WithdrawTx(6, alice, 2, 3, 4),
    WithdrawTx(7, alice, 1, 4, 4),
    SlashTx(8, bob, alice, "authorship", 1, 3),
    SlashTx(9, bob, alice, "authorship", 1, 4),
    BondTx(10, bob, 3, 2),
    BondTx(11, alice, 2, 3),
    SlashTx(12, alice, bob, "attestation", 0, 4) }

StakeHeaders ==
  { [lane |-> "open", creator |-> bob, reward |-> 10],
    [lane |-> "bonded", creator |-> alice, reward |-> 20] }

StakeGenesis ==
  LedgerWith(Balances(5, 20), [a \in Accounts |-> IF a = alice THEN 4 ELSE 0])

=============================================================================
