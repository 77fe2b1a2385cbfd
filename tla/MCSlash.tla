------------------------------- MODULE MCSlash -------------------------------
(***************************************************************************)
(* A small world of slashing and of the age of bonds for TLC: several      *)
(* reporters prove the same offence, the offender bonds and unbonds        *)
(* meanwhile, and its reporter bonds for the first time and tops up.       *)
(***************************************************************************)
EXTENDS MCLedger

\* alice signed two blocks of slot 1 and two votes of epoch 0, and both are
\* reported twice.  bob may bond at every height.
SlashTxs ==
  { SlashTx(1, bob, alice, "attestation", 0, 2),
    SlashTx(2, alice, alice, "attestation", 0, 2),
    SlashTx(3, bob, alice, "attestation", 0, 3),
    SlashTx(4, bob, alice, "authorship", 1, 3),
    SlashTx(5, alice, alice, "authorship", 1, 3),
    UnbondTx(6, alice, 4, 1),
    WithdrawTx(7, alice, 4, 3, 4),
    BondTx(8, alice, 3, 2),
    TransferTx(9, bob, alice, 1, In(1, 3)),
    BondTx(10, bob, 4, 1), BondTx(11, bob, 4, 2), BondTx(12, bob, 1, 3),
    BondTx(13, bob, 8, 4), BondTx(14, bob, 2, 5), BondTx(15, bob, 10, 6) }

SlashHeaders == {[lane |-> "bonded", creator |-> bob, reward |-> 20]}

SlashGenesis ==
  LedgerWith(Balances(40, 0), [a \in Accounts |-> IF a = alice THEN 7 ELSE 0])

=============================================================================
