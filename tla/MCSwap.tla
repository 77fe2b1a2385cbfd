-------------------------------- MODULE MCSwap --------------------------------
(***************************************************************************)
(* A small swap world for TLC: hashed time-locked payments in both         *)
(* directions, claimed and refunded around their expiry, beside a transfer *)
(* INTO the escrow account and a spend of what a claim paid out.           *)
(***************************************************************************)
EXTENDS MCLedger

CONSTANTS red, blue

\* The lock of 1 expires at 3 and the locks of 2 and 13 at 5: each can be
\* claimed up to the height before and refunded from then on.  The refund at
\* 2, the claim at 3, the claim with the wrong secret and the refund by the
\* claimant must be refused.
SwapTxs ==
  { LockTx(1, alice, bob, 3, red, 3, 1),
    LockTx(2, bob, alice, 2, blue, 5, 2),
    ClaimTx(3, bob, 1, red, 2),
    ClaimTx(4, bob, 1, red, 3),
    ClaimTx(5, bob, 1, blue, 2),
    RefundTx(6, alice, 1, 2),
    RefundTx(7, alice, 1, 3),
    RefundTx(8, bob, 1, 3),
    RefundTx(9, bob, 2, 5),
    ClaimTx(10, alice, 2, blue, 4),
    TransferTx(11, bob, alice, 6, In(2, 3)),
    TransferTx(12, alice, "htlc", 1, In(1, 2)),
    LockTx(13, alice, bob, 1, blue, 5, 3),
    ClaimTx(14, bob, 13, blue, 4),
    RefundTx(15, alice, 13, 5) }

SwapHeaders == {[lane |-> "open", creator |-> bob, reward |-> 10]}

SwapGenesis == LedgerWith(Balances(5, 0), [a \in Accounts |-> 0])

=============================================================================
