------------------------------ MODULE LedgerOps ------------------------------
(***************************************************************************)
(* The L1 ledger as a value, and the state transition of a block as        *)
(* operators on that value: what ops/account_ops.py, ops/transaction_ops.py*)
(* and ops/reward_ops.py do to the consensus sub-databases.                *)
(*                                                                         *)
(* A ledger is one record, the contents of the LMDB environment that a     *)
(* block can change.  For every kind of transaction there is the rule that *)
(* admits it against the PARENT ledger, its effect, and the effect's       *)
(* inverse that a rollback runs.  Nothing here is a state machine; module  *)
(* Ledger runs these operators one transaction at a time.                  *)
(*                                                                         *)
(* Amounts, heights and txids are naturals.  A hash is modelled by its     *)
(* preimage (sha256 is taken to be injective).                             *)
(***************************************************************************)
EXTENDS Integers, Sequences, FiniteSets, Functions

CONSTANTS
  Accounts,          \* keyed addresses: senders, validators, claimants
  Secrets,           \* preimages of hashlocks
  Txs,               \* the transactions that were ever signed
  NONE,              \* an absent row
  EpochLength,       \* protocol.EPOCH_LENGTH
  BondUnlockDelay,   \* protocol.BOND_UNLOCK_DELAY
  SlashPenalty,      \* protocol.SLASH_BOND_PENALTY, which is B_MIN
  MinFee,            \* protocol.MIN_TX_FEE
  HtlcMinTimelock,   \* protocol.HTLC_MIN_TIMELOCK
  HtlcMaxTimelock,   \* protocol.HTLC_MAX_TIMELOCK
  SpendPeriod,       \* protocol.TREASURY_SPEND_PERIOD
  BurnBps,           \* protocol.TREASURY_BURN_BPS, per BpsDenom
  BpsDenom,          \* protocol.BPS_DENOM
  TreasuryBps,       \* protocol.TREASURY_BPS
  OpenTipBps,        \* protocol.OPEN_TIP_BPS
  BondedDividendBps, \* protocol.BONDED_DIVIDEND_BPS
  RunwayFloor,       \* protocol.TREASURY_RUNWAY_FLOOR
  ActivationEpochs,  \* protocol.TREASURY_VOTE_ACTIVATION_EPOCHS
  MaxHeight          \* bound on the length of the chain

ASSUME BoundsAssumption ==
  /\ EpochLength \in Nat \ {0} /\ SpendPeriod \in Nat \ {0}
  /\ BpsDenom \in Nat \ {0}
  /\ {TreasuryBps, OpenTipBps, BondedDividendBps, BurnBps} \subseteq Nat
  /\ {BondUnlockDelay, SlashPenalty, MinFee, HtlcMinTimelock, HtlcMaxTimelock,
      RunwayFloor, ActivationEpochs, MaxHeight} \subseteq Nat

\* There is a penalty: B_MIN of the protocol.
ASSUME PenaltyAssumption == SlashPenalty > 0

\* The shares of a reward leave the producer, or the dividend, something; a
\* burn takes no more than there is.
ASSUME SharesAssumption ==
  /\ TreasuryBps + OpenTipBps <= BpsDenom
  /\ TreasuryBps + BondedDividendBps <= BpsDenom
  /\ BurnBps <= BpsDenom

Reserved == {"htlc", "dividend_pool", "treasury"}
Holders  == Accounts \cup Reserved
Heights  == 1 .. MaxHeight
Epoch(h) == h \div EpochLength

(***************************************************************************)
(* Transactions.  `lands` is the window of heights a transaction may be    *)
(* mined at: a plain transfer lands anywhere in [min_block, max_block],    *)
(* every other kind exactly at max_block.                                  *)
(***************************************************************************)
Window   == [min: Nat, max: Nat]
Transfer == [kind: {"transfer"}, id: Nat, sender: Accounts, to: Holders,
             amount: Nat, fee: Nat, lands: Window]
Bond     == [kind: {"bond"}, id: Nat, sender: Accounts, amount: Nat, fee: Nat,
             lands: Window]
Unbond   == [kind: {"unbond"}, id: Nat, sender: Accounts, amount: Nat,
             fee: {0}, lands: Window]
Withdraw == [kind: {"withdraw"}, id: Nat, sender: Accounts, claims: Nat,
             release: Nat, amount: {0}, fee: {0}, lands: Window]
Slash    == [kind: {"slash"}, id: Nat, sender: Accounts, offender: Accounts,
             proof: {"authorship", "attestation"}, slot: Nat,
             amount: {0}, fee: {0}, lands: Window]
Lock     == [kind: {"htlc_lock"}, id: Nat, sender: Accounts,
             claimant: Accounts, hashlock: Secrets, expiry: Nat,
             amount: Nat, fee: Nat, lands: Window]
Claim    == [kind: {"htlc_claim"}, id: Nat, sender: Accounts, swap: Nat,
             preimage: Secrets, amount: {0}, fee: {0}, lands: Window]
Refund   == [kind: {"htlc_refund"}, id: Nat, sender: Accounts, swap: Nat,
             amount: {0}, fee: {0}, lands: Window]

Transaction == Transfer \cup Bond \cup Unbond \cup Withdraw \cup Slash
                 \cup Lock \cup Claim \cup Refund

TxIds == {t.id : t \in Txs}

\* A txid is the hash of the body, so it determines the transaction; the
\* reserved names are not addresses; an absent row is none of the values.
ASSUME TxsAssumption ==
  /\ Txs \subseteq Transaction
  /\ \A t, u \in Txs : t.id = u.id => t = u
ASSUME HoldersAssumption == Accounts \cap Reserved = {}
ASSUME FiniteAssumption == IsFiniteSet(Accounts) /\ IsFiniteSet(Txs)

(***************************************************************************)
(* The ledger.                                                             *)
(***************************************************************************)
Pending == [amount: Nat, release: Nat]
Swap    == [sender: Accounts, claimant: Accounts, amount: Nat,
            hashlock: Secrets, expiry: Nat,
            status: {"open", "claimed", "refunded"},
            preimage: Secrets \cup {NONE}]
ASSUME NoneAssumption == NONE \notin Nat \cup Pending \cup Swap \cup Secrets

Offence == [offender: Accounts, proof: {"authorship", "attestation"}, slot: Nat]

Ledgers ==
  [balance:   [Holders -> Int],
   earned:    [Accounts -> Int],                 \* the `produced` field
   bonded:    [Accounts -> Int],
   since:     [Accounts -> Nat \cup {NONE}],     \* bond_since: bond age epoch
   prior:     [TxIds -> Nat \cup {NONE}],        \* bond_since_revert journal
   unbonding: [Accounts -> Pending \cup {NONE}], \* unbonds
   slashed:   SUBSET Offence,                    \* slash:<address>:<height>
   swaps:     [TxIds -> Swap \cup {NONE}],       \* htlcs
   mined:     SUBSET TxIds,                      \* the tx index
   inflow:    [0 .. Epoch(MaxHeight) -> Int],    \* divinflow:<epoch>
   burned:    [Heights -> Int],                  \* tburn:<height>
   produced:  Int,                               \* totals.produced
   fees:      Int]                               \* totals.fees

Add(f, x, n) == [f EXCEPT ![x] = @ + n]
OffenceOf(t) == [offender |-> t.offender, proof |-> t.proof, slot |-> t.slot]
Offences(t)  == IF t.kind = "slash" THEN {OffenceOf(t)} ELSE {}

(***************************************************************************)
(* The admission rules, each against the parent ledger L for a block of    *)
(* height h.                                                               *)
(***************************************************************************)
LandsFlexibly(t) == t.kind = "transfer" /\ t.to \in Accounts

LandsAt(t, h) ==
  IF LandsFlexibly(t) THEN t.lands.min <= h /\ h <= t.lands.max
                      ELSE h = t.lands.max

ValidUnbond(L, t) ==
  /\ 0 < t.amount /\ t.amount <= L.bonded[t.sender]
  /\ L.unbonding[t.sender] = NONE

ValidWithdraw(L, t) ==
  LET pending == L.unbonding[t.sender]
  IN  /\ pending # NONE
      /\ t.lands.max >= pending.release
      /\ t.claims = pending.amount /\ t.release = pending.release
      /\ L.bonded[t.sender] >= pending.amount

\* A seeded bug: no replay guard on offences.
ValidSlashAgain(L, t) == L.bonded[t.offender] >= SlashPenalty

ValidSlash(L, t) ==
  /\ OffenceOf(t) \notin L.slashed
  /\ L.bonded[t.offender] >= SlashPenalty

ValidLock(t) ==
  /\ t.amount > 0 /\ t.fee >= MinFee
  /\ t.claimant # t.sender
  /\ t.lands.max + HtlcMinTimelock <= t.expiry
  /\ t.expiry <= t.lands.max + HtlcMaxTimelock

\* A seeded bug: a swap that was settled still passes for open.
SwapExists(L, t) == t.swap \in TxIds /\ L.swaps[t.swap] # NONE

IsOpen(L, t) ==
  /\ t.swap \in TxIds
  /\ L.swaps[t.swap] # NONE
  /\ L.swaps[t.swap].status = "open"

ValidClaim(L, t) ==
  /\ IsOpen(L, t)
  /\ LET swap == L.swaps[t.swap]
     IN  /\ t.sender = swap.claimant
         /\ t.lands.max < swap.expiry
         /\ t.preimage = swap.hashlock

\* A seeded bug: a refund need not wait for the expiry.
ValidEarlyRefund(L, t) == IsOpen(L, t) /\ t.sender = L.swaps[t.swap].sender

ValidRefund(L, t) ==
  /\ IsOpen(L, t)
  /\ t.sender = L.swaps[t.swap].sender
  /\ t.lands.max >= L.swaps[t.swap].expiry

Valid(L, t) ==
  \/ t.kind \in {"transfer", "bond"} /\ t.fee >= MinFee
  \/ t.kind = "unbond"      /\ ValidUnbond(L, t)
  \/ t.kind = "withdraw"    /\ ValidWithdraw(L, t)
  \/ t.kind = "slash"       /\ ValidSlash(L, t)
  \/ t.kind = "htlc_lock"   /\ ValidLock(t)
  \/ t.kind = "htlc_claim"  /\ ValidClaim(L, t)
  \/ t.kind = "htlc_refund" /\ ValidRefund(L, t)

(***************************************************************************)
(* Two transactions share a reserved-uniqueness key, so that no block may  *)
(* carry both.  The key of a slash is read off the fields of an authorship *)
(* proof; an attestation proof has none of them and falls back to          *)
(* ("malformed", txid), which clashes with nothing.                        *)
(***************************************************************************)
Clash(t, u) ==
  \/ /\ t.kind = u.kind /\ t.kind \in {"withdraw", "unbond"}
     /\ t.sender = u.sender
  \/ /\ t.kind = "slash" /\ u.kind = "slash"
     /\ t.proof = "authorship" /\ u.proof = "authorship"
     /\ t.offender = u.offender /\ t.slot = u.slot
  \/ /\ t.kind \in {"htlc_claim", "htlc_refund"}
     /\ u.kind \in {"htlc_claim", "htlc_refund"}
     /\ t.swap = u.swap

BalanceCost(t) == IF t.kind = "unbond" THEN t.fee ELSE t.amount + t.fee
BondedCost(t)  == IF t.kind = "unbond" THEN t.amount ELSE 0

EscrowRelease(L, t) ==
  IF t.kind \in {"htlc_claim", "htlc_refund"} /\ IsOpen(L, t)
  THEN L.swaps[t.swap].amount ELSE 0

Total(Cost(_), body, I) == SumFunction([i \in I |-> Cost(body[i])])

\* A seeded bug: every transaction is held against the whole parent balance.
EachWithinMeans(L, body) ==
  \A i \in DOMAIN body : /\ BalanceCost(body[i]) <= L.balance[body[i].sender]
                         /\ BondedCost(body[i]) <= L.bonded[body[i].sender]
                         /\ EscrowRelease(L, body[i]) <= L.balance["htlc"]

WithinMeans(L, body) ==
  /\ \A a \in Accounts :
       LET I == {i \in DOMAIN body : body[i].sender = a}
       IN  /\ Total(BalanceCost, body, I) <= L.balance[a]
           /\ Total(BondedCost, body, I) <= L.bonded[a]
  /\ Total(LAMBDA t : EscrowRelease(L, t), body, DOMAIN body)
       <= L.balance["htlc"]

InTxidOrder(body) ==
  \A i, j \in DOMAIN body : i < j => body[i].id < body[j].id

\* A seeded bug: no check against the tx index.
BodyOkReplayed(L, body, h) ==
  /\ InTxidOrder(body)
  /\ \A i \in DOMAIN body : LandsAt(body[i], h) /\ Valid(L, body[i])
  /\ \A i, j \in DOMAIN body : i # j => ~Clash(body[i], body[j])
  /\ WithinMeans(L, body)

BodyOk(L, body, h) ==
  /\ InTxidOrder(body)
  /\ \A i \in DOMAIN body : /\ LandsAt(body[i], h)
                            /\ body[i].id \notin L.mined
                            /\ Valid(L, body[i])
  /\ \A i, j \in DOMAIN body : i # j => ~Clash(body[i], body[j])
  /\ WithinMeans(L, body)

(***************************************************************************)
(* Effects.  A transaction moves coins from a payer to a payee and moves   *)
(* stake of one account; applying adds the moves and reverting subtracts   *)
(* them (change_balance, change_bonded).  A balance or a stake is never    *)
(* driven below zero: the code raises instead, and Fits says it does not.  *)
(* The rows that are overwritten (bond age, pending unbond, swap, slash    *)
(* marker) have an inverse of their own.                                   *)
(***************************************************************************)
Releases(t) == t.kind \in {"htlc_claim", "htlc_refund"}

Payer(t) == IF Releases(t) THEN "htlc" ELSE t.sender

Pays(L, t) ==
  IF t.kind \in {"transfer", "bond", "htlc_lock"} THEN t.amount + t.fee
  ELSE IF Releases(t) THEN L.swaps[t.swap].amount ELSE 0

Payee(L, t) ==
  IF t.kind = "transfer" THEN t.to
  ELSE IF t.kind = "htlc_lock" THEN "htlc"
  ELSE IF t.kind = "htlc_claim" THEN L.swaps[t.swap].claimant
  ELSE IF t.kind = "htlc_refund" THEN L.swaps[t.swap].sender
  ELSE t.sender

Receives(L, t) ==
  IF t.kind \in {"transfer", "htlc_lock"} THEN t.amount
  ELSE IF Releases(t) THEN L.swaps[t.swap].amount
  ELSE IF t.kind = "withdraw" THEN t.claims ELSE 0

CoinMove(L, t, a) ==
  (IF a = Payee(L, t) THEN Receives(L, t) ELSE 0)
    - (IF a = Payer(t) THEN Pays(L, t) ELSE 0)

Staker(t) == IF t.kind = "slash" THEN t.offender ELSE t.sender

StakeMove(t, a) ==
  IF a # Staker(t) THEN 0
  ELSE IF t.kind = "bond" THEN t.amount
  ELSE IF t.kind = "withdraw" THEN -t.claims
  ELSE IF t.kind = "slash" THEN -SlashPenalty ELSE 0

\* A seeded bug: a slashed stake is not booked as burned.
FeeOnly(t) == t.fee

\* The coins a transaction destroys: its fee and a slashed stake.
Destroys(t) == t.fee + (IF t.kind = "slash" THEN SlashPenalty ELSE 0)

Fits(L, t) ==
  /\ L.balance[Payer(t)] >= Pays(L, t)
  /\ L.bonded[Staker(t)] + StakeMove(t, Staker(t)) >= 0

\* A seeded bug: a first bond is blended like a top-up, which records epoch 0.
BlendedAge(L, t, h) ==
  LET age == IF L.since[t.sender] = NONE THEN 0 ELSE L.since[t.sender]
  IN  (L.bonded[t.sender] * age + t.amount * Epoch(h))
        \div (L.bonded[t.sender] + t.amount)

BondAge(L, t, h) ==
  LET old == L.bonded[t.sender]
      age == IF L.since[t.sender] = NONE THEN 0 ELSE L.since[t.sender]
  IN  IF old <= 0
      THEN IF Epoch(h) > 1 THEN Epoch(h) ELSE 1
      ELSE (old * age + t.amount * Epoch(h)) \div (old + t.amount)

Opened(t) ==
  [sender |-> t.sender, claimant |-> t.claimant, amount |-> t.amount,
   hashlock |-> t.hashlock, expiry |-> t.expiry, status |-> "open",
   preimage |-> NONE]

Settled(swap, status, preimage) ==
  [sender |-> swap.sender, claimant |-> swap.claimant, amount |-> swap.amount,
   hashlock |-> swap.hashlock, expiry |-> swap.expiry, status |-> status,
   preimage |-> preimage]

SinceAfter(L, t, h) ==
  IF t.kind = "bond" THEN [L.since EXCEPT ![t.sender] = BondAge(L, t, h)]
  ELSE L.since

PriorAfter(L, t) ==
  IF t.kind = "bond" THEN [L.prior EXCEPT ![t.id] = L.since[t.sender]]
  ELSE L.prior

\* A seeded bug: a withdrawal leaves its request behind.
UnbondingKept(L, t, h) ==
  IF t.kind = "unbond"
  THEN [L.unbonding EXCEPT ![t.sender] =
          [amount |-> t.amount, release |-> h + BondUnlockDelay]]
  ELSE L.unbonding

UnbondingAfter(L, t, h) ==
  IF t.kind = "unbond"
  THEN [L.unbonding EXCEPT ![t.sender] =
          [amount |-> t.amount, release |-> h + BondUnlockDelay]]
  ELSE IF t.kind = "withdraw" THEN [L.unbonding EXCEPT ![t.sender] = NONE]
  ELSE L.unbonding

SwapsAfter(L, t) ==
  IF t.kind = "htlc_lock" THEN [L.swaps EXCEPT ![t.id] = Opened(t)]
  ELSE IF t.kind = "htlc_claim"
  THEN [L.swaps EXCEPT ![t.swap] = Settled(L.swaps[t.swap], "claimed", t.preimage)]
  ELSE IF t.kind = "htlc_refund"
  THEN [L.swaps EXCEPT ![t.swap] = Settled(L.swaps[t.swap], "refunded", NONE)]
  ELSE L.swaps

Reflect(L, t, h) ==
  [balance   |-> [a \in Holders |-> L.balance[a] + CoinMove(L, t, a)],
   bonded    |-> [a \in Accounts |-> L.bonded[a] + StakeMove(t, a)],
   since     |-> SinceAfter(L, t, h),
   prior     |-> PriorAfter(L, t),
   unbonding |-> UnbondingAfter(L, t, h),
   slashed   |-> L.slashed \cup Offences(t),
   swaps     |-> SwapsAfter(L, t),
   mined     |-> L.mined \cup {t.id},
   fees      |-> L.fees + Destroys(t),
   earned    |-> L.earned, inflow |-> L.inflow,
   burned    |-> L.burned, produced |-> L.produced]

(***************************************************************************)
(* The inverse.  A rollback takes the moves in the same order with their   *)
(* signs flipped: it refunds the payer, then debits the payee.             *)
(***************************************************************************)
UndoFits(L, t) ==
  /\ L.balance[Payee(L, t)]
       + (IF Payee(L, t) = Payer(t) THEN Pays(L, t) ELSE 0) >= Receives(L, t)
  /\ L.bonded[Staker(t)] - StakeMove(t, Staker(t)) >= 0

SinceBefore(L, t) ==
  IF t.kind = "bond" THEN [L.since EXCEPT ![t.sender] = L.prior[t.id]]
  ELSE L.since

PriorBefore(L, t) ==
  IF t.kind = "bond" THEN [L.prior EXCEPT ![t.id] = NONE] ELSE L.prior

UnbondingBefore(L, t) ==
  IF t.kind = "unbond" THEN [L.unbonding EXCEPT ![t.sender] = NONE]
  ELSE IF t.kind = "withdraw"
  THEN [L.unbonding EXCEPT ![t.sender] = [amount |-> t.claims, release |-> t.release]]
  ELSE L.unbonding

\* A seeded bug: undoing a claim keeps the revealed secret.
SwapsStillRevealed(L, t) ==
  IF t.kind = "htlc_lock" THEN [L.swaps EXCEPT ![t.id] = NONE]
  ELSE IF Releases(t)
  THEN [L.swaps EXCEPT ![t.swap] =
          Settled(L.swaps[t.swap], "open", L.swaps[t.swap].preimage)]
  ELSE L.swaps

SwapsBefore(L, t) ==
  IF t.kind = "htlc_lock" THEN [L.swaps EXCEPT ![t.id] = NONE]
  ELSE IF t.kind = "htlc_claim"
  THEN [L.swaps EXCEPT ![t.swap] = Settled(L.swaps[t.swap], "open", NONE)]
  ELSE IF t.kind = "htlc_refund"
  THEN [L.swaps EXCEPT ![t.swap] =
          Settled(L.swaps[t.swap], "open", L.swaps[t.swap].preimage)]
  ELSE L.swaps

\* A seeded bug: undoing a slash keeps its marker.
UnreflectMarked(L, t) ==
  [balance   |-> [a \in Holders |-> L.balance[a] - CoinMove(L, t, a)],
   bonded    |-> [a \in Accounts |-> L.bonded[a] - StakeMove(t, a)],
   since     |-> SinceBefore(L, t),
   prior     |-> PriorBefore(L, t),
   unbonding |-> UnbondingBefore(L, t),
   slashed   |-> L.slashed,
   swaps     |-> SwapsBefore(L, t),
   mined     |-> L.mined \ {t.id},
   fees      |-> L.fees - Destroys(t),
   earned    |-> L.earned, inflow |-> L.inflow,
   burned    |-> L.burned, produced |-> L.produced]

Unreflect(L, t) ==
  [balance   |-> [a \in Holders |-> L.balance[a] - CoinMove(L, t, a)],
   bonded    |-> [a \in Accounts |-> L.bonded[a] - StakeMove(t, a)],
   since     |-> SinceBefore(L, t),
   prior     |-> PriorBefore(L, t),
   unbonding |-> UnbondingBefore(L, t),
   slashed   |-> L.slashed \ Offences(t),
   swaps     |-> SwapsBefore(L, t),
   mined     |-> L.mined \ {t.id},
   fees      |-> L.fees - Destroys(t),
   earned    |-> L.earned, inflow |-> L.inflow,
   burned    |-> L.burned, produced |-> L.produced]

(***************************************************************************)
(* What closes a block after its transactions: the lane-aware reward, the  *)
(* anti-hoard burn of the treasury at a period boundary, the totals.       *)
(***************************************************************************)
Share(reward, bps) == (reward * bps) \div BpsDenom

Split(lane, reward) ==
  LET cut  == Share(reward, TreasuryBps)
      tip  == Share(reward, OpenTipBps)
      pool == Share(reward, BondedDividendBps)
  IN  IF lane = "open"
      THEN [producer |-> tip, dividend |-> reward - cut - tip, treasury |-> cut]
      ELSE [producer |-> reward - cut - pool, dividend |-> pool, treasury |-> cut]

RewardOf(b) == Split(b.lane, b.reward)

RewardMove(b, a) ==
  (IF a = b.creator THEN RewardOf(b).producer ELSE 0)
    + (IF a = "dividend_pool" THEN RewardOf(b).dividend ELSE 0)
    + (IF a = "treasury" THEN RewardOf(b).treasury ELSE 0)

\* _vote_activated for an account of the bonded registry.
Activated(L, a, h) ==
  /\ L.bonded[a] >= SlashPenalty
  /\ \/ L.since[a] \in {NONE, 0}
     \/ Epoch(h) - L.since[a] >= ActivationEpochs

\* A seeded bug: everything above the runway is burned.
BurnAll(L, h, n) ==
  IF /\ h % SpendPeriod = 0 /\ n > RunwayFloor
     /\ \E a \in Accounts : Activated(L, a, h)
  THEN n - RunwayFloor ELSE 0

\* What apply_treasury_burn destroys of a treasury that holds n coins.
BurnDue(L, h, n) ==
  IF /\ h % SpendPeriod = 0 /\ n > RunwayFloor
     /\ \E a \in Accounts : Activated(L, a, h)
  THEN Share(n - RunwayFloor, BurnBps)
  ELSE 0

BurnAt(L, b, h) == BurnDue(L, h, L.balance["treasury"] + RewardOf(b).treasury)

\* credit_block_reward, apply_treasury_burn, index_totals.
Seal(L, b, h) ==
  LET n == BurnAt(L, b, h)
  IN  [balance   |-> [a \in Holders |-> L.balance[a] + RewardMove(b, a)
                                        - (IF a = "treasury" THEN n ELSE 0)],
       earned    |-> Add(L.earned, b.creator, RewardOf(b).producer),
       inflow    |-> Add(L.inflow, Epoch(h), RewardOf(b).dividend),
       burned    |-> [L.burned EXCEPT ![h] = n],
       fees      |-> L.fees + n,
       produced  |-> L.produced + b.reward,
       bonded    |-> L.bonded, since |-> L.since, prior |-> L.prior,
       unbonding |-> L.unbonding, slashed |-> L.slashed,
       swaps     |-> L.swaps, mined |-> L.mined]

\* The rollback takes the reward back BEFORE it restores the burn.
UnsealFits(L, b) ==
  /\ \A a \in Holders : L.balance[a] >= RewardMove(b, a)
  /\ L.earned[b.creator] >= RewardOf(b).producer

Unseal(L, b, h) ==
  LET n == L.burned[h]
  IN  [balance   |-> [a \in Holders |-> L.balance[a] - RewardMove(b, a)
                                        + (IF a = "treasury" THEN n ELSE 0)],
       earned    |-> Add(L.earned, b.creator, -RewardOf(b).producer),
       inflow    |-> Add(L.inflow, Epoch(h), -RewardOf(b).dividend),
       burned    |-> [L.burned EXCEPT ![h] = 0],
       fees      |-> L.fees - n,
       produced  |-> L.produced - b.reward,
       bonded    |-> L.bonded, since |-> L.since, prior |-> L.prior,
       unbonding |-> L.unbonding, slashed |-> L.slashed,
       swaps     |-> L.swaps, mined |-> L.mined]

(***************************************************************************)
(* Notions the invariant of Ledger is stated with.                         *)
(***************************************************************************)
\* The rows t overwrites hold what its inverse will put back.
Applicable(L, t) ==
  /\ t.id \notin L.mined
  /\ t.kind = "bond" => L.prior[t.id] = NONE
  /\ t.kind = "unbond" => L.unbonding[t.sender] = NONE
  /\ t.kind = "withdraw" =>
       L.unbonding[t.sender] = [amount |-> t.claims, release |-> t.release]
  /\ t.kind = "htlc_lock" => L.swaps[t.id] = NONE
  /\ Releases(t) => IsOpen(L, t) /\ L.swaps[t.swap].preimage = NONE

\* Rows keyed by a txid exist only for mined transactions, and an open swap
\* has no preimage.
Fresh(L) ==
  \A i \in TxIds :
    /\ i \notin L.mined => L.prior[i] = NONE /\ L.swaps[i] = NONE
    /\ L.swaps[i] # NONE /\ L.swaps[i].status = "open" => L.swaps[i].preimage = NONE

Unburned(L, h) == \A g \in Heights : g >= h => L.burned[g] = 0

\* Nobody owes: the zero floors of change_balance, change_bonded and
\* increase_produced_count.
Solvent(L) ==
  /\ \A a \in Holders : L.balance[a] >= 0
  /\ \A a \in Accounts : L.bonded[a] >= 0 /\ L.earned[a] >= 0

\* L with the slash markers of D removed.
Without(L, D) ==
  [balance   |-> L.balance,   bonded   |-> L.bonded,
   since     |-> L.since,     prior    |-> L.prior,
   unbonding |-> L.unbonding, slashed  |-> L.slashed \ D,
   swaps     |-> L.swaps,     mined    |-> L.mined,
   fees      |-> L.fees,      earned   |-> L.earned,
   inflow    |-> L.inflow,    burned   |-> L.burned,
   produced  |-> L.produced]

=============================================================================
