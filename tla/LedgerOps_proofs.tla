--------------------------- MODULE LedgerOps_proofs ---------------------------
(***************************************************************************)
(* Facts about the operators of LedgerOps: types, what a transaction       *)
(* leaves alone, that a rollback computes inverses, and that nobody is left*)
(* owing.                                                                  *)
(***************************************************************************)
EXTENDS LedgerOps, TLAPS

-----------------------------------------------------------------------------
\* A ledger is a record with these components.
LEMMA LedgerTypes ==
  ASSUME NEW L \in Ledgers
  PROVE  /\ L.balance \in [Holders -> Int] /\ L.earned \in [Accounts -> Int]
         /\ L.bonded \in [Accounts -> Int]
         /\ L.since \in [Accounts -> Nat \cup {NONE}]
         /\ L.prior \in [TxIds -> Nat \cup {NONE}]
         /\ L.unbonding \in [Accounts -> Pending \cup {NONE}]
         /\ L.slashed \subseteq Offence
         /\ L.swaps \in [TxIds -> Swap \cup {NONE}]
         /\ L.mined \subseteq TxIds
         /\ L.inflow \in [0 .. Epoch(MaxHeight) -> Int]
         /\ L.burned \in [Heights -> Int]
         /\ L.produced \in Int /\ L.fees \in Int
  BY DEF Ledgers

\* Removing no marker changes nothing.
LEMMA WithoutNothing ==
  ASSUME NEW L \in Ledgers, NEW D, L.slashed \cap D = {}
  PROVE  Without(L, D) = L
<1> DEFINE Rows == [balance   |-> L.balance,   bonded   |-> L.bonded,
                    since     |-> L.since,     prior    |-> L.prior,
                    unbonding |-> L.unbonding, slashed  |-> L.slashed,
                    swaps     |-> L.swaps,     mined    |-> L.mined,
                    fees      |-> L.fees,      earned   |-> L.earned,
                    inflow    |-> L.inflow,    burned   |-> L.burned,
                    produced  |-> L.produced]
<1>1. L = Rows BY Zenon DEF Ledgers
<1>2. L.slashed \ D = L.slashed OBVIOUS
<1>3. Without(L, D) = Rows BY <1>2 DEF Without
<1> QED BY <1>1, <1>3

\* The fields of a transaction of each kind.
LEMMA TxShape ==
  ASSUME NEW t \in Transaction
  PROVE  /\ t.id \in Nat /\ t.sender \in Accounts
         /\ t.amount \in Nat /\ t.fee \in Nat
         /\ t.kind = "transfer"    => t \in Transfer /\ t.to \in Holders
         /\ t.kind = "bond"        => t \in Bond
         /\ t.kind = "withdraw"    => t \in Withdraw /\ t.claims \in Nat /\ t.release \in Nat
         /\ t.kind = "slash"       => /\ t.offender \in Accounts /\ t.slot \in Nat
                                     /\ t.proof \in {"authorship", "attestation"}
         /\ t.kind = "htlc_lock"   => /\ t.claimant \in Accounts /\ t.expiry \in Nat
                                     /\ t.hashlock \in Secrets
         /\ t.kind = "htlc_claim"  => t.preimage \in Secrets
  BY DEF Transaction, Transfer, Bond, Unbond, Withdraw, Slash, Lock, Claim, Refund

\* The epoch of a height of the chain is a row of the inflow counters.
LEMMA EpochTyped ==
  ASSUME NEW h \in Heights
  PROVE  Epoch(h) \in Nat /\ Epoch(h) \in 0 .. Epoch(MaxHeight)
  BY BoundsAssumption DEF Epoch, Heights

-----------------------------------------------------------------------------
(* Types of one transaction's moves. *)

\* The moves of a transaction are integers.
LEMMA MoveTyped ==
  ASSUME NEW L \in Ledgers, NEW t \in Transaction, Releases(t) => IsOpen(L, t), NEW a
  PROVE  CoinMove(L, t, a) \in Int /\ StakeMove(t, a) \in Int
<1>1. L.swaps \in [TxIds -> Swap \cup {NONE}] BY LedgerTypes
<1>2. Pays(L, t) \in Int
  BY <1>1, TxShape DEF Pays, Releases, IsOpen, Swap
<1>3. Receives(L, t) \in Int
  BY <1>1, TxShape DEF Receives, Releases, IsOpen, Swap
<1>4. StakeMove(t, a) \in Int
  BY BoundsAssumption, TxShape DEF StakeMove
<1> QED BY <1>2, <1>3, <1>4 DEF CoinMove

\* What a transaction destroys is an integer.
LEMMA DestroysTyped ==
  ASSUME NEW t \in Transaction
  PROVE  Destroys(t) \in Int
  BY BoundsAssumption, TxShape DEF Destroys

\* A bond age is an epoch: neither branch of apply_bond_since leaves Nat.
LEMMA BondAgeTyped ==
  ASSUME NEW L \in Ledgers, NEW t \in Bond, NEW h \in Heights
  PROVE  BondAge(L, t, h) \in Nat
<1> DEFINE old == L.bonded[t.sender]
           age == IF L.since[t.sender] = NONE THEN 0 ELSE L.since[t.sender]
<1>1. old \in Int /\ age \in Nat /\ t.amount \in Nat BY LedgerTypes DEF Bond
<1>2. Epoch(h) \in Nat BY EpochTyped
<1>3. CASE old <= 0
  BY <1>2, <1>3 DEF BondAge
<1>4. CASE ~(old <= 0)
  <2> DEFINE x == old * age
             y == t.amount * Epoch(h)
  <2>1. x \in Nat /\ y \in Nat BY <1>1, <1>2, <1>4
  <2>2. old + t.amount \in Nat \ {0} BY <1>1, <1>4
  <2> HIDE DEF x, y
  <2>3. (x + y) \div (old + t.amount) \in Nat
    <3> DEFINE d == old + t.amount
               n == x + y
    <3>1. n \in Nat /\ d \in Nat \ {0} BY <2>1, <2>2
    <3> HIDE DEF d, n
    <3>2. n \div d \in Nat BY <3>1
    <3> QED BY <3>2 DEF d, n
  <2> QED BY <2>3, <1>4 DEF BondAge, x, y
<1> QED BY <1>3, <1>4

\* Applying an applicable transaction gives a ledger.
LEMMA ReflectTyped ==
  ASSUME NEW L \in Ledgers, NEW t \in Txs, NEW h \in Heights, Applicable(L, t)
  PROVE  Reflect(L, t, h) \in Ledgers
<1>1. t \in Transaction /\ t.id \in TxIds BY TxsAssumption DEF TxIds
<1>2. [a \in Holders |-> L.balance[a] + CoinMove(L, t, a)] \in [Holders -> Int]
  BY <1>1, MoveTyped, LedgerTypes DEF Applicable
<1>3. [a \in Accounts |-> L.bonded[a] + StakeMove(t, a)] \in [Accounts -> Int]
  BY <1>1, MoveTyped, LedgerTypes DEF Applicable
<1>4. SinceAfter(L, t, h) \in [Accounts -> Nat \cup {NONE}]
  <2>1. CASE t.kind = "bond"
    <3>1. t \in Bond BY <1>1, <2>1, TxShape
    <3> QED BY <2>1, <3>1, BondAgeTyped, LedgerTypes DEF SinceAfter, Bond
  <2>2. CASE t.kind # "bond" BY <2>2, LedgerTypes DEF SinceAfter
  <2> QED BY <2>1, <2>2
<1>5. PriorAfter(L, t) \in [TxIds -> Nat \cup {NONE}]
  <2>1. CASE t.kind = "bond"
    <3>1. t.sender \in Accounts BY <1>1, <2>1, TxShape
    <3> QED BY <1>1, <2>1, <3>1, LedgerTypes DEF PriorAfter
  <2>2. CASE t.kind # "bond" BY <2>2, LedgerTypes DEF PriorAfter
  <2> QED BY <2>1, <2>2
<1>6. UnbondingAfter(L, t, h) \in [Accounts -> Pending \cup {NONE}]
  <2>1. CASE t.kind = "unbond"
    <3>1. t.sender \in Accounts /\ t.amount \in Nat BY <1>1, <2>1, TxShape
    <3>2. [amount |-> t.amount, release |-> h + BondUnlockDelay] \in Pending
      BY <3>1, BoundsAssumption DEF Pending, Heights
    <3> QED BY <2>1, <3>1, <3>2, LedgerTypes, TxShape DEF UnbondingAfter
  <2>2. CASE t.kind = "withdraw" BY <1>1, <2>2, LedgerTypes DEF UnbondingAfter
  <2>3. CASE t.kind # "unbond" /\ t.kind # "withdraw"
    BY <2>3, LedgerTypes DEF UnbondingAfter
  <2> QED BY <2>1, <2>2, <2>3
<1>7. L.slashed \cup Offences(t) \subseteq Offence
  BY <1>1, LedgerTypes, TxShape DEF Offences, OffenceOf, Offence
<1>8. SwapsAfter(L, t) \in [TxIds -> Swap \cup {NONE}]
  <2>1. CASE t.kind = "htlc_lock"
    <3>1. Opened(t) \in Swap BY <1>1, <2>1, TxShape DEF Opened, Swap
    <3> QED BY <1>1, <2>1, <3>1, LedgerTypes DEF SwapsAfter
  <2>2. CASE Releases(t)
    <3>1. t.swap \in TxIds /\ L.swaps[t.swap] \in Swap
      BY <2>2, LedgerTypes DEF Applicable, IsOpen
    <3>2. ASSUME NEW p \in Secrets \cup {NONE}, NEW u \in {"claimed", "refunded"}
          PROVE  Settled(L.swaps[t.swap], u, p) \in Swap
      BY <3>1 DEF Settled, Swap
    <3>3. t.kind = "htlc_claim" => t.preimage \in Secrets BY <1>1, TxShape
    <3> QED BY <2>2, <3>1, <3>2, <3>3, LedgerTypes DEF SwapsAfter, Releases
  <2>3. CASE t.kind # "htlc_lock" /\ ~Releases(t)
    BY <2>3, LedgerTypes DEF SwapsAfter, Releases
  <2> QED BY <2>1, <2>2, <2>3
<1>9. L.mined \cup {t.id} \subseteq TxIds BY <1>1, LedgerTypes
<1>10. L.fees + Destroys(t) \in Int BY <1>1, DestroysTyped, LedgerTypes
<1> QED BY <1>2, <1>3, <1>4, <1>5, <1>6, <1>7, <1>8, <1>9, <1>10, LedgerTypes
        DEF Reflect, Ledgers

-----------------------------------------------------------------------------
(* Undoing one transaction. *)

\* A swap is determined by the fields Settled copies.
LEMMA SwapShape ==
  ASSUME NEW s \in Swap
  PROVE  Settled(s, s.status, s.preimage) = s
  BY Zenon DEF Settled, Swap

\* Reopening a claimed or a refunded swap gives the open swap back.
LEMMA SwapReopened ==
  ASSUME NEW s \in Swap, s.status = "open", s.preimage = NONE, NEW u, NEW v
  PROVE  /\ Settled(Settled(s, u, v), "open", NONE) = s
         /\ Settled(Settled(s, u, NONE), "open", Settled(s, u, NONE).preimage) = s
<1>1. Settled(Settled(s, u, v), "open", NONE) = Settled(s, s.status, s.preimage)
  BY DEF Settled
<1>2. Settled(Settled(s, u, NONE), "open", Settled(s, u, NONE).preimage)
        = Settled(s, s.status, s.preimage)
  BY DEF Settled
<1> QED BY <1>1, <1>2, SwapShape

\* Undoing a transaction restores every row it changed, whatever slash markers
\* (D) the undoing of later transactions has cleared: reflect_transaction with
\* revert=True is the inverse of reflect_transaction.
LEMMA UndoExact ==
  ASSUME NEW L \in Ledgers, NEW t \in Txs, NEW h \in Heights, NEW D,
         Applicable(L, t)
  PROVE  Unreflect(Without(Reflect(L, t, h), D), t)
           = Without(L, D \cup Offences(t))
<1> DEFINE M == Without(Reflect(L, t, h), D)
<1>a. t \in Transaction /\ t.id \in TxIds BY TxsAssumption DEF TxIds
<1>b. \A a : CoinMove(L, t, a) \in Int /\ StakeMove(t, a) \in Int BY <1>a, MoveTyped DEF Applicable
<1>1. /\ M.balance = [a \in Holders |-> L.balance[a] + CoinMove(L, t, a)]
      /\ M.bonded  = [a \in Accounts |-> L.bonded[a] + StakeMove(t, a)]
      /\ M.since   = SinceAfter(L, t, h)
      /\ M.prior   = PriorAfter(L, t)
      /\ M.unbonding = UnbondingAfter(L, t, h)
      /\ M.slashed = (L.slashed \cup Offences(t)) \ D
      /\ M.swaps = SwapsAfter(L, t)
      /\ M.mined = L.mined \cup {t.id}
      /\ M.fees = L.fees + Destroys(t)
      /\ M.earned = L.earned /\ M.inflow = L.inflow
      /\ M.burned = L.burned /\ M.produced = L.produced
   BY DEF Without, Reflect
<1> HIDE DEF M
<1>3. ASSUME NEW a PROVE CoinMove(M, t, a) = CoinMove(L, t, a)
  <2>1. CASE Releases(t)
    <3>1. /\ M.swaps[t.swap].amount = L.swaps[t.swap].amount
          /\ M.swaps[t.swap].sender = L.swaps[t.swap].sender
          /\ M.swaps[t.swap].claimant = L.swaps[t.swap].claimant
      BY <1>1, <2>1, LedgerTypes DEF Applicable, IsOpen, SwapsAfter, Settled, Releases
    <3> QED BY <3>1 DEF CoinMove, Pays, Receives, Payee, Payer
  <2>2. CASE ~Releases(t)
    BY <2>2 DEF CoinMove, Pays, Receives, Payee, Payer, Releases
  <2> QED BY <2>1, <2>2
<1>4. [a \in Holders |-> M.balance[a] - CoinMove(M, t, a)] = L.balance
  <2>1. \A a \in Holders : M.balance[a] - CoinMove(M, t, a) = L.balance[a]
     BY <1>1, <1>3, <1>b, LedgerTypes
  <2> QED BY <2>1, LedgerTypes
<1>5. [a \in Accounts |-> M.bonded[a] - StakeMove(t, a)] = L.bonded
  <2>1. \A a \in Accounts : M.bonded[a] - StakeMove(t, a) = L.bonded[a]
     BY <1>1, <1>b, LedgerTypes
  <2> QED BY <2>1, LedgerTypes
<1>6. SinceBefore(M, t) = L.since
  <2>1. CASE t.kind = "bond"
    <3>1. M.since = [L.since EXCEPT ![t.sender] = BondAge(L, t, h)] BY <1>1, <2>1 DEF SinceAfter
    <3>2. M.prior[t.id] = L.since[t.sender] BY <1>1, <2>1, <1>a, LedgerTypes DEF PriorAfter
    <3>3. [M.since EXCEPT ![t.sender] = L.since[t.sender]] = L.since BY <3>1, LedgerTypes
    <3> QED BY <2>1, <3>2, <3>3 DEF SinceBefore
  <2>2. CASE t.kind # "bond" BY <1>1, <2>2 DEF SinceBefore, SinceAfter
  <2> QED BY <2>1, <2>2
<1>7. PriorBefore(M, t) = L.prior
  <2>1. CASE t.kind = "bond"
    <3>1. M.prior = [L.prior EXCEPT ![t.id] = L.since[t.sender]] BY <1>1, <2>1 DEF PriorAfter
    <3>2. L.prior[t.id] = NONE BY <2>1 DEF Applicable
    <3>3. [M.prior EXCEPT ![t.id] = NONE] = L.prior BY <3>1, <3>2, LedgerTypes
    <3> QED BY <2>1, <3>3 DEF PriorBefore
  <2>2. CASE t.kind # "bond" BY <1>1, <2>2 DEF PriorBefore, PriorAfter
  <2> QED BY <2>1, <2>2
<1>8. UnbondingBefore(M, t) = L.unbonding
  <2>1. CASE t.kind \in {"unbond", "withdraw"}
    <3>1. PICK p : M.unbonding = [L.unbonding EXCEPT ![t.sender] = p] BY <1>1, <2>1 DEF UnbondingAfter
    <3>2. UnbondingBefore(M, t) = [M.unbonding EXCEPT ![t.sender] = L.unbonding[t.sender]]
       BY <2>1 DEF UnbondingBefore, Applicable
    <3> QED BY <3>1, <3>2, LedgerTypes
  <2>2. CASE ~(t.kind \in {"unbond", "withdraw"}) BY <1>1, <2>2 DEF UnbondingBefore, UnbondingAfter
  <2> QED BY <2>1, <2>2
<1>9. SwapsBefore(M, t) = L.swaps
  <2>1. CASE t.kind = "htlc_lock"
    <3>1. M.swaps = [L.swaps EXCEPT ![t.id] = Opened(t)] BY <1>1, <2>1 DEF SwapsAfter
    <3>2. L.swaps[t.id] = NONE BY <2>1 DEF Applicable
    <3>3. [M.swaps EXCEPT ![t.id] = NONE] = L.swaps BY <3>1, <3>2, LedgerTypes
    <3> QED BY <2>1, <3>3 DEF SwapsBefore
  <2>2. CASE Releases(t)
    <3> DEFINE s == L.swaps[t.swap]
    <3>1. t.swap \in TxIds /\ s \in Swap /\ s.status = "open" /\ s.preimage = NONE
      BY <2>2, LedgerTypes DEF Applicable, IsOpen
    <3>2. PICK u, v : /\ M.swaps = [L.swaps EXCEPT ![t.swap] = Settled(s, u, v)]
                      /\ t.kind = "htlc_refund" => v = NONE
      BY <1>1, <2>2 DEF SwapsAfter, Releases
    <3>3. M.swaps[t.swap] = Settled(s, u, v) BY <3>1, <3>2, LedgerTypes
    <3>4. SwapsBefore(M, t) = [M.swaps EXCEPT ![t.swap] = s]
      BY <3>1, <3>2, <3>3, <2>2, SwapReopened DEF SwapsBefore, Releases
    <3> QED BY <3>4, <3>2, LedgerTypes
  <2>3. CASE t.kind # "htlc_lock" /\ ~Releases(t) BY <1>1, <2>3 DEF SwapsBefore, SwapsAfter, Releases
  <2> QED BY <2>1, <2>2, <2>3
<1>10. M.mined \ {t.id} = L.mined
  BY <1>1, LedgerTypes DEF Applicable
<1>11. M.fees - Destroys(t) = L.fees
  BY <1>1, <1>a, LedgerTypes, BoundsAssumption, TxShape, SMTT(30) DEF Destroys
<1>12. M.slashed \ Offences(t) = L.slashed \ (D \cup Offences(t))
  BY <1>1
<1>13. Unreflect(M, t) = Without(L, D \cup Offences(t))
  BY <1>1, <1>4, <1>5, <1>6, <1>7, <1>8, <1>9, <1>10, <1>11, <1>12 DEF Unreflect, Without
<1> QED BY <1>13 DEF M

-----------------------------------------------------------------------------
(* What one transaction leaves in place for another. *)

\* Two transactions that a block may carry together do not disturb each
\* other's rows (reserved_uniqueness_key is strong enough for this).
LEMMA Frame ==
  ASSUME NEW L \in Ledgers, NEW h \in Heights, NEW t \in Txs, NEW u \in Txs,
         Applicable(L, t), Applicable(L, u), t.id # u.id, ~Clash(t, u)
  PROVE  Applicable(Reflect(L, t, h), u)
<1> DEFINE M == Reflect(L, t, h)
<1>r. /\ M.mined = L.mined \cup {t.id}
      /\ M.prior = PriorAfter(L, t)
      /\ M.unbonding = UnbondingAfter(L, t, h)
      /\ M.swaps = SwapsAfter(L, t)
  BY DEF Reflect
<1> HIDE DEF M
<1>0. t \in Transaction /\ u \in Transaction /\ t.id \in TxIds /\ u.id \in TxIds
  BY TxsAssumption DEF TxIds
<1>1. u.id \notin M.mined BY <1>r DEF Applicable
<1>2. u.kind = "bond" => M.prior[u.id] = NONE
  <2>1. M.prior[u.id] = L.prior[u.id]
    BY <1>0, <1>r, LedgerTypes DEF PriorAfter
  <2> QED BY <2>1 DEF Applicable
<1>3. t.kind \in {"unbond", "withdraw"} /\ u.kind \in {"unbond", "withdraw"}
        => t.sender # u.sender
  <2> SUFFICES ASSUME t.kind \in {"unbond", "withdraw"},
                      u.kind \in {"unbond", "withdraw"}, t.sender = u.sender
               PROVE  FALSE
    OBVIOUS
  <2>1. t.kind # u.kind BY DEF Clash
  <2>2. PICK w \in {t, u} : w.kind = "withdraw" /\ L.unbonding[w.sender] = NONE
    BY <2>1 DEF Applicable
  <2>3. w \in Withdraw BY <1>0, <2>2, TxShape
  <2>4. [amount |-> w.claims, release |-> w.release] \in Pending
    BY <2>3 DEF Withdraw, Pending
  <2>5. [amount |-> w.claims, release |-> w.release] = NONE
    BY <2>2 DEF Applicable
  <2> QED BY <2>4, <2>5, NoneAssumption
<1>4. u.kind \in {"unbond", "withdraw"} => M.unbonding[u.sender] = L.unbonding[u.sender]
  <2> SUFFICES ASSUME u.kind \in {"unbond", "withdraw"}
               PROVE  M.unbonding[u.sender] = L.unbonding[u.sender]
    OBVIOUS
  <2>1. CASE t.kind \in {"unbond", "withdraw"}
    <3>1. t.sender # u.sender BY <1>3, <2>1
    <3>2. u.sender \in Accounts BY <1>0, TxShape
    <3> QED BY <2>1, <3>1, <3>2, <1>r, LedgerTypes DEF UnbondingAfter
  <2>2. CASE t.kind \notin {"unbond", "withdraw"}
    BY <2>2, <1>r DEF UnbondingAfter
  <2> QED BY <2>1, <2>2
<1>5. ASSUME NEW s \in TxIds,
             t.kind = "htlc_lock" => s # t.id, Releases(t) => s # t.swap
      PROVE  M.swaps[s] = L.swaps[s]
  BY <1>5, <1>r, LedgerTypes DEF SwapsAfter, Releases
<1>6. u.kind = "htlc_lock" => M.swaps[u.id] = NONE
  <2> SUFFICES ASSUME u.kind = "htlc_lock" PROVE M.swaps[u.id] = NONE
    OBVIOUS
  <2>1. L.swaps[u.id] = NONE BY DEF Applicable
  <2>2. Releases(t) => u.id # t.swap BY <2>1 DEF Applicable, IsOpen
  <2> QED BY <1>0, <1>5, <2>1, <2>2
<1>7. Releases(u) => IsOpen(M, u) /\ M.swaps[u.swap].preimage = NONE
  <2> SUFFICES ASSUME Releases(u)
               PROVE  IsOpen(M, u) /\ M.swaps[u.swap].preimage = NONE
    OBVIOUS
  <2>1. IsOpen(L, u) /\ L.swaps[u.swap].preimage = NONE BY DEF Applicable
  <2>2. t.kind = "htlc_lock" => u.swap # t.id BY <2>1 DEF Applicable, IsOpen
  <2>3. Releases(t) => u.swap # t.swap BY DEF Clash, Releases
  <2>4. M.swaps[u.swap] = L.swaps[u.swap] BY <1>5, <2>1, <2>2, <2>3 DEF IsOpen
  <2> QED BY <2>1, <2>4 DEF IsOpen
<1> QED BY <1>1, <1>2, <1>4, <1>6, <1>7 DEF Applicable, M

\* A transaction creates rows under its own, now mined, txid only.
LEMMA FreshKept ==
  ASSUME NEW L \in Ledgers, NEW h \in Heights, NEW t \in Txs,
         Applicable(L, t), Fresh(L)
  PROVE  Fresh(Reflect(L, t, h))
<1> DEFINE M == Reflect(L, t, h)
<1>r. /\ M.mined = L.mined \cup {t.id}
      /\ M.prior = PriorAfter(L, t)
      /\ M.unbonding = UnbondingAfter(L, t, h)
      /\ M.swaps = SwapsAfter(L, t)
  BY DEF Reflect
<1> HIDE DEF M
<1>0. t \in Transaction /\ t.id \in TxIds BY TxsAssumption DEF TxIds
<1>1. Releases(t) => t.swap \in L.mined
  BY DEF Applicable, IsOpen, Fresh
<1>2. ASSUME NEW i \in TxIds, i \notin M.mined
      PROVE  M.prior[i] = NONE /\ M.swaps[i] = NONE
  <2>1. i \notin L.mined /\ i # t.id BY <1>2, <1>r
  <2>2. M.prior[i] = L.prior[i] BY <2>1, <1>r, LedgerTypes DEF PriorAfter
  <2>3. M.swaps[i] = L.swaps[i]
    BY <1>1, <2>1, <1>r, LedgerTypes DEF SwapsAfter, Releases
  <2> QED BY <2>1, <2>2, <2>3 DEF Fresh
<1>3. ASSUME NEW i \in TxIds, M.swaps[i] # NONE, M.swaps[i].status = "open"
      PROVE  M.swaps[i].preimage = NONE
  <2>1. CASE t.kind = "htlc_lock"
    <3>1. M.swaps = [L.swaps EXCEPT ![t.id] = Opened(t)]
      BY <2>1, <1>r DEF SwapsAfter
    <3>2. Opened(t).preimage = NONE BY DEF Opened
    <3> QED BY <1>3, <3>1, <3>2, LedgerTypes DEF Fresh
  <2>2. CASE Releases(t)
    <3>1. PICK u, p :
            /\ u \in {"claimed", "refunded"}
            /\ M.swaps = [L.swaps EXCEPT ![t.swap] = Settled(L.swaps[t.swap], u, p)]
      BY <2>2, <1>r DEF SwapsAfter, Releases
    <3>2. Settled(L.swaps[t.swap], u, p).status = u BY DEF Settled
    <3> QED BY <1>3, <3>1, <3>2, LedgerTypes DEF Fresh
  <2>3. CASE t.kind # "htlc_lock" /\ ~Releases(t)
    <3>1. M.swaps = L.swaps BY <2>3, <1>r DEF SwapsAfter, Releases
    <3> QED BY <1>3, <3>1 DEF Fresh
  <2> QED BY <2>1, <2>2, <2>3
<1>4. Fresh(M) BY <1>2, <1>3 DEF Fresh
<1> QED BY <1>4 DEF M

\* What block validation checks is enough for every transaction of the block
\* to find its rows as its inverse will leave them.
LEMMA ValidApplicable ==
  ASSUME NEW L \in Ledgers, NEW t \in Txs, Valid(L, t), t.id \notin L.mined, Fresh(L)
  PROVE  Applicable(L, t) /\ L.slashed \cap Offences(t) = {}
<1>0. t \in Transaction /\ t.id \in TxIds BY TxsAssumption DEF TxIds
<1>1. t.kind = "bond" => L.prior[t.id] = NONE BY <1>0 DEF Fresh
<1>2. t.kind = "htlc_lock" => L.swaps[t.id] = NONE BY <1>0 DEF Fresh
<1>3. t.kind = "unbond" => L.unbonding[t.sender] = NONE BY DEF Valid, ValidUnbond
<1>4. t.kind = "withdraw" =>
        L.unbonding[t.sender] = [amount |-> t.claims, release |-> t.release]
  <2> SUFFICES ASSUME t.kind = "withdraw"
               PROVE  L.unbonding[t.sender] = [amount |-> t.claims, release |-> t.release]
    OBVIOUS
  <2> DEFINE p == L.unbonding[t.sender]
  <2>1. t.sender \in Accounts BY <1>0, TxShape
  <2>2. p \in Pending /\ p.amount = t.claims /\ p.release = t.release
    BY <2>1, LedgerTypes DEF Valid, ValidWithdraw
  <2> QED BY <2>2 DEF Pending
<1>5. Releases(t) => IsOpen(L, t) /\ L.swaps[t.swap].preimage = NONE
  BY DEF Releases, Valid, ValidClaim, ValidRefund, IsOpen, Fresh
<1>6. L.slashed \cap Offences(t) = {}
  BY DEF Valid, ValidSlash, Offences
<1> QED BY <1>1, <1>2, <1>3, <1>4, <1>5, <1>6 DEF Applicable

-----------------------------------------------------------------------------
(* Sealing a block and breaking the seal. *)

\* A share of an integer amount is an integer.
LEMMA ShareTyped ==
  ASSUME NEW n \in Int, NEW bps \in Nat
  PROVE  Share(n, bps) \in Int
<1>1. n * bps \in Int OBVIOUS
<1>2. \A m \in Int : m \div BpsDenom \in Int BY BoundsAssumption
<1> QED BY <1>1, <1>2 DEF Share

\* The parts of a block reward are integers.
LEMMA RewardTyped ==
  ASSUME NEW b, b.reward \in Nat, NEW a
  PROVE  /\ RewardOf(b).producer \in Int /\ RewardOf(b).dividend \in Int
         /\ RewardOf(b).treasury \in Int
         /\ RewardMove(b, a) \in Int
<1>1. /\ Share(b.reward, TreasuryBps) \in Int /\ Share(b.reward, OpenTipBps) \in Int
      /\ Share(b.reward, BondedDividendBps) \in Int
  <2>1. TreasuryBps \in Nat /\ OpenTipBps \in Nat /\ BondedDividendBps \in Nat
    BY BoundsAssumption
  <2>2. b.reward \in Int OBVIOUS
  <2>3. \A n \in Int : \A bps \in Nat : Share(n, bps) \in Int BY ShareTyped
  <2> QED BY <2>1, <2>2, <2>3
<1>2. /\ RewardOf(b).producer \in Int /\ RewardOf(b).dividend \in Int
      /\ RewardOf(b).treasury \in Int
  BY <1>1 DEF RewardOf, Split
<1> QED BY <1>2 DEF RewardMove

\* The treasury burn is an integer.
LEMMA BurnTyped ==
  ASSUME NEW L \in Ledgers, NEW b, b.reward \in Nat, NEW h \in Heights
  PROVE  BurnAt(L, b, h) \in Int
<1>1. L.balance["treasury"] + RewardOf(b).treasury \in Int
  <2>1. L.balance["treasury"] \in Int BY LedgerTypes DEF Holders, Reserved
  <2>2. RewardOf(b).treasury \in Int BY RewardTyped
  <2> QED BY <2>1, <2>2
<1>2. \A n \in Int : Share(n - RunwayFloor, BurnBps) \in Int
  BY ShareTyped, BoundsAssumption
<1> QED BY <1>1, <1>2 DEF BurnAt, BurnDue

\* The rows of a sealed ledger.
LEMMA SealRows ==
  ASSUME NEW L \in Ledgers, NEW b, NEW h
  PROVE  LET M == Seal(L, b, h)
             n == BurnAt(L, b, h)
         IN /\ M.balance = [a \in Holders |-> L.balance[a] + RewardMove(b, a)
                                        - (IF a = "treasury" THEN n ELSE 0)]
            /\ M.earned = Add(L.earned, b.creator, RewardOf(b).producer)
            /\ M.inflow = Add(L.inflow, Epoch(h), RewardOf(b).dividend)
            /\ M.burned = [L.burned EXCEPT ![h] = n]
            /\ M.fees = L.fees + n
            /\ M.produced = L.produced + b.reward
            /\ M.bonded = L.bonded /\ M.since = L.since /\ M.prior = L.prior
            /\ M.unbonding = L.unbonding /\ M.slashed = L.slashed
            /\ M.swaps = L.swaps /\ M.mined = L.mined
  BY DEF Seal

\* Adding to an integer row, and taking it back.
LEMMA AddTyped ==
  ASSUME NEW S, NEW f \in [S -> Int], NEW x \in S, NEW n \in Int
  PROVE  /\ Add(f, x, n) \in [S -> Int]
         /\ Add(Add(f, x, n), x, -n) = f
<1>1. Add(f, x, n) \in [S -> Int] BY DEF Add
<1>2. Add(Add(f, x, n), x, -n) \in [S -> Int] BY DEF Add
<1>3. \A y \in S : Add(Add(f, x, n), x, -n)[y] = f[y] BY DEF Add
<1> QED BY <1>1, <1>2, <1>3

\* Sealing a ledger gives a ledger.
LEMMA SealTyped ==
  ASSUME NEW L \in Ledgers, NEW h \in Heights,
         NEW b, b.reward \in Nat, b.creator \in Accounts
  PROVE  Seal(L, b, h) \in Ledgers
<1> DEFINE n == BurnAt(L, b, h)
<1>1. n \in Int BY BurnTyped
<1>r. /\ RewardOf(b).producer \in Int /\ RewardOf(b).dividend \in Int
      /\ \A a : RewardMove(b, a) \in Int
  BY RewardTyped
<1>2. [a \in Holders |-> L.balance[a] + RewardMove(b, a)
                          - (IF a = "treasury" THEN n ELSE 0)] \in [Holders -> Int]
  <2> HIDE DEF n
  <2> QED BY <1>1, <1>r, LedgerTypes
<1>3. Add(L.earned, b.creator, RewardOf(b).producer) \in [Accounts -> Int]
  BY <1>r, AddTyped, LedgerTypes
<1>4. Add(L.inflow, Epoch(h), RewardOf(b).dividend) \in [0 .. Epoch(MaxHeight) -> Int]
  BY <1>r, AddTyped, LedgerTypes, EpochTyped
<1>5. [L.burned EXCEPT ![h] = n] \in [Heights -> Int] BY <1>1, LedgerTypes
<1>6. L.fees + n \in Int /\ L.produced + b.reward \in Int BY <1>1, LedgerTypes
<1> QED BY <1>2, <1>3, <1>4, <1>5, <1>6, LedgerTypes DEF Seal, Ledgers

\* Sealing the block of height h writes the burn row of h and no row that
\* Fresh is about.
LEMMA SealSettles ==
  ASSUME NEW L \in Ledgers, NEW h \in Heights, NEW b, Fresh(L), Unburned(L, h)
  PROVE  Fresh(Seal(L, b, h)) /\ Unburned(Seal(L, b, h), h + 1)
<1> DEFINE M == Seal(L, b, h)
           n == BurnAt(L, b, h)
<1>1. /\ M.prior = L.prior /\ M.swaps = L.swaps /\ M.mined = L.mined
      /\ M.burned = [L.burned EXCEPT ![h] = n]
  BY DEF Seal
<1> HIDE DEF M, n
<1>2. Fresh(M) BY <1>1 DEF Fresh
<1>3. Unburned(M, h + 1)
  BY <1>1, LedgerTypes DEF Unburned, Heights
<1> QED BY <1>2, <1>3 DEF M

\* Breaking the seal restores the ledger the block was sealed on: the burn is
\* read back from its row, the reward parts from the block.
LEMMA UnsealSeal ==
  ASSUME NEW L \in Ledgers, NEW h \in Heights, Unburned(L, h),
         NEW b, b.reward \in Nat, b.creator \in Accounts
  PROVE  Unseal(Seal(L, b, h), b, h) = L
<1> DEFINE M == Seal(L, b, h)
           n == BurnAt(L, b, h)
           U == Unseal(M, b, h)
<1>1. n \in Int BY BurnTyped
<1>2. /\ RewardOf(b).producer \in Int /\ RewardOf(b).dividend \in Int
      /\ \A a : RewardMove(b, a) \in Int
  BY RewardTyped
<1>3. /\ M.balance = [a \in Holders |-> L.balance[a] + RewardMove(b, a)
                                        - (IF a = "treasury" THEN n ELSE 0)]
      /\ M.earned = Add(L.earned, b.creator, RewardOf(b).producer)
      /\ M.inflow = Add(L.inflow, Epoch(h), RewardOf(b).dividend)
      /\ M.burned = [L.burned EXCEPT ![h] = n]
      /\ M.fees = L.fees + n
      /\ M.produced = L.produced + b.reward
      /\ M.bonded = L.bonded /\ M.since = L.since /\ M.prior = L.prior
      /\ M.unbonding = L.unbonding /\ M.slashed = L.slashed
      /\ M.swaps = L.swaps /\ M.mined = L.mined
  BY SealRows
<1>6. /\ U.balance = [a \in Holders |-> M.balance[a] - RewardMove(b, a)
                                        + (IF a = "treasury" THEN M.burned[h] ELSE 0)]
      /\ U.earned = Add(M.earned, b.creator, -RewardOf(b).producer)
      /\ U.inflow = Add(M.inflow, Epoch(h), -RewardOf(b).dividend)
      /\ U.burned = [M.burned EXCEPT ![h] = 0]
      /\ U.fees = M.fees - M.burned[h]
      /\ U.produced = M.produced - b.reward
      /\ U.bonded = M.bonded /\ U.since = M.since /\ U.prior = M.prior
      /\ U.unbonding = M.unbonding /\ U.slashed = M.slashed
      /\ U.swaps = M.swaps /\ U.mined = M.mined
  <2> HIDE DEF M
  <2> QED BY DEF Unseal
<1>4. U = [balance   |-> U.balance,   earned   |-> U.earned,
           bonded    |-> U.bonded,    since    |-> U.since,
           prior     |-> U.prior,     unbonding |-> U.unbonding,
           slashed   |-> U.slashed,   swaps    |-> U.swaps,
           mined     |-> U.mined,     inflow   |-> U.inflow,
           burned    |-> U.burned,    produced |-> U.produced,
           fees      |-> U.fees]
  <2> HIDE DEF M
  <2> QED BY DEF Unseal
<1> HIDE DEF M, n, U
<1>7. M.burned[h] = n /\ L.burned[h] = 0
  <2>1. h >= h BY DEF Heights
  <2> QED BY <2>1, <1>3, LedgerTypes DEF Unburned
<1>8. U.balance = L.balance
  <2>1. \A a \in Holders : U.balance[a] = L.balance[a]
    BY <1>1, <1>2, <1>3, <1>6, <1>7, LedgerTypes
  <2> QED BY <2>1, <1>6, LedgerTypes
<1>9. U.earned = L.earned
  <2>1. L.earned \in [Accounts -> Int] BY LedgerTypes
  <2>2. U.earned = Add(Add(L.earned, b.creator, RewardOf(b).producer),
                       b.creator, -RewardOf(b).producer)
    BY <1>3, <1>6
  <2> QED BY <1>2, <2>1, <2>2, AddTyped
<1>10. U.inflow = L.inflow
  <2> DEFINE S == 0 .. Epoch(MaxHeight)
  <2>1. Epoch(h) \in S BY EpochTyped
  <2>2. L.inflow \in [S -> Int] BY LedgerTypes
  <2>3. U.inflow = Add(Add(L.inflow, Epoch(h), RewardOf(b).dividend),
                       Epoch(h), -RewardOf(b).dividend)
    BY <1>3, <1>6
  <2> HIDE DEF S
  <2> QED BY <1>2, <2>1, <2>2, <2>3, AddTyped
<1>11. U.burned = L.burned BY <1>3, <1>6, <1>7, LedgerTypes
<1>12. U.fees = L.fees /\ U.produced = L.produced
  BY <1>1, <1>3, <1>6, <1>7, LedgerTypes
<1>13. L = [balance   |-> L.balance,   earned   |-> L.earned,
            bonded    |-> L.bonded,    since    |-> L.since,
            prior     |-> L.prior,     unbonding |-> L.unbonding,
            slashed   |-> L.slashed,   swaps    |-> L.swaps,
            mined     |-> L.mined,     inflow   |-> L.inflow,
            burned    |-> L.burned,    produced |-> L.produced,
            fees      |-> L.fees]
  BY Zenon DEF Ledgers
<1>14. U = L
  BY <1>3, <1>4, <1>6, <1>8, <1>9, <1>10, <1>11, <1>12, <1>13
<1> QED BY <1>14 DEF U, M

-----------------------------------------------------------------------------
(* Nobody owes. *)

\* What a transaction moves: the payee gains, the payer loses, the staker's
\* bond changes, and what is missing is what it destroys.
LEMMA MovesBalance ==
  ASSUME NEW L \in Ledgers, NEW t \in Txs, Applicable(L, t)
  PROVE  /\ Payer(t) \in Holders /\ Payee(L, t) \in Holders /\ Staker(t) \in Accounts
         /\ Pays(L, t) \in Nat /\ Receives(L, t) \in Nat
         /\ StakeMove(t, Staker(t)) \in Int /\ Destroys(t) \in Nat
         /\ Receives(L, t) - Pays(L, t) + StakeMove(t, Staker(t)) + Destroys(t) = 0
<1>1. t \in Transaction BY TxsAssumption
<1>2. SlashPenalty \in Nat BY BoundsAssumption
<1>3. Accounts \subseteq Holders /\ Reserved \subseteq Holders BY DEF Holders
<1>4. L.swaps \in [TxIds -> Swap \cup {NONE}] BY LedgerTypes
<1>5. CASE t.kind = "transfer"
  BY <1>1, <1>2, <1>3, <1>5, TxShape
     DEF Payer, Payee, Staker, Pays, Receives, StakeMove, Destroys, Releases
<1>6. CASE t.kind = "bond"
  BY <1>1, <1>2, <1>3, <1>6, TxShape
     DEF Payer, Payee, Staker, Pays, Receives, StakeMove, Destroys, Releases
<1>7. CASE t.kind = "unbond"
  <2>1. t.fee = 0 BY <1>1, <1>7, TxShape DEF Transaction, Transfer, Bond, Unbond, Withdraw, Slash, Lock, Claim, Refund
  <2> QED BY <1>1, <1>2, <1>3, <1>7, <2>1, TxShape
          DEF Payer, Payee, Staker, Pays, Receives, StakeMove, Destroys, Releases
<1>8. CASE t.kind = "withdraw"
  <2>1. t.fee = 0 BY <1>1, <1>8, TxShape DEF Withdraw
  <2> QED BY <1>1, <1>2, <1>3, <1>8, <2>1, TxShape
          DEF Payer, Payee, Staker, Pays, Receives, StakeMove, Destroys, Releases
<1>9. CASE t.kind = "slash"
  <2>1. t.fee = 0 BY <1>1, <1>9 DEF Transaction, Transfer, Bond, Unbond, Withdraw, Slash, Lock, Claim, Refund
  <2> QED BY <1>1, <1>2, <1>3, <1>9, <2>1, TxShape
          DEF Payer, Payee, Staker, Pays, Receives, StakeMove, Destroys, Releases
<1>10. CASE t.kind = "htlc_lock"
  BY <1>1, <1>2, <1>3, <1>10, TxShape
     DEF Payer, Payee, Staker, Pays, Receives, StakeMove, Destroys, Releases, Reserved
<1>11. CASE Releases(t)
  <2>1. t.fee = 0
    BY <1>1, <1>11 DEF Releases, Transaction, Transfer, Bond, Unbond, Withdraw, Slash, Lock, Claim, Refund
  <2>2. L.swaps[t.swap] \in Swap BY <1>4, <1>11 DEF Applicable, IsOpen
  <2>3. /\ L.swaps[t.swap].amount \in Nat /\ L.swaps[t.swap].sender \in Accounts
        /\ L.swaps[t.swap].claimant \in Accounts
    BY <2>2 DEF Swap
  <2> QED BY <1>1, <1>2, <1>3, <1>11, <2>1, <2>3, TxShape
          DEF Payer, Payee, Staker, Pays, Receives, StakeMove, Destroys, Releases, Reserved
<1>12. \/ t.kind \in {"transfer", "bond", "unbond", "withdraw", "slash", "htlc_lock"}
       \/ Releases(t)
  BY <1>1 DEF Releases, Transaction, Transfer, Bond, Unbond, Withdraw, Slash, Lock, Claim, Refund
<1> QED BY <1>5, <1>6, <1>7, <1>8, <1>9, <1>10, <1>11, <1>12

\* A transaction that fits leaves no balance and no bond below zero.
LEMMA ReflectSolvent ==
  ASSUME NEW L \in Ledgers, NEW t \in Txs, NEW h \in Heights, Applicable(L, t),
         Fits(L, t), Solvent(L)
  PROVE  Solvent(Reflect(L, t, h))
<1>1. PICK M \in Ledgers : M = Reflect(L, t, h) BY ReflectTyped
<1>2. /\ M.balance = [a \in Holders |-> L.balance[a] + CoinMove(L, t, a)]
      /\ M.bonded = [a \in Accounts |-> L.bonded[a] + StakeMove(t, a)]
      /\ M.earned = L.earned
  BY <1>1 DEF Reflect
<1>3. ASSUME NEW a \in Holders PROVE M.balance[a] >= 0
  <2>1. PICK n \in Nat, m \in Nat : n = Pays(L, t) /\ m = Receives(L, t) BY MovesBalance
  <2>2. M.balance[a] = L.balance[a] + CoinMove(L, t, a) BY <1>2, <1>3
  <2>3. CoinMove(L, t, a) = (IF a = Payee(L, t) THEN m ELSE 0) - (IF a = Payer(t) THEN n ELSE 0)
    BY <2>1 DEF CoinMove
  <2>4. L.balance[a] \in Int /\ L.balance[a] >= 0 BY <1>3, LedgerTypes DEF Solvent
  <2>5. a = Payer(t) => L.balance[a] >= n BY <2>1 DEF Fits
  <2> QED BY <2>2, <2>3, <2>4, <2>5
<1>4. ASSUME NEW a \in Accounts PROVE M.bonded[a] >= 0
  <2>1. M.bonded[a] = L.bonded[a] + StakeMove(t, a) BY <1>2, <1>4
  <2>2. L.bonded[a] \in Int /\ L.bonded[a] >= 0 BY <1>4, LedgerTypes DEF Solvent
  <2>3. CASE a = Staker(t) BY <2>1, <2>3 DEF Fits
  <2>4. CASE a # Staker(t)
    <3>1. StakeMove(t, a) = 0 BY <2>4 DEF StakeMove
    <3> QED BY <2>1, <2>2, <3>1
  <2> QED BY <2>3, <2>4
<1> QED BY <1>1, <1>2, <1>3, <1>4 DEF Solvent

\* Integer division rounds down.
LEMMA DivDown ==
  ASSUME NEW n \in Nat, NEW d \in Nat \ {0}
  PROVE  n \div d \in Nat /\ (n \div d) * d <= n
  OBVIOUS

\* Factors keep an order, and give it back.
LEMMA TimesOrder ==
  ASSUME NEW a \in Nat, NEW b \in Nat, NEW d \in Nat \ {0}
  PROVE  a * d <= b * d <=> a <= b
<1>1. CASE a <= b
  <2>1. PICK k \in Nat : b = a + k BY <1>1
  <2>2. b * d = a * d + k * d /\ k * d \in Nat /\ a * d \in Nat BY <2>1
  <2> QED BY <1>1, <2>2
<1>2. CASE a > b
  <2>1. PICK k \in Nat : a = b + 1 + k BY <1>2
  <2>2. a * d = b * d + d + k * d /\ k * d \in Nat /\ b * d \in Nat BY <2>1
  <2> QED BY <1>2, <2>2
<1> QED BY <1>1, <1>2

\* A share is a natural, and two shares that are together no more than the
\* whole take no more than there is.
LEMMA ShareBounds ==
  ASSUME NEW n \in Nat, NEW a \in Nat, NEW b \in Nat, a + b <= BpsDenom
  PROVE  /\ Share(n, a) \in Nat /\ Share(n, b) \in Nat
         /\ Share(n, a) + Share(n, b) <= n
<1> DEFINE x == Share(n, a)
           y == Share(n, b)
<1>1. BpsDenom \in Nat \ {0} BY BoundsAssumption
<1>2. n * a \in Nat /\ n * b \in Nat OBVIOUS
<1>3. /\ x \in Nat /\ x * BpsDenom <= n * a
      /\ y \in Nat /\ y * BpsDenom <= n * b
  BY <1>1, <1>2, DivDown DEF Share
<1> HIDE DEF x, y
<1>4. (x + y) * BpsDenom <= n * (a + b)
  <2>1. (x + y) * BpsDenom = x * BpsDenom + y * BpsDenom BY <1>1, <1>3
  <2>2. n * (a + b) = n * a + n * b OBVIOUS
  <2>3. x * BpsDenom \in Nat /\ y * BpsDenom \in Nat BY <1>1, <1>3
  <2> QED BY <1>2, <1>3, <2>1, <2>2, <2>3
<1>5. n * (a + b) <= n * BpsDenom
  <2>1. PICK k \in Nat : BpsDenom = a + b + k BY <1>1
  <2>2. n * BpsDenom = n * (a + b) + n * k /\ n * k \in Nat /\ n * (a + b) \in Nat
    BY <2>1
  <2> QED BY <2>2
<1>6. (x + y) * BpsDenom <= n * BpsDenom
  <2>1. (x + y) * BpsDenom \in Nat /\ n * (a + b) \in Nat /\ n * BpsDenom \in Nat
    BY <1>1, <1>3
  <2> QED BY <1>4, <1>5, <2>1
<1>7. x + y <= n BY <1>1, <1>3, <1>6, TimesOrder
<1> QED BY <1>3, <1>7 DEF x, y

\* The three parts of a reward are naturals and add up to it.
LEMMA RewardParts ==
  ASSUME NEW b, b.reward \in Nat
  PROVE  /\ RewardOf(b).producer \in Nat /\ RewardOf(b).dividend \in Nat
         /\ RewardOf(b).treasury \in Nat
         /\ RewardOf(b).producer + RewardOf(b).dividend + RewardOf(b).treasury = b.reward
<1> DEFINE cut  == Share(b.reward, TreasuryBps)
           tip  == Share(b.reward, OpenTipBps)
           pool == Share(b.reward, BondedDividendBps)
<1>1. /\ cut \in Nat /\ tip \in Nat /\ pool \in Nat
      /\ cut + tip <= b.reward /\ cut + pool <= b.reward
  BY BoundsAssumption, SharesAssumption, ShareBounds
<1> HIDE DEF cut, tip, pool
<1>2. CASE b.lane = "open"
  <2>1. RewardOf(b) = [producer |-> tip, dividend |-> b.reward - cut - tip, treasury |-> cut]
    BY <1>2 DEF RewardOf, Split, cut, tip
  <2> QED BY <1>1, <2>1
<1>3. CASE b.lane # "open"
  <2>1. RewardOf(b) = [producer |-> b.reward - cut - pool, dividend |-> pool, treasury |-> cut]
    BY <1>3 DEF RewardOf, Split, cut, pool
  <2> QED BY <1>1, <2>1
<1> QED BY <1>2, <1>3

\* A burn leaves the treasury what it does not take.
LEMMA BurnBounds ==
  ASSUME NEW L \in Ledgers, NEW b, b.reward \in Nat, NEW h, L.balance["treasury"] >= 0
  PROVE  /\ BurnAt(L, b, h) \in Nat
         /\ BurnAt(L, b, h) <= L.balance["treasury"] + RewardOf(b).treasury
<1>1. PICK n : n = L.balance["treasury"] + RewardOf(b).treasury OBVIOUS
<1>2. n \in Nat
  <2>1. L.balance["treasury"] \in Int BY LedgerTypes DEF Holders, Reserved
  <2> QED BY <1>1, <2>1, RewardParts
<1>3. BurnAt(L, b, h) = BurnDue(L, h, n) BY <1>1 DEF BurnAt
<1>4. BurnDue(L, h, n) = 0 \/ (n > RunwayFloor /\ BurnDue(L, h, n) = Share(n - RunwayFloor, BurnBps))
  BY DEF BurnDue
<1>5. CASE BurnDue(L, h, n) = 0 BY <1>1, <1>2, <1>3, <1>5
<1>6. CASE n > RunwayFloor /\ BurnDue(L, h, n) = Share(n - RunwayFloor, BurnBps)
  <2>1. PICK k \in Nat : k = n - RunwayFloor /\ k <= n BY <1>2, <1>6, BoundsAssumption
  <2>2. BurnBps \in Nat /\ BurnBps + 0 <= BpsDenom BY BoundsAssumption, SharesAssumption
  <2>3. Share(k, BurnBps) \in Nat /\ Share(k, 0) \in Nat /\ Share(k, BurnBps) + Share(k, 0) <= k
    BY <2>2, ShareBounds
  <2>4. Share(k, BurnBps) <= k BY <2>3
  <2> QED BY <1>1, <1>2, <1>3, <1>6, <2>1, <2>3, <2>4
<1> QED BY <1>4, <1>5, <1>6

\* A reward takes nothing from anybody, and a burn no more than there is.
LEMMA SealSolvent ==
  ASSUME NEW L \in Ledgers, NEW h \in Heights, Solvent(L),
         NEW b, b.reward \in Nat, b.creator \in Accounts
  PROVE  Solvent(Seal(L, b, h))
<1>1. PICK M \in Ledgers : M = Seal(L, b, h) BY SealTyped
<1>2. /\ M.balance = [a \in Holders |-> L.balance[a] + RewardMove(b, a)
                                        - (IF a = "treasury" THEN BurnAt(L, b, h) ELSE 0)]
      /\ M.earned = Add(L.earned, b.creator, RewardOf(b).producer)
      /\ M.bonded = L.bonded
  BY <1>1 DEF Seal
<1>3. PICK x \in Nat, y \in Nat, z \in Nat :
        x = RewardOf(b).producer /\ y = RewardOf(b).dividend /\ z = RewardOf(b).treasury
  BY RewardParts
<1>4. ASSUME NEW a \in Holders PROVE M.balance[a] >= 0
  <2>1. L.balance[a] \in Int /\ L.balance[a] >= 0 /\ L.balance["treasury"] >= 0
    BY <1>4, LedgerTypes DEF Solvent, Holders, Reserved
  <2>2. PICK n \in Nat : n = BurnAt(L, b, h) /\ n <= L.balance["treasury"] + z
    BY <1>3, <2>1, BurnBounds
  <2>3. RewardMove(b, a) = (IF a = b.creator THEN x ELSE 0)
                             + (IF a = "dividend_pool" THEN y ELSE 0)
                             + (IF a = "treasury" THEN z ELSE 0)
    BY <1>3 DEF RewardMove
  <2>4. M.balance[a] = L.balance[a] + RewardMove(b, a) - (IF a = "treasury" THEN n ELSE 0)
    BY <1>2, <1>4, <2>2
  <2> QED BY <2>1, <2>2, <2>3, <2>4
<1>5. ASSUME NEW a \in Accounts PROVE M.earned[a] >= 0
  <2>1. L.earned \in [Accounts -> Int] BY LedgerTypes
  <2>2. L.earned[a] >= 0 BY <1>5 DEF Solvent
  <2> QED BY <1>2, <1>3, <1>5, <2>1, <2>2 DEF Add
<1> QED BY <1>1, <1>2, <1>4, <1>5 DEF Solvent

=============================================================================
