--------------------------- MODULE RewardsProofs ----------------------------
(***************************************************************************)
(* Theorems about Rewards.  First, how much the allocation of the rewards  *)
(* of a block distributes, against what was collected.  Then the steps of  *)
(* RewardsSteps are put together: the invariants that TrackingProofs       *)
(* proves of Tracking are carried over to Rewards, the laws of sums are    *)
(* taken from SumTheorems, and every invariant follows by induction.       *)
(***************************************************************************)
EXTENDS RewardsSteps
-----------------------------------------------------------------------------
(* Rounding: what a quotient and a share are at most. *)
LEMMA DivWithin ==
    ASSUME NEW n \in Nat, NEW d \in Nat \ {0}
    PROVE  n \div d \in Nat /\ d * (n \div d) <= n
OBVIOUS

LEMMA RoundIntWithin ==
    ASSUME NEW n \in Nat, NEW d \in Nat \ {0}
    PROVE  2 * (d * RoundInt(n, d)) <= 2 * n + d
<1> DEFINE q == n \div d
           r == n % d
<1>1. q \in Nat /\ r \in 0..(d - 1) /\ n = d * q + r
  OBVIOUS
<1>2. (RoundInt(n, d) = q + 1 /\ 2 * r >= d) \/ RoundInt(n, d) = q
  BY <1>1 DEF RoundInt
<1> HIDE DEF q, r
<1>3. d * (q + 1) = d * q + d /\ d * q \in Nat
  BY <1>1
<1>4. CASE RoundInt(n, d) = q + 1 /\ 2 * r >= d
  BY <1>1, <1>3, <1>4
<1>5. CASE RoundInt(n, d) = q
  BY <1>1, <1>3, <1>5
<1> QED
  BY <1>2, <1>4, <1>5, Zenon

LEMMA TimesMonotone ==
    ASSUME NEW a \in Nat, NEW b \in Nat, NEW k \in Nat, a <= b
    PROVE  k * a <= k * b
OBVIOUS

LEMMA TimesCancel ==
    ASSUME NEW a \in Nat, NEW b \in Nat, NEW k \in Nat \ {0}, k * a <= k * b
    PROVE  a <= b
OBVIOUS

LEMMA ScaledSum ==
    ASSUME NEW k \in Nat, NEW l \in Nat, NEW a \in Nat, NEW b \in Nat, NEW x \in Nat, NEW y \in Nat,
           k * a <= l * x, k * b <= l * y, NEW d \in Nat, d <= a + b
    PROVE  k * d <= l * (x + y)
<1>1. k * d <= k * (a + b)
  BY TimesMonotone
<1>2. k * (a + b) = k * a + k * b /\ l * (x + y) = l * x + l * y
  OBVIOUS
<1>3. /\ k * a \in Nat /\ k * b \in Nat /\ l * x \in Nat /\ l * y \in Nat /\ k * d \in Nat
      /\ k * (a + b) \in Nat
  OBVIOUS
<1> QED
  BY <1>1, <1>2, <1>3

LEMMA QuoWithin ==
    ASSUME NEW a \in Nat, NEW b \in Nat \ {0}
    PROVE  2 * (b * Quo(a, b)) <= 2 * (Precision * a) + b
<1>1. PICK P \in Nat \ {0} : P = Precision
  BY RewardsAssumptions, Zenon
<1>2. PICK n \in Nat : n = (a * P * P) \div b /\ b * n <= a * P * P
  <2>1. a * P * P \in Nat
    OBVIOUS
  <2> QED
    BY <2>1, DivWithin, Zenon
<1>3. PICK q \in Nat : q = Quo(a, b)
  BY QuoNat, Zenon
<1>4. 2 * (P * q) <= 2 * n + P
  BY <1>1, <1>2, <1>3, RoundIntWithin, Zenon DEF Quo
<1>5. b * (2 * (P * q)) <= b * (2 * n + P)
  BY <1>4, TimesMonotone
<1>6. /\ b * (2 * (P * q)) = P * (2 * (b * q))
      /\ b * (2 * n + P) = 2 * (b * n) + b * P
      /\ P * (2 * (P * a) + b) = 2 * (a * P * P) + b * P
  OBVIOUS
<1>7. P * (2 * (b * q)) <= P * (2 * (P * a) + b)
  BY <1>2, <1>5, <1>6
<1>8. 2 * (b * q) <= 2 * (P * a) + b
  BY <1>7, TimesCancel
<1> QED
  BY <1>1, <1>3, <1>8, Zenon

LEMMA QuoZero ==
    ASSUME NEW b \in Nat \ {0}
    PROVE  Quo(0, b) = 0
<1>1. PICK P \in Nat \ {0} : P = Precision
  BY RewardsAssumptions, Zenon
<1>2. 0 * P * P = 0 /\ 0 \div b = 0 /\ 0 \div P = 0 /\ 0 % P = 0
  OBVIOUS
<1>3. RoundInt(0, P) = 0
  BY <1>2 DEF RoundInt
<1> QED
  BY <1>1, <1>2, <1>3, Zenon DEF Quo

LEMMA TruncateZero ==
    ASSUME NEW amount \in Nat
    PROVE  MulTruncate(amount, 0) = 0
<1>1. PICK P \in Nat \ {0} : P = Precision
  BY RewardsAssumptions, Zenon
<1>2. amount * 0 = 0 /\ 0 \div P = 0
  OBVIOUS
<1> QED
  BY <1>1, <1>2, Zenon DEF MulTruncate
-----------------------------------------------------------------------------
(* Every rewards address may receive coins. *)
WalletsReceive ==
    \A c \in Contracts : HasRewardsAddress(c) => contractMetadata[c].rewardsAddress \notin Blocked

LEMMA WalletsStep ==
    ASSUME SettingsShape, WalletsReceive, [Next]_vars
    PROVE  WalletsReceive'
<1>1. CASE UNCHANGED contractMetadata
  BY <1>1, Zenon DEF WalletsReceive, HasRewardsAddress, HasMetadata
<1>2. \/ UNCHANGED contractMetadata
      \/ \E sender \in Addresses, c \in Contracts, updates \in MetaUpdates :
             SetContractMetadata(sender, c, updates)
  BY ZenonT(30) DEF Next, vars, settings, NextBlock, AnteHandle, MsgsSucceed, MsgsFail,
         SetFlatFee, WithdrawRewardsByRecordsLimit, WithdrawRewardsByRecordIDs,
         WithdrawRewardsByRecords, EndTransactions, UpdateParams, EndBlockCall,
         TrackingEndBlocker, RewardsEndBlocker, Halted, AtBound
<1>3. ASSUME NEW sender \in Addresses, NEW c \in Contracts, NEW updates \in MetaUpdates,
             SetContractMetadata(sender, c, updates)
      PROVE  WalletsReceive'
  <2>1. /\ contractMetadata' = [contractMetadata EXCEPT ![c] = UpdatedMetadata(sender, c, updates)]
        /\ updates.rewardsAddress # None => updates.rewardsAddress \notin Blocked
    BY <1>3, Zenon DEF SetContractMetadata, MayReceive
  <2>2. contractMetadata \in [Contracts -> Metadata \cup {None}]
    BY Zenon DEF SettingsShape
  <2>3. SUFFICES ASSUME NEW d \in Contracts, HasRewardsAddress(d)'
                 PROVE  contractMetadata'[d].rewardsAddress \notin Blocked
    BY Zenon DEF WalletsReceive
  <2>4. CASE d # c
    <3>1. contractMetadata'[d] = contractMetadata[d]
      BY <2>1, <2>2, <2>4, Zenon
    <3> QED
      BY <2>3, <3>1, Zenon DEF WalletsReceive, HasRewardsAddress, HasMetadata
  <2>5. CASE d = c
    <3>1. contractMetadata'[d] = UpdatedMetadata(sender, c, updates)
      BY <2>1, <2>2, <2>5, Zenon
    <3>2. /\ contractMetadata'[d].rewardsAddress # None
          /\ contractMetadata'[d].rewardsAddress =
                IF updates.rewardsAddress # None THEN updates.rewardsAddress
                ELSE IF HasMetadata(c) THEN contractMetadata[c].rewardsAddress ELSE None
      BY <2>3, <3>1 DEF HasRewardsAddress, UpdatedMetadata
    <3> QED
      BY <2>1, <3>2, Zenon DEF WalletsReceive, HasRewardsAddress
  <2> QED
    BY <2>4, <2>5, Zenon
<1> QED
  BY <1>1, <1>2, <1>3, Zenon

-----------------------------------------------------------------------------
(* How far the shares may exceed what is shared out, as two factors: k     *)
(* times the shares is at most l times the amount.  Each contract adds     *)
(* half a unit of precision at most.                                       *)
Factors(k, l) == k = 2 * Precision /\ l = 2 * Precision + Cardinality(Contracts)

LEMMA SharesWithin ==
    ASSUME SumLaws, NEW u, \A c \in Contracts : u[c] \in Nat,
           NEW b \in Nat \ {0}, SumFunctionOnSet(u, Contracts) <= b,
           NEW amount \in Nat, NEW k, NEW l, Factors(k, l),
           NEW share, \A c \in Contracts : share[c] = MulTruncate(amount, Quo(u[c], b))
    PROVE  k * SumFunctionOnSet(share, Contracts) <= l * amount
<1> DEFINE q == [c \in Contracts |-> Quo(u[c], b)]
<1>1. PICK P \in Nat \ {0} : P = Precision
  BY RewardsAssumptions, Zenon
<1>2. \A c \in Contracts : q[c] \in Nat /\ q[c] = Quo(u[c], b)
  BY QuoNat, Zenon
<1> HIDE DEF q
<1>3. \A c \in Contracts : share[c] \in Nat /\ P * share[c] <= amount * q[c]
  <2> TAKE c \in Contracts
  <2>1. PICK v \in Nat : v = q[c]
    BY <1>2, Zenon
  <2>2. share[c] = (amount * v) \div P /\ amount * v \in Nat
    BY <1>1, <1>2, <2>1 DEF MulTruncate
  <2> QED
    BY <2>1, <2>2, DivWithin, Zenon
<1>4. \A c \in Contracts : 2 * (b * q[c]) <= 2 * (P * u[c]) + b
  <2> TAKE c \in Contracts
  <2>1. 2 * (b * Quo(u[c], b)) <= 2 * (Precision * u[c]) + b
    BY QuoWithin, Zenon
  <2> QED
    BY <1>1, <1>2, <2>1, Zenon
<1>5. RoundedShares(Contracts, u, b, q, P, amount, share)
  BY <1>2, <1>3, <1>4, Zenon DEF RoundedShares
<1>6. IsFiniteSet(Contracts)
  BY RewardsAssumptions, Zenon
<1>7. (2 * P) * SumFunctionOnSet(share, Contracts) <= (2 * P + Cardinality(Contracts)) * amount
  BY <1>5, <1>6, Zenon DEF SumLaws, ShareLaw
<1> QED
  BY <1>1, <1>7, Zenon DEF Factors

LEMMA FactorsNat ==
    ASSUME SumLaws, NEW k, NEW l, Factors(k, l)
    PROVE  k \in Nat /\ l \in Nat
<1>1. Precision \in Nat /\ IsFiniteSet(Contracts)
  BY RewardsAssumptions, Zenon
<1>2. Cardinality(Contracts) \in Nat
  BY <1>1, Zenon DEF SumLaws, SizeLaw
<1> QED
  BY <1>1, <1>2 DEF Factors
-----------------------------------------------------------------------------
(* The shares: sums by contract and sums by transaction. *)
(* The contracts used no more gas in a transaction than its total. *)
LEMMA TxGasShared ==
    ASSUME SumLaws, T!IInv, NEW i, NEW used, \A c \in Contracts : used[c] = TxGasUsed(c, i)
    PROVE  SumFunctionOnSet(used, Contracts) <= T!GasOfTx(i)
<1> DEFINE all == T!GetContractOpInfoByTxID(i)
           own == [c \in Contracts |->
                      {o \in T!GetContractOpInfoByTxID(i) : contractOps[o].contract = c}]
<1>1. all \in SUBSET DOMAIN contractOps
  BY OpsOfTx, Zenon
<1>2. /\ \A c \in Contracts : own[c] \in SUBSET all
      /\ \A c, d \in Contracts : c # d => own[c] \cap own[d] = {}
  BY Zenon
<1>3. T!GasOfTx(i) = T!OpsGas(all) /\ \A c \in Contracts : TxGasUsed(c, i) = T!OpsGas(own[c])
  BY Zenon DEF T!GasOfTx, TxGasUsed
<1> HIDE DEF all, own
<1>4. PICK g : /\ \A o \in DOMAIN contractOps : g[o] = contractOps[o].gas /\ g[o] \in Nat
               /\ \A ops \in SUBSET DOMAIN contractOps :
                      IsFiniteSet(ops) /\ T!OpsGas(ops) = SumFunctionOnSet(g, ops)
  BY OpsGasIs, Zenon
<1>5. IsFiniteSet(all) /\ \A o \in all : g[o] \in Nat
  BY <1>1, <1>4, Zenon
<1>6. ASSUME NEW c \in Contracts PROVE used[c] = SumFunctionOnSet(g, own[c])
  <2>1. own[c] \in SUBSET DOMAIN contractOps
    BY <1>1, <1>2, Zenon
  <2> QED
    BY <1>3, <1>4, <2>1, Zenon
<1>7. IsFiniteSet(Contracts)
  BY RewardsAssumptions, Zenon
<1>8. SumFunctionOnSet(used, Contracts) <= SumFunctionOnSet(g, all)
  BY <1>2, <1>5, <1>6, <1>7, ZenonT(30) DEF SumLaws, PartsLaw
<1> QED
  BY <1>1, <1>3, <1>4, <1>8, Zenon

(* Nor in a block than is tracked in it. *)
LEMMA BlockGasShared ==
    ASSUME SumLaws, PoolTyped, T!IInv, NEW used, \A c \in Contracts : used[c] = BlockGasUsed(c)
    PROVE  SumFunctionOnSet(used, Contracts) <= TrackedGas
<1> DEFINE m == [c \in Contracts |-> [i \in BlockTxs |-> TxGasUsed(c, i)]]
           w == [i \in BlockTxs |-> [c \in Contracts |-> TxGasUsed(c, i)]]
           g == [i \in BlockTxs |-> T!GasOfTx(i)]
<1>1. \A c \in Contracts : \A i \in BlockTxs : m[c][i] \in Nat /\ w[i][c] = m[c][i]
  BY TxGasUsedNat, Zenon
<1>2. \A i \in BlockTxs : \A c \in Contracts : w[i][c] = TxGasUsed(c, i)
  BY Zenon
<1>3. \A c \in Contracts : DOMAIN m[c] = BlockTxs /\ used[c] = SumFunction(m[c])
  BY Zenon DEF BlockGasUsed
<1>4. TrackedGas = SumFunction(g) /\ DOMAIN g = BlockTxs /\ \A i \in BlockTxs : g[i] = T!GasOfTx(i)
  BY Zenon DEF TrackedGas
<1> HIDE DEF m, w, g
<1>5. \A c \in Contracts : used[c] = SumFunctionOnSet(m[c], BlockTxs)
  BY <1>3, Zenon DEF SumFunction
<1>6. \A i \in BlockTxs : g[i] \in Nat /\ 1 * SumFunctionOnSet(w[i], Contracts) <= 1 * g[i]
  <2> TAKE i \in BlockTxs
  <2>1. PICK v : v = w[i]
    BY Zenon
  <2>2. SumFunctionOnSet(v, Contracts) <= T!GasOfTx(i)
    BY <1>2, <2>1, TxGasShared, Zenon
  <2>3. T!GasOfTx(i) \in Nat
    BY OpsOfTx, OpsGasNat, Zenon DEF T!GasOfTx
  <2>4. SumFunctionOnSet(v, Contracts) \in Nat
    <3>1. IsFiniteSet(Contracts) /\ \A c \in Contracts : v[c] \in Nat
      <4>1. \A c \in Contracts : TxGasUsed(c, i) \in Nat
        BY TxGasUsedNat, Zenon
      <4> QED
        BY <1>2, <2>1, <4>1, RewardsAssumptions, Zenon
    <3> QED
      BY <3>1, Zenon DEF SumLaws, NatLaw
  <2>5. 1 * SumFunctionOnSet(v, Contracts) <= 1 * T!GasOfTx(i)
    BY <2>2, <2>3, <2>4
  <2> QED
    BY <1>4, <2>1, <2>3, <2>5, Zenon
<1>7. IsFiniteSet(BlockTxs) /\ IsFiniteSet(Contracts)
  BY TxsOfBlock, RewardsAssumptions, Zenon
<1>8. Transposed(m, w, Contracts, BlockTxs) /\ SumsOf(used, m, Contracts, BlockTxs)
  BY <1>1, <1>5, Zenon DEF Transposed, SumsOf
<1>9. 1 * SumFunctionOnSet(used, Contracts) <= 1 * SumFunctionOnSet(g, BlockTxs)
  <2>1. 1 \in Nat
    OBVIOUS
  <2> QED
    BY <1>6, <1>7, <1>8, <2>1, Zenon DEF SumLaws, RowsLaw
<1>10. SumFunctionOnSet(used, Contracts) \in Nat /\ SumFunctionOnSet(g, BlockTxs) \in Nat
  <2>1. (\A c \in Contracts : used[c] \in Nat) /\ \A i \in BlockTxs : g[i] \in Nat
    BY <1>6, InflationShareNat, Zenon
  <2> QED
    BY <1>7, <2>1, Zenon DEF SumLaws, NatLaw
<1>11. SumFunctionOnSet(used, Contracts) <= SumFunctionOnSet(g, BlockTxs)
  BY <1>9, <1>10
<1> QED
  BY <1>4, <1>11, Zenon DEF SumFunction

(* What a transaction's fees give a contract, 0 where it used no gas. *)
TxShare(c, i) ==
    IF TxGasUsed(c, i) > 0
    THEN MulTruncate(FeeRewards(i), Quo(TxGasUsed(c, i), txInfos[i].totalGas))
    ELSE 0

LEMMA TxFeesShared ==
    ASSUME SumLaws, PoolTyped, T!IInv, T!TotalGasIsSum, phase = "finalized",
           NEW k, NEW l, Factors(k, l),
           NEW i \in BlockTxs, NEW share, \A c \in Contracts : share[c] = TxShare(c, i)
    PROVE  k * SumFunctionOnSet(share, Contracts) <= l * FeeRewards(i)
<1> DEFINE used == [c \in Contracts |-> TxGasUsed(c, i)]
<1>1. \A c \in Contracts : used[c] = TxGasUsed(c, i) /\ used[c] \in Nat
  BY TxGasUsedNat, Zenon
<1> HIDE DEF used
<1>2. PICK b \in Nat : b = txInfos[i].totalGas /\ b = T!GasOfTx(i)
  BY TxGasTotal, Zenon
<1>3. SumFunctionOnSet(used, Contracts) <= b
  BY <1>1, <1>2, TxGasShared, Zenon
<1>4. IsFiniteSet(Contracts)
  BY RewardsAssumptions, Zenon
<1>5. PICK amount \in Nat : amount = FeeRewards(i)
  BY CollectedNat, Zenon
<1>6. CASE b = 0
  <2>1. \A c \in Contracts : share[c] = 0
    <3> TAKE c \in Contracts
    <3>1. TxGasUsed(c, i) <= b /\ TxGasUsed(c, i) \in Nat
      BY <1>2, TxGasWithin, TxGasUsedNat, Zenon
    <3> QED
      BY <1>6, <3>1 DEF TxShare
  <2>2. SumFunctionOnSet(share, Contracts) = 0
    BY <1>4, <2>1, Zenon DEF SumLaws, ZeroLaw
  <2>3. k \in Nat /\ l \in Nat
    BY FactorsNat, Zenon
  <2>4. k * 0 <= l * amount
    BY <2>3
  <2> QED
    BY <1>5, <2>2, <2>4, Zenon
<1>7. CASE b # 0
  <2>1. \A c \in Contracts : share[c] = MulTruncate(amount, Quo(used[c], b))
    <3> TAKE c \in Contracts
    <3>1. CASE used[c] > 0
      BY <1>1, <1>2, <1>5, <3>1, Zenon DEF TxShare
    <3>2. CASE used[c] = 0
      <4>1. share[c] = 0
        BY <1>1, <3>2, SMTT(30) DEF TxShare
      <4>2. Quo(0, b) = 0
        BY <1>7, QuoZero, Zenon
      <4>3. MulTruncate(amount, 0) = 0
        BY TruncateZero, Zenon
      <4> QED
        BY <3>2, <4>1, <4>2, <4>3, Zenon
    <3> QED
      BY <1>1, <3>1, <3>2
  <2>2. b \in Nat \ {0} /\ \A c \in Contracts : used[c] \in Nat
    BY <1>1, <1>7, Zenon
  <2>3. k * SumFunctionOnSet(share, Contracts) <= l * amount
    BY <1>3, <2>1, <2>2, SharesWithin, Zenon
  <2> QED
    BY <1>5, <2>3, Zenon
<1> QED
  BY <1>6, <1>7, Zenon

LEMMA FeeShareIs ==
    ASSUME SumLaws, PoolTyped, T!IInv, T!TotalGasIsSum, phase = "finalized", NEW c,
           NEW row, \A i \in BlockTxs : row[i] = TxShare(c, i)
    PROVE  (\A i \in BlockTxs : row[i] \in Nat) /\ FeeShare(c) = SumFunctionOnSet(row, BlockTxs)
<1> DEFINE own == {t \in BlockTxs : TxGasUsed(c, t) > 0}
           f == [i \in {t \in BlockTxs : TxGasUsed(c, t) > 0} |->
                    MulTruncate(FeeRewards(i), Quo(TxGasUsed(c, i), txInfos[i].totalGas))]
<1>1. FeeShare(c) = SumFunction(f) /\ DOMAIN f = own
  BY Zenon DEF FeeShare
<1>2. \A i \in own : f[i] = row[i]
  BY Zenon DEF TxShare
<1>3. ASSUME NEW i \in BlockTxs PROVE row[i] \in Nat
  <2>1. CASE TxGasUsed(c, i) > 0
    BY <2>1, TxShareNat, Zenon DEF TxShare
  <2>2. CASE ~(TxGasUsed(c, i) > 0)
    <3>1. row[i] = 0
      BY <2>2, Zenon DEF TxShare
    <3> QED
      BY <3>1
  <2> QED
    BY <2>1, <2>2, Zenon
<1>4. own \in SUBSET BlockTxs /\ \A i \in BlockTxs \ own : row[i] = 0
  BY Zenon DEF TxShare
<1> HIDE DEF f, own
<1>5. IsFiniteSet(BlockTxs) /\ IsFiniteSet(own)
  BY <1>4, TxsOfBlock, Zenon DEF SumLaws, SubsetLaw
<1>6. SumFunction(f) = SumFunctionOnSet(row, own)
  BY <1>1, <1>2, <1>5, Zenon DEF SumLaws, DomainLaw
<1>7. SumFunctionOnSet(row, own) = SumFunctionOnSet(row, BlockTxs)
  BY <1>3, <1>4, <1>5, Zenon DEF SumLaws, NonZeroLaw
<1> QED
  BY <1>1, <1>3, <1>6, <1>7, Zenon

LEMMA FeesShared ==
    ASSUME SumLaws, PoolTyped, T!IInv, T!TotalGasIsSum, phase = "finalized",
           NEW k, NEW l, Factors(k, l),
           NEW fees, \A c \in Contracts : fees[c] = FeeShare(c)
    PROVE  k * SumFunctionOnSet(fees, Contracts)
               <= l * SumFunction([i \in BlockTxs |-> FeeRewards(i)])
<1> DEFINE m == [c \in Contracts |-> [i \in BlockTxs |-> TxShare(c, i)]]
           w == [i \in BlockTxs |-> [c \in Contracts |-> TxShare(c, i)]]
           g == [i \in BlockTxs |-> FeeRewards(i)]
<1>1. /\ \A c \in Contracts : \A i \in BlockTxs : m[c][i] = TxShare(c, i)
      /\ \A i \in BlockTxs : \A c \in Contracts : w[i][c] = TxShare(c, i)
  BY Zenon
<1>2. DOMAIN g = BlockTxs /\ \A i \in BlockTxs : g[i] = FeeRewards(i) /\ g[i] \in Nat
  BY CollectedNat, Zenon
<1> HIDE DEF m, w, g
<1>3. ASSUME NEW c \in Contracts
      PROVE  /\ \A i \in BlockTxs : m[c][i] \in Nat
             /\ fees[c] = SumFunctionOnSet(m[c], BlockTxs)
  <2>1. PICK row : row = m[c]
    BY Zenon
  <2>2. \A i \in BlockTxs : row[i] = TxShare(c, i)
    BY <1>1, <2>1, Zenon
  <2>3. (\A i \in BlockTxs : row[i] \in Nat) /\ FeeShare(c) = SumFunctionOnSet(row, BlockTxs)
    BY <2>2, FeeShareIs, Zenon
  <2> QED
    BY <2>1, <2>3, Zenon
<1>4. ASSUME NEW i \in BlockTxs
      PROVE  g[i] \in Nat /\ k * SumFunctionOnSet(w[i], Contracts) <= l * g[i]
  <2>1. PICK col : col = w[i]
    BY Zenon
  <2>2. \A c \in Contracts : col[c] = TxShare(c, i)
    BY <1>1, <2>1, Zenon
  <2>3. k * SumFunctionOnSet(col, Contracts) <= l * FeeRewards(i)
    BY <2>2, TxFeesShared, Zenon
  <2> QED
    BY <1>2, <2>1, <2>3, Zenon
<1>5. Transposed(m, w, Contracts, BlockTxs) /\ SumsOf(fees, m, Contracts, BlockTxs)
  BY <1>1, <1>3, Zenon DEF Transposed, SumsOf
<1>6. IsFiniteSet(BlockTxs) /\ IsFiniteSet(Contracts)
  BY TxsOfBlock, RewardsAssumptions, Zenon
<1>7. k * SumFunctionOnSet(fees, Contracts) <= l * SumFunctionOnSet(g, BlockTxs)
  BY <1>4, <1>5, <1>6, FactorsNat, Zenon DEF SumLaws, RowsLaw
<1> QED
  BY <1>2, <1>7, Zenon DEF SumFunction, g

LEMMA TrackedGasNat ==
    ASSUME SumLaws, T!IInv
    PROVE  TrackedGas \in Nat
<1> DEFINE g == [i \in BlockTxs |-> T!GasOfTx(i)]
<1>1. \A i : T!GasOfTx(i) \in Nat
  BY OpsOfTx, OpsGasNat, Zenon DEF T!GasOfTx
<1>2. TrackedGas = SumFunction(g) /\ DOMAIN g = BlockTxs /\ \A i \in BlockTxs : g[i] \in Nat
  BY <1>1, Zenon DEF TrackedGas
<1> HIDE DEF g
<1> QED
  BY <1>2, TxsOfBlock, Zenon DEF SumLaws, DomainNatLaw

LEMMA InflationShared ==
    ASSUME SumLaws, PoolTyped, T!IInv, BlockGasLimit > 0 => TrackedGas <= BlockGasLimit,
           NEW k, NEW l, Factors(k, l),
           NEW shares, \A c \in Contracts : shares[c] = InflationShare(c)
    PROVE  k * SumFunctionOnSet(shares, Contracts) <= l * InflationRewards
<1>1. PICK amount \in Nat : amount = InflationRewards
  BY CollectedNat, Zenon
<1>2. IsFiniteSet(Contracts) /\ BlockGasLimit \in Nat
  BY RewardsAssumptions, Zenon
<1>3. CASE ~(InflationRewards > 0 /\ blockRewards[height].maxGas > 0)
  <2>1. \A c \in Contracts : shares[c] = 0
    BY <1>3, Zenon DEF InflationShare
  <2>2. SumFunctionOnSet(shares, Contracts) = 0
    BY <1>2, <2>1, Zenon DEF SumLaws, ZeroLaw
  <2>3. k \in Nat /\ l \in Nat
    BY FactorsNat, Zenon
  <2>4. k * 0 <= l * amount
    BY <2>3
  <2> QED
    BY <1>1, <2>2, <2>4, Zenon
<1>4. CASE InflationRewards > 0 /\ blockRewards[height].maxGas > 0
  <2>1. height \in DOMAIN blockRewards
    BY <1>4 DEF InflationRewards
  <2>2. blockRewards[height].maxGas = BlockGasLimit
    BY <2>1, Zenon DEF PoolTyped
  <2> DEFINE used == [c \in Contracts |-> BlockGasUsed(c)]
  <2>3. \A c \in Contracts : used[c] = BlockGasUsed(c) /\ used[c] \in Nat
    BY InflationShareNat, Zenon
  <2> HIDE DEF used
  <2>4. SumFunctionOnSet(used, Contracts) <= TrackedGas
    BY <2>3, BlockGasShared, Zenon
  <2>5. BlockGasLimit \in Nat \ {0} /\ SumFunctionOnSet(used, Contracts) <= BlockGasLimit
    <3>1. SumFunctionOnSet(used, Contracts) \in Nat
      BY <1>2, <2>3, Zenon DEF SumLaws, NatLaw
    <3>2. TrackedGas \in Nat
      BY TrackedGasNat, Zenon
    <3> QED
      BY <1>2, <1>4, <2>2, <2>4, <3>1, <3>2, SMTT(30)
  <2>6. \A c \in Contracts : shares[c] = MulTruncate(amount, Quo(used[c], BlockGasLimit))
    BY <1>1, <1>4, <2>2, <2>3, Zenon DEF InflationShare
  <2>7. k * SumFunctionOnSet(shares, Contracts) <= l * amount
    BY <2>2, <2>3, <2>5, <2>6, SharesWithin, Zenon
  <2> QED
    BY <1>1, <2>7, Zenon
<1> QED
  BY <1>3, <1>4, Zenon

(* The contracts are given no more than was collected, up to the factors.  *)
LEMMA DistributedWithin ==
    ASSUME SumLaws, PoolTyped, T!IInv, T!TotalGasIsSum, phase = "finalized",
           BlockGasLimit > 0 => TrackedGas <= BlockGasLimit, NEW k, NEW l, Factors(k, l)
    PROVE  k * RewardsDistributed <= l * RewardsTotal
<1> DEFINE shares == [c \in Contracts |-> InflationShare(c)]
           fees == [c \in Contracts |-> FeeShare(c)]
           collected == SumFunction([i \in BlockTxs |-> FeeRewards(i)])
<1>1. \A c \in Contracts : shares[c] = InflationShare(c) /\ shares[c] \in Nat
  BY InflationShareNat, Zenon
<1>2. \A c \in Contracts : fees[c] = FeeShare(c) /\ fees[c] \in Nat
  BY ContractRewardsNat, Zenon
<1> HIDE DEF shares, fees
<1>3. PICK f : /\ \A c \in Contracts : f[c] = ContractRewards(c) /\ f[c] \in Nat
               /\ \A S \in SUBSET Contracts :
                      /\ IsFiniteSet(S) /\ RewardsFor(S) \in Nat
                      /\ RewardsFor(S) = SumFunctionOnSet(f, S)
  BY RewardsForIs, Zenon
<1>4. IsFiniteSet(Contracts) /\ Recipients \in SUBSET Contracts
  BY RewardsAssumptions, Zenon DEF Recipients
<1>5. SumFunctionOnSet(f, Recipients) <= SumFunctionOnSet(f, Contracts)
  <2>1. \A c \in Contracts : f[c] \in Nat
    BY <1>3, Zenon
  <2> QED
    BY <1>4, <2>1, Zenon DEF SumLaws, SplitLaw
<1>6. SumFunctionOnSet(f, Contracts)
        = SumFunctionOnSet(shares, Contracts) + SumFunctionOnSet(fees, Contracts)
  <2>1. \A c \in Contracts : shares[c] \in Nat /\ fees[c] \in Nat /\ f[c] = shares[c] + fees[c]
    BY <1>1, <1>2, <1>3, Zenon DEF ContractRewards
  <2> QED
    BY <1>4, <2>1, Zenon DEF SumLaws, PlusLaw
<1>7. k * SumFunctionOnSet(shares, Contracts) <= l * InflationRewards
  BY <1>1, InflationShared, Zenon
<1>8. k * SumFunctionOnSet(fees, Contracts) <= l * collected
  BY <1>2, FeesShared, Zenon
<1>9. RewardsTotal = InflationRewards + collected
  BY Zenon DEF RewardsTotal
<1>10. collected \in Nat
  <2> DEFINE g == [i \in BlockTxs |-> FeeRewards(i)]
  <2>1. DOMAIN g = BlockTxs /\ \A i \in BlockTxs : g[i] \in Nat
    BY CollectedNat, Zenon
  <2> HIDE DEF g
  <2>2. SumFunction(g) \in Nat
    BY <2>1, TxsOfBlock, Zenon DEF SumLaws, DomainNatLaw
  <2> QED
    BY <2>2, Zenon DEF g
<1> HIDE DEF collected
<1>11. /\ SumFunctionOnSet(shares, Contracts) \in Nat /\ SumFunctionOnSet(fees, Contracts) \in Nat
       /\ SumFunctionOnSet(f, Recipients) \in Nat /\ InflationRewards \in Nat
  <2>1. RewardsFor(Recipients) \in Nat /\ RewardsFor(Recipients) = SumFunctionOnSet(f, Recipients)
    BY <1>3, <1>4, Zenon
  <2>2. (\A c \in Contracts : shares[c] \in Nat) /\ \A c \in Contracts : fees[c] \in Nat
    BY <1>1, <1>2, Zenon
  <2> QED
    BY <1>4, <2>1, <2>2, CollectedNat, SMTT(30) DEF SumLaws, NatLaw
<1>12. RewardsDistributed = SumFunctionOnSet(f, Recipients)
  BY <1>3, <1>4, Zenon DEF RewardsDistributed
<1>13. k \in Nat /\ l \in Nat
  BY FactorsNat, Zenon
<1> QED
  BY <1>5, <1>6, <1>7, <1>8, <1>9, <1>10, <1>11, <1>12, <1>13, ScaledSum

LEMMA HaltsOnlyIfShortHere ==
    ASSUME SumLaws, PoolTyped, PoolInv, WalletsReceive, RecordsOK, RecordsBacked,
           T!IInv, T!TotalGasIsSum
    PROVE  HaltsOnlyIfShort
<1>1. SUFFICES ASSUME phase = "finalized", RewardsDistributed <= RewardsTotal,
                      unfunded <= RewardsOf(DOMAIN records)
               PROVE  CanAllocate
  BY Zenon DEF HaltsOnlyIfShort
<1>2. bank[ContractRewardCollector] \in Nat /\ unfunded \in Nat
  BY CollectorNat, Zenon
<1>3. /\ RewardsFor(ToWallet) \in Nat /\ RewardsFor(Recipients \ ToWallet) \in Nat
      /\ RewardsDistributed = RewardsFor(ToWallet) + RewardsFor(Recipients \ ToWallet)
  BY <1>1, AllocatedAmounts, Zenon
<1>4. RewardsTotal \in Nat
  BY RewardsTotalNat, Zenon
<1>5. bank[ContractRewardCollector] + unfunded = RewardsOf(DOMAIN records) + RewardsTotal
  <2>1. Pending = InflationRewards + PendingFees
    BY <1>1, PendingIs, Zenon
  <2>2. Pending = RewardsTotal
    BY <2>1, TotalIsPending, Zenon
  <2> QED
    BY <2>2, Zenon DEF RecordsBacked
<1>6. RewardsOf(DOMAIN records) \in Nat
  BY RecordsNat, Zenon
<1>7. \A c \in ToWallet : contractMetadata[c].rewardsAddress \notin Blocked
  BY Zenon DEF ToWallet, Recipients, WalletsReceive
<1>8. RewardsLeftovers = RewardsTotal - RewardsDistributed
  BY Zenon DEF RewardsLeftovers
<1>9. /\ RewardsLeftovers >= 0
      /\ RewardsFor(ToWallet) + RewardsLeftovers <= bank[ContractRewardCollector]
  BY <1>1, <1>2, <1>3, <1>4, <1>5, <1>6, <1>8, SMTT(30)
<1> QED
  BY <1>7, <1>9, Zenon DEF CanAllocate
-----------------------------------------------------------------------------
(* The inductive invariant: what is proved of it above, one step and the   *)
(* initial state.                                                          *)
Recorded == SettingsShape /\ FlatFeeHasRecipient /\ PoolInv /\ RecordsOK /\ PoolTyped
Tracked == T!IInv /\ T!TotalGasIsSum /\ T!TypeOK
Solvent == RecordsBacked /\ WalletsReceive

LEMMA RecordedStep ==
    ASSUME SumLaws, Recorded, Tracked, [Next]_vars
    PROVE  Recorded'
<1>1. /\ SettingsShape /\ FlatFeeHasRecipient /\ PoolInv /\ RecordsOK /\ PoolTyped
      /\ T!IInv /\ T!TotalGasIsSum
  BY Zenon DEF Recorded, Tracked
<1>2. SettingsShape' /\ FlatFeeHasRecipient'
  BY <1>1, SettingsStep, Zenon
<1>3. PoolInv'
  BY <1>1, PoolStep, Zenon
<1>4. RecordsOK'
  BY <1>1, RecordsStep, Zenon
<1>5. PoolTyped'
  BY <1>1, PoolTypedStep, Zenon
<1> QED
  BY <1>2, <1>3, <1>4, <1>5, Zenon DEF Recorded

LEMMA RecordedInit == Init => Recorded
<1> SUFFICES ASSUME Init PROVE Recorded
  BY Zenon
<1>1. SettingsShape /\ FlatFeeHasRecipient /\ PoolInv
  BY InitInv, Zenon
<1>2. RecordsOK
  <2>1. recordID = 0 /\ records = << >> /\ recordIndex = {}
    BY Zenon DEF Init
  <2> QED
    BY <2>1 DEF RecordsOK, RecordIndexAgrees
<1>3. bank \in [Holders -> Nat]
  <2>1. bank = [a \in Holders |-> IF a \in Addresses THEN InitialFunds[a] ELSE 0]
    BY Zenon DEF Init
  <2>2. \A a \in Addresses : InitialFunds[a] \in Nat
    BY RewardsAssumptions, Zenon
  <2> QED
    BY <2>1, <2>2, Zenon
<1>4. params \in ParamSets /\ minConsFee = 0 /\ unfunded = 0 /\ blockRewards = << >> /\ txRewards = << >>
  BY Zenon DEF Init
<1>5. PoolTyped
  BY <1>3, <1>4 DEF PoolTyped
<1> QED
  BY <1>1, <1>2, <1>5, Zenon DEF Recorded

LEMMA RecordedTypes ==
    ASSUME Recorded, Tracked
    PROVE  TypeOK
<1>1. T!TypeOK
  BY Zenon DEF Tracked
<1>2. params \in Params
  BY RewardsAssumptions, Zenon DEF Recorded, PoolTyped
<1>3. flatFees \in [Contracts -> Nat] /\ contractMetadata \in [Contracts -> Metadata \cup {None}]
  BY Zenon DEF Recorded, SettingsShape
<1>4. /\ minConsFee \in Nat /\ unfunded \in Nat /\ bank \in [Holders -> Nat]
      /\ blockRewards \in [DOMAIN blockRewards -> [inflationRewards : Nat, maxGas : Nat]]
      /\ txRewards \in [DOMAIN txRewards -> [height : Nat, feeRewards : Nat]]
  <2>1. [inflationRewards : Nat, maxGas : {BlockGasLimit}] \subseteq
            [inflationRewards : Nat, maxGas : Nat]
    BY RewardsAssumptions
  <2> QED
    BY <2>1, Zenon DEF Recorded, PoolTyped
<1>5. /\ DOMAIN records \subseteq 1..recordID
      /\ records \in [DOMAIN records -> [rewardsAddress : Addresses, rewards : Nat]]
  BY Zenon DEF Recorded, RecordsOK, Record
<1> QED
  BY <1>1, <1>2, <1>3, <1>4, <1>5, Zenon DEF TypeOK

LEMMA BackedInit ==
    ASSUME SumLaws, Init
    PROVE  RecordsBacked
<1>1. DOMAIN records = {} /\ phase = "allocated"
  BY DEF Init, T!Init
<1>2. RewardsOf(DOMAIN records) = 0
  <2>1. RewardsOf(DOMAIN records) = SumFunction([i \in {} |-> records[i].rewards])
    BY <1>1, Zenon DEF RewardsOf
  <2>2. DOMAIN [i \in {} |-> records[i].rewards] = {}
    BY Zenon
  <2> QED
    BY <2>1, <2>2, Zenon DEF SumLaws, EmptyLaw, SumFunction
<1>3. bank[ContractRewardCollector] = 0 /\ unfunded = 0
  BY RewardsAssumptions, Zenon DEF Init, Holders
<1>4. Pending = 0
  BY <1>1, Zenon DEF Pending
<1> QED
  BY <1>2, <1>3, <1>4 DEF RecordsBacked

LEMMA SolventInit ==
    ASSUME SumLaws, \A c \in Contracts : InitialMetadata[c] # None =>
               InitialMetadata[c].rewardsAddress \notin Blocked
    PROVE  Init => Solvent
<1> SUFFICES ASSUME Init PROVE Solvent
  BY Zenon
<1>1. RecordsBacked
  BY BackedInit, Zenon
<1>2. WalletsReceive
  BY Zenon DEF Init, WalletsReceive, HasRewardsAddress, HasMetadata
<1> QED
  BY <1>1, <1>2, Zenon DEF Solvent

LEMMA BackedKept ==
    ASSUME SumLaws, RecordsBacked, Recorded, Tracked, [Next]_vars
    PROVE  RecordsBacked'
<1>1. /\ SettingsShape /\ FlatFeeHasRecipient /\ PoolInv /\ RecordsOK /\ PoolTyped
      /\ T!IInv /\ T!TotalGasIsSum
  BY Zenon DEF Recorded, Tracked
<1> QED
  BY <1>1, BackedStep, Zenon

LEMMA SolventKept ==
    ASSUME SumLaws, Solvent, Recorded, Tracked, [Next]_vars
    PROVE  Solvent'
<1>1. SettingsShape /\ FlatFeeHasRecipient /\ PoolInv /\ RecordsOK /\ PoolTyped
  BY Zenon DEF Recorded
<1>2. RecordsBacked /\ WalletsReceive
  BY Zenon DEF Solvent
<1>3. RecordsBacked'
  BY <1>2, BackedKept, Zenon
<1>4. WalletsReceive'
  BY <1>1, <1>2, WalletsStep, Zenon
<1> QED
  BY <1>3, <1>4, Zenon DEF Solvent

LEMMA SolventAllocates ==
    ASSUME SumLaws, Solvent, Recorded, Tracked
    PROVE  HaltsOnlyIfShort
<1>1. /\ PoolInv /\ RecordsOK /\ PoolTyped /\ RecordsBacked /\ WalletsReceive
      /\ T!IInv /\ T!TotalGasIsSum
  BY Zenon DEF Recorded, Tracked, Solvent
<1> QED
  BY <1>1, HaltsOnlyIfShortHere, Zenon

(* A bound by the factors is no excess when the whole is small. *)
LEMMA NoCoinInExcess ==
    ASSUME NEW k \in Nat \ {0}, NEW n \in Nat, NEW d \in Nat, NEW t \in Nat,
           k * d <= (k + n) * t, n * t < k
    PROVE  d <= t
<1>1. (k + n) * t = k * t + n * t /\ k * (t + 1) = k * t + k
  OBVIOUS
<1>2. k * t \in Nat /\ n * t \in Nat /\ k * d \in Nat
  OBVIOUS
<1>3. k * d < k * (t + 1)
  BY <1>1, <1>2
<1>4. SUFFICES ASSUME d >= t + 1 PROVE FALSE
  OBVIOUS
<1>5. k * (t + 1) <= k * d
  BY <1>4, TimesMonotone
<1> QED
  BY <1>3, <1>5

LEMMA RecordedShares ==
    ASSUME SumLaws, Recorded, Tracked
    PROVE  SharesBounded
<1>1. PoolTyped /\ T!IInv /\ T!TotalGasIsSum
  BY Zenon DEF Recorded, Tracked
<1>2. SUFFICES ASSUME phase = "finalized", BlockGasLimit > 0 => TrackedGas <= BlockGasLimit
               PROVE  /\ (2 * Precision) * RewardsDistributed
                             <= (2 * Precision + Cardinality(Contracts)) * RewardsTotal
                      /\ Cardinality(Contracts) * RewardsTotal < 2 * Precision =>
                             RewardsDistributed <= RewardsTotal
  BY Zenon DEF SharesBounded
<1>3. (2 * Precision) * RewardsDistributed <= (2 * Precision + Cardinality(Contracts)) * RewardsTotal
  BY <1>1, <1>2, DistributedWithin, Zenon DEF Factors
<1>4. PICK k \in Nat \ {0} : k = 2 * Precision
  BY RewardsAssumptions
<1>5. PICK n \in Nat : n = Cardinality(Contracts)
  BY RewardsAssumptions, Zenon DEF SumLaws, SizeLaw
<1>6. PICK t \in Nat : t = RewardsTotal
  BY <1>1, RewardsTotalNat, Zenon
<1>7. PICK d \in Nat : d = RewardsDistributed
  <2>1. /\ RewardsFor(ToWallet) \in Nat /\ RewardsFor(Recipients \ ToWallet) \in Nat
        /\ RewardsDistributed = RewardsFor(ToWallet) + RewardsFor(Recipients \ ToWallet)
    BY <1>1, <1>2, AllocatedAmounts, Zenon
  <2>2. RewardsDistributed \in Nat
    BY <2>1
  <2> QED
    BY <2>2, Zenon
<1>8. n * t < k => d <= t
  <2>1. k * d <= (k + n) * t
    BY <1>3, <1>4, <1>5, <1>6, <1>7, Zenon
  <2> QED
    BY <2>1, NoCoinInExcess, Zenon
<1> QED
  BY <1>3, <1>4, <1>5, <1>6, <1>7, <1>8, Zenon

Paid ==
    LET removed == DOMAIN records \ DOMAIN records'
    IN  /\ \A i \in DOMAIN records \cap DOMAIN records' : records'[i] = records[i]
        /\ removed # {} => \A a \in Addresses :
               bank'[a] - bank[a] = RewardsOf({i \in removed : records[i].rewardsAddress = a})

LEMMA PaidKept ==
    ASSUME SumLaws, Recorded, Tracked, [Next]_vars
    PROVE  Paid
<1>1. /\ SettingsShape /\ FlatFeeHasRecipient /\ PoolInv /\ RecordsOK /\ PoolTyped
      /\ T!IInv /\ T!TotalGasIsSum
  BY Zenon DEF Recorded, Tracked
<1>2. /\ \A i \in DOMAIN records \cap DOMAIN records' : records'[i] = records[i]
      /\ DOMAIN records \ DOMAIN records' # {} => \A a \in Addresses :
             bank'[a] - bank[a] =
                 RewardsOf({i \in DOMAIN records \ DOMAIN records' :
                                records[i].rewardsAddress = a})
  BY <1>1, PaidStep, Zenon
<1> QED
  BY <1>2, Zenon DEF Paid
-----------------------------------------------------------------------------
(* Every behaviour: as long as x/tracking keeps its invariants.            *)
LEMMA RecordedAlways == SumLaws => (Spec /\ []Tracked => []Recorded)
<1> SUFFICES ASSUME SumLaws PROVE Spec /\ []Tracked => []Recorded
  BY Zenon
<1>1. Recorded /\ Tracked /\ [Next]_vars => Recorded'
  BY RecordedStep, Zenon
<1> QED
  BY <1>1, RecordedInit, PTL DEF Spec

LEMMA RecordsAlways ==
    SumLaws => (Spec /\ []Tracked => []TypeOK /\ []RecordIndexAgrees /\ PaidWhenRemoved)
<1> SUFFICES ASSUME SumLaws
             PROVE  Spec /\ []Tracked => []TypeOK /\ []RecordIndexAgrees /\ PaidWhenRemoved
  BY Zenon
<1>1. Recorded /\ Tracked => TypeOK
  BY RecordedTypes, Zenon
<1>2. Recorded => RecordIndexAgrees
  BY Zenon DEF Recorded, RecordsOK
<1>3. Recorded /\ Tracked /\ [Next]_vars => [Paid]_vars
  BY PaidKept, Zenon
<1> QED
  BY <1>1, <1>2, <1>3, RecordedAlways, PTL DEF Spec, PaidWhenRemoved, Paid

LEMMA SharesAlways == SumLaws => (Spec /\ []Tracked => []SharesBounded)
<1> SUFFICES ASSUME SumLaws PROVE Spec /\ []Tracked => []SharesBounded
  BY Zenon
<1>1. Recorded /\ Tracked => SharesBounded
  BY RecordedShares, Zenon
<1> QED
  BY <1>1, RecordedAlways, PTL

LEMMA BackedAlways == SumLaws => (Spec /\ []Tracked => []RecordsBacked)
<1> SUFFICES ASSUME SumLaws PROVE Spec /\ []Tracked => []RecordsBacked
  BY Zenon
<1>1. RecordsBacked /\ Recorded /\ Tracked /\ [Next]_vars => RecordsBacked'
  BY BackedKept, Zenon
<1>2. Init => RecordsBacked
  BY BackedInit, Zenon
<1> QED
  BY <1>1, <1>2, RecordedAlways, PTL DEF Spec

LEMMA AllocatesAlways ==
    ASSUME \A c \in Contracts : InitialMetadata[c] # None =>
               InitialMetadata[c].rewardsAddress \notin Blocked
    PROVE  SumLaws => (Spec /\ []Tracked => []HaltsOnlyIfShort)
<1> SUFFICES ASSUME SumLaws PROVE Spec /\ []Tracked => []HaltsOnlyIfShort
  BY Zenon
<1>1. Solvent /\ Recorded /\ Tracked /\ [Next]_vars => Solvent'
  BY SolventKept, Zenon
<1>2. Init => Solvent
  BY SolventInit, Zenon
<1>3. Solvent /\ Recorded /\ Tracked => HaltsOnlyIfShort
  BY SolventAllocates, Zenon
<1> QED
  BY <1>1, <1>2, <1>3, RecordedAlways, PTL DEF Spec
-----------------------------------------------------------------------------
(* x/tracking on its own, with what is proved of it. *)
TP == INSTANCE TrackingProofs

(* The operators of sums and finite sets are the same on both sides. *)
LEMMA SameSums ==
    /\ \A f : SumFunction(f) = TP!SumFunction(f)
    /\ \A f, S : SumFunctionOnSet(f, S) = TP!SumFunctionOnSet(f, S)
    /\ \A S : IsFiniteSet(S) = TP!IsFiniteSet(S)
    /\ \A S : Cardinality(S) = TP!Cardinality(S)
<1>1. \A f, S : SumFunctionOnSet(f, S) = TP!SumFunctionOnSet(f, S)
  BY Zenon DEF SumFunctionOnSet, FoldFunctionOnSet, MapThenFoldSet,
     TP!SumFunctionOnSet, TP!FoldFunctionOnSet, TP!MapThenFoldSet
<1>2. \A f : SumFunction(f) = TP!SumFunction(f)
  BY <1>1, Zenon DEF SumFunction, TP!SumFunction
<1>3. \A S : IsFiniteSet(S) = TP!IsFiniteSet(S)
  BY Zenon DEF IsFiniteSet, TP!IsFiniteSet
<1>4. \A S : Cardinality(S) = TP!Cardinality(S)
  BY Zenon DEF Cardinality, TP!Cardinality, IsFiniteSet, TP!IsFiniteSet
<1> QED
  BY <1>1, <1>2, <1>3, <1>4, Zenon

(* The laws of sums hold: SumTheorems proves them, and TrackingProofs      *)
(* extends it.                                                             *)
LEMMA LawsHold == SumLaws
<1>1. TP!SubsetLaw /\ TP!IntervalLaw /\ TP!SizeLaw /\ TP!EmptyLaw /\ TP!NatLaw =>
         SubsetLaw /\ IntervalLaw /\ SizeLaw /\ EmptyLaw /\ NatLaw
  BY SameSums, Zenon DEF SubsetLaw, IntervalLaw, SizeLaw, EmptyLaw, NatLaw,
     TP!SubsetLaw, TP!IntervalLaw, TP!SizeLaw, TP!EmptyLaw, TP!NatLaw
<1>2. TP!DomainLaw /\ TP!DomainNatLaw => DomainLaw /\ DomainNatLaw
  BY SameSums, Zenon DEF DomainLaw, DomainNatLaw, TP!DomainLaw, TP!DomainNatLaw
<1>3. TP!AddLaw /\ TP!ZeroLaw => AddLaw /\ ZeroLaw
  BY SameSums, Zenon DEF AddLaw, ZeroLaw, TP!AddLaw, TP!ZeroLaw
<1>4. TP!UnionLaw /\ TP!PartsLaw => UnionLaw /\ PartsLaw
  <2>1. TP!UnionLaw => UnionLaw
    BY SameSums, ZenonT(60) DEF UnionLaw, TP!UnionLaw
  <2>2. TP!PartsLaw => PartsLaw
    BY SameSums, ZenonT(60) DEF PartsLaw, TP!PartsLaw
  <2> QED
    BY <2>1, <2>2, Zenon
<1>5. TP!SplitLaw /\ TP!NonZeroLaw => SplitLaw /\ NonZeroLaw
  BY SameSums, Zenon DEF SplitLaw, NonZeroLaw, TP!SplitLaw, TP!NonZeroLaw
<1>6. TP!PlusLaw => PlusLaw
  BY SameSums, Zenon DEF PlusLaw, TP!PlusLaw
<1>7. TP!RankLaw /\ TP!RenumberLaw => RankLaw /\ RenumberLaw
  BY SameSums, SMTT(30) DEF RankLaw, RenumberLaw, TP!RankLaw, TP!RenumberLaw
<1>8. TP!RowsLaw => RowsLaw
  <2> SUFFICES ASSUME TP!RowsLaw, NEW S, NEW T1, NEW m, NEW w, NEW rows, NEW bound,
                      NEW k \in Nat, NEW l \in Nat, IsFiniteSet(S), IsFiniteSet(T1),
                      Transposed(m, w, S, T1), SumsOf(rows, m, S, T1),
                      \A y \in T1 : /\ bound[y] \in Nat
                                    /\ k * SumFunctionOnSet(w[y], S) <= l * bound[y]
               PROVE  k * SumFunctionOnSet(rows, S) <= l * SumFunctionOnSet(bound, T1)
    BY SMTT(30) DEF RowsLaw
  <2>1. /\ TP!IsFiniteSet(S) /\ TP!IsFiniteSet(T1)
        /\ TP!Transposed(m, w, S, T1) /\ TP!SumsOf(rows, m, S, T1)
    BY SameSums, Zenon DEF Transposed, SumsOf, TP!Transposed, TP!SumsOf
  <2>2. \A y \in T1 : /\ bound[y] \in Nat
                      /\ k * TP!SumFunctionOnSet(w[y], S) <= l * bound[y]
    BY SameSums, Zenon
  <2>3. k * TP!SumFunctionOnSet(rows, S) <= l * TP!SumFunctionOnSet(bound, T1)
    BY <2>1, <2>2, Zenon DEF TP!RowsLaw
  <2> QED
    BY <2>3, SameSums, Zenon
<1>9. TP!ShareLaw => ShareLaw
  <2> SUFFICES ASSUME TP!ShareLaw, NEW S, NEW u, NEW q, NEW share,
                      NEW b \in Nat \ {0}, NEW P \in Nat \ {0}, NEW amount \in Nat,
                      IsFiniteSet(S), RoundedShares(S, u, b, q, P, amount, share),
                      SumFunctionOnSet(u, S) <= b
               PROVE  /\ (2 * P) * SumFunctionOnSet(share, S) <= (2 * P + Cardinality(S)) * amount
                      /\ Cardinality(S) * amount < 2 * P => SumFunctionOnSet(share, S) <= amount
    BY SMTT(30) DEF ShareLaw
  <2>1. /\ TP!IsFiniteSet(S) /\ TP!RoundedShares(S, u, b, q, P, amount, share)
        /\ TP!SumFunctionOnSet(u, S) <= b
    BY SameSums, Zenon DEF RoundedShares, TP!RoundedShares
  <2>2. /\ (2 * P) * TP!SumFunctionOnSet(share, S) <= (2 * P + TP!Cardinality(S)) * amount
        /\ TP!Cardinality(S) * amount < 2 * P => TP!SumFunctionOnSet(share, S) <= amount
    BY <2>1, Zenon DEF TP!ShareLaw
  <2> QED
    BY <2>2, SameSums, Zenon
<1>10. TP!SumLaws
  <2>1. TP!TrackingAssumptions
    BY RewardsAssumptions DEF TP!TrackingAssumptions
  <2> QED
    BY <2>1, TP!SumLawsHold
<1> QED
  BY <1>1, <1>2, <1>3, <1>4, <1>5, <1>6, <1>7, <1>8, <1>9, <1>10, Zenon
     DEF SumLaws, TP!SumLaws

(* Every definition of Tracking is the same on both sides. *)
LEMMA SameDefinitions ==
    /\ \A txs : T!OpsOfTxs(txs) = TP!OpsOfTxs(txs)
    /\ \A i : T!GasOfTx(i) = TP!GasOfTx(i)
    /\ \A ops : T!OpsGas(ops) = TP!OpsGas(ops)
<1>1. \A f : T!SumFunction(f) = TP!SumFunction(f)
  BY Zenon DEF T!SumFunction, T!SumFunctionOnSet, T!FoldFunctionOnSet, T!MapThenFoldSet,
     TP!SumFunction, TP!SumFunctionOnSet, TP!FoldFunctionOnSet, TP!MapThenFoldSet
<1>2. \A ops : T!OpsGas(ops) = TP!OpsGas(ops)
  BY <1>1, Zenon DEF T!OpsGas, TP!OpsGas
<1>3. \A i : T!GetContractOpInfoByTxID(i) = TP!GetContractOpInfoByTxID(i)
  BY Zenon DEF T!GetContractOpInfoByTxID, TP!GetContractOpInfoByTxID
<1>4. \A txs : T!OpsOfTxs(txs) = TP!OpsOfTxs(txs)
  BY <1>3, Zenon DEF T!OpsOfTxs, TP!OpsOfTxs
<1>5. \A i : T!GasOfTx(i) = TP!GasOfTx(i)
  BY <1>2, <1>3, Zenon DEF T!GasOfTx, TP!GasOfTx
<1> QED
  BY <1>2, <1>4, <1>5, Zenon

LEMMA SameSteps == [T!Next]_(T!vars) => [TP!Next]_(TP!vars)
<1>1. UNCHANGED T!vars => UNCHANGED TP!vars
  BY DEF T!vars, T!blockVars, T!trackingVars, T!txVars, T!opVars,
     TP!vars, TP!blockVars, TP!trackingVars, TP!txVars, TP!opVars
<1>2. T!AnteHandle => TP!AnteHandle
  BY Zenon DEF T!AnteHandle, T!TrackNewTx, T!BlockIndexed, T!opVars,
     TP!AnteHandle, TP!TrackNewTx, TP!BlockIndexed, TP!opVars
<1>3. ASSUME NEW session, T!IngestGasRecord(session) PROVE TP!IngestGasRecord(session)
  BY <1>3, Zenon DEF T!IngestGasRecord, T!LastOpID, T!CreateContractOpInfo,
     TP!IngestGasRecord, TP!LastOpID, TP!CreateContractOpInfo
<1>4. ASSUME NEW session PROVE T!MsgsSucceed(session) => TP!MsgsSucceed(session)
  BY <1>3, Zenon DEF T!MsgsSucceed, T!txVars, TP!MsgsSucceed, TP!txVars
<1>5. ASSUME NEW session PROVE T!EndBlockCall(session) => TP!EndBlockCall(session)
  BY <1>3, Zenon DEF T!EndBlockCall, T!blockVars, T!txVars,
     TP!EndBlockCall, TP!blockVars, TP!txVars
<1>6. /\ T!MsgsFail => TP!MsgsFail
      /\ T!EndTransactions => TP!EndTransactions
      /\ T!NextBlock => TP!NextBlock
  BY Zenon DEF T!MsgsFail, T!EndTransactions, T!NextBlock, T!trackingVars, T!txVars, T!opVars,
     TP!MsgsFail, TP!EndTransactions, TP!NextBlock, TP!trackingVars, TP!txVars, TP!opVars
<1>7. T!EndBlocker => TP!EndBlocker
  BY SameDefinitions, Zenon DEF T!EndBlocker, T!FinalizeBlockTxTracking, T!GetTxInfosByBlock,
     T!opVars, TP!EndBlocker, TP!FinalizeBlockTxTracking, TP!GetTxInfosByBlock, TP!opVars
<1>8. T!RewardsEndBlocker => TP!RewardsEndBlocker
  BY SameDefinitions, Zenon DEF T!RewardsEndBlocker, T!RemoveBlockTrackingInfo, T!HeightToPrune,
     T!DeleteTxInfosCascade, T!DeleteTxInfosByBlock, T!DeleteContractOpsByTxID,
     T!GetTxInfosByBlock, T!trackingVars, T!txVars, T!opVars,
     TP!RewardsEndBlocker, TP!RemoveBlockTrackingInfo, TP!HeightToPrune,
     TP!DeleteTxInfosCascade, TP!DeleteTxInfosByBlock, TP!DeleteContractOpsByTxID,
     TP!GetTxInfosByBlock, TP!trackingVars, TP!txVars, TP!opVars
<1>9. T!Restart => TP!Restart
  BY Zenon DEF T!Restart, T!blockVars, TP!Restart, TP!blockVars
<1>10. T!AtBound => TP!AtBound
  BY <1>1, Zenon DEF T!AtBound, TP!AtBound
<1>11. T!Next => TP!Next
  <2>1. (\E s \in Sessions : T!MsgsSucceed(s)) => \E s \in Sessions : TP!MsgsSucceed(s)
    BY <1>4, Zenon
  <2>2. (\E s \in Sessions : T!EndBlockCall(s)) => \E s \in Sessions : TP!EndBlockCall(s)
    BY <1>5, Zenon
  <2> QED
    BY <1>2, <1>6, <1>7, <1>8, <1>9, <1>10, <2>1, <2>2, Zenon DEF T!Next, TP!Next
<1> QED
  BY <1>1, <1>11, Zenon

LEMMA SameInvariants ==
    /\ T!Init => TP!Init
    /\ TP!IInv => T!IInv
    /\ TP!TotalGasIsSum => T!TotalGasIsSum
    /\ TP!TypeOK => T!TypeOK
<1>1. T!Init => TP!Init
  BY Zenon DEF T!Init, TP!Init
<1>2. TP!IInv => T!IInv
  BY Zenon DEF T!IInv, T!Shape, T!Phases, T!ContractOps, T!IndexesAgree, T!OwnOpsReferToTx,
     T!WindowOnly, T!Ordered, T!Current,
     TP!IInv, TP!Shape, TP!Phases, TP!ContractOps, TP!IndexesAgree, TP!OwnOpsReferToTx,
     TP!WindowOnly, TP!Ordered, TP!Current
<1>3. TP!TotalGasIsSum => T!TotalGasIsSum
  BY SameDefinitions, Zenon DEF T!TotalGasIsSum, TP!TotalGasIsSum
<1>4. TP!TypeOK => T!TypeOK
  BY Zenon DEF T!TypeOK, T!Phases, T!TxInfos, T!ContractOps,
     TP!TypeOK, TP!Phases, TP!TxInfos, TP!ContractOps
<1> QED
  BY <1>1, <1>2, <1>3, <1>4, Zenon

(* Seen through Rewards, x/tracking keeps its invariants. *)
LEMMA TrackedAlways == Spec => []Tracked
<1>1. TP!TrackingAssumptions
  BY RewardsAssumptions DEF TP!TrackingAssumptions
<1>2. TP!Spec => []TP!IInv
  BY <1>1, TP!InductiveInvariant, Zenon
<1>3. TP!Spec => []TP!TotalGasIsSum
  BY <1>1, TP!TotalsAreSums, Zenon
<1>4. TP!Spec => []TP!TypeOK
  BY <1>1, TP!TypeCorrect, Zenon
<1>5. T!Spec => TP!Spec
  BY SameSteps, SameInvariants, PTL DEF T!Spec, TP!Spec
<1>6. TP!IInv /\ TP!TotalGasIsSum /\ TP!TypeOK => Tracked
  BY SameInvariants, Zenon DEF Tracked
<1>7. TP!Spec => []Tracked
  BY <1>2, <1>3, <1>4, <1>6, PTL
<1> QED
  BY <1>5, <1>7, ImplementsTracking, PTL

(* Every part of the state of x/rewards stays in its type: no balance and  *)
(* no record becomes negative, and no record is without an address.        *)
THEOREM TypeCorrect == Spec => []TypeOK
BY RecordsAlways, LawsHold, TrackedAlways, PTL

(* The Address index has one entry for each rewards record and no other,   *)
(* whatever records are created and withdrawn.                             *)
THEOREM RecordIndex == Spec => []RecordIndexAgrees
BY RecordsAlways, LawsHold, TrackedAlways, PTL

(* A record is removed only by a step that pays it out to its own address, *)
(* and no step changes a record.                                           *)
THEOREM Payments == Spec => PaidWhenRemoved
BY RecordsAlways, LawsHold, TrackedAlways, PTL

(* Whatever is minted and paid in fees, in a block within its gas limit    *)
(* the contracts are given at most half a unit of precision each more than *)
(* was collected, and nothing more when that is less than a coin.          *)
THEOREM Shares == Spec => []SharesBounded
BY SharesAlways, LawsHold, TrackedAlways, PTL

(* The module account holds exactly the tokens of the records and of the   *)
(* rewards of the running block, less the flat fees that were recorded     *)
(* while their coins went to the fee collector, whatever the parameters    *)
(* and however the calls come in.                                          *)
THEOREM Backed == Spec => []RecordsBacked
BY BackedAlways, LawsHold, TrackedAlways, PTL

(* AllocateBlockRewards panics only when the shares exceed what was        *)
(* collected or records without coins have been withdrawn, for every set   *)
(* of parameters, transactions and amounts, when no contract starts with a *)
(* blocked rewards address.                                                *)
THEOREM Allocates ==
    ASSUME \A c \in Contracts : InitialMetadata[c] # None =>
               InitialMetadata[c].rewardsAddress \notin Blocked
    PROVE  Spec => []HaltsOnlyIfShort
<1>1. SumLaws => (Spec /\ []Tracked => []HaltsOnlyIfShort)
  BY AllocatesAlways
<1> QED
  BY <1>1, LawsHold, TrackedAlways, PTL
=============================================================================
