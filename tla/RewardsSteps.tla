---------------------------- MODULE RewardsSteps ----------------------------
(***************************************************************************)
(* What the steps of Rewards keep: it uses x/tracking as Tracking          *)
(* specifies, the two modules prune together, a flat fee always has a      *)
(* recipient, a record is indexed and is removed only when it is paid, and *)
(* the module account holds what the records promise but for the flat fees *)
(* that did not reach it.  RewardsProofs draws the conclusions for every   *)
(* behaviour.                                                              *)
(***************************************************************************)
EXTENDS Rewards, SumLaws, TLAPS

(* Every step of Rewards is a step of Tracking, or leaves its variables    *)
(* alone.  A message of x/rewards is a transaction without contract calls. *)
LEMMA StepTracks ==
    ASSUME [Next]_vars
    PROVE  [T!Next]_(T!vars)
<1> USE DEF T!Next
<1>0. SUFFICES ASSUME Next PROVE T!Next \/ UNCHANGED T!vars
  BY Zenon
     DEF vars, trackingVars, txVars, opVars, T!vars, T!blockVars, T!trackingVars, T!txVars, T!opVars
<1>1. ASSUME NEW minted \in MintAmounts, NextBlock(minted) PROVE T!Next
  BY <1>1, Zenon DEF NextBlock
<1>2. ASSUME NEW tx \in Txs, AnteHandle(tx) PROVE T!Next
  BY <1>2, Zenon DEF AnteHandle
<1>3. ASSUME NEW session \in Sessions, MsgsSucceed(session) PROVE T!Next
  BY <1>3, Zenon DEF MsgsSucceed
<1>4. CASE MsgsFail
  BY <1>4, Zenon DEF MsgsFail
<1>5. CASE Message
  BY <1>5, Zenon DEF Message, txVars, opVars, T!MsgsFail, T!trackingVars, T!txVars, T!opVars
<1>6. CASE EndTransactions
  BY <1>6, Zenon DEF EndTransactions
<1>7. ASSUME NEW new \in ParamSets, UpdateParams(new) PROVE UNCHANGED T!vars
  BY <1>7, Zenon DEF UpdateParams, trackingVars, txVars, opVars,
     T!vars, T!blockVars, T!trackingVars, T!txVars, T!opVars
<1>8. ASSUME NEW session \in Sessions, EndBlockCall(session) PROVE T!Next
  BY <1>8, Zenon DEF EndBlockCall
<1>9. CASE TrackingEndBlocker
  BY <1>9, Zenon DEF TrackingEndBlocker
<1>10. CASE RewardsEndBlocker
  BY <1>10, Zenon DEF RewardsEndBlocker
<1>11. CASE Halted
  BY <1>11, Zenon DEF Halted, vars, trackingVars, txVars, opVars,
     T!vars, T!blockVars, T!trackingVars, T!txVars, T!opVars
<1>12. CASE AtBound
  BY <1>12, Zenon DEF AtBound
<1> QED
  BY <1>0, <1>1, <1>2, <1>3, <1>4, <1>5, <1>6, <1>7, <1>8, <1>9, <1>10, <1>11, <1>12, ZenonT(30)
     DEF Next, SetContractMetadata, SetFlatFee, WithdrawRewardsByRecordsLimit,
         WithdrawRewardsByRecordIDs, WithdrawRewardsByRecords

(* x/tracking, used by x/rewards, behaves as specified on its own: what is *)
(* proved of Tracking holds of the two together.                           *)
LEMMA ImplementsTracking == Spec => T!Spec
<1>1. Init => T!Init
  BY Zenon DEF Init
<1>2. [Next]_vars => [T!Next]_(T!vars)
  BY StepTracks, Zenon
<1> QED
  BY <1>1, <1>2, PTL DEF Spec, T!Spec
-----------------------------------------------------------------------------
SettingsShape ==
    /\ flatFees \in [Contracts -> Nat]
    /\ contractMetadata \in [Contracts -> Metadata \cup {None}]

(* Metadata is never removed and a rewards address never cleared. *)
LEMMA MetadataKeepsRecipient ==
    ASSUME SettingsShape, FlatFeeHasRecipient,
           NEW sender \in Addresses, NEW c \in Contracts, NEW updates \in MetaUpdates,
           SetContractMetadata(sender, c, updates)
    PROVE  SettingsShape' /\ FlatFeeHasRecipient'
<1> DEFINE new == UpdatedMetadata(sender, c, updates)
<1>1. /\ contractMetadata' = [contractMetadata EXCEPT ![c] = new]
      /\ UNCHANGED flatFees
  BY Zenon DEF SetContractMetadata
<1>2. updates \in [ownerAddress : Addresses \cup {None},
                   rewardsAddress : Addresses \cup {None}, withdrawToWallet : BOOLEAN]
  BY RewardsAssumptions, Zenon
<1>3. HasMetadata(c) => contractMetadata[c] \in Metadata
  BY Zenon DEF SettingsShape, HasMetadata
<1>4. new \in Metadata
  BY <1>2, <1>3, SMTT(30) DEF UpdatedMetadata, Metadata
<1>5. HasRewardsAddress(c) => new.rewardsAddress # None
  BY <1>2, <1>3, SMTT(30) DEF UpdatedMetadata, HasRewardsAddress, HasMetadata, Metadata
<1>6. new # None
  BY <1>4, RewardsAssumptions, Zenon
<1> HIDE DEF new
<1>7. SettingsShape'
  BY <1>1, <1>4, Zenon DEF SettingsShape
<1>8. FlatFeeHasRecipient'
  <2> SUFFICES ASSUME NEW d \in Contracts, flatFees[d] > 0 PROVE HasRewardsAddress(d)'
    BY <1>1, Zenon DEF FlatFeeHasRecipient
  <2>1. HasRewardsAddress(d)
    BY Zenon DEF FlatFeeHasRecipient
  <2>2. CASE d = c
    BY <2>1, <2>2, <1>1, <1>5, <1>6, SMTT(30) DEF SettingsShape, HasRewardsAddress, HasMetadata
  <2>3. CASE d # c
    BY <2>1, <2>3, <1>1, SMTT(30) DEF SettingsShape, HasRewardsAddress, HasMetadata
  <2> QED
    BY <2>2, <2>3, Zenon
<1> QED
  BY <1>7, <1>8, Zenon

LEMMA FlatFeeNeedsRecipient ==
    ASSUME SettingsShape, FlatFeeHasRecipient,
           NEW sender \in Addresses, NEW c \in Contracts, NEW amount \in FlatFeeAmounts,
           SetFlatFee(sender, c, amount)
    PROVE  SettingsShape' /\ FlatFeeHasRecipient'
<1>1. amount \in Nat
  BY RewardsAssumptions, Zenon
<1>2. /\ flatFees' = [flatFees EXCEPT ![c] = amount]
      /\ UNCHANGED contractMetadata
      /\ amount > 0 => HasRewardsAddress(c)
  BY Zenon DEF SetFlatFee, MayHaveFlatFee
<1> QED
  BY <1>1, <1>2, SMTT(30) DEF SettingsShape, FlatFeeHasRecipient, HasRewardsAddress, HasMetadata

(* The settings of contracts change in no other step. *)
LEMMA SettingsStep ==
    ASSUME SettingsShape, FlatFeeHasRecipient, [Next]_vars
    PROVE  SettingsShape' /\ FlatFeeHasRecipient'
<1>1. CASE UNCHANGED <<contractMetadata, flatFees>>
  BY <1>1, SMTT(30) DEF SettingsShape, FlatFeeHasRecipient, HasRewardsAddress, HasMetadata
<1>2. \/ UNCHANGED <<contractMetadata, flatFees>>
      \/ \E sender \in Addresses, c \in Contracts, updates \in MetaUpdates :
             SetContractMetadata(sender, c, updates)
      \/ \E sender \in Addresses, c \in Contracts, amount \in FlatFeeAmounts :
             SetFlatFee(sender, c, amount)
  BY ZenonT(30) DEF Next, vars, settings, NextBlock, AnteHandle, MsgsSucceed, MsgsFail,
         WithdrawRewardsByRecordsLimit, WithdrawRewardsByRecordIDs, WithdrawRewardsByRecords,
         EndTransactions, UpdateParams, EndBlockCall, TrackingEndBlocker, RewardsEndBlocker,
         Halted, AtBound
<1> QED
  BY <1>1, <1>2, MetadataKeepsRecipient, FlatFeeNeedsRecipient, Zenon
-----------------------------------------------------------------------------
PoolShape ==
    /\ height \in Nat /\ txInfoID \in Nat
    /\ DOMAIN txInfos \subseteq 1..txInfoID
    /\ DOMAIN blockRewards \subseteq Nat \ {0}

PoolInv == PoolShape /\ IndexedByHeight /\ PrunedTogether

LEMMA NextBlockPool ==
    ASSUME PoolInv, NEW minted \in MintAmounts, NextBlock(minted)
    PROVE  PoolInv'
<1>1. /\ phase = "allocated" /\ phase' = "deliver" /\ height' = height + 1
      /\ UNCHANGED <<txInfoID, txInfos, txBlockIndex, txRewards>>
  BY Zenon DEF NextBlock, T!NextBlock, T!trackingVars, T!txVars
<1>2. DOMAIN blockRewards' \subseteq DOMAIN blockRewards \cup {height + 1}
  BY Zenon DEF NextBlock, SendInflation, Put
<1>3. PruneAfter \in Nat
  BY RewardsAssumptions, Zenon
<1> QED
  BY <1>1, <1>2, <1>3, SMTT(30) DEF PoolInv, PoolShape, IndexedByHeight, PrunedTogether

LEMMA AnteHandlePool ==
    ASSUME PoolInv, NEW tx \in Txs, AnteHandle(tx)
    PROVE  PoolInv'
<1>1. /\ phase = "deliver" /\ phase' = "msgs" /\ UNCHANGED <<height, blockRewards>>
      /\ txInfoID' = txInfoID + 1
      /\ txInfos' = [i \in DOMAIN txInfos \cup {txInfoID + 1} |->
             IF i > txInfoID THEN [height |-> height, totalGas |-> 0] ELSE txInfos[i]]
      /\ txBlockIndex' = txBlockIndex \cup {<<height, txInfoID + 1>>}
  BY Zenon DEF AnteHandle, T!AnteHandle, T!TrackNewTx, T!BlockIndexed
<1>2. \/ UNCHANGED txRewards
      \/ \E r : txRewards' = Put(txRewards, txInfoID', [height |-> height, feeRewards |-> r])
  BY ZenonT(30) DEF AnteHandle, DeductFees, TrackFeeRebatesRewards
<1>3. /\ \A i \in DOMAIN txInfos : i \in DOMAIN txInfos' /\ txInfos'[i] = txInfos[i]
      /\ txInfoID + 1 \in DOMAIN txInfos' /\ txInfos'[txInfoID + 1].height = height
  BY <1>1 DEF PoolInv, PoolShape
<1>4. PoolShape'
  BY <1>1 DEF PoolInv, PoolShape
<1>5. IndexedByHeight'
  <2> SUFFICES ASSUME NEW entry \in txBlockIndex'
               PROVE  /\ entry[2] \in 1..txInfoID'
                      /\ entry[2] \in DOMAIN txInfos' => txInfos'[entry[2]].height = entry[1]
    BY Zenon DEF IndexedByHeight
  <2>1. CASE entry \in txBlockIndex
    <3>1. entry[2] \in 1..txInfoID
      BY <2>1, Zenon DEF PoolInv, IndexedByHeight
    <3>2. entry[2] \in DOMAIN txInfos' => entry[2] \in DOMAIN txInfos
      BY <1>1, <3>1, SMTT(30) DEF PoolInv, PoolShape
    <3> QED
      BY <2>1, <3>1, <3>2, <1>1, <1>3, SMTT(30) DEF PoolInv, PoolShape, IndexedByHeight
  <2>2. CASE entry = <<height, txInfoID + 1>>
    BY <2>2, <1>1, <1>3, SMTT(30) DEF PoolInv, PoolShape
  <2> QED
    BY <1>1, <2>1, <2>2, Zenon
<1>6. \A i \in DOMAIN txRewards' :
         i \in DOMAIN txInfos' /\ txInfos'[i].height = txRewards'[i].height
  BY <1>1, <1>2, <1>3, SMTT(30) DEF PoolInv, PrunedTogether, Put
<1>7. PrunedTogether'
  BY <1>1, <1>6, ZenonT(30) DEF PoolInv, PrunedTogether
<1> QED
  BY <1>4, <1>5, <1>7, SMTT(30) DEF PoolInv

LEMMA TotalsPool ==
    ASSUME PoolInv, TrackingEndBlocker
    PROVE  PoolInv'
<1>1. /\ phase' = "finalized" /\ phase = "endblock"
      /\ UNCHANGED <<height, txInfoID, txBlockIndex, blockRewards, txRewards>>
  BY Zenon DEF TrackingEndBlocker, T!EndBlocker, poolVars
<1>2. /\ DOMAIN txInfos' = DOMAIN txInfos
      /\ \A i \in DOMAIN txInfos : txInfos'[i].height = txInfos[i].height
  BY Zenon DEF TrackingEndBlocker, T!EndBlocker, T!FinalizeBlockTxTracking
<1> QED
  BY <1>1, <1>2, Zenon DEF PoolInv, PoolShape, IndexedByHeight, PrunedTogether

(* What x/tracking deletes for a height, it has under that height, and so  *)
(* has x/rewards.                                                          *)
LEMMA AllocatePool ==
    ASSUME PoolInv, RewardsEndBlocker
    PROVE  PoolInv'
<1> DEFINE h == height - PruneAfter
<1>1. phase' = "allocated" /\ UNCHANGED <<height, txInfoID>>
  BY Zenon DEF RewardsEndBlocker, T!RewardsEndBlocker, T!RemoveBlockTrackingInfo,
     T!DeleteTxInfosCascade, T!DeleteTxInfosByBlock, T!trackingVars, T!txVars
<1>2. PruneAfter \in Nat
  BY RewardsAssumptions, Zenon
<1>3. CASE ~(h > 0)
  <2>1. UNCHANGED <<txInfos, txBlockIndex, blockRewards, txRewards>>
    BY <1>3, Zenon DEF RewardsEndBlocker, T!RewardsEndBlocker, T!RemoveBlockTrackingInfo,
       T!HeightToPrune, T!trackingVars, T!txVars, poolVars
  <2> QED
    BY <1>1, <1>2, <1>3, <2>1, SMTT(30)
       DEF PoolInv, PoolShape, IndexedByHeight, PrunedTogether
<1>4. CASE h > 0
  <2> DEFINE txs == {i \in 1..txInfoID : <<h, i>> \in txBlockIndex}
  <2>1. /\ txInfos' = [i \in DOMAIN txInfos \ txs |-> txInfos[i]]
        /\ txBlockIndex' \subseteq txBlockIndex
    BY <1>4, ZenonT(30) DEF RewardsEndBlocker, T!RewardsEndBlocker, T!RemoveBlockTrackingInfo,
       T!HeightToPrune, T!DeleteTxInfosCascade, T!DeleteTxInfosByBlock, T!GetTxInfosByBlock
  <2>2. /\ blockRewards' = Without(blockRewards, {h})
        /\ txRewards' = Without(txRewards, {i \in DOMAIN txRewards : txRewards[i].height = h})
    BY <1>4, Zenon DEF RewardsEndBlocker, T!HeightToPrune, DeleteBlockRewardsCascade
  <2>3. \A i \in txs \cap DOMAIN txInfos : txInfos[i].height = h
    BY Zenon DEF PoolInv, IndexedByHeight
  <2> HIDE DEF txs
  <2>4. PoolShape'
    BY <1>1, <2>1, <2>2, Zenon DEF PoolInv, PoolShape, Without
  <2>5. IndexedByHeight'
    BY <1>1, <2>1, SMTT(30) DEF PoolInv, IndexedByHeight
  <2>6. \A i \in DOMAIN txRewards' :
           i \in DOMAIN txInfos' /\ txInfos'[i].height = txRewards'[i].height
    BY <2>1, <2>2, <2>3, SMTT(30) DEF PoolInv, PrunedTogether, Without
  <2>7. PrunedTogether'
    BY <1>1, <1>2, <2>2, <2>6, SMTT(30) DEF PoolInv, PoolShape, PrunedTogether, Without
  <2> QED
    BY <2>4, <2>5, <2>7, SMTT(30) DEF PoolInv
<1> QED
  BY <1>3, <1>4, Zenon

(* The other steps leave what is kept for a block alone. *)
LEMMA PoolStep ==
    ASSUME PoolInv, [Next]_vars
    PROVE  PoolInv'
<1> DEFINE Kept == /\ UNCHANGED <<height, txInfoID, txInfos, txBlockIndex, blockRewards, txRewards>>
                   /\ phase' = "allocated" => phase = "allocated"
<1>1. ASSUME Kept PROVE PoolInv'
  BY <1>1, Zenon DEF PoolInv, PoolShape, IndexedByHeight, PrunedTogether
<1>2. ASSUME NEW session \in Sessions, MsgsSucceed(session) PROVE Kept
  BY <1>2, Zenon DEF MsgsSucceed, T!MsgsSucceed, T!txVars, poolVars
<1>3. CASE MsgsFail
  BY <1>3, <1>1, Zenon DEF MsgsFail, T!MsgsFail, T!trackingVars, T!txVars, poolVars
<1>4. CASE Message
  BY <1>4, <1>1, Zenon DEF Message, txVars, poolVars
<1>5. CASE EndTransactions
  BY <1>5, <1>1, Zenon DEF EndTransactions, T!EndTransactions, T!trackingVars, T!txVars, poolVars
<1>6. ASSUME NEW new \in ParamSets, UpdateParams(new) PROVE Kept
  BY <1>6, Zenon DEF UpdateParams, trackingVars, txVars, poolVars
<1>7. ASSUME NEW session \in Sessions, EndBlockCall(session) PROVE Kept
  BY <1>7, Zenon DEF EndBlockCall, T!EndBlockCall, T!blockVars, T!txVars, poolVars
<1>8. CASE UNCHANGED vars
  BY <1>8, <1>1, Zenon DEF vars, trackingVars, txVars, poolVars
<1> HIDE DEF Kept
<1> QED
  BY <1>1, <1>2, <1>3, <1>4, <1>5, <1>6, <1>7, <1>8,
     NextBlockPool, AnteHandlePool, TotalsPool, AllocatePool, SMTT(30)
     DEF Next, SetContractMetadata, SetFlatFee, WithdrawRewardsByRecordsLimit,
         WithdrawRewardsByRecordIDs, WithdrawRewardsByRecords, Halted, AtBound
-----------------------------------------------------------------------------
LEMMA InitInv == Init => SettingsShape /\ FlatFeeHasRecipient /\ PoolInv
<1> SUFFICES ASSUME Init PROVE SettingsShape /\ FlatFeeHasRecipient /\ PoolInv
  BY Zenon
<1>1. SettingsShape /\ FlatFeeHasRecipient
  BY RewardsAssumptions DEF Init, SettingsShape, FlatFeeHasRecipient
<1>2. /\ height = 0 /\ txInfoID = 0 /\ txBlockIndex = {} /\ DOMAIN txInfos = {}
      /\ DOMAIN txRewards = {} /\ DOMAIN blockRewards = {}
  BY DEF Init, T!Init
<1>3. PoolInv
  BY <1>2, Zenon DEF PoolInv, PoolShape, IndexedByHeight, PrunedTogether
<1> QED
  BY <1>1, <1>3, Zenon

(* The inductive invariant holds in every reachable state. *)
THEOREM InductiveInvariant == Spec => []IInv
<1> DEFINE Inv == SettingsShape /\ FlatFeeHasRecipient /\ PoolInv
<1>1. Init => Inv
  BY InitInv, Zenon
<1>2. Inv /\ [Next]_vars => Inv'
  BY SettingsStep, PoolStep, Zenon
<1>3. Inv => IInv
  BY Zenon DEF IInv, Shape, SettingsShape, PoolInv, PoolShape
<1> HIDE DEF Inv
<1> QED
  BY <1>1, <1>2, <1>3, PTL DEF Spec

(* CreateFlatFeeRewardsRecords always finds the address it needs. *)
THEOREM FlatFees == Spec => []FlatFeeHasRecipient
<1>1. IInv => FlatFeeHasRecipient
  BY SMTT(30) DEF IInv
<1> QED
  BY <1>1, InductiveInvariant, PTL

(* x/rewards and x/tracking prune together, and within the window. *)
THEOREM Pruning == Spec => []PrunedTogether
<1>1. IInv => PrunedTogether
  BY Zenon DEF IInv
<1> QED
  BY <1>1, InductiveInvariant, PTL
-----------------------------------------------------------------------------
Record == [rewardsAddress : Addresses, rewards : Nat]

(* The records, their identifiers and their index. *)
RecordsOK ==
    /\ recordID \in Nat
    /\ DOMAIN records \subseteq 1..recordID
    /\ records \in [DOMAIN records -> Record]
    /\ RecordIndexAgrees

(* The records there are keep to themselves. *)
LEMMA RecordsFinite ==
    ASSUME SumLaws, RecordsOK
    PROVE  IsFiniteSet(DOMAIN records) /\ \A i \in DOMAIN records : records[i].rewards \in Nat
<1>1. IsFiniteSet(1..recordID)
  BY DEF SumLaws, IntervalLaw, RecordsOK
<1>2. DOMAIN records \in SUBSET (1..recordID)
  BY Zenon DEF RecordsOK
<1>3. \A i \in DOMAIN records : records[i].rewards \in Nat
  BY Zenon DEF RecordsOK, Record
<1> QED
  BY <1>1, <1>2, <1>3, Zenon DEF SumLaws, SubsetLaw

(* Nth enumerates a finite set of numbers. *)
LEMMA NthIs ==
    ASSUME SumLaws, NEW S \in SUBSET Nat, IsFiniteSet(S)
    PROVE  /\ Cardinality(S) \in Nat
           /\ \A n \in 1..Cardinality(S) : Nth(S, n) \in S
           /\ \A n, m \in 1..Cardinality(S) : Nth(S, n) = Nth(S, m) => n = m
           /\ \A x \in S : \E n \in 1..Cardinality(S) : Nth(S, n) = x
<1>1. Cardinality(S) \in Nat
  BY Zenon DEF SumLaws, RankLaw
<1>2. PICK rank :
         /\ \A x \in S : rank[x] = Cardinality({y \in S : y <= x})
         /\ \A x \in S : rank[x] \in 1..Cardinality(S)
         /\ \A x, z \in S : rank[x] = rank[z] => x = z
         /\ \A n \in 1..Cardinality(S) : \E x \in S : rank[x] = n
  BY Zenon DEF SumLaws, RankLaw
<1>3. ASSUME NEW n \in 1..Cardinality(S) PROVE Nth(S, n) \in S /\ rank[Nth(S, n)] = n
  <2>1. \E x \in S : Cardinality({y \in S : y <= x}) = n
    <3>1. PICK x \in S : rank[x] = n
      BY <1>2, Zenon
    <3> QED
      BY <1>2, <3>1, Zenon
  <2>2. Nth(S, n) \in S /\ Cardinality({y \in S : y <= Nth(S, n)}) = n
    BY <2>1, Zenon DEF Nth
  <2> QED
    BY <1>2, <2>2, Zenon
<1>4. ASSUME NEW x \in S PROVE \E n \in 1..Cardinality(S) : Nth(S, n) = x
  <2>1. rank[x] \in 1..Cardinality(S) /\ Nth(S, rank[x]) = x
    BY <1>2, <1>3, Zenon
  <2> QED
    BY <2>1, Zenon
<1>5. ASSUME NEW n \in 1..Cardinality(S), NEW m \in 1..Cardinality(S), Nth(S, n) = Nth(S, m)
      PROVE  n = m
  BY <1>3, <1>5, Zenon
<1> QED
  BY <1>1, <1>3, <1>4, <1>5, Zenon

(* What CreateRewardsRecords writes: new identifiers, one for each of the  *)
(* new records.                                                            *)
Appended(new, ids, from) ==
    /\ IsFiniteSet(ids) /\ DOMAIN records \cap ids = {}
    /\ DOMAIN records' = DOMAIN records \cup ids
    /\ \A i \in DOMAIN records : records'[i] = records[i]
    /\ \A i \in ids : from[i] \in DOMAIN new /\ records'[i] = new[from[i]]
    /\ \A i, j \in ids : from[i] = from[j] => i = j
    /\ {from[i] : i \in ids} = DOMAIN new

LEMMA CreatedRecords ==
    ASSUME SumLaws, RecordsOK, NEW new, DOMAIN new \in SUBSET Nat, IsFiniteSet(DOMAIN new),
           \A x \in DOMAIN new : new[x] \in Record,
           CreateRewardsRecords(new)
    PROVE  RecordsOK' /\ \E ids, from : Appended(new, ids, from)
<1> DEFINE S == DOMAIN new
           N == Cardinality(S)
           ids == (recordID + 1)..(recordID + N)
           from == [i \in ids |-> Nth(S, i - recordID)]
<1>1. /\ N \in Nat
      /\ \A n \in 1..N : Nth(S, n) \in S
      /\ \A n, m \in 1..N : Nth(S, n) = Nth(S, m) => n = m
      /\ \A x \in S : \E n \in 1..N : Nth(S, n) = x
  BY NthIs, Zenon
<1>2. recordID \in Nat /\ DOMAIN records \subseteq 1..recordID
  BY Zenon DEF RecordsOK
<1> HIDE DEF N
<1>3. /\ \A i \in ids : i - recordID \in 1..N /\ i \in 1..(recordID + N)
      /\ \A n \in 1..N : n + recordID \in ids /\ (n + recordID) - recordID = n
      /\ \A i, j \in ids : i - recordID = j - recordID => i = j
      /\ \A i \in ids : i \notin 1..recordID
      /\ \A i \in 1..recordID : i \in 1..(recordID + N)
      /\ recordID + N \in Nat
  BY <1>1, <1>2
<1>4. \A i \in ids : from[i] = Nth(S, i - recordID)
  BY Zenon
<1>5. /\ recordID' = recordID + N
      /\ records' = [i \in DOMAIN records \cup ids |->
                        IF i \in ids THEN new[Nth(S, i - recordID)] ELSE records[i]]
      /\ recordIndex' =
             recordIndex \cup {<<new[Nth(S, i - recordID)].rewardsAddress, i>> : i \in ids}
  BY Zenon DEF CreateRewardsRecords, N
<1> HIDE DEF S, ids, from
<1>6. DOMAIN records \cap ids = {} /\ DOMAIN records' = DOMAIN records \cup ids
  BY <1>2, <1>3, <1>5, Zenon
<1>7. /\ \A i \in DOMAIN records : records'[i] = records[i]
      /\ \A i \in ids : from[i] \in S /\ records'[i] = new[from[i]]
  <2>1. \A i \in DOMAIN records : i \notin ids
    BY <1>6, Zenon
  <2>2. \A i \in DOMAIN records : records'[i] = records[i]
    BY <1>5, <2>1, Zenon
  <2>3. \A i \in ids : records'[i] = new[from[i]]
    BY <1>4, <1>5, Zenon
  <2>4. \A i \in ids : from[i] \in S
    BY <1>1, <1>3, <1>4
  <2> QED
    BY <2>2, <2>3, <2>4, Zenon
<1>8. \A i, j \in ids : from[i] = from[j] => i = j
  BY <1>1, <1>3, <1>4
<1>9. {from[i] : i \in ids} = S
  <2>1. ASSUME NEW x \in S PROVE \E i \in ids : from[i] = x
    <3>1. PICK n \in 1..N : Nth(S, n) = x
      BY <1>1, Zenon
    <3>2. n + recordID \in ids /\ from[n + recordID] = x
      BY <1>3, <1>4, <3>1, Zenon
    <3> QED
      BY <3>2, Zenon
  <2> QED
    BY <1>7, <2>1, Zenon
<1>10. IsFiniteSet(ids)
  BY <1>1, <1>2 DEF SumLaws, IntervalLaw, ids
<1>11. records' \in [DOMAIN records' -> Record]
  <2>1. \A i \in DOMAIN records' : records'[i] \in Record
    BY <1>6, <1>7, Zenon DEF RecordsOK, S
  <2>2. records' = [i \in DOMAIN records' |-> records'[i]]
    BY <1>5, Zenon
  <2> QED
    BY <2>1, <2>2, Zenon
<1>12. recordIndex' = {<<records'[i].rewardsAddress, i>> : i \in DOMAIN records'}
  <2>1. recordIndex = {<<records[i].rewardsAddress, i>> : i \in DOMAIN records}
    BY Zenon DEF RecordsOK, RecordIndexAgrees
  <2>2. \A i \in DOMAIN records : records'[i].rewardsAddress = records[i].rewardsAddress
    BY <1>7, Zenon
  <2>3. \A i \in ids : records'[i].rewardsAddress = new[Nth(S, i - recordID)].rewardsAddress
    BY <1>4, <1>7, Zenon
  <2> QED
    BY <1>5, <1>6, <2>1, <2>2, <2>3, Zenon
<1>13. RecordsOK'
  <2>1. recordID' \in Nat /\ DOMAIN records' \subseteq 1..recordID'
    BY <1>2, <1>3, <1>5, <1>6, Zenon
  <2> QED
    BY <1>11, <1>12, <2>1, Zenon DEF RecordsOK, RecordIndexAgrees
<1>14. Appended(new, ids, from)
  BY <1>6, <1>7, <1>8, <1>9, <1>10, SMTT(30) DEF Appended, S
<1> QED
  BY <1>13, <1>14, Zenon

(* The new records add up to the rewards they were made for. *)
LEMMA CreatedRewards ==
    ASSUME SumLaws, RecordsOK, NEW new, DOMAIN new \in SUBSET Nat, IsFiniteSet(DOMAIN new),
           \A x \in DOMAIN new : new[x] \in Record,
           CreateRewardsRecords(new)
    PROVE  /\ RecordsOK' /\ DOMAIN records \subseteq DOMAIN records'
           /\ \A i \in DOMAIN records : records'[i] = records[i]
           /\ RewardsOf(DOMAIN records) \in Nat
           /\ SumFunction([x \in DOMAIN new |-> new[x].rewards]) \in Nat
           /\ RewardsOf(DOMAIN records)' =
                  RewardsOf(DOMAIN records) + SumFunction([x \in DOMAIN new |-> new[x].rewards])
<1> DEFINE S == DOMAIN new
           old == DOMAIN records
           f == [x \in S |-> new[x].rewards]
           g == [i \in DOMAIN records |-> records[i].rewards]
           h == [i \in DOMAIN records' |-> records'[i].rewards]
<1>1. RewardsOf(old) = SumFunction(g) /\ RewardsOf(old)' = SumFunction(h)
  BY Zenon DEF RewardsOf
<1>2. /\ \A x \in S : f[x] = new[x].rewards /\ f[x] \in Nat
      /\ DOMAIN f = S /\ IsFiniteSet(S)
  BY Zenon DEF Record
<1>3. /\ \A i \in old : g[i] = records[i].rewards /\ g[i] \in Nat
      /\ DOMAIN g = old /\ IsFiniteSet(old)
  BY RecordsFinite, Zenon
<1>4. /\ \A i \in DOMAIN records' : h[i] = records'[i].rewards
      /\ DOMAIN h = DOMAIN records'
  BY Zenon
<1> HIDE DEF f, g, h
<1>5. RecordsOK' /\ \E ids, from : Appended(new, ids, from)
  BY CreatedRecords, Zenon
<1>0. PICK ids, from : Appended(new, ids, from)
  BY <1>5, Zenon
<1>6. /\ IsFiniteSet(ids) /\ old \cap ids = {}
      /\ DOMAIN records' = old \cup ids
      /\ \A i \in old : records'[i] = records[i]
      /\ \A i \in ids : from[i] \in S /\ records'[i] = new[from[i]]
      /\ \A i, j \in ids : from[i] = from[j] => i = j
      /\ {from[i] : i \in ids} = S
  BY <1>0, Zenon DEF Appended
<1> HIDE DEF S, old
<1>7. \A i \in old : h[i] = g[i] /\ h[i] \in Nat
  <2> TAKE i \in old
  <2>1. i \in DOMAIN records' /\ records'[i] = records[i]
    BY <1>6, Zenon
  <2> QED
    BY <1>3, <1>4, <2>1, Zenon
<1>8. \A i \in ids : f[from[i]] = h[i] /\ h[i] \in Nat
  <2> TAKE i \in ids
  <2>1. i \in DOMAIN records' /\ records'[i] = new[from[i]] /\ from[i] \in S
    BY <1>6, Zenon
  <2> QED
    BY <1>2, <1>4, <2>1, Zenon
<1>9. SumFunctionOnSet(h, old \cup ids) = SumFunctionOnSet(h, old) + SumFunctionOnSet(h, ids)
  <2>1. \A i \in old \cup ids : h[i] \in Nat
    BY <1>7, <1>8, Zenon
  <2>2. IsFiniteSet(old) /\ IsFiniteSet(ids) /\ old \cap ids = {}
    BY <1>3, <1>6, Zenon
  <2> QED
    BY <2>1, <2>2, Zenon DEF SumLaws, UnionLaw
<1>10. SumFunctionOnSet(f, S) = SumFunctionOnSet(h, ids)
  <2>1. IsFiniteSet(ids) /\ \A i, j \in ids : from[i] = from[j] => i = j
    BY <1>6, Zenon
  <2>2. SumFunctionOnSet(f, {from[i] : i \in ids}) = SumFunctionOnSet(h, ids)
    BY <1>8, <2>1 DEF SumLaws, RenumberLaw
  <2>3. {from[i] : i \in ids} = S
    BY <1>6, Zenon
  <2> QED
    BY <2>2, <2>3, Zenon
<1>11. SumFunction(g) = SumFunctionOnSet(h, old) /\ SumFunction(g) \in Nat
  BY <1>3, <1>7, Zenon DEF SumLaws, DomainLaw, DomainNatLaw
<1>12. SumFunction(f) = SumFunctionOnSet(f, S) /\ SumFunction(f) \in Nat
  BY <1>2, Zenon DEF SumLaws, DomainLaw, DomainNatLaw
<1>13. SumFunction(h) = SumFunctionOnSet(h, old \cup ids)
  BY <1>4, <1>6, Zenon DEF SumFunction
<1>14. SumFunction(h) = SumFunction(g) + SumFunction(f)
  BY <1>9, <1>10, <1>11, <1>12, <1>13, Zenon
<1>15. SumFunction([x \in DOMAIN new |-> new[x].rewards]) = SumFunction(f)
  BY Zenon DEF f, S
<1>16. /\ RecordsOK' /\ DOMAIN records \subseteq DOMAIN records'
       /\ \A i \in DOMAIN records : records'[i] = records[i]
  BY <1>5, <1>6, Zenon DEF old
<1> QED
  BY <1>1, <1>11, <1>12, <1>14, <1>15, <1>16, SMTT(30) DEF old
-----------------------------------------------------------------------------
(* Decimals of natural numbers are natural numbers. *)
LEMMA RoundIntNat ==
    ASSUME NEW n \in Nat, NEW d \in Nat \ {0}
    PROVE  RoundInt(n, d) \in Nat
<1>1. n \div d \in Nat
  OBVIOUS
<1> QED
  BY <1>1 DEF RoundInt

LEMMA MulTruncateNat ==
    ASSUME NEW amount \in Nat, NEW ratio \in Nat
    PROVE  MulTruncate(amount, ratio) \in Nat
<1>1. amount * ratio \in Nat /\ Precision \in Nat \ {0}
  BY RewardsAssumptions
<1>2. \A n \in Nat, d \in Nat \ {0} : n \div d \in Nat
  OBVIOUS
<1> QED
  BY <1>1, <1>2, Zenon DEF MulTruncate

LEMMA QuoNat ==
    ASSUME NEW a \in Nat, NEW b \in Nat \ {0}
    PROVE  Quo(a, b) \in Nat
<1>1. Precision \in Nat \ {0}
  BY RewardsAssumptions, Zenon
<1>2. a * Precision * Precision \in Nat
  BY <1>1
<1>3. \A n \in Nat, d \in Nat \ {0} : n \div d \in Nat
  OBVIOUS
<1> QED
  BY <1>1, <1>2, <1>3, RoundIntNat, Zenon DEF Quo

(* Tracking adds up the same way. *)
LEMMA SameSum ==
    ASSUME NEW f
    PROVE  T!SumFunction(f) = SumFunction(f)
BY Zenon DEF T!SumFunction, T!SumFunctionOnSet, T!FoldFunctionOnSet, T!MapThenFoldSet,
     SumFunction, SumFunctionOnSet, FoldFunctionOnSet, MapThenFoldSet

(* A sum over some of the contract operations. *)
LEMMA OpsGasNat ==
    ASSUME SumLaws, T!IInv, NEW ops \in SUBSET DOMAIN contractOps
    PROVE  IsFiniteSet(ops) /\ T!OpsGas(ops) \in Nat
<1>1. opID \in Nat /\ DOMAIN contractOps \subseteq 1..opID
  BY Zenon DEF T!IInv, T!Shape
<1>2. IsFiniteSet(1..opID)
  BY <1>1 DEF SumLaws, IntervalLaw
<1>3. IsFiniteSet(ops)
  <2>1. ops \in SUBSET (1..opID)
    BY <1>1, Zenon
  <2> QED
    BY <1>2, <2>1, Zenon DEF SumLaws, SubsetLaw
<1>4. \A o \in ops : contractOps[o].gas \in Nat
  BY Zenon DEF T!IInv, T!Shape, T!ContractOps
<1> DEFINE f == [o \in ops |-> contractOps[o].gas]
<1>5. DOMAIN f = ops /\ \A o \in ops : f[o] \in Nat
  BY <1>4, Zenon
<1>6. T!OpsGas(ops) = SumFunction(f)
  BY SameSum, Zenon DEF T!OpsGas
<1> HIDE DEF f
<1> QED
  BY <1>3, <1>5, <1>6, Zenon DEF SumLaws, DomainNatLaw

(* What the lookups of x/tracking find. *)
LEMMA OpsOfTx ==
    ASSUME T!IInv, NEW i
    PROVE  /\ T!GetContractOpInfoByTxID(i) = {o \in DOMAIN contractOps : contractOps[o].txID = i}
           /\ T!GetContractOpInfoByTxID(i) \in SUBSET DOMAIN contractOps
<1>1. DOMAIN contractOps \subseteq 1..opID
  BY Zenon DEF T!IInv, T!Shape
<1>2. opTxIndex = {<<contractOps[o].txID, o>> : o \in DOMAIN contractOps}
  BY Zenon DEF T!IInv, T!IndexesAgree
<1> QED
  BY <1>1, <1>2, Zenon DEF T!GetContractOpInfoByTxID

LEMMA TxsOfBlock ==
    ASSUME SumLaws, T!IInv
    PROVE  /\ BlockTxs = {i \in DOMAIN txInfos : txInfos[i].height = height}
           /\ IsFiniteSet(BlockTxs) /\ BlockTxs \in SUBSET DOMAIN txInfos
<1>1. txInfoID \in Nat /\ DOMAIN txInfos \subseteq 1..txInfoID
  BY Zenon DEF T!IInv, T!Shape
<1>2. txBlockIndex = {<<txInfos[i].height, i>> : i \in DOMAIN txInfos}
  BY Zenon DEF T!IInv, T!IndexesAgree
<1>3. BlockTxs = {i \in DOMAIN txInfos : txInfos[i].height = height}
  BY <1>1, <1>2, Zenon DEF BlockTxs, T!GetTxInfosByBlock
<1>4. BlockTxs \in SUBSET (1..txInfoID) /\ BlockTxs \in SUBSET DOMAIN txInfos
  BY <1>1, <1>3, Zenon
<1>5. IsFiniteSet(1..txInfoID)
  BY <1>1 DEF SumLaws, IntervalLaw
<1>6. IsFiniteSet(BlockTxs)
  BY <1>4, <1>5, Zenon DEF SumLaws, SubsetLaw
<1> QED
  BY <1>3, <1>4, <1>6, Zenon
(* Sums of gas as sums of one function. *)
LEMMA OpsGasIs ==
    ASSUME SumLaws, T!IInv
    PROVE  \E g : /\ \A o \in DOMAIN contractOps : g[o] = contractOps[o].gas /\ g[o] \in Nat
                  /\ \A ops \in SUBSET DOMAIN contractOps :
                         /\ IsFiniteSet(ops)
                         /\ T!OpsGas(ops) = SumFunctionOnSet(g, ops)
<1> DEFINE g == [o \in DOMAIN contractOps |-> contractOps[o].gas]
<1>1. \A o \in DOMAIN contractOps : contractOps[o].gas \in Nat
  BY Zenon DEF T!IInv, T!Shape, T!ContractOps
<1>2. \A o \in DOMAIN contractOps : g[o] = contractOps[o].gas /\ g[o] \in Nat
  BY <1>1, Zenon
<1> HIDE DEF g
<1>3. ASSUME NEW ops \in SUBSET DOMAIN contractOps
      PROVE  IsFiniteSet(ops) /\ T!OpsGas(ops) = SumFunctionOnSet(g, ops)
  <2> DEFINE f == [o \in ops |-> contractOps[o].gas]
  <2>1. DOMAIN f = ops /\ \A o \in ops : f[o] = g[o]
    BY <1>2, Zenon
  <2>2. T!OpsGas(ops) = SumFunction(f)
    BY SameSum, Zenon DEF T!OpsGas
  <2> HIDE DEF f
  <2>3. IsFiniteSet(ops)
    BY OpsGasNat, Zenon
  <2>4. SumFunction(f) = SumFunctionOnSet(g, ops)
    BY <2>1, <2>3, Zenon DEF SumLaws, DomainLaw
  <2> QED
    BY <2>2, <2>3, <2>4, Zenon
<1> QED
  BY <1>2, <1>3, Zenon

LEMMA TxGasUsedNat ==
    ASSUME SumLaws, T!IInv, NEW c, NEW i
    PROVE  TxGasUsed(c, i) \in Nat
<1> DEFINE ops == {o \in T!GetContractOpInfoByTxID(i) : contractOps[o].contract = c}
<1>1. ops \in SUBSET DOMAIN contractOps
  BY OpsOfTx, Zenon
<1>2. TxGasUsed(c, i) = T!OpsGas(ops)
  BY Zenon DEF TxGasUsed
<1> HIDE DEF ops
<1> QED
  BY <1>1, <1>2, OpsGasNat, Zenon

(* The gas of a transaction when x/rewards reads it, and the part of it a  *)
(* contract used.                                                          *)
LEMMA TxGasTotal ==
    ASSUME SumLaws, T!IInv, T!TotalGasIsSum, phase = "finalized", NEW i \in BlockTxs
    PROVE  txInfos[i].totalGas = T!GasOfTx(i) /\ T!GasOfTx(i) \in Nat
<1>1. i \in DOMAIN txInfos /\ txInfos[i].height = height
  BY TxsOfBlock, Zenon
<1>2. txInfos[i].totalGas = T!OpsGas({o \in DOMAIN contractOps : contractOps[o].txID = i})
  BY <1>1, Zenon DEF T!TotalGasIsSum
<1>3. T!GasOfTx(i) = T!OpsGas(T!GetContractOpInfoByTxID(i))
  BY Zenon DEF T!GasOfTx
<1>4. T!OpsGas(T!GetContractOpInfoByTxID(i)) \in Nat
  BY OpsOfTx, OpsGasNat, Zenon
<1> QED
  BY <1>2, <1>3, <1>4, OpsOfTx, Zenon

LEMMA TxGasWithin ==
    ASSUME SumLaws, T!IInv, NEW i, NEW c
    PROVE  TxGasUsed(c, i) <= T!GasOfTx(i)
<1> DEFINE all == T!GetContractOpInfoByTxID(i)
           own == {o \in T!GetContractOpInfoByTxID(i) : contractOps[o].contract = c}
<1>1. all \in SUBSET DOMAIN contractOps /\ own \in SUBSET all
  BY OpsOfTx, Zenon
<1>2. T!GasOfTx(i) = T!OpsGas(all) /\ TxGasUsed(c, i) = T!OpsGas(own)
  BY Zenon DEF T!GasOfTx, TxGasUsed
<1> HIDE DEF all, own
<1>3. PICK g : /\ \A o \in DOMAIN contractOps : g[o] = contractOps[o].gas /\ g[o] \in Nat
               /\ \A ops \in SUBSET DOMAIN contractOps :
                      IsFiniteSet(ops) /\ T!OpsGas(ops) = SumFunctionOnSet(g, ops)
  BY OpsGasIs, Zenon
<1>4. own \in SUBSET DOMAIN contractOps /\ \A o \in all : g[o] \in Nat
  BY <1>1, <1>3, Zenon
<1>5. SumFunctionOnSet(g, own) <= SumFunctionOnSet(g, all)
  BY <1>1, <1>3, <1>4, Zenon DEF SumLaws, SplitLaw
<1> QED
  BY <1>1, <1>2, <1>3, <1>4, <1>5, Zenon
-----------------------------------------------------------------------------
(* The types of what x/rewards counts; inflation is shared in proportion   *)
(* to the block gas limit.                                                 *)
PoolTyped ==
    /\ params \in ParamSets /\ minConsFee \in Nat /\ unfunded \in Nat
    /\ bank \in [Holders -> Nat]
    /\ blockRewards \in [DOMAIN blockRewards -> [inflationRewards : Nat, maxGas : {BlockGasLimit}]]
    /\ txRewards \in [DOMAIN txRewards -> [height : Nat, feeRewards : Nat]]

LEMMA CollectedNat ==
    ASSUME PoolTyped
    PROVE  InflationRewards \in Nat /\ \A i : FeeRewards(i) \in Nat
<1>1. \A h \in DOMAIN blockRewards : blockRewards[h].inflationRewards \in Nat
  BY Zenon DEF PoolTyped
<1>2. \A i \in DOMAIN txRewards : txRewards[i].feeRewards \in Nat
  BY Zenon DEF PoolTyped
<1>3. InflationRewards \in Nat
  BY <1>1, Zenon DEF InflationRewards
<1>4. \A i : FeeRewards(i) \in Nat
  BY <1>2, Zenon DEF FeeRewards
<1> QED
  BY <1>3, <1>4, Zenon

LEMMA InflationShareNat ==
    ASSUME SumLaws, PoolTyped, T!IInv, NEW c
    PROVE  BlockGasUsed(c) \in Nat /\ InflationShare(c) \in Nat
<1> DEFINE f == [i \in BlockTxs |-> TxGasUsed(c, i)]
<1>1. DOMAIN f = BlockTxs /\ \A i \in BlockTxs : f[i] \in Nat
  BY TxGasUsedNat, Zenon
<1>2. BlockGasUsed(c) = SumFunction(f)
  BY Zenon DEF BlockGasUsed
<1> HIDE DEF f
<1>3. BlockGasUsed(c) \in Nat
  BY <1>1, <1>2, TxsOfBlock, Zenon DEF SumLaws, DomainNatLaw
<1>4. InflationShare(c) \in Nat
  <2>1. CASE InflationRewards > 0 /\ blockRewards[height].maxGas > 0
    <3>1. height \in DOMAIN blockRewards
      BY <2>1 DEF InflationRewards
    <3>2. blockRewards[height].maxGas \in Nat \ {0}
      BY <2>1, <3>1, RewardsAssumptions DEF PoolTyped
    <3>3. Quo(BlockGasUsed(c), blockRewards[height].maxGas) \in Nat
      BY <1>3, <3>2, QuoNat, Zenon
    <3>4. MulTruncate(InflationRewards, Quo(BlockGasUsed(c), blockRewards[height].maxGas)) \in Nat
      BY <3>3, CollectedNat, MulTruncateNat, Zenon
    <3> QED
      BY <2>1, <3>4, Zenon DEF InflationShare
  <2>2. CASE ~(InflationRewards > 0 /\ blockRewards[height].maxGas > 0)
    <3>1. InflationShare(c) = 0
      BY <2>2, Zenon DEF InflationShare
    <3> QED
      BY <3>1
  <2> QED
    BY <2>1, <2>2, Zenon
<1> QED
  BY <1>3, <1>4, Zenon

(* A transaction's share for a contract that used gas in it. *)
LEMMA TxShareNat ==
    ASSUME SumLaws, PoolTyped, T!IInv, T!TotalGasIsSum, phase = "finalized",
           NEW c, NEW i \in BlockTxs, TxGasUsed(c, i) > 0
    PROVE  /\ txInfos[i].totalGas \in Nat \ {0}
           /\ MulTruncate(FeeRewards(i), Quo(TxGasUsed(c, i), txInfos[i].totalGas)) \in Nat
<1>1. TxGasUsed(c, i) \in Nat
  BY TxGasUsedNat, Zenon
<1>2. txInfos[i].totalGas \in Nat /\ TxGasUsed(c, i) <= txInfos[i].totalGas
  BY TxGasTotal, TxGasWithin, Zenon
<1>3. txInfos[i].totalGas \in Nat \ {0}
  BY <1>1, <1>2
<1>4. Quo(TxGasUsed(c, i), txInfos[i].totalGas) \in Nat
  BY <1>1, <1>3, QuoNat, Zenon
<1> QED
  BY <1>3, <1>4, CollectedNat, MulTruncateNat, Zenon

LEMMA ContractRewardsNat ==
    ASSUME SumLaws, PoolTyped, T!IInv, T!TotalGasIsSum, phase = "finalized", NEW c
    PROVE  FeeShare(c) \in Nat /\ ContractRewards(c) \in Nat
<1> DEFINE own == {t \in BlockTxs : TxGasUsed(c, t) > 0}
           f == [i \in {t \in BlockTxs : TxGasUsed(c, t) > 0} |->
                    MulTruncate(FeeRewards(i), Quo(TxGasUsed(c, i), txInfos[i].totalGas))]
<1>1. \A i \in own : MulTruncate(FeeRewards(i), Quo(TxGasUsed(c, i), txInfos[i].totalGas)) \in Nat
  BY TxShareNat, Zenon
<1>2. DOMAIN f = own /\ \A i \in own : f[i] \in Nat
  BY <1>1, Zenon
<1>3. FeeShare(c) = SumFunction(f)
  BY Zenon DEF FeeShare
<1>4. own \in SUBSET BlockTxs
  BY Zenon
<1> HIDE DEF f, own
<1>5. IsFiniteSet(own)
  BY <1>4, TxsOfBlock, Zenon DEF SumLaws, SubsetLaw
<1>6. FeeShare(c) \in Nat
  BY <1>2, <1>3, <1>5, Zenon DEF SumLaws, DomainNatLaw
<1>7. InflationShare(c) \in Nat
  BY InflationShareNat, Zenon
<1> QED
  BY <1>6, <1>7 DEF ContractRewards

(* Rewards of contracts as sums of one function. *)
LEMMA RewardsForIs ==
    ASSUME SumLaws, PoolTyped, T!IInv, T!TotalGasIsSum, phase = "finalized"
    PROVE  \E f : /\ \A c \in Contracts : f[c] = ContractRewards(c) /\ f[c] \in Nat
                  /\ \A S \in SUBSET Contracts :
                         /\ IsFiniteSet(S) /\ RewardsFor(S) \in Nat
                         /\ RewardsFor(S) = SumFunctionOnSet(f, S)
<1> DEFINE f == [c \in Contracts |-> ContractRewards(c)]
<1>1. \A c \in Contracts : f[c] = ContractRewards(c) /\ f[c] \in Nat
  BY ContractRewardsNat, Zenon
<1> HIDE DEF f
<1>2. ASSUME NEW S \in SUBSET Contracts
      PROVE  IsFiniteSet(S) /\ RewardsFor(S) \in Nat /\ RewardsFor(S) = SumFunctionOnSet(f, S)
  <2> DEFINE g == [c \in S |-> ContractRewards(c)]
  <2>1. DOMAIN g = S /\ \A c \in S : g[c] = f[c] /\ f[c] \in Nat
    BY <1>1, Zenon
  <2>2. RewardsFor(S) = SumFunction(g)
    BY Zenon DEF RewardsFor
  <2> HIDE DEF g
  <2>3. IsFiniteSet(S)
    <3>1. IsFiniteSet(Contracts)
      BY RewardsAssumptions, Zenon
    <3> QED
      BY <3>1, Zenon DEF SumLaws, SubsetLaw
  <2>4. SumFunction(g) = SumFunctionOnSet(f, S) /\ SumFunctionOnSet(f, S) \in Nat
    BY <2>1, <2>3, Zenon DEF SumLaws, DomainLaw, NatLaw
  <2> QED
    BY <2>2, <2>3, <2>4, Zenon
<1> QED
  BY <1>1, <1>2, Zenon

LEMMA AllocatedAmounts ==
    ASSUME SumLaws, PoolTyped, T!IInv, T!TotalGasIsSum, phase = "finalized"
    PROVE  /\ RewardsFor(ToWallet) \in Nat /\ RewardsFor(Recipients \ ToWallet) \in Nat
           /\ RewardsDistributed = RewardsFor(ToWallet) + RewardsFor(Recipients \ ToWallet)
           /\ \A a : SentTo(a) \in Nat
<1>1. PICK f : /\ \A c \in Contracts : f[c] = ContractRewards(c) /\ f[c] \in Nat
               /\ \A S \in SUBSET Contracts :
                      /\ IsFiniteSet(S) /\ RewardsFor(S) \in Nat
                      /\ RewardsFor(S) = SumFunctionOnSet(f, S)
  BY RewardsForIs, Zenon
<1>2. ToWallet \in SUBSET Recipients /\ Recipients \in SUBSET Contracts
  BY Zenon DEF ToWallet, Recipients
<1>3. /\ ToWallet \in SUBSET Contracts /\ Recipients \ ToWallet \in SUBSET Contracts
      /\ \A c \in Recipients : f[c] \in Nat
  BY <1>1, <1>2, Zenon
<1>4. SumFunctionOnSet(f, Recipients)
        = SumFunctionOnSet(f, ToWallet) + SumFunctionOnSet(f, Recipients \ ToWallet)
  BY <1>1, <1>2, <1>3, Zenon DEF SumLaws, SplitLaw
<1>5. RewardsDistributed = RewardsFor(ToWallet) + RewardsFor(Recipients \ ToWallet)
  BY <1>1, <1>2, <1>3, <1>4, Zenon DEF RewardsDistributed
<1>6. \A a : SentTo(a) \in Nat
  <2> TAKE a
  <2>1. {c \in ToWallet : contractMetadata[c].rewardsAddress = a} \in SUBSET Contracts
    BY <1>3, Zenon
  <2> QED
    BY <1>1, <2>1, Zenon DEF SentTo
<1> QED
  BY <1>1, <1>3, <1>5, <1>6, Zenon

(* The records AllocateBlockRewards makes. *)
LEMMA NewRecordsOK ==
    ASSUME SumLaws, SettingsShape, PoolTyped, T!IInv, T!TotalGasIsSum, phase = "finalized"
    PROVE  /\ DOMAIN NewRecords \in SUBSET Nat /\ IsFiniteSet(DOMAIN NewRecords)
           /\ \A x \in DOMAIN NewRecords : NewRecords[x] \in Record
           /\ SumFunction([x \in DOMAIN NewRecords |-> NewRecords[x].rewards])
                 = RewardsFor(Recipients \ ToWallet)
<1> DEFINE S == Recipients \ ToWallet
<1>1. S \in SUBSET Contracts /\ \A c \in S : HasRewardsAddress(c)
  BY Zenon DEF Recipients
<1>2. Contracts \in SUBSET Nat /\ IsFiniteSet(Contracts)
  BY RewardsAssumptions, Zenon
<1>3. IsFiniteSet(S) /\ S \in SUBSET Nat
  BY <1>1, <1>2, Zenon DEF SumLaws, SubsetLaw
<1>4. /\ DOMAIN NewRecords = S
      /\ \A c \in S : NewRecords[c] = [rewardsAddress |-> contractMetadata[c].rewardsAddress,
                                       rewards |-> ContractRewards(c)]
  BY Zenon DEF NewRecords
<1> HIDE DEF S
<1>5. \A c \in S : contractMetadata[c].rewardsAddress \in Addresses
  BY <1>1, Zenon DEF SettingsShape, HasRewardsAddress, HasMetadata, Metadata
<1>6. \A c \in S : ContractRewards(c) \in Nat
  BY ContractRewardsNat, Zenon
<1>7. \A c \in S : NewRecords[c] \in Record /\ NewRecords[c].rewards = ContractRewards(c)
  BY <1>4, <1>5, <1>6 DEF Record
<1>8. [x \in DOMAIN NewRecords |-> NewRecords[x].rewards] = [c \in S |-> ContractRewards(c)]
  BY <1>4, <1>7, Zenon
<1>9. RewardsFor(S) = SumFunction([c \in S |-> ContractRewards(c)])
  BY Zenon DEF RewardsFor
<1> QED
  BY <1>3, <1>4, <1>7, <1>8, <1>9, Zenon DEF S
-----------------------------------------------------------------------------
(* The records of the flat fees of a transaction. *)
FlatFeeRecords(tx) ==
    [n \in FlatFeeCalls(tx) |->
        [rewardsAddress |-> contractMetadata[tx.calls[n]].rewardsAddress,
         rewards |-> flatFees[tx.calls[n]]]]

LEMMA FlatFeeRecordsOK ==
    ASSUME SumLaws, SettingsShape, FlatFeeHasRecipient, NEW tx \in Txs
    PROVE  /\ DOMAIN FlatFeeRecords(tx) \in SUBSET Nat /\ IsFiniteSet(DOMAIN FlatFeeRecords(tx))
           /\ \A x \in DOMAIN FlatFeeRecords(tx) : FlatFeeRecords(tx)[x] \in Record
           /\ FlatFeesOf(tx) \in Nat
           /\ SumFunction([x \in DOMAIN FlatFeeRecords(tx) |-> FlatFeeRecords(tx)[x].rewards])
                 = FlatFeesOf(tx)
           /\ tx.calls = << >> => FlatFeesOf(tx) = 0
<1> DEFINE S == FlatFeeCalls(tx)
           f == [n \in FlatFeeCalls(tx) |-> flatFees[tx.calls[n]]]
<1>1. tx.calls \in Seq(Contracts)
  BY RewardsAssumptions, Zenon
<1>2. Len(tx.calls) \in Nat /\ DOMAIN tx.calls = 1..Len(tx.calls)
  BY <1>1
<1>3. S \in SUBSET (1..Len(tx.calls)) /\ S \in SUBSET Nat
  BY <1>2 DEF FlatFeeCalls
<1>4. IsFiniteSet(S)
  <2>1. IsFiniteSet(1..Len(tx.calls))
    BY <1>2 DEF SumLaws, IntervalLaw
  <2> HIDE DEF S
  <2> QED
    BY <1>3, <2>1, Zenon DEF SumLaws, SubsetLaw
<1>5. \A n \in S : tx.calls[n] \in Contracts /\ flatFees[tx.calls[n]] > 0
  BY <1>1, <1>2 DEF FlatFeeCalls
<1>6. /\ DOMAIN FlatFeeRecords(tx) = S
      /\ \A n \in S : FlatFeeRecords(tx)[n] =
             [rewardsAddress |-> contractMetadata[tx.calls[n]].rewardsAddress,
              rewards |-> flatFees[tx.calls[n]]]
  BY Zenon DEF FlatFeeRecords
<1>7. FlatFeesOf(tx) = SumFunction(f)
  BY Zenon DEF FlatFeesOf
<1>8. DOMAIN f = S /\ \A n \in S : f[n] = flatFees[tx.calls[n]]
  BY Zenon
<1> HIDE DEF S
<1>9. \A n \in S : flatFees[tx.calls[n]] \in Nat /\ HasRewardsAddress(tx.calls[n])
  BY <1>5, Zenon DEF SettingsShape, FlatFeeHasRecipient
<1>10. \A n \in S : contractMetadata[tx.calls[n]].rewardsAddress \in Addresses
  BY <1>5, <1>9, Zenon DEF SettingsShape, HasRewardsAddress, HasMetadata, Metadata
<1>11. \A n \in S : /\ FlatFeeRecords(tx)[n] \in Record
                    /\ FlatFeeRecords(tx)[n].rewards = flatFees[tx.calls[n]]
  BY <1>6, <1>9, <1>10 DEF Record
<1>12. [x \in DOMAIN FlatFeeRecords(tx) |-> FlatFeeRecords(tx)[x].rewards] = f
  <2>1. [x \in DOMAIN FlatFeeRecords(tx) |-> FlatFeeRecords(tx)[x].rewards]
           = [n \in S |-> flatFees[tx.calls[n]]]
    BY <1>6, <1>11, Zenon
  <2> QED
    BY <2>1, Zenon DEF S
<1> HIDE DEF f
<1>13. SumFunction(f) \in Nat
  <2>1. \A n \in S : f[n] \in Nat
    BY <1>8, <1>9, Zenon
  <2> QED
    BY <1>4, <1>8, <2>1, Zenon DEF SumLaws, DomainNatLaw
<1>14. ASSUME tx.calls = << >> PROVE SumFunction(f) = 0
  <2>1. S = {}
    BY <1>2, <1>3, <1>14
  <2> QED
    BY <1>8, <2>1, Zenon DEF SumLaws, EmptyLaw, SumFunction
<1> QED
  BY <1>3, <1>4, <1>6, <1>7, <1>11, <1>12, <1>13, <1>14, Zenon

LEMMA FlatFeesRecorded ==
    ASSUME NEW tx, CreateFlatFeeRewardsRecords(tx)
    PROVE  CreateRewardsRecords(FlatFeeRecords(tx))
BY Zenon DEF CreateFlatFeeRewardsRecords, FlatFeeRecords

(* A withdrawal removes records of the address it pays, and only those. *)
Withdrawal(address, ids) ==
    /\ address \in Addresses /\ ids \in SUBSET DOMAIN records
    /\ \A i \in ids : records[i].rewardsAddress = address
    /\ WithdrawRewardsByRecords(address, ids)

LEMMA LimitWithdraws ==
    ASSUME RecordsOK, NEW address \in Addresses, NEW limit,
           WithdrawRewardsByRecordsLimit(address, limit)
    PROVE  \E ids : Withdrawal(address, ids)
<1> DEFINE ids == FirstOf(OwnRecords(address),
                          IF limit = 0 THEN params.maxWithdrawRecords ELSE limit)
<1>1. WithdrawRewardsByRecords(address, ids)
  BY Zenon DEF WithdrawRewardsByRecordsLimit
<1>2. ids \in SUBSET OwnRecords(address)
  BY Zenon DEF FirstOf
<1> HIDE DEF ids
<1>3. \A i \in OwnRecords(address) : i \in DOMAIN records /\ records[i].rewardsAddress = address
  BY Zenon DEF OwnRecords, RecordsOK, RecordIndexAgrees
<1>4. ids \in SUBSET DOMAIN records /\ \A i \in ids : records[i].rewardsAddress = address
  BY <1>2, <1>3, Zenon
<1>5. Withdrawal(address, ids)
  BY <1>1, <1>4, Zenon DEF Withdrawal
<1> QED
  BY <1>5, Zenon

LEMMA IDsWithdraw ==
    ASSUME NEW address \in Addresses, NEW ids \in SUBSET DOMAIN records,
           WithdrawRewardsByRecordIDs(address, ids)
    PROVE  Withdrawal(address, ids)
BY Zenon DEF WithdrawRewardsByRecordIDs, IsRecordOf, Withdrawal

LEMMA WithdrawnRecords ==
    ASSUME SumLaws, RecordsOK, NEW address, NEW ids, Withdrawal(address, ids)
    PROVE  /\ RecordsOK' /\ DOMAIN records' = DOMAIN records \ ids
           /\ \A i \in DOMAIN records' : records'[i] = records[i]
           /\ RewardsOf(ids) \in Nat /\ RewardsOf(DOMAIN records)' \in Nat
           /\ RewardsOf(DOMAIN records) = RewardsOf(ids) + RewardsOf(DOMAIN records)'
<1>0. ids \in SUBSET DOMAIN records /\ \A i \in ids : records[i].rewardsAddress = address
  BY Zenon DEF Withdrawal
<1>1. /\ records' = [i \in DOMAIN records \ ids |-> records[i]]
      /\ recordIndex' = recordIndex \ ({address} \X ids) /\ recordID' = recordID
  BY Zenon DEF Withdrawal, WithdrawRewardsByRecords, FastRemoveRecords, Without
<1>2. DOMAIN records' = DOMAIN records \ ids /\ \A i \in DOMAIN records' : records'[i] = records[i]
  BY <1>1, Zenon
<1>3. RecordIndexAgrees'
  <2>1. recordIndex = {<<records[i].rewardsAddress, i>> : i \in DOMAIN records}
    BY Zenon DEF RecordsOK, RecordIndexAgrees
  <2>2. recordIndex' = {<<records'[i].rewardsAddress, i>> : i \in DOMAIN records'}
    BY <1>0, <1>1, <1>2, <2>1
  <2> QED
    BY <2>2, Zenon DEF RecordIndexAgrees
<1>4. RecordsOK'
  <2>1. recordID' \in Nat /\ DOMAIN records' \subseteq 1..recordID'
    BY <1>1, <1>2, Zenon DEF RecordsOK
  <2>2. records' \in [DOMAIN records' -> Record]
    BY <1>1, <1>2, Zenon DEF RecordsOK
  <2> QED
    BY <1>3, <2>1, <2>2, Zenon DEF RecordsOK
<1> DEFINE g == [i \in DOMAIN records |-> records[i].rewards]
           own == [i \in ids |-> records[i].rewards]
           h == [i \in DOMAIN records' |-> records'[i].rewards]
<1>5. /\ RewardsOf(DOMAIN records) = SumFunction(g) /\ RewardsOf(ids) = SumFunction(own)
      /\ RewardsOf(DOMAIN records)' = SumFunction(h)
  BY Zenon DEF RewardsOf
<1>6. /\ DOMAIN g = DOMAIN records /\ DOMAIN own = ids /\ DOMAIN h = DOMAIN records \ ids
      /\ \A i \in DOMAIN records : g[i] = records[i].rewards
      /\ \A i \in ids : own[i] = g[i]
      /\ \A i \in DOMAIN records \ ids : h[i] = g[i]
  BY <1>0, <1>2, Zenon
<1> HIDE DEF g, own, h
<1>7. IsFiniteSet(DOMAIN records) /\ \A i \in DOMAIN records : g[i] \in Nat
  BY <1>6, RecordsFinite, Zenon
<1>8. /\ SumFunctionOnSet(g, DOMAIN records)
           = SumFunctionOnSet(g, ids) + SumFunctionOnSet(g, DOMAIN records \ ids)
      /\ SumFunctionOnSet(g, ids) \in Nat /\ SumFunctionOnSet(g, DOMAIN records \ ids) \in Nat
  BY <1>0, <1>7, Zenon DEF SumLaws, SplitLaw
<1>9. IsFiniteSet(ids) /\ IsFiniteSet(DOMAIN records \ ids)
  BY <1>0, <1>7, Zenon DEF SumLaws, SubsetLaw
<1>10. /\ SumFunction(g) = SumFunctionOnSet(g, DOMAIN records)
       /\ SumFunction(own) = SumFunctionOnSet(g, ids)
       /\ SumFunction(h) = SumFunctionOnSet(g, DOMAIN records \ ids)
  BY <1>6, <1>7, <1>9, Zenon DEF SumLaws, DomainLaw
<1> QED
  BY <1>2, <1>4, <1>5, <1>8, <1>10, Zenon
-----------------------------------------------------------------------------
(* A step that leaves alone what is collected, recorded and paid. *)
Quiet ==
    /\ UNCHANGED <<bank, recordVars, poolVars, minConsFee, unfunded, height>>
    /\ (phase' = "allocated") <=> (phase = "allocated")
    /\ params' = params \/ params' \in ParamSets

(* The steps that do not. *)
Pays ==
    \/ \E minted \in MintAmounts : NextBlock(minted)
    \/ \E tx \in Txs : AnteHandle(tx)
    \/ \E address, ids : Withdrawal(address, ids)
    \/ RewardsEndBlocker

LEMMA PaysOrQuiet ==
    ASSUME RecordsOK, [Next]_vars
    PROVE  Quiet \/ Pays
<1>1. ASSUME NEW session \in Sessions, MsgsSucceed(session) PROVE Quiet
  BY <1>1, Zenon DEF MsgsSucceed, T!MsgsSucceed, Quiet, settings
<1>2. CASE MsgsFail
  BY <1>2, Zenon DEF MsgsFail, T!MsgsFail, Quiet, settings
<1>3. ASSUME NEW sender, NEW c, NEW updates, SetContractMetadata(sender, c, updates) PROVE Quiet
  BY <1>3, Zenon DEF SetContractMetadata, Message, Quiet
<1>4. ASSUME NEW sender, NEW c, NEW amount, SetFlatFee(sender, c, amount) PROVE Quiet
  BY <1>4, Zenon DEF SetFlatFee, Message, Quiet
<1>5. ASSUME NEW address \in Addresses, NEW limit, WithdrawRewardsByRecordsLimit(address, limit)
      PROVE  Pays
  BY <1>5, LimitWithdraws, Zenon DEF Pays
<1>6. ASSUME NEW address \in Addresses, NEW ids \in SUBSET DOMAIN records,
             WithdrawRewardsByRecordIDs(address, ids)
      PROVE  Pays
  BY <1>6, IDsWithdraw, Zenon DEF Pays
<1>7. CASE EndTransactions
  BY <1>7, Zenon DEF EndTransactions, T!EndTransactions, Quiet, settings
<1>8. ASSUME NEW new \in ParamSets, UpdateParams(new) PROVE Quiet
  BY <1>8, Zenon DEF UpdateParams, Quiet, trackingVars
<1>9. ASSUME NEW session \in Sessions, EndBlockCall(session) PROVE Quiet
  BY <1>9, Zenon DEF EndBlockCall, T!EndBlockCall, T!blockVars, Quiet, settings
<1>10. CASE TrackingEndBlocker
  BY <1>10, Zenon DEF TrackingEndBlocker, T!EndBlocker, Quiet, settings
<1>11. CASE UNCHANGED vars
  BY <1>11, Zenon DEF vars, trackingVars, Quiet, settings
<1>12. CASE \/ \E minted \in MintAmounts : NextBlock(minted)
            \/ \E tx \in Txs : AnteHandle(tx)
            \/ RewardsEndBlocker
  BY <1>12, Zenon DEF Pays
<1> QED
  BY <1>1, <1>2, <1>3, <1>4, <1>5, <1>6, <1>7, <1>8, <1>9, <1>10, <1>11, <1>12, ZenonT(30)
     DEF Next, Halted, AtBound

(* What the ante handler records. *)
LEMMA AnteHandleRecords ==
    ASSUME SumLaws, RecordsOK, SettingsShape, FlatFeeHasRecipient, NEW tx \in Txs, AnteHandle(tx)
    PROVE  /\ RecordsOK' /\ DOMAIN records \subseteq DOMAIN records'
           /\ \A i \in DOMAIN records : records'[i] = records[i]
           /\ RewardsOf(DOMAIN records) \in Nat
           /\ RewardsOf(DOMAIN records)' = RewardsOf(DOMAIN records) + FlatFeesOf(tx)
<1>1. PICK new : new = FlatFeeRecords(tx)
  BY Zenon
<1>2. CreateRewardsRecords(new)
  BY <1>1, FlatFeesRecorded, Zenon DEF AnteHandle
<1>3. /\ DOMAIN new \in SUBSET Nat /\ IsFiniteSet(DOMAIN new)
      /\ \A x \in DOMAIN new : new[x] \in Record
      /\ SumFunction([x \in DOMAIN new |-> new[x].rewards]) = FlatFeesOf(tx)
  BY <1>1, FlatFeeRecordsOK, Zenon
<1> QED
  BY <1>2, <1>3, CreatedRewards, Zenon

(* What AllocateBlockRewards records. *)
LEMMA AllocateRecords ==
    ASSUME SumLaws, RecordsOK, SettingsShape, PoolTyped, T!IInv, T!TotalGasIsSum, RewardsEndBlocker
    PROVE  /\ RecordsOK' /\ DOMAIN records \subseteq DOMAIN records'
           /\ \A i \in DOMAIN records : records'[i] = records[i]
           /\ RewardsOf(DOMAIN records) \in Nat
           /\ RewardsOf(DOMAIN records)' =
                  RewardsOf(DOMAIN records) + RewardsFor(Recipients \ ToWallet)
<1>1. PICK new : new = NewRecords
  BY Zenon
<1>2. CreateRewardsRecords(new) /\ phase = "finalized"
  BY <1>1, Zenon DEF RewardsEndBlocker
<1>3. /\ DOMAIN new \in SUBSET Nat /\ IsFiniteSet(DOMAIN new)
      /\ \A x \in DOMAIN new : new[x] \in Record
      /\ SumFunction([x \in DOMAIN new |-> new[x].rewards]) = RewardsFor(Recipients \ ToWallet)
  BY <1>1, <1>2, NewRecordsOK, Zenon
<1> QED
  BY <1>2, <1>3, CreatedRewards, Zenon

(* Every step keeps the records in order. *)
LEMMA RecordsStep ==
    ASSUME SumLaws, RecordsOK, SettingsShape, FlatFeeHasRecipient, PoolTyped,
           T!IInv, T!TotalGasIsSum,
           [Next]_vars
    PROVE  RecordsOK'
<1>1. CASE UNCHANGED recordVars
  BY <1>1, Zenon DEF recordVars, RecordsOK, RecordIndexAgrees
<1>2. CASE \E minted \in MintAmounts : NextBlock(minted)
  BY <1>1, <1>2, Zenon DEF NextBlock
<1>3. CASE \E tx \in Txs : AnteHandle(tx)
  BY <1>3, AnteHandleRecords, Zenon
<1>4. CASE \E address, ids : Withdrawal(address, ids)
  BY <1>4, WithdrawnRecords, Zenon
<1>5. CASE RewardsEndBlocker
  BY <1>5, AllocateRecords, Zenon
<1>6. CASE Quiet
  BY <1>1, <1>6, Zenon DEF Quiet
<1> QED
  BY <1>2, <1>3, <1>4, <1>5, <1>6, PaysOrQuiet, Zenon DEF Pays
-----------------------------------------------------------------------------
LEMMA ParamsNat ==
    ASSUME PoolTyped
    PROVE  /\ params.inflationRewardsRatio \in Nat /\ params.txFeeRebateRatio \in Nat
           /\ params.minPriceOfGas \in Nat
           /\ Precision \in Nat \ {0} /\ params.txFeeRebateRatio < Precision
<1>1. params \in Params /\ Precision \in Nat \ {0}
  BY RewardsAssumptions, Zenon DEF PoolTyped
<1> QED
  BY <1>1 DEF Params

(* The inflation of the next block. *)
LEMMA MinConsFeeNat ==
    ASSUME PoolTyped, NEW rewards \in Nat, UpdateMinConsensusFee(rewards)
    PROVE  minConsFee' \in Nat
<1> DEFINE divisor == BlockGasLimit * (Precision - params.txFeeRebateRatio)
           product == rewards * Precision * Precision * Precision
<1>1. CASE BlockGasLimit > 0
  <2>1. BlockGasLimit \in Nat \ {0} /\ Precision - params.txFeeRebateRatio \in Nat \ {0}
    BY <1>1, ParamsNat, RewardsAssumptions
  <2>2. \A a, b \in Nat \ {0} : a * b \in Nat \ {0}
    OBVIOUS
  <2>3. divisor \in Nat \ {0}
    BY <2>1, <2>2, Zenon
  <2>4. product \in Nat
    <3>1. \A a, b \in Nat : a * b \in Nat
      OBVIOUS
    <3>2. Precision \in Nat
      BY RewardsAssumptions, Zenon
    <3> QED
      BY <3>1, <3>2, Zenon
  <2> HIDE DEF divisor, product
  <2>5. product \div divisor \in Nat /\ Precision \in Nat \ {0}
    BY <2>3, <2>4, RewardsAssumptions
  <2>6. RoundInt(product \div divisor, Precision) \in Nat
    BY <2>5, RoundIntNat, Zenon
  <2>7. CalculateMinConsensusFeeAmt(rewards) = RoundInt(product \div divisor, Precision)
    BY Zenon DEF CalculateMinConsensusFeeAmt, product, divisor
  <2> QED
    BY <2>6, <2>7, Zenon DEF UpdateMinConsensusFee, PoolTyped
<1>2. CASE ~(BlockGasLimit > 0)
  BY <1>2, Zenon DEF UpdateMinConsensusFee, PoolTyped
<1> QED
  BY <1>1, <1>2, Zenon

LEMMA InflationTyped ==
    ASSUME PoolTyped, NEW minted \in MintAmounts, NextBlock(minted)
    PROVE  PoolTyped'
<1> DEFINE dapp == SplitCoins(minted, params.inflationRewardsRatio)
<1>1. dapp \in Nat
  <2>1. minted \in Nat
    BY RewardsAssumptions, Zenon
  <2> QED
    BY <2>1, ParamsNat, MulTruncateNat, Zenon DEF SplitCoins
<1> HIDE DEF dapp
<1>2. UNCHANGED <<params, unfunded, txRewards>>
  BY Zenon DEF NextBlock, settings
<1>3. \/ UNCHANGED <<bank, blockRewards, minConsFee>>
      \/ /\ bank' = [bank EXCEPT ![ContractRewardCollector] = @ + dapp]
         /\ blockRewards' = Put(blockRewards, height + 1,
                                [inflationRewards |-> dapp, maxGas |-> BlockGasLimit])
         /\ UpdateMinConsensusFee(dapp)
  BY Zenon DEF NextBlock, SendInflation, dapp
<1>4. CASE UNCHANGED <<bank, blockRewards, minConsFee>>
  BY <1>2, <1>4, Zenon DEF PoolTyped
<1>5. CASE /\ bank' = [bank EXCEPT ![ContractRewardCollector] = @ + dapp]
           /\ blockRewards' = Put(blockRewards, height + 1,
                                  [inflationRewards |-> dapp, maxGas |-> BlockGasLimit])
           /\ UpdateMinConsensusFee(dapp)
  <2>1. minConsFee' \in Nat
    BY <1>1, <1>5, MinConsFeeNat, Zenon
  <2>2. bank' \in [Holders -> Nat]
    <3>1. bank \in [Holders -> Nat] /\ bank[ContractRewardCollector] \in Nat
      BY Zenon DEF PoolTyped, Holders
    <3>2. bank[ContractRewardCollector] + dapp \in Nat
      BY <1>1, <3>1
    <3> QED
      BY <1>5, <3>1, <3>2, Zenon
  <2>3. [inflationRewards |-> dapp, maxGas |-> BlockGasLimit]
            \in [inflationRewards : Nat, maxGas : {BlockGasLimit}]
    BY <1>1, RewardsAssumptions, Zenon
  <2>4. blockRewards' \in
            [DOMAIN blockRewards' -> [inflationRewards : Nat, maxGas : {BlockGasLimit}]]
    BY <1>5, <2>3, Zenon DEF PoolTyped, Put
  <2> QED
    BY <1>2, <2>1, <2>2, <2>4, Zenon DEF PoolTyped
<1> QED
  BY <1>3, <1>4, <1>5, Zenon

(* A transaction that pays the minimum fee pays the flat fees. *)
LEMMA FeeCoversFlatFees ==
    ASSUME SumLaws, PoolTyped, SettingsShape, FlatFeeHasRecipient, NEW tx \in Txs, AnteHandle(tx)
    PROVE  /\ tx.fee \in Nat /\ FlatFeesOf(tx) \in Nat /\ FlatFeesOf(tx) <= tx.fee
           /\ RewardsFees(tx) \in Nat
<1>1. tx.fee \in Nat /\ tx.gas \in Nat
  BY RewardsAssumptions, Zenon
<1>2. FlatFeesOf(tx) \in Nat
  BY FlatFeeRecordsOK, Zenon
<1>3. ComputationalPriceOfGas \in Nat
  BY ParamsNat, Zenon DEF ComputationalPriceOfGas, PoolTyped
<1>4. MulTruncate(tx.gas, ComputationalPriceOfGas) \in Nat
  BY <1>1, <1>3, MulTruncateNat, Zenon
<1>5. MinFee(tx) = 0 \/ tx.fee >= MinFee(tx)
  BY Zenon DEF AnteHandle
<1>6. MinFee(tx) = MulTruncate(tx.gas, ComputationalPriceOfGas) + FlatFeesOf(tx)
  BY Zenon DEF MinFee
<1>7. FlatFeesOf(tx) <= tx.fee
  BY <1>1, <1>2, <1>4, <1>5, <1>6, SMTT(30)
<1>8. tx.fee - FlatFeesOf(tx) \in Nat
  BY <1>1, <1>2, <1>7
<1>9. RewardsFees(tx) \in Nat
  BY <1>8, ParamsNat, MulTruncateNat, Zenon DEF RewardsFees, SplitCoins
<1> QED
  BY <1>1, <1>2, <1>7, <1>9, Zenon

(* The accounts and the fees after a transaction's ante handler. *)
LEMMA FeesDeducted ==
    ASSUME SumLaws, PoolTyped, PoolInv, SettingsShape, FlatFeeHasRecipient,
           NEW tx \in Txs, AnteHandle(tx)
    PROVE  PoolTyped'
<1>1. tx.payer \in Addresses /\ tx.payer \in Holders /\ tx.payer # ContractRewardCollector
  BY RewardsAssumptions, Zenon DEF Holders
<1>2. /\ tx.fee \in Nat /\ FlatFeesOf(tx) \in Nat /\ RewardsFees(tx) \in Nat
  BY FeeCoversFlatFees, Zenon
<1>3. bank \in [Holders -> Nat] /\ ContractRewardCollector \in Holders
  BY Zenon DEF PoolTyped, Holders
<1>4. bank[tx.payer] >= tx.fee /\ UNCHANGED <<params, minConsFee, blockRewards>>
  BY Zenon DEF AnteHandle, DeductFees, settings
<1>5. /\ bank[tx.payer] - tx.fee \in Nat
      /\ bank[ContractRewardCollector] + FlatFeesOf(tx) + RewardsFees(tx) \in Nat
  BY <1>1, <1>2, <1>3, <1>4
<1>6. unfunded' \in Nat
  <2>1. unfunded \in Nat /\ unfunded + FlatFeesOf(tx) \in Nat
    BY <1>2 DEF PoolTyped
  <2> QED
    BY <2>1, Zenon DEF AnteHandle, DeductFees
<1>7. \/ bank' = [bank EXCEPT ![tx.payer] = @ - tx.fee] /\ UNCHANGED txRewards
      \/ /\ bank' = [bank EXCEPT
               ![tx.payer] = @ - tx.fee,
               ![ContractRewardCollector] = @ + FlatFeesOf(tx) + RewardsFees(tx)]
         /\ txRewards' =
                Put(txRewards, txInfoID', [height |-> height, feeRewards |-> RewardsFees(tx)])
  BY Zenon DEF AnteHandle, DeductFees, TrackFeeRebatesRewards
<1>8. CASE bank' = [bank EXCEPT ![tx.payer] = @ - tx.fee] /\ UNCHANGED txRewards
  <2>1. bank' \in [Holders -> Nat]
    BY <1>3, <1>5, <1>8, Zenon
  <2> QED
    BY <1>4, <1>8, <1>6, <2>1, Zenon DEF PoolTyped
<1>9. CASE /\ bank' = [bank EXCEPT
                 ![tx.payer] = @ - tx.fee,
                 ![ContractRewardCollector] = @ + FlatFeesOf(tx) + RewardsFees(tx)]
           /\ txRewards' =
                Put(txRewards, txInfoID', [height |-> height, feeRewards |-> RewardsFees(tx)])
  <2>1. bank' \in [Holders -> Nat]
    BY <1>1, <1>3, <1>5, <1>9, Zenon
  <2>2. [height |-> height, feeRewards |-> RewardsFees(tx)] \in [height : Nat, feeRewards : Nat]
    BY <1>2, Zenon DEF PoolInv, PoolShape
  <2>3. txRewards' \in [DOMAIN txRewards' -> [height : Nat, feeRewards : Nat]]
    BY <1>9, <2>2, Zenon DEF PoolTyped, Put
  <2> QED
    BY <1>4, <1>6, <2>1, <2>3, Zenon DEF PoolTyped
<1> QED
  BY <1>7, <1>8, <1>9, Zenon

(* A withdrawal moves the tokens of the records it removes. *)
LEMMA WithdrawnTokens ==
    ASSUME SumLaws, PoolTyped, RecordsOK, NEW address, NEW ids, Withdrawal(address, ids)
    PROVE  /\ PoolTyped' /\ UNCHANGED <<height, unfunded, blockRewards, txRewards>>
           /\ phase = "msgs" /\ phase' = "deliver"
           /\ bank'[ContractRewardCollector] = bank[ContractRewardCollector] - RewardsOf(ids)
           /\ bank'[address] = bank[address] + RewardsOf(ids)
           /\ \A a \in Addresses \ {address} : bank'[a] = bank[a]
<1>1. address \in Addresses /\ address \in Holders /\ address # ContractRewardCollector
  BY RewardsAssumptions, Zenon DEF Withdrawal, Holders
<1>2. RewardsOf(ids) \in Nat
  BY WithdrawnRecords, Zenon
<1>3. bank \in [Holders -> Nat] /\ ContractRewardCollector \in Holders
  BY Zenon DEF PoolTyped, Holders
<1>4. /\ RewardsOf(ids) <= bank[ContractRewardCollector]
      /\ bank' = [bank EXCEPT ![ContractRewardCollector] = @ - RewardsOf(ids),
                              ![address] = @ + RewardsOf(ids)]
  BY Zenon DEF Withdrawal, WithdrawRewardsByRecords, SendCoins
<1>5. /\ UNCHANGED <<height, unfunded, blockRewards, txRewards, params, minConsFee>>
      /\ phase = "msgs" /\ phase' = "deliver"
  BY Zenon DEF Withdrawal, WithdrawRewardsByRecords, Message, poolVars
<1>6. /\ bank[ContractRewardCollector] - RewardsOf(ids) \in Nat
      /\ bank[address] + RewardsOf(ids) \in Nat
  BY <1>1, <1>2, <1>3, <1>4
<1>7. bank' \in [Holders -> Nat]
  BY <1>1, <1>3, <1>4, <1>6, Zenon
<1>8. PoolTyped'
  BY <1>5, <1>7, Zenon DEF PoolTyped
<1>9. /\ bank'[ContractRewardCollector] = bank[ContractRewardCollector] - RewardsOf(ids)
      /\ bank'[address] = bank[address] + RewardsOf(ids)
      /\ \A a \in Addresses \ {address} : bank'[a] = bank[a]
  BY <1>1, <1>3, <1>4, RewardsAssumptions, Zenon DEF Holders
<1> QED
  BY <1>5, <1>8, <1>9, Zenon

LEMMA RewardsTotalNat ==
    ASSUME SumLaws, PoolTyped, T!IInv
    PROVE  RewardsTotal \in Nat
<1> DEFINE f == [i \in BlockTxs |-> FeeRewards(i)]
<1>1. DOMAIN f = BlockTxs /\ \A i \in BlockTxs : f[i] \in Nat
  BY CollectedNat, Zenon
<1>2. RewardsTotal = InflationRewards + SumFunction(f)
  BY Zenon DEF RewardsTotal
<1> HIDE DEF f
<1>3. SumFunction(f) \in Nat
  BY <1>1, TxsOfBlock, Zenon DEF SumLaws, DomainNatLaw
<1> QED
  BY <1>2, <1>3, CollectedNat

(* AllocateBlockRewards takes from the module account all that is not      *)
(* recorded.                                                               *)
LEMMA AllocatedTokens ==
    ASSUME SumLaws, PoolTyped, T!IInv, T!TotalGasIsSum, RewardsEndBlocker
    PROVE  /\ bank' \in [Holders -> Nat]
           /\ bank'[ContractRewardCollector] = (bank[ContractRewardCollector] - RewardsTotal)
                                                    + RewardsFor(Recipients \ ToWallet)
<1> DEFINE wallets == RewardsFor(ToWallet)
           recorded == RewardsFor(Recipients \ ToWallet)
           left == RewardsTotal - RewardsDistributed
           C == ContractRewardCollector
<1>0. phase = "finalized"
  BY Zenon DEF RewardsEndBlocker
<1>1. /\ wallets \in Nat /\ recorded \in Nat /\ RewardsDistributed = wallets + recorded
      /\ \A a : SentTo(a) \in Nat
  BY <1>0, AllocatedAmounts, Zenon
<1>2. RewardsTotal \in Nat
  BY RewardsTotalNat, Zenon
<1>3. left >= 0 /\ wallets + left <= bank[C]
  BY Zenon DEF RewardsEndBlocker, CanAllocate, RewardsLeftovers
<1>4. bank' = [a \in Holders |->
                  CASE a = C -> bank[a] - wallets - left
                    [] a = TreasuryCollector -> bank[a] + left
                    [] OTHER -> bank[a] + SentTo(a)]
  BY Zenon DEF RewardsEndBlocker, TransferBlockRewards, ToTreasury, RewardsLeftovers
<1>5. bank \in [Holders -> Nat] /\ C \in Holders /\ C # TreasuryCollector
  BY Zenon DEF PoolTyped, Holders, ContractRewardCollector, TreasuryCollector
<1>6. left \in Nat /\ left = RewardsTotal - (wallets + recorded)
  BY <1>1, <1>2, <1>3
<1> HIDE DEF wallets, recorded, left, C
<1>7. \A a \in Holders : bank[a] \in Nat
  BY <1>5, Zenon
<1>8. \A a \in Holders : bank'[a] \in Nat
  <2> SUFFICES ASSUME NEW a \in Holders PROVE bank'[a] \in Nat
    BY Zenon
  <2>1. CASE a = C
    <3>1. bank'[a] = bank[a] - wallets - left
      BY <1>4, <1>5, <2>1, Zenon
    <3> QED
      BY <1>1, <1>3, <1>6, <1>7, <2>1, <3>1, SMTT(30)
  <2>2. CASE a # C /\ a = TreasuryCollector
    <3>1. bank'[a] = bank[a] + left
      BY <1>4, <2>2, Zenon
    <3> QED
      BY <1>6, <1>7, <3>1
  <2>3. CASE a # C /\ a # TreasuryCollector
    <3>1. bank'[a] = bank[a] + SentTo(a) /\ SentTo(a) \in Nat
      BY <1>1, <1>4, <2>3, Zenon
    <3> QED
      BY <1>7, <3>1
  <2> QED
    BY <2>1, <2>2, <2>3, Zenon
<1>9. bank' \in [Holders -> Nat]
  BY <1>4, <1>8, Zenon
<1>10. bank'[C] = bank[C] - wallets - left
  BY <1>4, <1>5, Zenon
<1>11. bank'[C] = (bank[C] - RewardsTotal) + recorded
  <2>1. bank[C] \in Nat
    BY <1>5, <1>7, Zenon
  <2> QED
    BY <1>1, <1>2, <1>6, <1>10, <2>1, SMTT(30)
<1> QED
  BY <1>9, <1>11, Zenon DEF C, recorded

LEMMA PoolTypedStep ==
    ASSUME SumLaws, PoolTyped, PoolInv, SettingsShape, FlatFeeHasRecipient, RecordsOK,
           T!IInv, T!TotalGasIsSum, [Next]_vars
    PROVE  PoolTyped'
<1>1. CASE Quiet
  <2>1. UNCHANGED <<bank, blockRewards, txRewards, minConsFee, unfunded>> /\ params' \in ParamSets
    BY <1>1, Zenon DEF Quiet, poolVars, PoolTyped
  <2> QED
    BY <2>1, Zenon DEF PoolTyped
<1>2. CASE \E minted \in MintAmounts : NextBlock(minted)
  BY <1>2, InflationTyped, Zenon
<1>3. CASE \E tx \in Txs : AnteHandle(tx)
  BY <1>3, FeesDeducted, Zenon
<1>4. CASE \E address, ids : Withdrawal(address, ids)
  BY <1>4, WithdrawnTokens, Zenon
<1>5. CASE RewardsEndBlocker
  <2>1. bank' \in [Holders -> Nat]
    BY <1>5, AllocatedTokens, Zenon
  <2>2. UNCHANGED <<params, minConsFee, unfunded>>
    BY <1>5, Zenon DEF RewardsEndBlocker, settings
  <2>3. /\ blockRewards' = blockRewards \/ \E h : blockRewards' = Without(blockRewards, h)
        /\ txRewards' = txRewards \/ \E h : txRewards' = Without(txRewards, h)
    BY <1>5, Zenon DEF RewardsEndBlocker, DeleteBlockRewardsCascade, poolVars
  <2>4. blockRewards' \in
            [DOMAIN blockRewards' -> [inflationRewards : Nat, maxGas : {BlockGasLimit}]]
    BY <2>3, Zenon DEF PoolTyped, Without
  <2>5. txRewards' \in [DOMAIN txRewards' -> [height : Nat, feeRewards : Nat]]
    BY <2>3, Zenon DEF PoolTyped, Without
  <2> QED
    BY <2>1, <2>2, <2>4, <2>5, Zenon DEF PoolTyped
<1> QED
  BY <1>1, <1>2, <1>3, <1>4, <1>5, PaysOrQuiet, Zenon DEF Pays
-----------------------------------------------------------------------------
(* A record that a step removes is paid by it. *)
LEMMA PaidStep ==
    ASSUME SumLaws, PoolTyped, PoolInv, SettingsShape, FlatFeeHasRecipient, RecordsOK,
           T!IInv, T!TotalGasIsSum, [Next]_vars
    PROVE  /\ \A i \in DOMAIN records \cap DOMAIN records' : records'[i] = records[i]
           /\ DOMAIN records \ DOMAIN records' # {} => \A a \in Addresses :
                  bank'[a] - bank[a] =
                      RewardsOf({i \in DOMAIN records \ DOMAIN records' :
                                     records[i].rewardsAddress = a})
<1>1. CASE /\ DOMAIN records \subseteq DOMAIN records'
           /\ \A i \in DOMAIN records : records'[i] = records[i]
  <2>1. DOMAIN records \ DOMAIN records' = {}
    BY <1>1, Zenon
  <2> QED
    BY <1>1, <2>1, Zenon
<1>2. CASE UNCHANGED recordVars
  <2>1. records' = records
    BY <1>2, Zenon DEF recordVars
  <2> QED
    BY <1>1, <2>1, Zenon
<1>3. CASE \E minted \in MintAmounts : NextBlock(minted)
  BY <1>2, <1>3, Zenon DEF NextBlock
<1>4. CASE Quiet
  BY <1>2, <1>4, Zenon DEF Quiet
<1>5. CASE \E tx \in Txs : AnteHandle(tx)
  <2>1. /\ DOMAIN records \subseteq DOMAIN records'
        /\ \A i \in DOMAIN records : records'[i] = records[i]
    BY <1>5, AnteHandleRecords, Zenon
  <2> QED
    BY <1>1, <2>1, Zenon
<1>6. CASE RewardsEndBlocker
  <2>1. /\ DOMAIN records \subseteq DOMAIN records'
        /\ \A i \in DOMAIN records : records'[i] = records[i]
    BY <1>6, AllocateRecords, Zenon
  <2> QED
    BY <1>1, <2>1, Zenon
<1>7. ASSUME NEW address, NEW ids, Withdrawal(address, ids)
      PROVE  /\ \A i \in DOMAIN records \cap DOMAIN records' : records'[i] = records[i]
             /\ \A a \in Addresses :
                   bank'[a] - bank[a] =
                       RewardsOf({i \in DOMAIN records \ DOMAIN records' :
                                      records[i].rewardsAddress = a})
  <2>1. /\ DOMAIN records' = DOMAIN records \ ids
        /\ \A i \in DOMAIN records' : records'[i] = records[i]
        /\ RewardsOf(ids) \in Nat
    BY <1>7, WithdrawnRecords, Zenon
  <2>2. /\ address \in Addresses /\ ids \in SUBSET DOMAIN records
        /\ \A i \in ids : records[i].rewardsAddress = address
    BY <1>7, Zenon DEF Withdrawal
  <2>3. DOMAIN records \ DOMAIN records' = ids
    BY <2>1, <2>2, Zenon
  <2>4. /\ bank'[address] = bank[address] + RewardsOf(ids)
        /\ \A a \in Addresses \ {address} : bank'[a] = bank[a]
    BY <1>7, WithdrawnTokens, Zenon
  <2>5. \A a \in Addresses : bank[a] \in Nat
    BY Zenon DEF PoolTyped, Holders
  <2>6. ASSUME NEW a \in Addresses
        PROVE  bank'[a] - bank[a] = RewardsOf({i \in ids : records[i].rewardsAddress = a})
    <3>1. CASE a = address
      <4>1. {i \in ids : records[i].rewardsAddress = a} = ids
        BY <2>2, <3>1, Zenon
      <4>2. bank'[a] - bank[a] = RewardsOf(ids)
        BY <2>1, <2>4, <2>5, <3>1
      <4> QED
        BY <4>1, <4>2, Zenon
    <3>2. CASE a # address
      <4>1. {i \in ids : records[i].rewardsAddress = a} = {}
        BY <2>2, <3>2, Zenon
      <4>2. DOMAIN [i \in {} |-> records[i].rewards] = {}
        BY Zenon
      <4>3. RewardsOf({}) = 0
        BY <4>2, Zenon DEF SumLaws, EmptyLaw, RewardsOf, SumFunction
      <4>4. bank'[a] - bank[a] = 0
        BY <2>4, <2>5, <3>2
      <4> QED
        BY <4>1, <4>3, <4>4, Zenon
    <3> QED
      BY <3>1, <3>2, Zenon
  <2> QED
    BY <2>1, <2>3, <2>6, Zenon
<1> QED
  BY <1>3, <1>4, <1>5, <1>6, <1>7, PaysOrQuiet, Zenon DEF Pays
-----------------------------------------------------------------------------
(* The fees collected in the running block and not yet shared out. *)
FeeTxs == {t \in DOMAIN txRewards : txRewards[t].height = height}
PendingFees == SumFunction([i \in FeeTxs |-> FeeRewards(i)])

LEMMA PendingIs ==
    Pending = IF phase = "allocated" THEN 0 ELSE InflationRewards + PendingFees
BY Zenon DEF Pending, PendingFees, FeeTxs

LEMMA FeeTxsFinite ==
    ASSUME SumLaws, PoolInv
    PROVE  IsFiniteSet(FeeTxs) /\ FeeTxs \in SUBSET (1..txInfoID) /\ txInfoID \in Nat
<1>1. txInfoID \in Nat /\ DOMAIN txRewards \subseteq 1..txInfoID
  BY Zenon DEF PoolInv, PoolShape, PrunedTogether
<1>2. FeeTxs \in SUBSET (1..txInfoID)
  BY <1>1, Zenon DEF FeeTxs
<1>3. IsFiniteSet(1..txInfoID)
  BY <1>1 DEF SumLaws, IntervalLaw
<1> QED
  BY <1>1, <1>2, <1>3, Zenon DEF SumLaws, SubsetLaw

LEMMA PendingFeesNat ==
    ASSUME SumLaws, PoolInv, PoolTyped
    PROVE  PendingFees \in Nat
<1> DEFINE f == [i \in FeeTxs |-> FeeRewards(i)]
<1>1. DOMAIN f = FeeTxs /\ \A i \in FeeTxs : f[i] \in Nat
  BY CollectedNat, Zenon
<1>2. PendingFees = SumFunction(f)
  BY Zenon DEF PendingFees
<1> HIDE DEF f
<1> QED
  BY <1>1, <1>2, FeeTxsFinite, Zenon DEF SumLaws, DomainNatLaw

(* What estimateBlockRewards finds is what the block has collected. *)
LEMMA TotalIsPending ==
    ASSUME SumLaws, PoolInv, PoolTyped, T!IInv
    PROVE  RewardsTotal = InflationRewards + PendingFees
<1> DEFINE f == [i \in BlockTxs |-> FeeRewards(i)]
           g == [i \in FeeTxs |-> FeeRewards(i)]
<1>1. /\ DOMAIN f = BlockTxs /\ \A i \in BlockTxs : f[i] = FeeRewards(i) /\ f[i] \in Nat
      /\ DOMAIN g = FeeTxs /\ \A i \in FeeTxs : g[i] = FeeRewards(i)
  BY CollectedNat, Zenon
<1>2. RewardsTotal = InflationRewards + SumFunction(f) /\ PendingFees = SumFunction(g)
  BY Zenon DEF RewardsTotal, PendingFees
<1> HIDE DEF f, g
<1>3. BlockTxs = {i \in DOMAIN txInfos : txInfos[i].height = height} /\ IsFiniteSet(BlockTxs)
  BY TxsOfBlock, Zenon
<1>4. FeeTxs \in SUBSET BlockTxs
  BY <1>3, Zenon DEF FeeTxs, PoolInv, PrunedTogether
<1>5. ASSUME NEW i \in BlockTxs \ FeeTxs PROVE f[i] = 0
  <2>1. i \notin DOMAIN txRewards
    BY <1>3, Zenon DEF FeeTxs, PoolInv, PrunedTogether
  <2> QED
    BY <1>1, <2>1, Zenon DEF FeeRewards
<1>6. SumFunctionOnSet(f, FeeTxs) = SumFunctionOnSet(f, BlockTxs)
  <2>1. (\A i \in BlockTxs : f[i] \in Nat) /\ \A i \in BlockTxs \ FeeTxs : f[i] = 0
    BY <1>1, <1>5, Zenon
  <2> QED
    BY <1>3, <1>4, <2>1, Zenon DEF SumLaws, NonZeroLaw
<1>7. SumFunction(g) = SumFunctionOnSet(f, FeeTxs)
  <2>1. IsFiniteSet(FeeTxs) /\ \A i \in FeeTxs : g[i] = f[i]
    BY <1>1, <1>4, FeeTxsFinite, Zenon
  <2>2. DOMAIN g = FeeTxs
    BY <1>1, Zenon
  <2> QED
    BY <2>1, <2>2, Zenon DEF SumLaws, DomainLaw
<1>8. SumFunction(f) = SumFunctionOnSet(f, BlockTxs)
  BY <1>1, Zenon DEF SumFunction
<1> QED
  BY <1>2, <1>6, <1>7, <1>8, Zenon

(* Nothing is collected for a block before it begins. *)
LEMMA NothingCollected ==
    ASSUME SumLaws, PoolInv, PoolTyped, T!IInv, NEW minted \in MintAmounts, NextBlock(minted)
    PROVE  /\ FeeTxs' = {} /\ PendingFees' = 0 /\ height + 1 \notin DOMAIN blockRewards
<1>1. height \in Nat /\ height' = height + 1 /\ txRewards' = txRewards
  BY Zenon DEF NextBlock, T!NextBlock, PoolInv, PoolShape
<1>2. \A t \in DOMAIN txRewards : txRewards[t].height <= height
  BY Zenon DEF PoolInv, PrunedTogether, T!IInv, T!WindowOnly
<1>3. FeeTxs' = {}
  <2>1. \A t \in DOMAIN txRewards : txRewards[t].height # height + 1
    <3> TAKE t \in DOMAIN txRewards
    <3>1. txRewards[t].height \in Nat
      BY Zenon DEF PoolTyped
    <3> QED
      BY <1>1, <1>2, <3>1
  <2> QED
    BY <1>1, <2>1, Zenon DEF FeeTxs
<1>4. PendingFees' = 0
  <2>1. DOMAIN [i \in {} |-> FeeRewards(i)'] = {}
    BY Zenon
  <2>2. PendingFees' = SumFunction([i \in {} |-> FeeRewards(i)'])
    BY <1>3, Zenon DEF PendingFees
  <2> QED
    BY <2>1, <2>2, Zenon DEF SumLaws, EmptyLaw, SumFunction
<1>5. height + 1 \notin DOMAIN blockRewards
  BY <1>1 DEF PoolInv, PrunedTogether
<1> QED
  BY <1>3, <1>4, <1>5, Zenon
-----------------------------------------------------------------------------
(* The account and the records change by the same amount in every step.    *)
LEMMA QuietBacked ==
    ASSUME RecordsBacked, Quiet
    PROVE  RecordsBacked'
<1>1. /\ bank' = bank /\ unfunded' = unfunded /\ records' = records /\ height' = height
      /\ blockRewards' = blockRewards /\ txRewards' = txRewards
  BY Zenon DEF Quiet, recordVars, poolVars
<1>2. (phase' = "allocated") <=> (phase = "allocated")
  BY Zenon DEF Quiet
<1>3. Pending' = Pending
  BY <1>1, <1>2, Zenon DEF Pending, InflationRewards, FeeRewards
<1>4. RewardsOf(DOMAIN records)' = RewardsOf(DOMAIN records)
  BY <1>1, Zenon DEF RewardsOf
<1> QED
  BY <1>1, <1>3, <1>4, Zenon DEF RecordsBacked

LEMMA CollectorNat ==
    ASSUME PoolTyped
    PROVE  bank[ContractRewardCollector] \in Nat /\ unfunded \in Nat
BY Zenon DEF PoolTyped, Holders

LEMMA WithdrawBacked ==
    ASSUME SumLaws, RecordsBacked, PoolInv, PoolTyped, RecordsOK,
           NEW address, NEW ids, Withdrawal(address, ids)
    PROVE  RecordsBacked'
<1>1. /\ UNCHANGED <<height, unfunded, blockRewards, txRewards>>
      /\ phase = "msgs" /\ phase' = "deliver"
      /\ bank'[ContractRewardCollector] = bank[ContractRewardCollector] - RewardsOf(ids)
  BY WithdrawnTokens, Zenon
<1>2. Pending' = Pending
  BY <1>1, Zenon DEF Pending, InflationRewards, FeeRewards
<1>3. /\ RewardsOf(ids) \in Nat /\ RewardsOf(DOMAIN records)' \in Nat
      /\ RewardsOf(DOMAIN records) = RewardsOf(ids) + RewardsOf(DOMAIN records)'
  BY WithdrawnRecords, Zenon
<1>4. InflationRewards \in Nat /\ PendingFees \in Nat
  BY CollectedNat, PendingFeesNat, Zenon
<1>5. Pending \in Nat
  BY <1>4, PendingIs
<1>6. bank[ContractRewardCollector] + unfunded = RewardsOf(DOMAIN records) + Pending
  BY Zenon DEF RecordsBacked
<1>7. bank[ContractRewardCollector] \in Nat /\ unfunded \in Nat
  BY CollectorNat, Zenon
<1>8. bank'[ContractRewardCollector] + unfunded' = RewardsOf(DOMAIN records)' + Pending'
  BY <1>1, <1>2, <1>3, <1>5, <1>6, <1>7, SMTT(30)
<1> QED
  BY <1>8, Zenon DEF RecordsBacked

LEMMA RecordsNat ==
    ASSUME SumLaws, RecordsOK
    PROVE  RewardsOf(DOMAIN records) \in Nat
<1> DEFINE f == [i \in DOMAIN records |-> records[i].rewards]
<1>1. DOMAIN f = DOMAIN records /\ \A i \in DOMAIN records : f[i] \in Nat
  BY RecordsFinite, Zenon
<1>2. RewardsOf(DOMAIN records) = SumFunction(f)
  BY Zenon DEF RewardsOf
<1> HIDE DEF f
<1> QED
  BY <1>1, <1>2, RecordsFinite, Zenon DEF SumLaws, DomainNatLaw

LEMMA InflationBacked ==
    ASSUME SumLaws, RecordsBacked, PoolInv, PoolTyped, RecordsOK, T!IInv,
           NEW minted \in MintAmounts, NextBlock(minted)
    PROVE  RecordsBacked'
<1> DEFINE dapp == SplitCoins(minted, params.inflationRewardsRatio)
<1>1. /\ phase = "allocated" /\ phase' = "deliver" /\ height' = height + 1 /\ records' = records
      /\ unfunded' = unfunded
  BY Zenon DEF NextBlock, T!NextBlock, recordVars
<1>2. PendingFees' = 0 /\ height + 1 \notin DOMAIN blockRewards
  BY NothingCollected, Zenon
<1>3. Pending' = InflationRewards' + 0
  <2>1. Pending' = InflationRewards' + PendingFees'
    BY <1>1, Zenon DEF Pending, PendingFees, FeeTxs
  <2> QED
    BY <1>2, <2>1, Zenon
<1>4. bank[ContractRewardCollector] + unfunded = RewardsOf(DOMAIN records) + 0
  BY <1>1, Zenon DEF RecordsBacked, Pending
<1>5. RewardsOf(DOMAIN records)' = RewardsOf(DOMAIN records)
  BY <1>1, Zenon DEF RewardsOf
<1>6. bank \in [Holders -> Nat] /\ ContractRewardCollector \in Holders
  BY Zenon DEF PoolTyped, Holders
<1>7. dapp \in Nat
  <2>1. minted \in Nat
    BY RewardsAssumptions, Zenon
  <2> QED
    BY <2>1, ParamsNat, MulTruncateNat, Zenon DEF SplitCoins
<1>8. /\ RewardsOf(DOMAIN records) \in Nat
      /\ bank[ContractRewardCollector] \in Nat /\ unfunded \in Nat
  BY RecordsNat, CollectorNat, Zenon
<1>9. CASE params.inflationRewardsRatio = 0
  <2>1. bank' = bank /\ blockRewards' = blockRewards
    BY <1>9, Zenon DEF NextBlock, SendInflation
  <2>2. InflationRewards' = 0
    BY <1>1, <1>2, <2>1, Zenon DEF InflationRewards
  <2> QED
    BY <1>1, <1>3, <1>4, <1>5, <2>1, <2>2, SMTT(30) DEF RecordsBacked
<1>10. CASE params.inflationRewardsRatio # 0
  <2>1. /\ bank' = [bank EXCEPT ![ContractRewardCollector] = @ + dapp]
        /\ blockRewards' = Put(blockRewards, height + 1,
                               [inflationRewards |-> dapp, maxGas |-> BlockGasLimit])
    BY <1>10, Zenon DEF NextBlock, SendInflation
  <2>2. InflationRewards' = dapp
    BY <1>1, <2>1, Zenon DEF InflationRewards, Put
  <2>3. bank'[ContractRewardCollector] = bank[ContractRewardCollector] + dapp
    BY <1>6, <2>1, Zenon
  <2> HIDE DEF dapp
  <2>4. bank'[ContractRewardCollector] + unfunded' = RewardsOf(DOMAIN records)' + Pending'
    BY <1>1, <1>3, <1>4, <1>5, <1>7, <1>8, <2>2, <2>3, SMTT(30)
  <2> QED
    BY <2>4, Zenon DEF RecordsBacked
<1> QED
  BY <1>9, <1>10, Zenon

(* The fees of a transaction, where they go to the contracts. *)
LEMMA FeesTracked ==
    ASSUME SumLaws, PoolInv, PoolTyped, SettingsShape, FlatFeeHasRecipient,
           NEW tx \in Txs, AnteHandle(tx),
           txRewards' = Put(txRewards, txInfoID + 1,
                            [height |-> height, feeRewards |-> RewardsFees(tx)])
    PROVE  PendingFees' = PendingFees + RewardsFees(tx)
<1> DEFINE new == txInfoID + 1
           f == [i \in FeeTxs |-> FeeRewards(i)]
           g == [i \in FeeTxs \cup {new} |-> IF i = new THEN RewardsFees(tx) ELSE FeeRewards(i)]
<1>1. IsFiniteSet(FeeTxs) /\ new \notin FeeTxs
  BY FeeTxsFinite
<1>2. height' = height
  BY Zenon DEF AnteHandle, T!AnteHandle
<1>3. new \notin DOMAIN txRewards
  BY DEF PoolInv, PoolShape, PrunedTogether
<1>4. FeeTxs' = FeeTxs \cup {new}
  BY <1>2, <1>3, Zenon DEF FeeTxs, Put
<1>5. \A i \in FeeTxs' : FeeRewards(i)' = IF i = new THEN RewardsFees(tx) ELSE FeeRewards(i)
  BY <1>3, Zenon DEF FeeTxs, Put, FeeRewards
<1>6. PendingFees' = SumFunction(g)
  <2>1. PendingFees' = SumFunction([i \in FeeTxs' |-> FeeRewards(i)'])
    BY Zenon DEF PendingFees
  <2>2. [i \in FeeTxs' |-> FeeRewards(i)'] = g
    BY <1>4, <1>5, Zenon
  <2> QED
    BY <2>1, <2>2, Zenon
<1>7. RewardsFees(tx) \in Nat /\ \A i \in FeeTxs : FeeRewards(i) \in Nat
  BY FeeCoversFlatFees, CollectedNat, Zenon
<1>8. /\ DOMAIN g = FeeTxs \cup {new} /\ \A i \in FeeTxs \cup {new} : g[i] \in Nat
      /\ g[new] = RewardsFees(tx) /\ \A i \in FeeTxs : f[i] = g[i]
  BY <1>1, <1>7, Zenon
<1>9. PendingFees = SumFunction(f) /\ DOMAIN f = FeeTxs
  BY Zenon DEF PendingFees
<1> HIDE DEF new, f, g
<1>10. SumFunctionOnSet(g, FeeTxs \cup {new}) = SumFunctionOnSet(g, FeeTxs) + g[new]
  BY <1>1, <1>8, Zenon DEF SumLaws, AddLaw
<1>11. SumFunction(f) = SumFunctionOnSet(g, FeeTxs)
  BY <1>1, <1>8, <1>9, Zenon DEF SumLaws, DomainLaw
<1>12. SumFunction(g) = SumFunctionOnSet(g, FeeTxs \cup {new})
  BY <1>8, Zenon DEF SumFunction
<1> QED
  BY <1>6, <1>8, <1>9, <1>10, <1>11, <1>12, Zenon

LEMMA FeesBacked ==
    ASSUME SumLaws, RecordsBacked, PoolInv, PoolTyped, RecordsOK, SettingsShape, FlatFeeHasRecipient,
           NEW tx \in Txs, AnteHandle(tx)
    PROVE  RecordsBacked'
<1>1. /\ phase = "deliver" /\ phase' = "msgs" /\ height' = height /\ txInfoID' = txInfoID + 1
      /\ blockRewards' = blockRewards
  BY Zenon DEF AnteHandle, T!AnteHandle, T!TrackNewTx
<1>2. Pending = InflationRewards + PendingFees /\ Pending' = InflationRewards + PendingFees'
  <2>1. InflationRewards' = InflationRewards
    BY <1>1, Zenon DEF InflationRewards
  <2>2. Pending' = InflationRewards' + PendingFees'
    BY <1>1, Zenon DEF Pending, PendingFees, FeeTxs
  <2> QED
    BY <1>1, <2>1, <2>2, PendingIs, Zenon
<1>3. /\ RewardsOf(DOMAIN records) \in Nat
      /\ RewardsOf(DOMAIN records)' = RewardsOf(DOMAIN records) + FlatFeesOf(tx)
  BY AnteHandleRecords, Zenon
<1>4. InflationRewards \in Nat /\ PendingFees \in Nat
  BY CollectedNat, PendingFeesNat, Zenon
<1>5. /\ tx.fee \in Nat /\ FlatFeesOf(tx) \in Nat /\ FlatFeesOf(tx) <= tx.fee
      /\ RewardsFees(tx) \in Nat
  BY FeeCoversFlatFees, Zenon
<1>6. bank[ContractRewardCollector] + unfunded = RewardsOf(DOMAIN records) + Pending
  BY Zenon DEF RecordsBacked
<1>7. /\ bank \in [Holders -> Nat] /\ ContractRewardCollector \in Holders
      /\ tx.payer # ContractRewardCollector
  BY RewardsAssumptions, Zenon DEF PoolTyped, Holders
<1>8. bank[ContractRewardCollector] \in Nat /\ unfunded \in Nat
  BY CollectorNat, Zenon
<1>9. CASE tx.fee = 0 \/ params.txFeeRebateRatio = 0 \/ ~HasWasmMsgs(tx)
  <2>1. /\ bank' = [bank EXCEPT ![tx.payer] = @ - tx.fee] /\ txRewards' = txRewards
        /\ unfunded' = unfunded + FlatFeesOf(tx)
    BY <1>9, Zenon DEF AnteHandle, DeductFees
  <2>2. bank'[ContractRewardCollector] = bank[ContractRewardCollector]
    BY <1>7, <2>1, Zenon
  <2>3. PendingFees' = PendingFees
    BY <1>1, <2>1, Zenon DEF PendingFees, FeeTxs, FeeRewards
  <2>4. bank'[ContractRewardCollector] + unfunded' = RewardsOf(DOMAIN records)' + Pending'
    BY <1>2, <1>3, <1>4, <1>5, <1>6, <1>8, <2>1, <2>2, <2>3, SMTT(30)
  <2> QED
    BY <2>4, Zenon DEF RecordsBacked
<1>10. CASE ~(tx.fee = 0 \/ params.txFeeRebateRatio = 0 \/ ~HasWasmMsgs(tx))
  <2>1. /\ bank' = [bank EXCEPT
               ![tx.payer] = @ - tx.fee,
               ![ContractRewardCollector] = @ + FlatFeesOf(tx) + RewardsFees(tx)]
        /\ TrackFeeRebatesRewards(RewardsFees(tx)) /\ unfunded' = unfunded
    BY <1>10, Zenon DEF AnteHandle, DeductFees
  <2>2. bank'[ContractRewardCollector] =
            bank[ContractRewardCollector] + FlatFeesOf(tx) + RewardsFees(tx)
    BY <1>7, <2>1, Zenon
  <2>3. PendingFees' = PendingFees + RewardsFees(tx)
    <3>1. txRewards' = Put(txRewards, txInfoID + 1,
                           [height |-> height, feeRewards |-> RewardsFees(tx)])
      BY <1>1, <2>1, Zenon DEF TrackFeeRebatesRewards
    <3> QED
      BY <3>1, FeesTracked, Zenon
  <2>4. bank'[ContractRewardCollector] + unfunded' = RewardsOf(DOMAIN records)' + Pending'
    BY <1>2, <1>3, <1>4, <1>5, <1>6, <1>8, <2>1, <2>2, <2>3, SMTT(30)
  <2> QED
    BY <2>4, Zenon DEF RecordsBacked
<1> QED
  BY <1>9, <1>10, Zenon

LEMMA AllocationBacked ==
    ASSUME SumLaws, RecordsBacked, PoolInv, PoolTyped, RecordsOK, SettingsShape,
           T!IInv, T!TotalGasIsSum,
           RewardsEndBlocker
    PROVE  RecordsBacked'
<1>1. phase = "finalized" /\ phase' = "allocated" /\ unfunded' = unfunded
  BY Zenon DEF RewardsEndBlocker, T!RewardsEndBlocker
<1>2. Pending = RewardsTotal /\ Pending' = 0
  <2>1. Pending = InflationRewards + PendingFees
    BY <1>1, PendingIs, Zenon
  <2>2. Pending' = 0
    BY <1>1, Zenon DEF Pending
  <2> QED
    BY <2>1, <2>2, TotalIsPending, Zenon
<1>3. /\ RewardsOf(DOMAIN records) \in Nat
      /\ RewardsOf(DOMAIN records)' = RewardsOf(DOMAIN records) + RewardsFor(Recipients \ ToWallet)
  BY AllocateRecords, Zenon
<1>4. bank'[ContractRewardCollector] = (bank[ContractRewardCollector] - RewardsTotal)
                                            + RewardsFor(Recipients \ ToWallet)
  BY AllocatedTokens, Zenon
<1>5. RewardsTotal \in Nat /\ RewardsFor(Recipients \ ToWallet) \in Nat
  BY <1>1, RewardsTotalNat, AllocatedAmounts, Zenon
<1>6. bank[ContractRewardCollector] + unfunded = RewardsOf(DOMAIN records) + Pending
  BY Zenon DEF RecordsBacked
<1>7. bank[ContractRewardCollector] \in Nat /\ unfunded \in Nat
  BY CollectorNat, Zenon
<1>8. bank'[ContractRewardCollector] + unfunded' = RewardsOf(DOMAIN records)' + Pending'
  BY <1>1, <1>2, <1>3, <1>4, <1>5, <1>6, <1>7, SMTT(30)
<1> QED
  BY <1>8, Zenon DEF RecordsBacked

LEMMA BackedStep ==
    ASSUME SumLaws, RecordsBacked, PoolInv, PoolTyped, RecordsOK, SettingsShape, FlatFeeHasRecipient,
           T!IInv, T!TotalGasIsSum, [Next]_vars
    PROVE  RecordsBacked'
<1>1. CASE Quiet
  BY <1>1, QuietBacked, Zenon
<1>2. CASE \E minted \in MintAmounts : NextBlock(minted)
  BY <1>2, InflationBacked, Zenon
<1>3. CASE \E tx \in Txs : AnteHandle(tx)
  BY <1>3, FeesBacked, Zenon
<1>4. CASE \E address, ids : Withdrawal(address, ids)
  BY <1>4, WithdrawBacked, Zenon
<1>5. CASE RewardsEndBlocker
  BY <1>5, AllocationBacked, Zenon
<1>6. Quiet \/ Pays
  BY PaysOrQuiet, Zenon
<1> QED
  BY <1>1, <1>2, <1>3, <1>4, <1>5, <1>6, Zenon DEF Pays
=============================================================================
