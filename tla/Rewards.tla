------------------------------ MODULE Rewards -------------------------------
(***************************************************************************)
(* x/rewards on top of x/tracking: part of the inflation and of the fees   *)
(* of contract calls is collected in the module account, shared at the end *)
(* of the block among the contracts in proportion to the gas they used,    *)
(* and kept in records until it is withdrawn.  What is not shared goes to  *)
(* the treasury.                                                           *)
(*                                                                         *)
(* There is one denomination.  Decimals count units of 1 / Precision.      *)
(* Contracts are numbered in the order of their addresses.  The balance of *)
(* the fee collector is left out: what is sent to it, and what is burned   *)
(* there, leaves the accounts of the model.                                *)
(***************************************************************************)
EXTENDS Coins, Sequences, FiniteSets, Functions

CONSTANTS
    Contracts, Sessions, PruneAfter, MaxTxs, MaxOps, LastHeight,  \* as in Tracking
    Addresses,          \* accounts
    Blocked,            \* those x/bank does not let receive coins
    Admin,              \* contract -> its wasm admin
    InitialMetadata,    \* contract -> its metadata at the start
    InitialFunds,       \* account -> its balance at the start
    ParamSets,          \* module parameters governance may choose
    MintAmounts,        \* what x/mint may mint for a block
    BlockGasLimit,      \* consensus parameter, 0 when it is not set
    Txs,                \* transactions: [payer, calls, wrapped, fee, gas]
    MetaUpdates,        \* contents of MsgSetContractMetadata
    FlatFeeAmounts,     \* contents of MsgSetFlatFee
    Precision,          \* of decimals, 10^18 in the code
    None                \* an address or metadata that is not set

VARIABLES
    height, phase, txInfoID, txInfos, txBlockIndex, opID, contractOps, opTxIndex,
    params,             \* Params
    bank,               \* balances
    minConsFee,         \* MinConsFee, 0 when it is not set
    contractMetadata,   \* ContractMetadata by contract
    flatFees,           \* FlatFees by contract, 0 where there is none
    blockRewards,       \* BlockRewards by height, [inflationRewards, maxGas]
    txRewards,          \* TxRewards by transaction, [height, feeRewards]
    recordID,           \* RewardsRecordID
    records,            \* RewardsRecords by identifier, [rewardsAddress, rewards]
    recordIndex,        \* its Address index, a set of <<address, id>>
    unfunded            \* history: flat fees recorded whose coins went elsewhere

T == INSTANCE Tracking

txVars == <<txInfoID, txInfos, txBlockIndex>>
opVars == <<opID, contractOps, opTxIndex>>
trackingVars == <<height, phase, txVars, opVars>>
recordVars == <<recordID, records, recordIndex>>
poolVars == <<blockRewards, txRewards>>
settings == <<params, contractMetadata, flatFees>>
vars == <<trackingVars, bank, minConsFee, unfunded, recordVars, poolVars, settings>>

ContractRewardCollector == "rewards"
TreasuryCollector == "treasury"
Holders == Addresses \cup {ContractRewardCollector, TreasuryCollector}

Metadata == [ownerAddress : Addresses, rewardsAddress : Addresses \cup {None},
             withdrawToWallet : BOOLEAN]
Params == [inflationRewardsRatio : 0..(Precision - 1), txFeeRebateRatio : 0..(Precision - 1),
           maxWithdrawRecords : Nat \ {0}, minPriceOfGas : Nat]

ASSUME RewardsAssumptions ==
    /\ Contracts \subseteq Nat /\ IsFiniteSet(Contracts)
    /\ Precision \in Nat \ {0} /\ BlockGasLimit \in Nat /\ MintAmounts \subseteq Nat
    /\ Blocked \subseteq Addresses /\ None \notin Addresses /\ None \notin Metadata
    /\ ContractRewardCollector \notin Addresses /\ TreasuryCollector \notin Addresses
    /\ Sessions \subseteq Seq([contract : Contracts, gas : Nat])
    /\ PruneAfter \in Nat \ {0} /\ MaxTxs \in Nat /\ MaxOps \in Nat /\ LastHeight \in Nat
    /\ Admin \in [Contracts -> Addresses]
    /\ InitialMetadata \in [Contracts -> Metadata \cup {None}]
    /\ InitialFunds \in [Addresses -> Nat]
    /\ ParamSets \subseteq Params
    /\ Txs \subseteq [payer : Addresses \ Blocked, calls : Seq(Contracts), wrapped : BOOLEAN,
                      fee : Nat, gas : Nat]
    /\ MetaUpdates \subseteq [ownerAddress : Addresses \cup {None},
                              rewardsAddress : Addresses \cup {None}, withdrawToWallet : BOOLEAN]
    /\ FlatFeeAmounts \subseteq Nat

Init ==
    /\ T!Init
    /\ params \in ParamSets
    /\ bank = [a \in Holders |-> IF a \in Addresses THEN InitialFunds[a] ELSE 0]
    /\ minConsFee = 0
    /\ contractMetadata = InitialMetadata
    /\ flatFees = [c \in Contracts |-> 0]
    /\ blockRewards = << >> /\ txRewards = << >>
    /\ recordID = 0 /\ records = << >> /\ recordIndex = {}
    /\ unfunded = 0

Put(f, k, v) == [x \in DOMAIN f \cup {k} |-> IF x = k THEN v ELSE f[x]]
Without(f, ks) == [x \in DOMAIN f \ ks |-> f[x]]
-----------------------------------------------------------------------------
(* Decimals: amount * ratio truncated, and the quotient of integers, which *)
(* LegacyDec.Quo cuts to twice the precision before it rounds.             *)
MulTruncate(amount, ratio) == (amount * ratio) \div Precision
Quo(a, b) == RoundInt((a * Precision * Precision) \div b, Precision)

(* The first of the two parts SplitCoins makes; the second is the rest. *)
SplitCoins(amount, ratio) == MulTruncate(amount, ratio)

CalculateMinConsensusFeeAmt(rewards) ==
    LET divisor == BlockGasLimit * (Precision - params.txFeeRebateRatio)
    IN  RoundInt((rewards * Precision * Precision * Precision) \div divisor, Precision)

UpdateMinConsensusFee(rewards) ==
    minConsFee' = IF BlockGasLimit > 0 /\ CalculateMinConsensusFeeAmt(rewards) > 0
                  THEN CalculateMinConsensusFeeAmt(rewards)
                  ELSE minConsFee

ComputationalPriceOfGas ==
    IF minConsFee > params.minPriceOfGas THEN minConsFee ELSE params.minPriceOfGas

HasMetadata(c) == contractMetadata[c] # None
HasRewardsAddress(c) == HasMetadata(c) /\ contractMetadata[c].rewardsAddress # None

(* The n-th of a set of numbers in their order. *)
Nth(S, n) == CHOOSE x \in S : Cardinality({y \in S : y <= x}) = n

(* CreateRewardsRecord for each [rewardsAddress, rewards] of a function    *)
(* from numbers, in their order.                                           *)
CreateRewardsRecords(new) ==
    LET ids == (recordID + 1)..(recordID + Cardinality(DOMAIN new))
        Created(i) == new[Nth(DOMAIN new, i - recordID)]
    IN  /\ recordID' = recordID + Cardinality(DOMAIN new)
        /\ records' = [i \in DOMAIN records \cup ids |->
                          IF i \in ids THEN Created(i) ELSE records[i]]
        /\ recordIndex' = recordIndex \cup {<<Created(i).rewardsAddress, i>> : i \in ids}
-----------------------------------------------------------------------------
(* The inflation of a block: x/mint sends what it minted through           *)
(* mintbankkeeper, which panics when the split leaves nothing for the      *)
(* contracts: the block does not begin, see Halted.                        *)
SplitsInflation(minted) ==
    params.inflationRewardsRatio = 0 \/ SplitCoins(minted, params.inflationRewardsRatio) > 0

SendInflation(minted) ==
    LET dapp == SplitCoins(minted, params.inflationRewardsRatio)
    IN  IF params.inflationRewardsRatio = 0
        THEN UNCHANGED <<bank, blockRewards, minConsFee>>
        ELSE /\ bank' = [bank EXCEPT ![ContractRewardCollector] = @ + dapp]
             /\ blockRewards' = Put(blockRewards, height + 1,
                                    [inflationRewards |-> dapp, maxGas |-> BlockGasLimit])
             /\ UpdateMinConsensusFee(dapp)

NextBlock(minted) ==
    /\ SplitsInflation(minted)
    /\ T!NextBlock
    /\ SendInflation(minted)
    /\ UNCHANGED <<unfunded, txRewards, recordVars, settings>>
-----------------------------------------------------------------------------
(* The ante handler of a transaction. *)

(* GetContractFlatFees: the calls for which a flat fee is due. *)
FlatFeeCalls(tx) == {n \in DOMAIN tx.calls : flatFees[tx.calls[n]] > 0}
FlatFeesOf(tx) == SumFunction([n \in FlatFeeCalls(tx) |-> flatFees[tx.calls[n]]])

(* A call inside MsgExec has its flat fee taken into account, but the      *)
(* message does not count as a contract call.                              *)
HasWasmMsgs(tx) == tx.calls # << >> /\ ~tx.wrapped

MinFee(tx) == MulTruncate(tx.gas, ComputationalPriceOfGas) + FlatFeesOf(tx)

CreateFlatFeeRewardsRecords(tx) ==
    CreateRewardsRecords(
        [n \in FlatFeeCalls(tx) |->
            [rewardsAddress |-> contractMetadata[tx.calls[n]].rewardsAddress,
             rewards |-> flatFees[tx.calls[n]]]])

TrackFeeRebatesRewards(rewards) ==
    txRewards' = Put(txRewards, txInfoID', [height |-> height, feeRewards |-> rewards])

(* The part of the fees that is rewards for the contracts called. *)
RewardsFees(tx) == SplitCoins(tx.fee - FlatFeesOf(tx), params.txFeeRebateRatio)

DeductFees(tx) ==
    /\ bank[tx.payer] >= tx.fee
    /\ IF tx.fee = 0 \/ params.txFeeRebateRatio = 0 \/ ~HasWasmMsgs(tx)
       THEN /\ bank' = [bank EXCEPT ![tx.payer] = @ - tx.fee]
            /\ unfunded' = unfunded + FlatFeesOf(tx)
            /\ UNCHANGED txRewards
       ELSE /\ bank' = [bank EXCEPT
                   ![tx.payer] = @ - tx.fee,
                   ![ContractRewardCollector] = @ + FlatFeesOf(tx) + RewardsFees(tx)]
            /\ TrackFeeRebatesRewards(RewardsFees(tx))
            /\ UNCHANGED unfunded

(* MinFeeDecorator, TxGasTrackingDecorator and DeductFeeDecorator; when    *)
(* one of them fails, nothing is kept.                                     *)
AnteHandle(tx) ==
    /\ MinFee(tx) = 0 \/ tx.fee >= MinFee(tx)
    /\ CreateFlatFeeRewardsRecords(tx)
    /\ T!AnteHandle
    /\ DeductFees(tx)
    /\ UNCHANGED <<minConsFee, blockRewards, settings>>
-----------------------------------------------------------------------------
(* The messages of a transaction. *)

GasOf(session) == SumFunction([n \in DOMAIN session |-> session[n].gas])

BlockTxs == T!GetTxInfosByBlock(height)
TrackedGas == SumFunction([i \in BlockTxs |-> T!GasOfTx(i)])

(* The gas meters: what is tracked in a block stays within its limit. *)
WithinBlockGas(session) ==
    BlockGasLimit > 0 => TrackedGas + GasOf(session) <= BlockGasLimit

MsgsSucceed(session) ==
    /\ WithinBlockGas(session)
    /\ T!MsgsSucceed(session)
    /\ UNCHANGED <<bank, minConsFee, unfunded, recordVars, poolVars, settings>>

MsgsFail == T!MsgsFail /\ UNCHANGED <<bank, minConsFee, unfunded, recordVars, poolVars, settings>>

(* The message of the transaction is one of this module's. *)
Message ==
    /\ phase = "msgs" /\ phase' = "deliver"
    /\ UNCHANGED <<height, txVars, opVars, minConsFee, unfunded, poolVars, params>>

(* Mutant: the rewards address is not checked. *)
AnyAddress(address) == TRUE

MayReceive(address) == address \notin Blocked

(* Mutant: fields the update leaves out are overwritten, too. *)
OverwrittenMetadata(sender, c, updates) == updates

UpdatedMetadata(sender, c, updates) ==
    [ownerAddress |-> IF updates.ownerAddress # None THEN updates.ownerAddress
                      ELSE IF HasMetadata(c) THEN contractMetadata[c].ownerAddress ELSE sender,
     rewardsAddress |-> IF updates.rewardsAddress # None THEN updates.rewardsAddress
                        ELSE IF HasMetadata(c) THEN contractMetadata[c].rewardsAddress ELSE None,
     withdrawToWallet |-> updates.withdrawToWallet]

SetContractMetadata(sender, c, updates) ==
    /\ Message
    /\ updates.rewardsAddress # None => MayReceive(updates.rewardsAddress)
    /\ sender = IF HasMetadata(c) THEN contractMetadata[c].ownerAddress ELSE Admin[c]
    /\ contractMetadata' = [contractMetadata EXCEPT ![c] = UpdatedMetadata(sender, c, updates)]
    /\ UNCHANGED <<bank, flatFees, recordVars>>

(* Mutant: a flat fee may be set before the rewards address. *)
AnyFlatFee(c, amount) == TRUE

MayHaveFlatFee(c, amount) == amount > 0 => HasRewardsAddress(c)

SetFlatFee(sender, c, amount) ==
    /\ Message
    /\ HasMetadata(c) /\ contractMetadata[c].ownerAddress = sender
    /\ MayHaveFlatFee(c, amount)
    /\ flatFees' = [flatFees EXCEPT ![c] = amount]
    /\ UNCHANGED <<bank, contractMetadata, recordVars>>

OwnRecords(address) == {i \in 1..recordID : <<address, i>> \in recordIndex}

FirstOf(ids, n) == {i \in ids : Cardinality({j \in ids : j <= i}) <= n}

RewardsOf(ids) == SumFunction([i \in ids |-> records[i].rewards])

(* Mutant: only the records are deleted, not their entries in the index. *)
FastRemoveRecordsOnly(address, ids) ==
    /\ records' = Without(records, ids)
    /\ UNCHANGED <<recordID, recordIndex>>

FastRemoveRecords(address, ids) ==
    /\ records' = Without(records, ids)
    /\ recordIndex' = recordIndex \ ({address} \X ids)
    /\ UNCHANGED recordID

(* withdrawRewardsByRecords; when the transfer fails, so does the          *)
(* transaction.                                                            *)
WithdrawRewardsByRecords(address, ids) ==
    /\ Message
    /\ MayReceive(address) /\ RewardsOf(ids) <= bank[ContractRewardCollector]
    /\ bank' = SendCoins(bank, ContractRewardCollector, address, RewardsOf(ids))
    /\ FastRemoveRecords(address, ids)
    /\ UNCHANGED <<contractMetadata, flatFees>>

WithdrawRewardsByRecordsLimit(address, limit) ==
    /\ limit <= params.maxWithdrawRecords
    /\ WithdrawRewardsByRecords(address,
           FirstOf(OwnRecords(address), IF limit = 0 THEN params.maxWithdrawRecords ELSE limit))

(* Mutant: the records are not compared with the address. *)
AnyRecord(address, id) == id \in DOMAIN records

IsRecordOf(address, id) ==
    id \in DOMAIN records /\ records[id].rewardsAddress = address

WithdrawRewardsByRecordIDs(address, ids) ==
    /\ ids # {} /\ Cardinality(ids) <= params.maxWithdrawRecords
    /\ \A id \in ids : IsRecordOf(address, id)
    /\ WithdrawRewardsByRecords(address, ids)
-----------------------------------------------------------------------------
(* The end of the block. *)

EndTransactions ==
    /\ T!EndTransactions
    /\ UNCHANGED <<bank, minConsFee, unfunded, recordVars, poolVars, settings>>

(* Proposals of x/gov, which x/tracking's EndBlocker follows. *)
UpdateParams(new) ==
    /\ phase = "endblock"
    /\ params' = new
    /\ UNCHANGED <<trackingVars, bank, minConsFee, unfunded, recordVars, poolVars, contractMetadata, flatFees>>

(* A contract called by an EndBlocker; no block gas limit applies. *)
EndBlockCall(session) ==
    /\ T!EndBlockCall(session)
    /\ UNCHANGED <<bank, minConsFee, unfunded, recordVars, poolVars, settings>>

TrackingEndBlocker ==
    /\ T!EndBlocker
    /\ UNCHANGED <<bank, minConsFee, unfunded, recordVars, poolVars, settings>>

(* estimateBlockGasUsage *)
TxGasUsed(c, i) ==
    T!OpsGas({o \in T!GetContractOpInfoByTxID(i) : contractOps[o].contract = c})
BlockGasUsed(c) == SumFunction([i \in BlockTxs |-> TxGasUsed(c, i)])

(* estimateBlockRewards *)
InflationRewards == IF height \in DOMAIN blockRewards THEN blockRewards[height].inflationRewards ELSE 0
FeeRewards(i) == IF i \in DOMAIN txRewards THEN txRewards[i].feeRewards ELSE 0
RewardsTotal == InflationRewards + SumFunction([i \in BlockTxs |-> FeeRewards(i)])

InflationShare(c) ==
    IF InflationRewards > 0 /\ blockRewards[height].maxGas > 0
    THEN MulTruncate(InflationRewards, Quo(BlockGasUsed(c), blockRewards[height].maxGas))
    ELSE 0

(* Mutant: the gas a contract used in the block stands for each transaction. *)
FeeShareOfBlock(c) ==
    SumFunction([i \in {t \in BlockTxs : TxGasUsed(c, t) > 0} |->
                    MulTruncate(FeeRewards(i), Quo(BlockGasUsed(c), txInfos[i].totalGas))])

FeeShare(c) ==
    SumFunction([i \in {t \in BlockTxs : TxGasUsed(c, t) > 0} |->
                    MulTruncate(FeeRewards(i), Quo(TxGasUsed(c, i), txInfos[i].totalGas))])

ContractRewards(c) == InflationShare(c) + FeeShare(c)

(* createRewardsRecords: who gets rewards, and who gets them at once. *)
Recipients == {c \in Contracts : ContractRewards(c) > 0 /\ HasRewardsAddress(c)}
ToWallet == {c \in Recipients : contractMetadata[c].withdrawToWallet}

RewardsFor(contracts) == SumFunction([c \in contracts |-> ContractRewards(c)])
RewardsDistributed == RewardsFor(Recipients)
RewardsLeftovers == RewardsTotal - RewardsDistributed

SentTo(address) ==
    RewardsFor({c \in ToWallet : contractMetadata[c].rewardsAddress = address})

NewRecords ==
    [c \in Recipients \ ToWallet |->
        [rewardsAddress |-> contractMetadata[c].rewardsAddress, rewards |-> ContractRewards(c)]]

(* None of the transfers, and not the subtraction that gives the           *)
(* leftovers, panics.                                                      *)
CanAllocate ==
    /\ RewardsLeftovers >= 0
    /\ \A c \in ToWallet : contractMetadata[c].rewardsAddress \notin Blocked
    /\ RewardsFor(ToWallet) + RewardsLeftovers <= bank[ContractRewardCollector]

(* Mutant: the leftovers stay in the pool. *)
LeftoversStay == 0

(* cleanupRewardsPool *)
ToTreasury == RewardsLeftovers

TransferBlockRewards ==
    bank' = [a \in Holders |->
        CASE a = ContractRewardCollector -> bank[a] - RewardsFor(ToWallet) - ToTreasury
          [] a = TreasuryCollector -> bank[a] + ToTreasury
          [] OTHER -> bank[a] + SentTo(a)]

(* Mutant: the rewards of transactions are not deleted with their block. *)
DeleteBlockRewardsOnly(h) ==
    /\ blockRewards' = Without(blockRewards, {h})
    /\ UNCHANGED txRewards

DeleteBlockRewardsCascade(h) ==
    /\ blockRewards' = Without(blockRewards, {h})
    /\ txRewards' = Without(txRewards, {i \in DOMAIN txRewards : txRewards[i].height = h})

(* AllocateBlockRewards *)
RewardsEndBlocker ==
    /\ phase = "finalized" /\ CanAllocate
    /\ TransferBlockRewards
    /\ CreateRewardsRecords(NewRecords)
    /\ T!RewardsEndBlocker
    /\ IF T!HeightToPrune > 0
       THEN DeleteBlockRewardsCascade(T!HeightToPrune)
       ELSE UNCHANGED poolVars
    /\ UNCHANGED <<minConsFee, unfunded, settings>>

(* An EndBlocker or a BeginBlocker that panics stops the chain there. *)
Halted ==
    /\ \/ phase = "finalized" /\ ~CanAllocate
       \/ phase = "allocated" /\ \E minted \in MintAmounts : ~SplitsInflation(minted)
    /\ UNCHANGED vars

AtBound == T!AtBound /\ UNCHANGED vars

Next ==
    \/ \E minted \in MintAmounts : NextBlock(minted)
    \/ \E tx \in Txs : AnteHandle(tx)
    \/ \E session \in Sessions : MsgsSucceed(session)
    \/ MsgsFail
    \/ \E sender \in Addresses, c \in Contracts, updates \in MetaUpdates :
           SetContractMetadata(sender, c, updates)
    \/ \E sender \in Addresses, c \in Contracts, amount \in FlatFeeAmounts :
           SetFlatFee(sender, c, amount)
    \/ \E address \in Addresses, limit \in 0..params.maxWithdrawRecords :
           WithdrawRewardsByRecordsLimit(address, limit)
    \/ \E address \in Addresses, ids \in SUBSET DOMAIN records :
           WithdrawRewardsByRecordIDs(address, ids)
    \/ EndTransactions
    \/ \E new \in ParamSets : UpdateParams(new)
    \/ \E session \in Sessions : EndBlockCall(session)
    \/ TrackingEndBlocker \/ RewardsEndBlocker \/ Halted
    \/ AtBound

Spec == Init /\ [][Next]_vars
-----------------------------------------------------------------------------
(* Every part of the state is in its type. *)
TypeOK ==
    /\ T!TypeOK
    /\ params \in Params /\ minConsFee \in Nat
    /\ bank \in [Holders -> Nat]
    /\ contractMetadata \in [Contracts -> Metadata \cup {None}]
    /\ flatFees \in [Contracts -> Nat]
    /\ blockRewards \in [DOMAIN blockRewards -> [inflationRewards : Nat, maxGas : Nat]]
    /\ txRewards \in [DOMAIN txRewards -> [height : Nat, feeRewards : Nat]]
    /\ DOMAIN records \subseteq 1..recordID
    /\ records \in [DOMAIN records -> [rewardsAddress : Addresses, rewards : Nat]]
    /\ unfunded \in Nat

(* What the block has collected and not yet shared out. *)
Pending ==
    IF phase = "allocated" THEN 0
    ELSE InflationRewards +
         SumFunction([i \in {t \in DOMAIN txRewards : txRewards[t].height = height} |->
                         FeeRewards(i)])

(* The module account holds exactly the tokens of the records and of the   *)
(* rewards of the running block, less the flat fees that were recorded as  *)
(* rewards while deductFees sent their coins to the fee collector: what    *)
(* ModuleAccountBalanceInvariant checks between blocks, at every step and  *)
(* with the one way in which it fails.                                     *)
RecordsBacked ==
    bank[ContractRewardCollector] + unfunded = RewardsOf(DOMAIN records) + Pending

(* In a block within its gas limit the rounded shares of the contracts add *)
(* up to at most 1 + n / (2 * Precision) of what was collected, n being    *)
(* the number of contracts: with three they may exceed it, but never when  *)
(* it is less than 2 * Precision / n.                                      *)
SharesBounded ==
    (phase = "finalized" /\ (BlockGasLimit > 0 => TrackedGas <= BlockGasLimit)) =>
        LET n == Cardinality(Contracts)
        IN  /\ (2 * Precision) * RewardsDistributed <= (2 * Precision + n) * RewardsTotal
            /\ n * RewardsTotal < 2 * Precision => RewardsDistributed <= RewardsTotal

(* AllocateBlockRewards panics only when the shares exceed what was        *)
(* collected (see SharesBounded and DistributedWithinTotal) or records     *)
(* without coins have been withdrawn: otherwise the account covers all the *)
(* transfers, and no wallet is an address that cannot receive coins,       *)
(* whatever became of metadata and parameters since the calls.             *)
HaltsOnlyIfShort ==
    (phase = "finalized" /\ RewardsDistributed <= RewardsTotal
         /\ unfunded <= RewardsOf(DOMAIN records)) => CanAllocate

(* The Address index has one entry for each record and no other, although  *)
(* fastRemoveRecords deletes both keys by hand: a withdrawal by limit,     *)
(* which reads records through the index, finds them all.                  *)
RecordIndexAgrees ==
    recordIndex = {<<records[i].rewardsAddress, i>> : i \in DOMAIN records}

(* A record is removed only by a step that pays it out to its own address, *)
(* and no step changes a record.                                           *)
PaidWhenRemoved ==
    [][LET removed == DOMAIN records \ DOMAIN records'
       IN  /\ \A i \in DOMAIN records \cap DOMAIN records' : records'[i] = records[i]
           /\ removed # {} => \A a \in Addresses :
                  bank'[a] - bank[a] =
                      RewardsOf({i \in removed : records[i].rewardsAddress = a})]_vars

(* A contract with a flat fee always has the address its records are made  *)
(* out to: CreateFlatFeeRewardsRecords would panic in the ante handler of  *)
(* every call of it.                                                       *)
FlatFeeHasRecipient == \A c \in Contracts : flatFees[c] > 0 => HasRewardsAddress(c)

(* The rewards of a transaction are in the store only with its TxInfo, of  *)
(* the same height, and those of a block only within the window: the two   *)
(* modules prune together.                                                 *)
PrunedTogether ==
    /\ \A i \in DOMAIN txRewards :
           i \in DOMAIN txInfos /\ txInfos[i].height = txRewards[i].height
    /\ \A h \in DOMAIN blockRewards :
           /\ h <= height /\ h >= height - PruneAfter
           /\ phase = "allocated" => h > height - PruneAfter

(* Towards the inductive invariant: the types it needs, and that the block *)
(* index of x/tracking has a transaction only under its own height.        *)
Shape ==
    /\ height \in Nat /\ txInfoID \in Nat
    /\ flatFees \in [Contracts -> Nat]
    /\ contractMetadata \in [Contracts -> Metadata \cup {None}]
    /\ DOMAIN txInfos \subseteq 1..txInfoID
    /\ DOMAIN blockRewards \subseteq Nat \ {0}

IndexedByHeight ==
    \A entry \in txBlockIndex :
        /\ entry[2] \in 1..txInfoID
        /\ entry[2] \in DOMAIN txInfos => txInfos[entry[2]].height = entry[1]

IInv == Shape /\ IndexedByHeight /\ PrunedTogether /\ FlatFeeHasRecipient

(* Between blocks the records are supported by the tokens of the module    *)
(* account, the comment on ModuleAccountBalanceInvariant.                  *)
RecordsSupported ==
    phase = "allocated" => bank[ContractRewardCollector] >= RewardsOf(DOMAIN records)

(* What is distributed for a block is at most what was collected: the rest *)
(* goes to the treasury (cleanupRewardsPool).                              *)
DistributedWithinTotal == phase = "finalized" => RewardsDistributed <= RewardsTotal
=============================================================================
