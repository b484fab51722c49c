------------------------------ MODULE Tracking ------------------------------
(***************************************************************************)
(* x/tracking: the gas contracts use, by transaction and by block.  The    *)
(* ante handler opens a TxInfo for every transaction, the wasm engine      *)
(* reports operations that are linked to the latest one, the EndBlocker    *)
(* adds them up, and x/rewards, which reads the result in its own          *)
(* EndBlocker right after, also prunes what has become old.                *)
(*                                                                         *)
(* The gas of an operation stands for the sum of its VM and SDK gas; its   *)
(* type is left out.  inTx is history: whether the operation ran in the    *)
(* messages of a transaction.                                              *)
(***************************************************************************)
EXTENDS Integers, Sequences, FiniteSets, Functions

CONSTANTS
    Contracts,      \* addresses of the instantiated contracts
    Sessions,       \* what one call may report: sequences of [contract, gas]
    PruneAfter,     \* blocks for which the data is kept, 10 in the code
    MaxTxs,         \* bound: transactions
    MaxOps,         \* bound: contract operations
    LastHeight      \* bound: blocks

VARIABLES
    height,         \* ctx.BlockHeight()
    phase,          \* what the node is executing, see Phases
    txInfoID,       \* TxInfoIDKey, the latest identifier
    txInfos,        \* TxInfo by identifier, [height, totalGas]
    txBlockIndex,   \* TxInfoBlockIndex, a set of <<height, id>>
    opID,           \* ContractOpInfoIDKey, the latest identifier
    contractOps,    \* ContractOperationInfo by identifier, [txID, contract, gas, inTx]
    opTxIndex       \* ContractOpInfoTxIndex, a set of <<txID, id>>

txVars == <<txInfoID, txInfos, txBlockIndex>>
opVars == <<opID, contractOps, opTxIndex>>
trackingVars == <<txVars, opVars>>
blockVars == <<height, phase>>
vars == <<blockVars, trackingVars>>

TxInfos == [height : Nat, totalGas : Nat]
ContractOps == [txID : Nat, contract : Contracts, gas : Nat, inTx : BOOLEAN]

(* "deliver": between transactions; "msgs": a transaction is past its ante *)
(* handler; "endblock": the EndBlockers before this module's; "finalized": *)
(* this module's is done; "allocated": that of x/rewards is, too, and the  *)
(* ones after it run.                                                      *)
Phases == {"deliver", "msgs", "endblock", "finalized", "allocated"}

ASSUME TrackingAssumptions ==
    /\ Sessions \subseteq Seq([contract : Contracts, gas : Nat])
    /\ PruneAfter \in Nat \ {0}
    /\ MaxTxs \in Nat /\ MaxOps \in Nat /\ LastHeight \in Nat
-----------------------------------------------------------------------------
Init ==
    /\ height = 0 /\ phase = "allocated"
    /\ txInfoID = 0 /\ txInfos = [i \in {} |-> 0] /\ txBlockIndex = {}
    /\ opID = 0 /\ contractOps = [o \in {} |-> 0] /\ opTxIndex = {}

(* Mutant: the new TxInfo is not entered in the block index. *)
NotIndexed == txBlockIndex

BlockIndexed == txBlockIndex \cup {<<height, txInfoID + 1>>}

TrackNewTx ==
    /\ txInfoID' = txInfoID + 1
    /\ txInfos' = [i \in DOMAIN txInfos \cup {txInfoID + 1} |->
                      IF i > txInfoID THEN [height |-> height, totalGas |-> 0] ELSE txInfos[i]]
    /\ txBlockIndex' = BlockIndexed

(* An operation is linked to the latest transaction identifier, whether or *)
(* not that transaction is running.                                        *)
CreateContractOpInfo(record) ==
    [txID |-> txInfoID, contract |-> record.contract, gas |-> record.gas,
     inTx |-> phase = "msgs"]

(* Mutant: the identifier of the last operation is not written back. *)
LastOpIDStale(session) == opID

LastOpID(session) == opID + Len(session)

IngestGasRecord(session) ==
    LET ids == (opID + 1)..(opID + Len(session))
    IN  /\ opID' = LastOpID(session)
        /\ contractOps' = [i \in DOMAIN contractOps \cup ids |->
                              IF i \in ids THEN CreateContractOpInfo(session[i - opID])
                                           ELSE contractOps[i]]
        /\ opTxIndex' = opTxIndex \cup ({txInfoID} \X ids)

GetTxInfosByBlock(h) == {i \in 1..txInfoID : <<h, i>> \in txBlockIndex}

GetContractOpInfoByTxID(txID) == {o \in 1..opID : <<txID, o>> \in opTxIndex}

OpsGas(ops) == SumFunction([o \in ops |-> contractOps[o].gas])

(* Mutant: all operations are added up, not those of the transaction. *)
GasOfAll(txID) == OpsGas(DOMAIN contractOps)

GasOfTx(txID) == OpsGas(GetContractOpInfoByTxID(txID))

FinalizeBlockTxTracking ==
    txInfos' = [i \in DOMAIN txInfos |->
        IF i \in GetTxInfosByBlock(height)
        THEN [height |-> txInfos[i].height, totalGas |-> txInfos[i].totalGas + GasOfTx(i)]
        ELSE txInfos[i]]

(* Mutant: the operations of deleted transactions stay. *)
NoOps(txs) == {}

OpsOfTxs(txs) == {o \in 1..opID : \E t \in txs : o \in GetContractOpInfoByTxID(t)}

DeleteTxInfosByBlock(h, txs) ==
    /\ txInfos' = [i \in DOMAIN txInfos \ txs |-> txInfos[i]]
    /\ txBlockIndex' = txBlockIndex \ ({h} \X txs)
    /\ UNCHANGED txInfoID

DeleteContractOpsByTxID(txs) ==
    LET ops == OpsOfTxs(txs)
    IN  /\ contractOps' = [o \in DOMAIN contractOps \ ops |-> contractOps[o]]
        /\ opTxIndex' = opTxIndex \ (txs \X ops)
        /\ UNCHANGED opID

DeleteTxInfosCascade(h) ==
    LET txs == GetTxInfosByBlock(h)
    IN  DeleteTxInfosByBlock(h, txs) /\ DeleteContractOpsByTxID(txs)

(* Mutant: one block more than the window is kept. *)
HeightToPruneLate == height - PruneAfter - 1

(* Mutant: the oldest block of the window is pruned. *)
HeightToPruneEarly == height - PruneAfter + 1

(* cleanupTracking of x/rewards *)
HeightToPrune == height - PruneAfter

RemoveBlockTrackingInfo(h) ==
    IF h > 0 THEN DeleteTxInfosCascade(h) ELSE UNCHANGED trackingVars
-----------------------------------------------------------------------------
(* The block as this module sees it. *)

(* TxGasTrackingDecorator; an ante handler that fails leaves no trace. *)
AnteHandle ==
    /\ phase = "deliver" /\ txInfoID < MaxTxs
    /\ phase' = "msgs"
    /\ TrackNewTx
    /\ UNCHANGED <<height, opVars>>

(* The messages succeed and their operations are written; those of a       *)
(* contract that grants the fee in the ante handler come first.  They are  *)
(* all that is written when the messages then fail.                        *)
MsgsSucceed(session) ==
    /\ phase = "msgs" /\ opID + Len(session) <= MaxOps
    /\ phase' = "deliver"
    /\ IngestGasRecord(session)
    /\ UNCHANGED <<height, txVars>>

(* The messages fail and everything but the ante handler's writes is       *)
(* dropped.                                                                *)
MsgsFail ==
    /\ phase = "msgs"
    /\ phase' = "deliver"
    /\ UNCHANGED <<height, trackingVars>>

(* Contracts called by an EndBlocker: proposals of x/gov before, callbacks *)
(* and errors after the one of this module.  The contract was instantiated *)
(* by a transaction.                                                       *)
EndBlockCall(session) ==
    /\ phase \in {"endblock", "allocated"} /\ opID + Len(session) <= MaxOps
    /\ txInfoID > 0
    /\ IngestGasRecord(session)
    /\ UNCHANGED <<blockVars, txVars>>

EndTransactions ==
    /\ phase = "deliver"
    /\ phase' = "endblock"
    /\ UNCHANGED <<height, trackingVars>>

EndBlocker ==
    /\ phase = "endblock"
    /\ phase' = "finalized"
    /\ FinalizeBlockTxTracking
    /\ UNCHANGED <<height, txInfoID, txBlockIndex, opVars>>

(* What x/rewards calls at the end of its EndBlocker (cleanupTracking). *)
RewardsEndBlocker ==
    /\ phase = "finalized"
    /\ phase' = "allocated"
    /\ RemoveBlockTrackingInfo(HeightToPrune)
    /\ UNCHANGED height

NextBlock ==
    /\ phase = "allocated" /\ height < LastHeight
    /\ height' = height + 1 /\ phase' = "deliver"
    /\ UNCHANGED trackingVars

(* The chain is stopped after a block, exported and started again from the *)
(* genesis file, at the next height.  Objects and identifiers are in the   *)
(* file; the indexes are built from the objects.                           *)
Restart ==
    /\ phase = "allocated"
    /\ txBlockIndex' = {<<txInfos[i].height, i>> : i \in DOMAIN txInfos}
    /\ opTxIndex' = {<<contractOps[o].txID, o>> : o \in DOMAIN contractOps}
    /\ UNCHANGED <<blockVars, txInfoID, txInfos, opID, contractOps>>

AtBound == phase = "allocated" /\ height = LastHeight /\ UNCHANGED vars

Next ==
    \/ AnteHandle
    \/ \E session \in Sessions : MsgsSucceed(session)
    \/ MsgsFail
    \/ \E session \in Sessions : EndBlockCall(session)
    \/ EndTransactions \/ EndBlocker \/ RewardsEndBlocker \/ NextBlock
    \/ Restart
    \/ AtBound

Spec == Init /\ [][Next]_vars
-----------------------------------------------------------------------------
(* Every part of the state is in its type; identifiers are given out in    *)
(* order and never again.                                                  *)
TypeOK ==
    /\ height \in Nat /\ phase \in Phases
    /\ txInfoID \in Nat /\ opID \in Nat
    /\ DOMAIN txInfos \subseteq 1..txInfoID
    /\ txInfos \in [DOMAIN txInfos -> TxInfos]
    /\ DOMAIN contractOps \subseteq 1..opID
    /\ contractOps \in [DOMAIN contractOps -> ContractOps]

(* Each index has one entry for each object and no other: the lookups of   *)
(* GetTxInfosByBlock and GetContractOpInfoByTxID, which panic on an entry  *)
(* without an object, always succeed and miss nothing.                     *)
IndexesAgree ==
    /\ txBlockIndex = {<<txInfos[i].height, i>> : i \in DOMAIN txInfos}
    /\ opTxIndex = {<<contractOps[o].txID, o>> : o \in DOMAIN contractOps}

(* When x/rewards reads a transaction of the block, its total gas is that  *)
(* of its operations, each counted once: shares of it never exceed one.    *)
TotalGasIsSum ==
    phase = "finalized" =>
        \A i \in DOMAIN txInfos :
            txInfos[i].height = height =>
                txInfos[i].totalGas =
                    OpsGas({o \in DOMAIN contractOps : contractOps[o].txID = i})

(* An operation that ran in a transaction lives exactly as long as the     *)
(* TxInfo of that transaction: pruning leaves none behind.                 *)
OwnOpsReferToTx ==
    \A o \in DOMAIN contractOps :
        contractOps[o].inTx => contractOps[o].txID \in DOMAIN txInfos

(* Once x/rewards has pruned, only the last PruneAfter blocks have data,   *)
(* and what is left is an unbroken run of the latest transactions.         *)
WindowOnly ==
    /\ \A i \in DOMAIN txInfos :
           /\ txInfos[i].height <= height
           /\ txInfos[i].height >= height - PruneAfter
           /\ phase = "allocated" => txInfos[i].height > height - PruneAfter
    /\ \A i \in DOMAIN txInfos : i..txInfoID \subseteq DOMAIN txInfos

(* No step removes the data of a transaction before PruneAfter blocks have *)
(* passed (cleanupTracking).                                               *)
KeptForWindow ==
    [][\A i \in DOMAIN txInfos \ DOMAIN txInfos' :
          txInfos[i].height + PruneAfter <= height]_vars

(* Towards the inductive invariant: what TypeOK says but for the sums,     *)
(* that transactions are numbered by height, and that the running one has  *)
(* its TxInfo.                                                             *)
Shape ==
    /\ height \in Nat /\ phase \in Phases
    /\ phase # "allocated" => height > 0
    /\ txInfoID \in Nat /\ opID \in Nat
    /\ DOMAIN txInfos \subseteq 1..txInfoID
    /\ \A i \in DOMAIN txInfos : txInfos[i].height \in Nat \ {0}
    /\ DOMAIN contractOps \subseteq 1..opID
    /\ contractOps \in [DOMAIN contractOps -> ContractOps]

Ordered ==
    \A i, j \in DOMAIN txInfos : i < j => txInfos[i].height <= txInfos[j].height

Current ==
    phase = "msgs" => txInfoID \in DOMAIN txInfos /\ txInfos[txInfoID].height = height

IInv == Shape /\ IndexesAgree /\ OwnOpsReferToTx /\ WindowOnly /\ Ordered /\ Current
=============================================================================
