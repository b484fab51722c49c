--------------------------- MODULE TrackingProofs ---------------------------
(***************************************************************************)
(* The inductive invariant of Tracking and what follows from it, for any   *)
(* number of contracts, blocks and transactions.                           *)
(***************************************************************************)
EXTENDS Tracking, SumTheorems

(* The initial state. *)
LEMMA InitIInv == Init => IInv
BY TrackingAssumptions
   DEF Init, IInv, Shape, Phases, IndexesAgree, OwnOpsReferToTx, WindowOnly, Ordered, Current

(* An index that agrees with its objects, entry by entry. *)
LEMMA TxEntries ==
    ASSUME IndexesAgree
    PROVE  \A h, i : <<h, i>> \in txBlockIndex <=> i \in DOMAIN txInfos /\ h = txInfos[i].height
BY DEF IndexesAgree

LEMMA OpEntries ==
    ASSUME IndexesAgree
    PROVE  \A t, o : <<t, o>> \in opTxIndex <=> o \in DOMAIN contractOps /\ t = contractOps[o].txID
BY DEF IndexesAgree

(* TrackNewTx keeps everything: the new identifier is the largest, its     *)
(* height the current one.                                                 *)
LEMMA AnteHandleIInv == IInv /\ AnteHandle => IInv'
<1> SUFFICES ASSUME IInv, AnteHandle PROVE IInv'
  OBVIOUS
<1> DEFINE new == txInfoID + 1
<1>0. /\ phase = "deliver" /\ phase' = "msgs"
      /\ txInfoID' = new /\ DOMAIN txInfos' = DOMAIN txInfos \cup {new}
      /\ \A i \in DOMAIN txInfos : txInfos'[i] = txInfos[i]
      /\ txInfos'[new].height = height
      /\ txBlockIndex' = txBlockIndex \cup {<<height, new>>}
      /\ UNCHANGED <<height, opID, contractOps, opTxIndex>>
      /\ new \notin DOMAIN txInfos
  BY DEF AnteHandle, TrackNewTx, BlockIndexed, opVars, IInv, Shape
<1> HIDE DEF new
<1>1. Shape'
  <2>1. new \in Nat /\ DOMAIN txInfos' \subseteq 1..new
    BY <1>0 DEF IInv, Shape, new
  <2>2. \A i \in DOMAIN txInfos' : txInfos'[i].height \in Nat \ {0}
    BY <1>0 DEF IInv, Shape
  <2> QED
    BY <1>0, <2>1, <2>2 DEF IInv, Shape, Phases
<1>2. IndexesAgree'
  BY <1>0 DEF IInv, IndexesAgree
<1>3. OwnOpsReferToTx' /\ Current'
  BY <1>0 DEF IInv, OwnOpsReferToTx, Current
<1>4. WindowOnly'
  <2>1. PruneAfter \in Nat \ {0} /\ height \in Nat
    BY TrackingAssumptions DEF IInv, Shape
  <2>2. ASSUME NEW i \in DOMAIN txInfos'
        PROVE  txInfos'[i].height <= height /\ txInfos'[i].height >= height - PruneAfter
    BY <1>0, <2>1 DEF IInv, WindowOnly
  <2>3. ASSUME NEW i \in DOMAIN txInfos' PROVE i..new \subseteq DOMAIN txInfos'
    <3>1. CASE i \in DOMAIN txInfos
      <4>1. i..txInfoID \subseteq DOMAIN txInfos
        BY <3>1 DEF IInv, WindowOnly
      <4>2. \A j \in i..new : j \in i..txInfoID \/ j = new
        BY DEF IInv, Shape, new
      <4> QED
        BY <1>0, <4>1, <4>2
    <3>2. CASE i = new
      BY <1>0, <3>2 DEF new, IInv, Shape
    <3> QED
      BY <1>0, <3>1, <3>2
  <2> QED
    BY <1>0, <2>2, <2>3 DEF WindowOnly
<1>5. Ordered'
  BY <1>0 DEF IInv, Ordered, WindowOnly, Shape, new
<1> QED
  BY <1>1, <1>2, <1>3, <1>4, <1>5 DEF IInv

(* New operations are linked to the latest identifier. *)
LEMMA IngestOps ==
    ASSUME IInv, NEW session \in Sessions, IngestGasRecord(session)
    PROVE  /\ opID' \in Nat /\ DOMAIN contractOps' \subseteq 1..opID'
           /\ contractOps' \in [DOMAIN contractOps' -> ContractOps]
           /\ opTxIndex' = {<<contractOps'[o].txID, o>> : o \in DOMAIN contractOps'}
           /\ \A o \in DOMAIN contractOps' :
                 \/ o \in DOMAIN contractOps /\ contractOps'[o] = contractOps[o]
                 \/ /\ contractOps'[o].txID = txInfoID
                    /\ contractOps'[o].inTx = (phase = "msgs")
<1> DEFINE ids == (opID + 1)..(opID + Len(session))
           Tracked(i) == CreateContractOpInfo(session[i - opID])
           Record == [contract : Contracts, gas : Nat]
<1>a. session \in Seq(Record)
  BY TrackingAssumptions, ZenonT(30)
<1>b. \A i \in 1..Len(session) : session[i] \in Record
  <2> HIDE DEF Record
  <2> QED
    BY <1>a
<1>0. opID \in Nat /\ txInfoID \in Nat /\ Len(session) \in Nat
  <2> HIDE DEF Record
  <2> QED
    BY <1>a DEF IInv, Shape
<1>1. /\ opID' = opID + Len(session)
      /\ contractOps' = [i \in DOMAIN contractOps \cup ids |->
                            IF i \in ids THEN Tracked(i) ELSE contractOps[i]]
      /\ opTxIndex' = opTxIndex \cup ({txInfoID} \X ids)
  BY DEF IngestGasRecord, LastOpID
<1>2. \A i \in ids : i - opID \in 1..Len(session)
  BY <1>0
<1>3. \A i \in ids : session[i - opID] \in Record
  BY <1>b, <1>2
<1>4. \A i \in ids : Tracked(i) \in ContractOps
  BY <1>0, <1>3 DEF ContractOps, CreateContractOpInfo
<1>5. DOMAIN contractOps \cap ids = {} /\ DOMAIN contractOps' = DOMAIN contractOps \cup ids
  BY <1>0, <1>1 DEF IInv, Shape
<1>6. /\ opID' \in Nat /\ DOMAIN contractOps' \subseteq 1..opID'
  BY <1>0, <1>1, <1>5 DEF IInv, Shape
<1>7. \A o \in DOMAIN contractOps : contractOps'[o] = contractOps[o]
  BY <1>1, <1>5
<1>8. \A o \in ids : contractOps'[o] = Tracked(o)
  BY <1>1, <1>5
<1>9. contractOps' \in [DOMAIN contractOps' -> ContractOps]
  BY <1>1, <1>4, <1>5 DEF IInv, Shape
<1>10. \A o \in ids : contractOps'[o].txID = txInfoID /\ contractOps'[o].inTx = (phase = "msgs")
  <2>1. \A o \in ids : /\ Tracked(o).txID = txInfoID
                      /\ Tracked(o).inTx = (phase = "msgs")
    BY Zenon DEF CreateContractOpInfo
  <2> HIDE DEF ids, Tracked
  <2> QED
    BY <1>8, <2>1
<1> HIDE DEF ids, Tracked
<1>11. opTxIndex' = {<<contractOps'[o].txID, o>> : o \in DOMAIN contractOps'}
  <2>1. \A t, o : <<t, o>> \in opTxIndex
                    <=> o \in DOMAIN contractOps /\ t = contractOps[o].txID
    BY OpEntries, ZenonT(30) DEF IInv
  <2>2. ASSUME NEW p \in opTxIndex' PROVE \E o \in DOMAIN contractOps' : p = <<contractOps'[o].txID, o>>
    <3>1. CASE p \in opTxIndex
      BY <1>5, <1>7, <3>1 DEF IInv, IndexesAgree
    <3>2. CASE p \in {txInfoID} \X ids
      BY <1>5, <1>10, <3>2
    <3> QED
      BY <1>1, <3>1, <3>2, ZenonT(30)
  <2>3. ASSUME NEW o \in DOMAIN contractOps' PROVE <<contractOps'[o].txID, o>> \in opTxIndex'
    <3>1. CASE o \in DOMAIN contractOps
      BY <1>1, <1>7, <2>1, <3>1
    <3>2. CASE o \in ids
      BY <1>1, <1>10, <3>2
    <3> QED
      BY <1>5, <3>1, <3>2
  <2> QED
    BY <2>2, <2>3
<1> QED
  BY <1>5, <1>6, <1>7, <1>9, <1>10, <1>11

(* Operations of a transaction are linked to its own TxInfo. *)
LEMMA MsgsSucceedIInv ==
    ASSUME IInv, NEW session \in Sessions, MsgsSucceed(session) PROVE IInv'
<1>0. /\ phase = "msgs" /\ phase' = "deliver"
      /\ UNCHANGED <<height, txInfoID, txInfos, txBlockIndex>>
      /\ IngestGasRecord(session)
  BY DEF MsgsSucceed, txVars
<1>1. Shape'
  BY <1>0, IngestOps DEF IInv, Shape, Phases
<1>2. IndexesAgree'
  BY <1>0, IngestOps DEF IInv, IndexesAgree
<1>3. OwnOpsReferToTx'
  BY <1>0, IngestOps DEF IInv, OwnOpsReferToTx, Current
<1>4. WindowOnly' /\ Ordered' /\ Current'
  BY <1>0 DEF IInv, WindowOnly, Ordered, Current
<1> QED
  BY <1>1, <1>2, <1>3, <1>4 DEF IInv

(* Operations of an EndBlocker's call are not those of a transaction. *)
LEMMA EndBlockCallIInv ==
    ASSUME IInv, NEW session \in Sessions, EndBlockCall(session) PROVE IInv'
<1>0. /\ phase # "msgs"
      /\ UNCHANGED <<height, phase, txInfoID, txInfos, txBlockIndex>>
      /\ IngestGasRecord(session)
  BY DEF EndBlockCall, txVars, blockVars
<1>1. Shape'
  BY <1>0, IngestOps DEF IInv, Shape, Phases
<1>2. IndexesAgree'
  BY <1>0, IngestOps DEF IInv, IndexesAgree
<1>3. OwnOpsReferToTx'
  BY <1>0, IngestOps, ZenonT(30) DEF IInv, OwnOpsReferToTx
<1>4. WindowOnly' /\ Ordered' /\ Current'
  BY <1>0 DEF IInv, WindowOnly, Ordered, Current
<1> QED
  BY <1>1, <1>2, <1>3, <1>4 DEF IInv

(* Steps that only move on to the next stage of the block. *)
LEMMA StageIInv == IInv /\ (MsgsFail \/ EndTransactions) => IInv'
<1> SUFFICES ASSUME IInv, MsgsFail \/ EndTransactions PROVE IInv'
  OBVIOUS
<1>0. /\ phase # "allocated" /\ phase' \in {"deliver", "endblock"}
      /\ UNCHANGED <<height, txInfoID, txInfos, txBlockIndex, opID, contractOps, opTxIndex>>
  BY DEF MsgsFail, EndTransactions, trackingVars, txVars, opVars
<1>1. Shape' /\ IndexesAgree' /\ OwnOpsReferToTx'
  BY <1>0 DEF IInv, Shape, Phases, IndexesAgree, OwnOpsReferToTx
<1>2. WindowOnly' /\ Ordered' /\ Current'
  BY <1>0 DEF IInv, WindowOnly, Ordered, Current
<1> QED
  BY <1>1, <1>2 DEF IInv

(* Finalizing writes totals and no height. *)
LEMMA EndBlockerIInv == IInv /\ EndBlocker => IInv'
<1> SUFFICES ASSUME IInv, EndBlocker PROVE IInv'
  OBVIOUS
<1>0. /\ phase = "endblock" /\ phase' = "finalized"
      /\ UNCHANGED <<height, txInfoID, txBlockIndex, opID, contractOps, opTxIndex>>
      /\ DOMAIN txInfos' = DOMAIN txInfos
      /\ \A i \in DOMAIN txInfos : txInfos'[i].height = txInfos[i].height
  BY DEF EndBlocker, FinalizeBlockTxTracking, opVars
<1>1. Shape' /\ OwnOpsReferToTx'
  BY <1>0 DEF IInv, Shape, Phases, OwnOpsReferToTx
<1>2. IndexesAgree'
  BY <1>0 DEF IInv, IndexesAgree
<1>3. WindowOnly' /\ Ordered' /\ Current'
  BY <1>0 DEF IInv, WindowOnly, Ordered, Current
<1> QED
  BY <1>1, <1>2, <1>3 DEF IInv

(* Pruning a block removes its transactions, which are the oldest ones,    *)
(* and with each of them all its operations.                               *)
LEMMA RewardsEndBlockerIInv == IInv /\ RewardsEndBlocker => IInv'
<1> SUFFICES ASSUME IInv, RewardsEndBlocker PROVE IInv'
  OBVIOUS
<1> DEFINE h == HeightToPrune
           txs == GetTxInfosByBlock(h)
           ops == OpsOfTxs(txs)
<1>0. /\ phase = "finalized" /\ phase' = "allocated" /\ height' = height
      /\ height \in Nat \ {0} /\ PruneAfter \in Nat \ {0}
  BY TrackingAssumptions DEF RewardsEndBlocker, IInv, Shape
<1>1. CASE h > 0
  <2>1. /\ txInfos' = [i \in DOMAIN txInfos \ txs |-> txInfos[i]]
        /\ txBlockIndex' = txBlockIndex \ ({h} \X txs)
        /\ contractOps' = [o \in DOMAIN contractOps \ ops |-> contractOps[o]]
        /\ opTxIndex' = opTxIndex \ (txs \X ops)
        /\ UNCHANGED <<txInfoID, opID>>
    BY <1>1 DEF RewardsEndBlocker, RemoveBlockTrackingInfo, DeleteTxInfosCascade,
                DeleteTxInfosByBlock, DeleteContractOpsByTxID
  <2>2. \A i : i \in txs <=> i \in DOMAIN txInfos /\ txInfos[i].height = h
    BY TxEntries DEF GetTxInfosByBlock, IInv, Shape
  <2>3. \A o : o \in ops <=> o \in DOMAIN contractOps /\ contractOps[o].txID \in txs
    <3> HIDE DEF txs
    <3>1. \A o : o \in ops <=> \E t \in txs : o \in 1..opID /\ <<t, o>> \in opTxIndex
      BY ZenonT(30) DEF OpsOfTxs, GetContractOpInfoByTxID
    <3>2. \A o \in DOMAIN contractOps : o \in 1..opID
      BY DEF IInv, Shape
    <3> HIDE DEF ops
    <3>3. IndexesAgree
      BY DEF IInv
    <3>4. \A t, o : <<t, o>> \in opTxIndex
                      <=> o \in DOMAIN contractOps /\ t = contractOps[o].txID
      BY <3>3, OpEntries, ZenonT(30)
    <3>5. ASSUME NEW o, o \in ops PROVE o \in DOMAIN contractOps /\ contractOps[o].txID \in txs
      <4>1. PICK t \in txs : <<t, o>> \in opTxIndex
        BY <3>1, <3>5
      <4>2. o \in DOMAIN contractOps /\ t = contractOps[o].txID
        BY <3>4, <4>1
      <4> QED
        BY <4>1, <4>2
    <3>6. ASSUME NEW o \in DOMAIN contractOps, contractOps[o].txID \in txs PROVE o \in ops
      <4>1. <<contractOps[o].txID, o>> \in opTxIndex
        BY <3>4
      <4> QED
        BY <3>1, <3>2, <3>6, <4>1
    <3> QED
      BY <3>5, <3>6
  <2> HIDE DEF txs, ops
  <2>4. Shape'
    BY <1>0, <2>1 DEF IInv, Shape, Phases
  <2>5. IndexesAgree'
    <3>1. txBlockIndex' = {<<txInfos'[i].height, i>> : i \in DOMAIN txInfos'}
      BY <2>1, <2>2 DEF IInv, IndexesAgree
    <3>2. opTxIndex' = {<<contractOps'[o].txID, o>> : o \in DOMAIN contractOps'}
      BY <2>1, <2>3 DEF IInv, IndexesAgree
    <3> QED
      BY <3>1, <3>2 DEF IndexesAgree
  <2>6. OwnOpsReferToTx'
    BY <2>1, <2>2, <2>3 DEF IInv, OwnOpsReferToTx
  <2>7. WindowOnly'
    <3>1. ASSUME NEW i \in DOMAIN txInfos'
          PROVE  /\ txInfos'[i].height <= height /\ txInfos'[i].height > h
                 /\ txInfos'[i].height >= h
      BY <1>0, <2>1, <2>2 DEF IInv, WindowOnly, Shape, HeightToPrune
    <3>2. ASSUME NEW i \in DOMAIN txInfos', NEW j \in i..txInfoID
          PROVE  j \in DOMAIN txInfos'
      <4>1. i \in DOMAIN txInfos /\ txInfos[i].height \in Nat /\ txInfos[i].height > h
        BY <2>1, <3>1 DEF IInv, Shape
      <4>2. j \in DOMAIN txInfos /\ txInfos[j].height \in Nat
        BY <4>1 DEF IInv, WindowOnly, Shape
      <4>3. txInfos[j].height >= txInfos[i].height
        BY <4>1, <4>2 DEF IInv, Ordered, Shape
      <4> QED
        BY <1>0, <2>1, <2>2, <4>1, <4>2, <4>3 DEF HeightToPrune
    <3>3. height' - PruneAfter = h /\ txInfoID' = txInfoID
      BY <1>0, <2>1 DEF HeightToPrune
    <3> HIDE DEF h
    <3> QED
      BY <1>0, <3>1, <3>2, <3>3 DEF WindowOnly
  <2>8. Ordered' /\ Current'
    BY <1>0, <2>1 DEF IInv, Ordered, Current
  <2> QED
    BY <2>4, <2>5, <2>6, <2>7, <2>8 DEF IInv
<1>2. CASE ~(h > 0)
  <2>1. UNCHANGED <<txInfoID, txInfos, txBlockIndex, opID, contractOps, opTxIndex>>
    BY <1>2 DEF RewardsEndBlocker, RemoveBlockTrackingInfo, trackingVars, txVars, opVars
  <2>2. Shape' /\ IndexesAgree' /\ OwnOpsReferToTx' /\ Ordered' /\ Current'
    BY <1>0, <2>1 DEF IInv, Shape, Phases, IndexesAgree, OwnOpsReferToTx, Ordered, Current
  <2>3. \A i \in DOMAIN txInfos : txInfos[i].height > h
    BY <1>0, <1>2 DEF IInv, Shape, HeightToPrune
  <2>4. WindowOnly'
    BY <1>0, <2>1, <2>3 DEF IInv, WindowOnly, HeightToPrune
  <2> QED
    BY <2>2, <2>4 DEF IInv
<1> QED
  BY <1>1, <1>2

(* A new block moves the window on by one. *)
LEMMA NextBlockIInv == IInv /\ NextBlock => IInv'
<1> SUFFICES ASSUME IInv, NextBlock PROVE IInv'
  OBVIOUS
<1>0. /\ phase = "allocated" /\ phase' = "deliver" /\ height' = height + 1
      /\ UNCHANGED <<txInfoID, txInfos, txBlockIndex, opID, contractOps, opTxIndex>>
      /\ height \in Nat /\ PruneAfter \in Nat \ {0}
  BY TrackingAssumptions DEF NextBlock, trackingVars, txVars, opVars, IInv, Shape
<1>1. Shape' /\ IndexesAgree' /\ OwnOpsReferToTx' /\ Ordered' /\ Current'
  BY <1>0 DEF IInv, Shape, Phases, IndexesAgree, OwnOpsReferToTx, Ordered, Current
<1>2. WindowOnly'
  BY <1>0 DEF IInv, Shape, WindowOnly
<1> QED
  BY <1>1, <1>2 DEF IInv

(* The indexes built from the genesis file are those there were. *)
LEMMA RestartIInv == IInv /\ Restart => IInv'
<1> SUFFICES ASSUME IInv, Restart PROVE IInv'
  OBVIOUS
<1>0. UNCHANGED <<height, phase, txInfoID, txInfos, txBlockIndex, opID, contractOps, opTxIndex>>
  BY DEF Restart, blockVars, IInv, IndexesAgree
<1> QED
  BY <1>0 DEF IInv, Shape, IndexesAgree, OwnOpsReferToTx, WindowOnly, Ordered, Current

(* IInv holds in every reachable state of x/tracking. *)
THEOREM InductiveInvariant == Spec => []IInv
<1>1. IInv /\ [Next]_vars => IInv'
  <2> SUFFICES ASSUME IInv, [Next]_vars PROVE IInv'
    OBVIOUS
  <2>1. CASE UNCHANGED vars
    BY <2>1 DEF vars, blockVars, trackingVars, txVars, opVars, IInv, Shape, IndexesAgree,
                OwnOpsReferToTx, WindowOnly, Ordered, Current
  <2>2. CASE AtBound
    BY <2>1, <2>2 DEF AtBound
  <2> QED
    BY <2>1, <2>2, AnteHandleIInv, MsgsSucceedIInv, EndBlockCallIInv, StageIInv,
       EndBlockerIInv, RewardsEndBlockerIInv, NextBlockIInv, RestartIInv DEF Next
<1> QED
  BY <1>1, InitIInv, PTL DEF Spec

(* The two indexes always agree with their objects: no lookup of           *)
(* x/tracking panics or misses an object.                                  *)
THEOREM Indexes == Spec => []IndexesAgree
BY InductiveInvariant, PTL DEF IInv

(* Pruning never leaves an operation of a transaction behind. *)
THEOREM NoOrphanInTx == Spec => []OwnOpsReferToTx
BY InductiveInvariant, PTL DEF IInv

(* Only the last PruneAfter blocks keep their data, without a gap. *)
THEOREM Window == Spec => []WindowOnly
BY InductiveInvariant, PTL DEF IInv

(* No step removes the data of a transaction within the window. *)
THEOREM Kept == Spec => KeptForWindow
<1> DEFINE Keeps == \A i \in DOMAIN txInfos \ DOMAIN txInfos' :
                       txInfos[i].height + PruneAfter <= height
<1>1. IInv /\ [Next]_vars => [Keeps]_vars
  <2> SUFFICES ASSUME IInv, Next PROVE Keeps
    OBVIOUS
  <2>1. CASE AnteHandle
    BY <2>1 DEF AnteHandle, TrackNewTx
  <2>2. CASE EndBlocker
    BY <2>2 DEF EndBlocker, FinalizeBlockTxTracking
  <2>3. CASE RewardsEndBlocker
    <3>1. CASE HeightToPrune > 0
      <4>1. ASSUME NEW i \in DOMAIN txInfos \ DOMAIN txInfos'
            PROVE  txInfos[i].height = HeightToPrune
        BY <2>3, <3>1, TxEntries
           DEF RewardsEndBlocker, RemoveBlockTrackingInfo, DeleteTxInfosCascade,
               DeleteTxInfosByBlock, GetTxInfosByBlock, IInv
      <4> QED
        BY <4>1, TrackingAssumptions DEF HeightToPrune, IInv, Shape
    <3>2. CASE ~(HeightToPrune > 0)
      BY <2>3, <3>2 DEF RewardsEndBlocker, RemoveBlockTrackingInfo, trackingVars, txVars
    <3> QED
      BY <3>1, <3>2
  <2>4. CASE UNCHANGED txInfos
    BY <2>4
  <2> QED
    BY <2>1, <2>2, <2>3, <2>4
       DEF Next, MsgsSucceed, MsgsFail, EndBlockCall, EndTransactions, NextBlock, Restart,
           AtBound, trackingVars, txVars, vars
<1> QED
  BY <1>1, InductiveInvariant, PTL DEF Spec, KeptForWindow
-----------------------------------------------------------------------------
(* Towards TotalGasIsSum: a TxInfo of the block has no gas until this      *)
(* module's EndBlocker.                                                    *)
Untotalled ==
    phase \in {"deliver", "msgs", "endblock"} =>
        \A i \in DOMAIN txInfos : txInfos[i].height = height => txInfos[i].totalGas = 0

Totalled == txInfos \in [DOMAIN txInfos -> TxInfos] /\ Untotalled /\ TotalGasIsSum

(* What GetContractOpInfoByTxID finds are the operations of the            *)
(* transaction; their gas is a natural number.                             *)
LEMMA OpsFound ==
    ASSUME IInv, NEW i
    PROVE  /\ GetContractOpInfoByTxID(i) = {o \in DOMAIN contractOps : contractOps[o].txID = i}
           /\ GasOfTx(i) \in Nat
<1> DEFINE S == {o \in DOMAIN contractOps : contractOps[o].txID = i}
           gas == [o \in S |-> contractOps[o].gas]
<1>1. GetContractOpInfoByTxID(i) = S
  BY OpEntries DEF GetContractOpInfoByTxID, IInv, Shape
<1>2. GasOfTx(i) = SumFunction(gas)
  BY <1>1, Zenon DEF GasOfTx, OpsGas
<1>3. S \in SUBSET (1..opID) /\ opID \in Nat
  BY DEF IInv, Shape
<1>4. DOMAIN gas = S /\ \A o \in S : gas[o] \in Nat
  BY DEF IInv, Shape, ContractOps
<1> HIDE DEF S, gas
<1>5. IsFiniteSet(S)
  <2>1. IsFiniteSet(1..opID)
    BY <1>3, FS_Interval
  <2> QED
    BY <1>3, <2>1, FS_Subset, Zenon
<1>6. SumFunction(gas) \in Nat
  BY <1>4, <1>5, SumFunctionNat
<1> QED
  BY <1>1, <1>2, <1>6 DEF S

(* The EndBlocker gives every TxInfo of the block the gas of exactly its   *)
(* operations, and changes no other.                                       *)
LEMMA EndBlockerTotals == IInv /\ Totalled /\ EndBlocker => Totalled'
<1> SUFFICES ASSUME IInv, Totalled, EndBlocker PROVE Totalled'
  OBVIOUS
<1>0. /\ phase = "endblock" /\ phase' = "finalized"
      /\ UNCHANGED <<height, contractOps>>
      /\ DOMAIN txInfos' = DOMAIN txInfos
  BY DEF EndBlocker, FinalizeBlockTxTracking, opVars
<1>1. \A i \in DOMAIN txInfos : i \in GetTxInfosByBlock(height) <=> txInfos[i].height = height
  BY TxEntries DEF GetTxInfosByBlock, IInv, Shape
<1>2. ASSUME NEW i \in DOMAIN txInfos, txInfos[i].height = height
      PROVE  txInfos'[i] = [height |-> height, totalGas |-> GasOfTx(i)]
  <2>1. txInfos[i].totalGas = 0 /\ GasOfTx(i) \in Nat
    BY <1>0, <1>2, OpsFound, Zenon DEF Totalled, Untotalled
  <2>2. txInfos'[i] = [height |-> txInfos[i].height, totalGas |-> txInfos[i].totalGas + GasOfTx(i)]
    BY <1>1, <1>2, Zenon DEF EndBlocker, FinalizeBlockTxTracking
  <2> QED
    BY <1>2, <2>1, <2>2
<1>3. ASSUME NEW i \in DOMAIN txInfos, txInfos[i].height # height PROVE txInfos'[i] = txInfos[i]
  BY <1>1, <1>3, Zenon DEF EndBlocker, FinalizeBlockTxTracking
<1>4. txInfos' \in [DOMAIN txInfos' -> TxInfos]
  <2>1. \A i \in DOMAIN txInfos : txInfos'[i] \in TxInfos
    <3> TAKE i \in DOMAIN txInfos
    <3>1. txInfos[i] \in TxInfos /\ height \in Nat /\ GasOfTx(i) \in Nat
      BY OpsFound, Zenon DEF Totalled, IInv, Shape
    <3>2. CASE txInfos[i].height = height
      <4>1. txInfos'[i] = [height |-> height, totalGas |-> GasOfTx(i)]
        BY <1>2, <3>2, Zenon
      <4> QED
        BY <3>1, <4>1 DEF TxInfos
    <3>3. CASE txInfos[i].height # height
      BY <1>3, <3>1, <3>3
    <3> QED
      BY <3>2, <3>3
  <2>2. txInfos' = [i \in DOMAIN txInfos' |-> txInfos'[i]]
    BY DEF EndBlocker, FinalizeBlockTxTracking
  <2> QED
    BY <1>0, <2>1, <2>2
<1>5. TotalGasIsSum'
  <2>1. \A S : OpsGas(S)' = OpsGas(S)
    BY <1>0 DEF OpsGas
  <2>2. ASSUME NEW i \in DOMAIN txInfos, txInfos'[i].height = height
        PROVE  txInfos'[i].totalGas =
                   OpsGas({o \in DOMAIN contractOps : contractOps[o].txID = i})
    <3>1. txInfos[i].height = height
      BY <1>3, <2>2
    <3>2. txInfos'[i] = [height |-> height, totalGas |-> GasOfTx(i)]
      BY <1>2, <3>1, Zenon
    <3>3. txInfos'[i].totalGas = GasOfTx(i)
      BY <3>2
    <3> QED
      BY <3>3, OpsFound, Zenon DEF GasOfTx
  <2> QED
    BY <1>0, <2>1, <2>2 DEF TotalGasIsSum
<1> QED
  BY <1>0, <1>4, <1>5 DEF Totalled, Untotalled

(* All other steps leave the totals of the block alone, or start a block   *)
(* that has none.                                                          *)
LEMMA TotalsInvariant == Spec => []Totalled
<1>1. Init => Totalled
  BY DEF Init, Totalled, Untotalled, TotalGasIsSum
<1>2. IInv /\ Totalled /\ [Next]_vars => Totalled'
  <2> SUFFICES ASSUME IInv, Totalled, [Next]_vars PROVE Totalled'
    OBVIOUS
  <2>1. CASE UNCHANGED vars
    BY <2>1 DEF vars, blockVars, trackingVars, txVars, opVars, Totalled, Untotalled,
                TotalGasIsSum, OpsGas
  <2>2. CASE AnteHandle
    <3>1. /\ phase = "deliver" /\ phase' = "msgs" /\ height' = height
          /\ height \in Nat /\ txInfoID \in Nat /\ DOMAIN txInfos \subseteq 1..txInfoID
          /\ txInfos' = [i \in DOMAIN txInfos \cup {txInfoID + 1} |->
                           IF i > txInfoID THEN [height |-> height, totalGas |-> 0] ELSE txInfos[i]]
      BY <2>2 DEF AnteHandle, TrackNewTx, IInv, Shape
    <3>2. \A i \in DOMAIN txInfos' :
             \/ txInfos'[i] = [height |-> height, totalGas |-> 0]
             \/ i \in DOMAIN txInfos /\ txInfos'[i] = txInfos[i]
      BY <3>1
    <3>3. Untotalled'
      BY <3>1, <3>2 DEF Totalled, Untotalled
    <3>4. \A i \in DOMAIN txInfos' : txInfos'[i] \in TxInfos
      BY <3>1, <3>2 DEF Totalled, TxInfos
    <3>5. txInfos' \in [DOMAIN txInfos' -> TxInfos]
      BY <3>1, <3>4
    <3> QED
      BY <3>1, <3>3, <3>5 DEF Totalled, TotalGasIsSum
  <2>3. CASE RewardsEndBlocker
    <3>1. phase' = "allocated"
      BY <2>3 DEF RewardsEndBlocker
    <3>2. txInfos' \in [DOMAIN txInfos' -> TxInfos]
      BY <2>3 DEF RewardsEndBlocker, RemoveBlockTrackingInfo, DeleteTxInfosCascade,
                  DeleteTxInfosByBlock, trackingVars, txVars, Totalled
    <3> QED
      BY <3>1, <3>2 DEF Totalled, Untotalled, TotalGasIsSum
  <2>4. CASE NextBlock
    <3>1. /\ phase' = "deliver" /\ height' = height + 1 /\ height \in Nat
          /\ UNCHANGED txInfos
          /\ \A i \in DOMAIN txInfos : txInfos[i].height <= height /\ txInfos[i].height \in Nat
      BY <2>4 DEF NextBlock, trackingVars, txVars, IInv, Shape, WindowOnly
    <3>2. Untotalled'
      BY <3>1 DEF Untotalled
    <3> QED
      BY <3>1, <3>2 DEF Totalled, TotalGasIsSum
  <2>5. ASSUME UNCHANGED <<height, txInfos>>, phase' # "finalized",
               phase \notin {"finalized", "allocated"} \/ phase' = phase
        PROVE  Totalled'
    <3>1. phase \in Phases
      BY DEF IInv, Shape
    <3> QED
      BY <2>5, <3>1 DEF Totalled, Untotalled, TotalGasIsSum, Phases
  <2> QED
    BY <2>1, <2>2, <2>3, <2>4, <2>5, EndBlockerTotals
       DEF Next, MsgsSucceed, MsgsFail, EndBlockCall, EndTransactions, Restart, AtBound,
           trackingVars, txVars, blockVars
<1> QED
  BY <1>1, <1>2, InductiveInvariant, PTL DEF Spec

(* x/tracking hands x/rewards totals that are the gas of the operations of *)
(* the transaction, each counted once: FinalizeBlockTxTracking adds to a   *)
(* total that is still zero, and the index finds exactly the operations.   *)
THEOREM TotalsAreSums == Spec => []TotalGasIsSum
BY TotalsInvariant, PTL DEF Totalled

(* Every part of the state stays in its type, totals included. *)
THEOREM TypeCorrect == Spec => []TypeOK
<1>1. IInv /\ Totalled => TypeOK
  BY DEF IInv, Shape, Totalled, TypeOK
<1> QED
  BY <1>1, InductiveInvariant, TotalsInvariant, PTL
=============================================================================
