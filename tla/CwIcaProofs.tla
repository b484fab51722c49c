---------------------------- MODULE CwIcaProofs -----------------------------
(***************************************************************************)
(* Theorems about CwErrors and about CwIca, which extends it, for every    *)
(* value of their constants.  The first part is about x/cwerrors alone;    *)
(* the second about x/cwica, which reports its failures to it: its         *)
(* invariants, and that it implements the abstract Requests.               *)
(***************************************************************************)
EXTENDS CwIca, TLAPS
-----------------------------------------------------------------------------
(* x/cwerrors: the invariant, one lemma for each action, and the theorems. *)
LEMMA InitIInv == Init => IInv
<1> SUFFICES ASSUME Init PROVE IInv
  BY Zenon
<1> USE CwErrorsAssumptions DEF Init
<1>1. bank \in [Holders -> Nat] /\ params \in Params
  BY Zenon DEF Holders
<1>2. TypeOK
  BY <1>1, Zenon DEF TypeOK, Phases
<1>3. Stored /\ Numbered
  BY Zenon DEF Stored, Numbered, Live
<1>4. SubscriptionsAgree
  BY Zenon DEF SubscriptionsAgree, InverseIndex, NoneOverdue
<1>5. OneFate /\ BranchExtends
  BY DEF OneFate, BranchExtends
<1> QED
  BY <1>2, <1>3, <1>4, <1>5, Zenon DEF IInv

(* Storing an error about a failure under a new identifier keeps the       *)
(* stored errors and their indexes in agreement.                           *)
LEMMA StoreStored ==
    ASSUME TypeOK, Stored, Numbered, NEW contract \in Contracts, NEW failure \in Nat,
           StoreErrorInState(contract, failure), height' = height,
           phase' # "pruned", phase # "pruned"
    PROVE  Stored'
<1> DEFINE new == [id |-> errorID, contract |-> contract, failure |-> failure,
                   until |-> DeletionHeight]
<1>1. height \in Nat /\ DeletionHeight \in Nat /\ DeletionHeight > height
  BY DEF TypeOK, Params, DeletionHeight
<1>2. announced' = announced \cup {new}
  BY Zenon DEF StoreErrorInState
<1>3. Live' = Live \cup {new}
  BY <1>1, <1>2 DEF Live
<1>4. /\ new.id = errorID /\ new.contract = contract /\ new.failure = failure
      /\ new.until = DeletionHeight
  BY Zenon
<1> HIDE DEF new
<1>5. errors' = {[id |-> a.id, contract |-> a.contract, failure |-> a.failure] : a \in Live'}
  BY <1>3, <1>4, Zenon DEF StoreErrorInState, Stored
<1>6. contractErrors' = {<<a.contract, a.id>> : a \in Live'}
  BY <1>3, <1>4, Zenon DEF StoreErrorInState, Stored
<1>7. deletionBlocks' = {<<a.until, a.id>> : a \in Live'}
  BY <1>3, <1>4, Zenon DEF StoreErrorInState, Stored
<1>8. \A a, b \in announced' : a.id = b.id => a = b
  BY <1>2, <1>4 DEF Stored, Numbered, TypeOK
<1> QED
  BY <1>5, <1>6, <1>7, <1>8, Zenon DEF Stored

LEMMA StoreType ==
    ASSUME TypeOK, NEW contract \in Contracts, NEW failure \in Nat,
           StoreErrorInState(contract, failure)
    PROVE  /\ errorID' = errorID + 1 /\ errorID' \in Nat
           /\ errors' \in SUBSET Errors
           /\ contractErrors' \in SUBSET (Contracts \X Nat)
           /\ deletionBlocks' \in SUBSET (Nat \X Nat)
           /\ announced' \in SUBSET [id : Nat, contract : Contracts, failure : Nat, until : Nat]
<1>1. DeletionHeight \in Nat /\ errorID \in Nat
  BY DEF TypeOK, Params, DeletionHeight
<1> QED
  BY <1>1 DEF TypeOK, StoreErrorInState, Errors

(* The event of a stored error names the new identifier and the failure. *)
LEMMA StoreAnnounces ==
    ASSUME NEW contract, NEW failure, StoreErrorInState(contract, failure)
    PROVE  \A i : Announced(i)' <=> Announced(i) \/ i = errorID \/ i = failure
<1> DEFINE new == [id |-> errorID, contract |-> contract, failure |-> failure,
                   until |-> DeletionHeight]
<1>1. announced' = announced \cup {new}
  BY Zenon DEF StoreErrorInState
<1>2. new.id = errorID /\ new.failure = failure
  BY Zenon
<1> HIDE DEF new
<1> QED
  BY <1>1, <1>2, Zenon DEF Announced

LEMMA SetErrorIInv ==
    ASSUME IInv, NEW contract \in Contracts, SetError(contract)
    PROVE  IInv'
<1>0. /\ TypeOK /\ Stored /\ Numbered /\ SubscriptionsAgree /\ OneFate
      /\ phase = "deliver" /\ errorID \in Nat
      /\ UNCHANGED <<height, phase, params, bank, contractSubscriptions, subscriptionEndBlock,
                     pending, running, saved, told>>
  BY Zenon DEF IInv, SetError, subscriptionVars, TypeOK
<1>1. SubscriptionsAgree' /\ BranchExtends'
  BY <1>0, Zenon DEF SubscriptionsAgree, InverseIndex, NoneOverdue, BranchExtends
<1>2. CASE HasSubscription(contract)
  <2> DEFINE e == [id |-> errorID, contract |-> contract, failure |-> errorID]
  <2>1. /\ errorID' = errorID + 1 /\ sudoErrors' = sudoErrors \cup {e}
        /\ UNCHANGED <<errors, contractErrors, deletionBlocks, announced>>
    BY <1>2, Zenon DEF SetError, StoreErrorCallback, errorVars
  <2>2. e \in Errors /\ e.id = errorID /\ e.failure = errorID
    BY <1>0, Zenon DEF Errors
  <2> HIDE DEF e
  <2>3. TypeOK'
    BY <1>0, <2>1, <2>2 DEF TypeOK
  <2>4. Stored'
    BY <1>0, <2>1, Zenon DEF Stored, Live
  <2>5. Numbered'
    BY <1>0, <2>1, <2>2 DEF Numbered, TypeOK, Errors
  <2>6. Queued = sudoErrors /\ Queued' = sudoErrors'
    BY <1>0, Zenon DEF Queued
  <2>7. OneFate'
    <3>1. \A i \in Nat : Waiting(i)' <=> Waiting(i) \/ i = errorID
      BY <2>1, <2>2, <2>6, Zenon DEF Waiting
    <3>2. \A i : Announced(i)' <=> Announced(i)
      BY <2>1, Zenon DEF Announced
    <3>3. ~Announced(errorID) /\ errorID \notin told
      BY <1>0 DEF Announced, Numbered, TypeOK
    <3> QED
      BY <1>0, <2>1, <3>1, <3>2, <3>3 DEF OneFate
  <2> QED
    BY <1>1, <2>3, <2>4, <2>5, <2>7, Zenon DEF IInv
<1>3. CASE ~HasSubscription(contract)
  <2>1. StoreErrorInState(contract, errorID) /\ UNCHANGED sudoErrors
    BY <1>3, Zenon DEF SetError
  <2>2. Stored'
    BY <1>0, <2>1, StoreStored, Zenon
  <2>3. TypeOK'
    BY <1>0, <2>1, StoreType, Zenon DEF TypeOK
  <2>4. announced' = announced \cup {[id |-> errorID, contract |-> contract,
                                      failure |-> errorID, until |-> DeletionHeight]}
    BY <2>1, Zenon DEF StoreErrorInState
  <2>5. errorID' = errorID + 1
    BY <2>1, Zenon DEF StoreErrorInState
  <2>6. Numbered'
    BY <1>0, <2>1, <2>4, <2>5 DEF Numbered, TypeOK, Errors
  <2>7. Queued = sudoErrors /\ Queued' = sudoErrors
    BY <1>0, <2>1, Zenon DEF Queued
  <2>8. OneFate'
    <3>1. \A i : Waiting(i)' <=> Waiting(i)
      BY <2>7, Zenon DEF Waiting
    <3>2. \A i : Announced(i)' <=> Announced(i) \/ i = errorID
      BY <2>1, StoreAnnounces, Zenon
    <3>3. ~Waiting(errorID) /\ errorID \notin told
      BY <1>0, <2>7 DEF Waiting, Numbered, TypeOK, Errors
    <3> QED
      BY <1>0, <2>5, <3>1, <3>2, <3>3 DEF OneFate
  <2> QED
    BY <1>1, <2>2, <2>3, <2>6, <2>8, Zenon DEF IInv
<1> QED
  BY <1>2, <1>3, Zenon

(* What no step but SetError and the EndBlocker touches. *)
LEMMA ErrorsUnchanged ==
    ASSUME IInv, UNCHANGED <<height, phase, errorID, errors, contractErrors, deletionBlocks,
                             announced, sudoErrors, pending, running, told>>
    PROVE  Stored' /\ Numbered' /\ OneFate'
<1>1. Stored'
  BY Zenon DEF IInv, Stored, Live
<1>2. Numbered'
  BY Zenon DEF IInv, Numbered
<1>3. OneFate'
  BY Zenon DEF IInv, OneFate, Waiting, Announced, Queued
<1> QED
  BY <1>1, <1>2, <1>3, Zenon

LEMMA SubscribeIInv ==
    ASSUME IInv, NEW sender \in Accounts, NEW contract \in Contracts,
           SubscribeToError(sender, contract)
    PROVE  IInv'
<1> DEFINE end == contractSubscriptions[contract]
           newEnd == SubscriptionEndHeight(contract)
<1>0. /\ TypeOK /\ SubscriptionsAgree /\ phase # "pruned"
      /\ subscriptionEndBlock' = RenewedIndex(contract, newEnd)
      /\ contractSubscriptions' = [contractSubscriptions EXCEPT ![contract] = newEnd]
      /\ UNCHANGED <<height, phase, params, errorID, errors, contractErrors, deletionBlocks,
                     announced, sudoErrors, pending, running, saved, told>>
  BY Zenon DEF IInv, SubscribeToError, SetSubscription, errorVars
<1>1. Stored' /\ Numbered' /\ OneFate'
  BY <1>0, ErrorsUnchanged, Zenon
<1>2. newEnd \in Nat /\ height \in Nat /\ newEnd > height
  BY <1>0 DEF TypeOK, Params, SubscriptionEndHeight
<1>3. bank' \in [Holders -> Nat]
  <2>1. /\ params.subscriptionFee \in Nat /\ bank[sender] >= params.subscriptionFee
        /\ bank' = SendCoins(bank, sender, FeeCollector, params.subscriptionFee)
    BY <1>0, Zenon DEF SubscribeToError, SetSubscription, PaySubscription, TypeOK, Params
  <2> QED
    BY <1>0, <2>1, CwErrorsAssumptions DEF SendCoins, TypeOK, Holders
<1> HIDE DEF newEnd
<1>4. TypeOK'
  BY <1>0, <1>2, <1>3 DEF TypeOK, RenewedIndex
<1>5. InverseIndex(contractSubscriptions, subscriptionEndBlock)'
  <2>1. subscriptionEndBlock = {<<contractSubscriptions[c], c>> :
                                    c \in {d \in Contracts : contractSubscriptions[d] # 0}}
    BY <1>0, Zenon DEF SubscriptionsAgree, InverseIndex
  <2>2. \A c \in Contracts : contractSubscriptions'[c] =
                                IF c = contract THEN newEnd ELSE contractSubscriptions[c]
    BY <1>0, Zenon DEF TypeOK
  <2> QED
    BY <1>0, <1>2, <2>1, <2>2 DEF InverseIndex, RenewedIndex
<1>6. NoneOverdue(contractSubscriptions)'
  BY <1>0, <1>2, Zenon DEF SubscriptionsAgree, NoneOverdue, TypeOK
<1>7. SubscriptionsAgree'
  BY <1>0, <1>5, <1>6, Zenon DEF SubscriptionsAgree, InverseIndex, NoneOverdue
<1>8. BranchExtends'
  <2> SUFFICES ASSUME phase = "sudo", NEW c \in Contracts
               PROVE  contractSubscriptions'[c] >= saved.contractSubscriptions[c]
    BY <1>0, Zenon DEF BranchExtends
  <2>1. /\ contractSubscriptions[c] \in Nat /\ saved.contractSubscriptions[c] \in Nat
        /\ contractSubscriptions[c] >= saved.contractSubscriptions[c]
    BY <1>0, Zenon DEF IInv, BranchExtends, TypeOK, Branches
  <2>2. newEnd >= contractSubscriptions[contract]
    BY <1>0 DEF newEnd, SubscriptionEndHeight, TypeOK, Params
  <2> QED
    BY <1>0, <1>2, <2>1, <2>2 DEF TypeOK
<1> QED
  BY <1>1, <1>4, <1>7, <1>8, Zenon DEF IInv

LEMMA UpdateParamsIInv ==
    ASSUME IInv, NEW p \in ParamSets, UpdateParams(p)
    PROVE  IInv'
<1>0. UNCHANGED <<height, phase, errorID, bank, contractSubscriptions, subscriptionEndBlock,
                  errors, contractErrors, deletionBlocks, announced, sudoErrors, pending,
                  running, saved, told>>
  BY Zenon DEF UpdateParams, subscriptionVars, errorVars
<1>1. Stored' /\ Numbered' /\ OneFate'
  BY <1>0, ErrorsUnchanged, Zenon
<1>2. TypeOK'
  BY <1>0, CwErrorsAssumptions, Zenon DEF IInv, TypeOK, UpdateParams
<1>3. SubscriptionsAgree' /\ BranchExtends'
  BY <1>0, Zenon DEF IInv, SubscriptionsAgree, InverseIndex, NoneOverdue, BranchExtends
<1> QED
  BY <1>1, <1>2, <1>3, Zenon DEF IInv

LEMMA EndBlockerIInv == IInv /\ EndBlocker => IInv'
<1> SUFFICES ASSUME IInv, EndBlocker PROVE IInv'
  BY Zenon
<1>0. /\ TypeOK /\ Stored /\ Numbered /\ SubscriptionsAgree /\ OneFate
      /\ phase = "deliver" /\ phase' = "endblock" /\ pending' = sudoErrors
      /\ UNCHANGED <<height, params, errorID, bank, contractSubscriptions,
                     subscriptionEndBlock, errors, contractErrors, deletionBlocks, announced,
                     sudoErrors, running, saved, told>>
  BY Zenon DEF IInv, EndBlocker, subscriptionVars, errorVars
<1>1. TypeOK'
  BY <1>0, Zenon DEF TypeOK, Phases
<1>2. Stored' /\ Numbered'
  BY <1>0, Zenon DEF Stored, Live, Numbered
<1>3. SubscriptionsAgree' /\ BranchExtends'
  BY <1>0, Zenon DEF SubscriptionsAgree, InverseIndex, NoneOverdue, BranchExtends, TypeOK
<1>4. OneFate'
  BY <1>0, Zenon DEF OneFate, Waiting, Announced, Queued
<1> QED
  BY <1>1, <1>2, <1>3, <1>4, Zenon DEF IInv

LEMMA ExecIInv ==
    ASSUME IInv, NEW e \in pending, SudoErrorCallbackExec(e)
    PROVE  IInv'
<1>0. /\ TypeOK /\ Stored /\ Numbered /\ SubscriptionsAgree /\ OneFate
      /\ phase = "endblock" /\ phase' = "sudo" /\ pending' = pending \ {e} /\ running' = e
      /\ saved' = [bank |-> bank, contractSubscriptions |-> contractSubscriptions,
                   subscriptionEndBlock |-> subscriptionEndBlock]
      /\ UNCHANGED <<height, params, errorID, bank, contractSubscriptions,
                     subscriptionEndBlock, errors, contractErrors, deletionBlocks, announced,
                     sudoErrors, told>>
  BY Zenon DEF IInv, SudoErrorCallbackExec, subscriptionVars, errorVars
<1>1. TypeOK'
  BY <1>0, Zenon DEF TypeOK, Phases, Branches
<1>2. Stored' /\ Numbered'
  BY <1>0, Zenon DEF Stored, Live, Numbered
<1>3. SubscriptionsAgree' /\ BranchExtends'
  BY <1>0 DEF SubscriptionsAgree, InverseIndex, NoneOverdue, BranchExtends, TypeOK
<1>4. OneFate'
  <2>1. Queued' = Queued
    BY <1>0, Zenon DEF Queued
  <2> QED
    BY <1>0, <2>1, Zenon DEF OneFate, Waiting, Announced
<1> QED
  BY <1>1, <1>2, <1>3, <1>4, Zenon DEF IInv

(* Taking the error being handed out off the queue leaves all others. *)
LEMMA RunningLeaves ==
    ASSUME IInv, phase = "sudo", phase' = "endblock", UNCHANGED <<pending, sudoErrors>>
    PROVE  /\ running \in Errors /\ running.failure < errorID
           /\ \A i : Waiting(i)' <=> Waiting(i) /\ i # running.failure
<1>1. /\ running \in sudoErrors /\ pending \subseteq sudoErrors /\ sudoErrors \subseteq Errors
      /\ running \notin pending
  BY Zenon DEF IInv, TypeOK, Numbered
<1>2. \A e \in pending : e.failure # running.failure
  BY <1>1, Zenon DEF IInv, Numbered
<1>3. Queued = pending \cup {running} /\ Queued' = pending
  BY Zenon DEF Queued
<1> QED
  BY <1>1, <1>2, <1>3, Zenon DEF IInv, Numbered, Waiting

LEMMA SucceedsIInv == IInv /\ SudoSucceeds => IInv'
<1> SUFFICES ASSUME IInv, SudoSucceeds PROVE IInv'
  BY Zenon
<1>0. /\ TypeOK /\ Stored /\ Numbered /\ SubscriptionsAgree /\ OneFate
      /\ phase = "sudo" /\ phase' = "endblock" /\ told' = told \cup {running.failure}
      /\ running' = NoError /\ saved' = NoBranch
      /\ UNCHANGED <<height, params, errorID, bank, contractSubscriptions,
                     subscriptionEndBlock, errors, contractErrors, deletionBlocks, announced,
                     sudoErrors, pending>>
  BY Zenon DEF IInv, SudoSucceeds, subscriptionVars, errorVars
<1>1. /\ running \in Errors /\ running.failure < errorID
      /\ \A i : Waiting(i)' <=> Waiting(i) /\ i # running.failure
  BY <1>0, RunningLeaves, Zenon
<1>2. running.failure \in Nat /\ Waiting(running.failure)
  BY <1>0, <1>1, Zenon DEF Waiting, Queued, Errors
<1>3. TypeOK'
  BY <1>0, <1>2, ZenonT(30) DEF TypeOK, Phases
<1>4. Stored' /\ Numbered'
  BY <1>0, <1>1, Zenon DEF Stored, Live, Numbered
<1>5. SubscriptionsAgree' /\ BranchExtends'
  BY <1>0, Zenon DEF SubscriptionsAgree, InverseIndex, NoneOverdue, BranchExtends, TypeOK
<1>6. OneFate'
  <2>1. \A i : Announced(i)' <=> Announced(i)
    BY <1>0, Zenon DEF Announced
  <2> QED
    BY <1>0, <1>1, <1>2, <2>1, Zenon DEF OneFate
<1> QED
  BY <1>3, <1>4, <1>5, <1>6, Zenon DEF IInv

LEMMA FailsIInv == IInv /\ SudoFails => IInv'
<1> SUFFICES ASSUME IInv, SudoFails PROVE IInv'
  BY Zenon
<1>0. /\ TypeOK /\ Stored /\ Numbered /\ SubscriptionsAgree /\ OneFate
      /\ phase = "sudo" /\ phase' = "endblock"
      /\ bank' = saved.bank
      /\ contractSubscriptions' = saved.contractSubscriptions
      /\ subscriptionEndBlock' = saved.subscriptionEndBlock
      /\ running' = NoError /\ saved' = NoBranch
      /\ StoreErrorInState(running.contract, running.failure)
      /\ UNCHANGED <<height, params, sudoErrors, pending, told>>
  BY Zenon DEF IInv, SudoFails, DropBranch
<1>1. /\ running \in Errors /\ running.failure < errorID
      /\ \A i : Waiting(i)' <=> Waiting(i) /\ i # running.failure
  BY <1>0, RunningLeaves, Zenon
<1>2. /\ running.failure \in Nat /\ running.contract \in Contracts
      /\ Waiting(running.failure) /\ errorID \in Nat
  BY <1>0, <1>1, Zenon DEF Waiting, Queued, Errors, TypeOK
<1>3. Stored'
  BY <1>0, <1>2, StoreStored, Zenon
<1>4. TypeOK'
  <2>1. saved \in Branches
    BY <1>0, Zenon DEF TypeOK
  <2> QED
    BY <1>0, <1>2, <2>1, StoreType, Zenon DEF TypeOK, Phases, Branches
<1>5. errorID' = errorID + 1
  BY <1>0, Zenon DEF StoreErrorInState
<1>6. Numbered'
  <2>1. announced' = announced \cup {[id |-> errorID, contract |-> running.contract,
                                      failure |-> running.failure, until |-> DeletionHeight]}
    BY <1>0, Zenon DEF StoreErrorInState
  <2> QED
    BY <1>0, <1>1, <1>2, <1>5, <2>1 DEF Numbered, TypeOK, Errors
<1>7. SubscriptionsAgree' /\ BranchExtends'
  BY <1>0, Zenon DEF SubscriptionsAgree, InverseIndex, NoneOverdue, BranchExtends, TypeOK
<1>8. OneFate'
  <2>1. \A i : Announced(i)' <=> Announced(i) \/ i = errorID \/ i = running.failure
    BY <1>0, StoreAnnounces, Zenon
  <2>2. errorID \notin told /\ ~Waiting(errorID)
    <3>1. \A e \in Queued : e.failure \in Nat /\ e.failure < errorID
      BY <1>0 DEF Queued, Numbered, TypeOK, Errors
    <3> QED
      BY <1>0, <1>2, <3>1 DEF Numbered, Waiting, TypeOK
  <2> QED
    BY <1>0, <1>1, <1>2, <1>5, <2>1, <2>2 DEF OneFate
<1> QED
  BY <1>3, <1>4, <1>6, <1>7, <1>8, Zenon DEF IInv

LEMMA PrunesIInv == IInv /\ EndBlockerPrunes => IInv'
<1> SUFFICES ASSUME IInv, EndBlockerPrunes PROVE IInv'
  BY Zenon
<1>0. /\ TypeOK /\ Stored /\ Numbered /\ SubscriptionsAgree /\ OneFate
      /\ phase = "endblock" /\ phase' = "pruned" /\ pending = {}
      /\ PruneSubscriptionsEndBlock /\ PruneErrorsCurrentBlock
      /\ UNCHANGED <<height, params, bank, errorID, sudoErrors, pending, running, saved, told,
                     announced>>
  BY Zenon DEF IInv, EndBlockerPrunes
<1> DEFINE expired == {d \in deletionBlocks : d[1] = height}
           gone == {e \in errors : <<height, e.id>> \in expired}
<1>1. /\ errors' = errors \ gone
      /\ contractErrors' = contractErrors \ {<<e.contract, e.id>> : e \in gone}
      /\ deletionBlocks' = deletionBlocks \ expired
  BY <1>0, Zenon DEF PruneErrorsCurrentBlock
<1>2. /\ height \in Nat
      /\ \A a \in announced : a.id \in Nat /\ a.until \in Nat
  BY <1>0, Zenon DEF TypeOK
<1>3. Live' = {a \in Live : a.until # height}
  BY <1>0, <1>2 DEF Live
<1>4. Live \subseteq announced
  BY Zenon DEF Live
<1>5. Stored'
  <2>1. \A a \in Live : <<height, a.id>> \in expired <=> a.until = height
    BY <1>0, <1>4, Zenon DEF Stored
  <2>2. deletionBlocks' = {<<a.until, a.id>> : a \in Live'}
    BY <1>0, <1>1, <1>3 DEF Stored
  <2> HIDE DEF expired
  <2>3. errors' = {[id |-> a.id, contract |-> a.contract, failure |-> a.failure] : a \in Live'}
    BY <1>0, <1>1, <1>3, <2>1 DEF Stored
  <2>4. \A a \in Live : <<a.contract, a.id>> \in {<<e.contract, e.id>> : e \in gone}
                            <=> a.until = height
    <3>1. \A e \in gone : \E a \in Live : a.id = e.id /\ a.until = height
      BY <1>0, <2>1 DEF Stored
    <3>2. \A a \in Live : a.until = height =>
              [id |-> a.id, contract |-> a.contract, failure |-> a.failure] \in gone
      BY <1>0, <2>1, Zenon DEF Stored
    <3>3. \A a, b \in Live : a.id = b.id => a = b
      BY <1>0, <1>4, Zenon DEF Stored
    <3> HIDE DEF gone
    <3>4. ASSUME NEW a \in Live, NEW e \in gone, <<a.contract, a.id>> = <<e.contract, e.id>>
          PROVE  a.until = height
      BY <3>1, <3>3, <3>4, Zenon
    <3>5. ASSUME NEW a \in Live, a.until = height
          PROVE  \E e \in gone : <<a.contract, a.id>> = <<e.contract, e.id>>
      BY <3>2, <3>5, ZenonT(30)
    <3> QED
      BY <3>4, <3>5, Zenon
  <2> HIDE DEF gone
  <2>5. contractErrors' = {<<a.contract, a.id>> : a \in Live'}
    BY <1>0, <1>1, <1>3, <2>4, Zenon DEF Stored
  <2>6. \A a, b \in announced' : a.id = b.id => a = b
    BY <1>0, Zenon DEF Stored
  <2> QED
    BY <2>2, <2>3, <2>5, <2>6, Zenon DEF Stored
<1>6. /\ contractSubscriptions' \in [Contracts -> Nat]
      /\ \A c \in Contracts : contractSubscriptions'[c] =
              IF contractSubscriptions[c] = height THEN 0 ELSE contractSubscriptions[c]
      /\ subscriptionEndBlock' = {s \in subscriptionEndBlock : s[1] # height}
  <2> DEFINE ending == {s \in subscriptionEndBlock : s[1] = height}
  <2>1. /\ contractSubscriptions' =
               [c \in Contracts |-> IF \E s \in ending : s[2] = c THEN 0
                                    ELSE contractSubscriptions[c]]
        /\ subscriptionEndBlock' = subscriptionEndBlock \ ending
    BY <1>0, Zenon DEF PruneSubscriptionsEndBlock
  <2>2. \A c \in Contracts : (\E s \in ending : s[2] = c) <=>
                                contractSubscriptions[c] = height /\ contractSubscriptions[c] # 0
    <3>1. subscriptionEndBlock = {<<contractSubscriptions[c], c>> :
                                      c \in {d \in Contracts : contractSubscriptions[d] # 0}}
      BY <1>0, Zenon DEF SubscriptionsAgree, InverseIndex
    <3>2. ASSUME NEW c \in Contracts, NEW s \in ending, s[2] = c
          PROVE  contractSubscriptions[c] = height /\ contractSubscriptions[c] # 0
      BY <3>1, <3>2
    <3>3. ASSUME NEW c \in Contracts, contractSubscriptions[c] = height,
                 contractSubscriptions[c] # 0
          PROVE  \E s \in ending : s[2] = c
      <4>1. <<height, c>> \in ending
        BY <3>1, <3>3, Zenon
      <4> QED
        BY <4>1, Zenon
    <3> QED
      BY <3>2, <3>3, Zenon
  <2>3. subscriptionEndBlock' = {s \in subscriptionEndBlock : s[1] # height}
    BY <2>1, Zenon
  <2> HIDE DEF ending
  <2> QED
    BY <1>0, <2>1, <2>2, <2>3, Zenon DEF TypeOK
<1>7. TypeOK'
  BY <1>0, <1>1, <1>6, Zenon DEF TypeOK, Phases
<1>8. InverseIndex(contractSubscriptions, subscriptionEndBlock)'
  BY <1>0, <1>6 DEF SubscriptionsAgree, InverseIndex
<1>9. NoneOverdue(contractSubscriptions)'
  BY <1>0, <1>2, <1>6, Zenon DEF SubscriptionsAgree, NoneOverdue, TypeOK
<1>10. SubscriptionsAgree' /\ BranchExtends'
  BY <1>0, <1>8, <1>9, Zenon DEF SubscriptionsAgree, BranchExtends
<1>11. Numbered'
  BY <1>0, Zenon DEF Numbered
<1>12. OneFate'
  BY <1>0, Zenon DEF OneFate, Waiting, Announced, Queued
<1> QED
  BY <1>5, <1>7, <1>10, <1>11, <1>12, Zenon DEF IInv

LEMMA NextBlockIInv == IInv /\ NextBlock => IInv'
<1> SUFFICES ASSUME IInv, NextBlock PROVE IInv'
  BY Zenon
<1>0. /\ TypeOK /\ Stored /\ Numbered /\ SubscriptionsAgree /\ OneFate
      /\ phase = "pruned" /\ phase' = "deliver" /\ height' = height + 1 /\ sudoErrors' = {}
      /\ UNCHANGED <<params, errorID, bank, contractSubscriptions, subscriptionEndBlock,
                     errors, contractErrors, deletionBlocks, announced, pending, running,
                     saved, told>>
  BY Zenon DEF IInv, NextBlock, subscriptionVars, errorVars
<1>1. pending = {} /\ height \in Nat
  BY <1>0, Zenon DEF Numbered, TypeOK
<1>2. TypeOK'
  BY <1>0, <1>1 DEF TypeOK, Phases
<1>3. Live' = Live
  BY <1>0, <1>1 DEF Live, TypeOK
<1>4. Stored' /\ Numbered'
  BY <1>0, <1>1, <1>3, Zenon DEF Stored, Numbered
<1>5. SubscriptionsAgree' /\ BranchExtends'
  BY <1>0, <1>1 DEF SubscriptionsAgree, InverseIndex, NoneOverdue, BranchExtends, TypeOK
<1>6. OneFate'
  BY <1>0, <1>1, Zenon DEF OneFate, Waiting, Announced, Queued
<1> QED
  BY <1>2, <1>4, <1>5, <1>6, Zenon DEF IInv
-----------------------------------------------------------------------------
(* Every step preserves the invariant. *)
LEMMA NextIInv == IInv /\ [Next]_vars => IInv'
<1> SUFFICES ASSUME IInv, [Next]_vars PROVE IInv'
  BY Zenon
<1>1. CASE UNCHANGED vars
  <2>1. UNCHANGED <<height, phase, params, errorID, bank, contractSubscriptions,
                    subscriptionEndBlock, errors, contractErrors, deletionBlocks, announced,
                    sudoErrors, pending, running, saved, told>>
    BY <1>1, Zenon DEF vars, subscriptionVars, errorVars
  <2>2. Stored' /\ Numbered' /\ OneFate'
    BY <2>1, ErrorsUnchanged, Zenon
  <2>3. TypeOK'
    BY <2>1, SMTT(30) DEF IInv, TypeOK
  <2>4. SubscriptionsAgree' /\ BranchExtends'
    BY <2>1, Zenon DEF IInv, SubscriptionsAgree, InverseIndex, NoneOverdue, BranchExtends
  <2> QED
    BY <2>2, <2>3, <2>4, Zenon DEF IInv
<1>2. CASE AtBound
  BY <1>1, <1>2, Zenon DEF AtBound
<1> QED
  BY <1>1, <1>2, SetErrorIInv, SubscribeIInv, UpdateParamsIInv, EndBlockerIInv, ExecIInv,
     SucceedsIInv, FailsIInv, PrunesIInv, NextBlockIInv, Zenon DEF Next

(* The inductive invariant: the stored errors and both their indexes are   *)
(* the announced errors that are still to be kept, subscriptions and their *)
(* index agree, and every failure has exactly one fate.                    *)
THEOREM InductiveInvariant == Spec => []IInv
BY InitIInv, NextIInv, PTL DEF Spec

(* Every part of the state stays in its type: no fee overdraws an account, *)
(* and a branch is open exactly while a contract runs to take an error.    *)
THEOREM TypeCorrect == Spec => []TypeOK
<1>1. IInv => TypeOK
  BY Zenon DEF IInv
<1> QED
  BY <1>1, InductiveInvariant, PTL

(* Failures are neither lost nor reported twice, whatever contracts do     *)
(* when they are handed an error.                                          *)
THEOREM NoFailureLost == Spec => []OneFate
<1>1. IInv => OneFate
  BY Zenon DEF IInv
<1> QED
  BY <1>1, InductiveInvariant, PTL

(* A subscription and its entry in the index of end blocks always agree.   *)
THEOREM SubscriptionIndex == Spec => []SubscriptionsAgree
<1>1. IInv => SubscriptionsAgree
  BY Zenon DEF IInv
<1> QED
  BY <1>1, InductiveInvariant, PTL

(* Stored errors and their indexes agree, so that pruning never fails. *)
THEOREM ErrorIndexes == Spec => []IndexesAgree
<1>1. IInv => IndexesAgree
  <2> SUFFICES ASSUME IInv PROVE IndexesAgree
    BY Zenon
  <2>1. Stored /\ Live \subseteq announced /\ \A a, b \in Live : a.id = b.id => a = b
    BY Zenon DEF IInv, Stored, Live
  <2>a. \A a \in Live : \E e \in errors : e.id = a.id /\ e.contract = a.contract
    <3> SUFFICES ASSUME NEW a \in Live
                 PROVE  \E e \in errors : e.id = a.id /\ e.contract = a.contract
      BY Zenon
    <3> DEFINE e == [id |-> a.id, contract |-> a.contract, failure |-> a.failure]
    <3>1. e \in errors /\ e.id = a.id /\ e.contract = a.contract
      BY <2>1, Zenon DEF Stored
    <3> QED
      BY <3>1, Zenon
  <2>b. \A e \in errors : \E a \in Live : e.id = a.id /\ e.contract = a.contract
    BY <2>1 DEF Stored
  <2>c. contractErrors = {<<a.contract, a.id>> : a \in Live}
    BY <2>1, Zenon DEF Stored
  <2>2. contractErrors = {<<e.contract, e.id>> : e \in errors}
    BY <2>a, <2>b, <2>c
  <2>3. {d[2] : d \in deletionBlocks} = {e.id : e \in errors}
    <3>1. ASSUME NEW d \in deletionBlocks PROVE \E e \in errors : e.id = d[2]
      <4>1. PICK a \in Live : d = <<a.until, a.id>>
        BY <2>1, Zenon DEF Stored
      <4> QED
        BY <2>a, <4>1, Zenon
    <3>2. ASSUME NEW e \in errors PROVE \E d \in deletionBlocks : d[2] = e.id
      <4>1. PICK a \in Live : e.id = a.id
        BY <2>b, Zenon
      <4>2. <<a.until, a.id>> \in deletionBlocks
        BY <2>1, Zenon DEF Stored
      <4> QED
        BY <4>1, <4>2, Zenon
    <3> QED
      BY <3>1, <3>2
  <2>4. \A e, f \in errors : e.id = f.id => e = f
    BY <2>1 DEF Stored
  <2>5. \A d, f \in deletionBlocks : d[2] = f[2] => d = f
    BY <2>1 DEF Stored
  <2>6. \A d \in deletionBlocks : d[1] > height \/ (d[1] = height /\ phase # "pruned")
    BY <2>1 DEF Stored, Live
  <2> QED
    BY <2>2, <2>3, <2>4, <2>5, <2>6, Zenon DEF IndexesAgree
<1> QED
  BY <1>1, InductiveInvariant, PTL

(* A stored error stays until the height announced for it and no longer,   *)
(* whatever becomes of the parameters.                                     *)
THEOREM KeptUntilAnnounced == Spec => []KeptAsAnnounced
<1>1. IInv => KeptAsAnnounced
  <2> SUFFICES ASSUME IInv, NEW a \in announced
               PROVE  LET kept == /\ [id |-> a.id, contract |-> a.contract,
                                       failure |-> a.failure] \in errors
                                  /\ <<a.contract, a.id>> \in contractErrors
                      IN  kept <=> a \in Live
    BY ZenonT(30) DEF KeptAsAnnounced, Live
  <2>1. Stored /\ Live \subseteq announced
    BY Zenon DEF IInv, Stored, Live
  <2>2. ASSUME <<a.contract, a.id>> \in contractErrors PROVE a \in Live
    BY <2>1, <2>2, SMTT(30) DEF Stored
  <2>3. ASSUME a \in Live
        PROVE  /\ [id |-> a.id, contract |-> a.contract, failure |-> a.failure] \in errors
               /\ <<a.contract, a.id>> \in contractErrors
    BY <2>1, <2>3, Zenon DEF Stored
  <2> QED
    BY <2>2, <2>3, Zenon
<1> QED
  BY <1>1, InductiveInvariant, PTL

(* A period that was paid for is not cut short. *)
THEOREM PaidForIsKept == Spec => PaidPeriodKept
<1> DEFINE Keeps == \A c \in Contracts :
               Committed[c] > height \/ (Committed[c] = height /\ phase' # "pruned")
                   => Committed'[c] >= Committed[c]
<1>1. IInv /\ [Next]_vars => [Keeps]_vars
  <2> SUFFICES ASSUME IInv, Next PROVE Keeps
    BY Zenon
  <2>0. /\ TypeOK /\ Committed \in [Contracts -> Nat] /\ height \in Nat
    BY Zenon DEF IInv, TypeOK, Committed, Branches
  <2>1. ASSUME Committed' = Committed PROVE Keeps
    BY <2>0, <2>1
  <2>2. CASE \/ \E contract \in Contracts : SetError(contract)
             \/ \E p \in ParamSets : UpdateParams(p)
             \/ EndBlocker
             \/ \E e \in pending : SudoErrorCallbackExec(e)
             \/ SudoFails
             \/ NextBlock
             \/ AtBound
    <3>1. Committed' = Committed
      BY <2>2, SMTT(30)
         DEF Committed, SetError, UpdateParams, EndBlocker, SudoErrorCallbackExec, SudoFails,
         DropBranch, NextBlock, AtBound, vars, subscriptionVars
    <3> QED
      BY <2>1, <3>1, Zenon
  <2>3. ASSUME NEW sender \in Accounts, NEW contract \in Contracts,
               SubscribeToError(sender, contract)
        PROVE  Keeps
    <3>1. CASE phase = "sudo"
      <4>1. Committed' = Committed
        BY <2>3, <3>1, Zenon DEF Committed, SubscribeToError
      <4> QED
        BY <2>1, <4>1, Zenon
    <3>2. CASE phase = "deliver"
      <4>1. /\ Committed = contractSubscriptions
            /\ Committed' = [contractSubscriptions EXCEPT ![contract] =
                                 SubscriptionEndHeight(contract)]
        BY <2>3, <3>2, Zenon DEF Committed, SubscribeToError, SetSubscription
      <4>2. SubscriptionEndHeight(contract) >= contractSubscriptions[contract]
        BY <2>0 DEF SubscriptionEndHeight, TypeOK, Params
      <4> QED
        BY <2>0, <4>1, <4>2, SMTT(30) DEF TypeOK
    <3> QED
      BY <2>3, <3>1, <3>2, Zenon DEF SubscribeToError
  <2>4. CASE SudoSucceeds
    <3>1. Committed = saved.contractSubscriptions /\ Committed' = contractSubscriptions
      BY <2>4, Zenon DEF Committed, SudoSucceeds, subscriptionVars
    <3>2. \A c \in Contracts : contractSubscriptions[c] >= saved.contractSubscriptions[c]
      BY <2>4, Zenon DEF IInv, BranchExtends, SudoSucceeds
    <3> QED
      BY <3>1, <3>2, Zenon
  <2>5. CASE EndBlockerPrunes
    <3>1. /\ Committed = contractSubscriptions /\ Committed' = contractSubscriptions'
          /\ phase' = "pruned"
      BY <2>5, Zenon DEF Committed, EndBlockerPrunes
    <3>2. \A c \in Contracts : contractSubscriptions[c] # height =>
              contractSubscriptions'[c] = contractSubscriptions[c]
      <4> SUFFICES ASSUME NEW c \in Contracts, contractSubscriptions[c] # height
                   PROVE  contractSubscriptions'[c] = contractSubscriptions[c]
        BY Zenon
      <4>1. \A s \in subscriptionEndBlock : s[2] = c => s[1] # height
        BY DEF IInv, SubscriptionsAgree, InverseIndex
      <4> QED
        BY <2>5, <4>1, Zenon DEF EndBlockerPrunes, PruneSubscriptionsEndBlock
    <3> QED
      BY <2>0, <3>1, <3>2 DEF TypeOK
  <2> QED
    BY <2>2, <2>3, <2>4, <2>5, Zenon DEF Next
<1> QED
  BY <1>1, InductiveInvariant, PTL DEF Spec, PaidPeriodKept
-----------------------------------------------------------------------------
(* x/cwica: what is invariant besides. *)

(* Packets travel on channels that exist. *)
OnChannels == \A p \in packets : p.channel \in 1..Len(channels)

(* Each failure passed on has an identifier of its own, and every error    *)
(* under that identifier, announced or queued, is for the contract that    *)
(* sent the transaction.                                                   *)
Reported ==
    \A a \in Failed :
        /\ a.failure < errorID
        /\ \A n \in announced \cup sudoErrors : n.failure = a.failure => n.contract = a.contract
        /\ \A b \in Failed : b.failure = a.failure => b = a

(* Requests and packets correspond one to one, through the channel and the *)
(* sequence of the response.                                               *)
Sent ==
    /\ \A p \in packets :
           /\ p.sequence < channels[p.channel].next
           /\ p.request \in 1..Len(responses)
           /\ responses[p.request].contract = channels[p.channel].owner[1]
           /\ responses[p.request].channel = p.channel
           /\ responses[p.request].sequence = p.sequence
    /\ \A p, q \in packets : p.channel = q.channel /\ p.sequence = q.sequence => p = q
    /\ \A r \in 1..Len(responses) : \E p \in packets : p.request = r

(* A packet that was answered awaits no other answer, and the answer is    *)
(* what the host chain did with it, or can do no more.                     *)
AnswerTo(a, p) ==
    /\ a.channel = p.channel /\ a.sequence = p.sequence
    /\ <<p.channel, p.sequence>> \notin commitments
    /\ a.kind = "tx_executed" => p.host = "executed"
    /\ a.kind = "ERR_EXEC_FAILURE" => p.host = "rejected"
    /\ a.kind = "ERR_PACKET_TIMEOUT" => p.host = "unreceived" /\ remoteTime >= p.timeout

Answered ==
    /\ \A a \in answers : \E p \in packets : AnswerTo(a, p)
    /\ \A a, b \in answers : a.channel = b.channel /\ a.sequence = b.sequence => a = b

Exchange == IcaTypeOK /\ OnChannels /\ Sent /\ Answered

Bounded == Len(responses) <= MaxRequests

IcaInv == IInv /\ Exchange /\ Reported /\ Bounded

(* Facts about the sequences of channels and of responses. *)
LEMMA SeqEmpty == ASSUME NEW S PROVE << >> \in Seq(S) /\ Len(<< >>) = 0
OBVIOUS

LEMMA SeqLen ==
    ASSUME NEW S, NEW s \in Seq(S)
    PROVE  Len(s) \in Nat /\ DOMAIN s = 1..Len(s) /\ s \in [1..Len(s) -> S]
OBVIOUS

LEMMA SeqElement ==
    ASSUME NEW S, NEW s \in Seq(S), NEW n \in 1..Len(s)
    PROVE  s[n] \in S
OBVIOUS

LEMMA SeqReplace ==
    ASSUME NEW S, NEW s \in Seq(S), NEW n \in 1..Len(s), NEW e \in S
    PROVE  /\ [s EXCEPT ![n] = e] \in Seq(S)
           /\ Len([s EXCEPT ![n] = e]) = Len(s)
           /\ \A m \in 1..Len(s) : [s EXCEPT ![n] = e][m] = IF m = n THEN e ELSE s[m]
OBVIOUS

LEMMA SeqAppend ==
    ASSUME NEW S, NEW s \in Seq(S), NEW e \in S
    PROVE  /\ Append(s, e) \in Seq(S)
           /\ Len(Append(s, e)) = Len(s) + 1
           /\ Append(s, e)[Len(s) + 1] = e
           /\ \A m \in 1..Len(s) : Append(s, e)[m] = s[m]
OBVIOUS

(* The invariant holds initially. *)
LEMMA InitIcaInv == IcaInit => IcaInv
<1> SUFFICES ASSUME IcaInit PROVE IcaInv
  BY Zenon
<1>1. IInv
  BY InitIInv, Zenon DEF IcaInit
<1>2. IcaTypeOK
  BY CwIcaAssumptions, SeqEmpty DEF IcaInit, IcaTypeOK
<1>3. OnChannels /\ Reported
  BY Zenon DEF IcaInit, OnChannels, Reported, Failed
<1>4. Sent /\ Answered
  BY SeqEmpty DEF IcaInit, Sent, Answered
<1>5. Bounded
  BY SeqEmpty, CwIcaAssumptions DEF IcaInit, Bounded
<1> QED
  BY <1>1, <1>2, <1>3, <1>4, <1>5, Zenon DEF IcaInv, Exchange
-----------------------------------------------------------------------------
(* The sender of a packet is a contract. *)
LEMMA SenderIsContract ==
    ASSUME IcaTypeOK, OnChannels, NEW p \in packets
    PROVE  /\ p.channel \in 1..Len(channels) /\ channels[p.channel] \in Channels
           /\ channels[p.channel].owner \in Owners
           /\ channels[p.channel].owner[1] \in Contracts
<1>1. p.channel \in 1..Len(channels) /\ channels \in Seq(Channels)
  BY Zenon DEF IcaTypeOK, OnChannels
<1>2. channels[p.channel] \in Channels
  BY <1>1, SeqElement, Zenon
<1>3. channels[p.channel].owner \in Contracts \X Connections
  BY <1>2, Zenon DEF Channels, Owners
<1> QED
  BY <1>1, <1>2, <1>3, Zenon DEF Owners

(* Steps of x/cwica are steps of x/cwerrors, or leave it alone.            *)
LEMMA IcaStepIsStep == IcaInv /\ [IcaNext]_icaAllVars => [Next]_vars
<1> SUFFICES ASSUME IcaInv, [IcaNext]_icaAllVars PROVE [Next]_vars
  BY Zenon
<1>1. ASSUME NEW p \in packets PROVE channels[p.channel].owner[1] \in Contracts
  BY SenderIsContract, Zenon DEF IcaInv, Exchange
<1>2. ASSUME NEW p \in packets, NEW taken \in BOOLEAN, HandleAcknowledgement(p, taken)
      PROVE  [Next]_vars
  BY <1>1, <1>2, Zenon DEF HandleAcknowledgement, Next
<1>3. ASSUME NEW p \in packets, HandleTimeout(p) PROVE [Next]_vars
  BY <1>1, <1>3, Zenon DEF HandleTimeout, Next
<1>4. CASE UNCHANGED icaAllVars
  BY <1>4, Zenon DEF icaAllVars
<1> QED
  BY <1>2, <1>3, <1>4, ZenonT(30) DEF IcaNext, RegisterInterchainAccount, HandleChanOpenAck, SendTx,
     IcaUpdateParams, HostReceives, HostBlock

(* A step of x/cwerrors announces or queues a failure that it knew, for    *)
(* the same contract, or one with the next identifier.                     *)
LEMMA NewErrors ==
    ASSUME IInv, [Next]_vars
    PROVE  /\ errorID' >= errorID
           /\ \A n \in announced' \cup sudoErrors' :
                  \/ \E m \in announced \cup sudoErrors :
                         n.failure = m.failure /\ n.contract = m.contract
                  \/ n.failure = errorID
<1> USE DEF IInv, TypeOK
<1>1. ASSUME NEW contract \in Contracts, SetError(contract)
      PROVE  /\ errorID' = errorID + 1
             /\ \A n \in announced' \cup sudoErrors' :
                    n \in announced \cup sudoErrors \/ n.failure = errorID
  BY <1>1 DEF SetError, StoreErrorCallback, StoreErrorInState, errorVars
<1>2. CASE SudoFails
  <2>1. /\ errorID' = errorID + 1 /\ sudoErrors' = sudoErrors /\ running \in sudoErrors
        /\ \A n \in announced' : \/ n \in announced
                                 \/ n.failure = running.failure /\ n.contract = running.contract
    BY <1>2 DEF SudoFails, StoreErrorInState
  <2> QED
    BY <2>1
<1>3. CASE UNCHANGED <<errorID, announced>> /\ sudoErrors' \subseteq sudoErrors
  BY <1>3, SMTT(30)
<1>4. [Next]_vars => \/ \E contract \in Contracts : SetError(contract)
                     \/ SudoFails
                     \/ UNCHANGED <<errorID, announced>> /\ sudoErrors' \subseteq sudoErrors
  BY ZenonT(30)
     DEF Next, SubscribeToError, UpdateParams, EndBlocker, SudoErrorCallbackExec, SudoSucceeds,
         EndBlockerPrunes, NextBlock, AtBound, vars, errorVars
<1> QED
  BY <1>1, <1>2, <1>3, <1>4

(* Failures stay reported while x/cwerrors goes on by itself. *)
LEMMA ReportedKept ==
    ASSUME IInv, IcaTypeOK, Reported, [Next]_vars, answers' = answers
    PROVE  Reported'
<1>1. Failed' = Failed
  BY Zenon DEF Failed
<1>2. errorID \in Nat /\ errorID' \in Nat
  BY NextIInv, Zenon DEF IInv, TypeOK
<1>3. ASSUME NEW a \in Failed, NEW n \in announced' \cup sudoErrors', n.failure = a.failure
      PROVE  n.contract = a.contract
  <2>1. n.failure # errorID
    BY <1>2, <1>3 DEF Reported
  <2> QED
    BY <1>3, <2>1, NewErrors, Zenon DEF Reported
<1>4. ASSUME NEW a \in Failed PROVE a.failure < errorID'
  <2>1. a.failure \in Nat
    BY Zenon DEF Failed, IcaTypeOK, Answers
  <2> QED
    BY <1>2, <2>1, NewErrors DEF Reported
<1> QED
  BY <1>1, <1>3, <1>4, Zenon DEF Reported

(* An answer about a failure takes the next identifier of x/cwerrors, and  *)
(* the error is made out to the contract the answer is for.                *)
LEMMA ReportedGrows ==
    ASSUME IInv, IcaTypeOK, Reported, NEW contract \in Contracts, SetError(contract),
           NEW new \in Answers, new.failure = errorID, new.contract = contract,
           answers' = answers \cup {new}
    PROVE  Reported'
<1>1. Failed' \subseteq Failed \cup {new}
  BY Zenon DEF Failed
<1>2. errorID' = errorID + 1 /\ errorID \in Nat
  BY Zenon DEF SetError, StoreErrorCallback, StoreErrorInState, IInv, TypeOK
<1>3. ASSUME NEW n \in announced' \cup sudoErrors'
      PROVE  n \in announced \cup sudoErrors \/ (n.failure = errorID /\ n.contract = contract)
  BY DEF SetError, StoreErrorCallback, StoreErrorInState, errorVars
<1>4. \A n \in announced \cup sudoErrors : n.failure # errorID
  BY <1>2 DEF IInv, TypeOK, Numbered
<1>5. \A a \in Failed : a.failure \in Nat /\ a.failure < errorID
  BY Zenon DEF Reported, Failed, IcaTypeOK, Answers
<1>6. ASSUME NEW a \in Failed' PROVE a.failure < errorID'
  BY <1>1, <1>2, <1>5
<1>7. ASSUME NEW a \in Failed', NEW n \in announced' \cup sudoErrors', n.failure = a.failure
      PROVE  n.contract = a.contract
  <2>1. CASE a = new
    BY <1>3, <1>4, <1>7, <2>1, Zenon
  <2>2. CASE a \in Failed
    <3>1. n.failure # errorID
      BY <1>2, <1>5, <1>7, <2>2
    <3> QED
      BY <1>3, <1>7, <2>2, <3>1, Zenon DEF Reported
  <2> QED
    BY <1>1, <2>1, <2>2, Zenon
<1>8. ASSUME NEW a \in Failed', NEW b \in Failed', b.failure = a.failure PROVE b = a
  BY <1>1, <1>2, <1>5, <1>8 DEF Reported
<1> QED
  BY <1>6, <1>7, <1>8, Zenon DEF Reported
-----------------------------------------------------------------------------
(* What a step may do to the channels: open new ones, and never go back to *)
(* the handshake or change the owner.                                      *)
ChannelsKept ==
    /\ channels' \in Seq(Channels)
    /\ Len(channels') >= Len(channels)
    /\ \A i \in 1..Len(channels) :
           /\ channels'[i].owner = channels[i].owner
           /\ channels'[i].next >= channels[i].next
           /\ channels[i].state # "INIT" => channels'[i].state # "INIT"

(* Positions stay positions when a sequence grows. *)
LEMMA InRange ==
    ASSUME NEW n \in Nat, NEW m \in Nat, m >= n
    PROVE  \A i \in 1..n : i \in 1..m
OBVIOUS

LEMMA NextInRange ==
    ASSUME NEW n \in Nat
    PROVE  n + 1 \in Nat /\ n + 1 >= n /\ n + 1 \in 1..(n + 1)
OBVIOUS

(* A channel by its identifier. *)
LEMMA ChannelTyped ==
    ASSUME NEW cs \in Seq(Channels), NEW j \in 1..Len(cs)
    PROVE  /\ cs[j] \in Channels /\ cs[j].owner \in Owners /\ cs[j].next \in Nat
           /\ cs[j].state \in {"INIT", "OPEN", "CLOSED"}
<1>1. cs[j] \in Channels
  BY SeqElement, Zenon
<1> QED
  BY <1>1, Zenon DEF Channels

(* A channel that is replaced by another of its owner. *)
LEMMA ChannelUpdated ==
    ASSUME channels \in Seq(Channels), NEW ch \in 1..Len(channels), NEW c \in Channels,
           c.owner = channels[ch].owner, c.next >= channels[ch].next,
           channels[ch].state # "INIT" => c.state # "INIT",
           channels' = [channels EXCEPT ![ch] = c]
    PROVE  ChannelsKept /\ Len(channels') = Len(channels) /\ channels'[ch] = c
<1>1. /\ channels' \in Seq(Channels) /\ Len(channels') = Len(channels)
      /\ \A j \in 1..Len(channels) : channels'[j] = IF j = ch THEN c ELSE channels[j]
  BY SeqReplace
<1>2. \A j \in 1..Len(channels) : channels[j].next \in Nat
  BY ChannelTyped, Zenon
<1> QED
  BY <1>1, <1>2, SeqLen DEF ChannelsKept

(* Channels that stay as they are are kept. *)
LEMMA ChannelsUnchanged ==
    ASSUME channels \in Seq(Channels), channels' = channels
    PROVE  ChannelsKept
<1>1. \A j \in 1..Len(channels) : channels[j].next \in Nat
  BY ChannelTyped, Zenon
<1> QED
  BY <1>1, SeqLen DEF ChannelsKept

(* Active channels stay what they are while channels only move on.         *)
LEMMA ActiveKept ==
    ASSUME IcaTypeOK, ChannelsKept, active' = active
    PROVE  /\ active' \in [Owners -> 0..Len(channels')]
           /\ \A o \in Owners : active'[o] # 0 => /\ channels'[active'[o]].owner = o
                                                  /\ channels'[active'[o]].state # "INIT"
<1>1. Len(channels) \in Nat /\ Len(channels') \in Nat /\ Len(channels') >= Len(channels)
  BY SeqLen, Zenon DEF IcaTypeOK, ChannelsKept
<1>2. active \in [Owners -> 0..Len(channels)]
  BY Zenon DEF IcaTypeOK
<1>3. active' \in [Owners -> 0..Len(channels')]
  BY <1>1, <1>2
<1>4. ASSUME NEW o \in Owners, active[o] # 0
      PROVE  channels'[active[o]].owner = o /\ channels'[active[o]].state # "INIT"
  <2>1. active[o] \in 1..Len(channels)
    BY <1>1, <1>2, <1>4
  <2> QED
    BY <1>4, <2>1, Zenon DEF IcaTypeOK, ChannelsKept
<1> QED
  BY <1>3, <1>4, Zenon

(* The channel of a packet, while channels only move on. *)
LEMMA PacketChannel ==
    ASSUME IcaTypeOK, OnChannels, Sent, ChannelsKept, NEW p \in packets
    PROVE  /\ p.channel \in 1..Len(channels')
           /\ p.sequence < channels'[p.channel].next
           /\ channels'[p.channel].owner = channels[p.channel].owner
<1>1. p.channel \in 1..Len(channels) /\ p.sequence < channels[p.channel].next
  BY Zenon DEF OnChannels, Sent
<1>2. /\ channels \in Seq(Channels) /\ channels' \in Seq(Channels)
      /\ Len(channels) \in Nat /\ Len(channels') \in Nat /\ Len(channels') >= Len(channels)
  BY SeqLen, Zenon DEF IcaTypeOK, ChannelsKept
<1>3. p.channel \in 1..Len(channels')
  BY <1>1, <1>2, InRange, Zenon
<1>4. channels[p.channel].next \in Nat /\ channels'[p.channel].next \in Nat /\ p.sequence \in Nat
  BY <1>1, <1>2, <1>3, ChannelTyped, Zenon DEF IcaTypeOK, Packets
<1>5. /\ channels'[p.channel].owner = channels[p.channel].owner
      /\ channels'[p.channel].next >= channels[p.channel].next
  BY <1>1, Zenon DEF ChannelsKept
<1> QED
  BY <1>1, <1>3, <1>4, <1>5

(* Requests and packets still correspond when channels only grow. *)
LEMMA SentKept ==
    ASSUME IcaTypeOK, OnChannels, Sent, ChannelsKept, UNCHANGED <<packets, responses>>
    PROVE  OnChannels' /\ Sent'
<1>1. OnChannels'
  BY PacketChannel, Zenon DEF OnChannels
<1>2. \A p \in packets : /\ p.sequence < channels'[p.channel].next
                         /\ channels'[p.channel].owner = channels[p.channel].owner
  BY PacketChannel, Zenon
<1> QED
  BY <1>1, <1>2, Zenon DEF Sent

(* Answers stay true while no packet changes or awaits a new one. *)
LEMMA AnsweredKept ==
    ASSUME Answered, UNCHANGED <<packets, remoteTime, answers>>, commitments' \subseteq commitments
    PROVE  Answered'
BY Zenon DEF Answered, AnswerTo
-----------------------------------------------------------------------------
(* One lemma per operation: it preserves Exchange.                         *)

(* A registration adds a channel without packets. *)
LEMMA RegisterExchange ==
    ASSUME Exchange, NEW contract \in Contracts, NEW connection \in Connections,
           RegisterInterchainAccount(contract, connection)
    PROVE  Exchange'
<1> DEFINE new == [owner |-> <<contract, connection>>, state |-> "INIT", next |-> 1]
<1>1. new \in Channels /\ channels \in Seq(Channels)
  BY Zenon DEF Channels, Owners, Exchange, IcaTypeOK
<1>2. /\ channels' = Append(channels, new)
      /\ UNCHANGED <<maxMessages, active, commitments, packets, remoteTime, responses, answers>>
  BY Zenon DEF RegisterInterchainAccount, ControllerRegister
<1> HIDE DEF new
<1>3. ChannelsKept
  <2>1. /\ channels' \in Seq(Channels) /\ Len(channels') = Len(channels) + 1
        /\ \A i \in 1..Len(channels) : channels'[i] = channels[i]
    <3>1. /\ Append(channels, new) \in Seq(Channels)
          /\ Len(Append(channels, new)) = Len(channels) + 1
          /\ \A i \in 1..Len(channels) : Append(channels, new)[i] = channels[i]
      BY <1>1, SeqAppend
    <3> QED
      BY <1>2, <3>1, Zenon
  <2>2. Len(channels) \in Nat /\ \A j \in 1..Len(channels) : channels[j].next \in Nat
    BY <1>1, ChannelTyped, SeqLen, Zenon
  <2> QED
    BY <2>1, <2>2 DEF ChannelsKept
<1>4. OnChannels' /\ Sent' /\ Answered'
  BY <1>2, <1>3, SentKept, AnsweredKept, Zenon DEF Exchange
<1>5. IcaTypeOK'
  BY <1>2, <1>3, ActiveKept, Zenon DEF Exchange, IcaTypeOK, ChannelsKept
<1> QED
  BY <1>4, <1>5, Zenon DEF Exchange

(* A handshake that completes makes its channel the active one. *)
LEMMA OpenAckExchange ==
    ASSUME Exchange, NEW ch \in 1..Len(channels), HandleChanOpenAck(ch)
    PROVE  Exchange'
<1> DEFINE c == [channels[ch] EXCEPT !.state = "OPEN"]
           owner == channels[ch].owner
<1>1. channels \in Seq(Channels) /\ channels[ch] \in Channels /\ owner \in Owners
  BY ChannelTyped, Zenon DEF Exchange, IcaTypeOK
<1>2. /\ c \in Channels /\ c.owner = channels[ch].owner /\ c.next >= channels[ch].next
      /\ c.state = "OPEN" /\ (channels[ch].state # "INIT" => c.state # "INIT")
  BY <1>1 DEF Channels
<1>3. /\ channels' = [channels EXCEPT ![ch] = c]
      /\ active' = [active EXCEPT ![owner] = ch]
      /\ UNCHANGED <<maxMessages, commitments, packets, remoteTime, responses, answers>>
  BY Zenon DEF HandleChanOpenAck
<1> HIDE DEF c
<1>4. ChannelsKept /\ Len(channels') = Len(channels) /\ channels'[ch] = c
  BY <1>1, <1>2, <1>3, ChannelUpdated, ZenonT(30)
<1>5. OnChannels' /\ Sent' /\ Answered'
  BY <1>3, <1>4, SentKept, AnsweredKept, Zenon DEF Exchange
<1>6. active' \in [Owners -> 0..Len(channels')]
  BY <1>1, <1>3, <1>4, SeqLen DEF Exchange, IcaTypeOK
<1>7. ASSUME NEW o \in Owners, active'[o] # 0
      PROVE  channels'[active'[o]].owner = o /\ channels'[active'[o]].state # "INIT"
  <2>1. CASE o = owner
    <3>1. active'[o] = ch
      BY <1>1, <1>3, <2>1, Zenon DEF Exchange, IcaTypeOK
    <3> QED
      BY <1>2, <1>4, <2>1, <3>1, Zenon
  <2>2. CASE o # owner
    <3>1. active'[o] = active[o] /\ active[o] \in 1..Len(channels)
      BY <1>1, <1>3, <1>7, <2>2, SeqLen, SMTT(30) DEF Exchange, IcaTypeOK
    <3> QED
      BY <1>4, <1>7, <3>1, Zenon DEF Exchange, IcaTypeOK, ChannelsKept
  <2> QED
    BY <2>1, <2>2, Zenon
<1>8. IcaTypeOK'
  BY <1>3, <1>4, <1>6, <1>7, Zenon DEF Exchange, IcaTypeOK, ChannelsKept
<1> QED
  BY <1>5, <1>8, SMTT(30) DEF Exchange

(* Parameters play no part in the exchange. *)
LEMMA UpdateExchange ==
    ASSUME Exchange, NEW max \in MaxMessageSets, IcaUpdateParams(max)
    PROVE  Exchange'
<1>1. maxMessages' \in Nat \ {0}
  BY CwIcaAssumptions, Zenon DEF IcaUpdateParams
<1>2. UNCHANGED <<channels, active, commitments, packets, remoteTime, responses, answers>>
  BY Zenon DEF IcaUpdateParams, ibcVars
<1>3. IcaTypeOK'
  BY <1>1, <1>2, Zenon DEF Exchange, IcaTypeOK
<1>4. OnChannels' /\ Sent' /\ Answered'
  BY <1>2, SentKept, AnsweredKept, ChannelsUnchanged, Zenon DEF Exchange, IcaTypeOK
<1> QED
  BY <1>3, <1>4, Zenon DEF Exchange

(* Nor does what x/cwerrors does by itself. *)
LEMMA IcaUnchanged ==
    ASSUME Exchange, UNCHANGED icaVars
    PROVE  Exchange'
<1>1. UNCHANGED <<maxMessages, channels, active, commitments, packets, remoteTime, responses,
                  answers>>
  BY Zenon DEF icaVars, ibcVars
<1>2. IcaTypeOK'
  BY <1>1, Zenon DEF Exchange, IcaTypeOK
<1>3. OnChannels' /\ Sent' /\ Answered'
  BY <1>1, SentKept, AnsweredKept, ChannelsUnchanged, Zenon DEF Exchange, IcaTypeOK
<1> QED
  BY <1>2, <1>3, Zenon DEF Exchange

(* The active channel of an owner is theirs and exists. *)
LEMMA ActiveChannel ==
    ASSUME IcaTypeOK, NEW o \in Owners, active[o] # 0
    PROVE  /\ active[o] \in 1..Len(channels) /\ active[o] \in Nat
           /\ channels[active[o]].owner = o /\ channels[active[o]].state # "INIT"
<1>1. active[o] \in 0..Len(channels) /\ Len(channels) \in Nat
  BY SeqLen, Zenon DEF IcaTypeOK
<1> QED
  BY <1>1 DEF IcaTypeOK

(* What SendTx does: the packet takes the next sequence of a channel of    *)
(* the sender, and the response identifies it.                             *)
SendTxStep(ch, new, res) ==
    /\ ch \in 1..Len(channels) /\ new \in Packets /\ res \in Responses
    /\ ChannelsKept
    /\ new.channel = ch /\ new.sequence = channels[ch].next
    /\ new.sequence < channels'[ch].next
    /\ new.request = Len(responses) + 1 /\ new.host = "unreceived"
    /\ res.contract = channels[ch].owner[1] /\ res.channel = ch /\ res.sequence = new.sequence
    /\ packets' = packets \cup {new}
    /\ commitments' = commitments \cup {<<ch, new.sequence>>}
    /\ responses' = Append(responses, res)
    /\ UNCHANGED <<maxMessages, active, remoteTime, answers>>

(* A channel whose next sequence was given out. *)
LEMMA NextCounted ==
    ASSUME NEW d \in Channels, NEW c, c = [d EXCEPT !.next = d.next + 1]
    PROVE  /\ c \in Channels /\ c.owner = d.owner /\ c.state = d.state
           /\ d.next \in Nat /\ d.next < c.next /\ c.next >= d.next
<1>1. d.next \in Nat
  BY Zenon DEF Channels
<1> QED
  BY <1>1 DEF Channels

(* The channel of a request is the sender's, with its sequence counted. *)
LEMMA SendTxChannel ==
    ASSUME IcaTypeOK, NEW o \in Owners, active[o] # 0, NEW c,
           c = [channels[active[o]] EXCEPT !.next = channels[active[o]].next + 1],
           channels' = [channels EXCEPT ![active[o]] = c]
    PROVE  /\ active[o] \in 1..Len(channels) /\ active[o] \in Nat
           /\ channels[active[o]].owner = o /\ channels[active[o]].next \in Nat
           /\ ChannelsKept /\ channels[active[o]].next < channels'[active[o]].next
<1>1. active[o] \in 1..Len(channels) /\ active[o] \in Nat /\ channels[active[o]].owner = o
  BY ActiveChannel, Zenon
<1>2. channels \in Seq(Channels) /\ channels[active[o]] \in Channels
  BY <1>1, ChannelTyped, Zenon DEF IcaTypeOK
<1>3. /\ c \in Channels /\ c.owner = channels[active[o]].owner
      /\ c.state = channels[active[o]].state /\ channels[active[o]].next \in Nat
      /\ channels[active[o]].next < c.next /\ c.next >= channels[active[o]].next
      /\ channels[active[o]].state # "INIT" => c.state # "INIT"
  BY <1>2, NextCounted, Zenon
<1>4. ChannelsKept /\ channels'[active[o]] = c
  BY <1>1, <1>2, <1>3, ChannelUpdated, Zenon
<1> QED
  BY <1>1, <1>3, <1>4, Zenon

LEMMA SendTxSteps ==
    ASSUME TypeOK, Exchange, NEW contract \in Contracts, NEW connection \in Connections,
           NEW n \in MsgCounts, NEW t \in Timeouts, SendTx(contract, connection, n, t)
    PROVE  \E ch, new, res : SendTxStep(ch, new, res)
<1> DEFINE o == <<contract, connection>>
           ch == active[o]
           c == [channels[ch] EXCEPT !.next = channels[ch].next + 1]
           new == [request |-> Len(responses) + 1, channel |-> ch, sequence |-> channels[ch].next,
                   timeout |-> height + t, host |-> "unreceived"]
           res == [contract |-> contract, channel |-> ch, sequence |-> channels[ch].next]
<1>1. /\ ch # 0 /\ channels' = [channels EXCEPT ![ch] = c]
      /\ packets' = packets \cup {new}
      /\ commitments' = commitments \cup {<<ch, channels[ch].next>>}
      /\ responses' = Append(responses, res)
      /\ UNCHANGED <<maxMessages, active, remoteTime, answers>>
  BY Zenon DEF SendTx, ControllerSendTx, GetActiveChannelID, GetNextSequenceSend
<1>2. o \in Owners /\ o[1] = contract /\ IcaTypeOK
  BY Zenon DEF Owners, Exchange
<1>3. /\ ch \in 1..Len(channels) /\ ch \in Nat /\ channels[ch].owner = o
      /\ channels[ch].next \in Nat /\ ChannelsKept /\ channels[ch].next < channels'[ch].next
  BY <1>1, <1>2, SendTxChannel, Zenon
<1>4. /\ new.channel = ch /\ new.sequence = channels[ch].next
      /\ new.request = Len(responses) + 1 /\ new.host = "unreceived"
      /\ res.contract = contract /\ res.channel = ch /\ res.sequence = channels[ch].next
  BY Zenon
<1>5. Len(responses) \in Nat /\ height + t \in Nat
  BY SeqLen, CwIcaAssumptions DEF Exchange, IcaTypeOK, TypeOK
<1>6. new \in Packets /\ res \in Responses
  BY <1>3, <1>5 DEF Packets, Responses
<1> HIDE DEF o, ch, c, new, res
<1>7. SendTxStep(ch, new, res)
  BY <1>1, <1>2, <1>3, <1>4, <1>6, Zenon DEF SendTxStep
<1> QED
  BY <1>7, Zenon

(* The responses after a request. *)
LEMMA SendTxResponses ==
    ASSUME IcaTypeOK, NEW ch, NEW new, NEW res, SendTxStep(ch, new, res)
    PROVE  /\ Len(responses) \in Nat /\ Len(responses') = Len(responses) + 1
           /\ responses' \in Seq(Responses)
           /\ responses'[Len(responses) + 1] = res
           /\ \A i \in 1..Len(responses) : responses'[i] = responses[i]
<1>1. responses \in Seq(Responses) /\ res \in Responses /\ responses' = Append(responses, res)
  BY Zenon DEF IcaTypeOK, SendTxStep
<1> QED
  BY <1>1, SeqLen, SeqAppend

(* No packet has the sequence of the new one. *)
LEMMA SendTxFresh ==
    ASSUME Exchange, NEW ch, NEW new, NEW res, SendTxStep(ch, new, res), NEW p \in packets
    PROVE  p.channel # ch \/ p.sequence # new.sequence
<1>1. p.sequence \in Nat /\ p.sequence < channels[p.channel].next
  BY Zenon DEF Exchange, IcaTypeOK, Packets, Sent
<1> QED
  BY <1>1 DEF SendTxStep

LEMMA SendTxSent ==
    ASSUME Exchange, NEW ch, NEW new, NEW res, SendTxStep(ch, new, res)
    PROVE  OnChannels' /\ Sent'
<1>1. /\ IcaTypeOK /\ OnChannels /\ Sent /\ ChannelsKept
      /\ packets' = packets \cup {new} /\ ch \in 1..Len(channels)
  BY Zenon DEF Exchange, SendTxStep
<1>0. /\ Len(responses) \in Nat /\ Len(responses') = Len(responses) + 1
      /\ responses'[Len(responses) + 1] = res
      /\ \A i \in 1..Len(responses) : responses'[i] = responses[i]
  BY <1>1, SendTxResponses, Zenon
<1>2. ASSUME NEW p \in packets'
      PROVE  /\ p.channel \in 1..Len(channels')
             /\ p.sequence < channels'[p.channel].next
             /\ channels'[p.channel].owner = channels[p.channel].owner
  <2>1. CASE p \in packets
    BY <1>1, <2>1, PacketChannel, Zenon
  <2>2. CASE p = new
    <3>1. /\ new.channel = ch /\ new.sequence = channels[ch].next
          /\ channels[ch].next < channels'[ch].next
      BY Zenon DEF SendTxStep
    <3>2. ch \in 1..Len(channels') /\ channels'[ch].owner = channels[ch].owner
      <4>1. channels \in Seq(Channels) /\ channels' \in Seq(Channels)
        BY <1>1, Zenon DEF IcaTypeOK, ChannelsKept
      <4>2. Len(channels) \in Nat /\ Len(channels') \in Nat /\ Len(channels') >= Len(channels)
        BY <1>1, <4>1, SeqLen, Zenon DEF ChannelsKept
      <4> QED
        BY <1>1, <4>2, InRange, Zenon DEF ChannelsKept
    <3> QED
      BY <2>2, <3>1, <3>2, Zenon
  <2>3. p \in packets \/ p = new
    BY <1>1, Zenon
  <2> QED
    BY <2>1, <2>2, <2>3, Zenon
<1>3. ASSUME NEW p \in packets'
      PROVE  /\ p.request \in 1..Len(responses')
             /\ responses'[p.request].contract = channels[p.channel].owner[1]
             /\ responses'[p.request].channel = p.channel
             /\ responses'[p.request].sequence = p.sequence
  <2>1. CASE p \in packets
    <3>1. /\ p.request \in 1..Len(responses)
          /\ responses[p.request].contract = channels[p.channel].owner[1]
          /\ responses[p.request].channel = p.channel
          /\ responses[p.request].sequence = p.sequence
      BY <1>1, <2>1, Zenon DEF Sent
    <3>2. p.request \in 1..Len(responses')
      BY <1>0, <3>1, InRange, NextInRange, Zenon
    <3> QED
      BY <1>0, <3>1, <3>2, Zenon
  <2>2. CASE p = new
    <3>1. /\ new.request = Len(responses) + 1 /\ new.channel = ch
          /\ res.contract = channels[ch].owner[1] /\ res.channel = ch /\ res.sequence = new.sequence
      BY Zenon DEF SendTxStep
    <3>2. p.request \in 1..Len(responses')
      BY <1>0, <2>2, <3>1, NextInRange, Zenon
    <3> QED
      BY <1>0, <2>2, <3>1, <3>2, Zenon
  <2>3. p \in packets \/ p = new
    BY <1>1, Zenon
  <2> QED
    BY <2>1, <2>2, <2>3, Zenon
<1>4. ASSUME NEW p \in packets', NEW q \in packets',
             p.channel = q.channel, p.sequence = q.sequence
      PROVE  p = q
  <2>1. new.channel = ch /\ (p \in packets \/ p = new) /\ (q \in packets \/ q = new)
    BY <1>1, Zenon DEF SendTxStep
  <2>2. CASE p = new \/ q = new
    BY <1>4, <2>1, <2>2, SendTxFresh, Zenon
  <2>3. CASE p \in packets /\ q \in packets
    BY <1>1, <1>4, <2>3, Zenon DEF Sent
  <2> QED
    BY <2>1, <2>2, <2>3, Zenon
<1>5. ASSUME NEW r \in 1..Len(responses') PROVE \E p \in packets' : p.request = r
  <2>1. r \in 1..Len(responses) \/ r = Len(responses) + 1
    BY <1>0
  <2> QED
    BY <1>1, <2>1, Zenon DEF Sent, SendTxStep
<1>6. OnChannels'
  BY <1>2, Zenon DEF OnChannels
<1> QED
  BY <1>2, <1>3, <1>4, <1>5, <1>6, Zenon DEF Sent

(* A request gets the next sequence, which no packet has. *)
LEMMA SendTxExchange ==
    ASSUME Exchange, NEW ch, NEW new, NEW res, SendTxStep(ch, new, res)
    PROVE  Exchange'
<1>1. OnChannels' /\ Sent'
  BY SendTxSent, Zenon
<1>2. Answered'
  <2>1. ASSUME NEW a \in answers, NEW p \in packets, AnswerTo(a, p) PROVE AnswerTo(a, p)'
    <3>1. <<p.channel, p.sequence>> # <<ch, new.sequence>>
      BY SendTxFresh, Zenon
    <3> QED
      BY <2>1, <3>1, Zenon DEF AnswerTo, SendTxStep
  <2> QED
    BY <2>1, Zenon DEF Exchange, Answered, SendTxStep
<1>3. IcaTypeOK'
  <2>1. IcaTypeOK /\ ChannelsKept /\ UNCHANGED <<maxMessages, active, remoteTime, answers>>
    BY Zenon DEF Exchange, SendTxStep
  <2>2. commitments' \subseteq {<<p.channel, p.sequence>> : p \in packets'}
    BY <2>1 DEF SendTxStep, IcaTypeOK
  <2>3. packets' \in SUBSET Packets
    BY <2>1, Zenon DEF SendTxStep, IcaTypeOK
  <2>4. responses' \in Seq(Responses) /\ channels' \in Seq(Channels)
    BY <2>1, SendTxResponses, Zenon DEF ChannelsKept
  <2>5. /\ active' \in [Owners -> 0..Len(channels')]
        /\ \A o \in Owners : active'[o] # 0 => /\ channels'[active'[o]].owner = o
                                               /\ channels'[active'[o]].state # "INIT"
    BY <2>1, ActiveKept, Zenon
  <2> QED
    BY <2>1, <2>2, <2>3, <2>4, <2>5, Zenon DEF IcaTypeOK
<1> QED
  BY <1>1, <1>2, <1>3, Zenon DEF Exchange

(* What the host chain does with a packet shows in the packet only. *)
HostStep(p, new) ==
    /\ p.host = "unreceived" /\ remoteTime < p.timeout
    /\ new \in Packets /\ new.request = p.request /\ new.channel = p.channel
    /\ new.sequence = p.sequence /\ new.host \in {"executed", "rejected"}
    /\ packets' = (packets \ {p}) \cup {new}
    /\ UNCHANGED <<maxMessages, channels, active, commitments, remoteTime, responses, answers>>

LEMMA HostReceivesSteps ==
    ASSUME Exchange, NEW p \in packets, NEW result \in {"executed", "rejected"},
           HostReceives(p, result)
    PROVE  \E new : HostStep(p, new)
<1> DEFINE new == [p EXCEPT !.host = result]
<1>1. p \in Packets
  BY Zenon DEF Exchange, IcaTypeOK
<1>2. /\ new \in Packets /\ new.request = p.request /\ new.channel = p.channel
      /\ new.sequence = p.sequence /\ new.host = result
  BY <1>1, Zenon DEF Packets
<1>3. HostStep(p, new)
  BY <1>2, Zenon DEF HostReceives, HostStep
<1> QED
  BY <1>3, Zenon

LEMMA HostReceivesSent ==
    ASSUME Exchange, NEW p \in packets, NEW new, HostStep(p, new)
    PROVE  OnChannels' /\ Sent'
<1>1. /\ OnChannels /\ Sent /\ packets' = (packets \ {p}) \cup {new}
      /\ new.request = p.request /\ new.channel = p.channel /\ new.sequence = p.sequence
      /\ UNCHANGED <<channels, responses>>
  BY Zenon DEF Exchange, HostStep
<1>2. ASSUME NEW q \in packets'
      PROVE  \E r \in packets : /\ q.request = r.request /\ q.channel = r.channel
                                /\ q.sequence = r.sequence
  BY <1>1, Zenon
<1>3. OnChannels'
  BY <1>1, <1>2, Zenon DEF OnChannels
<1>4. ASSUME NEW q \in packets'
      PROVE  /\ q.sequence < channels[q.channel].next
             /\ q.request \in 1..Len(responses)
             /\ responses[q.request].contract = channels[q.channel].owner[1]
             /\ responses[q.request].channel = q.channel
             /\ responses[q.request].sequence = q.sequence
  BY <1>1, <1>2 DEF Sent
<1>5. ASSUME NEW q \in packets', NEW r \in packets',
             q.channel = r.channel, q.sequence = r.sequence
      PROVE  q = r
  BY <1>1, <1>5, SMTT(30) DEF Sent
<1>6. ASSUME NEW r \in 1..Len(responses) PROVE \E q \in packets' : q.request = r
  BY <1>1, Zenon DEF Sent
<1> QED
  BY <1>1, <1>3, <1>4, <1>5, <1>6, Zenon DEF Sent

LEMMA HostReceivesAnswered ==
    ASSUME Exchange, NEW p \in packets, NEW new, HostStep(p, new)
    PROVE  Answered'
<1>1. ASSUME NEW a \in answers PROVE \E q \in packets' : AnswerTo(a, q)'
  <2>1. PICK q \in packets : AnswerTo(a, q)
    BY Zenon DEF Exchange, Answered
  <2>2. /\ a.kind \in {"tx_executed", "ERR_EXEC_FAILURE", "ERR_PACKET_TIMEOUT"}
        /\ p.timeout \in Nat /\ remoteTime \in Nat
    BY Zenon DEF Exchange, IcaTypeOK, Answers, Packets
  <2>3. q # p
    BY <2>1, <2>2 DEF AnswerTo, HostStep
  <2>4. AnswerTo(a, q)'
    BY <2>1, Zenon DEF AnswerTo, HostStep
  <2> QED
    BY <2>3, <2>4, Zenon DEF HostStep
<1> QED
  BY <1>1, Zenon DEF Exchange, Answered, HostStep

LEMMA HostReceivesExchange ==
    ASSUME Exchange, NEW p \in packets, NEW new, HostStep(p, new)
    PROVE  Exchange'
<1>1. \A q \in packets : \E r \in packets' : q.channel = r.channel /\ q.sequence = r.sequence
  BY Zenon DEF HostStep
<1>2. commitments' \subseteq {<<q.channel, q.sequence>> : q \in packets'}
  BY <1>1 DEF Exchange, IcaTypeOK, HostStep
<1>3. packets' \in SUBSET Packets
  BY Zenon DEF Exchange, IcaTypeOK, HostStep
<1>4. IcaTypeOK'
  BY <1>2, <1>3, Zenon DEF Exchange, IcaTypeOK, HostStep
<1> QED
  BY <1>4, HostReceivesSent, HostReceivesAnswered, Zenon DEF Exchange

(* The host chain's clock only moves forward. *)
LEMMA HostBlockExchange ==
    ASSUME Exchange, HostBlock
    PROVE  Exchange'
<1>1. /\ remoteTime' = remoteTime + 1 /\ remoteTime \in Nat
      /\ UNCHANGED <<maxMessages, channels, active, commitments, packets, responses, answers>>
  BY Zenon DEF HostBlock, Exchange, IcaTypeOK
<1>2. IcaTypeOK'
  BY <1>1 DEF Exchange, IcaTypeOK
<1>3. OnChannels' /\ Sent'
  BY <1>1, SentKept, ChannelsUnchanged, Zenon DEF Exchange, IcaTypeOK
<1>4. ASSUME NEW a \in answers, NEW p \in packets, AnswerTo(a, p) PROVE AnswerTo(a, p)'
  <2>1. p.timeout \in Nat
    BY Zenon DEF Exchange, IcaTypeOK, Packets
  <2> QED
    BY <1>1, <1>4, <2>1 DEF AnswerTo
<1>5. Answered'
  BY <1>1, <1>4, Zenon DEF Exchange, Answered
<1> QED
  BY <1>2, <1>3, <1>5, Zenon DEF Exchange

(* A packet is answered while it awaits an answer, hence once. *)
LEMMA AnsweredGrows ==
    ASSUME Exchange, NEW p \in packets, <<p.channel, p.sequence>> \in commitments,
           commitments' = commitments \ {<<p.channel, p.sequence>>},
           UNCHANGED <<packets, remoteTime>>,
           NEW new, AnswerTo(new, p)', answers' = answers \cup {new}
    PROVE  Answered'
<1>1. ASSUME NEW a \in answers
      PROVE  /\ \E q \in packets : AnswerTo(a, q)'
             /\ ~(a.channel = p.channel /\ a.sequence = p.sequence)
  <2>1. PICK q \in packets : AnswerTo(a, q)
    BY Zenon DEF Exchange, Answered
  <2>2. AnswerTo(a, q)'
    BY <2>1, Zenon DEF AnswerTo
  <2>3. <<a.channel, a.sequence>> \notin commitments
    BY <2>1, Zenon DEF AnswerTo
  <2> QED
    BY <2>2, <2>3, Zenon
<1>2. new.channel = p.channel /\ new.sequence = p.sequence
  BY SMTT(30) DEF AnswerTo
<1> QED
  BY <1>1, <1>2 DEF Exchange, Answered

(* What the handlers pass on is an answer. *)
LEMMA AnswerTyped ==
    ASSUME TypeOK, Exchange, NEW p \in packets,
           NEW kind \in {"tx_executed", "ERR_EXEC_FAILURE", "ERR_PACKET_TIMEOUT"}
    PROVE  /\ Answer(p, kind) \in Answers /\ Answer(p, kind).kind = kind
           /\ Answer(p, kind).channel = p.channel /\ Answer(p, kind).sequence = p.sequence
           /\ Answer(p, kind).contract = channels[p.channel].owner[1]
           /\ Answer(p, kind).failure = errorID
<1>1. p \in Packets /\ errorID \in Nat
  BY SMTT(30) DEF Exchange, IcaTypeOK, TypeOK
<1>2. channels[p.channel].owner[1] \in Contracts
  BY SenderIsContract, Zenon DEF Exchange
<1> QED
  BY <1>1, <1>2, Zenon DEF Answer, Answers, Packets

(* The kind of answer that each case of HandleAcknowledgement passes on. *)
AckKind(p) == IF p.host = "executed" THEN "tx_executed" ELSE "ERR_EXEC_FAILURE"

(* An acknowledgement is what the host chain did. *)
LEMMA AcknowledgementExchange ==
    ASSUME TypeOK, Exchange, NEW p \in packets, NEW taken \in BOOLEAN,
           HandleAcknowledgement(p, taken)
    PROVE  /\ Exchange'
           /\ answers' \in {answers, answers \cup {Answer(p, AckKind(p))}}
<1>1. /\ <<p.channel, p.sequence>> \in commitments
      /\ commitments' = commitments \ {<<p.channel, p.sequence>>}
      /\ UNCHANGED <<maxMessages, channels, active, packets, remoteTime, responses>>
      /\ p.host \in {"executed", "rejected"}
  BY SMTT(30) DEF HandleAcknowledgement, Acknowledged
<1>2. answers' \in {answers, answers \cup {Answer(p, AckKind(p))}}
  BY Zenon DEF HandleAcknowledgement, AckKind
<1> PICK new : new = Answer(p, AckKind(p))
  BY SMTT(30)
<1>3. /\ new \in Answers /\ new.kind = AckKind(p)
      /\ new.channel = p.channel /\ new.sequence = p.sequence
  <2>1. AckKind(p) \in {"tx_executed", "ERR_EXEC_FAILURE", "ERR_PACKET_TIMEOUT"}
    BY Zenon DEF AckKind
  <2> QED
    BY <2>1, AnswerTyped, Zenon
<1>4. AnswerTo(new, p)'
  BY <1>1, <1>3, Zenon DEF AnswerTo, AckKind
<1>5. OnChannels' /\ Sent'
  BY <1>1, SentKept, ChannelsUnchanged, Zenon DEF Exchange, IcaTypeOK
<1>6. Answered'
  <2>1. CASE answers' = answers
    BY <1>1, <2>1, AnsweredKept, Zenon DEF Exchange
  <2>2. CASE answers' = answers \cup {new}
    BY <1>1, <1>4, <2>2, AnsweredGrows, Zenon
  <2> QED
    BY <1>2, <2>1, <2>2, Zenon
<1>7. answers' \in SUBSET Answers
  BY <1>2, <1>3, Zenon DEF Exchange, IcaTypeOK
<1>8. IcaTypeOK'
  BY <1>1, <1>7, Zenon DEF Exchange, IcaTypeOK
<1> QED
  BY <1>2, <1>5, <1>6, <1>8, SMTT(30) DEF Exchange

(* A packet that times out is not received any more. *)
LEMMA TimeoutExchange ==
    ASSUME TypeOK, Exchange, NEW p \in packets, HandleTimeout(p)
    PROVE  Exchange'
<1> DEFINE ch == p.channel
           c == [channels[ch] EXCEPT !.state = "CLOSED"]
<1> PICK new : new = Answer(p, "ERR_PACKET_TIMEOUT")
  BY Zenon
<1>1. /\ <<p.channel, p.sequence>> \in commitments
      /\ p.host = "unreceived" /\ remoteTime >= p.timeout
      /\ commitments' = commitments \ {<<p.channel, p.sequence>>}
      /\ channels' = [channels EXCEPT ![ch] = c]
      /\ answers' = answers \cup {new}
      /\ UNCHANGED <<maxMessages, active, packets, remoteTime, responses>>
  BY SMTT(30) DEF HandleTimeout, TimedOut
<1>2. channels \in Seq(Channels) /\ ch \in 1..Len(channels) /\ channels[ch] \in Channels
  BY SenderIsContract, ZenonT(30) DEF Exchange, IcaTypeOK
<1>3. /\ c \in Channels /\ c.owner = channels[ch].owner /\ c.next >= channels[ch].next
      /\ (channels[ch].state # "INIT" => c.state # "INIT")
  BY <1>2, SMTT(30) DEF Channels
<1>4. /\ new \in Answers /\ new.kind = "ERR_PACKET_TIMEOUT"
      /\ new.channel = p.channel /\ new.sequence = p.sequence
  BY AnswerTyped, ZenonT(30)
<1> HIDE DEF c, ch
<1>5. ChannelsKept
  BY <1>1, <1>2, <1>3, ChannelUpdated, ZenonT(30)
<1>6. OnChannels' /\ Sent'
  BY <1>1, <1>5, SentKept, Zenon DEF Exchange
<1>7. AnswerTo(new, p)'
  BY <1>1, <1>4, ZenonT(30) DEF AnswerTo
<1>8. Answered'
  BY <1>1, <1>7, AnsweredGrows, Zenon
<1>9. answers' \in SUBSET Answers
  BY <1>1, <1>4, Zenon DEF Exchange, IcaTypeOK
<1>10. IcaTypeOK'
  BY <1>1, <1>5, <1>9, ActiveKept, ZenonT(30) DEF Exchange, IcaTypeOK, ChannelsKept
<1> QED
  BY <1>6, <1>8, <1>10, Zenon DEF Exchange
-----------------------------------------------------------------------------
(* The number of requests keeps to its bound. *)
LEMMA NextBounded == IcaInv /\ [IcaNext]_icaAllVars => Bounded'
<1> SUFFICES ASSUME IcaInv, [IcaNext]_icaAllVars PROVE Bounded'
  BY Zenon
<1>1. CASE responses' = responses
  BY <1>1, Zenon DEF IcaInv, Bounded
<1>2. ASSUME NEW contract \in Contracts, NEW connection \in Connections,
             NEW n \in MsgCounts, NEW t \in Timeouts, SendTx(contract, connection, n, t)
      PROVE  Bounded'
  <2>1. PICK res : responses' = Append(responses, res)
    BY <1>2, Zenon DEF SendTx
  <2>2. Len(responses') = Len(responses) + 1
    BY <2>1 DEF IcaInv, Exchange, IcaTypeOK
  <2> QED
    BY <1>2, <2>2, Zenon DEF SendTx, Bounded
<1> QED
  BY <1>1, <1>2, ZenonT(30)
     DEF IcaNext, RegisterInterchainAccount, HandleChanOpenAck, IcaUpdateParams,
     HostReceives, HostBlock, HandleAcknowledgement, HandleTimeout, icaAllVars, icaVars

(* A failure that is passed on is a new error for the sender. *)
LEMMA FailureReported ==
    ASSUME IInv, Exchange, Reported, NEW p \in packets,
           NEW kind \in {"ERR_EXEC_FAILURE", "ERR_PACKET_TIMEOUT"},
           SetError(channels[p.channel].owner[1]),
           answers' = answers \cup {Answer(p, kind)}
    PROVE  Reported'
<1>1. TypeOK /\ IcaTypeOK /\ OnChannels
  BY Zenon DEF IInv, Exchange
<1>2. /\ Answer(p, kind) \in Answers /\ Answer(p, kind).failure = errorID
      /\ Answer(p, kind).contract = channels[p.channel].owner[1]
  BY <1>1, AnswerTyped, Zenon
<1>3. channels[p.channel].owner[1] \in Contracts
  BY <1>1, SenderIsContract, Zenon
<1> QED
  BY <1>1, <1>2, <1>3, ReportedGrows, Zenon

(* An acknowledgement of a failure is a new error for the sender. *)
LEMMA AcknowledgementReported ==
    ASSUME IInv, Exchange, Reported, NEW p \in packets, NEW taken \in BOOLEAN,
           HandleAcknowledgement(p, taken)
    PROVE  Reported'
<1>1. CASE p.host = "executed"
  <2>1. UNCHANGED <<errorID, announced, sudoErrors>>
    BY <1>1, Zenon DEF HandleAcknowledgement, vars, errorVars
  <2>2. Answer(p, "tx_executed").kind = "tx_executed"
    BY Zenon DEF Answer
  <2>3. Failed' = Failed
    BY <1>1, <2>2, Zenon DEF HandleAcknowledgement, Failed
  <2> QED
    BY <2>1, <2>3, Zenon DEF Reported
<1>2. CASE p.host # "executed"
  <2>1. /\ SetError(channels[p.channel].owner[1])
        /\ answers' = answers \cup {Answer(p, "ERR_EXEC_FAILURE")}
    BY <1>2, Zenon DEF HandleAcknowledgement
  <2> QED
    BY <2>1, FailureReported, Zenon
<1> QED
  BY <1>1, <1>2, Zenon

(* Every step keeps the invariant. *)
LEMMA NextIcaInv == IcaInv /\ [IcaNext]_icaAllVars => IcaInv'
<1> SUFFICES ASSUME IcaInv, [IcaNext]_icaAllVars PROVE IcaInv'
  BY Zenon
<1>1. TypeOK /\ IInv /\ Exchange /\ Reported /\ IcaTypeOK /\ OnChannels
  BY Zenon DEF IcaInv, IInv, Exchange
<1>2. [Next]_vars /\ IInv' /\ Bounded'
  BY <1>1, IcaStepIsStep, NextIInv, NextBounded, Zenon
<1>3. CASE answers' = answers /\ Exchange'
  BY <1>1, <1>2, <1>3, ReportedKept, Zenon DEF IcaInv
<1>4. ASSUME NEW contract \in Contracts, NEW connection \in Connections,
             RegisterInterchainAccount(contract, connection)
      PROVE  IcaInv'
  BY <1>1, <1>3, <1>4, RegisterExchange, Zenon DEF RegisterInterchainAccount
<1>5. ASSUME NEW ch \in 1..Len(channels), HandleChanOpenAck(ch) PROVE IcaInv'
  BY <1>1, <1>3, <1>5, OpenAckExchange, ZenonT(30) DEF HandleChanOpenAck
<1>6. ASSUME NEW contract \in Contracts, NEW connection \in Connections,
             NEW n \in MsgCounts, NEW t \in Timeouts, SendTx(contract, connection, n, t)
      PROVE  IcaInv'
  <2>1. PICK ch, new, res : SendTxStep(ch, new, res)
    BY <1>1, <1>6, SendTxSteps, Zenon
  <2>2. Exchange' /\ answers' = answers
    BY <1>1, <2>1, SendTxExchange, Zenon DEF SendTxStep
  <2> QED
    BY <1>3, <2>2, Zenon
<1>7. ASSUME NEW max \in MaxMessageSets, IcaUpdateParams(max) PROVE IcaInv'
  BY <1>1, <1>3, <1>7, UpdateExchange, Zenon DEF IcaUpdateParams
<1>8. ASSUME NEW p \in packets, NEW result \in {"executed", "rejected"},
             HostReceives(p, result)
      PROVE  IcaInv'
  <2>1. PICK new : HostStep(p, new)
    BY <1>1, <1>8, HostReceivesSteps, Zenon
  <2>2. Exchange' /\ answers' = answers
    BY <1>1, <2>1, HostReceivesExchange, Zenon DEF HostStep
  <2> QED
    BY <1>3, <2>2, Zenon
<1>9. CASE HostBlock
  BY <1>1, <1>3, <1>9, HostBlockExchange, Zenon DEF HostBlock
<1>10. ASSUME NEW p \in packets, NEW taken \in BOOLEAN, HandleAcknowledgement(p, taken)
       PROVE  IcaInv'
  BY <1>1, <1>2, <1>10, AcknowledgementExchange, AcknowledgementReported, Zenon DEF IcaInv
<1>11. ASSUME NEW p \in packets, HandleTimeout(p) PROVE IcaInv'
  <2>1. Reported'
    BY <1>1, <1>11, FailureReported, Zenon DEF HandleTimeout
  <2> QED
    BY <1>1, <1>2, <1>11, <2>1, TimeoutExchange, Zenon DEF IcaInv
<1>12. CASE UNCHANGED icaVars
  <2>1. answers' = answers
    BY <1>12, Zenon DEF icaVars
  <2> QED
    BY <1>1, <1>3, <1>12, <2>1, IcaUnchanged, Zenon
<1>13. CASE UNCHANGED icaAllVars
  BY <1>12, <1>13, Zenon DEF icaAllVars
<1> QED
  BY <1>4, <1>5, <1>6, <1>7, <1>8, <1>9, <1>10, <1>11, <1>12, <1>13, Zenon DEF IcaNext

(* The inductive invariant: requests, packets and answers correspond, and  *)
(* each failure passed on is one of x/cwerrors' failures.                  *)
THEOREM IcaInductive == IcaSpec => []IcaInv
BY InitIcaInv, NextIcaInv, PTL DEF IcaSpec

(* Active channels are their owner's and past the handshake, and only sent *)
(* packets await an answer.                                                *)
THEOREM IcaTypeCorrect == IcaSpec => []IcaTypeOK
<1>1. IcaInv => IcaTypeOK
  BY Zenon DEF IcaInv, Exchange
<1> QED
  BY <1>1, IcaInductive, PTL

(* x/cwica uses x/cwerrors as its specification allows, so everything      *)
(* proved of x/cwerrors holds with x/cwica on top of it.                   *)
LEMMA IcaUsesCwErrors == IcaSpec => Spec
<1>1. IcaInit => Init
  BY Zenon DEF IcaInit
<1> QED
  BY <1>1, IcaStepIsStep, IcaInductive, PTL DEF IcaSpec, Spec

(* The invariant implies that every failure is reported. *)
LEMMA InvReported == IcaInv => EveryFailureReported
<1> SUFFICES ASSUME IcaInv, NEW a \in Failed
             PROVE  /\ a.failure \in told \/ Waiting(a.failure) \/ Announced(a.failure)
                    /\ \A e \in errors \cup sudoErrors :
                           e.failure = a.failure => e.contract = a.contract
                    /\ \A b \in Failed : b.failure = a.failure => b = a
  BY SMTT(30) DEF EveryFailureReported
<1>1. a.failure \in 0..(errorID - 1)
  BY DEF IcaInv, Exchange, IcaTypeOK, Failed, Answers, Reported, IInv, TypeOK
<1>2. a.failure \in told \/ Waiting(a.failure) \/ Announced(a.failure)
  BY <1>1, Zenon DEF IcaInv, IInv, OneFate
<1>3. ASSUME NEW e \in errors, e.failure = a.failure PROVE e.contract = a.contract
  <2>1. PICK n \in announced : e = [id |-> n.id, contract |-> n.contract, failure |-> n.failure]
    BY Zenon DEF IcaInv, IInv, Stored, Live
  <2>2. e.failure = n.failure /\ e.contract = n.contract
    BY <2>1, Zenon
  <2> QED
    BY <1>3, <2>2, ZenonT(30) DEF IcaInv, Reported
<1> QED
  BY <1>2, <1>3, Zenon DEF IcaInv, Reported

(* No failure of a remote transaction is lost or made out to the wrong     *)
(* contract on its way through x/cwerrors.                                 *)
THEOREM FailuresReported == IcaSpec => []EveryFailureReported
BY InvReported, IcaInductive, PTL

-----------------------------------------------------------------------------
(* x/cwica implements Requests: what a contract learns of a remote         *)
(* transaction is what happened to it, at most once.                       *)

(* What is in 1..n is not above n. *)
LEMMA NotAbove ==
    ASSUME NEW n \in Nat, NEW i \in 1..n
    PROVE  ~(i > n)
OBVIOUS

(* Steps that leave packets, clock and requests leave outcomes. *)
LEMMA OutcomeUnchanged ==
    ASSUME UNCHANGED <<packets, remoteTime, responses>>, NEW r
    PROVE  Outcome(r)' = Outcome(r)
BY SMTT(30) DEF Outcome

(* The outcome of a request is read off its packets. *)
LEMMA OutcomeByPackets ==
    ASSUME NEW r, r > Len(responses') <=> r > Len(responses), remoteTime' = remoteTime,
           {q \in packets' : q.request = r} = {q \in packets : q.request = r}
    PROVE  Outcome(r)' = Outcome(r)
<1>1. \A q : q \in packets' /\ q.request = r <=> q \in packets /\ q.request = r
  BY Zenon
<1> QED
  BY <1>1, Zenon DEF Outcome

(* Steps that leave answers and responses leave what is known. *)
LEMMA KnownUnchanged ==
    ASSUME UNCHANGED <<answers, responses>>, NEW r
    PROVE  Known(r)' = Known(r)
BY Zenon DEF Known, Matching

(* A packet is the only one of its request. *)
LEMMA OnePacket ==
    ASSUME Sent, NEW p \in packets, NEW q \in packets, p.request = q.request
    PROVE  p = q
BY DEF Sent

(* The outcome of a request is that of its packet. *)
LEMMA OutcomeOf ==
    ASSUME Exchange, NEW p \in packets
    PROVE  /\ p.request \in 1..Len(responses)
           /\ Outcome(p.request) = IF p.host = "executed" THEN "executed"
                                   ELSE IF p.host = "rejected" \/ remoteTime >= p.timeout
                                        THEN "failed" ELSE "pending"
<1>1. p.request \in 1..Len(responses) /\ Len(responses) \in Nat
  BY SeqLen, Zenon DEF Exchange, Sent, IcaTypeOK
<1>2. \A q \in packets : q.request = p.request => q = p
  BY OnePacket, Zenon DEF Exchange
<1>3. ~(p.request > Len(responses))
  BY <1>1
<1> QED
  BY <1>1, <1>2, <1>3, SMTT(30) DEF Outcome

(* Initial states map to initial states of Requests. *)
LEMMA InitRequests == IcaInit => R!Init
<1> SUFFICES ASSUME IcaInit PROVE R!Init
  BY Zenon
<1>1. Len(responses) = 0
  BY SeqEmpty, Zenon DEF IcaInit
<1>2. \A r \in 1..MaxRequests : Outcome(r) = "none" /\ Known(r) = "nothing"
  BY <1>1 DEF Outcome, Known
<1> QED
  BY <1>2, Zenon DEF R!Init, R!Ids

(* A tick of the host's clock makes pending requests fail. *)
LEMMA HostBlockSettles ==
    ASSUME Exchange, HostBlock
    PROVE  R!Settle
<1>1. /\ remoteTime' = remoteTime + 1 /\ remoteTime \in Nat
      /\ UNCHANGED <<packets, responses, answers>>
  BY Zenon DEF HostBlock, Exchange, IcaTypeOK
<1>2. \A p \in packets : p.timeout \in Nat
  BY Zenon DEF Exchange, IcaTypeOK, Packets
<1>3. ASSUME NEW r \in 1..MaxRequests
      PROVE  \/ Outcome(r)' = Outcome(r)
             \/ Outcome(r) = "pending" /\ Outcome(r)' = "failed"
  BY <1>1, <1>2 DEF Outcome
<1>4. \A r \in 1..MaxRequests : Known(r)' = Known(r)
  BY <1>1, KnownUnchanged, Zenon
<1> QED
  BY <1>3, <1>4, Zenon DEF R!Settle, R!Ids, R!Final

(* A packet that is received settles its request. *)
LEMMA HostReceivesSettles ==
    ASSUME Exchange, NEW p \in packets, NEW new, HostStep(p, new)
    PROVE  R!Settle
<1>1. /\ packets' = (packets \ {p}) \cup {new}
      /\ p.host = "unreceived" /\ remoteTime < p.timeout
      /\ new.request = p.request /\ new.host \in {"executed", "rejected"}
      /\ UNCHANGED <<remoteTime, responses, answers>>
  BY Zenon DEF HostStep
<1>2. remoteTime \in Nat /\ p.timeout \in Nat
  BY Zenon DEF Exchange, IcaTypeOK, Packets
<1>3. Outcome(p.request) = "pending" /\ p.request \in 1..Len(responses)
  BY <1>1, <1>2, OutcomeOf
<1>4. ASSUME NEW r \in 1..MaxRequests, r # p.request PROVE Outcome(r)' = Outcome(r)
  <2>1. {q \in packets' : q.request = r} = {q \in packets : q.request = r}
    BY <1>1, <1>4, Zenon
  <2> QED
    BY <1>1, <2>1, OutcomeByPackets, Zenon
<1>5. Outcome(p.request)' \in {"executed", "failed"}
  <2>1. new \in packets' /\ Len(responses) \in Nat
    BY <1>1, SeqLen, Zenon DEF Exchange, IcaTypeOK
  <2>2. ~(p.request > Len(responses))
    BY <1>3, <2>1, NotAbove, Zenon
  <2> QED
    BY <1>1, <2>1, <2>2, Zenon DEF Outcome
<1>6. \A r \in 1..MaxRequests : Known(r)' = Known(r)
  BY <1>1, KnownUnchanged, Zenon
<1> QED
  BY <1>3, <1>4, <1>5, <1>6, Zenon DEF R!Settle, R!Ids, R!Final

(* A new request leaves what became of the others. *)
LEMMA SendTxOutcomes ==
    ASSUME Exchange, NEW ch, NEW new, NEW res, SendTxStep(ch, new, res),
           NEW r \in Nat \ {0}, r # Len(responses) + 1
    PROVE  Outcome(r)' = Outcome(r) /\ Known(r)' = Known(r)
<1>1. /\ IcaTypeOK /\ packets' = packets \cup {new} /\ new.request # r
      /\ UNCHANGED <<remoteTime, answers>>
  BY Zenon DEF Exchange, SendTxStep
<1>2. /\ Len(responses) \in Nat /\ Len(responses') = Len(responses) + 1
      /\ \A i \in 1..Len(responses) : responses'[i] = responses[i]
  BY <1>1, SendTxResponses, Zenon
<1>3. r > Len(responses') <=> r > Len(responses)
  BY <1>2
<1>4. {q \in packets' : q.request = r} = {q \in packets : q.request = r}
  BY <1>1, Zenon
<1>5. Outcome(r)' = Outcome(r)
  BY <1>1, <1>3, <1>4, OutcomeByPackets, Zenon
<1>6. CASE r > Len(responses)
  BY <1>3, <1>5, <1>6, Zenon DEF Known
<1>7. CASE ~(r > Len(responses))
  <2>1. responses'[r] = responses[r]
    BY <1>2, <1>7
  <2>2. Matching(r)' = Matching(r)
    BY <1>1, <2>1, Zenon DEF Matching
  <2> QED
    BY <1>3, <1>5, <2>2, Zenon DEF Known
<1> QED
  BY <1>6, <1>7, Zenon

(* Nothing was known of the new request, and it has not been executed. *)
LEMMA SendTxUnknown ==
    ASSUME Exchange, NEW ch, NEW new, NEW res, SendTxStep(ch, new, res),
           NEW r0, r0 = Len(responses) + 1
    PROVE  /\ Outcome(r0) = "none" /\ Outcome(r0)' \in {"pending", "failed"}
           /\ Known(r0) = "nothing" /\ Known(r0)' = "nothing"
<1>1. /\ IcaTypeOK /\ packets' = packets \cup {new} /\ new.request = r0
      /\ new.host = "unreceived" /\ answers' = answers
      /\ res.channel = ch /\ res.sequence = new.sequence
  BY Zenon DEF Exchange, SendTxStep
<1>2. Len(responses) \in Nat /\ Len(responses') = r0 /\ responses'[r0] = res
  BY <1>1, SendTxResponses, Zenon
<1>3. Outcome(r0) = "none" /\ Known(r0) = "nothing"
  BY <1>2 DEF Outcome, Known
<1>4. Outcome(r0)' \in {"pending", "failed"}
  <2>1. \A p \in packets : p.request # r0
    BY <1>2 DEF Exchange, Sent
  <2> QED
    BY <1>1, <1>2, <2>1 DEF Outcome
<1>5. ASSUME NEW a \in answers PROVE ~(a.channel = ch /\ a.sequence = new.sequence)
  <2>1. PICK p \in packets : AnswerTo(a, p)
    BY Zenon DEF Exchange, Answered
  <2> QED
    BY <2>1, SendTxFresh, Zenon DEF AnswerTo
<1>6. Matching(r0)' = {}
  BY <1>1, <1>2, <1>5, Zenon DEF Matching
<1> QED
  BY <1>3, <1>4, <1>6, Zenon DEF Known

(* A request that is sent is submitted. *)
LEMMA SendTxSubmits ==
    ASSUME Exchange, NEW ch, NEW new, NEW res, SendTxStep(ch, new, res),
           Len(responses) + 1 <= MaxRequests
    PROVE  \E r \in R!Ids : R!Submit(r)
<1> PICK r0 : r0 = Len(responses) + 1
  BY Zenon
<1>1. r0 \in 1..MaxRequests
  BY SeqLen, CwIcaAssumptions DEF Exchange, IcaTypeOK
<1>2. \A r \in 1..MaxRequests : r # r0 => Outcome(r)' = Outcome(r) /\ Known(r)' = Known(r)
  BY SendTxOutcomes
<1>3. /\ Outcome(r0) = "none" /\ Outcome(r0)' \in {"pending", "failed"}
      /\ Known(r0)' = Known(r0)
  BY SendTxUnknown, Zenon
<1>4. [r \in 1..MaxRequests |-> Outcome(r)]'
          = [[r \in 1..MaxRequests |-> Outcome(r)] EXCEPT ![r0] = Outcome(r0)']
  BY <1>1, <1>2, Zenon
<1>5. [r \in 1..MaxRequests |-> Known(r)]' = [r \in 1..MaxRequests |-> Known(r)]
  BY <1>2, <1>3, Zenon
<1>6. R!Submit(r0)
  BY <1>1, <1>3, <1>4, <1>5, Zenon DEF R!Submit
<1> QED
  BY <1>1, <1>6, Zenon DEF R!Ids

(* An answer to a packet tells the contract of the packet's request, of no *)
(* other, and for the first time.                                          *)
LEMMA AnswerLearnt ==
    ASSUME Exchange, NEW p \in packets, <<p.channel, p.sequence>> \in commitments,
           NEW new, new.channel = p.channel, new.sequence = p.sequence,
           new.contract = channels[p.channel].owner[1],
           answers' = answers \cup {new}, UNCHANGED <<packets, remoteTime, responses>>,
           Outcome(p.request) = IF new.kind = "tx_executed" THEN "executed" ELSE "failed"
    PROVE  [r \in 1..MaxRequests |-> Known(r)]'
               = [[r \in 1..MaxRequests |-> Known(r)] EXCEPT ![p.request] = Outcome(p.request)]
           /\ Known(p.request) = "nothing"
<1>0. Len(responses) \in Nat
  BY SeqLen, Zenon DEF Exchange, IcaTypeOK
<1>1. /\ p.request \in 1..Len(responses) /\ Len(responses) \in Nat
      /\ responses[p.request].contract = new.contract
      /\ responses[p.request].channel = p.channel
      /\ responses[p.request].sequence = p.sequence
  BY <1>0, Zenon DEF Exchange, Sent
<1>2. ASSUME NEW a \in answers PROVE ~(a.channel = p.channel /\ a.sequence = p.sequence)
  <2>1. PICK q \in packets : AnswerTo(a, q)
    BY Zenon DEF Exchange, Answered
  <2> QED
    BY <2>1, Zenon DEF AnswerTo
<1>3. Matching(p.request) = {} /\ Matching(p.request)' = {new}
  <2>1. Matching(p.request) = {}
    BY <1>1, <1>2, Zenon DEF Matching
  <2>2. responses'[p.request] = responses[p.request]
    BY Zenon
  <2>3. \A a : a \in Matching(p.request)' <=> a = new
    BY <1>1, <1>2, <2>2, Zenon DEF Matching
  <2> QED
    BY <2>1, <2>3, Zenon
<1>4. ~(p.request > Len(responses))
  BY <1>1, NotAbove, Zenon
<1>5. Known(p.request) = "nothing" /\ Known(p.request)' = Outcome(p.request)
  BY <1>3, <1>4, Zenon DEF Known
<1>6. ASSUME NEW r \in 1..MaxRequests, r # p.request PROVE Known(r)' = Known(r)
  <2>1. CASE r > Len(responses)
    BY <2>1, Zenon DEF Known
  <2>2. CASE ~(r > Len(responses))
    <3>0. r \in 1..Len(responses)
      BY <1>0, <2>2, SMTT(30)
    <3>1. PICK q \in packets : q.request = r
      BY <3>0, Zenon DEF Exchange, Sent
    <3>2. responses[r].channel = q.channel /\ responses[r].sequence = q.sequence
      BY <3>1, Zenon DEF Exchange, Sent
    <3>3. ~(p.channel = q.channel /\ p.sequence = q.sequence)
      BY <1>6, <3>1, Zenon DEF Exchange, Sent
    <3>4. Matching(r)' = Matching(r)
      BY <3>2, <3>3, Zenon DEF Matching
    <3> QED
      BY <3>4, Zenon DEF Known
  <2> QED
    BY <2>1, <2>2, Zenon
<1> QED
  BY <1>5, <1>6, ZenonT(30)

(* A timeout tells of a failure. *)
LEMMA TimeoutLearns ==
    ASSUME TypeOK, Exchange, NEW p \in packets, HandleTimeout(p), Len(responses) <= MaxRequests
    PROVE  \E r \in R!Ids : R!Learn(r)
<1> PICK new : new = Answer(p, "ERR_PACKET_TIMEOUT")
  BY Zenon
<1>1. /\ <<p.channel, p.sequence>> \in commitments
      /\ p.host = "unreceived" /\ remoteTime >= p.timeout
      /\ answers' = answers \cup {new}
      /\ UNCHANGED <<packets, remoteTime, responses>>
  BY SMTT(30) DEF HandleTimeout, TimedOut
<1>2. /\ new.kind = "ERR_PACKET_TIMEOUT" /\ new.channel = p.channel
      /\ new.sequence = p.sequence /\ new.contract = channels[p.channel].owner[1]
  BY AnswerTyped, Zenon
<1>3. Outcome(p.request) = "failed" /\ p.request \in 1..Len(responses)
  BY <1>1, OutcomeOf, Zenon
<1>4. \A r \in 1..MaxRequests : Outcome(r)' = Outcome(r)
  BY <1>1, OutcomeUnchanged, Zenon
<1>5. p.request \in 1..MaxRequests
  <2>1. Len(responses) \in Nat
    BY SeqLen, Zenon DEF Exchange, IcaTypeOK
  <2> QED
    BY <1>3, <2>1, CwIcaAssumptions, SMTT(30)
<1>6. R!Learn(p.request)
  BY <1>1, <1>2, <1>3, <1>4, <1>5, AnswerLearnt, ZenonT(30) DEF R!Learn, R!Final
<1> QED
  BY <1>5, <1>6, Zenon DEF R!Ids

(* An acknowledgement tells of the outcome. *)
LEMMA AcknowledgementLearns ==
    ASSUME TypeOK, Exchange, NEW p \in packets, NEW taken \in BOOLEAN,
           HandleAcknowledgement(p, taken), answers' # answers, Len(responses) <= MaxRequests
    PROVE  \E r \in R!Ids : R!Learn(r)
<1> PICK new : new = Answer(p, AckKind(p))
  BY SMTT(30)
<1>1. /\ <<p.channel, p.sequence>> \in commitments
      /\ p.host \in {"executed", "rejected"}
      /\ UNCHANGED <<packets, remoteTime, responses>>
  BY Zenon DEF HandleAcknowledgement, Acknowledged
<1>2. answers' = answers \cup {new}
  BY AcknowledgementExchange, Zenon
<1>3. AckKind(p) \in {"tx_executed", "ERR_EXEC_FAILURE", "ERR_PACKET_TIMEOUT"}
  BY SMTT(30) DEF AckKind
<1>4. /\ new.kind = AckKind(p) /\ new.channel = p.channel
      /\ new.sequence = p.sequence /\ new.contract = channels[p.channel].owner[1]
  BY <1>3, AnswerTyped, Zenon
<1>5. /\ Outcome(p.request) = IF new.kind = "tx_executed" THEN "executed" ELSE "failed"
      /\ p.request \in 1..Len(responses)
  BY <1>1, <1>4, OutcomeOf, Zenon DEF AckKind
<1>6. \A r \in 1..MaxRequests : Outcome(r)' = Outcome(r)
  BY <1>1, OutcomeUnchanged, Zenon
<1>7. p.request \in 1..MaxRequests
  <2>1. Len(responses) \in Nat
    BY SeqLen, Zenon DEF Exchange, IcaTypeOK
  <2> QED
    BY <1>5, <2>1, CwIcaAssumptions, SMTT(30)
<1>8. R!Learn(p.request)
  BY <1>1, <1>2, <1>4, <1>5, <1>6, <1>7, AnswerLearnt, ZenonT(30) DEF R!Learn, R!Final
<1> QED
  BY <1>7, <1>8, Zenon DEF R!Ids

(* Every step maps to a step of Requests or a stutter. *)
LEMMA StepImplements == IcaInv /\ [IcaNext]_icaAllVars => [R!Next]_(R!vars)
<1> SUFFICES ASSUME IcaInv, [IcaNext]_icaAllVars PROVE [R!Next]_(R!vars)
  BY Zenon
<1>1. TypeOK /\ Exchange /\ Len(responses) <= MaxRequests
  BY Zenon DEF IcaInv, IInv, Bounded
<1>2. CASE UNCHANGED <<packets, remoteTime, responses, answers>>
  <2>1. \A r \in 1..MaxRequests : Outcome(r)' = Outcome(r) /\ Known(r)' = Known(r)
    BY <1>2, OutcomeUnchanged, KnownUnchanged, Zenon
  <2> QED
    BY <2>1, Zenon DEF R!vars
<1>3. ASSUME NEW contract \in Contracts, NEW connection \in Connections,
             NEW n \in MsgCounts, NEW t \in Timeouts, SendTx(contract, connection, n, t)
      PROVE  R!Next
  <2>1. PICK ch, new, res : SendTxStep(ch, new, res)
    BY <1>1, <1>3, SendTxSteps, Zenon
  <2>2. Len(responses) + 1 <= MaxRequests
    BY <1>3, Zenon DEF SendTx
  <2> QED
    BY <1>1, <2>1, <2>2, SendTxSubmits, Zenon DEF R!Next
<1>4. ASSUME NEW p \in packets, NEW result \in {"executed", "rejected"},
             HostReceives(p, result)
      PROVE  R!Next
  <2>1. PICK new : HostStep(p, new)
    BY <1>1, <1>4, HostReceivesSteps, Zenon
  <2> QED
    BY <1>1, <2>1, HostReceivesSettles, Zenon DEF R!Next
<1>5. CASE HostBlock
  BY <1>1, <1>5, HostBlockSettles, Zenon DEF R!Next
<1>6. ASSUME NEW p \in packets, NEW taken \in BOOLEAN, HandleAcknowledgement(p, taken)
      PROVE  [R!Next]_(R!vars)
  <2>1. CASE answers' = answers
    BY <1>2, <1>6, <2>1, Zenon DEF HandleAcknowledgement
  <2>2. CASE answers' # answers
    BY <1>1, <1>6, <2>2, AcknowledgementLearns, Zenon DEF R!Next
  <2> QED
    BY <2>1, <2>2, Zenon
<1>7. ASSUME NEW p \in packets, HandleTimeout(p) PROVE R!Next
  BY <1>1, <1>7, TimeoutLearns, Zenon DEF R!Next
<1>8. CASE UNCHANGED icaVars \/ UNCHANGED icaAllVars
  BY <1>2, <1>8, Zenon DEF icaVars, icaAllVars, ibcVars
<1> QED
  BY <1>2, <1>3, <1>4, <1>5, <1>6, <1>7, <1>8, ZenonT(30) DEF IcaNext, RegisterInterchainAccount,
     HandleChanOpenAck, IcaUpdateParams, ibcVars

(* x/cwica keeps its promise to contracts: each request is settled once,   *)
(* the contract learns of it at most once, and what it learns is what      *)
(* happened, over any number of connections, channels and requests.        *)
THEOREM RequestsImplemented == IcaSpec => ImplementsRequests
<1>1. IcaSpec => R!Spec
  BY InitRequests, StepImplements, IcaInductive, PTL DEF IcaSpec, R!Spec
<1> QED
  BY <1>1, Zenon DEF ImplementsRequests
=============================================================================
