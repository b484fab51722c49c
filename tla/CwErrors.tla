------------------------------ MODULE CwErrors ------------------------------
(***************************************************************************)
(* x/cwerrors: the protocol tells a contract that something it did for the *)
(* contract failed.  An error is kept in the state for a while or, when    *)
(* the contract has a subscription, is queued in the transient store and   *)
(* handed to the contract at the end of the block; an error the contract   *)
(* cannot take is kept in the state after all.                             *)
(*                                                                         *)
(* An error is known by the identifier of the failure it is about: its     *)
(* module, code, payload and message play no part.                         *)
(***************************************************************************)
EXTENDS Coins

CONSTANTS
    Contracts,      \* addresses of the instantiated contracts
    Accounts,       \* every address that can sign, the contracts included
    Authority,      \* contract -> its admin and its metadata owner
    ParamSets,      \* module parameters governance may choose
    InitialFunds,   \* account -> its balance at the start
    MaxErrors,      \* bound: error identifiers given out
    MaxHeight,      \* bound: the last height with transactions
    LastHeight      \* bound: the last height, when all that was stored has expired

VARIABLES
    height,                 \* ctx.BlockHeight()
    phase,                  \* what the node is executing, see Phases
    params,                 \* Params
    bank,                   \* balances
    errorID,                \* ErrorID, the next identifier
    errors,                 \* Errors, a set of [id, contract, failure]
    contractErrors,         \* ContractErrors, a set of <<contract, id>>
    deletionBlocks,         \* DeletionBlocks, a set of <<height, id>>
    contractSubscriptions,  \* ContractSubscriptions, 0 where there is none
    subscriptionEndBlock,   \* SubscriptionEndBlock, a set of <<height, contract>>
    sudoErrors,             \* the transient store, a set of [id, contract, failure]
    pending,                \* those of them the EndBlocker's iterator has still to yield
    running,                \* the one being handed to its contract
    saved,                  \* what lies below the branch that contract writes to
    told,                   \* failures a contract has taken note of
    announced               \* storing events, a set of [id, contract, failure, until]

subscriptionVars == <<bank, contractSubscriptions, subscriptionEndBlock>>
errorVars == <<errors, contractErrors, deletionBlocks, announced>>
vars == <<height, phase, params, errorID, subscriptionVars, errorVars,
          sudoErrors, pending, running, saved, told>>

FeeCollector == "fee_collector"
Holders == Accounts \cup {FeeCollector}

Params == [errorStoredTime : Nat \ {0}, subscriptionFee : Nat, subscriptionPeriod : Nat \ {0}]
Errors == [id : Nat, contract : Contracts, failure : Nat]
Branches == [bank : [Holders -> Nat],
             contractSubscriptions : [Contracts -> Nat],
             subscriptionEndBlock : SUBSET (Nat \X Contracts)]

NoError == "none"
NoBranch == "none"

(* "deliver": transactions, and the EndBlockers before this module's;      *)
(* "endblock": queued errors are being handed out; "sudo": a contract runs *)
(* to take one; "pruned": the EndBlocker is done.                          *)
Phases == {"deliver", "endblock", "sudo", "pruned"}

ASSUME CwErrorsAssumptions ==
    /\ Contracts \subseteq Accounts
    /\ FeeCollector \notin Accounts
    /\ Authority \in [Contracts -> SUBSET Accounts]
    /\ ParamSets \subseteq Params
    /\ InitialFunds \in [Accounts -> Nat]
    /\ MaxErrors \in Nat /\ MaxHeight \in Nat /\ LastHeight \in Nat
-----------------------------------------------------------------------------
Init ==
    /\ height = 1
    /\ phase = "deliver"
    /\ params \in ParamSets
    /\ bank = [a \in Holders |-> IF a \in Accounts THEN InitialFunds[a] ELSE 0]
    /\ errorID = 0
    /\ errors = {} /\ contractErrors = {} /\ deletionBlocks = {}
    /\ contractSubscriptions = [c \in Contracts |-> 0]
    /\ subscriptionEndBlock = {}
    /\ sudoErrors = {} /\ pending = {}
    /\ running = NoError /\ saved = NoBranch
    /\ told = {} /\ announced = {}

HasSubscription(contract) == contractSubscriptions[contract] # 0

IsAuthorizedToSubscribe(contract, sender) ==
    sender = contract \/ sender \in Authority[contract]

(* Mutant: the storage time is taken for the deletion height. *)
StoredTimeOnly == params.errorStoredTime

DeletionHeight == height + params.errorStoredTime

StoreErrorInState(contract, failure) ==
    /\ errorID' = errorID + 1
    /\ contractErrors' = contractErrors \cup {<<contract, errorID>>}
    /\ deletionBlocks' = deletionBlocks \cup {<<DeletionHeight, errorID>>}
    /\ errors' = errors \cup {[id |-> errorID, contract |-> contract, failure |-> failure]}
    /\ announced' = announced \cup
           {[id |-> errorID, contract |-> contract, failure |-> failure,
             until |-> DeletionHeight]}

StoreErrorCallback(contract) ==
    /\ errorID' = errorID + 1
    /\ sudoErrors' = sudoErrors \cup
           {[id |-> errorID, contract |-> contract, failure |-> errorID]}

(* Called by x/cwica in transactions and by x/callback in its EndBlocker,  *)
(* which runs before this module's.                                        *)
SetError(contract) ==
    /\ phase = "deliver"
    /\ errorID < MaxErrors
    /\ height <= MaxHeight
    /\ \/ /\ HasSubscription(contract)
          /\ StoreErrorCallback(contract)
          /\ UNCHANGED errorVars
       \/ /\ ~HasSubscription(contract)
          /\ StoreErrorInState(contract, errorID)
          /\ UNCHANGED sudoErrors
    /\ UNCHANGED <<height, phase, params, subscriptionVars, pending, running, saved, told>>

(* Mutant: a renewal counts from the current height. *)
EndHeightFromNow(contract) == height + params.subscriptionPeriod

SubscriptionEndHeight(contract) ==
    LET end == contractSubscriptions[contract]
    IN  (IF end > height THEN end ELSE height) + params.subscriptionPeriod

(* Mutant: the entry of the old end block stays. *)
IndexKeepingEntry(contract, newEnd) == subscriptionEndBlock \cup {<<newEnd, contract>>}

RenewedIndex(contract, newEnd) ==
    (subscriptionEndBlock \ {<<contractSubscriptions[contract], contract>>})
        \cup {<<newEnd, contract>>}

PaySubscription(sender, fee) ==
    /\ bank[sender] >= fee
    /\ bank' = SendCoins(bank, sender, FeeCollector, fee)

SetSubscription(sender, contract) ==
    LET newEnd == SubscriptionEndHeight(contract)
    IN  /\ newEnd <= LastHeight
        /\ IsAuthorizedToSubscribe(contract, sender)
        /\ PaySubscription(sender, params.subscriptionFee)
        /\ subscriptionEndBlock' = RenewedIndex(contract, newEnd)
        /\ contractSubscriptions' = [contractSubscriptions EXCEPT ![contract] = newEnd]

(* A contract may also subscribe while it runs to take an error. *)
SubscribeToError(sender, contract) ==
    /\ phase = "deliver" \/ (phase = "sudo" /\ sender \in Contracts)
    /\ height <= MaxHeight
    /\ SetSubscription(sender, contract)
    /\ UNCHANGED <<height, phase, params, errorID, errorVars, sudoErrors, pending,
                   running, saved, told>>

UpdateParams(p) ==
    /\ phase = "deliver"
    /\ height <= MaxHeight
    /\ params' = p
    /\ UNCHANGED <<height, phase, errorID, subscriptionVars, errorVars, sudoErrors,
                   pending, running, saved, told>>
-----------------------------------------------------------------------------
(* The EndBlocker hands out the queued errors in the order of their        *)
(* identifiers, each in a branch of its own.                               *)

EndBlocker ==
    /\ phase = "deliver"
    /\ phase' = "endblock"
    /\ pending' = sudoErrors
    /\ UNCHANGED <<height, params, errorID, subscriptionVars, errorVars, sudoErrors,
                   running, saved, told>>

SudoErrorCallbackExec(e) ==
    /\ phase = "endblock"
    /\ \A f \in pending : e.id <= f.id
    /\ phase' = "sudo"
    /\ pending' = pending \ {e}
    /\ running' = e
    /\ saved' = [bank |-> bank,
                 contractSubscriptions |-> contractSubscriptions,
                 subscriptionEndBlock |-> subscriptionEndBlock]
    /\ UNCHANGED <<height, params, errorID, subscriptionVars, errorVars, sudoErrors, told>>

SudoSucceeds ==
    /\ phase = "sudo"
    /\ phase' = "endblock"
    /\ told' = told \cup {running.failure}
    /\ running' = NoError
    /\ saved' = NoBranch
    /\ UNCHANGED <<height, params, errorID, subscriptionVars, errorVars, sudoErrors, pending>>

DropBranch ==
    /\ bank' = saved.bank
    /\ contractSubscriptions' = saved.contractSubscriptions
    /\ subscriptionEndBlock' = saved.subscriptionEndBlock

(* Mutants: the error a contract did not take is dropped; a failure ends   *)
(* the iteration.                                                          *)
SudoFailureDropped ==
    /\ phase = "sudo"
    /\ phase' = "endblock"
    /\ DropBranch
    /\ running' = NoError
    /\ saved' = NoBranch
    /\ UNCHANGED <<height, params, errorID, errorVars, sudoErrors, pending, told>>

SudoFailureBreaks ==
    /\ phase = "sudo"
    /\ phase' = "endblock"
    /\ DropBranch
    /\ StoreErrorInState(running.contract, running.failure)
    /\ running' = NoError
    /\ saved' = NoBranch
    /\ pending' = {}
    /\ UNCHANGED <<height, params, sudoErrors, told>>

SudoFails ==
    /\ phase = "sudo"
    /\ phase' = "endblock"
    /\ DropBranch
    /\ StoreErrorInState(running.contract, running.failure)
    /\ running' = NoError
    /\ saved' = NoBranch
    /\ UNCHANGED <<height, params, sudoErrors, pending, told>>

(* Subscriptions that end in this block, through the index of end blocks. *)
PruneSubscriptionsEndBlock ==
    LET ending == {s \in subscriptionEndBlock : s[1] = height}
    IN  /\ contractSubscriptions' =
               [c \in Contracts |-> IF \E s \in ending : s[2] = c THEN 0
                                    ELSE contractSubscriptions[c]]
        /\ subscriptionEndBlock' = subscriptionEndBlock \ ending

(* Mutants: the index by contract is not cleaned; errors go a block early. *)
PruneWithoutIndex ==
    LET expired == {d \in deletionBlocks : d[1] = height}
        gone == {e \in errors : <<height, e.id>> \in expired}
    IN  /\ errors' = errors \ gone
        /\ deletionBlocks' = deletionBlocks \ expired
        /\ UNCHANGED contractErrors

PruneEarly ==
    LET expired == {d \in deletionBlocks : d[1] <= height + 1}
        gone == {e \in errors : \E d \in expired : d[2] = e.id}
    IN  /\ errors' = errors \ gone
        /\ contractErrors' = contractErrors \ {<<e.contract, e.id>> : e \in gone}
        /\ deletionBlocks' = deletionBlocks \ expired

(* Errors queued for deletion in this block, through the index of deletion *)
(* blocks; the contract is read from the error itself.                     *)
PruneErrorsCurrentBlock ==
    LET expired == {d \in deletionBlocks : d[1] = height}
        gone == {e \in errors : <<height, e.id>> \in expired}
    IN  /\ errors' = errors \ gone
        /\ contractErrors' = contractErrors \ {<<e.contract, e.id>> : e \in gone}
        /\ deletionBlocks' = deletionBlocks \ expired

EndBlockerPrunes ==
    /\ phase = "endblock"
    /\ pending = {}
    /\ phase' = "pruned"
    /\ PruneSubscriptionsEndBlock
    /\ PruneErrorsCurrentBlock
    /\ UNCHANGED <<height, params, bank, errorID, sudoErrors, pending, running, saved, told,
                   announced>>

(* The block is committed, which empties the transient store. *)
NextBlock ==
    /\ phase = "pruned"
    /\ height < LastHeight
    /\ phase' = "deliver"
    /\ height' = height + 1
    /\ sudoErrors' = {}
    /\ UNCHANGED <<params, errorID, subscriptionVars, errorVars, pending, running, saved, told>>

(* The bound on heights: the model, not the chain, stops here. *)
AtBound ==
    /\ phase = "pruned"
    /\ height = LastHeight
    /\ UNCHANGED vars

Next ==
    \/ \E contract \in Contracts : SetError(contract)
    \/ \E sender \in Accounts, contract \in Contracts : SubscribeToError(sender, contract)
    \/ \E p \in ParamSets : UpdateParams(p)
    \/ EndBlocker
    \/ \E e \in pending : SudoErrorCallbackExec(e)
    \/ SudoSucceeds
    \/ SudoFails
    \/ EndBlockerPrunes
    \/ NextBlock
    \/ AtBound

Spec == Init /\ [][Next]_vars

(* Blocks keep being produced and the EndBlocker runs to completion. *)
Fairness ==
    /\ WF_vars(EndBlocker)
    /\ WF_vars(\E e \in pending : SudoErrorCallbackExec(e))
    /\ WF_vars(SudoSucceeds \/ SudoFails)
    /\ WF_vars(EndBlockerPrunes)
    /\ WF_vars(NextBlock)

FairSpec == Spec /\ Fairness
-----------------------------------------------------------------------------
(* Type invariant: what every part of the module's state can hold, and     *)
(* when an error is being handed out.                                      *)
TypeOK ==
    /\ height \in Nat
    /\ phase \in Phases
    /\ params \in Params
    /\ bank \in [Holders -> Nat]
    /\ errorID \in Nat
    /\ errors \in SUBSET Errors
    /\ contractErrors \in SUBSET (Contracts \X Nat)
    /\ deletionBlocks \in SUBSET (Nat \X Nat)
    /\ contractSubscriptions \in [Contracts -> Nat]
    /\ subscriptionEndBlock \in SUBSET (Nat \X Contracts)
    /\ sudoErrors \in SUBSET Errors
    /\ pending \in SUBSET sudoErrors
    /\ IF phase = "sudo" THEN running \in sudoErrors ELSE running = NoError
    /\ IF phase = "sudo" THEN saved \in Branches ELSE saved = NoBranch
    /\ told \in SUBSET Nat
    /\ announced \in SUBSET [id : Nat, contract : Contracts, failure : Nat, until : Nat]

(* The three views of the stored errors agree: each has one entry in the   *)
(* index by contract and one, not in the past, in the index by deletion    *)
(* block.  The pruning EndBlocker therefore finds every error it looks up, *)
(* and so does the query by contract.                                      *)
IndexesAgree ==
    /\ contractErrors = {<<e.contract, e.id>> : e \in errors}
    /\ {d[2] : d \in deletionBlocks} = {e.id : e \in errors}
    /\ \A e, f \in errors : e.id = f.id => e = f
    /\ \A d, f \in deletionBlocks : d[2] = f[2] => d = f
    /\ \A d \in deletionBlocks : d[1] > height \/ (d[1] = height /\ phase # "pruned")

(* The index of end blocks is the inverse of the subscriptions, in the     *)
(* branch a contract writes to and below it, and no subscription has       *)
(* outlived its end: renewals leave no stale entry that would end a        *)
(* subscription early.                                                     *)
InverseIndex(subs, index) == index = {<<subs[c], c>> : c \in {d \in Contracts : subs[d] # 0}}

NoneOverdue(subs) ==
    \A c \in Contracts : subs[c] = 0 \/ subs[c] > height \/ (subs[c] = height /\ phase # "pruned")

SubscriptionsAgree ==
    /\ InverseIndex(contractSubscriptions, subscriptionEndBlock)
    /\ NoneOverdue(contractSubscriptions)
    /\ phase = "sudo" =>
           /\ InverseIndex(saved.contractSubscriptions, saved.subscriptionEndBlock)
           /\ NoneOverdue(saved.contractSubscriptions)

(* Errors queued for their contract and not yet handed out. *)
Queued == IF phase = "deliver" THEN sudoErrors
          ELSE IF phase = "sudo" THEN pending \cup {running} ELSE pending

Waiting(i) == \E e \in Queued : e.failure = i
Announced(i) == \E a \in announced : i \in {a.id, a.failure}

(* No failure is lost and none is reported twice: of every identifier      *)
(* given out, exactly one of these holds: its contract has taken the       *)
(* error, the error waits to be handed out in this block, or it was        *)
(* announced as stored (perhaps under a second identifier).                *)
OneFate ==
    \A i \in 0..(errorID - 1) :
        /\ i \in told \/ Waiting(i) \/ Announced(i)
        /\ ~(i \in told /\ Waiting(i))
        /\ ~(i \in told /\ Announced(i))
        /\ ~(Waiting(i) /\ Announced(i))

(* A stored error can be queried through its contract exactly until the    *)
(* deletion height that was announced for it, even if governance changes   *)
(* the storage time meanwhile.                                             *)
KeptAsAnnounced ==
    \A a \in announced :
        LET kept == /\ [id |-> a.id, contract |-> a.contract, failure |-> a.failure] \in errors
                    /\ <<a.contract, a.id>> \in contractErrors
        IN  kept <=> (a.until > height \/ (a.until = height /\ phase # "pruned"))

(* The inductive strengthening of the invariants above.  The stored errors *)
(* and both their indexes are the announced errors that are still to be    *)
(* kept, and identifiers are never given out twice.                        *)
Live == {a \in announced : a.until > height \/ (a.until = height /\ phase # "pruned")}

Stored ==
    /\ errors = {[id |-> a.id, contract |-> a.contract, failure |-> a.failure] : a \in Live}
    /\ contractErrors = {<<a.contract, a.id>> : a \in Live}
    /\ deletionBlocks = {<<a.until, a.id>> : a \in Live}
    /\ \A a, b \in announced : a.id = b.id => a = b

Numbered ==
    /\ \A a \in announced : a.id < errorID /\ a.failure < errorID
    /\ \A e \in sudoErrors : e.id < errorID /\ e.failure = e.id
    /\ \A e, f \in sudoErrors : e.id = f.id => e = f
    /\ \A i \in told : i < errorID
    /\ phase = "sudo" => running \notin pending
    /\ phase \in {"deliver", "pruned"} => pending = {}

(* In its branch a contract can only extend subscriptions. *)
BranchExtends ==
    phase = "sudo" =>
        \A c \in Contracts : contractSubscriptions[c] >= saved.contractSubscriptions[c]

IInv == TypeOK /\ Stored /\ Numbered /\ SubscriptionsAgree /\ BranchExtends /\ OneFate

(* A period that was paid for is not cut short: outside branches that are  *)
(* dropped, a subscription only ends in its end block or grows.            *)
Committed == IF phase = "sudo" THEN saved.contractSubscriptions ELSE contractSubscriptions

PaidPeriodKept ==
    [][\A c \in Contracts :
          Committed[c] > height \/ (Committed[c] = height /\ phase' # "pruned")
              => Committed'[c] >= Committed[c]]_vars

(* Every stored error is pruned eventually: failures do not make the state *)
(* grow forever.                                                           *)
EventuallyPruned ==
    \A i \in 0..(2 * MaxErrors) :
        (\E e \in errors : e.id = i) ~> (\A e \in errors : e.id # i)

(* Every queued error reaches its contract or the state. *)
EventuallyReported ==
    \A i \in 0..(2 * MaxErrors) :
        Waiting(i) ~> (i \in told \/ \E a \in announced : a.failure = i)
=============================================================================
