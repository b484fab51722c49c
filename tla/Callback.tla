------------------------------ MODULE Callback ------------------------------
(***************************************************************************)
(* x/callback: a contract, its admin or its owner pays in advance to have  *)
(* the contract called at the end of a later block.  The fees wait in the  *)
(* module account; they leave it when the callback is cancelled or when    *)
(* the EndBlocker of its height has executed it.                           *)
(*                                                                         *)
(* A step is one message of a transaction or one stage of the EndBlocker.  *)
(* While a callback runs the contract may itself send messages; their      *)
(* effects live in a branch of the state that is kept when the callback    *)
(* succeeds and dropped when it fails (pkg.ExecuteWithGasLimit).           *)
(***************************************************************************)
EXTENDS Coins, FiniteSets, FiniteSetsExt

CONSTANTS
    Contracts,      \* addresses of the instantiated contracts
    Accounts,       \* every address that can sign, the contracts included
    Blocked,        \* the addresses x/bank lets nobody send to
    Authority,      \* contract -> its admin and its metadata owner
    Jobs,           \* job ids
    ParamSets,      \* module parameters governance may choose
    Prices,         \* gas prices, in units of 1/Scale
    Scale,          \* units in one coin: the precision of decimals
    Surpluses,      \* amounts paid on top of the expected fees
    InitialFunds,   \* account -> its balance at the start
    MaxHeight       \* bound: the last height the model reaches

VARIABLES
    height,     \* ctx.BlockHeight()
    phase,      \* what the node is executing, see Phases
    params,     \* Params
    gasPrice,   \* rewardsKeeper.ComputationalPriceOfGas
    callbacks,  \* Callbacks, as the code now executing sees it
    bank,       \* balances, as the code now executing sees them
    due,        \* callbacks the EndBlocker's iterator has still to yield
    running,    \* callback the EndBlocker is executing
    gasUsed,    \* gas charged for it
    saved,      \* callbacks and bank below the branch the contract writes to
    raised,     \* callbacks whose failure was handed to x/cwerrors in this block
    paidTwice   \* history: fees paid for callbacks that were no longer in the store

vars == <<height, phase, params, gasPrice, callbacks, bank, due, running,
          gasUsed, saved, raised, paidTwice>>

Module == "callback"
FeeCollector == "fee_collector"
Holders == Accounts \cup {Module, FeeCollector}

Params == [callbackGasLimit : Nat \ {0},
           maxBlockReservationLimit : Nat,
           maxFutureReservationLimit : Nat,
           blockReservationFeeMultiplier : Nat,
           futureReservationFeeMultiplier : Nat]

Callbacks == [height : Nat, contract : Contracts, job : Jobs,
              reservedBy : Accounts, maxGas : Nat,
              tx : Nat, block : Nat, future : Nat, surplus : Nat]

NoCallback == "none"
NoBranch == "none"

(* "deliver": transactions run; "endblock": the EndBlocker is between two  *)
(* callbacks; "sudo": a contract runs; "settle": it has returned and its   *)
(* fees are to be shared out.                                              *)
Phases == {"deliver", "endblock", "sudo", "settle"}

ASSUME CallbackAssumptions ==
    /\ Contracts \subseteq Accounts
    /\ Module \notin Accounts
    /\ FeeCollector \notin Accounts
    /\ Authority \in [Contracts -> SUBSET Accounts]
    /\ ParamSets \subseteq Params
    /\ Prices \subseteq Nat
    /\ Scale \in Nat \ {0}
    /\ Surpluses \subseteq Nat
    /\ InitialFunds \in [Accounts -> Nat]
    /\ MaxHeight \in Nat
-----------------------------------------------------------------------------
(* The store: a set of callbacks, one for each height, contract and job. *)

Key(c) == <<c.height, c.contract, c.job>>

Exists(k) == \E c \in callbacks : Key(c) = k

Removed(store, k) == {c \in store : Key(c) # k}

AtHeight(h) == {c \in callbacks : c.height = h}

IsAuthorizedToModify(contract, sender) ==
    /\ sender \notin Blocked
    /\ sender = contract \/ sender \in Authority[contract]

(* Fees. *)

CalculateTransactionFees(gas) == RoundInt(gasPrice * gas, Scale)

FutureReservationFees(h) ==
    RoundInt(params.futureReservationFeeMultiplier * (h - height), Scale)

BlockReservationFees(h) ==
    RoundInt(params.blockReservationFeeMultiplier * Cardinality(AtHeight(h)), Scale)

(* Mutant: the current height is accepted. *)
MayReserveNow(h) ==
    /\ h >= height
    /\ h <= height + params.maxFutureReservationLimit
    /\ Cardinality(AtHeight(h)) < params.maxBlockReservationLimit

MayReserve(h) ==
    /\ h > height
    /\ h <= height + params.maxFutureReservationLimit
    /\ Cardinality(AtHeight(h)) < params.maxBlockReservationLimit

TotalFees(c) == c.tx + c.block + c.future + c.surplus

(* Refunds to a blocked address go to the fee collector. *)
RefundFromCallbackModule(b, recipient, amount) ==
    SendCoins(b, Module, IF recipient \in Blocked THEN FeeCollector ELSE recipient, amount)

SendToFeeCollector(b, amount) == SendCoins(b, Module, FeeCollector, amount)
-----------------------------------------------------------------------------
Init ==
    /\ height = 1
    /\ phase = "deliver"
    /\ params \in ParamSets
    /\ gasPrice \in Prices
    /\ callbacks = {}
    /\ bank = [a \in Holders |-> IF a \in Accounts THEN InitialFunds[a] ELSE 0]
    /\ due = {}
    /\ running = NoCallback
    /\ gasUsed = 0
    /\ saved = NoBranch
    /\ raised = {}
    /\ paidTwice = 0

(* Messages are executed in transactions and, when a contract sends them,  *)
(* while its callback runs.                                                *)
MaySend(sender) ==
    \/ phase = "deliver"
    \/ phase = "sudo" /\ sender \in Contracts

NewCallback(sender, contract, job, h, extra) ==
    [height |-> h, contract |-> contract, job |-> job,
     reservedBy |-> sender, maxGas |-> params.callbackGasLimit,
     tx |-> CalculateTransactionFees(params.callbackGasLimit),
     block |-> BlockReservationFees(h),
     future |-> FutureReservationFees(h),
     surplus |-> extra]

SaveCallback(c) ==
    /\ IsAuthorizedToModify(c.contract, c.reservedBy)
    /\ ~Exists(Key(c))
    /\ callbacks' = Removed(callbacks, Key(c)) \cup {c}

(* Mutant: the expected fees are taken, the surplus only recorded. *)
RequestWithoutSurplus(sender, contract, job, h, extra) ==
    LET c == NewCallback(sender, contract, job, h, extra)
        expected == TotalFees(c) - extra
    IN  /\ MaySend(sender)
        /\ MayReserve(h)
        /\ SaveCallback(c)
        /\ bank[sender] >= expected
        /\ bank' = SendCoins(bank, sender, Module, expected)
        /\ UNCHANGED <<height, phase, params, gasPrice, due, running, gasUsed, saved, raised, paidTwice>>

RequestCallback(sender, contract, job, h, extra) ==
    LET c == NewCallback(sender, contract, job, h, extra)
    IN  /\ MaySend(sender)
        /\ MayReserve(h)
        /\ SaveCallback(c)
        /\ bank[sender] >= TotalFees(c)
        /\ bank' = SendCoins(bank, sender, Module, TotalFees(c))
        /\ UNCHANGED <<height, phase, params, gasPrice, due, running, gasUsed, saved, raised, paidTwice>>

DeleteCallback(sender, c) ==
    /\ IsAuthorizedToModify(c.contract, sender)
    /\ callbacks' = Removed(callbacks, Key(c))

(* Mutant: the reservation fees of a cancelled callback are not passed on. *)
CancelKeepingReservation(sender, c) ==
    LET refund == c.tx + c.surplus
    IN  /\ MaySend(sender)
        /\ DeleteCallback(sender, c)
        /\ bank[Module] >= refund
        /\ bank' = RefundFromCallbackModule(bank, sender, refund)
        /\ UNCHANGED <<height, phase, params, gasPrice, due, running, gasUsed, saved, raised, paidTwice>>

CancelCallback(sender, c) ==
    LET refund == c.tx + c.surplus
        reservation == c.block + c.future
    IN  /\ MaySend(sender)
        /\ DeleteCallback(sender, c)
        /\ bank[Module] >= refund + reservation
        /\ bank' = SendToFeeCollector(RefundFromCallbackModule(bank, sender, refund), reservation)
        /\ UNCHANGED <<height, phase, params, gasPrice, due, running, gasUsed, saved, raised, paidTwice>>

UpdateParams(p) ==
    /\ phase = "deliver"
    /\ params' = p
    /\ UNCHANGED <<height, phase, gasPrice, callbacks, bank, due, running, gasUsed, saved, raised, paidTwice>>
-----------------------------------------------------------------------------
(* The EndBlocker.  Its iterator yields the callbacks the store held when  *)
(* the iteration began.                                                    *)

(* Mutant: a block with more callbacks than the limit now allows is skipped. *)
EndBlockerLimited ==
    /\ phase = "deliver"
    /\ phase' = "endblock"
    /\ due' = IF Cardinality(AtHeight(height)) <= params.maxBlockReservationLimit
               THEN AtHeight(height) ELSE {}
    /\ UNCHANGED <<height, params, gasPrice, callbacks, bank, running, gasUsed, saved, raised, paidTwice>>

EndBlocker ==
    /\ phase = "deliver"
    /\ phase' = "endblock"
    /\ due' = AtHeight(height)
    /\ UNCHANGED <<height, params, gasPrice, callbacks, bank, running, gasUsed, saved, raised, paidTwice>>

ExecuteCallback(c) ==
    /\ phase = "endblock"
    /\ phase' = "sudo"
    /\ due' = due \ {c}
    /\ running' = c
    /\ saved' = [callbacks |-> callbacks, bank |-> bank]
    /\ UNCHANGED <<height, params, gasPrice, callbacks, bank, gasUsed, raised, paidTwice>>

CallbackSucceeds ==
    /\ phase = "sudo"
    /\ phase' = "settle"
    /\ gasUsed' \in 0..running.maxGas
    /\ saved' = NoBranch
    /\ UNCHANGED <<height, params, gasPrice, callbacks, bank, due, running, raised, paidTwice>>

(* Mutant: the store keeps what a failed callback wrote to it. *)
FailureKeepsStore ==
    /\ phase = "sudo"
    /\ phase' = "settle"
    /\ gasUsed' = running.maxGas
    /\ bank' = saved.bank
    /\ saved' = NoBranch
    /\ raised' = raised \cup {Key(running)}
    /\ UNCHANGED <<height, params, gasPrice, callbacks, due, running, paidTwice>>

CallbackFails ==
    /\ phase = "sudo"
    /\ phase' = "settle"
    /\ gasUsed' = running.maxGas
    /\ callbacks' = saved.callbacks
    /\ bank' = saved.bank
    /\ saved' = NoBranch
    /\ raised' = raised \cup {Key(running)}
    /\ UNCHANGED <<height, params, gasPrice, due, running, paidTwice>>

(* What is left of the transaction fees at the current gas price goes back *)
(* to the payer, everything else to the fee collector.                     *)
ConsumedFees ==
    LET consumed == CalculateTransactionFees(gasUsed)
    IN  IF consumed < running.tx THEN consumed ELSE running.tx

(* The iterator still yields a callback the running contract has cancelled, *)
(* and its fees are shared out again.                                      *)
SettledBefore == running \notin callbacks

(* A transfer the module account cannot cover makes the EndBlocker panic,  *)
(* and the chain takes no further step.                                    *)
CanSettle == bank[Module] >= TotalFees(running)

SettleCallback ==
    LET refund == running.tx - ConsumedFees
        reservation == running.block + running.future + running.surplus
    IN  /\ phase = "settle"
        /\ CanSettle
        /\ phase' = "endblock"
        /\ bank' = SendToFeeCollector(
                       RefundFromCallbackModule(bank, running.reservedBy, refund),
                       reservation + ConsumedFees)
        /\ callbacks' = Removed(callbacks, Key(running))
        /\ running' = NoCallback
        /\ gasUsed' = 0
        /\ paidTwice' = paidTwice + IF SettledBefore THEN TotalFees(running) ELSE 0
        /\ UNCHANGED <<height, params, gasPrice, due, saved, raised>>

Halted ==
    /\ phase = "settle"
    /\ ~CanSettle
    /\ UNCHANGED vars

(* The block is committed and the next one begins; x/mint may move the gas *)
(* price.                                                                  *)
NextBlock ==
    /\ phase = "endblock"
    /\ due = {}
    /\ height < MaxHeight
    /\ phase' = "deliver"
    /\ height' = height + 1
    /\ gasPrice' \in Prices
    /\ raised' = {}
    /\ UNCHANGED <<params, callbacks, bank, due, running, gasUsed, saved, paidTwice>>

(* The bound on heights: the model, not the chain, stops here. *)
AtBound ==
    /\ phase = "endblock"
    /\ due = {}
    /\ height = MaxHeight
    /\ UNCHANGED vars

Next ==
    \/ \E sender \in Accounts, contract \in Contracts, job \in Jobs,
          h \in 1..MaxHeight, extra \in Surpluses :
            RequestCallback(sender, contract, job, h, extra)
    \/ \E sender \in Accounts, c \in callbacks : CancelCallback(sender, c)
    \/ \E p \in ParamSets : UpdateParams(p)
    \/ EndBlocker
    \/ \E c \in due : ExecuteCallback(c)
    \/ CallbackSucceeds
    \/ CallbackFails
    \/ SettleCallback
    \/ Halted
    \/ NextBlock
    \/ AtBound

Spec == Init /\ [][Next]_vars

(* Blocks keep being produced and the EndBlocker runs to completion; no    *)
(* message is owed to anybody.                                             *)
Fairness ==
    /\ WF_vars(EndBlocker)
    /\ WF_vars(\E c \in due : ExecuteCallback(c))
    /\ WF_vars(CallbackSucceeds \/ CallbackFails)
    /\ WF_vars(SettleCallback)
    /\ WF_vars(NextBlock)

FairSpec == Spec /\ Fairness
-----------------------------------------------------------------------------
Executing == {"sudo", "settle"}

(* Type invariant: what every part of the module's state can hold, and     *)
(* when a callback is being executed and a branch is open.                 *)
TypeOK ==
    /\ height \in Nat
    /\ phase \in Phases
    /\ params \in Params
    /\ gasPrice \in Nat
    /\ callbacks \in SUBSET Callbacks
    /\ bank \in [Holders -> Nat]
    /\ due \in SUBSET Callbacks
    /\ IF phase \in Executing THEN running \in Callbacks ELSE running = NoCallback
    /\ gasUsed \in Nat
    /\ IF phase = "sudo" THEN saved \in [callbacks : SUBSET Callbacks, bank : [Holders -> Nat]]
                         ELSE saved = NoBranch
    /\ raised \in SUBSET (Nat \X Contracts \X Jobs)
    /\ paidTwice \in Nat

(* The module account holds exactly the fees of the callbacks still in the *)
(* store, less what was paid a second time for callbacks that a contract   *)
(* cancelled after the EndBlocker's iterator had read them: nothing else   *)
(* goes astray, and nothing is stuck.  While a contract runs this holds in *)
(* its branch and below it, whatever becomes of it.                        *)
EscrowBacked ==
    /\ bank[Module] + paidTwice = MapThenSumSet(TotalFees, callbacks)
    /\ phase = "sudo" =>
           saved.bank[Module] + paidTwice = MapThenSumSet(TotalFees, saved.callbacks)

(* The EndBlocker does not panic for lack of funds, whatever happened to   *)
(* gas price and parameters since the fees were taken, unless fees were    *)
(* paid twice or are just about to be.                                     *)
HaltsOnlyIfPaidTwice ==
    phase = "settle" /\ ~CanSettle => paidTwice > 0 \/ SettledBefore

Iterated == IF phase \in Executing THEN due \cup {running} ELSE due

(* What the iterator of the EndBlocker has read is not out of date in a    *)
(* way that touches anybody else: under the key of a callback it executes  *)
(* or has still to execute the store holds that callback or nothing, also  *)
(* when contracts cancel and reserve meanwhile.  So the removal after the  *)
(* execution never deletes another reservation.                            *)
IteratorCurrent == \A c \in callbacks, d \in Iterated : Key(c) = Key(d) => c = d

(* No reservation is left behind: every callback in the store is for this  *)
(* or a later block, and those of this block are what the EndBlocker has   *)
(* still to execute.                                                       *)
NoneStranded ==
    \A c \in callbacks :
        /\ c.height >= height
        /\ c.height = height /\ phase # "deliver" => c \in Iterated

(* The inductive strengthening of TypeOK, IteratorCurrent and              *)
(* NoneStranded: what they say of the store holds of the store below the   *)
(* branch too, and keys are unique.                                        *)
UniqueKeys(store) == \A c, d \in store : Key(c) = Key(d) => c = d

StoreOK(store) ==
    /\ IsFiniteSet(store)
    /\ UniqueKeys(store)
    /\ \A c \in store :
          /\ c.height >= height
          /\ c.height = height /\ phase # "deliver" => c \in Iterated

IInv ==
    /\ TypeOK
    /\ StoreOK(callbacks)
    /\ phase = "sudo" => StoreOK(saved.callbacks)
    /\ phase = "deliver" => due = {}
    /\ \A c \in Iterated : c.height = height
    /\ UniqueKeys(Iterated)
    /\ phase \in Executing => running \notin due

(* The escrow x/callback implements: a callback in the store is a deposit  *)
(* of its fees, the branch is the one its contract runs in.                *)
DepositOf(c) == [key |-> Key(c), amount |-> TotalFees(c)]

Ledger == INSTANCE Escrow WITH
    Payers <- Accounts,
    Vault <- Module,
    Collector <- FeeCollector,
    deposits <- {DepositOf(c) : c \in callbacks},
    branch <- IF phase = "sudo"
              THEN {[deposits |-> {DepositOf(c) : c \in saved.callbacks}, bank |-> saved.bank]}
              ELSE {}

(* Every step of the module is a step of the escrow, changes nothing in it *)
(* or pays for a second time: no callback is overwritten, fees leave the   *)
(* module account all of them and, that case apart, once, and what a       *)
(* contract does in its callback is kept or undone as a whole, in the      *)
(* store and in the bank.                                                  *)
ImplementsEscrow ==
    /\ Ledger!Init
    /\ [][Ledger!Next \/ paidTwice' > paidTwice]_(Ledger!vars)

(* Every reservation is eventually executed or cancelled, unless the chain *)
(* stops at a settlement the module account cannot cover.                  *)
EventuallyServed ==
    \A h \in 1..MaxHeight, contract \in Contracts, job \in Jobs :
        Exists(<<h, contract, job>>)
            ~> (~Exists(<<h, contract, job>>) \/ (phase = "settle" /\ ~CanSettle))

(* The module never pays back "more than it took from the user": what it   *)
(* holds covers the fees of every callback in the store.                   *)
NeverOverpays == bank[Module] >= MapThenSumSet(TotalFees, callbacks)
=============================================================================
