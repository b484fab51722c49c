--------------------------- MODULE CallbackProofs ---------------------------
(***************************************************************************)
(* Theorems about Callback, for every value of its constants.              *)
(***************************************************************************)
EXTENDS Callback, SumTheorems

(* LegacyDec.RoundInt of a non-negative decimal is a non-negative integer. *)
LEMMA RoundIntNat ==
    ASSUME NEW n \in Nat, NEW d \in Nat \ {0}
    PROVE  RoundInt(n, d) \in Nat
<1>1. n \div d \in Nat
  OBVIOUS
<1> QED
  BY <1>1 DEF RoundInt

(* A covered transfer leaves every balance a natural number. *)
LEMMA SendCoinsType ==
    ASSUME NEW S, NEW b \in [S -> Nat], NEW from \in S, NEW to \in S,
           NEW amount \in Nat, b[from] >= amount
    PROVE  SendCoins(b, from, to, amount) \in [S -> Nat]
BY DEF SendCoins

(* After a covered transfer the sender has that much less. *)
LEMMA SendCoinsLeaves ==
    ASSUME NEW S, NEW b \in [S -> Nat], NEW from \in S, NEW to \in S,
           NEW amount \in Nat, b[from] >= amount, from # to
    PROVE  SendCoins(b, from, to, amount)[from] = b[from] - amount
BY DEF SendCoins

(* A request that passes the checks of EstimateCallbackFees makes a        *)
(* well-formed callback.                                                   *)
LEMMA NewCallbackType ==
    ASSUME TypeOK, NEW sender \in Accounts, NEW contract \in Contracts, NEW job \in Jobs,
           NEW h \in 1..MaxHeight, h > height, NEW extra \in Surpluses,
           IsFiniteSet(callbacks)
    PROVE  NewCallback(sender, contract, job, h, extra) \in Callbacks
<1> USE CallbackAssumptions
<1>1. /\ params \in Params /\ gasPrice \in Nat /\ height \in Nat
      /\ h \in Nat /\ extra \in Nat /\ h - height \in Nat
  BY DEF TypeOK
<1>2. CalculateTransactionFees(params.callbackGasLimit) \in Nat
  <2>1. gasPrice * params.callbackGasLimit \in Nat
    BY <1>1 DEF Params
  <2> QED
    BY <2>1, RoundIntNat DEF CalculateTransactionFees
<1>3. FutureReservationFees(h) \in Nat
  <2>1. params.futureReservationFeeMultiplier * (h - height) \in Nat
    BY <1>1 DEF Params
  <2> QED
    BY <2>1, RoundIntNat DEF FutureReservationFees
<1>4. BlockReservationFees(h) \in Nat
  <2>0. Cardinality(AtHeight(h)) \in Nat
    <3>1. AtHeight(h) \subseteq callbacks
      BY DEF AtHeight
    <3> QED
      BY <3>1, FS_Subset, FS_CardinalityType
  <2>1. params.blockReservationFeeMultiplier * Cardinality(AtHeight(h)) \in Nat
    BY <1>1, <2>0 DEF Params
  <2> QED
    BY <2>1, RoundIntNat DEF BlockReservationFees
<1> QED
  BY <1>1, <1>2, <1>3, <1>4, Zenon DEF NewCallback, Callbacks, Params
-----------------------------------------------------------------------------
(* Removing a key, or saving a callback under a key, keeps a store finite. *)
LEMMA RemovedFinite ==
    ASSUME NEW store, IsFiniteSet(store), NEW k
    PROVE  IsFiniteSet(Removed(store, k))
BY FS_Subset DEF Removed

LEMMA InitIInv == Init => IInv
<1> SUFFICES ASSUME Init PROVE IInv
  OBVIOUS
<1> USE CallbackAssumptions DEF Init
<1>1. bank \in [Holders -> Nat]
  BY DEF Holders
<1>2. TypeOK
  BY <1>1, Zenon DEF TypeOK, Phases, Executing, Params
<1>3. IsFiniteSet(callbacks)
  BY FS_EmptySet
<1> QED
  BY <1>2, <1>3, Zenon DEF IInv, StoreOK, UniqueKeys, Iterated, Executing

LEMMA RequestIInv ==
    ASSUME IInv, NEW sender \in Accounts, NEW contract \in Contracts, NEW job \in Jobs,
           NEW h \in 1..MaxHeight, NEW extra \in Surpluses,
           RequestCallback(sender, contract, job, h, extra)
    PROVE  IInv'
<1> DEFINE c == NewCallback(sender, contract, job, h, extra)
<1>0. /\ TypeOK /\ StoreOK(callbacks) /\ IsFiniteSet(callbacks)
      /\ height \in Nat /\ h \in Nat /\ h > height
      /\ phase \in {"deliver", "sudo"}
      /\ UNCHANGED <<height, phase, params, gasPrice, due, running, gasUsed, saved, raised, paidTwice>>
  BY CallbackAssumptions DEF IInv, StoreOK, TypeOK, RequestCallback, MayReserve, MaySend
<1>1. c \in Callbacks /\ c.height = h
  BY <1>0, NewCallbackType, Zenon DEF NewCallback
<1>2. TotalFees(c) \in Nat /\ bank[sender] >= TotalFees(c)
  BY <1>1 DEF TotalFees, Callbacks, RequestCallback
<1>3. bank' \in [Holders -> Nat]
  BY <1>0, <1>2, SendCoinsType, ZenonT(30) DEF RequestCallback, TypeOK, Holders
<1>4. callbacks' = Removed(callbacks, Key(c)) \cup {c} /\ ~Exists(Key(c))
  BY Zenon DEF RequestCallback, SaveCallback
<1>5. callbacks' = callbacks \cup {c}
  BY <1>4 DEF Removed, Exists
<1>6. TypeOK'
  BY <1>0, <1>1, <1>3, <1>5, Zenon DEF TypeOK
<1>7. Iterated' = Iterated
  BY <1>0, Zenon DEF Iterated
<1>8. StoreOK(callbacks)'
  <2>1. IsFiniteSet(callbacks')
    BY <1>0, <1>5, FS_AddElement
  <2>2. \A d \in callbacks : Key(d) # Key(c)
    BY <1>4 DEF Exists
  <2> QED
    BY <1>0, <1>1, <1>5, <1>7, <2>1, <2>2 DEF StoreOK, UniqueKeys
<1> QED
  BY <1>0, <1>5, <1>6, <1>7, <1>8, Zenon DEF IInv, StoreOK, UniqueKeys

(* Paying a recipient and then the fee collector out of the module account *)
(* keeps every balance a natural number when the account covers both, and  *)
(* takes exactly both from the account.                                    *)
LEMMA PayoutType ==
    ASSUME NEW b \in [Holders -> Nat], NEW recipient \in Accounts,
           NEW refund \in Nat, NEW rest \in Nat, b[Module] >= refund + rest,
           NEW paid, paid = SendToFeeCollector(RefundFromCallbackModule(b, recipient, refund), rest)
    PROVE  /\ paid \in [Holders -> Nat]
           /\ paid[Module] = b[Module] - (refund + rest)
<1> DEFINE to == IF recipient \in Blocked THEN FeeCollector ELSE recipient
           b1 == SendCoins(b, Module, to, refund)
<1>1. to \in Holders /\ Module \in Holders /\ FeeCollector \in Holders /\ Module # to
  BY CallbackAssumptions DEF Holders, Module, FeeCollector
<1>2. b[Module] \in Nat
  BY <1>1
<1>3. b1 \in [Holders -> Nat] /\ b1[Module] = b[Module] - refund
  <2> HIDE DEF to, b1
  <2>1. b[Module] >= refund
    BY <1>2
  <2> QED
    BY <1>1, <2>1, SendCoinsType, SendCoinsLeaves DEF b1
<1>4. b1[Module] >= rest
  BY <1>2, <1>3
<1>5. paid = SendCoins(b1, Module, FeeCollector, rest)
  BY Zenon DEF SendToFeeCollector, RefundFromCallbackModule
<1>6. paid \in [Holders -> Nat] /\ paid[Module] = b1[Module] - rest
  <2>1. Module # FeeCollector
    BY DEF Module, FeeCollector
  <2> HIDE DEF to, b1
  <2> QED
    BY <1>1, <1>3, <1>4, <1>5, <2>1, SendCoinsType, SendCoinsLeaves
<1> QED
  BY <1>2, <1>3, <1>6

LEMMA CancelIInv ==
    ASSUME IInv, NEW sender \in Accounts, NEW c \in callbacks, CancelCallback(sender, c)
    PROVE  IInv'
<1>0. /\ TypeOK /\ StoreOK(callbacks) /\ IsFiniteSet(callbacks)
      /\ callbacks' = Removed(callbacks, Key(c))
      /\ phase \in {"deliver", "sudo"}
      /\ UNCHANGED <<height, phase, params, gasPrice, due, running, gasUsed, saved, raised, paidTwice>>
  BY Zenon DEF IInv, StoreOK, CancelCallback, DeleteCallback, MaySend
<1>1. c \in Callbacks
  BY <1>0, Zenon DEF TypeOK
<1>2. bank' \in [Holders -> Nat]
  <2>1. /\ c.tx + c.surplus \in Nat /\ c.block + c.future \in Nat
        /\ bank[Module] >= (c.tx + c.surplus) + (c.block + c.future)
    BY <1>1 DEF CancelCallback, Callbacks
  <2> QED
    BY <1>0, <2>1, PayoutType, Zenon DEF CancelCallback, TypeOK
<1>3. callbacks' \subseteq callbacks /\ IsFiniteSet(callbacks')
  BY <1>0, RemovedFinite, Zenon DEF Removed
<1>4. TypeOK'
  BY <1>0, <1>2, <1>3, Zenon DEF TypeOK
<1>5. Iterated' = Iterated
  BY <1>0, Zenon DEF Iterated
<1>6. StoreOK(callbacks)'
  BY <1>0, <1>3, <1>5, Zenon DEF StoreOK, UniqueKeys
<1> QED
  BY <1>0, <1>4, <1>5, <1>6, Zenon DEF IInv, StoreOK, UniqueKeys

LEMMA UpdateParamsIInv ==
    ASSUME IInv, NEW p \in ParamSets, UpdateParams(p)
    PROVE  IInv'
BY CallbackAssumptions, Zenon DEF IInv, UpdateParams, TypeOK, StoreOK, Iterated

LEMMA EndBlockerIInv == IInv /\ EndBlocker => IInv'
<1> SUFFICES ASSUME IInv, EndBlocker PROVE IInv'
  OBVIOUS
<1>1. /\ phase = "deliver" /\ phase' = "endblock"
      /\ due' = {c \in callbacks : c.height = height}
      /\ UNCHANGED <<height, params, gasPrice, callbacks, bank, running, gasUsed, saved, raised, paidTwice>>
  BY DEF EndBlocker, AtHeight
<1>2. TypeOK'
  BY <1>1 DEF IInv, TypeOK, Phases, Executing
<1>3. Iterated' = due'
  BY <1>1 DEF Iterated, Executing
<1>4. StoreOK(callbacks)' /\ UniqueKeys(due')
  BY <1>1, <1>3 DEF IInv, StoreOK, UniqueKeys
<1> QED
  BY <1>1, <1>2, <1>3, <1>4 DEF IInv, Executing, UniqueKeys

LEMMA ExecuteIInv ==
    ASSUME IInv, NEW c \in due, ExecuteCallback(c)
    PROVE  IInv'
<1>1. /\ phase = "endblock" /\ phase' = "sudo"
      /\ due' = due \ {c} /\ running' = c
      /\ saved' = [callbacks |-> callbacks, bank |-> bank]
      /\ UNCHANGED <<height, params, gasPrice, callbacks, bank, gasUsed, raised, paidTwice>>
  BY DEF ExecuteCallback
<1>2. TypeOK'
  BY <1>1, Zenon DEF IInv, TypeOK, Phases, Executing
<1>3. Iterated = due /\ Iterated' = due
  BY <1>1 DEF Iterated, Executing
<1>4. StoreOK(callbacks)' /\ StoreOK(saved.callbacks)'
  <2>1. phase # "deliver" /\ saved'.callbacks = callbacks
    BY <1>1
  <2> QED
    BY <1>1, <1>3, <2>1, Zenon DEF IInv, StoreOK, UniqueKeys
<1> QED
  BY <1>1, <1>2, <1>3, <1>4 DEF IInv, Executing, UniqueKeys

LEMMA SucceedsIInv == IInv /\ CallbackSucceeds => IInv'
<1> SUFFICES ASSUME IInv, CallbackSucceeds PROVE IInv'
  OBVIOUS
<1>1. /\ phase = "sudo" /\ phase' = "settle" /\ saved' = NoBranch
      /\ gasUsed' \in 0..running.maxGas
      /\ UNCHANGED <<height, params, gasPrice, callbacks, bank, due, running, raised, paidTwice>>
  BY DEF CallbackSucceeds
<1>2. TypeOK'
  BY <1>1 DEF IInv, TypeOK, Phases, Executing, Callbacks
<1>3. StoreOK(callbacks)' /\ Iterated' = Iterated
  BY <1>1 DEF IInv, StoreOK, UniqueKeys, Executing, Iterated
<1> QED
  BY <1>1, <1>2, <1>3 DEF IInv, Executing, UniqueKeys

LEMMA FailsIInv == IInv /\ CallbackFails => IInv'
<1> SUFFICES ASSUME IInv, CallbackFails PROVE IInv'
  OBVIOUS
<1>1. /\ phase = "sudo" /\ phase' = "settle" /\ saved' = NoBranch
      /\ callbacks' = saved.callbacks /\ bank' = saved.bank
      /\ gasUsed' = running.maxGas /\ raised' = raised \cup {Key(running)}
      /\ UNCHANGED <<height, params, gasPrice, due, running, paidTwice>>
  BY DEF CallbackFails
<1>2. running \in Callbacks
  BY <1>1 DEF IInv, TypeOK, Executing
<1>3. Key(running) \in Nat \X Contracts \X Jobs /\ running.maxGas \in Nat
  BY <1>2 DEF Key, Callbacks
<1>4. TypeOK'
  BY <1>1, <1>2, <1>3 DEF IInv, TypeOK, Phases, Executing
<1>5. StoreOK(callbacks)' /\ Iterated' = Iterated
  BY <1>1 DEF IInv, StoreOK, UniqueKeys, Executing, Iterated
<1> QED
  BY <1>1, <1>4, <1>5 DEF IInv, Executing, UniqueKeys

(* The part of the transaction fees that is kept is never more than what   *)
(* was paid, whatever the gas price has become.                            *)
LEMMA ConsumedFeesBounded ==
    ASSUME TypeOK, phase \in Executing
    PROVE  ConsumedFees \in 0..running.tx
<1>1. running \in Callbacks /\ gasPrice \in Nat /\ gasUsed \in Nat
  BY DEF TypeOK
<1>2. CalculateTransactionFees(gasUsed) \in Nat
  <2>1. gasPrice * gasUsed \in Nat
    BY <1>1
  <2> QED
    BY <2>1, RoundIntNat, CallbackAssumptions DEF CalculateTransactionFees
<1> QED
  BY <1>1, <1>2 DEF ConsumedFees, Callbacks

LEMMA SettleIInv == IInv /\ SettleCallback => IInv'
<1> SUFFICES ASSUME IInv, SettleCallback PROVE IInv'
  OBVIOUS
<1> DEFINE refund == running.tx - ConsumedFees
           rest == (running.block + running.future + running.surplus) + ConsumedFees
<1>1. /\ phase = "settle" /\ phase' = "endblock"
      /\ bank[Module] >= TotalFees(running)
      /\ bank' = SendToFeeCollector(
                     RefundFromCallbackModule(bank, running.reservedBy, refund), rest)
      /\ callbacks' = Removed(callbacks, Key(running))
      /\ running' = NoCallback /\ gasUsed' = 0
      /\ paidTwice' = paidTwice + IF SettledBefore THEN TotalFees(running) ELSE 0
      /\ UNCHANGED <<height, params, gasPrice, due, saved, raised>>
  BY DEF SettleCallback, CanSettle
<1>2. TypeOK /\ running \in Callbacks
  BY <1>1, Zenon DEF IInv, TypeOK, Executing
<1>3. refund \in Nat /\ rest \in Nat /\ refund + rest = TotalFees(running)
  BY <1>1, <1>2, ConsumedFeesBounded DEF Executing, Callbacks, TotalFees
<1>4. bank' \in [Holders -> Nat]
  <2>1. running.reservedBy \in Accounts /\ bank[Module] >= refund + rest
    BY <1>1, <1>2, <1>3 DEF Callbacks
  <2> HIDE DEF refund, rest
  <2> QED
    BY <1>1, <1>2, <1>3, <2>1, PayoutType, Zenon DEF TypeOK
<1>5. callbacks' \subseteq callbacks /\ IsFiniteSet(callbacks')
  <2>1. IsFiniteSet(callbacks)
    BY DEF IInv, StoreOK
  <2> QED
    BY <1>1, <2>1, RemovedFinite DEF Removed
<1>6. TypeOK'
  <2>1. paidTwice' \in Nat
    BY <1>1, <1>2, <1>3 DEF TypeOK
  <2> QED
    BY <1>1, <1>2, <1>4, <1>5, <2>1, Zenon DEF TypeOK, Phases, Executing
<1>7. Iterated' = due /\ Iterated = due \cup {running}
  BY <1>1 DEF Iterated, Executing
<1>8. StoreOK(callbacks)'
  <2>1. running \notin callbacks'
    BY <1>1 DEF Removed
  <2> QED
    BY <1>1, <1>5, <1>7, <2>1 DEF IInv, StoreOK, UniqueKeys
<1>9. UniqueKeys(Iterated)'
  BY <1>7 DEF IInv, UniqueKeys
<1> QED
  BY <1>1, <1>6, <1>7, <1>8, <1>9 DEF IInv, Executing

LEMMA NextBlockIInv == IInv /\ NextBlock => IInv'
<1> SUFFICES ASSUME IInv, NextBlock PROVE IInv'
  OBVIOUS
<1>1. /\ phase = "endblock" /\ phase' = "deliver" /\ due = {}
      /\ height' = height + 1 /\ gasPrice' \in Prices /\ raised' = {}
      /\ UNCHANGED <<params, callbacks, bank, due, running, gasUsed, saved, paidTwice>>
  BY DEF NextBlock
<1>2. height \in Nat /\ gasPrice' \in Nat
  BY <1>1, CallbackAssumptions DEF IInv, TypeOK
<1>3. TypeOK'
  BY <1>1, <1>2 DEF IInv, TypeOK, Phases, Executing
<1>4. \A c \in callbacks : c.height \in Nat /\ c.height >= height /\ c.height # height
  BY <1>1 DEF IInv, StoreOK, TypeOK, Callbacks, Executing, Iterated
<1>5. StoreOK(callbacks)'
  BY <1>1, <1>2, <1>4 DEF IInv, StoreOK, UniqueKeys
<1> QED
  BY <1>1, <1>3, <1>5 DEF IInv, Executing, Iterated, UniqueKeys
-----------------------------------------------------------------------------
(* The inductive invariant: every step of the module keeps the store       *)
(* well-formed and in agreement with the EndBlocker's iterator, below the  *)
(* branch of a running contract too.                                       *)
THEOREM InductiveInvariant == Spec => []IInv
<1>1. IInv /\ [Next]_vars => IInv'
  <2> SUFFICES ASSUME IInv, [Next]_vars PROVE IInv'
    OBVIOUS
  <2>1. CASE UNCHANGED vars
    BY <2>1, Zenon DEF vars, IInv, TypeOK, StoreOK, UniqueKeys, Iterated
  <2>2. CASE AtBound \/ Halted
    BY <2>1, <2>2, Zenon DEF AtBound, Halted
  <2> QED
    BY <2>1, <2>2, RequestIInv, CancelIInv, UpdateParamsIInv, EndBlockerIInv, ExecuteIInv,
       SucceedsIInv, FailsIInv, SettleIInv, NextBlockIInv, Zenon DEF Next
<1> QED
  BY <1>1, InitIInv, PTL DEF Spec

(* The state of x/callback is always well-typed; in particular no balance  *)
(* becomes negative in a refund or in a transfer to the fee collector.     *)
THEOREM TypeCorrect == Spec => []TypeOK
<1>1. IInv => TypeOK
  BY DEF IInv
<1> QED
  BY <1>1, InductiveInvariant, PTL

(* No reservation is left behind in the store when its block has passed,   *)
(* even when running contracts cancel callbacks of the same block.         *)
THEOREM NothingStranded == Spec => []NoneStranded
<1>1. IInv => NoneStranded
  BY DEF IInv, StoreOK, NoneStranded
<1> QED
  BY <1>1, InductiveInvariant, PTL

LEMMA CurrentHere == IInv => IteratorCurrent
<1> SUFFICES ASSUME IInv, NEW c \in callbacks, NEW d \in Iterated, Key(c) = Key(d)
             PROVE  c = d
  BY DEF IteratorCurrent
<1>1. c.height = d.height /\ d.height = height
  BY DEF IInv, Key
<1>2. phase # "deliver"
  BY DEF IInv, Iterated, Executing
<1>3. c \in Iterated
  BY <1>1, <1>2 DEF IInv, StoreOK
<1> QED
  BY <1>3 DEF IInv, UniqueKeys

(* Whatever running contracts cancel and reserve, under the key of a       *)
(* callback the EndBlocker's iterator has read the store holds that        *)
(* callback or nothing: no settlement deletes another reservation.         *)
THEOREM IteratorAgrees == Spec => []IteratorCurrent
BY InductiveInvariant, CurrentHere, PTL
-----------------------------------------------------------------------------
(* The fees of a callback as a function, and what is owed for a store. *)
FeesOf == [c \in Callbacks |-> TotalFees(c)]

Owed(store) == SumFunctionOnSet(FeesOf, store)

LEMMA FeesTyped ==
    ASSUME NEW c \in Callbacks
    PROVE  FeesOf[c] = TotalFees(c) /\ TotalFees(c) \in Nat
BY DEF FeesOf, TotalFees, Callbacks

(* The fold over TotalFees is the sum of the function. *)
LEMMA OwedIsSum ==
    ASSUME NEW store \in SUBSET Callbacks, IsFiniteSet(store)
    PROVE  MapThenSumSet(TotalFees, store) = Owed(store)
<1> DEFINE Is(g) == g = [s \in SUBSET store |->
                            IF s = {} THEN 0 ELSE TotalFees(One(s)) + g[s \ {One(s)}]]
           it == CHOOSE g : Is(g)
<1>1. ASSUME NEW g PROVE Is(g) <=> IsSum(FeesOf, store, g)
  <2>1. \A s \in SUBSET store : s # {} => FeesOf[One(s)] = TotalFees(One(s))
    BY OneIn, FeesTyped
  <2> QED
    BY <2>1 DEF IsSum
<1>2. PICK h : IsSum(FeesOf, store, h) /\ Owed(store) = h[store]
  BY SumFold DEF Owed
<1>3. IsSum(FeesOf, store, it)
  <2>1. Is(h)
    BY <1>1, <1>2, Zenon
  <2>2. Is(it)
    BY <2>1, Zenon
  <2> HIDE DEF Is, it
  <2> QED
    BY <1>1, <2>2
<1>4. MapThenSumSet(TotalFees, store) = it[store]
  BY DEF MapThenSumSet, MapThenFoldSet, One
<1> HIDE DEF it
<1>5. it[store] = h[store]
  BY <1>2, <1>3, SumUnique
<1> QED
  BY <1>2, <1>4, <1>5

(* What the account must hold for a new store and for a smaller one. *)
LEMMA OwedMore ==
    ASSUME NEW store \in SUBSET Callbacks, IsFiniteSet(store), NEW c \in Callbacks, c \notin store
    PROVE  Owed(store \cup {c}) = Owed(store) + TotalFees(c)
<1>1. FeesOf[c] \in Nat /\ \A d \in store : FeesOf[d] \in Nat
  BY FeesTyped
<1>2. SumFunctionOnSet(FeesOf, store \cup {c}) = SumFunctionOnSet(FeesOf, store) + FeesOf[c]
  BY <1>1, SumAdd, Zenon
<1> QED
  BY <1>2, FeesTyped DEF Owed

LEMMA OwedLess ==
    ASSUME NEW store \in SUBSET Callbacks, IsFiniteSet(store), NEW c \in store,
           \A d, e \in store : Key(d) = Key(e) => d = e
    PROVE  /\ Owed(store) \in Nat /\ TotalFees(c) \in Nat /\ TotalFees(c) <= Owed(store)
           /\ Owed(Removed(store, Key(c))) = Owed(store) - TotalFees(c)
<1>1. Removed(store, Key(c)) = store \ {c}
  BY DEF Removed
<1>2. \A d \in store : FeesOf[d] \in Nat
  BY FeesTyped
<1>3. /\ Owed(store) \in Nat /\ Owed(store \ {c}) \in Nat
      /\ Owed(store) = FeesOf[c] + Owed(store \ {c})
  BY <1>2, SumRemove DEF Owed
<1>4. FeesOf[c] = TotalFees(c) /\ TotalFees(c) \in Nat
  BY FeesTyped
<1> QED
  BY <1>1, <1>3, <1>4

(* EscrowBacked, with the sums as sums of a function. *)
Backs(b, store) == b[Module] + paidTwice = Owed(store)

Backed ==
    /\ Backs(bank, callbacks)
    /\ phase = "sudo" => Backs(saved.bank, saved.callbacks)

(* The stores are sets of callbacks, finite, with one for each key. *)
Keyed(store) ==
    /\ store \in SUBSET Callbacks /\ IsFiniteSet(store)
    /\ \A c, d \in store : Key(c) = Key(d) => c = d

LEMMA StoresKeyed ==
    ASSUME IInv
    PROVE  Keyed(callbacks) /\ (phase = "sudo" => Keyed(saved.callbacks))
BY DEF IInv, TypeOK, StoreOK, UniqueKeys, Keyed

LEMMA BackedIsEscrow == IInv => (EscrowBacked <=> Backed)
<1> SUFFICES ASSUME IInv PROVE EscrowBacked <=> Backed
  OBVIOUS
<1>1. MapThenSumSet(TotalFees, callbacks) = Owed(callbacks)
  BY StoresKeyed, OwedIsSum DEF Keyed
<1>2. phase = "sudo" => MapThenSumSet(TotalFees, saved.callbacks) = Owed(saved.callbacks)
  BY StoresKeyed, OwedIsSum DEF Keyed
<1> QED
  BY <1>1, <1>2, Zenon DEF EscrowBacked, Backed, Backs

LEMMA BankNat == IInv => bank[Module] \in Nat
BY DEF IInv, TypeOK, Holders

LEMMA RequestBacked ==
    ASSUME IInv, Backed, NEW sender \in Accounts, NEW contract \in Contracts, NEW job \in Jobs,
           NEW h \in 1..MaxHeight, NEW extra \in Surpluses,
           RequestCallback(sender, contract, job, h, extra)
    PROVE  Backed'
<1> DEFINE c == NewCallback(sender, contract, job, h, extra)
<1>1. /\ callbacks' = Removed(callbacks, Key(c)) \cup {c} /\ ~Exists(Key(c))
      /\ bank[sender] >= TotalFees(c)
      /\ bank' = SendCoins(bank, sender, Module, TotalFees(c))
      /\ UNCHANGED <<phase, saved, paidTwice>> /\ paidTwice \in Nat
  BY Zenon DEF RequestCallback, SaveCallback, IInv, TypeOK
<1>2. c \in Callbacks
  <2>1. TypeOK /\ IsFiniteSet(callbacks) /\ h > height
    BY Zenon DEF IInv, StoreOK, RequestCallback, MayReserve
  <2> QED
    BY <2>1, NewCallbackType
<1> HIDE DEF c
<1>3. callbacks' = callbacks \cup {c} /\ c \notin callbacks
  BY <1>1 DEF Removed, Exists
<1>4. Owed(callbacks') = Owed(callbacks) + TotalFees(c)
  BY <1>2, <1>3, StoresKeyed, OwedMore DEF Keyed
<1>5. bank'[Module] = bank[Module] + TotalFees(c)
  <2>1. bank \in [Holders -> Nat] /\ Module \in Holders /\ sender # Module
    BY CallbackAssumptions, Zenon DEF IInv, TypeOK, Holders
  <2> QED
    BY <1>1, <2>1 DEF SendCoins
<1>6. Backs(bank', callbacks')
  BY <1>1, <1>2, <1>4, <1>5, BankNat, FeesTyped DEF Backed, Backs
<1> QED
  BY <1>1, <1>6, Zenon DEF Backed, Backs, Owed

LEMMA CancelBacked ==
    ASSUME IInv, Backed, NEW sender \in Accounts, NEW c \in callbacks, CancelCallback(sender, c)
    PROVE  Backed'
<1> DEFINE refund == c.tx + c.surplus
           rest == c.block + c.future
<1>1. /\ callbacks' = Removed(callbacks, Key(c))
      /\ bank[Module] >= refund + rest
      /\ bank' = SendToFeeCollector(RefundFromCallbackModule(bank, sender, refund), rest)
      /\ UNCHANGED <<phase, saved, paidTwice>> /\ paidTwice \in Nat
  BY Zenon DEF CancelCallback, DeleteCallback, IInv, TypeOK
<1>2. bank \in [Holders -> Nat] /\ c \in Callbacks
  BY DEF IInv, TypeOK
<1>3. refund \in Nat /\ rest \in Nat /\ refund + rest = TotalFees(c)
  BY <1>2 DEF Callbacks, TotalFees
<1> HIDE DEF refund, rest
<1>4. bank'[Module] = bank[Module] - TotalFees(c)
  BY <1>1, <1>2, <1>3, PayoutType
<1>5. Owed(callbacks') = Owed(callbacks) - TotalFees(c)
  BY <1>1, StoresKeyed, OwedLess, Zenon DEF Keyed
<1>6. Backs(bank', callbacks')
  BY <1>1, <1>2, <1>4, <1>5, BankNat, FeesTyped DEF Backed, Backs
<1> QED
  BY <1>1, <1>6, Zenon DEF Backed, Backs, Owed

(* A callback that is no longer in the store has no other under its key. *)
LEMMA RemovedTwice ==
    ASSUME IInv, phase = "settle", running \notin callbacks
    PROVE  Removed(callbacks, Key(running)) = callbacks
<1>1. running \in Iterated
  BY DEF Iterated, Executing
<1> QED
  BY <1>1, CurrentHere, Zenon DEF IteratorCurrent, Removed

LEMMA SettleBacked ==
    ASSUME IInv, Backed, SettleCallback
    PROVE  Backed'
<1> DEFINE refund == running.tx - ConsumedFees
           rest == (running.block + running.future + running.surplus) + ConsumedFees
           again == IF SettledBefore THEN TotalFees(running) ELSE 0
<1>1. /\ phase = "settle" /\ phase' = "endblock"
      /\ bank[Module] >= TotalFees(running)
      /\ bank' = SendToFeeCollector(
                     RefundFromCallbackModule(bank, running.reservedBy, refund), rest)
      /\ callbacks' = Removed(callbacks, Key(running))
      /\ paidTwice' = paidTwice + again
  BY DEF SettleCallback, CanSettle
<1>2. /\ running \in Callbacks /\ TypeOK /\ paidTwice \in Nat
      /\ bank \in [Holders -> Nat] /\ running.reservedBy \in Accounts
  BY <1>1, Zenon DEF IInv, TypeOK, Executing, Callbacks
<1>3. refund \in Nat /\ rest \in Nat /\ refund + rest = TotalFees(running)
  BY <1>1, <1>2, ConsumedFeesBounded, SMTT(30) DEF Executing, Callbacks, TotalFees
<1> HIDE DEF refund, rest
<1>4. bank'[Module] = bank[Module] - TotalFees(running) /\ bank[Module] \in Nat
  <2>1. Module \in Holders
    BY DEF Holders
  <2> QED
    BY <1>1, <1>2, <1>3, <2>1, PayoutType
<1>5. bank'[Module] + paidTwice' = Owed(callbacks')
  <2>1. CASE running \in callbacks
    <3>1. Owed(callbacks') = Owed(callbacks) - TotalFees(running)
      BY <1>1, <2>1, StoresKeyed, OwedLess, Zenon DEF Keyed
    <3> QED
      BY <1>1, <1>2, <1>3, <1>4, <2>1, <3>1 DEF Backed, Backs, SettledBefore
  <2>2. CASE running \notin callbacks
    <3>1. callbacks' = callbacks
      BY <1>1, <2>2, RemovedTwice
    <3> QED
      BY <1>1, <1>2, <1>3, <1>4, <2>2, <3>1 DEF Backed, Backs, SettledBefore
  <2> QED
    BY <2>1, <2>2
<1> QED
  BY <1>1, <1>5, Zenon DEF Backed, Backs, Owed

LEMMA BackedStep ==
    ASSUME IInv, Backed, [Next]_vars
    PROVE  Backed'
<1>1. ASSUME NEW c \in due, ExecuteCallback(c) PROVE Backed'
  <2>1. /\ saved' = [callbacks |-> callbacks, bank |-> bank] /\ UNCHANGED <<callbacks, bank, paidTwice>>
    BY <1>1, Zenon DEF ExecuteCallback
  <2>2. saved'.callbacks = callbacks /\ saved'.bank = bank
    BY <2>1
  <2> QED
    BY <2>1, <2>2, Zenon DEF Backed, Backs, Owed
<1>2. CASE CallbackFails
  <2>1. /\ phase = "sudo" /\ phase' = "settle" /\ callbacks' = saved.callbacks /\ bank' = saved.bank
        /\ UNCHANGED paidTwice
    BY <1>2, Zenon DEF CallbackFails
  <2>2. phase' # "sudo"
    BY <2>1
  <2> QED
    BY <2>1, <2>2, Zenon DEF Backed, Backs, Owed
<1>3. CASE UNCHANGED <<callbacks, bank, saved, paidTwice>> /\ (phase' = "sudo" => phase = "sudo")
  BY <1>3, Zenon DEF Backed, Backs, Owed
<1>4. [Next]_vars =>
         \/ \E sender \in Accounts, contract \in Contracts, job \in Jobs,
               h \in 1..MaxHeight, extra \in Surpluses :
                 RequestCallback(sender, contract, job, h, extra)
         \/ \E sender \in Accounts, c \in callbacks : CancelCallback(sender, c)
         \/ \E c \in due : ExecuteCallback(c)
         \/ CallbackFails
         \/ SettleCallback
         \/ CallbackSucceeds
         \/ UNCHANGED <<callbacks, bank, saved, paidTwice>> /\ (phase' = "sudo" => phase = "sudo")
  BY Zenon DEF Next, vars, UpdateParams, EndBlocker, NextBlock, AtBound, Halted
<1>5. CASE CallbackSucceeds
  <2>1. UNCHANGED <<callbacks, bank, paidTwice>> /\ phase' # "sudo"
    BY <1>5 DEF CallbackSucceeds
  <2> QED
    BY <2>1, Zenon DEF Backed, Backs, Owed
<1> QED
  BY <1>1, <1>2, <1>3, <1>4, <1>5, RequestBacked, CancelBacked, SettleBacked, Zenon

(* x/callback holds the fees of the callbacks in its store, no more and no *)
(* less, in the branch of a running contract and below it, once what it    *)
(* paid for a second time is added.                                        *)
THEOREM FeesAreHeld == Spec => []EscrowBacked
<1>1. Init => Backed
  <2> SUFFICES ASSUME Init PROVE Backed
    OBVIOUS
  <2>1. callbacks = {} /\ phase # "sudo" /\ bank[Module] = 0 /\ paidTwice = 0
    BY CallbackAssumptions DEF Init, Holders
  <2> QED
    BY <2>1, SumEmpty DEF Backed, Backs, Owed
<1>2. IInv /\ Backed /\ [Next]_vars => Backed'
  BY BackedStep
<1> QED
  BY <1>1, <1>2, BackedIsEscrow, InductiveInvariant, PTL DEF Spec

(* The EndBlocker lacks the funds to settle a callback, whatever happened  *)
(* to gas price and parameters since its fees were taken, only when fees   *)
(* have been paid twice or are just about to be.                           *)
THEOREM SettlementCovered == Spec => []HaltsOnlyIfPaidTwice
<1>1. IInv /\ EscrowBacked => HaltsOnlyIfPaidTwice
  <2> SUFFICES ASSUME IInv, EscrowBacked, phase = "settle", running \in callbacks, ~(paidTwice > 0)
               PROVE  CanSettle
    BY DEF HaltsOnlyIfPaidTwice, SettledBefore
  <2>1. paidTwice = 0
    BY DEF IInv, TypeOK
  <2>2. TotalFees(running) \in Nat /\ Owed(callbacks) \in Nat /\ TotalFees(running) <= Owed(callbacks)
    BY StoresKeyed, OwedLess DEF Keyed
  <2>3. bank[Module] + paidTwice = Owed(callbacks)
    BY BackedIsEscrow, Zenon DEF Backed, Backs
  <2>4. bank[Module] \in Nat
    BY DEF IInv, TypeOK, Holders
  <2> QED
    BY <2>1, <2>2, <2>3, <2>4 DEF CanSettle
<1> QED
  BY <1>1, FeesAreHeld, InductiveInvariant, PTL
-----------------------------------------------------------------------------
(* x/callback implements the abstract Escrow, second payments apart. *)

Deposits(store) == {DepositOf(c) : c \in store}

Branch == IF phase = "sudo"
          THEN {[deposits |-> Deposits(saved.callbacks), bank |-> saved.bank]}
          ELSE {}

(* In a store with one callback for each key, removing a callback removes  *)
(* its deposit and no other.                                               *)
LEMMA RemovedDeposit ==
    ASSUME NEW store, NEW c \in store,
           \A d, e \in store : Key(d) = Key(e) => d = e
    PROVE  Deposits(Removed(store, Key(c))) = Deposits(store) \ {DepositOf(c)}
<1>1. \A d \in store : DepositOf(d) = DepositOf(c) => Key(d) = Key(c)
  BY DEF DepositOf
<1>2. \A d \in store : Key(d) = Key(c) => DepositOf(d) = DepositOf(c)
  OBVIOUS
<1> QED
  BY <1>1, <1>2 DEF Deposits, Removed

(* Sharing out all the fees of a callback is one settlement of its deposit. *)
LEMMA PayoutSettles ==
    ASSUME TypeOK, NEW c \in callbacks,
           \A d, e \in callbacks : Key(d) = Key(e) => d = e,
           NEW recipient \in Accounts, NEW refund \in Nat, NEW rest \in Nat,
           refund + rest = TotalFees(c),
           bank[Module] >= TotalFees(c),
           bank' = SendToFeeCollector(RefundFromCallbackModule(bank, recipient, refund), rest),
           callbacks' = Removed(callbacks, Key(c)),
           UNCHANGED Branch
    PROVE  Ledger!Next
<1> DEFINE d == DepositOf(c)
           payee == IF recipient \in Blocked THEN FeeCollector ELSE recipient
<1>1. c \in Callbacks
  BY Zenon DEF TypeOK
<1>2. d.amount = TotalFees(c) /\ d \in Deposits(callbacks)
  BY Zenon DEF DepositOf, Deposits
<1>3. TotalFees(c) \in Nat /\ rest = TotalFees(c) - refund /\ refund \in 0..TotalFees(c)
  BY <1>1, SMTT(30) DEF TotalFees, Callbacks
<1>4. Deposits(callbacks)' = Deposits(callbacks) \ {d}
  <2>1. Deposits(callbacks') = Deposits(callbacks) \ {d}
    BY RemovedDeposit
  <2> QED
    BY <2>1, Zenon DEF Deposits, DepositOf, Key, TotalFees
<1>5. bank' = SendCoins(SendCoins(bank, Module, payee, refund), Module, FeeCollector,
                        d.amount - refund)
  BY <1>2, <1>3 DEF SendToFeeCollector, RefundFromCallbackModule
<1>6. Ledger!Settle(payee, d, refund)
  BY <1>2, <1>4, <1>5, Zenon DEF Ledger!Settle, Ledger!SendCoins, SendCoins, Deposits, Branch
<1>7. payee \in Accounts \cup {FeeCollector} /\ refund \in 0..d.amount
  BY <1>2, <1>3
<1> QED
  BY <1>2, <1>6, <1>7, ZenonT(30) DEF Ledger!Next, Deposits

LEMMA RequestDeposits ==
    ASSUME IInv, NEW sender \in Accounts, NEW contract \in Contracts, NEW job \in Jobs,
           NEW h \in 1..MaxHeight, NEW extra \in Surpluses,
           RequestCallback(sender, contract, job, h, extra)
    PROVE  Ledger!Next
<1> DEFINE c == NewCallback(sender, contract, job, h, extra)
           d == DepositOf(c)
<1>1. /\ callbacks' = Removed(callbacks, Key(c)) \cup {c} /\ ~Exists(Key(c))
      /\ bank[sender] >= TotalFees(c)
      /\ bank' = SendCoins(bank, sender, Module, TotalFees(c))
      /\ UNCHANGED <<phase, saved>>
  BY Zenon DEF RequestCallback, SaveCallback
<1> HIDE DEF c
<1>2. callbacks' = callbacks \cup {c}
  BY <1>1 DEF Removed, Exists
<1>3. d.key = Key(c) /\ d.amount = TotalFees(c)
  BY SMTT(30) DEF DepositOf
<1>4. \A e \in Deposits(callbacks) : e.key # d.key
  BY <1>1, <1>3, SMTT(30) DEF Exists, Deposits, DepositOf
<1>5. Deposits(callbacks)' = Deposits(callbacks) \cup {d}
  BY <1>2, Zenon DEF Deposits, DepositOf, Key, TotalFees
<1>6. UNCHANGED Branch
  BY <1>1, ZenonT(30) DEF Branch, Deposits, DepositOf, Key, TotalFees
<1>7. Ledger!Deposit(sender, d)
  BY <1>1, <1>3, <1>4, <1>5, <1>6, Zenon
     DEF Ledger!Deposit, Ledger!SendCoins, SendCoins, Deposits, Branch
<1>8. d \in Deposits(callbacks)'
  BY <1>5
<1> QED
  BY <1>7, <1>8 DEF Ledger!Next, Deposits

LEMMA CancelSettles ==
    ASSUME IInv, NEW sender \in Accounts, NEW c \in callbacks, CancelCallback(sender, c)
    PROVE  Ledger!Next
<1> DEFINE refund == c.tx + c.surplus
           rest == c.block + c.future
<1>1. /\ callbacks' = Removed(callbacks, Key(c))
      /\ bank[Module] >= refund + rest
      /\ bank' = SendToFeeCollector(RefundFromCallbackModule(bank, sender, refund), rest)
      /\ UNCHANGED <<phase, saved>>
  BY Zenon DEF CancelCallback, DeleteCallback
<1>2. c \in Callbacks /\ TypeOK /\ \A d, e \in callbacks : Key(d) = Key(e) => d = e
  BY DEF IInv, TypeOK, StoreOK, UniqueKeys
<1>3. refund \in Nat /\ rest \in Nat /\ refund + rest = TotalFees(c)
  BY <1>2 DEF Callbacks, TotalFees
<1>4. UNCHANGED Branch
  BY <1>1, Zenon DEF Branch, Deposits, DepositOf, Key, TotalFees
<1> HIDE DEF refund, rest
<1> QED
  BY <1>1, <1>2, <1>3, <1>4, PayoutSettles

(* Sharing out nothing moves no coin. *)
LEMMA PayNothing ==
    ASSUME NEW b \in [Holders -> Nat], NEW recipient \in Accounts
    PROVE  SendToFeeCollector(RefundFromCallbackModule(b, recipient, 0), 0) = b
<1> DEFINE to == IF recipient \in Blocked THEN FeeCollector ELSE recipient
<1>1. to \in Holders /\ Module \in Holders /\ FeeCollector \in Holders
  BY CallbackAssumptions DEF Holders
<1>2. ASSUME NEW a \in Holders PROVE SendCoins(b, Module, a, 0) = b
  BY <1>1, <1>2 DEF SendCoins
<1> QED
  BY <1>1, <1>2, Zenon DEF SendToFeeCollector, RefundFromCallbackModule

LEMMA SettleSettles ==
    ASSUME IInv, SettleCallback
    PROVE  Ledger!Next \/ paidTwice' > paidTwice \/ UNCHANGED Ledger!vars
<1> DEFINE refund == running.tx - ConsumedFees
           rest == (running.block + running.future + running.surplus) + ConsumedFees
<1>1. /\ phase = "settle" /\ phase' = "endblock"
      /\ bank[Module] >= TotalFees(running)
      /\ bank' = SendToFeeCollector(
                     RefundFromCallbackModule(bank, running.reservedBy, refund), rest)
      /\ callbacks' = Removed(callbacks, Key(running))
      /\ SettledBefore => paidTwice' = paidTwice + TotalFees(running)
  BY DEF SettleCallback, CanSettle
<1>2. /\ running \in Callbacks /\ TypeOK /\ paidTwice \in Nat
      /\ \A d, e \in callbacks : Key(d) = Key(e) => d = e
  BY <1>1, Zenon DEF IInv, TypeOK, StoreOK, Executing, UniqueKeys
<1>3. refund \in Nat /\ rest \in Nat /\ refund + rest = TotalFees(running)
  BY <1>1, <1>2, ConsumedFeesBounded, SMTT(30) DEF Executing, Callbacks, TotalFees
<1>4. UNCHANGED Branch /\ running.reservedBy \in Accounts
  BY <1>1, <1>2, Zenon DEF Branch, Callbacks
<1> HIDE DEF refund, rest
<1>5. CASE running \in callbacks
  BY <1>1, <1>2, <1>3, <1>4, <1>5, PayoutSettles
<1>6. CASE running \notin callbacks /\ TotalFees(running) # 0
  BY <1>1, <1>2, <1>3, <1>6 DEF SettledBefore
<1>7. CASE running \notin callbacks /\ TotalFees(running) = 0
  <2>1. callbacks' = callbacks
    BY <1>1, <1>7, RemovedTwice
  <2>2. refund = 0 /\ rest = 0
    BY <1>3, <1>7
  <2>3. bank' = bank
    BY <1>1, <1>2, <2>2, PayNothing DEF TypeOK, Callbacks
  <2> QED
    BY <1>1, <2>1, <2>3, Zenon DEF Ledger!vars, DepositOf, Key, TotalFees
<1> QED
  BY <1>5, <1>6, <1>7

LEMMA ExecuteOpens ==
    ASSUME NEW c \in due, ExecuteCallback(c)
    PROVE  Ledger!Next
BY Zenon DEF ExecuteCallback, Ledger!Next, Ledger!OpenBranch, DepositOf, Key, TotalFees

LEMMA SucceedsCommits ==
    ASSUME CallbackSucceeds
    PROVE  Ledger!Next
<1>1. /\ phase = "sudo" /\ phase' = "settle" /\ UNCHANGED <<callbacks, bank>>
  BY DEF CallbackSucceeds
<1>2. Ledger!Commit
  BY <1>1, Zenon DEF Ledger!Commit, DepositOf, Key, TotalFees
<1> QED
  BY <1>2 DEF Ledger!Next

LEMMA FailsRollsBack ==
    ASSUME CallbackFails
    PROVE  Ledger!Next
<1>1. /\ phase = "sudo" /\ phase' = "settle"
      /\ callbacks' = saved.callbacks /\ bank' = saved.bank
  BY DEF CallbackFails
<1>2. Ledger!Rollback
  BY <1>1 DEF Ledger!Rollback, DepositOf, Key, TotalFees
<1> QED
  BY <1>2 DEF Ledger!Next

(* Steps that touch neither the store nor a balance nor a branch. *)
LEMMA OthersStutter ==
    ASSUME UNCHANGED <<callbacks, bank, saved>>, phase' = "sudo" <=> phase = "sudo"
    PROVE  UNCHANGED Ledger!vars
BY Zenon DEF Ledger!vars, DepositOf, Key, TotalFees
-----------------------------------------------------------------------------
(* x/callback implements the escrow, and leaves it only by paying a second *)
(* time: fees are taken once for each key and shared out completely, and   *)
(* what a contract does in its callback is kept or undone as a whole.      *)
THEOREM Refinement == Spec => ImplementsEscrow
<1>1. Init => Ledger!Init
  BY CallbackAssumptions DEF Init, Ledger!Init, Holders, Module
<1>2. IInv /\ [Next]_vars => [Ledger!Next \/ paidTwice' > paidTwice]_(Ledger!vars)
  <2> SUFFICES ASSUME IInv, [Next]_vars
               PROVE  Ledger!Next \/ paidTwice' > paidTwice \/ UNCHANGED Ledger!vars
    OBVIOUS
  <2>1. CASE \/ \E p \in ParamSets : UpdateParams(p)
             \/ EndBlocker
             \/ NextBlock
             \/ AtBound
             \/ Halted
             \/ UNCHANGED vars
    BY <2>1, OthersStutter, Zenon
       DEF UpdateParams, EndBlocker, NextBlock, AtBound, Halted, vars
  <2> QED
    BY <2>1, RequestDeposits, CancelSettles, SettleSettles, ExecuteOpens, SucceedsCommits,
       FailsRollsBack DEF Next
<1> QED
  BY <1>1, <1>2, InductiveInvariant, PTL DEF Spec, ImplementsEscrow
=============================================================================
