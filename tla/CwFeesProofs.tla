---------------------------- MODULE CwFeesProofs ----------------------------
(***************************************************************************)
(* Theorems about CwFees, for every value of its constants.                *)
(***************************************************************************)
EXTENDS CwFees, SumTheorems

(* The contract pays: it was registered when the transaction came. *)
CwPays == ~PaysItself /\ tx.granter \in committed.granting

(* What getFeePayer has done to the branch. *)
Chosen ==
    /\ tx \in Txs /\ deductFeesFrom = Pair.granter
    /\ store.approved = committed.approved
    /\ store.granted = IF CwPays THEN [committed.granted EXCEPT ![tx.granter] = @ + tx.fee]
                       ELSE committed.granted
    /\ store.allowance = IF PaysItself \/ CwPays THEN committed.allowance
                         ELSE [committed.allowance EXCEPT ![Pair] = @ - tx.fee]

(* The branch a transaction writes, stage by stage, and the store under    *)
(* it: the books agree in the store, and are ahead in the branch by what   *)
(* the stages so far have written.                                         *)
Staged ==
    /\ phase = "ante" => store = committed
    /\ phase = "payer" => store = committed /\ tx \in Txs
    /\ phase = "deduct" => Chosen /\ store.bank = committed.bank
    /\ phase = "next" =>
           /\ Chosen
           /\ store.bank = [committed.bank EXCEPT ![Pair.granter] = @ - tx.fee]
    /\ phase = "msgs" =>
           /\ store.bank = committed.bank /\ store.granted = committed.granted
           /\ \A p \in Pairs : p.granter # p.grantee =>
                  paid[p] + store.allowance[p] = store.approved[p]

Inv == TypeOK /\ BooksAgree /\ AllowancesAddUp /\ Staged
-----------------------------------------------------------------------------
(* A transaction names accounts, a pair and a number. *)
LEMMA TxTyped ==
    ASSUME tx \in Txs
    PROVE  /\ tx.payer \in Users /\ tx.fee \in Nat
           /\ Pair \in Pairs /\ Pair.granter \in Accounts
           /\ PaysItself => Pair.granter = tx.payer /\ Pair.grantee = tx.payer
           /\ ~PaysItself => Pair.granter = tx.granter /\ Pair.granter # Pair.grantee
<1>1. tx.payer \in Users /\ tx.fee \in Nat /\ tx.granter \in Accounts \cup {None}
  BY CwFeesAssumptions DEF Txs
<1>2. tx.payer \in Accounts
  BY <1>1 DEF Accounts
<1>3. ~PaysItself => tx.granter \in Accounts /\ tx.granter # tx.payer
  BY <1>1 DEF PaysItself
<1>4. /\ Pair.granter = IF PaysItself THEN tx.payer ELSE tx.granter
      /\ Pair.grantee = tx.payer
  BY DEF Pair
<1>5. Pair \in Pairs
  <2>1. (IF PaysItself THEN tx.payer ELSE tx.granter) \in Accounts
    BY <1>2, <1>3
  <2> QED
    BY <1>1, <2>1 DEF Pair, Pairs
<1> QED
  BY <1>1, <1>2, <1>3, <1>4, <1>5

(* The fields of a store. *)
LEMMA StoreTyped ==
    ASSUME NEW s \in Stores
    PROVE  /\ s.granting \in SUBSET Contracts /\ s.bank \in [Accounts -> Nat]
           /\ s.allowance \in [Pairs -> Nat] /\ s.granted \in [Contracts -> Nat]
           /\ s.approved \in [Pairs -> Nat]
BY DEF Stores

(* What an account has paid grows by a fee recorded for a pair of its. *)
LEMMA PaidMore ==
    ASSUME paid \in [Pairs -> Nat], NEW p \in Pairs, NEW fee \in Nat,
           paid' = [paid EXCEPT ![p] = @ + fee], NEW a \in Accounts
    PROVE  PaidBy(a) \in Nat /\ PaidBy(a)' = PaidBy(a) + IF a = p.granter THEN fee ELSE 0
<1> DEFINE f == [u \in Users |-> paid[[granter |-> a, grantee |-> u]]]
           g == [u \in Users |-> paid'[[granter |-> a, grantee |-> u]]]
           h == [u \in Users |-> IF a = p.granter /\ u = p.grantee THEN fee ELSE 0]
<1>1. PaidBy(a) = SumFunctionOnSet(f, Users) /\ PaidBy(a)' = SumFunctionOnSet(g, Users)
  BY Zenon DEF PaidBy
<1>2. IsFiniteSet(Users)
  BY CwFeesAssumptions, Zenon
<1>3. \A u \in Users : [granter |-> a, grantee |-> u] \in Pairs
  BY DEF Pairs
<1>4. p = [granter |-> p.granter, grantee |-> p.grantee] /\ p.grantee \in Users
  BY DEF Pairs
<1>5. \A u \in Users : f[u] \in Nat /\ h[u] \in Nat /\ g[u] = f[u] + h[u]
  <2> TAKE u \in Users
  <2>1. PICK q \in Pairs : q = [granter |-> a, grantee |-> u]
    BY <1>3, Zenon
  <2>2. q = p <=> (a = p.granter /\ u = p.grantee)
    BY <1>4, <2>1
  <2>3. f[u] = paid[q] /\ g[u] = paid'[q] /\ h[u] = IF q = p THEN fee ELSE 0
    BY <2>1, <2>2, Zenon
  <2>4. paid[q] \in Nat /\ paid'[q] = IF q = p THEN paid[q] + fee ELSE paid[q]
    BY Zenon
  <2> HIDE DEF f, g, h
  <2> QED
    BY <2>3, <2>4
<1>6. \A u \in Users : h[u] = IF a = p.granter /\ u = p.grantee THEN fee ELSE 0
  BY Zenon
<1> HIDE DEF f, g, h
<1>7. /\ SumFunctionOnSet(f, Users) \in Nat
      /\ SumFunctionOnSet(g, Users) = SumFunctionOnSet(f, Users) + SumFunctionOnSet(h, Users)
  BY <1>2, <1>5, SumLawsHold, Zenon DEF SumLaws, NatLaw, PlusLaw
<1>8. SumFunctionOnSet(h, Users) = IF a = p.granter THEN fee ELSE 0
  <2>1. CASE a # p.granter
    <3>1. \A u \in Users : h[u] = 0
      BY <1>6, <2>1, Zenon
    <3> QED
      BY <1>2, <2>1, <3>1, SumLawsHold, Zenon DEF SumLaws, ZeroLaw
  <2>2. CASE a = p.granter
    <3>1. h[p.grantee] = fee /\ \A u \in Users \ {p.grantee} : h[u] = 0
      BY <1>4, <1>6, <2>2, Zenon
    <3>2. {p.grantee} \in SUBSET Users
      BY <1>4, Zenon
    <3>3. SumFunctionOnSet(h, {p.grantee}) = SumFunctionOnSet(h, Users)
      BY <1>2, <1>5, <3>1, <3>2, SumLawsHold, Zenon DEF SumLaws, NonZeroLaw
    <3>4. SumFunctionOnSet(h, {p.grantee}) = h[p.grantee]
      <4>1. /\ SumFunctionOnSet(h, {} \cup {p.grantee}) = SumFunctionOnSet(h, {}) + fee
            /\ SumFunctionOnSet(h, {}) = 0
        <5>1. IsFiniteSet({})
          BY <1>2, SumLawsHold, Zenon DEF SumLaws, SubsetLaw
        <5> QED
          BY <3>1, <5>1, SumLawsHold, Zenon DEF SumLaws, AddLaw, EmptyLaw
      <4>2. {} \cup {p.grantee} = {p.grantee}
        BY Zenon
      <4> QED
        BY <3>1, <4>1, <4>2
    <3> QED
      BY <2>2, <3>1, <3>3, <3>4, Zenon
  <2> QED
    BY <2>1, <2>2, Zenon
<1> QED
  BY <1>1, <1>7, <1>8, Zenon

LEMMA PaidByNat ==
    ASSUME paid \in [Pairs -> Nat], NEW a \in Accounts
    PROVE  PaidBy(a) \in Nat
<1> DEFINE f == [u \in Users |-> paid[[granter |-> a, grantee |-> u]]]
<1>1. \A u \in Users : [granter |-> a, grantee |-> u] \in Pairs
  BY DEF Pairs
<1>2. (\A u \in Users : f[u] \in Nat) /\ PaidBy(a) = SumFunctionOnSet(f, Users)
  BY <1>1, Zenon DEF PaidBy
<1> HIDE DEF f
<1> QED
  BY <1>2, CwFeesAssumptions, SumLawsHold, Zenon DEF SumLaws, NatLaw

LEMMA InitInv == Init => Inv
<1> SUFFICES ASSUME Init PROVE Inv
  BY Zenon
<1>1. store \in Stores /\ committed = store /\ paid = [p \in Pairs |-> 0] /\ phase = "ante"
  BY CwFeesAssumptions DEF Init, Stores
<1>2. /\ store.bank = InitialFunds /\ store.granted = [c \in Contracts |-> 0]
      /\ store.allowance = [p \in Pairs |-> 0] /\ store.approved = [p \in Pairs |-> 0]
  BY DEF Init
<1>3. TypeOK
  BY <1>1 DEF TypeOK, Init
<1>4. BooksAgree
  <2> SUFFICES ASSUME NEW a \in Accounts
               PROVE  committed.bank[a] + PaidBy(a)
                        + (IF a \in Contracts THEN committed.granted[a] ELSE 0) = InitialFunds[a]
    BY Zenon DEF BooksAgree
  <2>1. PaidBy(a) = 0
    <3> DEFINE f == [u \in Users |-> paid[[granter |-> a, grantee |-> u]]]
    <3>1. \A u \in Users : [granter |-> a, grantee |-> u] \in Pairs
      BY DEF Pairs
    <3>2. (\A u \in Users : f[u] = 0) /\ PaidBy(a) = SumFunctionOnSet(f, Users)
      BY <1>1, <3>1, Zenon DEF PaidBy
    <3> HIDE DEF f
    <3> QED
      BY <3>2, CwFeesAssumptions, SumLawsHold, Zenon DEF SumLaws, ZeroLaw
  <2>2. InitialFunds[a] \in Nat
    BY CwFeesAssumptions
  <2>3. (IF a \in Contracts THEN committed.granted[a] ELSE 0) = 0
    BY <1>1, <1>2
  <2> QED
    BY <1>1, <1>2, <2>1, <2>2, <2>3
<1>5. AllowancesAddUp
  BY <1>1, <1>2 DEF AllowancesAddUp
<1>6. Staged
  BY <1>1 DEF Staged
<1> QED
  BY <1>3, <1>4, <1>5, <1>6, Zenon DEF Inv
-----------------------------------------------------------------------------
(* The stages of a transaction, and its messages. *)

(* The transaction comes in, or one of its stages fails. *)
LEMMA BoundaryInv ==
    ASSUME Inv, (\E t \in Txs : AnteHandle(t)) \/ AnteFails \/ MsgsFail
    PROVE  Inv'
<1>1. UNCHANGED <<committed, paid>> /\ store' = committed
  BY DEF Inv, Staged, AnteHandle, AnteFails, MsgsFail
<1>2. BooksAgree' /\ AllowancesAddUp'
  BY <1>1, Zenon DEF Inv, BooksAgree, AllowancesAddUp, PaidBy
<1>3. \/ phase' = "payer" /\ tx' \in Txs /\ deductFeesFrom' = deductFeesFrom
      \/ phase' = "ante" /\ tx' \in {tx, None} /\ deductFeesFrom' \in {deductFeesFrom, None}
  BY DEF AnteHandle, AnteFails, MsgsFail
<1>4. TypeOK'
  BY <1>1, <1>3 DEF Inv, TypeOK
<1>5. Staged'
  BY <1>1, <1>3 DEF Staged
<1> QED
  BY <1>2, <1>4, <1>5, Zenon DEF Inv

(* getFeePayer: the contract's book or the allowance is ahead. *)
LEMMA GetFeePayerInv ==
    ASSUME Inv, NEW reply \in Replies, GetFeePayer(reply)
    PROVE  Inv'
<1>1. /\ UNCHANGED <<tx, committed, paid>> /\ phase' = "deduct"
      /\ store = committed /\ tx \in Txs /\ committed \in Stores
  BY DEF Inv, Staged, TypeOK, GetFeePayer
<1>2. BooksAgree' /\ AllowancesAddUp'
  BY <1>1, Zenon DEF Inv, BooksAgree, AllowancesAddUp, PaidBy
<1>3. /\ tx.fee \in Nat /\ Pair \in Pairs /\ Pair.granter \in Accounts
      /\ Pair' = Pair /\ PaysItself' = PaysItself /\ CwPays' = CwPays
  BY <1>1, TxTyped DEF Pair, PaysItself, CwPays
<1>4. deductFeesFrom' = Pair.granter
  BY DEF GetFeePayer, Pair
<1>5. /\ committed.granting \in SUBSET Contracts /\ committed.bank \in [Accounts -> Nat]
      /\ committed.allowance \in [Pairs -> Nat] /\ committed.granted \in [Contracts -> Nat]
      /\ committed.approved \in [Pairs -> Nat]
  BY <1>1, StoreTyped, Zenon
<1>6. store' \in Stores /\ Chosen' /\ store'.bank = committed.bank
  <2>1. CASE UsePayer
    BY <1>1, <1>3, <1>4, <2>1 DEF UsePayer, Chosen, CwPays
  <2>2. CASE RequestGrant(reply)
    <3>1. CwPays /\ ~PaysItself /\ tx.granter \in Contracts
      BY <1>1, <1>5, <2>2 DEF RequestGrant, CwPays, IsGrantingContract
    <3>2. /\ store'.granted = [committed.granted EXCEPT ![tx.granter] = @ + tx.fee]
          /\ store'.bank = committed.bank /\ store'.approved = committed.approved
          /\ store'.allowance = committed.allowance
      BY <1>1, <2>2 DEF RequestGrant, Stores
    <3>3. store' \in Stores
      <4> DEFINE left == IF reply.leaves THEN store.granting \ {tx.granter} ELSE store.granting
                 book == [store.granted EXCEPT ![tx.granter] = @ + tx.fee]
      <4>1. left \in SUBSET Contracts /\ book \in [Contracts -> Nat]
        BY <1>1, <1>3, <1>5, <3>1
      <4>2. store' = [store EXCEPT !.granted = book, !.granting = left]
        BY <2>2 DEF RequestGrant
      <4> HIDE DEF left, book
      <4> QED
        BY <1>1, <4>1, <4>2 DEF Stores
    <3> QED
      BY <1>1, <1>3, <1>4, <3>1, <3>2, <3>3, Zenon DEF Chosen
  <2>3. CASE UseGrantedFees
    <3>1. ~CwPays /\ ~PaysItself /\ tx.fee <= committed.allowance[Pair]
      BY <1>1, <2>3 DEF UseGrantedFees, CwPays, IsGrantingContract
    <3>2. /\ store'.allowance = [committed.allowance EXCEPT ![Pair] = @ - tx.fee]
          /\ store'.bank = committed.bank /\ store'.approved = committed.approved
          /\ store'.granted = committed.granted
      BY <1>1, <2>3 DEF UseGrantedFees, Stores
    <3>3. store' \in Stores
      BY <1>1, <1>3, <2>3, <3>1 DEF UseGrantedFees, Stores
    <3> QED
      BY <1>1, <1>3, <1>4, <3>1, <3>2, <3>3, Zenon DEF Chosen
  <2> QED
    BY <2>1, <2>2, <2>3 DEF GetFeePayer
<1>7. TypeOK'
  BY <1>1, <1>3, <1>4, <1>6 DEF Inv, TypeOK
<1>8. Staged'
  BY <1>1, <1>6 DEF Staged
<1> QED
  BY <1>2, <1>7, <1>8, Zenon DEF Inv

(* deductFees: so is the balance. *)
LEMMA DeductFeesInv ==
    ASSUME Inv, DeductFees
    PROVE  Inv'
<1>1. /\ UNCHANGED <<tx, deductFeesFrom, committed, paid>> /\ phase' = "next"
      /\ Chosen /\ store.bank = committed.bank /\ store \in Stores
      /\ tx.fee <= store.bank[deductFeesFrom]
      /\ store' = [store EXCEPT !.bank[deductFeesFrom] = @ - tx.fee]
  BY DEF Inv, Staged, TypeOK, DeductFees
<1>2. BooksAgree' /\ AllowancesAddUp'
  BY <1>1, Zenon DEF Inv, BooksAgree, AllowancesAddUp, PaidBy
<1>3. /\ tx \in Txs /\ tx.fee \in Nat /\ deductFeesFrom = Pair.granter /\ Pair.granter \in Accounts
      /\ Pair' = Pair /\ PaysItself' = PaysItself /\ CwPays' = CwPays
  BY <1>1, TxTyped DEF Pair, PaysItself, CwPays, Chosen
<1>4. /\ store'.bank = [committed.bank EXCEPT ![Pair.granter] = @ - tx.fee]
      /\ store'.granted = store.granted /\ store'.approved = store.approved
      /\ store'.allowance = store.allowance
  BY <1>1, <1>3 DEF Stores
<1>5. store' \in Stores
  BY <1>1, <1>3 DEF Stores
<1>6. Chosen'
  BY <1>1, <1>3, <1>4 DEF Chosen
<1>7. TypeOK'
  BY <1>1, <1>5 DEF Inv, TypeOK
<1>8. Staged'
  BY <1>1, <1>3, <1>4, <1>6 DEF Staged
<1> QED
  BY <1>2, <1>7, <1>8, Zenon DEF Inv

(* The later decorators accept: what was paid catches up with the branch. *)
LEMMA AnteAcceptsInv ==
    ASSUME Inv, AnteAccepts
    PROVE  Inv'
<1>1. /\ committed' = store /\ UNCHANGED store /\ phase' = "msgs"
      /\ tx' = None /\ deductFeesFrom' = None
      /\ Chosen /\ store.bank = [committed.bank EXCEPT ![Pair.granter] = @ - tx.fee]
      /\ store \in Stores /\ committed \in Stores /\ paid \in [Pairs -> Nat]
  BY DEF Inv, Staged, TypeOK, AnteAccepts
<1>2. /\ tx \in Txs /\ tx.fee \in Nat /\ Pair \in Pairs /\ Pair.granter \in Accounts
      /\ PaysItself => Pair.granter = Pair.grantee
      /\ ~PaysItself => Pair.granter = tx.granter /\ Pair.granter # Pair.grantee
  BY <1>1, TxTyped DEF Chosen
<1>3. paid' = IF CwPays THEN paid ELSE [paid EXCEPT ![Pair] = @ + tx.fee]
  BY DEF AnteAccepts, CwPays
<1>4. /\ committed.granting \in SUBSET Contracts /\ committed.bank \in [Accounts -> Nat]
      /\ committed.allowance \in [Pairs -> Nat] /\ committed.granted \in [Contracts -> Nat]
      /\ committed.approved \in [Pairs -> Nat]
  BY <1>1, StoreTyped, Zenon
<1>5. /\ store.approved = committed.approved
      /\ store.granted = IF CwPays THEN [committed.granted EXCEPT ![tx.granter] = @ + tx.fee]
                         ELSE committed.granted
      /\ store.allowance = IF PaysItself \/ CwPays THEN committed.allowance
                           ELSE [committed.allowance EXCEPT ![Pair] = @ - tx.fee]
  BY <1>1, Zenon DEF Chosen
<1>6. paid' \in [Pairs -> Nat]
  BY <1>1, <1>2, <1>3
<1>7. BooksAgree'
  <2> SUFFICES ASSUME NEW a \in Accounts
               PROVE  store.bank[a] + PaidBy(a)'
                        + (IF a \in Contracts THEN store.granted[a] ELSE 0) = InitialFunds[a]
    BY <1>1, Zenon DEF BooksAgree
  <2> DEFINE book(s) == IF a \in Contracts THEN s.granted[a] ELSE 0
             mine == IF a = Pair.granter THEN tx.fee ELSE 0
  <2>1. committed.bank[a] + PaidBy(a) + book(committed) = InitialFunds[a]
    BY Zenon DEF Inv, BooksAgree
  <2>2. store.bank[a] = committed.bank[a] - mine
    BY <1>1, <1>2, <1>4
  <2>3. PaidBy(a) \in Nat /\ committed.bank[a] \in Nat /\ book(committed) \in Nat /\ mine \in Nat
    BY <1>1, <1>2, <1>4, PaidByNat
  <2>4. CASE CwPays
    <3>1. PaidBy(a)' = PaidBy(a)
      BY <1>3, <2>4, Zenon DEF PaidBy
    <3>2. tx.granter \in Contracts /\ Pair.granter = tx.granter
      BY <1>2, <1>4, <2>4 DEF CwPays
    <3>3. book(store) = book(committed) + mine
      BY <1>2, <1>4, <1>5, <2>4, <3>2
    <3> HIDE DEF book, mine
    <3>4. store.bank[a] + PaidBy(a)' + book(store) = InitialFunds[a]
      BY <2>1, <2>2, <2>3, <3>1, <3>3
    <3> QED
      BY <3>4, Zenon DEF book
  <2>5. CASE ~CwPays
    <3>1. PaidBy(a)' = PaidBy(a) + mine
      BY <1>1, <1>2, <1>3, <2>5, PaidMore
    <3>2. book(store) = book(committed)
      BY <1>5, <2>5, Zenon
    <3> HIDE DEF book, mine
    <3>3. store.bank[a] + PaidBy(a)' + book(store) = InitialFunds[a]
      BY <2>1, <2>2, <2>3, <3>1, <3>2
    <3> QED
      BY <3>3, Zenon DEF book
  <2> QED
    BY <2>4, <2>5, Zenon
<1>8. ASSUME NEW p \in Pairs, p.granter # p.grantee
      PROVE  paid'[p] + store.allowance[p] = store.approved[p]
  <2>1. paid[p] + committed.allowance[p] = committed.approved[p]
    BY <1>8, Zenon DEF Inv, AllowancesAddUp
  <2>2. CASE p = Pair /\ ~CwPays
    <3>1. ~PaysItself
      BY <1>2, <1>8, <2>2
    <3> QED
      BY <1>1, <1>2, <1>3, <1>4, <1>5, <2>1, <2>2, <3>1
  <2>3. CASE p # Pair \/ CwPays
    <3>1. paid'[p] = paid[p] /\ store.allowance[p] = committed.allowance[p]
      BY <1>1, <1>2, <1>3, <1>4, <1>5, <2>3
    <3> QED
      BY <1>5, <2>1, <3>1, Zenon
  <2> QED
    BY <2>2, <2>3, Zenon
<1>9. AllowancesAddUp' /\ Staged'
  BY <1>1, <1>8 DEF AllowancesAddUp, Staged
<1>10. TypeOK'
  BY <1>1, <1>6 DEF TypeOK
<1> QED
  BY <1>7, <1>9, <1>10, Zenon DEF Inv

(* A message changes registrations and allowances only. *)
LEMMA RunMsgInv ==
    ASSUME Inv, RunMsg
    PROVE  Inv'
<1>1. /\ UNCHANGED <<phase, tx, deductFeesFrom, committed, paid>> /\ phase = "msgs"
      /\ store \in Stores /\ paid \in [Pairs -> Nat]
      /\ store.bank = committed.bank /\ store.granted = committed.granted
      /\ \A p \in Pairs : p.granter # p.grantee => paid[p] + store.allowance[p] = store.approved[p]
  BY DEF Inv, Staged, TypeOK, RunMsg
<1>2. BooksAgree' /\ AllowancesAddUp'
  BY <1>1, Zenon DEF Inv, BooksAgree, AllowancesAddUp, PaidBy
<1> DEFINE Kept == /\ store' \in Stores
                   /\ store'.bank = store.bank /\ store'.granted = store.granted
                   /\ \A p \in Pairs : p.granter # p.grantee =>
                          paid[p] + store'.allowance[p] = store'.approved[p]
<1>3. ASSUME NEW a \in Accounts, RegisterAsGranter(a) \/ UnregisterAsGranter(a) PROVE Kept
  <2>1. /\ store' \in Stores /\ store'.bank = store.bank /\ store'.granted = store.granted
        /\ store'.allowance = store.allowance /\ store'.approved = store.approved
    BY <1>1, <1>3 DEF RegisterAsGranter, UnregisterAsGranter, Stores
  <2> QED
    BY <1>1, <2>1, Zenon
<1>4. ASSUME NEW p \in Pairs, RevokeAllowance(p) PROVE Kept
  <2>1. /\ store'.bank = store.bank /\ store'.granted = store.granted
        /\ store'.granting = store.granting
        /\ store'.allowance = [store.allowance EXCEPT ![p] = 0]
        /\ store'.approved = [store.approved EXCEPT ![p] = @ - store.allowance[p]]
    BY <1>1, <1>4 DEF RevokeAllowance, Stores
  <2>2. store.allowance \in [Pairs -> Nat] /\ store.approved \in [Pairs -> Nat]
    BY <1>1, StoreTyped, Zenon
  <2>3. /\ p.granter # p.grantee /\ paid[p] \in Nat
        /\ paid[p] + store.allowance[p] = store.approved[p]
    BY <1>1, <1>4, Zenon DEF RevokeAllowance
  <2>4. store'.allowance \in [Pairs -> Nat] /\ store'.approved \in [Pairs -> Nat]
    BY <2>1, <2>2, <2>3
  <2>5. \A q \in Pairs : q.granter # q.grantee => paid[q] + store'.allowance[q] = store'.approved[q]
    BY <1>1, <2>1, <2>2, <2>3
  <2>6. store' \in Stores
    BY <1>1, <1>4, <2>1, <2>4 DEF RevokeAllowance, Stores
  <2> QED
    BY <2>1, <2>5, <2>6, Zenon
<1>5. ASSUME NEW p \in Pairs, NEW l \in Allowances, GrantAllowance(p, l) PROVE Kept
  <2>1. /\ store'.bank = store.bank /\ store'.granted = store.granted
        /\ store'.granting = store.granting
        /\ store'.allowance = [store.allowance EXCEPT ![p] = l]
        /\ store'.approved = [store.approved EXCEPT ![p] = @ + l]
    BY <1>1, <1>5 DEF GrantAllowance, Stores
  <2>2. /\ store.allowance \in [Pairs -> Nat] /\ store.approved \in [Pairs -> Nat]
        /\ l \in Nat
    BY <1>1, StoreTyped, CwFeesAssumptions
  <2>3. /\ p.granter # p.grantee /\ paid[p] \in Nat /\ store.allowance[p] = 0
        /\ paid[p] + store.allowance[p] = store.approved[p]
    BY <1>1, <1>5, Zenon DEF GrantAllowance
  <2>4. store'.allowance \in [Pairs -> Nat] /\ store'.approved \in [Pairs -> Nat]
    BY <2>1, <2>2
  <2>5. \A q \in Pairs : q.granter # q.grantee => paid[q] + store'.allowance[q] = store'.approved[q]
    BY <1>1, <2>1, <2>2, <2>3
  <2>6. store' \in Stores
    BY <1>1, <1>5, <2>1, <2>4 DEF GrantAllowance, Stores
  <2> QED
    BY <2>1, <2>5, <2>6, Zenon
<1>6. Kept
  BY <1>3, <1>4, <1>5, Zenon DEF RunMsg
<1>7. TypeOK' /\ Staged'
  BY <1>1, <1>6 DEF Inv, TypeOK, Staged
<1> QED
  BY <1>2, <1>7, Zenon DEF Inv

(* The messages succeed: the branch becomes the store. *)
LEMMA MsgsSucceedInv ==
    ASSUME Inv, MsgsSucceed
    PROVE  Inv'
<1>1. /\ UNCHANGED <<tx, deductFeesFrom, store, paid>> /\ phase' = "ante" /\ committed' = store
      /\ store \in Stores /\ store.bank = committed.bank /\ store.granted = committed.granted
      /\ \A p \in Pairs : p.granter # p.grantee => paid[p] + store.allowance[p] = store.approved[p]
  BY DEF Inv, Staged, TypeOK, MsgsSucceed
<1>2. BooksAgree' /\ AllowancesAddUp'
  BY <1>1, Zenon DEF Inv, BooksAgree, AllowancesAddUp, PaidBy
<1>3. TypeOK' /\ Staged'
  BY <1>1 DEF Inv, TypeOK, Staged
<1> QED
  BY <1>2, <1>3, Zenon DEF Inv

LEMMA NextInv == Inv /\ [Next]_vars => Inv'
<1> SUFFICES ASSUME Inv, [Next]_vars PROVE Inv'
  BY Zenon
<1>1. CASE UNCHANGED vars
  <2>1. /\ phase' = phase /\ tx' = tx /\ deductFeesFrom' = deductFeesFrom
        /\ store' = store /\ committed' = committed /\ paid' = paid
    BY <1>1, Zenon DEF vars
  <2>2. TypeOK' /\ BooksAgree' /\ AllowancesAddUp'
    BY <2>1, Zenon DEF Inv, TypeOK, BooksAgree, PaidBy, AllowancesAddUp
  <2>3. PaysItself' = PaysItself /\ Pair' = Pair /\ CwPays' = CwPays
    BY <2>1 DEF CwPays, PaysItself, Pair
  <2>4. Staged'
    BY <2>1, <2>3, SMTT(30) DEF Inv, Staged, Chosen
  <2> QED
    BY <2>2, <2>4, Zenon DEF Inv
<1> QED
  BY <1>1, BoundaryInv, GetFeePayerInv, DeductFeesInv, AnteAcceptsInv, RunMsgInv,
     MsgsSucceedInv, Zenon DEF Next
-----------------------------------------------------------------------------
(* Balances, allowances and the contracts' books stay natural numbers: no  *)
(* deduction overdraws the account it is taken from, whoever that is, and  *)
(* only contracts are asked.                                               *)
THEOREM TypeCorrect == Spec => []TypeOK
<1>1. Inv => TypeOK
  BY Zenon DEF Inv
<1> QED
  BY <1>1, InitInv, NextInv, PTL DEF Spec

(* What every account has lost is the fees of its own transactions, those  *)
(* drawn under its allowances and, for a contract, those it wrote down as  *)
(* accepted, wherever transactions fail.                                   *)
THEOREM GrantsAreCharged == Spec => []BooksAgree
<1>1. Inv => BooksAgree
  BY Zenon DEF Inv
<1> QED
  BY <1>1, InitInv, NextInv, PTL DEF Spec

(* What was drawn under an allowance and what is left of it add up to what *)
(* was given and not revoked, wherever transactions fail.                  *)
THEOREM AllowancesKept == Spec => []AllowancesAddUp
<1>1. Inv => AllowancesAddUp
  BY Zenon DEF Inv
<1> QED
  BY <1>1, InitInv, NextInv, PTL DEF Spec
=============================================================================
