------------------------------- MODULE CwFees -------------------------------
(***************************************************************************)
(* x/cwfees and the part of the fee deduction that decides who pays.  A    *)
(* contract registers as a granter; a transaction that names it as its fee *)
(* granter makes the ante handler call the contract, which accepts or      *)
(* refuses.  Any other granter is charged through x/feegrant.              *)
(*                                                                         *)
(* A transaction writes into a branch of the store.  Its ante handler runs *)
(* in stages, each of which may fail: choosing who pays, deducting, and    *)
(* the decorators that come later.  Its failure drops the branch; its      *)
(* success commits it, and the messages run in a new one.  There is one    *)
(* denomination; how the fee is then divided is in Rewards.                *)
(***************************************************************************)
EXTENDS Integers, FiniteSets, Functions

CONSTANTS
    Users,                  \* accounts with a key
    Contracts,              \* accounts of contracts
    InitialFunds,           \* account -> its balance at the start
    Fees,                   \* fees of transactions
    Allowances,             \* spend limits of x/feegrant allowances
    GasAmounts,             \* gas a transaction has left, or a contract uses
    RequestGrantGasLimit,   \* 100_000 in the code
    None                    \* no transaction, no account

VARIABLES
    phase,          \* "ante" between transactions, or the stage of the one that runs
    tx,             \* the transaction that runs
    deductFeesFrom, \* the account getFeePayer chose
    store,          \* the branch that is written to
    committed,      \* the store a failure falls back to
    paid            \* history: [granter, grantee] -> fees of transactions of the
                    \*   grantee that the granter owed, as payer or by allowance

vars == <<phase, tx, deductFeesFrom, store, committed, paid>>

Accounts == Users \cup Contracts
Pairs == [granter : Accounts, grantee : Users]
Txs == [payer : Users, granter : Accounts \cup {None}, signers : {1, 2}, fee : Fees,
        gas : GasAmounts]
Replies == [grants : BOOLEAN, leaves : BOOLEAN, gas : GasAmounts]

(* The registered granters, the balances, what is left of each allowance,  *)
(* the fees a contract accepted by its own storage, and, as a history, the *)
(* allowances given and not revoked, used or not.                          *)
Stores == [granting : SUBSET Contracts, bank : [Accounts -> Nat], allowance : [Pairs -> Nat],
           granted : [Contracts -> Nat], approved : [Pairs -> Nat]]

ASSUME CwFeesAssumptions ==
    /\ IsFiniteSet(Users) /\ Users \cap Contracts = {} /\ None \notin Accounts
    /\ InitialFunds \in [Accounts -> Nat]
    /\ Fees \subseteq Nat /\ Allowances \subseteq Nat \ {0}
    /\ GasAmounts \subseteq Nat /\ RequestGrantGasLimit \in Nat

Init ==
    /\ phase = "ante" /\ tx = None /\ deductFeesFrom = None
    /\ store = [granting |-> {}, bank |-> InitialFunds, allowance |-> [p \in Pairs |-> 0],
                granted |-> [c \in Contracts |-> 0], approved |-> [p \in Pairs |-> 0]]
    /\ committed = store
    /\ paid = [p \in Pairs |-> 0]
-----------------------------------------------------------------------------
(* DeductFeeDecorator.AnteHandle.  First, getFeePayer: the payer, a        *)
(* granting contract that accepts, or the granter of an allowance.         *)
PaysItself == tx.granter \in {None, tx.payer}
Pair == [granter |-> IF PaysItself THEN tx.payer ELSE tx.granter, grantee |-> tx.payer]

IsGrantingContract(a) == a \in store.granting

AnteHandle(t) ==
    /\ phase = "ante" /\ phase' = "payer"
    /\ tx' = t
    /\ UNCHANGED <<deductFeesFrom, store, committed, paid>>

UsePayer == PaysItself /\ UNCHANGED store

(* The contract is called once, within the gas left to the transaction and *)
(* RequestGrantGasLimit, and only for a transaction with one signer.  When *)
(* it accepts, it writes down the fee, and it may unregister itself.       *)
RequestGrant(reply) ==
    /\ ~PaysItself /\ IsGrantingContract(tx.granter)
    /\ tx.signers = 1
    /\ reply.grants
    /\ reply.gas <= tx.gas /\ reply.gas <= RequestGrantGasLimit
    /\ store' = [store EXCEPT
           !.granted[tx.granter] = @ + tx.fee,
           !.granting = IF reply.leaves THEN @ \ {tx.granter} ELSE @]

(* Mutant: a contract that refuses is charged under an allowance of its.   *)
UseGrantedFeesAfterRefusal ==
    /\ ~PaysItself
    /\ store.allowance[Pair] > 0 /\ tx.fee <= store.allowance[Pair]
    /\ store' = [store EXCEPT !.allowance[Pair] = @ - tx.fee]

(* x/feegrant takes the fee off the allowance. *)
UseGrantedFees ==
    /\ ~PaysItself /\ ~IsGrantingContract(tx.granter)
    /\ store.allowance[Pair] > 0 /\ tx.fee <= store.allowance[Pair]
    /\ store' = [store EXCEPT !.allowance[Pair] = @ - tx.fee]

GetFeePayer(reply) ==
    /\ phase = "payer" /\ phase' = "deduct"
    /\ UsePayer \/ RequestGrant(reply) \/ UseGrantedFees
    /\ deductFeesFrom' = IF PaysItself THEN tx.payer ELSE tx.granter
    /\ UNCHANGED <<tx, committed, paid>>

(* Then deductFees, which fails when the account lacks the funds. *)
DeductFees ==
    /\ phase = "deduct" /\ phase' = "next"
    /\ tx.fee <= store.bank[deductFeesFrom]
    /\ store' = [store EXCEPT !.bank[deductFeesFrom] = @ - tx.fee]
    /\ UNCHANGED <<tx, deductFeesFrom, committed, paid>>

(* The decorators that come later, the check of the signatures among them, *)
(* accept: the branch is written.  The payer owed the fee, or the granter  *)
(* who was not registered when the transaction came.                       *)
AnteAccepts ==
    /\ phase = "next" /\ phase' = "msgs"
    /\ committed' = store
    /\ paid' = IF PaysItself \/ tx.granter \notin committed.granting
               THEN [paid EXCEPT ![Pair] = @ + tx.fee] ELSE paid
    /\ tx' = None /\ deductFeesFrom' = None
    /\ UNCHANGED store

(* Mutant: what a contract wrote outlives the branch. *)
AnteFailsKeepingGrant ==
    /\ phase \in {"payer", "deduct", "next"} /\ phase' = "ante"
    /\ store' = [committed EXCEPT !.granted = store.granted]
    /\ committed' = store'
    /\ tx' = None /\ deductFeesFrom' = None
    /\ UNCHANGED paid

(* A stage fails: nobody may be charged, the account lacks the funds, or a *)
(* later decorator refuses.  The branch is dropped.                        *)
AnteFails ==
    /\ phase \in {"payer", "deduct", "next"} /\ phase' = "ante"
    /\ store' = committed
    /\ tx' = None /\ deductFeesFrom' = None
    /\ UNCHANGED <<committed, paid>>
-----------------------------------------------------------------------------
(* The messages.  A contract registers and unregisters itself. *)
RegisterAsGranter(a) ==
    /\ a \in Contracts /\ ~IsGrantingContract(a)
    /\ store' = [store EXCEPT !.granting = @ \cup {a}]

UnregisterAsGranter(a) ==
    /\ IsGrantingContract(a)
    /\ store' = [store EXCEPT !.granting = @ \ {a}]

GrantAllowance(p, limit) ==
    /\ store.allowance[p] = 0 /\ p.granter # p.grantee
    /\ store' = [store EXCEPT !.allowance[p] = limit, !.approved[p] = @ + limit]

RevokeAllowance(p) ==
    /\ store.allowance[p] > 0 /\ p.granter # p.grantee
    /\ store' = [store EXCEPT !.allowance[p] = 0, !.approved[p] = @ - store.allowance[p]]

RunMsg ==
    /\ phase = "msgs"
    /\ \/ \E a \in Accounts : RegisterAsGranter(a) \/ UnregisterAsGranter(a)
       \/ \E p \in Pairs : RevokeAllowance(p) \/ \E l \in Allowances : GrantAllowance(p, l)
    /\ UNCHANGED <<phase, tx, deductFeesFrom, committed, paid>>

MsgsSucceed ==
    /\ phase = "msgs" /\ phase' = "ante"
    /\ committed' = store
    /\ UNCHANGED <<tx, deductFeesFrom, store, paid>>

(* A message fails: what the messages before it wrote is dropped, what the *)
(* ante handler wrote stays.                                               *)
MsgsFail ==
    /\ phase = "msgs" /\ phase' = "ante"
    /\ store' = committed
    /\ UNCHANGED <<tx, deductFeesFrom, committed, paid>>

Next ==
    \/ \E t \in Txs : AnteHandle(t)
    \/ \E reply \in Replies : GetFeePayer(reply)
    \/ DeductFees
    \/ AnteAccepts
    \/ AnteFails
    \/ RunMsg
    \/ MsgsSucceed
    \/ MsgsFail

Spec == Init /\ [][Next]_vars
-----------------------------------------------------------------------------
(* Balances and allowances stay natural numbers, and every granter the ante *)
(* handler may ask is an account with code (RegisterAsGranter checks it).   *)
TypeOK ==
    /\ phase \in {"ante", "payer", "deduct", "next", "msgs"}
    /\ tx \in Txs \cup {None} /\ deductFeesFrom \in Accounts \cup {None}
    /\ store \in Stores /\ committed \in Stores
    /\ paid \in [Pairs -> Nat]

PaidBy(a) ==
    SumFunctionOnSet([u \in Users |-> paid[[granter |-> a, grantee |-> u]]], Users)

(* What every account has lost is what it owed: the fees of its own         *)
(* transactions, the fees drawn under allowances it gave to others, and,    *)
(* for a contract, the fees it wrote down as accepted while it was          *)
(* registered.  The contract is called before the deduction and before      *)
(* signatures are checked: what it wrote is kept exactly when it is         *)
(* charged, whichever stage or message fails, and a contract that refuses   *)
(* is not charged in another way.                                           *)
BooksAgree ==
    \A a \in Accounts :
        committed.bank[a] + PaidBy(a) + (IF a \in Contracts THEN committed.granted[a] ELSE 0)
            = InitialFunds[a]

(* What was paid under an allowance and what is left of it add up to what   *)
(* the granter gave: getFeePayer uses the allowance before the deduction,   *)
(* and either both are kept or neither.                                     *)
AllowancesAddUp ==
    \A p \in Pairs : p.granter # p.grantee =>
        paid[p] + committed.allowance[p] = committed.approved[p]
=============================================================================
