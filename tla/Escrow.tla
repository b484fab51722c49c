------------------------------- MODULE Escrow -------------------------------
(***************************************************************************)
(* What x/callback promises about money, and nothing else: a deposit is    *)
(* taken from a payer for a key, is held, and is settled once, the whole   *)
(* of it, part going to some account and the rest to the collector.  Work  *)
(* done in a branch is kept or undone as a whole.                          *)
(***************************************************************************)
EXTENDS Coins

CONSTANTS
    Payers,     \* accounts deposits come from and refunds go to
    Vault,      \* account the deposits are held in
    Collector   \* account that receives what is not refunded

VARIABLES
    deposits,   \* set of [key, amount]
    bank,       \* account -> balance
    branch      \* {} or, of the open branch, the deposits and bank to go back to

vars == <<deposits, bank, branch>>

Init ==
    /\ deposits = {}
    /\ bank[Vault] = 0
    /\ branch = {}

(* The key of a new deposit is not in use. *)
Deposit(payer, d) ==
    /\ \A e \in deposits : e.key # d.key
    /\ deposits' = deposits \cup {d}
    /\ bank[payer] >= d.amount
    /\ bank' = SendCoins(bank, payer, Vault, d.amount)
    /\ UNCHANGED branch

Settle(payee, d, refund) ==
    /\ bank[Vault] >= d.amount
    /\ deposits' = deposits \ {d}
    /\ bank' = SendCoins(SendCoins(bank, Vault, payee, refund),
                         Vault, Collector, d.amount - refund)
    /\ UNCHANGED branch

OpenBranch ==
    /\ branch = {}
    /\ branch' = {[deposits |-> deposits, bank |-> bank]}
    /\ UNCHANGED <<deposits, bank>>

Commit ==
    /\ branch # {}
    /\ branch' = {}
    /\ UNCHANGED <<deposits, bank>>

Rollback ==
    /\ \E b \in branch : deposits' = b.deposits /\ bank' = b.bank
    /\ branch' = {}

Next ==
    \/ \E payer \in Payers, d \in deposits' : Deposit(payer, d)
    \/ \E payee \in Payers \cup {Collector}, d \in deposits :
         \E refund \in 0..d.amount : Settle(payee, d, refund)
    \/ OpenBranch
    \/ Commit
    \/ Rollback

Spec == Init /\ [][Next]_vars
=============================================================================
