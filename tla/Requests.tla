------------------------------ MODULE Requests ------------------------------
(***************************************************************************)
(* What x/cwica promises a contract about the transactions it asks another *)
(* chain to execute: each is executed at most once or fails, the contract  *)
(* learns of it at most once, and what it learns is what happened.         *)
(***************************************************************************)
EXTENDS Naturals

CONSTANTS MaxRequests   \* bound: requests made

VARIABLES
    outcome,    \* request -> what became of it
    knows       \* request -> what its contract has been told

vars == <<outcome, knows>>

Ids == 1..MaxRequests
Final == {"executed", "failed"}

Init ==
    /\ outcome = [r \in Ids |-> "none"]
    /\ knows = [r \in Ids |-> "nothing"]

(* A request may come too late to be executed. *)
Submit(r) ==
    /\ outcome[r] = "none"
    /\ \E o \in {"pending", "failed"} : outcome' = [outcome EXCEPT ![r] = o]
    /\ UNCHANGED knows

(* One step of the other chain may settle several requests. *)
Settle ==
    /\ \A r \in Ids : outcome'[r] = outcome[r] \/ (outcome[r] = "pending" /\ outcome'[r] \in Final)
    /\ outcome' = [r \in Ids |-> outcome'[r]]
    /\ UNCHANGED knows

Learn(r) ==
    /\ outcome[r] \in Final
    /\ knows[r] = "nothing"
    /\ knows' = [knows EXCEPT ![r] = outcome[r]]
    /\ UNCHANGED outcome

Next ==
    \/ \E r \in Ids : Submit(r)
    \/ Settle
    \/ \E r \in Ids : Learn(r)

Spec == Init /\ [][Next]_vars
=============================================================================
