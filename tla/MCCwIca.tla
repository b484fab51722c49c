------------------------------ MODULE MCCwIca ------------------------------
(***************************************************************************)
(* Instances of CwIca for TLC.                                             *)
(***************************************************************************)
EXTENDS CwIca, TLC

CONSTANTS c1, k1

(* One contract over one connection: requests of different owners meet     *)
(* only in x/cwerrors.  Subscriptions are free and last one block, so they *)
(* begin and end between an answer and the next.                           *)
MCContracts == {c1}
MCConnections == {k1}
MCAuthority == [c \in MCContracts |-> {}]
MCInitialFunds == [a \in MCContracts |-> 0]
MCParamSets == {[errorStoredTime |-> 1, subscriptionFee |-> 0, subscriptionPeriod |-> 1]}
=============================================================================
