----------------------------- MODULE MCCwErrors -----------------------------
(***************************************************************************)
(* Instances of CwErrors for TLC.                                          *)
(***************************************************************************)
EXTENDS CwErrors, TLC

CONSTANTS c1, c2, admin

(* admin controls the first contract; the second has only itself. *)
MCContracts == {c1, c2}
MCAccounts == {c1, c2, admin}
MCAuthority == (c1 :> {admin}) @@ (c2 :> {})
MCInitialFunds == (c1 :> 1) @@ (c2 :> 0) @@ (admin :> 1)

Prm(stored, fee, period) ==
    [errorStoredTime |-> stored, subscriptionFee |-> fee, subscriptionPeriod |-> period]

(* Governance shortens the subscription and lengthens the storage. *)
MCParamSets == {Prm(1, 0, 2), Prm(2, 1, 1)}
=============================================================================
