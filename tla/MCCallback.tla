----------------------------- MODULE MCCallback -----------------------------
(***************************************************************************)
(* Instances of Callback for TLC.                                          *)
(***************************************************************************)
EXTENDS Callback, TLC

CONSTANTS c1, c2, admin, gov

(* admin controls both contracts; the governance account, whose address    *)
(* x/bank blocks, is an owner of the second one.                           *)
MCContracts == {c1, c2}
MCAccounts == {c1, c2, admin, gov}
MCBlocked == {gov}
MCAuthority == (c1 :> {admin}) @@ (c2 :> {admin, gov})

Prm(gas, block, future, bm, fm) ==
    [callbackGasLimit |-> gas,
     maxBlockReservationLimit |-> block,
     maxFutureReservationLimit |-> future,
     blockReservationFeeMultiplier |-> bm,
     futureReservationFeeMultiplier |-> fm]

(* The first contract and the admin can pay. *)
MCInitialFunds == (c1 :> 2) @@ (c2 :> 0) @@ (admin :> 2) @@ (gov :> 0)

(* Governance halves the gas limit and the block capacity. *)
MCParamSets == {Prm(2, 2, 2, 2, 1), Prm(1, 1, 2, 2, 1)}
=============================================================================
