------------------------------ MODULE MCCwFees ------------------------------
(* Two users and a contract, which may grant fees in both ways. *)
EXTENDS CwFees, TLC

CONSTANTS u1, u2, c1

MCInitialFunds == (u1 :> 1) @@ (u2 :> 1) @@ (c1 :> 2)
=============================================================================
