----------------------------- MODULE MCTracking -----------------------------
(***************************************************************************)
(* Instances of Tracking for TLC.                                          *)
(***************************************************************************)
EXTENDS Tracking

CONSTANTS c1, c2

MCContracts == {c1, c2}

Gas(c, g) == [contract |-> c, gas |-> g]

(* One contract alone, one calling the other, and a call without gas. *)
MCSessions == {<<Gas(c1, 2)>>, <<Gas(c1, 1), Gas(c2, 3)>>, <<Gas(c2, 0)>>}
=============================================================================
