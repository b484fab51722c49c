------------------------------- MODULE Coins -------------------------------
(***************************************************************************)
(* Arithmetic and transfers shared by the modules of the chain: decimals   *)
(* (cosmossdk.io/math LegacyDec) are integers counted in units of a named  *)
(* scale, coin amounts are natural numbers, and the bank is a function     *)
(* from accounts to amounts.                                               *)
(***************************************************************************)
EXTENDS Integers

(* LegacyDec.RoundInt: the integer nearest to n/d, a tie going to the even *)
(* neighbour.                                                              *)
RoundInt(n, d) ==
    LET q == n \div d
        r == n % d
    IN  IF 2 * r > d \/ (2 * r = d /\ q % 2 = 1) THEN q + 1 ELSE q

(* bank.SendCoins once the sender's balance has been found sufficient. *)
SendCoins(bank, from, to, amount) ==
    [bank EXCEPT ![from] = @ - amount, ![to] = @ + amount]
=============================================================================
