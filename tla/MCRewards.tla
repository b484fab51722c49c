----------------------------- MODULE MCRewards ------------------------------
(***************************************************************************)
(* Instances of Rewards for TLC.                                           *)
(***************************************************************************)
EXTENDS RewardsGenesis

CONSTANTS alice, bob, gov

MCContracts == {1, 2}
MCAddresses == {alice, bob, gov}

(* Module accounts cannot receive coins. *)
MCBlocked == {gov}

MCAdmin == [c \in MCContracts |-> IF c = 1 THEN alice ELSE bob]

(* Contract 1 has no rewards address yet, contract 2 no metadata. *)
MCInitialMetadata == [c \in MCContracts |->
    IF c = 1 THEN [ownerAddress |-> alice, rewardsAddress |-> None, withdrawToWallet |-> FALSE]
    ELSE None]

(* Three contracts, as many as it takes for rounded shares to exceed the   *)
(* whole.  The first may have a flat fee, the second has no rewards        *)
(* address yet, the third is paid at once.                                 *)
ThreeContracts == {1, 2, 3}
ThreeAdmins == [c \in ThreeContracts |-> bob]
ThreeMetadata == [c \in ThreeContracts |->
    [ownerAddress |-> bob,
     rewardsAddress |-> CASE c = 1 -> alice [] c = 2 -> None [] OTHER -> bob,
     withdrawToWallet |-> c = 3]]

MCFunds == [a \in MCAddresses |-> IF a = alice THEN 30 ELSE 0]

Ratios(inflation, rebate, max) ==
    [inflationRewardsRatio |-> inflation, txFeeRebateRatio |-> rebate,
     maxWithdrawRecords |-> max, minPriceOfGas |-> Precision]
MCParams == {Ratios(5, 5, 2)}

(* Governance switches the inflation rewards off and on. *)
SwitchedParams == {Ratios(3, 3, 2), Ratios(0, 3, 1)}

Op(c, g) == [contract |-> c, gas |-> g]
MCSessions == {<<Op(1, 3)>>, <<Op(2, 1), Op(1, 2)>>}
ThreeSessions == {<<Op(1, 3)>>, <<Op(2, 1), Op(1, 1), Op(3, 1)>>}

Tx(calls, wrapped, fee, gas) ==
    [payer |-> alice, calls |-> calls, wrapped |-> wrapped, fee |-> fee, gas |-> gas]
MCTxs == {Tx(<<1>>, FALSE, 9, 3), Tx(<<1, 2>>, FALSE, 9, 2)}

(* A call, a call inside MsgExec and a transaction without one. *)
MixedTxs == {Tx(<<1>>, FALSE, 9, 3), Tx(<<1>>, TRUE, 9, 3), Tx(<<>>, FALSE, 8, 3)}

Update(rewards, wallet) ==
    [ownerAddress |-> None, rewardsAddress |-> rewards, withdrawToWallet |-> wallet]
MCUpdates == {Update(bob, FALSE), Update(None, TRUE), Update(gov, TRUE)}
ThreeUpdates == {Update(bob, FALSE), Update(gov, TRUE)}

(* Without flat fees: a contract of each kind. *)
ParamMetadata == [c \in MCContracts |->
    [ownerAddress |-> alice, rewardsAddress |-> IF c = 1 THEN alice ELSE bob,
     withdrawToWallet |-> c = 2]]

(* A call, and a transaction without one, over three blocks. *)
GenesisTxs == {Tx(<<1>>, FALSE, 9, 3), Tx(<<>>, FALSE, 5, 2)}

(* A call inside MsgExec, at the minimum price. *)
WrappedTxs == {Tx(<<1>>, TRUE, 9, 3)}

(* The rebate is switched off. *)
NoRebate == {Ratios(5, 0, 2)}
=============================================================================
