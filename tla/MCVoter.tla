------------------------------ MODULE MCVoter ------------------------------
(***************************************************************************)
(* Instances of Voter for TLC.                                             *)
(***************************************************************************)
EXTENDS Voter, TLC

CONSTANTS A, B, owner, yea, nay

(* Votings and funds are on B; votes come from B itself and from A. *)
MCChains == {A, B}
MCAddrs == {owner}
MCOptionSets == {{yea, nay}}
MCBallots == {Ballot(owner, yea, "yes"), Ballot(owner, nay, "no")}
MCCosts == (A :> {1}) @@ (B :> {1, 2})
MCMaxTime == (A :> 2) @@ (B :> 3)
MCMaxVotings == (A :> 0) @@ (B :> 1)
MCMaxPackets == (A :> 2) @@ (B :> 0)
MCMaxWithdrawals == (A :> 0) @@ (B :> 1)
=============================================================================
