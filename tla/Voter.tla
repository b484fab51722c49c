-------------------------------- MODULE Voter --------------------------------
(***************************************************************************)
(* The voter contract (contracts/go/voter), deployed on two chains whose   *)
(* instances are joined by an unordered IBC channel.  Addresses pay to     *)
(* create votings and to vote; an address of the other chain votes free of *)
(* charge with a packet, and its own contract keeps the status of what was *)
(* sent.  The owner takes the funds out, and the contract withdraws the    *)
(* rewards x/rewards has recorded for it; both continue in a reply.        *)
(*                                                                         *)
(* A call is one step with its sub-messages and replies: nothing runs in   *)
(* between, and an error undoes all of it.  Entry points that change no    *)
(* state of the contract (queries, CustomCustom, CustomUpdateMetadata,     *)
(* Fail, ReplyOnError, the channel handshake) are not steps.               *)
(***************************************************************************)
EXTENDS Integers, Sequences

CONSTANTS
    Chains,         \* the two chains
    Addrs,          \* addresses that call the contracts
    Owner,          \* Params.OwnerAddr, on both chains
    OptionSets,     \* NewVotingRequest.VoteOptions, as sets
    Ballots,        \* votes that are cast: address, option, yes or no
    Durations,      \* NewVotingRequest.Duration
    Costs,          \* costs governance may choose, per chain
    Funds,          \* amounts sent with a message, 0 for none
    IBCSendTimeout, \* Params.IBCSendTimeout
    TimeModulus,    \* timestamps are unsigned words
    Rewards,        \* amounts withdrawn from x/rewards
    MaxVotings,     \* bounds per chain: votings created,
    MaxPackets,     \* packets sent,
    MaxWithdrawals, \* withdrawals
    MaxTime         \* and the clock

VARIABLES
    time,           \* env.Block.Time
    costs,          \* Params.NewVotingCost, Params.VoteCost
    balance,        \* funds of the contract
    lastVotingID,   \* LastVotingIDKey, NoID while it is not set
    votings,        \* VotingKey: identifier -> Voting, ZeroVoting if there is none
    ibcStats,       \* IBCStatsKey: <<sender, identifier>> -> status
    packets,        \* packets sent, with what the receiver acknowledged
    inFlight,       \* those with no acknowledgement or timeout yet
    replyMsgType,   \* ReplyMsgTypeKey of the reply identifier
    releaseStats,   \* ReleaseStatsKey
    withdrawStats,  \* WithdrawStatsKey
    released,       \* releases done, and their amount
    withdrawn       \* withdrawals done, and their amount

votingVars == <<lastVotingID, votings>>
ibcVars == <<ibcStats, packets, inFlight>>
replyVars == <<replyMsgType, releaseStats, withdrawStats, released, withdrawn>>
vars == <<time, costs, balance, votingVars, ibcVars, replyVars>>

NoID == -1
VotingIDs == UNION {0..(MaxVotings[c] - 1) : c \in Chains}
Options == UNION OptionSets
Statuses == {"none", "sent", "acked", "rejected", "timed out"}
Votes == [addr : Addrs, option : Options, vote : {"yes", "no"}]
Votings == [options : SUBSET Options, start : Nat, duration : Nat, end : Nat, votes : Seq(Votes)]
Packets == [source : Chains, sequence : Nat, from : Addrs, id : VotingIDs, option : Options,
            vote : {"yes", "no"}, timeout : Nat, ack : {"none", "ok", "failure"}]
Totals == [count : Nat, amount : Nat]

ASSUME VoterAssumptions ==
    /\ Owner \in Addrs
    /\ Ballots \subseteq Votes
    /\ Durations \subseteq 1..(TimeModulus - 1)
    /\ Costs \in [Chains -> SUBSET Nat]
    /\ Funds \subseteq Nat /\ Rewards \subseteq Nat
    /\ IBCSendTimeout \in Nat \ {0}
    /\ TimeModulus \in Nat \ {0}
    /\ MaxVotings \in [Chains -> Nat] /\ MaxPackets \in [Chains -> Nat]
    /\ MaxWithdrawals \in [Chains -> Nat]
    /\ MaxTime \in [Chains -> 1..(TimeModulus - 1)]
-----------------------------------------------------------------------------
ZeroVoting == [options |-> {}, start |-> 0, duration |-> 0, end |-> 0, votes |-> <<>>]
Nothing == [count |-> 0, amount |-> 0]

Init ==
    /\ time = [c \in Chains |-> 1]
    /\ \E p \in [Chains -> UNION {Costs[c] : c \in Chains}] :
           /\ \A c \in Chains : p[c] \in Costs[c]
           /\ costs = [c \in Chains |-> [newVoting |-> p[c], vote |-> p[c]]]
    /\ balance = [c \in Chains |-> 0]
    /\ lastVotingID = [c \in Chains |-> NoID]
    /\ votings = [c \in Chains |-> [i \in VotingIDs |-> ZeroVoting]]
    /\ ibcStats = [c \in Chains |-> [k \in Addrs \X VotingIDs |-> "none"]]
    /\ packets = {} /\ inFlight = {}
    /\ replyMsgType = [c \in Chains |-> "none"]
    /\ releaseStats = [c \in Chains |-> Nothing]
    /\ withdrawStats = [c \in Chains |-> Nothing]
    /\ released = [c \in Chains |-> Nothing]
    /\ withdrawn = [c \in Chains |-> Nothing]

(* A coin of the denomination has to be among the funds, also when it may  *)
(* be zero.                                                                *)
CoinsContainMinAmount(funds, cost) == funds > 0 /\ funds >= cost

Plus(a, b) == (a + b) % TimeModulus

NewVoting(options, start, duration) ==
    [options |-> options, start |-> start, duration |-> duration,
     end |-> Plus(start, duration), votes |-> <<>>]

(* Mutant: the last moment counts as over. *)
IsClosedAtEnd(voting, now) == now >= voting.end

IsClosed(voting, now) == now > voting.end

(* Mutant: only the votes for the same option are looked at. *)
HasVoteForOption(voting, ballot) ==
    \E i \in DOMAIN voting.votes :
        voting.votes[i].addr = ballot.addr /\ voting.votes[i].option = ballot.option

HasVote(voting, ballot) ==
    \E i \in DOMAIN voting.votes : voting.votes[i].addr = ballot.addr

(* Mutant: votings are numbered by the last identifier itself. *)
NextVotingIDSame(c) == IF lastVotingID[c] = NoID THEN 0 ELSE lastVotingID[c]

NextVotingID(c) == lastVotingID[c] + 1

GetVoting(c, id) == votings[c][id]

SetVoting(c, id, voting) == votings' = [votings EXCEPT ![c][id] = voting]

HandleMsgNewVoting(c, options, duration, funds) ==
    LET id == NextVotingID(c)
    IN  /\ id < MaxVotings[c]
        /\ CoinsContainMinAmount(funds, costs[c].newVoting)
        /\ lastVotingID' = [lastVotingID EXCEPT ![c] = id]
        /\ SetVoting(c, id, NewVoting(options, time[c], duration))
        /\ balance' = [balance EXCEPT ![c] = @ + funds]
        /\ UNCHANGED <<time, costs, ibcVars, replyVars>>

Ballot(addr, option, vote) == [addr |-> addr, option |-> option, vote |-> vote]

(* What handleMsgVote and handleIBCMsgVote ask before they add a vote. *)
Accepts(c, id, ballot) ==
    LET voting == GetVoting(c, id)
    IN  /\ voting # ZeroVoting
        /\ ~IsClosed(voting, time[c])
        /\ ~HasVote(voting, ballot)
        /\ ballot.option \in voting.options

AddVote(c, id, ballot) ==
    SetVoting(c, id, [GetVoting(c, id) EXCEPT !.votes = Append(@, ballot)])

HandleMsgVote(c, id, ballot, funds) ==
    /\ CoinsContainMinAmount(funds, costs[c].vote)
    /\ Accepts(c, id, ballot)
    /\ AddVote(c, id, ballot)
    /\ balance' = [balance EXCEPT ![c] = @ + funds]
    /\ UNCHANGED <<time, costs, lastVotingID, ibcVars, replyVars>>
-----------------------------------------------------------------------------
(* Votes over IBC.  A status is kept by sender and voting: a second packet *)
(* for the same voting takes the first one's place.                        *)

SentBy(c) == {p \in packets : p.source = c}

HandleMsgSendIBCVote(c, id, ballot, sequence) ==
    LET packet == [source |-> c, sequence |-> sequence, from |-> ballot.addr, id |-> id,
                   option |-> ballot.option, vote |-> ballot.vote,
                   timeout |-> Plus(time[c], IBCSendTimeout), ack |-> "none"]
    IN  /\ \A p \in SentBy(c) : p.sequence < sequence
        /\ packets' = packets \cup {packet}
        /\ inFlight' = inFlight \cup {<<c, sequence>>}
        /\ ibcStats' = [ibcStats EXCEPT ![c][<<ballot.addr, id>>] = "sent"]
        /\ UNCHANGED <<time, costs, balance, votingVars, replyVars>>

Acknowledge(p, ack) == packets' = (packets \ {p}) \cup {[p EXCEPT !.ack = ack]}

(* A refused vote changes nothing and is acknowledged as a failure. *)
HandleIBCMsgVote(c, p) ==
    LET ballot == Ballot(p.from, p.option, p.vote)
    IN  /\ p.ack = "none"
        /\ time[c] < p.timeout
        /\ \/ Accepts(c, p.id, ballot) /\ AddVote(c, p.id, ballot) /\ Acknowledge(p, "ok")
           \/ ~Accepts(c, p.id, ballot) /\ UNCHANGED votings /\ Acknowledge(p, "failure")
        /\ UNCHANGED <<time, costs, balance, lastVotingID, ibcStats, inFlight, replyVars>>

(* External: the packet's commitment is deleted with its answer. *)
Answered(p) ==
    /\ <<p.source, p.sequence>> \in inFlight
    /\ inFlight' = inFlight \ {<<p.source, p.sequence>>}

SetIBCStats(p, status) == ibcStats' = [ibcStats EXCEPT ![p.source][<<p.from, p.id>>] = status]

(* Mutant: the acknowledgement's data is not compared. *)
AckedWhatever(p) == "acked"

AckStatus(p) == IF p.ack = "ok" THEN "acked" ELSE "rejected"

HandleIBCAckVote(p) ==
    /\ p.ack # "none"
    /\ Answered(p)
    /\ SetIBCStats(p, AckStatus(p))
    /\ UNCHANGED <<time, costs, balance, votingVars, packets, replyVars>>

(* Mutant: the status stays. *)
TimeoutUnnoticed(p) ==
    /\ p.ack = "none"
    /\ \A c \in Chains : c # p.source => time[c] >= p.timeout
    /\ Answered(p)
    /\ UNCHANGED <<time, costs, balance, votingVars, packets, ibcStats, replyVars>>

HandleIBCTimeoutVote(p) ==
    /\ p.ack = "none"
    /\ \A c \in Chains : c # p.source => time[c] >= p.timeout
    /\ Answered(p)
    /\ SetIBCStats(p, "timed out")
    /\ UNCHANGED <<time, costs, balance, votingVars, packets, replyVars>>
-----------------------------------------------------------------------------
(* Calls that continue in a reply.  The reply identifier is always 0 (the  *)
(* last one is never stored), so what is read back is what the call wrote. *)

(* Mutant: an entry that is there is kept. *)
SetReplyOnce(c, type) == IF replyMsgType[c] = "none" THEN type ELSE replyMsgType[c]

SetReplyMsgType(c, type) == type

Add(stats, amount) == [count |-> stats.count + 1, amount |-> stats.amount + amount]

(* The amount of the transfer event, where the chain passes such events on *)
(* to the contract; the amount in x/rewards' response.                     *)
HandleReplyBankMsg(c, transferred) ==
    /\ releaseStats' = [releaseStats EXCEPT ![c] = Add(@, transferred)]
    /\ UNCHANGED withdrawStats

HandleReplyCustomWithdrawMsg(c, totalRewards) ==
    /\ withdrawStats' = [withdrawStats EXCEPT ![c] = Add(@, totalRewards)]
    /\ UNCHANGED releaseStats

Reply(c, type, transferred, totalRewards) ==
    \/ type = "bank" /\ HandleReplyBankMsg(c, transferred)
    \/ type = "withdraw" /\ HandleReplyCustomWithdrawMsg(c, totalRewards)

(* External: the bank refuses a transfer of nothing. *)
HandleMsgRelease(c, sender, eventsPassed) ==
    LET type == SetReplyMsgType(c, "bank")
        funds == balance[c]
    IN  /\ sender = Owner
        /\ funds > 0
        /\ balance' = [balance EXCEPT ![c] = 0]
        /\ replyMsgType' = [replyMsgType EXCEPT ![c] = type]
        /\ Reply(c, type, IF eventsPassed THEN funds ELSE 0, 0)
        /\ released' = [released EXCEPT ![c] = Add(@, funds)]
        /\ UNCHANGED <<time, costs, votingVars, ibcVars, withdrawn>>

(* External: x/rewards pays the contract's records out to it. *)
HandleMsgWithdrawRewards(c, amount) ==
    LET type == SetReplyMsgType(c, "withdraw")
    IN  /\ withdrawn[c].count < MaxWithdrawals[c]
        /\ balance' = [balance EXCEPT ![c] = @ + amount]
        /\ replyMsgType' = [replyMsgType EXCEPT ![c] = type]
        /\ Reply(c, type, 0, amount)
        /\ withdrawn' = [withdrawn EXCEPT ![c] = Add(@, amount)]
        /\ UNCHANGED <<time, costs, votingVars, ibcVars, released>>

HandleSudoChangeNewVotingCost(c, cost) ==
    /\ costs' = [costs EXCEPT ![c].newVoting = cost]
    /\ UNCHANGED <<time, balance, votingVars, ibcVars, replyVars>>

HandleSudoChangeVoteCost(c, cost) ==
    /\ costs' = [costs EXCEPT ![c].vote = cost]
    /\ UNCHANGED <<time, balance, votingVars, ibcVars, replyVars>>

NextBlock(c) ==
    /\ time[c] < MaxTime[c]
    /\ time' = [time EXCEPT ![c] = @ + 1]
    /\ UNCHANGED <<costs, balance, votingVars, ibcVars, replyVars>>
-----------------------------------------------------------------------------
(* The entry points of the contract. *)

Execute(c) ==
    \/ \E sender \in Addrs, passed \in BOOLEAN : HandleMsgRelease(c, sender, passed)
    \/ \E options \in OptionSets, d \in Durations, f \in Funds :
           HandleMsgNewVoting(c, options, d, f)
    \/ \E id \in VotingIDs, ballot \in Ballots, f \in Funds : HandleMsgVote(c, id, ballot, f)
    \/ \E id \in VotingIDs, ballot \in Ballots, n \in 1..MaxPackets[c] :
           HandleMsgSendIBCVote(c, id, ballot, n)
    \/ \E amount \in Rewards : HandleMsgWithdrawRewards(c, amount)

Sudo(c) ==
    \E cost \in Costs[c] :
        HandleSudoChangeNewVotingCost(c, cost) \/ HandleSudoChangeVoteCost(c, cost)

IBCPacketReceive(c) == \E p \in packets : p.source # c /\ HandleIBCMsgVote(c, p)

IBCPacketAck(c) == \E p \in SentBy(c) : HandleIBCAckVote(p)

IBCPacketTimeout(c) == \E p \in SentBy(c) : HandleIBCTimeoutVote(p)

Next ==
    \E c \in Chains :
        \/ Execute(c)
        \/ Sudo(c)
        \/ IBCPacketReceive(c)
        \/ IBCPacketAck(c)
        \/ IBCPacketTimeout(c)
        \/ NextBlock(c)

Spec == Init /\ [][Next]_vars
-----------------------------------------------------------------------------
(* Type invariant: what every part of the contracts' storage can hold. *)
TypeOK ==
    /\ time \in [Chains -> 1..(TimeModulus - 1)]
    /\ costs \in [Chains -> [newVoting : Nat, vote : Nat]]
    /\ balance \in [Chains -> Nat]
    /\ lastVotingID \in [Chains -> VotingIDs \cup {NoID}]
    /\ votings \in [Chains -> [VotingIDs -> Votings]]
    /\ ibcStats \in [Chains -> [Addrs \X VotingIDs -> Statuses]]
    /\ packets \in SUBSET Packets
    /\ inFlight \subseteq {<<p.source, p.sequence>> : p \in packets}
    /\ replyMsgType \in [Chains -> {"none", "bank", "withdraw"}]
    /\ releaseStats \in [Chains -> Totals] /\ withdrawStats \in [Chains -> Totals]
    /\ released \in [Chains -> Totals] /\ withdrawn \in [Chains -> Totals]

(* An address has at most one vote in a voting, whichever option it chose  *)
(* and whether the vote came from this chain or, once or twice, from the   *)
(* other ("no duplicates allowed" in a tally).                             *)
OneVote ==
    \A c \in Chains, id \in VotingIDs :
        LET votes == votings[c][id].votes
        IN  \A i, j \in DOMAIN votes : votes[i].addr = votes[j].addr => i = j

(* A voting that was created is not lost or replaced, its terms do not     *)
(* change, its votes are only added to, and nothing is added once it is    *)
(* over, however late the packet with the vote arrives.                    *)
VotingsKept ==
    [][\A c \in Chains, id \in VotingIDs :
          LET v == votings[c][id]
              w == votings'[c][id]
          IN  v # ZeroVoting =>
                  /\ w.options = v.options /\ w.start = v.start /\ w.end = v.end
                  /\ \A i \in DOMAIN v.votes : i \in DOMAIN w.votes /\ w.votes[i] = v.votes[i]
                  /\ time[c] > v.end => w = v]_vars

(* The receiving contract has counted the vote of every sender whose       *)
(* contract says "acked", also after further packets for the same voting.  *)
AckedIsCounted ==
    \A c \in Chains, k \in Addrs \X VotingIDs :
        ibcStats[c][k] = "acked" =>
            \E d \in Chains \ {c} :
                \E i \in DOMAIN votings[d][k[2]].votes : votings[d][k[2]].votes[i].addr = k[1]

(* What became of a packet: in flight, counted, refused, or never          *)
(* received.                                                               *)
StatusOfPacket(p) ==
    IF <<p.source, p.sequence>> \in inFlight THEN "sent"
    ELSE IF p.ack = "ok" THEN "acked"
    ELSE IF p.ack = "failure" THEN "rejected"
    ELSE "timed out"

(* The status of a vote that was sent says what became of one of its       *)
(* packets, of the only one if it was not sent again: a later answer, in   *)
(* whatever order answers come, leaves no status that is true of none.     *)
StatusIsTrue ==
    \A p \in packets :
        \E q \in SentBy(p.source) :
            /\ q.from = p.from /\ q.id = p.id
            /\ ibcStats[p.source][<<p.from, p.id>>] = StatusOfPacket(q)

(* The iterator over votings has no upper bound: it also yields the        *)
(* withdraw statistics, read as a voting that has no fields.               *)
IterateVotings(c) ==
    {<<id, votings[c][id]>> : id \in {i \in VotingIDs : votings[c][i] # ZeroVoting}}
        \cup (IF withdrawStats[c].count > 0 THEN {<<0, ZeroVoting>>} ELSE {})

QueryOpen(c) == {y[1] : y \in {x \in IterateVotings(c) : ~IsClosed(x[2], time[c])}}

(* The query for open votings returns those whose duration has not passed, *)
(* their last moment included, and no other; a voting whose end does not   *)
(* fit the timestamp is never open.                                        *)
OpenForDuration ==
    \A c \in Chains, id \in VotingIDs :
        LET v == votings[c][id]
            end == v.start + v.duration
        IN  id \in QueryOpen(c) <=> v # ZeroVoting /\ end < TimeModulus /\ time[c] <= end

(* Every reply finds the handler of the call it answers, although all      *)
(* calls use one reply identifier: releases and withdrawals are counted    *)
(* as what they were, and no more is reported as released than was.        *)
RepliesDispatched ==
    \A c \in Chains :
        /\ releaseStats[c].count = released[c].count
        /\ releaseStats[c].amount <= released[c].amount
        /\ withdrawStats[c] = withdrawn[c]
=============================================================================
