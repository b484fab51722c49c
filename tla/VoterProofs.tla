----------------------------- MODULE VoterProofs -----------------------------
(***************************************************************************)
(* Proofs about Voter, for any chains, addresses, votings and packets.     *)
(*                                                                         *)
(* A step changes the votings in one of two ways (Created, Voted) and the  *)
(* votes sent over IBC in one of three (Sent, Received, Settled);          *)
(* the invariants are shown for these and not for each entry point.        *)
(***************************************************************************)
EXTENDS Voter, TLAPS

(* A voting is created by a call. *)
Created(c) ==
    /\ NextVotingID(c) \in VotingIDs
    /\ lastVotingID' = [lastVotingID EXCEPT ![c] = NextVotingID(c)]
    /\ \E options \in OptionSets, d \in Durations :
           SetVoting(c, NextVotingID(c), NewVoting(options, time[c], d))

(* A vote is counted, from a call or from a packet. *)
Voted(c, id, ballot) ==
    /\ Accepts(c, id, ballot)
    /\ AddVote(c, id, ballot)
    /\ UNCHANGED lastVotingID

(* A packet is sent, *)
Sent(p) ==
    /\ p \in Packets /\ p.ack = "none"
    /\ \A q \in SentBy(p.source) : q.sequence < p.sequence
    /\ packets' = packets \cup {p}
    /\ inFlight' = inFlight \cup {<<p.source, p.sequence>>}
    /\ SetIBCStats(p, "sent")

(* received on chain c, *)
Received(c, p, ack) ==
    /\ p \in packets /\ p.ack = "none" /\ p.source # c /\ time[c] < p.timeout
    /\ ack \in {"ok", "failure"}
    /\ ack = "ok" => Voted(c, p.id, Ballot(p.from, p.option, p.vote))
    /\ Acknowledge(p, ack)
    /\ UNCHANGED <<ibcStats, inFlight>>

(* and answered: its status becomes that of a packet no longer in flight. *)
Settled(p, status) ==
    /\ p \in packets /\ Answered(p) /\ UNCHANGED packets
    /\ \/ p.ack = "ok" /\ status = "acked"
       \/ p.ack = "failure" /\ status = "rejected"
       \/ /\ p.ack = "none" /\ status = "timed out"
          /\ \A c \in Chains : c # p.source => time[c] >= p.timeout
    /\ SetIBCStats(p, status)

(* What no voting has been created for is empty. *)
Fresh ==
    \A c \in Chains, id \in VotingIDs : id > lastVotingID[c] => votings[c][id] = ZeroVoting

(* The end of a voting is its start and duration, as far as they fit. *)
EndsRight ==
    \A c \in Chains, id \in VotingIDs :
        votings[c][id].end = Plus(votings[c][id].start, votings[c][id].duration)

(* A voting has started, and its duration is a timestamp. *)
Started ==
    \A c \in Chains, id \in VotingIDs :
        votings[c][id].start <= time[c] /\ votings[c][id].duration < TimeModulus

(* The contract of chain d has a vote of the address in the voting. *)
Counted(d, addr, id) ==
    \E i \in DOMAIN votings[d][id].votes : votings[d][id].votes[i].addr = addr

(* A packet is known by its chain and sequence. *)
Unique ==
    \A p, q \in packets : p.source = q.source /\ p.sequence = q.sequence => p = q

(* A packet that was acknowledged as a success has been counted. *)
AcksAreTrue ==
    \A p \in packets :
        p.ack = "ok" => \E d \in Chains \ {p.source} : Counted(d, p.from, p.id)

(* A packet that timed out can no longer be received. *)
TimeoutsAreFinal ==
    \A p \in packets :
        p.ack = "none" /\ <<p.source, p.sequence>> \notin inFlight =>
            \A c \in Chains : c # p.source => time[c] >= p.timeout

Inv ==
    /\ TypeOK /\ Fresh /\ EndsRight /\ Started /\ OneVote
    /\ Unique /\ AcksAreTrue /\ TimeoutsAreFinal
    /\ AckedIsCounted /\ StatusIsTrue /\ RepliesDispatched
-----------------------------------------------------------------------------
(* Timestamps are bounded by a positive number. *)
LEMMA Modulus == TimeModulus \in Nat /\ TimeModulus > 0
<1>1. TimeModulus \in Nat \ {0}
  BY VoterAssumptions
<1>. QED
  BY <1>1

(* Sums of timestamps are timestamps. *)
LEMMA PlusType == ASSUME NEW a \in Nat, NEW b \in Nat PROVE Plus(a, b) \in Nat
  BY Modulus DEF Plus

(* A sum that fits is not changed. *)
LEMMA PlusFits ==
  ASSUME NEW a \in Nat, NEW b \in Nat, a + b < TimeModulus
  PROVE  Plus(a, b) = a + b
  BY Modulus DEF Plus

(* One that does not fit is smaller than either part. *)
LEMMA PlusWraps ==
  ASSUME NEW a \in Nat, NEW b \in Nat, a < TimeModulus, b < TimeModulus, a + b >= TimeModulus
  PROVE  Plus(a, b) < a
<1>1. a + b - TimeModulus \in 0..(TimeModulus - 1) /\ a + b - TimeModulus < a
  BY Modulus
<1>2. (a + b) % TimeModulus = a + b - TimeModulus
  BY <1>1, Modulus
<1>. QED
  BY <1>1, <1>2 DEF Plus

(* In particular, zero. *)
LEMMA PlusZero == Plus(0, 0) = 0
<1>1. 0 + 0 < TimeModulus
  BY Modulus
<1>. QED
  BY <1>1, PlusFits

(* Identifiers are natural numbers. *)
LEMMA IDsAreNat == VotingIDs \subseteq Nat
  BY VoterAssumptions DEF VotingIDs

(* The last identifier may be compared with others. *)
LEMMA LastIsInt ==
  ASSUME TypeOK, NEW c \in Chains
  PROVE  lastVotingID[c] \in Int /\ lastVotingID[c] >= -1
<1>1. lastVotingID[c] \in VotingIDs \/ lastVotingID[c] = -1
  BY DEF TypeOK, NoID
<1>2. CASE lastVotingID[c] \in VotingIDs
  <2>1. lastVotingID[c] \in Nat
    BY <1>2, IDsAreNat, Zenon
  <2>. QED
    BY <2>1
<1>3. CASE lastVotingID[c] = -1
  BY <1>3
<1>. QED
  BY <1>1, <1>2, <1>3

(* The identifier of a new voting is within the bound and unused. *)
LEMMA NewID ==
  ASSUME TypeOK, NEW c \in Chains, NextVotingID(c) < MaxVotings[c]
  PROVE  NextVotingID(c) \in VotingIDs /\ NextVotingID(c) > lastVotingID[c]
<1>1. lastVotingID[c] \in Int /\ lastVotingID[c] >= -1
  BY LastIsInt
<1>2. MaxVotings[c] \in Nat
  BY VoterAssumptions
<1>3. NextVotingID(c) \in 0..(MaxVotings[c] - 1)
  BY <1>1, <1>2 DEF NextVotingID
<1>. QED
  BY <1>1, <1>3 DEF VotingIDs, NextVotingID

(* The empty voting is one. *)
LEMMA ZeroTyped == ZeroVoting \in Votings
<1>1. <<>> \in Seq(Votes)
  OBVIOUS
<1>. QED
  BY <1>1 DEF ZeroVoting, Votings

(* So is one that is created. *)
LEMMA NewVotingTyped ==
  ASSUME NEW options \in OptionSets, NEW start \in Nat, NEW d \in Durations
  PROVE  NewVoting(options, start, d) \in Votings
<1>1. <<>> \in Seq(Votes)
  OBVIOUS
<1>2. d \in Nat /\ options \in SUBSET Options
  BY VoterAssumptions DEF Options
<1>. QED
  BY <1>1, <1>2, PlusType, Zenon DEF NewVoting, Votings

(* How a vote that is added changes a voting. *)
LEMMA VoteAdded ==
  ASSUME NEW v \in Votings, NEW b \in Votes, NEW w, w = [v EXCEPT !.votes = Append(@, b)]
  PROVE  /\ w \in Votings
         /\ w.options = v.options /\ w.start = v.start
         /\ w.duration = v.duration /\ w.end = v.end
         /\ DOMAIN v.votes = 1..Len(v.votes) /\ DOMAIN w.votes = 1..(Len(v.votes) + 1)
         /\ Len(v.votes) \in Nat
         /\ \A i \in 1..Len(v.votes) : w.votes[i] = v.votes[i]
         /\ w.votes[Len(v.votes) + 1] = b
<1>1. v.votes \in Seq(Votes)
  BY DEF Votings
<1>2. w.votes = Append(v.votes, b)
  BY DEF Votings
<1>3. Len(v.votes) \in Nat /\ DOMAIN v.votes = 1..Len(v.votes)
  BY <1>1
<1>4. /\ w.votes \in Seq(Votes)
      /\ Len(w.votes) = Len(v.votes) + 1
      /\ \A i \in 1..Len(v.votes) : w.votes[i] = v.votes[i]
      /\ w.votes[Len(v.votes) + 1] = b
  BY <1>1, <1>2
<1>5. DOMAIN w.votes = 1..Len(w.votes)
  BY <1>4
<1>6. /\ w = [options |-> v.options, start |-> v.start, duration |-> v.duration,
              end |-> v.end, votes |-> w.votes]
  BY <1>2, Zenon DEF Votings
<1>7. w \in Votings
  BY <1>6, <1>4, Zenon DEF Votings
<1>. QED
  BY <1>3, <1>4, <1>5, <1>6, <1>7
(* The invariant holds initially. *)
LEMMA InitInv == Init => Inv
<1>. SUFFICES ASSUME Init PROVE Inv
  OBVIOUS
<1>2. costs \in [Chains -> [newVoting : Nat, vote : Nat]]
  <2>1. PICK p \in [Chains -> UNION {Costs[c] : c \in Chains}] :
            /\ \A c \in Chains : p[c] \in Costs[c]
            /\ costs = [c \in Chains |-> [newVoting |-> p[c], vote |-> p[c]]]
    BY Zenon DEF Init
  <2>. QED
    BY <2>1, VoterAssumptions
<1>3. time \in [Chains -> 1..(TimeModulus - 1)]
  <2>1. ASSUME NEW c \in Chains
        PROVE  1 \in 1..(TimeModulus - 1)
    <3>1. TimeModulus \in Nat
      BY Modulus
    <3>2. MaxTime[c] \in 1..(TimeModulus - 1)
      BY VoterAssumptions
    <3>. QED
      BY <3>1, <3>2
  <2>. QED
    BY <2>1 DEF Init
<1>4. votings \in [Chains -> [VotingIDs -> Votings]]
  BY ZeroTyped DEF Init
<1>5. Nothing \in Totals
  BY DEF Nothing, Totals
<1>6. TypeOK
  BY <1>2, <1>3, <1>4, <1>5 DEF Init, TypeOK, Statuses
<1>7. Fresh /\ Unique /\ AcksAreTrue /\ TimeoutsAreFinal /\ StatusIsTrue
  BY DEF Init, Fresh, Unique, AcksAreTrue, TimeoutsAreFinal, StatusIsTrue
<1>8. EndsRight
  <2>3. \A c \in Chains, id \in VotingIDs : votings[c][id] = ZeroVoting
    BY DEF Init
  <2>4. ZeroVoting.end = Plus(ZeroVoting.start, ZeroVoting.duration)
    BY PlusZero DEF ZeroVoting
  <2>. QED
    BY <2>3, <2>4, Zenon DEF EndsRight
<1>12. Started
  <2>1. \A c \in Chains, id \in VotingIDs : votings[c][id] = ZeroVoting /\ time[c] = 1
    BY DEF Init
  <2>. QED
    BY <2>1, Modulus DEF Started, ZeroVoting
<1>9. OneVote
  <2>1. \A c \in Chains, id \in VotingIDs : votings[c][id] = ZeroVoting
    BY DEF Init
  <2>2. DOMAIN ZeroVoting.votes = {}
    BY DEF ZeroVoting
  <2>. QED
    BY <2>1, <2>2 DEF OneVote
<1>10. AckedIsCounted
  BY DEF Init, AckedIsCounted
<1>11. RepliesDispatched
  <2>1. ASSUME NEW c \in Chains
        PROVE  /\ releaseStats[c] = Nothing /\ released[c] = Nothing
               /\ withdrawStats[c] = Nothing /\ withdrawn[c] = Nothing
    BY DEF Init
  <2>2. Nothing.amount <= Nothing.amount
    BY DEF Nothing
  <2>. QED
    BY <2>1, <2>2, Zenon DEF RepliesDispatched
<1>. QED
  BY <1>6, <1>7, <1>8, <1>9, <1>10, <1>11, <1>12 DEF Inv
-----------------------------------------------------------------------------
(* What a step does to the votings: nothing, or one is created, or one of  *)
(* them gets a vote.                                                       *)
LEMMA VotingSteps ==
  ASSUME TypeOK, [Next]_vars
  PROVE  \/ UNCHANGED votingVars
         \/ \E c \in Chains : Created(c)
         \/ \E c \in Chains, id \in VotingIDs, b \in Votes : Voted(c, id, b)
<1>1. CASE UNCHANGED vars
  BY <1>1 DEF vars, votingVars
<1>2. ASSUME NEW c \in Chains, Execute(c)
      PROVE  \/ UNCHANGED votingVars \/ Created(c)
             \/ \E id \in VotingIDs, b \in Votes : Voted(c, id, b)
  <2>1. ASSUME NEW s \in Addrs, NEW e \in BOOLEAN, HandleMsgRelease(c, s, e)
        PROVE  UNCHANGED votingVars
    BY <2>1 DEF HandleMsgRelease, votingVars
  <2>2. ASSUME NEW options \in OptionSets, NEW d \in Durations, NEW f \in Funds,
               HandleMsgNewVoting(c, options, d, f)
        PROVE  Created(c)
    BY <2>2, NewID DEF HandleMsgNewVoting, Created
  <2>3. ASSUME NEW id \in VotingIDs, NEW b \in Ballots, NEW f \in Funds,
               HandleMsgVote(c, id, b, f)
        PROVE  b \in Votes /\ Voted(c, id, b)
    BY <2>3, VoterAssumptions DEF HandleMsgVote, Voted
  <2>4. ASSUME NEW id \in VotingIDs, NEW b \in Ballots, NEW n \in 1..MaxPackets[c],
               HandleMsgSendIBCVote(c, id, b, n)
        PROVE  UNCHANGED votingVars
    BY <2>4 DEF HandleMsgSendIBCVote, votingVars
  <2>5. ASSUME NEW amount \in Rewards, HandleMsgWithdrawRewards(c, amount)
        PROVE  UNCHANGED votingVars
    BY <2>5 DEF HandleMsgWithdrawRewards, votingVars
  <2>. QED
    BY <1>2, <2>1, <2>2, <2>3, <2>4, <2>5 DEF Execute
<1>3. ASSUME NEW c \in Chains, Sudo(c)
      PROVE  UNCHANGED votingVars
  BY <1>3 DEF Sudo, HandleSudoChangeNewVotingCost, HandleSudoChangeVoteCost, votingVars
<1>4. ASSUME NEW c \in Chains, IBCPacketReceive(c)
      PROVE  \/ UNCHANGED votingVars
             \/ \E id \in VotingIDs, b \in Votes : Voted(c, id, b)
  <2>1. PICK p \in packets : HandleIBCMsgVote(c, p)
    BY <1>4 DEF IBCPacketReceive
  <2>2. p.id \in VotingIDs /\ Ballot(p.from, p.option, p.vote) \in Votes
    BY DEF TypeOK, Packets, Ballot, Votes
  <2>. QED
    BY <2>1, <2>2 DEF HandleIBCMsgVote, Voted, votingVars
<1>5. ASSUME NEW c \in Chains, IBCPacketAck(c)
      PROVE  UNCHANGED votingVars
  BY <1>5 DEF IBCPacketAck, HandleIBCAckVote, votingVars
<1>6. ASSUME NEW c \in Chains, IBCPacketTimeout(c)
      PROVE  UNCHANGED votingVars
  BY <1>6, Zenon DEF IBCPacketTimeout, HandleIBCTimeoutVote, votingVars
<1>7. ASSUME NEW c \in Chains, NextBlock(c)
      PROVE  UNCHANGED votingVars
  BY <1>7 DEF NextBlock, votingVars
<1>. QED
  BY <1>1, <1>2, <1>3, <1>4, <1>5, <1>6, <1>7 DEF Next
-----------------------------------------------------------------------------
(* Type correctness.  Every part of the state gets a step, since the       *)
(* entry points change few of them each.                                   *)
LEMMA VotingsTyped ==
  ASSUME TypeOK, [Next]_vars
  PROVE  /\ lastVotingID' \in [Chains -> VotingIDs \cup {NoID}]
         /\ votings' \in [Chains -> [VotingIDs -> Votings]]
<1>1. CASE UNCHANGED votingVars
  BY <1>1 DEF TypeOK, votingVars
<1>2. ASSUME NEW c \in Chains, Created(c)
      PROVE  /\ lastVotingID' \in [Chains -> VotingIDs \cup {NoID}]
             /\ votings' \in [Chains -> [VotingIDs -> Votings]]
  <2>1. PICK options \in OptionSets, d \in Durations :
            SetVoting(c, NextVotingID(c), NewVoting(options, time[c], d))
    BY <1>2 DEF Created
  <2>2. NewVoting(options, time[c], d) \in Votings
    BY NewVotingTyped, VoterAssumptions DEF TypeOK
  <2>. QED
    BY <1>2, <2>1, <2>2 DEF Created, SetVoting, TypeOK
<1>3. ASSUME NEW c \in Chains, NEW id \in VotingIDs, NEW b \in Votes, Voted(c, id, b)
      PROVE  /\ lastVotingID' \in [Chains -> VotingIDs \cup {NoID}]
             /\ votings' \in [Chains -> [VotingIDs -> Votings]]
  <2>1. PICK w : w = [votings[c][id] EXCEPT !.votes = Append(@, b)]
    BY Zenon
  <2>2. votings[c][id] \in Votings
    BY DEF TypeOK
  <2>3. w \in Votings
    BY <2>1, <2>2, VoteAdded
  <2>4. votings' = [votings EXCEPT ![c][id] = w]
    BY <1>3, <2>1 DEF Voted, AddVote, SetVoting, GetVoting
  <2>. QED
    BY <1>3, <2>3, <2>4 DEF Voted, TypeOK
<1>. QED
  BY <1>1, <1>2, <1>3, VotingSteps

(* The clock moves forward. *)
LEMMA TimeMoves ==
  ASSUME TypeOK, [Next]_vars
  PROVE  /\ time' \in [Chains -> 1..(TimeModulus - 1)]
         /\ \A c \in Chains : time'[c] >= time[c]
<1>1. CASE UNCHANGED time
  BY <1>1 DEF TypeOK
<1>2. ASSUME NEW c \in Chains, NextBlock(c)
      PROVE  /\ time' \in [Chains -> 1..(TimeModulus - 1)]
             /\ \A d \in Chains : time'[d] >= time[d]
  <2>1. TimeModulus \in Nat /\ MaxTime[c] \in 1..(TimeModulus - 1)
    BY VoterAssumptions
  <2>2. time[c] \in 1..(TimeModulus - 1) /\ time[c] < MaxTime[c]
    BY <1>2 DEF NextBlock, TypeOK
  <2>3. time[c] + 1 \in 1..(TimeModulus - 1)
    BY <2>1, <2>2
  <2>4. time' = [time EXCEPT ![c] = time[c] + 1]
    BY <1>2 DEF NextBlock
  <2>. QED
    BY <2>1, <2>3, <2>4 DEF TypeOK
<1>3. ASSUME NEW c \in Chains, Execute(c)
      PROVE  UNCHANGED time
  BY <1>3, Zenon DEF Execute, HandleMsgRelease, HandleMsgNewVoting, HandleMsgVote,
      HandleMsgSendIBCVote, HandleMsgWithdrawRewards
<1>4. ASSUME NEW c \in Chains, Sudo(c)
      PROVE  UNCHANGED time
  BY <1>4 DEF Sudo, HandleSudoChangeNewVotingCost, HandleSudoChangeVoteCost
<1>5. ASSUME NEW c \in Chains, IBCPacketReceive(c) \/ IBCPacketAck(c) \/ IBCPacketTimeout(c)
      PROVE  UNCHANGED time
  BY <1>5, Zenon DEF IBCPacketReceive, IBCPacketAck, IBCPacketTimeout,
      HandleIBCMsgVote, HandleIBCAckVote, HandleIBCTimeoutVote
<1>6. CASE UNCHANGED vars
  BY <1>1, <1>6 DEF vars
<1>7. CASE Next
  BY <1>7, <1>1, <1>2, <1>3, <1>4, <1>5 DEF Next
<1>. QED
  BY <1>6, <1>7

(* Costs and funds are numbers. *)
LEMMA FundsTyped ==
  ASSUME TypeOK, [Next]_vars
  PROVE  /\ costs' \in [Chains -> [newVoting : Nat, vote : Nat]]
         /\ balance' \in [Chains -> Nat]
<1>1. CASE UNCHANGED <<costs, balance>>
  BY <1>1 DEF TypeOK
<1>2. ASSUME NEW c \in Chains, NEW f \in Nat, UNCHANGED costs,
             balance' = [balance EXCEPT ![c] = @ + f] \/ balance' = [balance EXCEPT ![c] = 0]
      PROVE  /\ costs' \in [Chains -> [newVoting : Nat, vote : Nat]]
             /\ balance' \in [Chains -> Nat]
  <2>1. balance \in [Chains -> Nat] /\ balance[c] + f \in Nat
    BY DEF TypeOK
  <2>2. balance' \in [Chains -> Nat]
    BY <1>2, <2>1
  <2>. QED
    BY <1>2, <2>2 DEF TypeOK
<1>3. ASSUME NEW c \in Chains, Sudo(c)
      PROVE  /\ costs' \in [Chains -> [newVoting : Nat, vote : Nat]]
             /\ balance' \in [Chains -> Nat]
  <2>1. PICK cost \in Costs[c] :
            HandleSudoChangeNewVotingCost(c, cost) \/ HandleSudoChangeVoteCost(c, cost)
    BY <1>3 DEF Sudo
  <2>2. cost \in Nat
    BY VoterAssumptions
  <2>3. costs \in [Chains -> [newVoting : Nat, vote : Nat]]
    BY DEF TypeOK
  <2>4. PICK r : \/ /\ r = [costs[c] EXCEPT !.newVoting = cost]
                    /\ HandleSudoChangeNewVotingCost(c, cost)
                 \/ /\ r = [costs[c] EXCEPT !.vote = cost]
                    /\ HandleSudoChangeVoteCost(c, cost)
    BY <2>1, Zenon
  <2>5. r \in [newVoting : Nat, vote : Nat]
    BY <2>2, <2>3, <2>4
  <2>6. costs' = [costs EXCEPT ![c] = r] /\ UNCHANGED balance
    BY <2>4 DEF HandleSudoChangeNewVotingCost, HandleSudoChangeVoteCost
  <2>. QED
    BY <2>3, <2>5, <2>6 DEF TypeOK
<1>4. ASSUME NEW c \in Chains, Execute(c)
      PROVE  /\ UNCHANGED costs
             /\ \/ UNCHANGED balance
                \/ \E f \in Nat : \/ balance' = [balance EXCEPT ![c] = @ + f]
                                  \/ balance' = [balance EXCEPT ![c] = 0]
  BY <1>4, VoterAssumptions, Zenon
  DEF Execute, HandleMsgRelease, HandleMsgNewVoting, HandleMsgVote, HandleMsgSendIBCVote,
      HandleMsgWithdrawRewards
<1>. QED
  BY <1>1, <1>2, <1>3, <1>4, Zenon
  DEF Next, vars, IBCPacketReceive, IBCPacketAck, IBCPacketTimeout, NextBlock,
      HandleIBCMsgVote, HandleIBCAckVote, HandleIBCTimeoutVote
-----------------------------------------------------------------------------
(* The votings: what was created is kept, and votes are only added. *)
LEMMA OneVotingKept ==
  ASSUME TypeOK, Fresh, [Next]_vars, NEW c \in Chains, NEW id \in VotingIDs,
         NEW v, v = votings[c][id], NEW w, w = votings'[c][id]
  PROVE  /\ \A i \in DOMAIN v.votes : i \in DOMAIN w.votes /\ w.votes[i] = v.votes[i]
         /\ v # ZeroVoting => /\ w.options = v.options /\ w.start = v.start
                              /\ w.end = v.end
                              /\ time[c] > v.end => w = v
<1>0. v \in Votings
  BY DEF TypeOK
<1>1. CASE w = v
  BY <1>1
<1>2. ASSUME NEW b \in Votes, Accepts(c, id, b), w = [v EXCEPT !.votes = Append(@, b)]
      PROVE  /\ \A i \in DOMAIN v.votes : i \in DOMAIN w.votes /\ w.votes[i] = v.votes[i]
             /\ w.options = v.options /\ w.start = v.start /\ w.end = v.end
             /\ ~(time[c] > v.end)
  <2>1. ~(time[c] > v.end)
    BY <1>2 DEF Accepts, GetVoting, IsClosed
  <2>2. /\ w.options = v.options /\ w.start = v.start /\ w.end = v.end
        /\ DOMAIN v.votes = 1..Len(v.votes) /\ DOMAIN w.votes = 1..(Len(v.votes) + 1)
        /\ Len(v.votes) \in Nat
        /\ \A i \in 1..Len(v.votes) : w.votes[i] = v.votes[i]
    BY <1>0, <1>2, VoteAdded
  <2>3. DOMAIN v.votes \subseteq DOMAIN w.votes
    BY <2>2
  <2>. QED
    BY <2>1, <2>2, <2>3
<1>3. CASE v = ZeroVoting
  <2>1. DOMAIN v.votes = {}
    BY <1>3 DEF ZeroVoting
  <2>. QED
    BY <1>3, <2>1
<1>4. CASE UNCHANGED votingVars
  BY <1>1, <1>4 DEF votingVars
<1>5. ASSUME NEW d \in Chains, Created(d)
      PROVE  w = v \/ v = ZeroVoting
  <2>1. PICK n : n = NextVotingID(d)
    OBVIOUS
  <2>2. n \in VotingIDs /\ \E x : votings' = [votings EXCEPT ![d][n] = x]
    BY <1>5, <2>1, Zenon DEF Created, SetVoting
  <2>3. CASE c = d /\ id = n
    <3>1. lastVotingID[d] \in Int
      BY LastIsInt
    <3>2. n > lastVotingID[d]
      BY <2>1, <3>1 DEF NextVotingID
    <3>. QED
      BY <2>3, <3>2 DEF Fresh
  <2>4. CASE ~(c = d /\ id = n)
    BY <2>2, <2>4 DEF TypeOK
  <2>. QED
    BY <2>3, <2>4
<1>6. ASSUME NEW d \in Chains, NEW n \in VotingIDs, NEW b \in Votes, Voted(d, n, b)
      PROVE  \/ w = v
             \/ Accepts(c, id, b) /\ w = [v EXCEPT !.votes = Append(@, b)]
  <2>1. votings' = [votings EXCEPT ![d][n] = [votings[d][n] EXCEPT !.votes = Append(@, b)]]
    BY <1>6 DEF Voted, AddVote, SetVoting, GetVoting
  <2>2. CASE c = d /\ id = n
    BY <1>6, <2>1, <2>2, Zenon DEF Voted, TypeOK
  <2>3. CASE ~(c = d /\ id = n)
    BY <2>1, <2>3 DEF TypeOK
  <2>. QED
    BY <2>2, <2>3
<1>. QED
  BY <1>1, <1>2, <1>3, <1>4, <1>5, <1>6, VotingSteps, Zenon

(* A vote that was counted stays counted. *)
LEMMA CountedStays ==
  ASSUME TypeOK, Fresh, [Next]_vars, NEW d \in Chains, NEW addr, NEW id \in VotingIDs,
         Counted(d, addr, id)
  PROVE  Counted(d, addr, id)'
<1>1. PICK v : v = votings[d][id]
  OBVIOUS
<1>2. PICK w : w = votings'[d][id]
  OBVIOUS
<1>3. \A i \in DOMAIN v.votes : i \in DOMAIN w.votes /\ w.votes[i] = v.votes[i]
  BY <1>1, <1>2, OneVotingKept
<1>4. PICK i \in DOMAIN v.votes : v.votes[i].addr = addr
  BY <1>1 DEF Counted
<1>. QED
  BY <1>2, <1>3, <1>4 DEF Counted

(* A vote that is added is counted. *)
LEMMA VotedIsCounted ==
  ASSUME TypeOK, NEW c \in Chains, NEW id \in VotingIDs, NEW b \in Votes, Voted(c, id, b)
  PROVE  Counted(c, b.addr, id)'
<1>1. PICK v : v = votings[c][id]
  OBVIOUS
<1>2. PICK w : w = [v EXCEPT !.votes = Append(@, b)]
  BY Zenon
<1>3. v \in Votings
  BY <1>1 DEF TypeOK
<1>4. /\ DOMAIN w.votes = 1..(Len(v.votes) + 1) /\ Len(v.votes) \in Nat
      /\ w.votes[Len(v.votes) + 1] = b
  BY <1>2, <1>3, VoteAdded
<1>5. votings'[c][id] = w
  BY <1>1, <1>2, Zenon DEF Voted, AddVote, SetVoting, GetVoting, TypeOK
<1>6. Len(v.votes) + 1 \in DOMAIN w.votes
  BY <1>4
<1>. QED
  BY <1>4, <1>5, <1>6 DEF Counted

(* The invariants of the votings. *)
LEMMA VotingInvariants ==
  ASSUME TypeOK, Fresh, EndsRight, OneVote, [Next]_vars
  PROVE  Fresh' /\ EndsRight' /\ OneVote'
<1>1. CASE UNCHANGED votingVars
  BY <1>1 DEF votingVars, Fresh, EndsRight, OneVote
<1>2. ASSUME NEW c \in Chains, Created(c)
      PROVE  Fresh' /\ EndsRight' /\ OneVote'
  <2>1. PICK n : n = NextVotingID(c)
    OBVIOUS
  <2>2. PICK options \in OptionSets, d \in Durations :
            SetVoting(c, n, NewVoting(options, time[c], d))
    BY <1>2, <2>1 DEF Created
  <2>3. PICK x : x = NewVoting(options, time[c], d)
    OBVIOUS
  <2>4. /\ n \in VotingIDs /\ votings' = [votings EXCEPT ![c][n] = x]
        /\ lastVotingID' = [lastVotingID EXCEPT ![c] = n]
    BY <1>2, <2>1, <2>2, <2>3, Zenon DEF Created, SetVoting
  <2>5. /\ x.end = Plus(x.start, x.duration) /\ DOMAIN x.votes = {}
    BY <2>3 DEF NewVoting
  <2>6. \A e \in Chains, id \in VotingIDs :
            votings'[e][id] = IF e = c /\ id = n THEN x ELSE votings[e][id]
    BY <2>4 DEF TypeOK
  <2>7. EndsRight'
    BY <2>5, <2>6 DEF EndsRight
  <2>8. OneVote'
    BY <2>5, <2>6 DEF OneVote
  <2>9. ASSUME NEW e \in Chains, NEW id \in VotingIDs, id > lastVotingID'[e]
        PROVE  votings'[e][id] = ZeroVoting
    <3>1. lastVotingID[c] \in Int /\ n = lastVotingID[c] + 1 /\ id \in Nat
      BY <2>1, LastIsInt, IDsAreNat DEF NextVotingID
    <3>2. CASE e = c
      <4>1. id > n
        BY <2>4, <2>9, <3>2 DEF TypeOK
      <4>2. id # n /\ id > lastVotingID[c]
        BY <3>1, <4>1
      <4>. QED
        BY <2>6, <3>2, <4>2 DEF Fresh
    <3>3. CASE e # c
      BY <2>4, <2>6, <2>9, <3>3 DEF Fresh, TypeOK
    <3>. QED
      BY <3>2, <3>3
  <2>. QED
    BY <2>7, <2>8, <2>9 DEF Fresh
<1>3. ASSUME NEW c \in Chains, NEW n \in VotingIDs, NEW b \in Votes, Voted(c, n, b)
      PROVE  Fresh' /\ EndsRight' /\ OneVote'
  <2>1. PICK v : v = votings[c][n]
    OBVIOUS
  <2>2. PICK w : w = [v EXCEPT !.votes = Append(@, b)]
    BY Zenon
  <2>3. v \in Votings
    BY <2>1 DEF TypeOK
  <2>4. /\ w.start = v.start /\ w.duration = v.duration /\ w.end = v.end
        /\ DOMAIN v.votes = 1..Len(v.votes) /\ DOMAIN w.votes = 1..(Len(v.votes) + 1)
        /\ Len(v.votes) \in Nat
        /\ \A i \in 1..Len(v.votes) : w.votes[i] = v.votes[i]
        /\ w.votes[Len(v.votes) + 1] = b
    BY <2>2, <2>3, VoteAdded
  <2>5. votings' = [votings EXCEPT ![c][n] = w] /\ lastVotingID' = lastVotingID
    BY <1>3, <2>1, <2>2 DEF Voted, AddVote, SetVoting, GetVoting
  <2>6. \A e \in Chains, id \in VotingIDs :
            votings'[e][id] = IF e = c /\ id = n THEN w ELSE votings[e][id]
    BY <2>5 DEF TypeOK
  <2>7. EndsRight'
    BY <2>1, <2>4, <2>6 DEF EndsRight
  <2>8. v # ZeroVoting /\ \A i \in DOMAIN v.votes : v.votes[i].addr # b.addr
    BY <1>3, <2>1 DEF Voted, Accepts, HasVote, GetVoting
  <2>9. Fresh'
    BY <2>1, <2>5, <2>6, <2>8 DEF Fresh
  <2>10. \A i, j \in DOMAIN v.votes : v.votes[i].addr = v.votes[j].addr => i = j
    BY <2>1 DEF OneVote
  <2>11. \A i, j \in DOMAIN w.votes : w.votes[i].addr = w.votes[j].addr => i = j
    <3>1. \A i \in DOMAIN w.votes : i \in DOMAIN v.votes \/ i = Len(v.votes) + 1
      BY <2>4
    <3>2. ASSUME NEW i \in DOMAIN w.votes, NEW j \in DOMAIN w.votes,
                 w.votes[i].addr = w.votes[j].addr
          PROVE  i = j
      <4>1. CASE i \in DOMAIN v.votes /\ j \in DOMAIN v.votes
        <5>1. w.votes[i] = v.votes[i] /\ w.votes[j] = v.votes[j]
          BY <2>4, <4>1
        <5>. QED
          BY <2>10, <3>2, <4>1, <5>1
      <4>2. ASSUME NEW k \in DOMAIN v.votes
            PROVE  w.votes[k].addr # b.addr
        <5>1. w.votes[k] = v.votes[k]
          BY <2>4
        <5>. QED
          BY <2>8, <5>1
      <4>3. w.votes[Len(v.votes) + 1].addr = b.addr
        BY <2>4
      <4>. QED
        BY <3>1, <3>2, <4>1, <4>2, <4>3
    <3>. QED
      BY <3>2
  <2>12. OneVote'
    BY <2>6, <2>11 DEF OneVote
  <2>. QED
    BY <2>7, <2>9, <2>12
<1>. QED
  BY <1>1, <1>2, <1>3, VotingSteps

(* A voting starts when it is created, and the clock moves forward. *)
LEMMA StartedKept ==
  ASSUME TypeOK, Started, [Next]_vars
  PROVE  Started'
<1>1. SUFFICES ASSUME NEW e \in Chains, NEW id \in VotingIDs
               PROVE  /\ votings'[e][id].start <= time'[e]
                      /\ votings'[e][id].duration < TimeModulus
  BY Zenon DEF Started
<1>2. /\ time[e] \in Nat /\ time'[e] \in Nat /\ time[e] <= time'[e] /\ TimeModulus \in Nat
  <2>1. /\ time \in [Chains -> 1..(TimeModulus - 1)] /\ time' \in [Chains -> 1..(TimeModulus - 1)]
        /\ time'[e] >= time[e]
    BY TimeMoves DEF TypeOK
  <2>2. time[e] \in 1..(TimeModulus - 1) /\ time'[e] \in 1..(TimeModulus - 1)
    BY <2>1
  <2>. QED
    BY <2>1, <2>2, Modulus
<1>3. /\ votings[e][id].start \in Nat
      /\ votings[e][id].start <= time[e] /\ votings[e][id].duration < TimeModulus
  BY DEF Started, TypeOK, Votings
<1>4. CASE /\ votings'[e][id].start = votings[e][id].start
           /\ votings'[e][id].duration = votings[e][id].duration
  BY <1>2, <1>3, <1>4
<1>5. CASE UNCHANGED votingVars
  BY <1>4, <1>5 DEF votingVars
<1>6. ASSUME NEW c \in Chains, Created(c)
      PROVE  /\ votings'[e][id].start <= time'[e] /\ votings'[e][id].duration < TimeModulus
  <2>1. PICK n : n = NextVotingID(c)
    OBVIOUS
  <2>2. PICK options \in OptionSets, d \in Durations :
            SetVoting(c, n, NewVoting(options, time[c], d))
    BY <1>6, <2>1 DEF Created
  <2>3. PICK x : x = NewVoting(options, time[c], d)
    OBVIOUS
  <2>4. n \in VotingIDs /\ votings' = [votings EXCEPT ![c][n] = x]
    BY <1>6, <2>1, <2>2, <2>3, Zenon DEF Created, SetVoting
  <2>5. x.start = time[c] /\ x.duration = d /\ d < TimeModulus
    BY <1>2, <2>3, VoterAssumptions DEF NewVoting
  <2>6. votings'[e][id] = IF e = c /\ id = n THEN x ELSE votings[e][id]
    BY <2>4 DEF TypeOK
  <2>7. CASE e = c /\ id = n
    BY <1>2, <2>5, <2>6, <2>7
  <2>8. CASE ~(e = c /\ id = n)
    BY <1>4, <2>6, <2>8
  <2>. QED
    BY <2>7, <2>8
<1>7. ASSUME NEW c \in Chains, NEW n \in VotingIDs, NEW b \in Votes, Voted(c, n, b)
      PROVE  /\ votings'[e][id].start = votings[e][id].start
             /\ votings'[e][id].duration = votings[e][id].duration
  <2>1. PICK v : v = votings[c][n]
    OBVIOUS
  <2>2. PICK w : w = [v EXCEPT !.votes = Append(@, b)]
    BY Zenon
  <2>3. v \in Votings
    BY <2>1 DEF TypeOK
  <2>4. w.start = v.start /\ w.duration = v.duration
    BY <2>2, <2>3, VoteAdded
  <2>5. votings' = [votings EXCEPT ![c][n] = w]
    BY <1>7, <2>1, <2>2 DEF Voted, AddVote, SetVoting, GetVoting
  <2>6. votings'[e][id] = IF e = c /\ id = n THEN w ELSE votings[e][id]
    BY <2>5 DEF TypeOK
  <2>. QED
    BY <2>1, <2>4, <2>6
<1>. QED
  BY <1>4, <1>5, <1>6, <1>7, VotingSteps
-----------------------------------------------------------------------------
(* What a step does to the votes sent over IBC. *)
LEMMA IbcSteps ==
  ASSUME TypeOK, [Next]_vars
  PROVE  \/ UNCHANGED ibcVars
         \/ \E p \in Packets : Sent(p)
         \/ \E c \in Chains, p \in packets, ack \in {"ok", "failure"} : Received(c, p, ack)
         \/ \E p \in packets, status \in Statuses : Settled(p, status)
<1>1. CASE UNCHANGED vars
  BY <1>1 DEF vars, ibcVars
<1>2. ASSUME NEW c \in Chains, Execute(c)
      PROVE  UNCHANGED ibcVars \/ \E p \in Packets : Sent(p)
  <2>1. ASSUME NEW id \in VotingIDs, NEW b \in Ballots, NEW n \in 1..MaxPackets[c],
               HandleMsgSendIBCVote(c, id, b, n)
        PROVE  \E p \in Packets : Sent(p)
    <3>1. PICK p : p = [source |-> c, sequence |-> n, from |-> b.addr, id |-> id,
                        option |-> b.option, vote |-> b.vote,
                        timeout |-> Plus(time[c], IBCSendTimeout), ack |-> "none"]
      BY Zenon
    <3>2. b \in Votes /\ MaxPackets[c] \in Nat /\ n \in Nat
      BY VoterAssumptions
    <3>3. time[c] \in Nat /\ IBCSendTimeout \in Nat
      BY VoterAssumptions DEF TypeOK
    <3>4. Plus(time[c], IBCSendTimeout) \in Nat
      BY <3>3, PlusType, Zenon
    <3>5. p \in Packets
      BY <3>1, <3>2, <3>4, Zenon DEF Packets, Votes
    <3>6. Sent(p)
      BY <2>1, <3>1, <3>5 DEF HandleMsgSendIBCVote, Sent, SetIBCStats
    <3>. QED
      BY <3>5, <3>6
  <2>2. ASSUME NEW s \in Addrs, NEW e \in BOOLEAN, HandleMsgRelease(c, s, e)
        PROVE  UNCHANGED ibcVars
    BY <2>2 DEF HandleMsgRelease, ibcVars
  <2>3. ASSUME NEW options \in OptionSets, NEW d \in Durations, NEW f \in Funds,
               HandleMsgNewVoting(c, options, d, f)
        PROVE  UNCHANGED ibcVars
    BY <2>3 DEF HandleMsgNewVoting, ibcVars
  <2>4. ASSUME NEW id \in VotingIDs, NEW b \in Ballots, NEW f \in Funds,
               HandleMsgVote(c, id, b, f)
        PROVE  UNCHANGED ibcVars
    BY <2>4 DEF HandleMsgVote, ibcVars
  <2>5. ASSUME NEW amount \in Rewards, HandleMsgWithdrawRewards(c, amount)
        PROVE  UNCHANGED ibcVars
    BY <2>5 DEF HandleMsgWithdrawRewards, ibcVars
  <2>. QED
    BY <1>2, <2>1, <2>2, <2>3, <2>4, <2>5 DEF Execute
<1>3. ASSUME NEW c \in Chains, Sudo(c) \/ NextBlock(c)
      PROVE  UNCHANGED ibcVars
  BY <1>3 DEF Sudo, HandleSudoChangeNewVotingCost, HandleSudoChangeVoteCost, NextBlock, ibcVars
<1>4. ASSUME NEW c \in Chains, IBCPacketReceive(c)
      PROVE  \E p \in packets, ack \in {"ok", "failure"} : Received(c, p, ack)
  <2>1. PICK p \in packets : p.source # c /\ HandleIBCMsgVote(c, p)
    BY <1>4 DEF IBCPacketReceive
  <2>2. Received(c, p, "ok") \/ Received(c, p, "failure")
    BY <2>1 DEF HandleIBCMsgVote, Received, Voted
  <2>. QED
    BY <2>2
<1>5. ASSUME NEW c \in Chains, IBCPacketAck(c)
      PROVE  \E p \in packets, status \in Statuses : Settled(p, status)
  <2>1. PICK p \in packets : HandleIBCAckVote(p)
    BY <1>5 DEF IBCPacketAck, SentBy
  <2>2. p.ack \in {"none", "ok", "failure"}
    BY DEF TypeOK, Packets
  <2>3. Settled(p, AckStatus(p)) /\ AckStatus(p) \in Statuses
    BY <2>1, <2>2 DEF HandleIBCAckVote, Settled, AckStatus, Statuses
  <2>. QED
    BY <2>3
<1>6. ASSUME NEW c \in Chains, IBCPacketTimeout(c)
      PROVE  \E p \in packets, status \in Statuses : Settled(p, status)
  <2>1. PICK p \in packets : HandleIBCTimeoutVote(p)
    BY <1>6 DEF IBCPacketTimeout, SentBy
  <2>2. Settled(p, "timed out") /\ "timed out" \in Statuses
    BY <2>1, Zenon DEF HandleIBCTimeoutVote, Settled, Statuses
  <2>. QED
    BY <2>2, Zenon
<1>. QED
  BY <1>1, <1>2, <1>3, <1>4, <1>5, <1>6 DEF Next

(* Receiving a packet changes its acknowledgement only. *)
LEMMA AcknowledgeOnly ==
  ASSUME TypeOK, NEW p \in packets, NEW ack \in {"ok", "failure"}, NEW q,
         q = [p EXCEPT !.ack = ack]
  PROVE  /\ q \in Packets /\ q.ack = ack /\ q.source = p.source
         /\ q.sequence = p.sequence /\ q.from = p.from /\ q.id = p.id
         /\ q.timeout = p.timeout
  BY Zenon DEF TypeOK, Packets

(* Statuses, packets and what is in flight keep their types. *)
LEMMA IbcTyped ==
  ASSUME TypeOK, [Next]_vars
  PROVE  /\ ibcStats' \in [Chains -> [Addrs \X VotingIDs -> Statuses]]
         /\ packets' \in SUBSET Packets
         /\ inFlight' \subseteq {<<p.source, p.sequence>> : p \in packets'}
<1>0. /\ ibcStats \in [Chains -> [Addrs \X VotingIDs -> Statuses]]
      /\ packets \subseteq Packets
      /\ \A x \in inFlight : \E p \in packets : x = <<p.source, p.sequence>>
  BY Zenon DEF TypeOK
<1>1. ASSUME NEW p \in Packets, NEW status \in Statuses, SetIBCStats(p, status)
      PROVE  ibcStats' \in [Chains -> [Addrs \X VotingIDs -> Statuses]]
  <2>1. p.source \in Chains /\ <<p.from, p.id>> \in Addrs \X VotingIDs
    BY DEF Packets
  <2>. QED
    BY <1>0, <1>1, <2>1, Zenon DEF SetIBCStats
<1>2. CASE UNCHANGED ibcVars
  BY <1>0, <1>2, Zenon DEF ibcVars
<1>3. ASSUME NEW p \in Packets, Sent(p)
      PROVE  /\ ibcStats' \in [Chains -> [Addrs \X VotingIDs -> Statuses]]
             /\ packets' \in SUBSET Packets
             /\ inFlight' \subseteq {<<q.source, q.sequence>> : q \in packets'}
  <2>1. ibcStats' \in [Chains -> [Addrs \X VotingIDs -> Statuses]]
    BY <1>1, <1>3, Zenon DEF Sent, Statuses
  <2>. QED
    BY <1>0, <1>3, <2>1, Zenon DEF Sent
<1>4. ASSUME NEW c \in Chains, NEW p \in packets, NEW ack \in {"ok", "failure"},
             Received(c, p, ack)
      PROVE  /\ ibcStats' \in [Chains -> [Addrs \X VotingIDs -> Statuses]]
             /\ packets' \in SUBSET Packets
             /\ inFlight' \subseteq {<<q.source, q.sequence>> : q \in packets'}
  <2>1. PICK q : q = [p EXCEPT !.ack = ack]
    BY Zenon
  <2>2. q \in Packets /\ q.source = p.source /\ q.sequence = p.sequence
    BY <2>1, AcknowledgeOnly
  <2>3. packets' = (packets \ {p}) \cup {q} /\ UNCHANGED <<ibcStats, inFlight>>
    BY <1>4, <2>1 DEF Received, Acknowledge
  <2>4. \A x \in inFlight : \E r \in packets' : x = <<r.source, r.sequence>>
    BY <1>0, <2>2, <2>3
  <2>. QED
    BY <1>0, <2>2, <2>3, <2>4, Zenon
<1>5. ASSUME NEW p \in packets, NEW status \in Statuses, Settled(p, status)
      PROVE  /\ ibcStats' \in [Chains -> [Addrs \X VotingIDs -> Statuses]]
             /\ packets' \in SUBSET Packets
             /\ inFlight' \subseteq {<<q.source, q.sequence>> : q \in packets'}
  <2>1. ibcStats' \in [Chains -> [Addrs \X VotingIDs -> Statuses]]
    BY <1>0, <1>1, <1>5, Zenon DEF Settled
  <2>. QED
    BY <1>0, <1>5, <2>1, Zenon DEF Settled, Answered
<1>. QED
  BY <1>2, <1>3, <1>4, <1>5, IbcSteps, Zenon
-----------------------------------------------------------------------------
(* No two packets of a chain have one sequence. *)
LEMMA UniqueKept ==
  ASSUME TypeOK, Unique, [Next]_vars
  PROVE  Unique'
<1>1. ASSUME UNCHANGED packets
      PROVE  Unique'
  BY <1>1 DEF Unique
<1>2. ASSUME NEW p \in Packets, Sent(p)
      PROVE  Unique'
  <2>1. ASSUME NEW q \in packets, q.source = p.source
        PROVE  q.sequence # p.sequence
    <3>1. q.sequence < p.sequence
      BY <1>2, <2>1 DEF Sent, SentBy
    <3>2. q.sequence \in Nat /\ p.sequence \in Nat
      BY DEF TypeOK, Packets
    <3>. QED
      BY <3>1, <3>2
  <2>2. packets' = packets \cup {p}
    BY <1>2 DEF Sent
  <2>. QED
    BY <2>1, <2>2 DEF Unique
<1>3. ASSUME NEW c \in Chains, NEW p \in packets, NEW ack \in {"ok", "failure"},
             Received(c, p, ack)
      PROVE  Unique'
  <2>1. PICK q : q = [p EXCEPT !.ack = ack]
    BY Zenon
  <2>2. q.source = p.source /\ q.sequence = p.sequence
    BY <2>1, AcknowledgeOnly
  <2>3. packets' = (packets \ {p}) \cup {q}
    BY <1>3, <2>1 DEF Received, Acknowledge
  <2>. QED
    BY <2>2, <2>3 DEF Unique
<1>. QED
  BY <1>1, <1>2, <1>3, IbcSteps, Zenon DEF Settled, ibcVars

(* What was acknowledged as counted stays counted. *)
LEMMA AcksAreTrueKept ==
  ASSUME TypeOK, Fresh, AcksAreTrue, [Next]_vars
  PROVE  AcksAreTrue'
<1>1. ASSUME NEW p \in packets, p.ack = "ok"
      PROVE  \E d \in Chains \ {p.source} : Counted(d, p.from, p.id)'
  <2>1. PICK d \in Chains \ {p.source} : Counted(d, p.from, p.id)
    BY <1>1 DEF AcksAreTrue
  <2>2. p.id \in VotingIDs
    BY DEF TypeOK, Packets
  <2>. QED
    BY <2>1, <2>2, CountedStays
<1>2. ASSUME \A p \in packets' : p.ack = "ok" => p \in packets
      PROVE  AcksAreTrue'
  BY <1>1, <1>2 DEF AcksAreTrue
<1>3. CASE UNCHANGED packets
  BY <1>2, <1>3
<1>4. ASSUME NEW p \in Packets, Sent(p)
      PROVE  AcksAreTrue'
  BY <1>2, <1>4 DEF Sent
<1>5. ASSUME NEW c \in Chains, NEW p \in packets, NEW ack \in {"ok", "failure"},
             Received(c, p, ack)
      PROVE  AcksAreTrue'
  <2>1. PICK q : q = [p EXCEPT !.ack = ack]
    BY Zenon
  <2>2. q.source = p.source /\ q.from = p.from /\ q.id = p.id /\ q.ack = ack
    BY <2>1, AcknowledgeOnly
  <2>3. packets' = (packets \ {p}) \cup {q}
    BY <1>5, <2>1 DEF Received, Acknowledge
  <2>4. ASSUME q.ack = "ok"
        PROVE  \E d \in Chains \ {q.source} : Counted(d, q.from, q.id)'
    <3>1. PICK b : b = Ballot(p.from, p.option, p.vote)
      OBVIOUS
    <3>2. b \in Votes /\ b.addr = p.from /\ p.id \in VotingIDs
      BY <3>1 DEF TypeOK, Packets, Ballot, Votes
    <3>3. Voted(c, p.id, b) /\ c # p.source
      BY <1>5, <2>2, <2>4, <3>1 DEF Received
    <3>4. Counted(c, p.from, p.id)'
      <4>1. Counted(c, b.addr, p.id)'
        BY <3>2, <3>3, VotedIsCounted
      <4>. QED
        BY <3>2, <4>1 DEF Counted
    <3>5. c \in Chains \ {q.source}
      BY <2>2, <3>3
    <3>6. Counted(c, q.from, q.id)'
      BY <2>2, <3>4 DEF Counted
    <3>. QED
      BY <3>5, <3>6
  <2>. QED
    BY <1>1, <2>3, <2>4 DEF AcksAreTrue
<1>. QED
  BY <1>3, <1>4, <1>5, IbcSteps, Zenon DEF Settled, ibcVars

(* Clocks do not go back past a timeout. *)
LEMMA TimeoutsAreFinalKept ==
  ASSUME TypeOK, Unique, TimeoutsAreFinal, [Next]_vars
  PROVE  TimeoutsAreFinal'
<1>1. ASSUME NEW p \in packets, \A c \in Chains : c # p.source => time[c] >= p.timeout
      PROVE  \A c \in Chains : c # p.source => time'[c] >= p.timeout
  <2>1. ASSUME NEW c \in Chains, c # p.source
        PROVE  time'[c] >= p.timeout
    <3>1. time[c] >= p.timeout
      BY <1>1, <2>1
    <3>2. time'[c] >= time[c] /\ time'[c] \in Int /\ time[c] \in Int
      <4>1. time' \in [Chains -> 1..(TimeModulus - 1)] /\ time'[c] >= time[c]
        BY TimeMoves
      <4>2. time \in [Chains -> 1..(TimeModulus - 1)]
        BY DEF TypeOK
      <4>3. TimeModulus \in Nat
        BY Modulus
      <4>. QED
        BY <4>1, <4>2, <4>3
    <3>3. p.timeout \in Int
      BY DEF TypeOK, Packets
    <3>. QED
      BY <3>1, <3>2, <3>3
  <2>. QED
    BY <2>1
<1>2. ASSUME \A p \in packets' : p.ack = "none" /\ <<p.source, p.sequence>> \notin inFlight'
                 => /\ p \in packets
                    /\ \A c \in Chains : c # p.source => time[c] >= p.timeout
      PROVE  TimeoutsAreFinal'
  BY <1>1, <1>2 DEF TimeoutsAreFinal
<1>3. CASE UNCHANGED ibcVars
  BY <1>2, <1>3 DEF ibcVars, TimeoutsAreFinal
<1>4. ASSUME NEW p \in Packets, Sent(p)
      PROVE  TimeoutsAreFinal'
  BY <1>2, <1>4 DEF Sent, TimeoutsAreFinal
<1>5. ASSUME NEW c \in Chains, NEW p \in packets, NEW ack \in {"ok", "failure"},
             Received(c, p, ack)
      PROVE  TimeoutsAreFinal'
  <2>1. PICK q : q = [p EXCEPT !.ack = ack]
    BY Zenon
  <2>2. q.ack # "none"
    BY <2>1, AcknowledgeOnly
  <2>3. packets' = (packets \ {p}) \cup {q} /\ UNCHANGED inFlight
    BY <1>5, <2>1 DEF Received, Acknowledge
  <2>. QED
    BY <1>2, <2>2, <2>3 DEF TimeoutsAreFinal
<1>6. ASSUME NEW p \in packets, NEW status \in Statuses, Settled(p, status)
      PROVE  TimeoutsAreFinal'
  <2>1. packets' = packets /\ inFlight' = inFlight \ {<<p.source, p.sequence>>}
    BY <1>6, Zenon DEF Settled, Answered
  <2>2. p.ack = "none" => \A c \in Chains : c # p.source => time[c] >= p.timeout
    BY <1>6, Zenon DEF Settled
  <2>3. ASSUME NEW q \in packets, <<q.source, q.sequence>> = <<p.source, p.sequence>>
        PROVE  q = p
    BY <2>3 DEF Unique
  <2>. QED
    BY <1>2, <2>1, <2>2, <2>3 DEF TimeoutsAreFinal
<1>. QED
  BY <1>3, <1>4, <1>5, <1>6, IbcSteps

(* A status becomes "acked" for a packet that was counted. *)
LEMMA AckedIsCountedKept ==
  ASSUME TypeOK, Fresh, AcksAreTrue, AckedIsCounted, [Next]_vars
  PROVE  AckedIsCounted'
<1>1. ASSUME NEW c \in Chains, NEW addr \in Addrs, NEW id \in VotingIDs,
             \E d \in Chains \ {c} : Counted(d, addr, id)
      PROVE  \E d \in Chains \ {c} : Counted(d, addr, id)'
  BY <1>1, CountedStays, SMTT(30)
<1>2. ASSUME NEW c \in Chains, NEW addr \in Addrs, NEW id \in VotingIDs,
             ibcStats[c][<<addr, id>>] = "acked"
      PROVE  \E d \in Chains \ {c} : Counted(d, addr, id)'
  BY <1>1, <1>2 DEF AckedIsCounted, Counted
<1>3. ASSUME NEW p \in Packets, NEW status, SetIBCStats(p, status),
             status # "acked" \/ (p \in packets /\ p.ack = "ok"),
             NEW c \in Chains, NEW addr \in Addrs, NEW id \in VotingIDs,
             ibcStats'[c][<<addr, id>>] = "acked"
      PROVE  \E d \in Chains \ {c} : Counted(d, addr, id)'
  <2>1. CASE p.source = c /\ p.from = addr /\ p.id = id
    <3>1. ibcStats'[c][<<addr, id>>] = status
      BY <1>3, <2>1, SMTT(30) DEF SetIBCStats, TypeOK
    <3>2. p \in packets /\ p.ack = "ok"
      BY <1>3, <3>1
    <3>3. \E d \in Chains \ {c} : Counted(d, addr, id)
      BY <2>1, <3>2 DEF AcksAreTrue
    <3>. QED
      BY <1>1, <3>3
  <2>2. CASE ~(p.source = c /\ p.from = addr /\ p.id = id)
    <3>1. ibcStats'[c][<<addr, id>>] = ibcStats[c][<<addr, id>>]
      BY <1>3, <2>2 DEF SetIBCStats, TypeOK
    <3>. QED
      BY <1>2, <1>3, <3>1
  <2>. QED
    BY <2>1, <2>2
<1>4. ASSUME NEW c \in Chains, NEW addr \in Addrs, NEW id \in VotingIDs,
             ibcStats'[c][<<addr, id>>] = "acked"
      PROVE  \E d \in Chains \ {c} : Counted(d, addr, id)'
  <2>1. CASE UNCHANGED ibcStats
    BY <1>2, <1>4, <2>1
  <2>2. ASSUME NEW p \in Packets, Sent(p)
        PROVE  \E d \in Chains \ {c} : Counted(d, addr, id)'
    BY <1>3, <1>4, <2>2 DEF Sent
  <2>3. ASSUME NEW p \in packets, NEW status \in Statuses, Settled(p, status)
        PROVE  \E d \in Chains \ {c} : Counted(d, addr, id)'
    <3>1. p \in Packets
      BY SMTT(30) DEF TypeOK
    <3>. QED
      BY <1>3, <1>4, <2>3, <3>1, Zenon DEF Settled
  <2>. QED
    BY <2>1, <2>2, <2>3, IbcSteps, Zenon DEF ibcVars, Received
<1>. QED
  BY <1>4 DEF AckedIsCounted, Counted

(* Packets of one vote, and the packet its status is of. *)
Same(p, q) == q.source = p.source /\ q.from = p.from /\ q.id = p.id
StatusOf(p) == ibcStats[p.source][<<p.from, p.id>>]

(* The status follows the packet that last set it. *)
LEMMA StatusIsTrueKept ==
  ASSUME TypeOK, Unique, TimeoutsAreFinal, StatusIsTrue, [Next]_vars
  PROVE  StatusIsTrue'
<1>0. \A p \in packets : \E q \in packets : Same(p, q) /\ StatusOf(p) = StatusOfPacket(q)
  BY Zenon DEF StatusIsTrue, Same, SentBy, StatusOf
<1>1. SUFFICES ASSUME NEW r \in packets'
               PROVE  \E q \in packets' : Same(r, q) /\ StatusOf(r)' = StatusOfPacket(q)'
  BY Zenon DEF StatusIsTrue, Same, SentBy, StatusOf
<1>2. CASE UNCHANGED ibcVars
  BY <1>0, <1>2, Zenon DEF ibcVars, StatusOf, StatusOfPacket
<1>3. ASSUME NEW p \in Packets, \E s : SetIBCStats(p, s), r \in Packets, ~Same(p, r)
      PROVE  StatusOf(r)' = StatusOf(r)
  <2>1. PICK s : ibcStats' = [ibcStats EXCEPT ![p.source][<<p.from, p.id>>] = s]
    BY <1>3, Zenon DEF SetIBCStats
  <2>2. ibcStats \in [Chains -> [Addrs \X VotingIDs -> Statuses]]
    BY Zenon DEF TypeOK
  <2>3. /\ p.source \in Chains /\ <<p.from, p.id>> \in Addrs \X VotingIDs
        /\ r.source \in Chains /\ <<r.from, r.id>> \in Addrs \X VotingIDs
    BY <1>3 DEF Packets
  <2>4. CASE p.source # r.source
    BY <2>1, <2>2, <2>3, <2>4 DEF StatusOf
  <2>5. CASE p.source = r.source /\ <<p.from, p.id>> # <<r.from, r.id>>
    BY <2>1, <2>2, <2>3, <2>5 DEF StatusOf
  <2>. QED
    BY <1>3, <2>4, <2>5 DEF Same
<1>4. ASSUME NEW p \in Packets, NEW s, SetIBCStats(p, s)
      PROVE  StatusOf(p)' = s
  BY <1>4 DEF SetIBCStats, TypeOK, Packets, StatusOf
<1>5. r \in Packets
  BY IbcTyped
<1>6. ASSUME NEW p, Same(p, r) PROVE Same(r, p) /\ StatusOf(r)' = StatusOf(p)'
  BY <1>6, Zenon DEF Same, StatusOf
<1>7. ASSUME NEW p \in Packets, Sent(p)
      PROVE  \E q \in packets' : Same(r, q) /\ StatusOf(r)' = StatusOfPacket(q)'
  <2>1. /\ packets' = packets \cup {p} /\ inFlight' = inFlight \cup {<<p.source, p.sequence>>}
        /\ SetIBCStats(p, "sent")
    BY <1>7 DEF Sent
  <2>2. CASE Same(p, r)
    <3>1. p \in packets' /\ StatusOfPacket(p)' = "sent"
      BY <2>1 DEF StatusOfPacket
    <3>2. StatusOf(p)' = "sent"
      BY <1>4, <2>1
    <3>. QED
      BY <1>6, <2>2, <3>1, <3>2, Zenon
  <2>3. CASE ~Same(p, r)
    <3>1. r \in packets
      BY <2>1, <2>3, Zenon DEF Same
    <3>2. PICK q \in packets : Same(r, q) /\ StatusOf(r) = StatusOfPacket(q)
      BY <1>0, <3>1, Zenon
    <3>3. <<q.source, q.sequence>> # <<p.source, p.sequence>>
      <4>1. q.sequence \in Nat /\ p.sequence \in Nat
        BY DEF TypeOK, Packets
      <4>2. q.source = p.source => q.sequence < p.sequence
        BY <1>7 DEF Sent, SentBy
      <4>3. q.source = p.source => q.sequence # p.sequence
        BY <4>1, <4>2
      <4>. QED
        BY <4>3
    <3>4. StatusOfPacket(q)' = StatusOfPacket(q)
      BY <2>1, <3>3, Zenon DEF StatusOfPacket
    <3>5. StatusOf(r)' = StatusOf(r)
      BY <1>3, <1>5, <2>1, <2>3, Zenon
    <3>. QED
      BY <2>1, <3>2, <3>4, <3>5, Zenon
  <2>. QED
    BY <2>2, <2>3
<1>8. ASSUME NEW c \in Chains, NEW p \in packets, NEW ack \in {"ok", "failure"},
             Received(c, p, ack)
      PROVE  \E q \in packets' : Same(r, q) /\ StatusOf(r)' = StatusOfPacket(q)'
  <2>1. PICK a : a = [p EXCEPT !.ack = ack]
    BY Zenon
  <2>2. /\ a.source = p.source /\ a.sequence = p.sequence
        /\ a.from = p.from /\ a.id = p.id /\ a.ack = ack
    BY <2>1, AcknowledgeOnly
  <2>3. packets' = (packets \ {p}) \cup {a} /\ UNCHANGED <<ibcStats, inFlight>>
    BY <1>8, <2>1 DEF Received, Acknowledge
  <2>4. PICK o \in packets : Same(o, r) /\ StatusOf(r)' = StatusOf(o)
    <3>1. CASE r = a
      BY <2>2, <2>3, <3>1, Zenon DEF Same, StatusOf
    <3>2. CASE r # a
      BY <2>3, <3>2, Zenon DEF Same, StatusOf
    <3>. QED
      BY <3>1, <3>2
  <2>5. PICK q \in packets : Same(o, q) /\ StatusOf(o) = StatusOfPacket(q)
    BY <1>0, Zenon
  <2>6. Same(r, q)
    BY <2>4, <2>5, Zenon DEF Same
  <2>7. CASE q = p
    <3>1. <<p.source, p.sequence>> \in inFlight
      <4>1. p.ack = "none" /\ p.source # c /\ time[c] < p.timeout
        BY <1>8 DEF Received
      <4>2. time[c] \in 1..(TimeModulus - 1) /\ TimeModulus \in Nat /\ p.timeout \in Nat
        BY Modulus DEF TypeOK, Packets
      <4>3. ~(time[c] >= p.timeout)
        BY <4>1, <4>2
      <4>. QED
        BY <4>1, <4>3 DEF TimeoutsAreFinal
    <3>2. StatusOfPacket(p) = "sent" /\ StatusOfPacket(a)' = "sent"
      BY <2>2, <2>3, <3>1 DEF StatusOfPacket
    <3>3. Same(r, a) /\ a \in packets'
      BY <2>2, <2>3, <2>6, <2>7 DEF Same
    <3>. QED
      BY <2>4, <2>5, <2>7, <3>2, <3>3, Zenon
  <2>8. CASE q # p
    <3>1. q \in packets' /\ StatusOfPacket(q)' = StatusOfPacket(q)
      BY <2>3, <2>8, Zenon DEF StatusOfPacket
    <3>. QED
      BY <2>4, <2>5, <2>6, <3>1, Zenon
  <2>. QED
    BY <2>7, <2>8
<1>9. ASSUME NEW p \in packets, NEW status \in Statuses, Settled(p, status)
      PROVE  \E q \in packets' : Same(r, q) /\ StatusOf(r)' = StatusOfPacket(q)'
  <2>1. /\ packets' = packets /\ inFlight' = inFlight \ {<<p.source, p.sequence>>}
        /\ SetIBCStats(p, status) /\ p \in Packets
    BY <1>9, Zenon DEF Settled, Answered, TypeOK
  <2>2. CASE Same(p, r)
    <3>1. StatusOf(p)' = status
      BY <1>4, <2>1
    <3>2. StatusOfPacket(p)' = status /\ p \in packets'
      BY <1>9, <2>1, Zenon DEF StatusOfPacket, Settled
    <3>. QED
      BY <1>6, <2>2, <3>1, <3>2, Zenon
  <2>3. CASE ~Same(p, r)
    <3>1. PICK q \in packets : Same(r, q) /\ StatusOf(r) = StatusOfPacket(q)
      BY <1>0, <2>1, Zenon
    <3>2. q # p
      BY <2>3, <3>1, Zenon DEF Same
    <3>3. <<q.source, q.sequence>> # <<p.source, p.sequence>>
      BY <3>2 DEF Unique
    <3>4. StatusOfPacket(q)' = StatusOfPacket(q)
      BY <2>1, <3>3 DEF StatusOfPacket
    <3>5. StatusOf(r)' = StatusOf(r)
      BY <1>3, <1>5, <2>1, <2>3, Zenon
    <3>. QED
      BY <2>1, <3>1, <3>4, <3>5, Zenon
  <2>. QED
    BY <2>2, <2>3
<1>. QED
  BY <1>1, <1>2, <1>7, <1>8, <1>9, IbcSteps

-----------------------------------------------------------------------------
(* Replies. *)
LEMMA RepliesKept ==
  ASSUME TypeOK, RepliesDispatched, [Next]_vars
  PROVE  /\ replyMsgType' \in [Chains -> {"none", "bank", "withdraw"}]
         /\ releaseStats' \in [Chains -> Totals] /\ withdrawStats' \in [Chains -> Totals]
         /\ released' \in [Chains -> Totals] /\ withdrawn' \in [Chains -> Totals]
         /\ RepliesDispatched'
<1>0. /\ replyMsgType \in [Chains -> {"none", "bank", "withdraw"}]
      /\ releaseStats \in [Chains -> Totals] /\ withdrawStats \in [Chains -> Totals]
      /\ released \in [Chains -> Totals] /\ withdrawn \in [Chains -> Totals]
  BY DEF TypeOK
<1>1. ASSUME NEW t \in Totals, NEW a \in Nat
      PROVE  /\ Add(t, a) \in Totals /\ Add(t, a).count = t.count + 1
             /\ Add(t, a).amount = t.amount + a
  BY DEF Add, Totals
<1>2. CASE UNCHANGED replyVars
  BY <1>0, <1>2 DEF replyVars, RepliesDispatched
<1>3. ASSUME NEW c \in Chains, NEW s \in Addrs, NEW e \in BOOLEAN, HandleMsgRelease(c, s, e)
      PROVE  /\ replyMsgType' \in [Chains -> {"none", "bank", "withdraw"}]
             /\ releaseStats' \in [Chains -> Totals] /\ withdrawStats' \in [Chains -> Totals]
             /\ released' \in [Chains -> Totals] /\ withdrawn' \in [Chains -> Totals]
             /\ RepliesDispatched'
  <2>1. PICK funds : funds = balance[c]
    OBVIOUS
  <2>2. PICK seen : seen = IF e THEN funds ELSE 0
    OBVIOUS
  <2>3. funds \in Nat /\ seen \in Nat /\ seen <= funds
    <3>1. funds \in Nat
      BY <2>1 DEF TypeOK
    <3>. QED
      BY <2>2, <3>1, SMTT(30)
  <2>4. /\ replyMsgType' = [replyMsgType EXCEPT ![c] = "bank"]
        /\ releaseStats' = [releaseStats EXCEPT ![c] = Add(releaseStats[c], seen)]
        /\ released' = [released EXCEPT ![c] = Add(released[c], funds)]
        /\ UNCHANGED <<withdrawStats, withdrawn>>
    BY <1>3, <2>1, <2>2 DEF HandleMsgRelease, SetReplyMsgType, Reply, HandleReplyBankMsg
  <2>5. PICK x, y : x = Add(releaseStats[c], seen) /\ y = Add(released[c], funds)
    OBVIOUS
  <2>6. /\ x \in Totals /\ x.count = releaseStats[c].count + 1
        /\ x.amount = releaseStats[c].amount + seen
        /\ y \in Totals /\ y.count = released[c].count + 1
        /\ y.amount = released[c].amount + funds
    BY <1>0, <1>1, <2>3, <2>5, Zenon
  <2>7. /\ releaseStats[c].amount \in Nat /\ released[c].amount \in Nat
        /\ releaseStats[c].amount <= released[c].amount
        /\ releaseStats[c].count = released[c].count
    BY <1>0 DEF Totals, RepliesDispatched
  <2>8. x.count = y.count /\ x.amount <= y.amount
    BY <2>3, <2>6, <2>7
  <2>9. RepliesDispatched'
    BY <1>0, <2>4, <2>5, <2>8 DEF RepliesDispatched
  <2>. QED
    BY <1>0, <2>4, <2>5, <2>6, <2>9
<1>4. ASSUME NEW c \in Chains, NEW amount \in Rewards, HandleMsgWithdrawRewards(c, amount)
      PROVE  /\ replyMsgType' \in [Chains -> {"none", "bank", "withdraw"}]
             /\ releaseStats' \in [Chains -> Totals] /\ withdrawStats' \in [Chains -> Totals]
             /\ released' \in [Chains -> Totals] /\ withdrawn' \in [Chains -> Totals]
             /\ RepliesDispatched'
  <2>1. /\ replyMsgType' = [replyMsgType EXCEPT ![c] = "withdraw"]
        /\ withdrawStats' = [withdrawStats EXCEPT ![c] = Add(withdrawStats[c], amount)]
        /\ withdrawn' = [withdrawn EXCEPT ![c] = Add(withdrawn[c], amount)]
        /\ UNCHANGED <<releaseStats, released>>
    BY <1>4 DEF HandleMsgWithdrawRewards, SetReplyMsgType, Reply, HandleReplyCustomWithdrawMsg
  <2>2. amount \in Nat
    BY VoterAssumptions
  <2>3. Add(withdrawStats[c], amount) \in Totals /\ Add(withdrawn[c], amount) \in Totals
    BY <1>0, <1>1, <2>2
  <2>4. withdrawStats[c] = withdrawn[c]
    BY DEF RepliesDispatched
  <2>5. RepliesDispatched'
    BY <1>0, <2>1, <2>4 DEF RepliesDispatched
  <2>. QED
    BY <1>0, <2>1, <2>3, <2>5
<1>5. ASSUME NEW c \in Chains, Execute(c)
      PROVE  \/ UNCHANGED replyVars
             \/ \E s \in Addrs, e \in BOOLEAN : HandleMsgRelease(c, s, e)
             \/ \E amount \in Rewards : HandleMsgWithdrawRewards(c, amount)
  BY <1>5, Zenon DEF Execute, HandleMsgNewVoting, HandleMsgVote, HandleMsgSendIBCVote
<1>6. ASSUME NEW c \in Chains,
             \/ Sudo(c) \/ IBCPacketReceive(c) \/ IBCPacketAck(c) \/ IBCPacketTimeout(c)
             \/ NextBlock(c)
      PROVE  UNCHANGED replyVars
  BY <1>6, Zenon DEF Sudo, HandleSudoChangeNewVotingCost, HandleSudoChangeVoteCost, NextBlock,
      IBCPacketReceive, IBCPacketAck, IBCPacketTimeout,
      HandleIBCMsgVote, HandleIBCAckVote, HandleIBCTimeoutVote
<1>7. CASE UNCHANGED vars
  BY <1>2, <1>7 DEF vars, replyVars
<1>8. CASE Next
  BY <1>2, <1>3, <1>4, <1>5, <1>6, <1>8 DEF Next
<1>. QED
  BY <1>7, <1>8
-----------------------------------------------------------------------------
(* Every step keeps the invariant. *)
LEMMA NextInv == Inv /\ [Next]_vars => Inv'
<1>. SUFFICES ASSUME Inv, [Next]_vars PROVE Inv'
  OBVIOUS
<1>1. TypeOK'
  BY VotingsTyped, TimeMoves, FundsTyped, IbcTyped, RepliesKept, Zenon DEF Inv, TypeOK
<1>. QED
  BY <1>1, VotingInvariants, StartedKept, UniqueKept, AcksAreTrueKept, TimeoutsAreFinalKept,
     AckedIsCountedKept, StatusIsTrueKept, RepliesKept
  DEF Inv

(* The inductive invariant of the two contracts and the channel. *)
THEOREM InductiveInvariant == Spec => []Inv
  BY InitInv, NextInv, PTL DEF Spec

(* Every part of the contracts' storage stays in its type. *)
THEOREM TypeCorrect == Spec => []TypeOK
<1>1. Inv => TypeOK
  BY DEF Inv
<1>. QED
  BY <1>1, InductiveInvariant, PTL

(* No address is counted twice in a voting, wherever its votes come from. *)
THEOREM VotesAreSingle == Spec => []OneVote
<1>1. Inv => OneVote
  BY DEF Inv
<1>. QED
  BY <1>1, InductiveInvariant, PTL

(* A vote whose status is "acked" is counted on another chain, also after  *)
(* further packets of the sender for the voting.                           *)
THEOREM AcksCorrect == Spec => []AckedIsCounted
<1>1. Inv => AckedIsCounted
  BY DEF Inv
<1>. QED
  BY <1>1, InductiveInvariant, PTL

(* The status of a vote that was sent once is what became of its packet,   *)
(* in whichever order packets, acknowledgements and timeouts arrive.       *)
THEOREM StatusCorrect == Spec => []StatusIsTrue
<1>1. Inv => StatusIsTrue
  BY DEF Inv
<1>. QED
  BY <1>1, InductiveInvariant, PTL

(* Replies that share an identifier still reach their handlers. *)
THEOREM RepliesCorrect == Spec => []RepliesDispatched
<1>1. Inv => RepliesDispatched
  BY DEF Inv
<1>. QED
  BY <1>1, InductiveInvariant, PTL

(* Votings are kept, with their terms and votes, and closed ones do not    *)
(* change.                                                                 *)
THEOREM VotingsNotLost == Spec => VotingsKept
<1>1. ASSUME Inv, [Next]_vars, NEW c \in Chains, NEW id \in VotingIDs
      PROVE  LET v == votings[c][id]
                 w == votings'[c][id]
             IN  v # ZeroVoting =>
                     /\ w.options = v.options /\ w.start = v.start /\ w.end = v.end
                     /\ \A i \in DOMAIN v.votes : i \in DOMAIN w.votes /\ w.votes[i] = v.votes[i]
                     /\ time[c] > v.end => w = v
  <2>1. TypeOK /\ Fresh
    BY <1>1 DEF Inv
  <2>2. PICK v : v = votings[c][id]
    OBVIOUS
  <2>3. PICK w : w = votings'[c][id]
    BY SMTT(30)
  <2>4. /\ \A i \in DOMAIN v.votes : i \in DOMAIN w.votes /\ w.votes[i] = v.votes[i]
        /\ v # ZeroVoting => /\ w.options = v.options /\ w.start = v.start
                             /\ w.end = v.end
                             /\ time[c] > v.end => w = v
    BY <1>1, <2>1, <2>2, <2>3, OneVotingKept, SMTT(30)
  <2>. QED
    BY <2>2, <2>3, <2>4, Zenon
<1>2. Inv /\ [Next]_vars =>
          [\A c \in Chains, id \in VotingIDs :
             LET v == votings[c][id]
                 w == votings'[c][id]
             IN  v # ZeroVoting =>
                     /\ w.options = v.options /\ w.start = v.start /\ w.end = v.end
                     /\ \A i \in DOMAIN v.votes : i \in DOMAIN w.votes /\ w.votes[i] = v.votes[i]
                     /\ time[c] > v.end => w = v]_vars
  BY <1>1, Zenon
<1>. QED
  BY <1>2, InductiveInvariant, PTL DEF Spec, VotingsKept

(* The query for open votings returns exactly those whose duration has not *)
(* passed, although it also reads the withdraw statistics as a voting, and *)
(* none whose end does not fit the timestamp.                              *)
THEOREM OpenVotingsCorrect == Spec => []OpenForDuration
<1>1. ASSUME Inv, NEW c \in Chains, NEW id \in VotingIDs, NEW v, v = votings[c][id],
             NEW end, end = v.start + v.duration
      PROVE  id \in QueryOpen(c) <=> v # ZeroVoting /\ end < TimeModulus /\ time[c] <= end
  <2>1. v \in Votings /\ time[c] \in 1..(TimeModulus - 1) /\ TimeModulus \in Nat
    <3>1. TypeOK
      BY <1>1 DEF Inv
    <3>. QED
      BY <1>1, <3>1, Modulus DEF TypeOK
  <2>2. /\ v.start \in Nat /\ v.duration \in Nat
        /\ v.start <= time[c] /\ v.duration < TimeModulus
        /\ v.end = Plus(v.start, v.duration)
    BY <1>1, <2>1 DEF Votings, Inv, Started, EndsRight
  <2>3. IsClosed(v, time[c]) <=> ~(end < TimeModulus /\ time[c] <= end)
    <3>1. CASE end < TimeModulus
      <4>1. v.end = end
        BY <1>1, <2>2, <3>1, PlusFits, Zenon
      <4>. QED
        BY <1>1, <2>1, <2>2, <3>1, <4>1 DEF IsClosed
    <3>2. CASE ~(end < TimeModulus)
      <4>1. v.end < v.start
        BY <1>1, <2>1, <2>2, <3>2, PlusWraps
      <4>2. v.end \in Nat
        BY <2>1 DEF Votings
      <4>. QED
        BY <2>1, <2>2, <3>2, <4>1, <4>2 DEF IsClosed
    <3>. QED
      BY <3>1, <3>2
  <2>4. IsClosed(ZeroVoting, time[c])
    BY <2>1 DEF IsClosed, ZeroVoting
  <2>5. ASSUME id \in QueryOpen(c)
        PROVE  v # ZeroVoting /\ ~IsClosed(v, time[c])
    <3>1. PICK x \in IterateVotings(c) : x[1] = id /\ ~IsClosed(x[2], time[c])
      BY <2>5 DEF QueryOpen
    <3>2. x # <<0, ZeroVoting>>
      BY <2>4, <3>1
    <3>3. PICK i \in VotingIDs : x = <<i, votings[c][i]>> /\ votings[c][i] # ZeroVoting
      BY <3>1, <3>2 DEF IterateVotings
    <3>. QED
      BY <1>1, <3>1, <3>3
  <2>6. ASSUME v # ZeroVoting, ~IsClosed(v, time[c])
        PROVE  id \in QueryOpen(c)
    <3>1. <<id, v>> \in IterateVotings(c)
      BY <1>1, <2>6 DEF IterateVotings
    <3>. QED
      BY <2>6, <3>1 DEF QueryOpen
  <2>. QED
    BY <2>3, <2>5, <2>6, Zenon
<1>2. Inv => OpenForDuration
  BY <1>1 DEF OpenForDuration
<1>. QED
  BY <1>2, InductiveInvariant, PTL
=============================================================================
