-------------------------------- MODULE CwIca --------------------------------
(***************************************************************************)
(* x/cwica: contracts own accounts on other chains (the ICS-27 controller  *)
(* side).  A contract registers an account over a connection, sends it     *)
(* transactions, and is told of each whether it was executed: success by a *)
(* sudo call in the transaction that relays the acknowledgement, failure   *)
(* and timeout as an error of x/cwerrors, whose module this one composes.  *)
(*                                                                         *)
(* IBC itself (channels, ordered delivery, timeouts, the controller's      *)
(* active channel) is external; so is the host chain.  A relayer's         *)
(* transaction that fails, for gas say, changes nothing and may be sent    *)
(* again, so only the successful ones are steps.                           *)
(***************************************************************************)
EXTENDS CwErrors, Sequences

CONSTANTS
    Connections,    \* identifiers of the connections
    MaxMessageSets, \* values governance may choose for MsgSendTxMaxMessages
    MsgCounts,      \* numbers of messages in a MsgSendTx
    Timeouts,       \* timeouts of a MsgSendTx, in blocks of one time unit
    MaxChannels,    \* bound: channels opened
    MaxRequests,    \* bound: transactions sent
    MaxRemoteTime   \* bound: the host chain's clock

VARIABLES
    maxMessages,    \* Params.MsgSendTxMaxMessages
    channels,       \* the ends of the channels on this chain, by identifier
    active,         \* <<contract, connection>> -> active channel, or 0
    commitments,    \* <<channel, sequence>> of the packets with no answer yet
    packets,        \* packets sent, and what the host chain did with them
    remoteTime,     \* the host chain's block time
    responses,      \* the MsgSendTxResponse of each request, in order
    answers         \* what the handlers passed on, by channel and sequence

ibcVars == <<channels, active, commitments, packets, remoteTime>>
icaVars == <<maxMessages, ibcVars, responses, answers>>
icaAllVars == <<vars, icaVars>>

Owners == Contracts \X Connections
Channels == [owner : Owners, state : {"INIT", "OPEN", "CLOSED"}, next : Nat]
Packets == [request : Nat, channel : Nat, sequence : Nat, timeout : Nat,
            host : {"unreceived", "executed", "rejected"}]
Responses == [contract : Contracts, channel : Nat, sequence : Nat]
Answers == [contract : Contracts, channel : Nat, sequence : Nat,
            kind : {"tx_executed", "ERR_EXEC_FAILURE", "ERR_PACKET_TIMEOUT"}, failure : Nat]

ASSUME CwIcaAssumptions ==
    /\ MaxMessageSets \subseteq Nat \ {0}
    /\ MsgCounts \subseteq Nat \ {0}
    /\ Timeouts \subseteq Nat \ {0}
    /\ MaxChannels \in Nat /\ MaxRequests \in Nat /\ MaxRemoteTime \in Nat
-----------------------------------------------------------------------------
IcaInit ==
    /\ Init
    /\ maxMessages \in MaxMessageSets
    /\ channels = <<>>
    /\ active = [o \in Owners |-> 0]
    /\ commitments = {} /\ packets = {}
    /\ remoteTime = 0
    /\ responses = <<>> /\ answers = {}

(* Transactions are delivered, up to the bound on heights. *)
Delivering == phase = "deliver" /\ height <= MaxHeight

(* External: the ICA controller opens a channel unless the owner's active  *)
(* channel over the connection is still usable.                            *)
Usable(owner) == active[owner] # 0 /\ channels[active[owner]].state # "CLOSED"

ControllerRegister(owner) ==
    /\ ~Usable(owner)
    /\ channels' = Append(channels, [owner |-> owner, state |-> "INIT", next |-> 1])

RegisterInterchainAccount(contract, connection) ==
    /\ Delivering
    /\ Len(channels) < MaxChannels
    /\ ControllerRegister(<<contract, connection>>)
    /\ UNCHANGED <<vars, maxMessages, active, commitments, packets, remoteTime, responses,
                   answers>>

(* External: the handshake completes, unless another channel of the owner  *)
(* became active first.  The contract is told of its account by            *)
(* HandleChanOpenAck, whether it can take the message or not.              *)
HandleChanOpenAck(ch) ==
    LET owner == channels[ch].owner
    IN  /\ Delivering
        /\ channels[ch].state = "INIT"
        /\ ~Usable(owner)
        /\ channels' = [channels EXCEPT ![ch].state = "OPEN"]
        /\ active' = [active EXCEPT ![owner] = ch]
        /\ UNCHANGED <<vars, maxMessages, commitments, packets, remoteTime, responses, answers>>

GetActiveChannelID(contract, connection) == active[<<contract, connection>>]

(* Mutant: the sequence is read after the packet was sent. *)
SequenceAfterSend(ch) == channels[ch].next + 1

GetNextSequenceSend(ch) == channels[ch].next

(* External: the controller sends on an open channel only. *)
ControllerSendTx(ch, request, timeout) ==
    /\ channels[ch].state = "OPEN"
    /\ packets' = packets \cup
           {[request |-> request, channel |-> ch, sequence |-> channels[ch].next,
             timeout |-> timeout, host |-> "unreceived"]}
    /\ commitments' = commitments \cup {<<ch, channels[ch].next>>}
    /\ channels' = [channels EXCEPT ![ch].next = @ + 1]

SendTx(contract, connection, n, timeout) ==
    LET ch == GetActiveChannelID(contract, connection)
        request == Len(responses) + 1
    IN  /\ Delivering
        /\ request <= MaxRequests
        /\ n <= maxMessages
        /\ ch # 0
        /\ ControllerSendTx(ch, request, height + timeout)
        /\ responses' = Append(responses,
               [contract |-> contract, channel |-> ch, sequence |-> GetNextSequenceSend(ch)])
        /\ UNCHANGED <<vars, maxMessages, active, remoteTime, answers>>

(* Mutant: the parameters are not validated. *)
IcaUpdateUnvalidated(max) ==
    /\ Delivering
    /\ maxMessages' \in {max, 0}
    /\ UNCHANGED <<vars, ibcVars, responses, answers>>

IcaUpdateParams(max) ==
    /\ Delivering
    /\ maxMessages' = max
    /\ UNCHANGED <<vars, ibcVars, responses, answers>>
-----------------------------------------------------------------------------
(* External: the host chain receives the packets of a channel in order and *)
(* before they time out; a transaction that fails there has no effect.     *)
HostReceives(p, result) ==
    /\ p.host = "unreceived"
    /\ remoteTime < p.timeout
    /\ \A q \in packets : q.channel = p.channel /\ q.sequence < p.sequence
                              => q.host # "unreceived"
    /\ packets' = (packets \ {p}) \cup {[p EXCEPT !.host = result]}
    /\ UNCHANGED <<vars, maxMessages, channels, active, commitments, remoteTime, responses,
                   answers>>

HostBlock ==
    /\ remoteTime < MaxRemoteTime
    /\ remoteTime' = remoteTime + 1
    /\ UNCHANGED <<vars, maxMessages, channels, active, commitments, packets, responses,
                   answers>>

Answer(p, kind) ==
    [contract |-> channels[p.channel].owner[1], channel |-> p.channel,
     sequence |-> p.sequence, kind |-> kind, failure |-> errorID]

(* External: a packet is acknowledged or times out once, acknowledgements  *)
(* arrive in order and over an open channel, and a packet times out only   *)
(* when the host chain will not receive it any more.                       *)
Acknowledged(p) ==
    /\ Delivering
    /\ <<p.channel, p.sequence>> \in commitments
    /\ p.host # "unreceived"
    /\ channels[p.channel].state = "OPEN"
    /\ \A q \in packets : q.channel = p.channel /\ q.sequence < p.sequence
                              => <<q.channel, q.sequence>> \notin commitments
    /\ commitments' = commitments \ {<<p.channel, p.sequence>>}
    /\ UNCHANGED channels

TimedOut(p) ==
    /\ Delivering
    /\ <<p.channel, p.sequence>> \in commitments
    /\ p.host = "unreceived"
    /\ remoteTime >= p.timeout
    /\ commitments' = commitments \ {<<p.channel, p.sequence>>}
    /\ channels' = [channels EXCEPT ![p.channel].state = "CLOSED"]

(* A contract that cannot take the message is not told again: the error is *)
(* only logged.                                                            *)
HandleAcknowledgement(p, taken) ==
    /\ Acknowledged(p)
    /\ \/ /\ p.host = "executed"
          /\ answers' = IF taken THEN answers \cup {Answer(p, "tx_executed")} ELSE answers
          /\ UNCHANGED vars
       \/ /\ p.host = "rejected"
          /\ SetError(channels[p.channel].owner[1])
          /\ answers' = answers \cup {Answer(p, "ERR_EXEC_FAILURE")}
    /\ UNCHANGED <<maxMessages, active, packets, remoteTime, responses>>

(* Mutant: the timeout is not turned into an error. *)
TimeoutUnreported(p) ==
    /\ TimedOut(p)
    /\ answers' = answers \cup {Answer(p, "ERR_PACKET_TIMEOUT")}
    /\ UNCHANGED <<vars, maxMessages, active, packets, remoteTime, responses>>

HandleTimeout(p) ==
    /\ TimedOut(p)
    /\ SetError(channels[p.channel].owner[1])
    /\ answers' = answers \cup {Answer(p, "ERR_PACKET_TIMEOUT")}
    /\ UNCHANGED <<maxMessages, active, packets, remoteTime, responses>>
-----------------------------------------------------------------------------
IcaNext ==
    \/ \E contract \in Contracts, connection \in Connections :
           RegisterInterchainAccount(contract, connection)
    \/ \E ch \in 1..Len(channels) : HandleChanOpenAck(ch)
    \/ \E contract \in Contracts, connection \in Connections, n \in MsgCounts, t \in Timeouts :
           SendTx(contract, connection, n, t)
    \/ \E max \in MaxMessageSets : IcaUpdateParams(max)
    \/ \E p \in packets, result \in {"executed", "rejected"} : HostReceives(p, result)
    \/ HostBlock
    \/ \E p \in packets, taken \in BOOLEAN : HandleAcknowledgement(p, taken)
    \/ \E p \in packets : HandleTimeout(p)
    \/ Next /\ UNCHANGED icaVars

IcaSpec == IcaInit /\ [][IcaNext]_icaAllVars

(* Only x/cwerrors' EndBlocker and the blocks it runs in are assumed to go *)
(* on; relayers and contracts need not do anything.                        *)
IcaFairSpec == IcaSpec /\ Fairness
-----------------------------------------------------------------------------
(* Type invariant: an active channel has completed its handshake for its   *)
(* owner, and only sent packets await an answer.                           *)
IcaTypeOK ==
    /\ maxMessages \in Nat \ {0}
    /\ channels \in Seq(Channels)
    /\ active \in [Owners -> 0..Len(channels)]
    /\ \A o \in Owners : active[o] # 0 => /\ channels[active[o]].owner = o
                                          /\ channels[active[o]].state # "INIT"
    /\ packets \in SUBSET Packets
    /\ commitments \subseteq {<<p.channel, p.sequence>> : p \in packets}
    /\ remoteTime \in Nat
    /\ responses \in Seq(Responses)
    /\ answers \in SUBSET Answers

(* The contract matches an answer to its request by the channel and the    *)
(* sequence that SendTx returned.                                          *)
Matching(r) == {a \in answers : /\ a.contract = responses[r].contract
                                /\ a.channel = responses[r].channel
                                /\ a.sequence = responses[r].sequence}

Known(r) ==
    IF r > Len(responses) \/ Matching(r) = {} THEN "nothing"
    ELSE IF \A a \in Matching(r) : a.kind = "tx_executed" THEN "executed"
    ELSE IF \A a \in Matching(r) : a.kind # "tx_executed" THEN "failed"
    ELSE "contradiction"

Outcome(r) ==
    IF r > Len(responses) THEN "none"
    ELSE IF \E p \in packets : p.request = r /\ p.host = "executed" THEN "executed"
    ELSE IF \E p \in packets : p.request = r /\ (p.host = "rejected" \/ remoteTime >= p.timeout)
         THEN "failed"
    ELSE "pending"

R == INSTANCE Requests
         WITH outcome <- [r \in 1..MaxRequests |-> Outcome(r)],
              knows <- [r \in 1..MaxRequests |-> Known(r)]

(* What a contract learns of a transaction it sent, by the identification  *)
(* SendTx gave it, is what became of that transaction on the host chain,   *)
(* and it learns it once: across acknowledgements, timeouts, channels that *)
(* close with packets in flight, and channels that replace them.           *)
ImplementsRequests == R!Spec

(* No failure of a remote transaction is lost on its way through           *)
(* x/cwerrors: an error of its own was made out to the contract that sent  *)
(* the transaction, and was taken by it, waits for it in this block or was *)
(* announced as stored.                                                    *)
Failed == {a \in answers : a.kind # "tx_executed"}

EveryFailureReported ==
    \A a \in Failed :
        /\ a.failure \in told \/ Waiting(a.failure) \/ Announced(a.failure)
        /\ \A e \in errors \cup sudoErrors : e.failure = a.failure => e.contract = a.contract
        /\ \A b \in Failed : b.failure = a.failure => b = a

(* Every failure of a remote transaction reaches the contract or the state *)
(* it can query, however its subscription begins, ends or is renewed.      *)
EventuallyTold ==
    \A i \in 0..(MaxErrors - 1) :
        (\E a \in Failed : a.failure = i) ~> (i \in told \/ \E n \in announced : n.failure = i)
=============================================================================
