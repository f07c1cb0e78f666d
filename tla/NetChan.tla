------------------------------ MODULE NetChan ------------------------------
(***************************************************************************)
(* The reliable half of a network channel: a client and a server, each     *)
(* with its net_chan_t (net_chan.h), exchanging datagrams over UDP.        *)
(*                                                                         *)
(* Every datagram carries a sequence number, the last sequence number its  *)
(* sender received, and two bits: whether it contains the sender's         *)
(* reliable message, and the parity of the reliable messages the sender    *)
(* has received.  One reliable message is outstanding per direction; the   *)
(* commands written meanwhile collect in chan->message.                    *)
(*                                                                         *)
(* The unreliable part of a datagram is not carried here: whether it is    *)
(* acted on is decided by the same sequence test as the reliable part.     *)
(***************************************************************************)
EXTENDS Integers, Sequences, FiniteSets

CONSTANTS
  Commands,         \* The reliable commands, e.g. config strings and "new".
  MessageCapacity,  \* Commands that fit in chan->message.
  MaxSequence,      \* Bound: datagrams each endpoint sends, below the 31 bit wrap.
  MaxWrites,        \* Bound: commands each endpoint writes.
  MaxLead,          \* Bound: datagrams an endpoint sends ahead of the other.
  MaxInTransit,     \* Bound: datagrams under way when another one is sent.
  MaxLost,          \* Bound: datagrams the network drops for good.
  Repeats,          \* Whether the network may deliver a datagram again.
  Repair            \* Datagrams enough to get a command across all the same.

Endpoint == {"client", "server"}

Peer(e) == IF e = "client" THEN "server" ELSE "client"

ASSUME NetChanAssumption ==
  /\ MessageCapacity \in Nat \ {0}
  /\ MaxSequence \in [Endpoint -> Nat]
  /\ MaxWrites \in [Endpoint -> Nat]
  /\ MaxLead \in Nat
  /\ MaxInTransit \in Nat
  /\ MaxLost \in Nat
  /\ Repair \in Nat
  /\ Repeats \in BOOLEAN

VARIABLES
  incoming_sequence,              \* Sequence of the last accepted datagram.
  incoming_acknowledged,          \* Sequence the peer last acknowledged.
  incoming_reliable_acknowledged, \* Reliable bit the peer last acknowledged.
  incoming_reliable_sequence,     \* Parity of the reliable messages accepted.
  outgoing_sequence,              \* Sequence of the next datagram.
  reliable_sequence,              \* Parity of the reliable messages staged.
  last_reliable_sequence,         \* outgoing_sequence after the last reliable send.
  message,                        \* chan->message: written, not yet staged.
  overflowed,                     \* chan->message.overflowed.
  reliable,                       \* chan->reliable_buffer, <<>> when reliable_size is 0.
  fatal_error,                    \* chan->fatal_error.
  net,                            \* net[e]: the datagrams that may still reach e.
  lost,                           \* Datagrams the network dropped so far.
  written,                        \* History: commands written at e.
  delivered                       \* History: commands accepted at e from its peer.

counters == <<incoming_sequence, incoming_acknowledged,
              incoming_reliable_acknowledged, incoming_reliable_sequence>>
vars == <<incoming_sequence, incoming_acknowledged,
          incoming_reliable_acknowledged, incoming_reliable_sequence,
          outgoing_sequence, reliable_sequence, last_reliable_sequence,
          message, overflowed, reliable, fatal_error, net, lost, written,
          delivered>>

Bit == {0, 1}

Packet == [sequence : Nat, has_reliable : BOOLEAN, ack : Nat,
           reliable_ack : Bit, payload : Seq(Commands)]

(* Every member of the channel has its type. *)
TypeOK ==
  /\ incoming_sequence \in [Endpoint -> Nat]
  /\ incoming_acknowledged \in [Endpoint -> Nat]
  /\ incoming_reliable_acknowledged \in [Endpoint -> Bit]
  /\ incoming_reliable_sequence \in [Endpoint -> Bit]
  /\ outgoing_sequence \in [Endpoint -> Nat \ {0}]
  /\ reliable_sequence \in [Endpoint -> Bit]
  /\ last_reliable_sequence \in [Endpoint -> Nat]
  /\ message \in [Endpoint -> Seq(Commands)]
  /\ overflowed \in [Endpoint -> BOOLEAN]
  /\ reliable \in [Endpoint -> Seq(Commands)]
  /\ fatal_error \in [Endpoint -> BOOLEAN]
  /\ net \in [Endpoint -> SUBSET Packet]
  /\ lost \in Nat
  /\ written \in [Endpoint -> Seq(Commands)]
  /\ delivered \in [Endpoint -> Seq(Commands)]

-----------------------------------------------------------------------------
(* Netchan_Setup at both ends of a fresh connection. *)
Init ==
  /\ incoming_sequence = [e \in Endpoint |-> 0]
  /\ incoming_acknowledged = [e \in Endpoint |-> 0]
  /\ incoming_reliable_acknowledged = [e \in Endpoint |-> 0]
  /\ incoming_reliable_sequence = [e \in Endpoint |-> 0]
  /\ outgoing_sequence = [e \in Endpoint |-> 1]
  /\ reliable_sequence = [e \in Endpoint |-> 0]
  /\ last_reliable_sequence = [e \in Endpoint |-> 0]
  /\ message = [e \in Endpoint |-> <<>>]
  /\ overflowed = [e \in Endpoint |-> FALSE]
  /\ reliable = [e \in Endpoint |-> <<>>]
  /\ fatal_error = [e \in Endpoint |-> FALSE]
  /\ net = [e \in Endpoint |-> {}]
  /\ lost = 0
  /\ written = [e \in Endpoint |-> <<>>]
  /\ delivered = [e \in Endpoint |-> <<>>]

(* Mem_AllocBuffer on chan->message, for which overflow is allowed: what no *)
(* longer fits throws the collected commands away.                          *)
Write(e, c) ==
  /\ Len(written[e]) < MaxWrites[e]
  /\ written' = [written EXCEPT ![e] = Append(@, c)]
  /\ IF Len(message[e]) < MessageCapacity
       THEN /\ message' = [message EXCEPT ![e] = Append(@, c)]
            /\ UNCHANGED overflowed
       ELSE /\ message' = [message EXCEPT ![e] = <<c>>]
            /\ overflowed' = [overflowed EXCEPT ![e] = TRUE]
  /\ UNCHANGED <<counters, outgoing_sequence, reliable_sequence,
                 last_reliable_sequence, reliable, fatal_error, net, lost,
                 delivered>>

(* Mutant of Toggled: the bit counts up. *)
ToggledUp(bit) == bit + 1

(* The parity bits are flipped with ^= 1. *)
Toggled(bit) == 1 - bit

(* No reliable message is outstanding and commands wait to be sent. *)
CanStage(e) == reliable[e] = <<>> /\ message[e] # <<>>

(* Mutants of RemoteDropped: without waiting for an acknowledgement past    *)
(* the last send, and against the number of the datagram being sent.        *)
RemoteDroppedSoon(e) ==
  incoming_reliable_acknowledged[e] # reliable_sequence[e]
RemoteDroppedNever(e) ==
  /\ incoming_acknowledged[e] > outgoing_sequence[e]
  /\ incoming_reliable_acknowledged[e] # reliable_sequence[e]

(* The peer acknowledged a datagram past the last reliable send without     *)
(* having got the reliable message.                                         *)
RemoteDropped(e) ==
  /\ incoming_acknowledged[e] > last_reliable_sequence[e]
  /\ incoming_reliable_acknowledged[e] # reliable_sequence[e]

NeedReliable(e) == RemoteDropped(e) \/ CanStage(e)

(* The value of last_reliable_sequence after a reliable send: it is stored  *)
(* once outgoing_sequence has been incremented.                             *)
ReliableSent(e) == outgoing_sequence[e] + 1

(* Mutant of Fresh: a duplicate passes. *)
FreshOrSame(e, p) == p.sequence >= incoming_sequence[e]

(* Stale and duplicated datagrams are discarded and change nothing. *)
Fresh(e, p) == p.sequence > incoming_sequence[e]

(* The datagrams its peer would still accept from e. *)
Acceptable(e) == {p \in net[Peer(e)] : Fresh(Peer(e), p)}

(* The pace of the frame loops and the latency of the network (bounds). *)
Paced(e) ==
  /\ outgoing_sequence[e] <= outgoing_sequence[Peer(e)] + MaxLead
  /\ Cardinality(Acceptable(e)) <= MaxInTransit

(* chan->reliable_buffer once what is not yet outstanding is moved there. *)
Staged(e) == IF CanStage(e) THEN message[e] ELSE reliable[e]

(* The packet header and, when it is needed, the reliable buffer. *)
Datagram(e) ==
  [sequence     |-> outgoing_sequence[e],
   has_reliable |-> NeedReliable(e),
   ack          |-> incoming_sequence[e],
   reliable_ack |-> incoming_reliable_sequence[e],
   payload      |-> IF NeedReliable(e) THEN Staged(e) ELSE <<>>]

(* Netchan_Transmit of a channel whose message has not overflowed. *)
Transmit(e) ==
  /\ ~overflowed[e]
  /\ outgoing_sequence[e] <= MaxSequence[e]
  /\ Paced(e)
  /\ reliable' = [reliable EXCEPT ![e] = Staged(e)]
  /\ message' = [message EXCEPT ![e] = IF CanStage(e) THEN <<>> ELSE @]
  /\ reliable_sequence' =
       [reliable_sequence EXCEPT ![e] = IF CanStage(e) THEN Toggled(@) ELSE @]
  /\ net' = [net EXCEPT ![Peer(e)] = @ \cup {Datagram(e)}]
  /\ outgoing_sequence' = [outgoing_sequence EXCEPT ![e] = @ + 1]
  /\ last_reliable_sequence' =
       [last_reliable_sequence EXCEPT
          ![e] = IF NeedReliable(e) THEN ReliableSent(e) ELSE @]
  /\ UNCHANGED <<counters, overflowed, fatal_error, lost, written, delivered>>

(* After an overflow nothing is sent any more. *)
TransmitOverflowed(e) ==
  /\ overflowed[e]
  /\ fatal_error' = [fatal_error EXCEPT ![e] = TRUE]
  /\ UNCHANGED <<counters, outgoing_sequence, reliable_sequence,
                 last_reliable_sequence, message, overflowed, reliable, net,
                 lost, written, delivered>>

(* Mutant of AfterAck: any later acknowledgement will do. *)
AfterAckBySequence(e, p) ==
  IF p.ack + 1 >= last_reliable_sequence[e] THEN <<>> ELSE reliable[e]

(* The reliable buffer of e after the acknowledgement in p. *)
AfterAck(e, p) ==
  IF p.reliable_ack = reliable_sequence[e] THEN <<>> ELSE reliable[e]

(* Netchan_Process of a datagram it accepts.  Where the network repeats     *)
(* datagrams, it stays there and can arrive again.                          *)
Process(e, p) ==
  /\ Fresh(e, p)
  /\ reliable' = [reliable EXCEPT ![e] = AfterAck(e, p)]
  /\ incoming_sequence' = [incoming_sequence EXCEPT ![e] = p.sequence]
  /\ incoming_acknowledged' = [incoming_acknowledged EXCEPT ![e] = p.ack]
  /\ incoming_reliable_acknowledged' =
       [incoming_reliable_acknowledged EXCEPT ![e] = p.reliable_ack]
  /\ incoming_reliable_sequence' =
       [incoming_reliable_sequence EXCEPT
          ![e] = IF p.has_reliable THEN Toggled(@) ELSE @]
  /\ delivered' =
       [delivered EXCEPT ![e] = IF p.has_reliable THEN @ \o p.payload ELSE @]
  /\ net' = [net EXCEPT ![e] = IF Repeats THEN @ ELSE @ \ {p}]
  /\ UNCHANGED <<outgoing_sequence, reliable_sequence, last_reliable_sequence,
                 message, overflowed, fatal_error, lost, written>>

(* The network drops a datagram that e would have accepted. *)
Lose(e, p) ==
  /\ Fresh(e, p)
  /\ lost < MaxLost
  /\ lost' = lost + 1
  /\ net' = [net EXCEPT ![e] = @ \ {p}]
  /\ UNCHANGED <<counters, outgoing_sequence, reliable_sequence,
                 last_reliable_sequence, message, overflowed, reliable,
                 fatal_error, written, delivered>>

Receive(e) == \E p \in net[e] : Process(e, p)

Next ==
  \E e \in Endpoint :
    \/ \E c \in Commands : Write(e, c)
    \/ Transmit(e)
    \/ TransmitOverflowed(e)
    \/ Receive(e)
    \/ \E p \in net[e] : Lose(e, p)

Spec == Init /\ [][Next]_vars

(* Both ends run a frame over and over, and each frame reads the socket and *)
(* transmits when something is waiting or the keepalive period is over.     *)
Fairness ==
  \A e \in Endpoint : WF_vars(Transmit(e)) /\ WF_vars(Receive(e))

FairSpec == Spec /\ Fairness

-----------------------------------------------------------------------------
(* The last reliable message of e has reached its peer. *)
Arrived(e) == incoming_reliable_sequence[Peer(e)] = reliable_sequence[e]

(* What e has sent reliably and its peer has not accepted. *)
InFlight(e) == IF Arrived(e) THEN <<>> ELSE reliable[e]

(* Sequence numbers only ever refer to datagrams that were sent. *)
Sequenced(e) ==
  /\ incoming_sequence[Peer(e)] < outgoing_sequence[e]
  /\ last_reliable_sequence[e] <= outgoing_sequence[e]
  /\ incoming_acknowledged[e] <= incoming_sequence[Peer(e)]
  /\ \A p \in net[e] : p.ack <= incoming_sequence[Peer(e)]
  /\ \A p \in net[Peer(e)] : p.sequence < outgoing_sequence[e]
  /\ \A p, q \in net[Peer(e)] : p.sequence = q.sequence => p = q

(* A reliable copy the receiver would accept is the latest one sent, and    *)
(* the receiver lacks it.                                                   *)
CopiesCurrent(e) ==
  \A p \in Acceptable(e) : p.has_reliable =>
    /\ p.sequence + 1 = last_reliable_sequence[e]
    /\ ~Arrived(e)
    /\ p.payload = reliable[e]

(* An acknowledgement the sender would accept tells the truth: with the     *)
(* current parity, the message has arrived; without it, though sent after   *)
(* the last copy could have arrived, it has not and never will.             *)
AcksTruthful(e) ==
  \A p \in Acceptable(Peer(e)) :
    /\ p.reliable_ack = reliable_sequence[e] => Arrived(e)
    /\ p.reliable_ack # reliable_sequence[e]
         /\ p.ack + 1 >= last_reliable_sequence[e] => ~Arrived(e)
    /\ reliable[e] = <<>> => p.reliable_ack = reliable_sequence[e]
    /\ \A q \in Acceptable(Peer(e)) :
         p.sequence < q.sequence /\ p.reliable_ack = reliable_sequence[e]
           => q.reliable_ack = reliable_sequence[e]

(* The same of the acknowledgement the sender has last accepted. *)
LastAckTruthful(e) ==
  /\ incoming_reliable_acknowledged[e] = reliable_sequence[e]
       <=> reliable[e] = <<>>
  /\ reliable[e] = <<>> => Arrived(e)
  /\ reliable[e] # <<>> /\ incoming_acknowledged[e] + 1 >= last_reliable_sequence[e]
       => ~Arrived(e)

(* What each end may conclude from sequence numbers and parity bits, the    *)
(* datagrams still under way included: the inductive reason why the two     *)
(* parity bits of net_chan.h are enough.                                    *)
ParitySound ==
  \A e \in Endpoint :
    Sequenced(e) /\ CopiesCurrent(e) /\ AcksTruthful(e) /\ LastAckTruthful(e)

(* Exactly-once, in-order delivery: what the peer of e has accepted, then   *)
(* what is outstanding, then what is not yet staged make up everything that *)
(* was written at e.  After an overflow, commands that were never staged    *)
(* may be missing at the end, but none in the middle.                       *)
StreamIntact ==
  \A e \in Endpoint :
    LET accepted == delivered[Peer(e)] \o InFlight(e)
    IN  /\ accepted = SubSeq(written[e], 1, Len(accepted))
        /\ ~overflowed[e] => written[e] = accepted \o message[e]

(* Of the datagrams the receiver would still accept, at most one carries a  *)
(* reliable message, and only one that the receiver lacks: a retransmission *)
(* is never made while the original can still be accepted, so the receiver  *)
(* needs no duplicate detection (comment at the head of net_chan.c).        *)
OneCopyAcceptable ==
  \A e \in Endpoint :
    \A p \in Acceptable(e) : p.has_reliable =>
      /\ ~Arrived(e)
      /\ p.payload = reliable[e]
      /\ \A q \in Acceptable(e) : q.has_reliable => q = p

(* The sender lets go of its reliable message only once the receiver has    *)
(* accepted it, however late the acknowledgement that says so.              *)
ReleasedOnceAccepted ==
  [][\A e \in Endpoint :
       reliable[e] # <<>> /\ reliable'[e] # reliable[e] => Arrived(e)]_vars

(* Each direction of the channel, seen from the code above it. *)
Upstream == INSTANCE ReliableChannel
              WITH written <- written["client"], read <- delivered["server"]
Downstream == INSTANCE ReliableChannel
                WITH written <- written["server"], read <- delivered["client"]

(* The channel implements the ordered, reliable stream in both directions:  *)
(* Netchan_Process never hands on a command twice, early or out of order.   *)
UpstreamReliable == Upstream!Spec
DownstreamReliable == Downstream!Spec

(* What is written is eventually delivered, if no overflow intervenes,      *)
(* although datagrams, and the acknowledgements in them, are lost: the loss *)
(* is detected from the acknowledgements and repaired by retransmission.    *)
EventuallyDelivered ==
  \A e \in Endpoint : \A n \in 1 .. MaxWrites[e] :
    (Len(written[e]) >= n /\ outgoing_sequence[e] <= MaxSequence[e] - Repair) ~>
      (Len(delivered[Peer(e)]) >= n \/ overflowed[e])
=============================================================================
