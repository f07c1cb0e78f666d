--------------------------- MODULE NetChanProofs ---------------------------
(***************************************************************************)
(* The channel delivers every command at most once and in order, for every *)
(* set of commands, every buffer capacity and every bound.                 *)
(***************************************************************************)
EXTENDS NetChan, SequenceTheorems, TLAPS

(* Every endpoint has one other endpoint as its peer, and there is no third. *)
LEMMA PeerFacts ==
  ASSUME NEW e \in Endpoint
  PROVE  Peer(e) \in Endpoint /\ Peer(e) # e /\ Peer(Peer(e)) = e
         /\ \A d \in Endpoint : d = e \/ d = Peer(e)
BY DEF Endpoint, Peer

(* ^= 1 gives the other of the two parities. *)
LEMMA ToggledBit ==
  \A b \in Bit : Toggled(b) \in Bit /\ Toggled(b) # b
                /\ \A c \in Bit : c # b => c = Toggled(b)
BY DEF Bit, Toggled

(* The channel's members keep their types: uses only what each handler      *)
(* assigns.                                                                 *)
THEOREM TypeCorrect == Spec => []TypeOK
<1>1. Init => TypeOK
  BY DEF Init, TypeOK, Bit
<1>2. TypeOK /\ [Next]_vars => TypeOK'
  <2> SUFFICES ASSUME TypeOK, [Next]_vars PROVE TypeOK'
    OBVIOUS
  <2>1. ASSUME NEW e \in Endpoint, NEW c \in Commands, Write(e, c)
        PROVE  TypeOK'
    <3>1. /\ Append(written[e], c) \in Seq(Commands)
          /\ Append(message[e], c) \in Seq(Commands)
          /\ <<c>> \in Seq(Commands)
      BY AppendProperties DEF TypeOK
    <3>2. /\ message' \in [Endpoint -> Seq(Commands)]
          /\ overflowed' \in [Endpoint -> BOOLEAN]
      BY <2>1, <3>1 DEF Write, TypeOK
    <3>3. written' \in [Endpoint -> Seq(Commands)]
      BY <2>1, <3>1 DEF Write, TypeOK
    <3> QED
      BY <2>1, <3>2, <3>3 DEF Write, TypeOK, counters
  <2>2. ASSUME NEW e \in Endpoint, Transmit(e)
        PROVE  TypeOK'
    <3>1. /\ Staged(e) \in Seq(Commands)
          /\ <<>> \in Seq(Commands)
          /\ Toggled(reliable_sequence[e]) \in Bit
          /\ NeedReliable(e) \in BOOLEAN
      BY ToggledBit, EmptySeq
         DEF TypeOK, Staged, NeedReliable, RemoteDropped, CanStage
    <3>2. Datagram(e) \in Packet
      BY <3>1 DEF Packet, Datagram, TypeOK
    <3>3. /\ reliable' \in [Endpoint -> Seq(Commands)]
          /\ message' \in [Endpoint -> Seq(Commands)]
          /\ reliable_sequence' \in [Endpoint -> Bit]
      BY <2>2, <3>1 DEF Transmit, TypeOK
    <3>4. net' \in [Endpoint -> SUBSET Packet]
      BY <2>2, <3>2 DEF Transmit, TypeOK
    <3>5. /\ outgoing_sequence' \in [Endpoint -> Nat \ {0}]
          /\ last_reliable_sequence' \in [Endpoint -> Nat]
      BY <2>2 DEF Transmit, TypeOK, ReliableSent
    <3> QED
      BY <2>2, <3>3, <3>4, <3>5 DEF Transmit, TypeOK, counters
  <2>3. ASSUME NEW e \in Endpoint, TransmitOverflowed(e)
        PROVE  TypeOK'
    BY <2>3 DEF TransmitOverflowed, TypeOK, counters
  <2>4. ASSUME NEW e \in Endpoint, NEW p \in net[e], Process(e, p)
        PROVE  TypeOK'
    <3>1. p \in Packet
      BY DEF TypeOK
    <3>2. reliable' \in [Endpoint -> Seq(Commands)]
      BY <2>4 DEF Process, AfterAck, TypeOK
    <3>3. incoming_reliable_sequence' \in [Endpoint -> Bit]
      <4>1. Toggled(incoming_reliable_sequence[e]) \in Bit
        BY ToggledBit DEF TypeOK
      <4> QED
        BY <2>4, <4>1 DEF Process, TypeOK
    <3>4. delivered' \in [Endpoint -> Seq(Commands)]
      <4>1. delivered[e] \o p.payload \in Seq(Commands)
        BY <3>1, ConcatProperties DEF TypeOK, Packet
      <4> QED
        BY <2>4, <4>1 DEF Process, TypeOK
    <3>5. net' \in [Endpoint -> SUBSET Packet]
      BY <2>4 DEF Process, TypeOK
    <3>6. /\ incoming_sequence' \in [Endpoint -> Nat]
          /\ incoming_acknowledged' \in [Endpoint -> Nat]
          /\ incoming_reliable_acknowledged' \in [Endpoint -> Bit]
      BY <2>4, <3>1 DEF Process, TypeOK, Packet
    <3> QED
      BY <2>4, <3>2, <3>3, <3>4, <3>5, <3>6 DEF Process, TypeOK
  <2>5. ASSUME NEW e \in Endpoint, NEW p \in net[e], Lose(e, p)
        PROVE  TypeOK'
    BY <2>5 DEF Lose, TypeOK, counters
  <2>6. CASE UNCHANGED vars
    BY <2>6 DEF vars, TypeOK
  <2> QED
    BY <2>1, <2>2, <2>3, <2>4, <2>5, <2>6 DEF Next, Receive
<1> QED
  BY <1>1, <1>2, PTL DEF Spec

-----------------------------------------------------------------------------
(* Sending keeps the parity argument sound: a new message is staged only    *)
(* when the previous one has arrived and been acknowledged, and a copy is   *)
(* sent again only when no earlier copy can still be accepted.              *)
LEMMA TransmitSound ==
  ASSUME TypeOK, ParitySound, NEW a \in Endpoint, Transmit(a)
  PROVE  ParitySound'
<1> DEFINE r == Peer(a)
<1>1. r \in Endpoint /\ r # a /\ Peer(r) = a /\ Peer(a) = r
      /\ \A d \in Endpoint : d = a \/ d = r
  BY PeerFacts
<1>2. /\ Sequenced(a) /\ CopiesCurrent(a) /\ AcksTruthful(a) /\ LastAckTruthful(a)
      /\ Sequenced(r) /\ CopiesCurrent(r) /\ AcksTruthful(r) /\ LastAckTruthful(r)
  BY <1>1 DEF ParitySound
<1>3. /\ Datagram(a).sequence = outgoing_sequence[a]
      /\ Datagram(a).has_reliable = NeedReliable(a)
      /\ Datagram(a).ack = incoming_sequence[a]
      /\ Datagram(a).reliable_ack = incoming_reliable_sequence[a]
      /\ NeedReliable(a) => Datagram(a).payload = Staged(a)
  BY DEF Datagram
<1>4. /\ net'[r] = net[r] \cup {Datagram(a)}
      /\ net'[a] = net[a]
      /\ outgoing_sequence'[a] = outgoing_sequence[a] + 1
      /\ outgoing_sequence'[r] = outgoing_sequence[r]
  BY <1>1 DEF Transmit, TypeOK
<1>5. /\ reliable'[a] = Staged(a)
      /\ reliable'[r] = reliable[r]
      /\ reliable_sequence'[a] =
           IF CanStage(a) THEN Toggled(reliable_sequence[a]) ELSE reliable_sequence[a]
      /\ reliable_sequence'[r] = reliable_sequence[r]
  BY <1>1 DEF Transmit, TypeOK
<1>6. /\ last_reliable_sequence'[a] =
           IF NeedReliable(a) THEN outgoing_sequence[a] + 1 ELSE last_reliable_sequence[a]
      /\ last_reliable_sequence'[r] = last_reliable_sequence[r]
  BY <1>1 DEF Transmit, TypeOK, ReliableSent
<1>7. /\ incoming_sequence' = incoming_sequence
      /\ incoming_acknowledged' = incoming_acknowledged
      /\ incoming_reliable_acknowledged' = incoming_reliable_acknowledged
      /\ incoming_reliable_sequence' = incoming_reliable_sequence
  BY DEF Transmit, counters
<1>8. /\ \A p \in net[a] \cup net[r] :
           p.sequence \in Nat /\ p.ack \in Nat /\ p.reliable_ack \in Bit
      /\ incoming_sequence[a] \in Nat /\ incoming_sequence[r] \in Nat
      /\ outgoing_sequence[a] \in Nat /\ outgoing_sequence[r] \in Nat
      /\ last_reliable_sequence[a] \in Nat /\ last_reliable_sequence[r] \in Nat
      /\ incoming_acknowledged[a] \in Nat /\ incoming_acknowledged[r] \in Nat
  <2>1. \A p \in net[a] \cup net[r] : p \in Packet
    BY <1>1 DEF TypeOK
  <2>2. \A p \in Packet : p.sequence \in Nat /\ p.ack \in Nat /\ p.reliable_ack \in Bit
    BY DEF Packet
  <2>3. \A e \in Endpoint : /\ incoming_sequence[e] \in Nat
                           /\ outgoing_sequence[e] \in Nat
                           /\ last_reliable_sequence[e] \in Nat
                           /\ incoming_acknowledged[e] \in Nat
    BY DEF TypeOK
  <2> QED
    BY <1>1, <2>1, <2>2, <2>3
<1>9. Sequenced(a)'
  BY <1>1, <1>2, <1>3, <1>4, <1>6, <1>7, <1>8 DEF Sequenced
<1>10. Sequenced(r)'
  BY <1>1, <1>2, <1>3, <1>4, <1>6, <1>7, <1>8 DEF Sequenced
<1>11. (* Staging: everything sent before has arrived and been acknowledged. *)
       CanStage(a) => /\ ~RemoteDropped(a)
                      /\ Arrived(a) /\ ~Arrived(a)'
                      /\ \A p \in Acceptable(r) :
                           p.reliable_ack # reliable_sequence'[a]
  BY <1>1, <1>2, <1>5, <1>7, ToggledBit
     DEF CanStage, RemoteDropped, LastAckTruthful, AcksTruthful, Arrived, TypeOK
<1>12. (* Repeating: the outstanding message has not arrived. *)
       RemoteDropped(a) => reliable[a] # <<>> /\ ~CanStage(a)
                           /\ ~Arrived(a) /\ ~Arrived(a)'
  BY <1>1, <1>2, <1>5, <1>7, <1>8
     DEF CanStage, RemoteDropped, LastAckTruthful, Arrived
<1>13. (* In both cases no earlier copy can be accepted any more. *)
       NeedReliable(a) => \A p \in Acceptable(a) : ~p.has_reliable
  <2>1. CASE CanStage(a)
    BY <1>2, <1>11, <2>1 DEF CopiesCurrent
  <2>2. CASE RemoteDropped(a)
    BY <1>1, <1>2, <1>8, <2>2
       DEF CopiesCurrent, RemoteDropped, Sequenced, Acceptable, Fresh
  <2> QED
    BY <2>1, <2>2 DEF NeedReliable
<1>14. Acceptable(a)' = Acceptable(a) \cup {Datagram(a)}
  BY <1>1, <1>2, <1>3, <1>4, <1>7, <1>8 DEF Acceptable, Fresh, Sequenced
<1>15. Acceptable(r)' = Acceptable(r)
  BY <1>1, <1>4, <1>7 DEF Acceptable, Fresh
<1>16. CopiesCurrent(a)'
  <2>1. CASE NeedReliable(a)
    BY <1>3, <1>5, <1>6, <1>8, <1>11, <1>12, <1>13, <1>14, <2>1
       DEF CopiesCurrent, NeedReliable
  <2>2. CASE ~NeedReliable(a)
    <3>1. reliable'[a] = reliable[a] /\ Arrived(a)' = Arrived(a)
      BY <1>1, <1>5, <1>7, <2>2 DEF NeedReliable, Staged, Arrived
    <3> QED
      BY <1>2, <1>3, <1>6, <1>14, <2>2, <3>1 DEF CopiesCurrent
  <2> QED
    BY <2>1, <2>2
<1>17. CopiesCurrent(r)'
  <2>1. Arrived(r)' = Arrived(r)
    BY <1>1, <1>5, <1>7 DEF Arrived
  <2> QED
    BY <1>2, <1>5, <1>6, <1>15, <2>1 DEF CopiesCurrent
<1>18. AcksTruthful(a)'
  <2>1. CASE CanStage(a)
    <3>1. reliable'[a] # <<>>
      BY <1>5, <2>1 DEF CanStage, Staged
    <3> QED
      BY <1>1, <1>11, <1>15, <2>1, <3>1 DEF AcksTruthful
  <2>2. CASE ~CanStage(a)
    <3>1. /\ reliable'[a] = reliable[a] /\ Arrived(a)' = Arrived(a)
          /\ reliable_sequence'[a] = reliable_sequence[a]
      BY <1>1, <1>5, <1>7, <2>2 DEF Staged, Arrived
    <3>2. ASSUME NEW p \in Acceptable(r), ~RemoteDropped(a)
          PROVE  last_reliable_sequence'[a] = last_reliable_sequence[a]
      BY <1>6, <2>2, <3>2 DEF NeedReliable
    <3> QED
      BY <1>1, <1>2, <1>12, <1>15, <3>1, <3>2 DEF AcksTruthful
  <2> QED
    BY <2>1, <2>2
<1>19. AcksTruthful(r)'
  <2>1. Arrived(r)' = Arrived(r)
    BY <1>1, <1>5, <1>7 DEF Arrived
  <2>2. Datagram(a).reliable_ack = reliable_sequence[r] <=> Arrived(r)
    BY <1>1, <1>3 DEF Arrived
  <2>3. \A p \in Acceptable(a) : p.sequence < Datagram(a).sequence
    BY <1>2, <1>3 DEF Acceptable, Sequenced
  <2>4. /\ reliable'[r] = reliable[r]
        /\ reliable_sequence'[r] = reliable_sequence[r]
        /\ last_reliable_sequence'[r] = last_reliable_sequence[r]
        /\ Acceptable(Peer(r))' = Acceptable(Peer(r)) \cup {Datagram(a)}
    BY <1>1, <1>5, <1>6, <1>14
  <2>5. reliable[r] = <<>> => Arrived(r)
    BY <1>2 DEF LastAckTruthful
  <2>6. \A p \in Acceptable(a) : p.sequence \in Nat
    BY <1>8 DEF Acceptable
  <2> QED
    BY <1>1, <1>2, <1>3, <1>8, <2>1, <2>2, <2>3, <2>4, <2>5, <2>6 DEF AcksTruthful
<1>20. LastAckTruthful(a)'
  <2>1. CASE CanStage(a)
    <3>1. reliable'[a] # <<>>
      BY <1>5, <2>1 DEF CanStage, Staged
    <3>2. incoming_reliable_acknowledged[a] # reliable_sequence'[a]
      BY <1>1, <1>2, <1>5, <2>1, ToggledBit
         DEF CanStage, LastAckTruthful, TypeOK
    <3> QED
      BY <1>1, <1>7, <1>11, <2>1, <3>1, <3>2 DEF LastAckTruthful
  <2>2. CASE ~CanStage(a)
    <3>1. /\ reliable'[a] = reliable[a] /\ Arrived(a)' = Arrived(a)
          /\ reliable_sequence'[a] = reliable_sequence[a]
      BY <1>1, <1>5, <1>7, <2>2 DEF Staged, Arrived
    <3>2. ~RemoteDropped(a) => last_reliable_sequence'[a] = last_reliable_sequence[a]
      BY <1>6, <2>2 DEF NeedReliable
    <3> QED
      BY <1>1, <1>2, <1>7, <1>12, <3>1, <3>2 DEF LastAckTruthful
  <2> QED
    BY <2>1, <2>2
<1>21. LastAckTruthful(r)'
  <2>1. Arrived(r)' = Arrived(r)
    BY <1>1, <1>5, <1>7 DEF Arrived
  <2> QED
    BY <1>1, <1>2, <1>5, <1>6, <1>7, <2>1 DEF LastAckTruthful
<1> QED
  BY <1>1, <1>9, <1>10, <1>16, <1>17, <1>18, <1>19, <1>20, <1>21 DEF ParitySound

(* Accepting a datagram keeps it sound: a copy is accepted only while it is *)
(* missing, and makes every other copy stale; an acknowledgement releases   *)
(* only what has arrived.                                                   *)
LEMMA ProcessSound ==
  ASSUME TypeOK, ParitySound, NEW a \in Endpoint, NEW d \in net[a], Process(a, d)
  PROVE  ParitySound'
<1> DEFINE s == Peer(a)
<1>1. s \in Endpoint /\ s # a /\ Peer(s) = a /\ Peer(a) = s
      /\ \A e \in Endpoint : e = a \/ e = s
  BY PeerFacts
<1>2. /\ Sequenced(a) /\ CopiesCurrent(a) /\ AcksTruthful(a) /\ LastAckTruthful(a)
      /\ Sequenced(s) /\ CopiesCurrent(s) /\ AcksTruthful(s) /\ LastAckTruthful(s)
  BY <1>1 DEF ParitySound
<1>3. /\ incoming_sequence'[a] = d.sequence
      /\ incoming_sequence'[s] = incoming_sequence[s]
      /\ incoming_acknowledged'[a] = d.ack
      /\ incoming_acknowledged'[s] = incoming_acknowledged[s]
      /\ incoming_reliable_acknowledged'[a] = d.reliable_ack
      /\ incoming_reliable_acknowledged'[s] = incoming_reliable_acknowledged[s]
  BY <1>1 DEF Process, TypeOK
<1>4. /\ incoming_reliable_sequence'[a] =
           IF d.has_reliable THEN Toggled(incoming_reliable_sequence[a])
                             ELSE incoming_reliable_sequence[a]
      /\ incoming_reliable_sequence'[s] = incoming_reliable_sequence[s]
      /\ reliable'[a] = AfterAck(a, d)
      /\ reliable'[s] = reliable[s]
  BY <1>1 DEF Process, TypeOK
<1>5. /\ net'[s] = net[s]
      /\ net'[a] \subseteq net[a]
      /\ outgoing_sequence' = outgoing_sequence
      /\ reliable_sequence' = reliable_sequence
      /\ last_reliable_sequence' = last_reliable_sequence
  BY <1>1 DEF Process, TypeOK
<1>6. d.sequence > incoming_sequence[a]
  BY DEF Process, Fresh
<1>7. /\ \A p \in net[a] \cup net[s] :
           p.sequence \in Nat /\ p.ack \in Nat /\ p.reliable_ack \in Bit
      /\ incoming_sequence[a] \in Nat /\ incoming_sequence[s] \in Nat
      /\ outgoing_sequence[a] \in Nat /\ outgoing_sequence[s] \in Nat
      /\ last_reliable_sequence[a] \in Nat /\ last_reliable_sequence[s] \in Nat
      /\ incoming_acknowledged[a] \in Nat /\ incoming_acknowledged[s] \in Nat
  <2>1. net[a] \subseteq Packet /\ net[s] \subseteq Packet
    BY <1>1 DEF TypeOK
  <2> QED
    BY <1>1, <2>1 DEF TypeOK, Packet
<1>8. d \in Acceptable(s)
  BY <1>1, <1>6 DEF Acceptable, Fresh
<1>9. Sequenced(a)'
  <2>1. incoming_acknowledged'[a] <= incoming_sequence[s]
    BY <1>2, <1>3 DEF Sequenced
  <2> QED
    BY <1>1, <1>2, <1>3, <1>5, <1>7, <2>1 DEF Sequenced
<1>10. Sequenced(s)'
  BY <1>1, <1>2, <1>3, <1>5, <1>6, <1>7 DEF Sequenced
<1>11. Acceptable(s)' \subseteq {p \in Acceptable(s) : p.sequence > d.sequence}
  BY <1>1, <1>3, <1>5, <1>6, <1>7 DEF Acceptable, Fresh
<1>12. Acceptable(a)' = Acceptable(a)
  BY <1>1, <1>3, <1>5 DEF Acceptable, Fresh
<1>13. Arrived(a)' = Arrived(a)
  BY <1>1, <1>4, <1>5 DEF Arrived
<1>14. (* A copy is accepted only while it is missing. *)
       IF d.has_reliable
         THEN ~Arrived(s) /\ Arrived(s)'
              /\ d.sequence + 1 = last_reliable_sequence[s]
         ELSE Arrived(s)' = Arrived(s)
  BY <1>1, <1>2, <1>4, <1>5, <1>8, ToggledBit DEF CopiesCurrent, Arrived, TypeOK
<1>15. (* An acknowledgement releases only what has arrived. *)
       /\ d.reliable_ack = reliable_sequence[a] => reliable'[a] = <<>> /\ Arrived(a)
       /\ d.reliable_ack # reliable_sequence[a] => reliable'[a] = reliable[a]
                                                  /\ reliable[a] # <<>>
  BY <1>1, <1>2, <1>4, <1>8 DEF AfterAck, AcksTruthful
<1>16. CopiesCurrent(s)'
  <2>1. CASE d.has_reliable
    <3>1. \A p \in Acceptable(s) : p.sequence \in Nat
      BY <1>1, <1>7 DEF Acceptable
    <3>2. \A p \in Acceptable(s)' : ~p.has_reliable
      BY <1>2, <1>7, <1>8, <1>11, <2>1, <3>1 DEF CopiesCurrent
    <3> QED
      BY <3>2 DEF CopiesCurrent
  <2>2. CASE ~d.has_reliable
    BY <1>2, <1>4, <1>5, <1>11, <1>14, <2>2 DEF CopiesCurrent
  <2> QED
    BY <2>1, <2>2
<1>17. CopiesCurrent(a)'
  <2>1. \A p \in Acceptable(a) : p.has_reliable =>
           d.reliable_ack # reliable_sequence[a]
    BY <1>2, <1>15 DEF CopiesCurrent
  <2> QED
    BY <1>2, <1>5, <1>12, <1>13, <1>15, <2>1 DEF CopiesCurrent
<1>18. AcksTruthful(a)'
  <2>1. Acceptable(Peer(a))' \subseteq
           {p \in Acceptable(Peer(a)) : p.sequence > d.sequence}
    BY <1>11
  <2>2. ASSUME NEW p \in Acceptable(Peer(a))', reliable'[a] = <<>>
        PROVE  p.reliable_ack = reliable_sequence[a]
    BY <1>1, <1>2, <1>8, <1>15, <2>1, <2>2 DEF AcksTruthful
  <2> QED
    BY <1>1, <1>2, <1>5, <1>13, <2>1, <2>2 DEF AcksTruthful
<1>19. AcksTruthful(s)'
  <2>1. Acceptable(Peer(s))' = Acceptable(Peer(s))
    BY <1>1, <1>12
  <2>2. ASSUME d.has_reliable, NEW p \in Acceptable(a)
        PROVE  /\ ~(p.ack + 1 >= last_reliable_sequence[s])
               /\ reliable[s] # <<>>
    <3>1. p.ack <= incoming_sequence[a]
      BY <1>1, <1>2 DEF Sequenced, Acceptable
    <3>2. reliable[s] # <<>>
      BY <1>2, <1>14, <2>2 DEF LastAckTruthful
    <3> QED
      BY <1>6, <1>7, <1>14, <2>2, <3>1, <3>2 DEF Acceptable
  <2> QED
    BY <1>1, <1>2, <1>4, <1>5, <1>14, <2>1, <2>2 DEF AcksTruthful
<1>20. LastAckTruthful(a)'
  BY <1>1, <1>2, <1>3, <1>5, <1>7, <1>8, <1>13, <1>15
     DEF LastAckTruthful, AcksTruthful
<1>21. LastAckTruthful(s)'
  <2>1. ASSUME d.has_reliable
        PROVE  /\ ~(incoming_acknowledged[s] + 1 >= last_reliable_sequence[s])
               /\ reliable[s] # <<>>
    <3>1. incoming_acknowledged[s] <= incoming_sequence[a]
      BY <1>1, <1>2 DEF Sequenced
    <3>2. reliable[s] # <<>>
      BY <1>2, <1>14, <2>1 DEF LastAckTruthful
    <3> QED
      BY <1>6, <1>7, <1>14, <2>1, <3>1, <3>2
  <2> QED
    BY <1>1, <1>2, <1>3, <1>4, <1>5, <1>14, <2>1 DEF LastAckTruthful
<1> QED
  BY <1>1, <1>9, <1>10, <1>16, <1>17, <1>18, <1>19, <1>20, <1>21 DEF ParitySound

(* Losing a datagram leaves fewer that could mislead anybody. *)
LEMMA LoseSound ==
  ASSUME TypeOK, ParitySound, NEW a \in Endpoint, NEW d \in net[a], Lose(a, d)
  PROVE  ParitySound'
<1>1. /\ \A e \in Endpoint : net'[e] \subseteq net[e]
      /\ UNCHANGED <<incoming_sequence, incoming_acknowledged,
                     incoming_reliable_acknowledged, incoming_reliable_sequence,
                     outgoing_sequence, reliable_sequence,
                     last_reliable_sequence, reliable>>
  BY DEF Lose, TypeOK, counters
<1> SUFFICES ASSUME NEW e \in Endpoint
             PROVE  (Sequenced(e) /\ CopiesCurrent(e) /\ AcksTruthful(e) /\ LastAckTruthful(e))'
  BY DEF ParitySound
<1>2. Peer(e) \in Endpoint /\ Peer(Peer(e)) = e
  BY PeerFacts
<1>3. Sequenced(e) /\ CopiesCurrent(e) /\ AcksTruthful(e) /\ LastAckTruthful(e)
  BY DEF ParitySound
<1>4. /\ Acceptable(e)' \subseteq Acceptable(e)
      /\ Acceptable(Peer(e))' \subseteq Acceptable(Peer(e))
      /\ Arrived(e)' = Arrived(e)
  BY <1>1, <1>2 DEF Acceptable, Fresh, Arrived
<1>5. Sequenced(e)'
  BY <1>1, <1>2, <1>3 DEF Sequenced
<1>6. CopiesCurrent(e)'
  BY <1>1, <1>3, <1>4 DEF CopiesCurrent
<1>7. AcksTruthful(e)'
  BY <1>1, <1>3, <1>4 DEF AcksTruthful
<1>8. LastAckTruthful(e)'
  BY <1>1, <1>3, <1>4 DEF LastAckTruthful
<1> QED
  BY <1>5, <1>6, <1>7, <1>8

(* The parity argument is sound in every reachable state. *)
THEOREM ParityCorrect == Spec => []ParitySound
<1>1. Init => ParitySound
  BY PeerFacts DEF Init, ParitySound, Sequenced, CopiesCurrent, AcksTruthful,
                   LastAckTruthful, Acceptable, Arrived, Endpoint, Peer
<1>2. TypeOK /\ ParitySound /\ [Next]_vars => ParitySound'
  <2> SUFFICES ASSUME TypeOK, ParitySound, [Next]_vars PROVE ParitySound'
    OBVIOUS
  <2> USE DEF ParitySound, Sequenced, CopiesCurrent, AcksTruthful,
              LastAckTruthful, Acceptable, Fresh, Arrived
  <2>1. ASSUME NEW e \in Endpoint, NEW c \in Commands, Write(e, c)
        PROVE  ParitySound'
    BY <2>1 DEF Write, counters
  <2>2. ASSUME NEW e \in Endpoint, Transmit(e)
        PROVE  ParitySound'
    BY <2>2, TransmitSound
  <2>3. ASSUME NEW e \in Endpoint, TransmitOverflowed(e)
        PROVE  ParitySound'
    BY <2>3 DEF TransmitOverflowed, counters
  <2>4. ASSUME NEW e \in Endpoint, NEW p \in net[e], Process(e, p)
        PROVE  ParitySound'
    BY <2>4, ProcessSound
  <2>5. ASSUME NEW e \in Endpoint, NEW p \in net[e], Lose(e, p)
        PROVE  ParitySound'
    BY <2>5, LoseSound
  <2>6. CASE UNCHANGED vars
    BY <2>6 DEF vars
  <2> QED
    BY <2>1, <2>2, <2>3, <2>4, <2>5, <2>6 DEF Next, Receive
<1> QED
  BY <1>1, <1>2, TypeCorrect, PTL DEF Spec

(* No reliable message is ever sent while an earlier copy of it could still *)
(* be accepted, so the receiver never takes one twice.                      *)
THEOREM OneCopy == Spec => []OneCopyAcceptable
<1>1. TypeOK /\ ParitySound => OneCopyAcceptable
  <2> SUFFICES ASSUME TypeOK, ParitySound, NEW e \in Endpoint,
                      NEW p \in Acceptable(e), p.has_reliable
               PROVE  /\ ~Arrived(e)
                      /\ p.payload = reliable[e]
                      /\ \A q \in Acceptable(e) : q.has_reliable => q = p
    BY DEF OneCopyAcceptable
  <2>1. Sequenced(e) /\ CopiesCurrent(e)
    BY DEF ParitySound
  <2>2. ASSUME NEW q \in Acceptable(e), q.has_reliable
        PROVE  q = p
    <3>1. p.sequence \in Nat /\ q.sequence \in Nat
      <4>1. p \in net[Peer(e)] /\ q \in net[Peer(e)]
        BY DEF Acceptable
      <4>2. net[Peer(e)] \subseteq Packet
        BY PeerFacts DEF TypeOK
      <4> QED
        BY <4>1, <4>2 DEF Packet
    <3>2. p.sequence = q.sequence
      BY <2>1, <2>2, <3>1 DEF CopiesCurrent
    <3> QED
      BY <2>1, <3>2 DEF Sequenced, Acceptable
  <2> QED
    BY <2>1, <2>2 DEF CopiesCurrent
<1> QED
  BY <1>1, TypeCorrect, ParityCorrect, PTL

(* The sender's copy is released only once the receiver has the message.    *)
THEOREM ReleaseSafe == Spec => ReleasedOnceAccepted
<1>1. TypeOK /\ ParitySound /\ [Next]_vars =>
        [\A e \in Endpoint :
           reliable[e] # <<>> /\ reliable'[e] # reliable[e] => Arrived(e)]_vars
  <2> SUFFICES ASSUME TypeOK, ParitySound, Next, NEW e \in Endpoint,
                      reliable[e] # <<>>, reliable'[e] # reliable[e]
               PROVE  Arrived(e)
    OBVIOUS
  <2>1. PICK a \in Endpoint :
           \/ \E c \in Commands : Write(a, c)
           \/ Transmit(a)
           \/ TransmitOverflowed(a)
           \/ \E p \in net[a] : Process(a, p)
           \/ \E p \in net[a] : Lose(a, p)
    BY DEF Next, Receive
  <2>2. ASSUME Transmit(a) PROVE FALSE
    <3>1. CanStage(a) => reliable[a] = <<>>
      BY DEF CanStage
    <3> QED
      BY <2>2, <3>1 DEF Transmit, Staged, TypeOK
  <2>3. ASSUME NEW p \in net[a], Process(a, p) PROVE Arrived(e)
    <3>1. e = a /\ p.reliable_ack = reliable_sequence[e]
      BY <2>3 DEF Process, AfterAck, TypeOK
    <3>2. p \in Acceptable(Peer(e))
      BY <2>3, <3>1, PeerFacts DEF Process, Fresh, Acceptable
    <3> QED
      BY <3>1, <3>2 DEF ParitySound, AcksTruthful
  <2>4. ASSUME \/ \E c \in Commands : Write(a, c)
               \/ TransmitOverflowed(a)
               \/ \E p \in net[a] : Lose(a, p)
        PROVE FALSE
    BY <2>4 DEF Write, TransmitOverflowed, Lose
  <2> QED
    BY <2>1, <2>2, <2>3, <2>4
<1> QED
  BY <1>1, TypeCorrect, ParityCorrect, PTL DEF Spec, ReleasedOnceAccepted

-----------------------------------------------------------------------------
(* Facts about a stream cut in two. *)
LEMMA CutStream ==
  ASSUME NEW S, NEW s \in Seq(S), NEW t \in Seq(S)
  PROVE  /\ s \o t \in Seq(S)
         /\ Len(s) \in 0 .. Len(s \o t)
         /\ SubSeq(s \o t, 1, Len(s)) = s
<1>1. s \o t \in Seq(S) /\ Len(s \o t) = Len(s) + Len(t)
      /\ Len(s) \in Nat /\ Len(t) \in Nat
  BY ConcatProperties, LenProperties
<1>2. CASE s = <<>>
  BY <1>1, <1>2, SubSeqEmpty, EmptySeq
<1>3. CASE s # <<>>
  <2>1. Len(s) \in 1 .. Len(s)
    BY <1>3, EmptySeq, LenProperties
  <2>2. 1 \in 1 .. Len(s)
    BY <2>1, <1>1
  <2>3. SubSeq(s \o t, 1, Len(s)) = SubSeq(s, 1, Len(s))
    BY <2>1, <2>2, SubSeqOfConcat1
  <2> QED
    BY <1>1, <2>3, SubSeqFull
<1> QED
  BY <1>2, <1>3

(* The same of a stream cut in three. *)
LEMMA CutStreamTwice ==
  ASSUME NEW S, NEW s \in Seq(S), NEW t \in Seq(S), NEW u \in Seq(S)
  PROVE  /\ Len(s) \in 0 .. Len((s \o t) \o u)
         /\ SubSeq((s \o t) \o u, 1, Len(s)) = s
<1>1. (s \o t) \o u = s \o (t \o u)
  BY ConcatAssociative
<1>2. t \o u \in Seq(S)
  BY ConcatProperties
<1> QED
  BY <1>1, <1>2, CutStream

(* What e has sent reliably, or can still send, makes up what was written. *)
Sent(e) == delivered[Peer(e)] \o InFlight(e)

StreamInv ==
  \A e \in Endpoint :
    \E rest \in Seq(Commands) :
      /\ written[e] = Sent(e) \o rest
      /\ ~overflowed[e] => rest = message[e]

(* What has been sent is a sequence of commands. *)
LEMMA SentIsSeq ==
  ASSUME TypeOK, NEW e \in Endpoint
  PROVE  InFlight(e) \in Seq(Commands) /\ Sent(e) \in Seq(Commands)
BY PeerFacts, EmptySeq, ConcatProperties DEF InFlight, Sent, TypeOK

(* Writing appends to the end of the stream, or after an overflow drops     *)
(* only what was never staged.                                              *)
LEMMA WriteStream ==
  ASSUME TypeOK, StreamInv, NEW a \in Endpoint, NEW c \in Commands, Write(a, c)
  PROVE  StreamInv'
<1> SUFFICES ASSUME NEW e \in Endpoint
             PROVE  \E rest \in Seq(Commands) :
                      /\ written'[e] = Sent(e)' \o rest
                      /\ ~overflowed'[e] => rest = message'[e]
  BY DEF StreamInv
<1>1. PICK rest \in Seq(Commands) : /\ written[e] = Sent(e) \o rest
                                    /\ ~overflowed[e] => rest = message[e]
  BY DEF StreamInv
<1>2. Sent(e)' = Sent(e)
  BY DEF Write, counters, Sent, InFlight, Arrived
<1>3. CASE e # a
  BY <1>1, <1>2, <1>3 DEF Write, TypeOK
<1>4. CASE e = a
  <2>1. written'[e] = Append(written[e], c)
    BY <1>4 DEF Write, TypeOK
  <2>2. Append(Sent(e) \o rest, c) = Sent(e) \o Append(rest, c)
    <3>1. Sent(e) \in Seq(Commands) /\ <<c>> \in Seq(Commands)
      BY SentIsSeq
    <3>2. Sent(e) \o rest \in Seq(Commands)
      BY <3>1, ConcatProperties
    <3>3. Append(Sent(e) \o rest, c) = (Sent(e) \o rest) \o <<c>>
      BY <3>2, AppendIsConcat
    <3>4. Append(rest, c) = rest \o <<c>>
      BY AppendIsConcat
    <3> QED
      BY <3>1, <3>3, <3>4, ConcatAssociative
  <2>3. ~overflowed'[e] => Append(rest, c) = message'[e]
    BY <1>1, <1>4 DEF Write, TypeOK
  <2>4. Append(rest, c) \in Seq(Commands)
    BY AppendProperties
  <2> QED
    BY <1>1, <1>2, <2>1, <2>2, <2>3, <2>4
<1> QED
  BY <1>3, <1>4

(* Staging moves all of chan->message behind what has been delivered.       *)
LEMMA TransmitStream ==
  ASSUME TypeOK, ParitySound, StreamInv, NEW a \in Endpoint, Transmit(a)
  PROVE  StreamInv'
<1> SUFFICES ASSUME NEW e \in Endpoint
             PROVE  \E rest \in Seq(Commands) :
                      /\ written'[e] = Sent(e)' \o rest
                      /\ ~overflowed'[e] => rest = message'[e]
  BY DEF StreamInv
<1>1. PICK rest \in Seq(Commands) : /\ written[e] = Sent(e) \o rest
                                    /\ ~overflowed[e] => rest = message[e]
  BY DEF StreamInv
<1>2. /\ written' = written
      /\ delivered' = delivered
      /\ overflowed' = overflowed
      /\ incoming_reliable_sequence' = incoming_reliable_sequence
  BY DEF Transmit, counters
<1>3. CASE e # a \/ ~CanStage(a)
  <2>1. /\ reliable'[e] = reliable[e]
        /\ message'[e] = message[e]
        /\ reliable_sequence'[e] = reliable_sequence[e]
    BY <1>3 DEF Transmit, Staged, TypeOK
  <2>2. Sent(e)' = Sent(e)
    BY <1>2, <2>1 DEF Sent, InFlight, Arrived
  <2> QED
    BY <1>1, <1>2, <2>1, <2>2
<1>4. CASE e = a /\ CanStage(a)
  <2>1. /\ reliable'[e] = message[e]
        /\ message'[e] = <<>>
        /\ reliable_sequence'[e] = Toggled(reliable_sequence[e])
    BY <1>4 DEF Transmit, Staged, TypeOK
  <2>2. Arrived(e)
    BY <1>4 DEF CanStage, ParitySound, LastAckTruthful
  <2>3. ~Arrived(e)'
    BY <1>2, <2>1, <2>2, ToggledBit, PeerFacts DEF Arrived, TypeOK
  <2>4. rest = message[e]
    BY <1>1, <1>4 DEF Transmit
  <2>5. Sent(e) = delivered[Peer(e)] /\ Sent(e)' = delivered[Peer(e)] \o message[e]
    <3>1. InFlight(e) = <<>> /\ InFlight(e)' = message[e]
      BY <2>1, <2>2, <2>3 DEF InFlight
    <3>2. delivered[Peer(e)] \in Seq(Commands) /\ delivered'[Peer(e)] = delivered[Peer(e)]
      BY <1>2, PeerFacts DEF TypeOK
    <3>3. delivered[Peer(e)] \o <<>> = delivered[Peer(e)]
      BY <3>2, ConcatEmptySeq
    <3> QED
      BY <3>1, <3>2, <3>3 DEF Sent
  <2>6. written'[e] = Sent(e)' \o <<>>
    <3>1. Sent(e)' \in Seq(Commands)
      BY <2>5, PeerFacts, ConcatProperties DEF TypeOK
    <3> QED
      BY <1>1, <1>2, <2>4, <2>5, <3>1, ConcatEmptySeq
  <2> QED
    BY <2>1, <2>6, EmptySeq
<1> QED
  BY <1>3, <1>4

(* Accepting a copy moves it from outstanding to delivered; accepting an    *)
(* acknowledgement forgets only what was delivered.                         *)
LEMMA ProcessStream ==
  ASSUME TypeOK, ParitySound, StreamInv, NEW a \in Endpoint, NEW d \in net[a],
         Process(a, d)
  PROVE  /\ StreamInv'
         /\ \E next \in Seq(Commands) : delivered'[a] = delivered[a] \o next
         /\ delivered'[Peer(a)] = delivered[Peer(a)]
<1> DEFINE s == Peer(a)
<1>1. s \in Endpoint /\ s # a /\ Peer(s) = a /\ Peer(a) = s
      /\ \A e \in Endpoint : e = a \/ e = s
  BY PeerFacts
<1>2. /\ written' = written
      /\ message' = message
      /\ overflowed' = overflowed
      /\ reliable_sequence' = reliable_sequence
      /\ incoming_reliable_sequence'[s] = incoming_reliable_sequence[s]
      /\ delivered'[s] = delivered[s]
      /\ reliable'[s] = reliable[s]
      /\ reliable'[a] = AfterAck(a, d)
  BY <1>1 DEF Process, TypeOK
<1>3. d \in Acceptable(s)
  BY <1>1 DEF Acceptable, Process
<1>4. Sent(a)' = Sent(a)
  <2>1. Arrived(a)' = Arrived(a)
    BY <1>1, <1>2 DEF Arrived
  <2>2. ~Arrived(a) => reliable'[a] = reliable[a]
    BY <1>1, <1>2, <1>3 DEF AfterAck, ParitySound, AcksTruthful
  <2> QED
    BY <1>1, <1>2, <2>1, <2>2 DEF Sent, InFlight
<1>5. Sent(s)' = Sent(s)
  <2>1. CASE d.has_reliable
    <3>1. ~Arrived(s) /\ d.payload = reliable[s]
      BY <1>1, <1>3, <2>1 DEF ParitySound, CopiesCurrent
    <3>2. incoming_reliable_sequence'[a] = Toggled(incoming_reliable_sequence[a])
      BY <2>1 DEF Process, TypeOK
    <3>3. Arrived(s)'
      BY <1>1, <1>2, <3>1, <3>2, ToggledBit DEF Arrived, TypeOK
    <3>4. delivered'[a] = delivered[a] \o reliable[s]
      BY <2>1, <3>1 DEF Process, TypeOK
    <3>5. Sent(s) = delivered[a] \o reliable[s]
      BY <1>1, <3>1 DEF Sent, InFlight
    <3>6. Sent(s)' = delivered'[a] \o <<>>
      BY <1>1, <3>3 DEF Sent, InFlight
    <3>7. delivered'[a] \in Seq(Commands)
      BY <1>1, <3>4, ConcatProperties DEF TypeOK
    <3> QED
      BY <3>4, <3>5, <3>6, <3>7, ConcatEmptySeq
  <2>2. CASE ~d.has_reliable
    <3>1. /\ incoming_reliable_sequence'[a] = incoming_reliable_sequence[a]
          /\ delivered'[a] = delivered[a]
      BY <2>2 DEF Process, TypeOK
    <3> QED
      BY <1>1, <1>2, <3>1 DEF Sent, InFlight, Arrived
  <2> QED
    BY <2>1, <2>2
<1>6. StreamInv'
  <2> SUFFICES ASSUME NEW e \in Endpoint
               PROVE  \E rest \in Seq(Commands) :
                        /\ written'[e] = Sent(e)' \o rest
                        /\ ~overflowed'[e] => rest = message'[e]
    BY DEF StreamInv
  <2>1. Sent(e)' = Sent(e)
    BY <1>1, <1>4, <1>5
  <2> QED
    BY <1>2, <2>1 DEF StreamInv
<1>7. \E next \in Seq(Commands) : delivered'[a] = delivered[a] \o next
  <2>1. d.payload \in Seq(Commands) /\ <<>> \in Seq(Commands)
    BY EmptySeq DEF TypeOK, Packet
  <2>2. delivered[a] \o <<>> = delivered[a]
    BY ConcatEmptySeq DEF TypeOK
  <2>3. delivered'[a] = IF d.has_reliable THEN delivered[a] \o d.payload ELSE delivered[a]
    BY DEF Process, TypeOK
  <2> QED
    BY <2>1, <2>2, <2>3
<1> QED
  BY <1>2, <1>6, <1>7

(* What was written is always what has been delivered, then what is         *)
(* outstanding, then a rest that is chan->message unless it overflowed.     *)
LEMMA StreamCorrect == Spec => []StreamInv
<1>1. Init => StreamInv
  <2> SUFFICES ASSUME Init, NEW e \in Endpoint
               PROVE  \E rest \in Seq(Commands) :
                        /\ written[e] = Sent(e) \o rest
                        /\ ~overflowed[e] => rest = message[e]
    BY DEF StreamInv
  <2>1. <<>> \in Seq(Commands) /\ <<>> \o <<>> = <<>>
    BY EmptySeq, ConcatEmptySeq
  <2>2. written[e] = <<>> /\ message[e] = <<>> /\ Sent(e) = <<>> \o <<>>
    BY PeerFacts DEF Init, Sent, InFlight
  <2> QED
    BY <2>1, <2>2
<1>2. TypeOK /\ ParitySound /\ StreamInv /\ [Next]_vars => StreamInv'
  <2> SUFFICES ASSUME TypeOK, ParitySound, StreamInv, [Next]_vars
               PROVE  StreamInv'
    OBVIOUS
  <2>1. ASSUME NEW e \in Endpoint, NEW c \in Commands, Write(e, c)
        PROVE  StreamInv'
    BY <2>1, WriteStream
  <2>2. ASSUME NEW e \in Endpoint, Transmit(e)
        PROVE  StreamInv'
    BY <2>2, TransmitStream
  <2>3. ASSUME NEW e \in Endpoint, NEW p \in net[e], Process(e, p)
        PROVE  StreamInv'
    BY <2>3, ProcessStream
  <2>4. ASSUME UNCHANGED <<written, delivered, reliable, message, overflowed,
                           reliable_sequence, incoming_reliable_sequence>>
        PROVE  StreamInv'
    BY <2>4 DEF StreamInv, Sent, InFlight, Arrived
  <2>5. ASSUME NEW e \in Endpoint, TransmitOverflowed(e)
        PROVE  StreamInv'
    BY <2>4, <2>5 DEF TransmitOverflowed, counters
  <2>6. ASSUME NEW e \in Endpoint, NEW p \in net[e], Lose(e, p)
        PROVE  StreamInv'
    BY <2>4, <2>6 DEF Lose, counters
  <2>7. CASE UNCHANGED vars
    BY <2>4, <2>7 DEF vars
  <2> QED
    BY <2>1, <2>2, <2>3, <2>5, <2>6, <2>7 DEF Next, Receive
<1> QED
  BY <1>1, <1>2, TypeCorrect, ParityCorrect, PTL DEF Spec

(* Exactly-once, in-order delivery, in the form the model checker evaluates. *)
THEOREM StreamsIntact == Spec => []StreamIntact
<1>1. TypeOK /\ StreamInv => StreamIntact
  <2> SUFFICES ASSUME TypeOK, StreamInv, NEW e \in Endpoint
               PROVE  /\ Sent(e) = SubSeq(written[e], 1, Len(Sent(e)))
                      /\ ~overflowed[e] => written[e] = Sent(e) \o message[e]
    BY DEF StreamIntact, Sent
  <2>1. PICK rest \in Seq(Commands) : /\ written[e] = Sent(e) \o rest
                                      /\ ~overflowed[e] => rest = message[e]
    BY DEF StreamInv
  <2>2. Sent(e) \in Seq(Commands)
    BY SentIsSeq
  <2> QED
    BY <2>1, <2>2, CutStream
<1> QED
  BY <1>1, TypeCorrect, StreamCorrect, PTL

(* Accepting a datagram reads a next part of the peer's stream.             *)
LEMMA ProcessReads ==
  ASSUME TypeOK, ParitySound, StreamInv, TypeOK', NEW a \in Endpoint,
         NEW d \in net[a], Process(a, d)
  PROVE  /\ \E n \in Len(delivered[a]) .. Len(written[Peer(a)]) :
              delivered'[a] = SubSeq(written[Peer(a)], 1, n)
         /\ written' = written
         /\ delivered'[Peer(a)] = delivered[Peer(a)]
<1> DEFINE s == Peer(a)
<1>1. s \in Endpoint /\ Peer(s) = a
  BY PeerFacts
<1>2. written' = written
  BY DEF Process
<1>3. PICK rest \in Seq(Commands) : written'[s] = Sent(s)' \o rest
  BY <1>1, ProcessStream DEF StreamInv
<1>4. PICK flying \in Seq(Commands) : Sent(s)' = delivered'[a] \o flying
  <2>1. InFlight(s)' \in Seq(Commands)
    BY <1>1, EmptySeq DEF InFlight, TypeOK
  <2> QED
    BY <1>1, <2>1 DEF Sent
<1>5. delivered'[a] \in Seq(Commands)
  BY DEF TypeOK
<1>6. written[s] = (delivered'[a] \o flying) \o rest
  BY <1>2, <1>3, <1>4
<1>7. /\ Len(delivered'[a]) \in 0 .. Len(written[s])
      /\ SubSeq(written[s], 1, Len(delivered'[a])) = delivered'[a]
  <2> DEFINE got == delivered'[a]
  <2>1. /\ Len(got) \in 0 .. Len((got \o flying) \o rest)
        /\ SubSeq((got \o flying) \o rest, 1, Len(got)) = got
    <3>1. got \in Seq(Commands)
      BY <1>5
    <3> HIDE DEF got
    <3> QED
      BY <3>1, CutStreamTwice
  <2> QED
    BY <1>6, <2>1
<1>8. Len(delivered[a]) <= Len(delivered'[a])
  <2>1. PICK next \in Seq(Commands) : delivered'[a] = delivered[a] \o next
    BY ProcessStream
  <2>2. delivered[a] \in Seq(Commands)
    BY DEF TypeOK
  <2> QED
    BY <2>1, <2>2, ConcatProperties, LenProperties
<1>9. Len(delivered[a]) \in Nat /\ Len(written[s]) \in Nat
  BY <1>1, LenProperties DEF TypeOK
<1> QED
  BY <1>2, <1>8, <1>7, <1>9, ProcessStream

(* Every other step writes a command or leaves both streams alone.          *)
LEMMA OtherSteps ==
  ASSUME TypeOK, Next,
         ~ \E a \in Endpoint : \E d \in net[a] : Process(a, d)
  PROVE  /\ delivered' = delivered
         /\ \/ written' = written
            \/ \E a \in Endpoint, c \in Commands :
                 /\ written'[a] = Append(written[a], c)
                 /\ written'[Peer(a)] = written[Peer(a)]
<1>1. ASSUME NEW a \in Endpoint, NEW c \in Commands, Write(a, c)
      PROVE  /\ delivered' = delivered
             /\ written'[a] = Append(written[a], c)
             /\ written'[Peer(a)] = written[Peer(a)]
  BY <1>1, PeerFacts DEF Write, TypeOK
<1>2. ASSUME NEW a \in Endpoint,
             \/ Transmit(a)
             \/ TransmitOverflowed(a)
             \/ \E d \in net[a] : Lose(a, d)
      PROVE  delivered' = delivered /\ written' = written
  BY <1>2 DEF Transmit, TransmitOverflowed, Lose
<1> QED
  BY <1>1, <1>2 DEF Next, Receive

(* What the client writes comes out at the server as a reliable stream.     *)
THEOREM UpstreamImplements == Spec => UpstreamReliable
<1>1. Init => Upstream!Init
  BY DEF Init, Upstream!Init, Endpoint
<1>2. TypeOK /\ TypeOK' /\ ParitySound /\ StreamInv /\ [Next]_vars
        => [Upstream!Next]_(Upstream!vars)
  <2> SUFFICES ASSUME TypeOK, TypeOK', ParitySound, StreamInv, Next
               PROVE  Upstream!Next \/ UNCHANGED Upstream!vars
    BY DEF vars, Upstream!vars
  <2> "client" \in Endpoint /\ "server" \in Endpoint
      /\ Peer("client") = "server" /\ Peer("server") = "client"
    BY DEF Endpoint, Peer
  <2>1. ASSUME NEW a \in Endpoint, NEW d \in net[a], Process(a, d)
        PROVE  Upstream!Next \/ UNCHANGED Upstream!vars
    <3>1. CASE a = "server"
      <4>1. \E n \in Len(delivered["server"]) .. Len(written["client"]) :
              delivered'["server"] = SubSeq(written["client"], 1, n)
        BY <2>1, <3>1, ProcessReads
      <4>2. written'["client"] = written["client"]
        BY <2>1, ProcessReads
      <4> QED
        BY <4>1, <4>2 DEF Upstream!Next, Upstream!Read
    <3>2. CASE a = "client"
      <4>1. written' = written /\ delivered'["server"] = delivered["server"]
        BY <2>1, <3>2, ProcessReads
      <4> QED
        BY <4>1 DEF Upstream!vars
    <3> QED
      BY <3>1, <3>2 DEF Endpoint
  <2>2. CASE ~ \E a \in Endpoint : \E d \in net[a] : Process(a, d)
    <3>1. delivered' = delivered
      BY <2>2, OtherSteps
    <3>2. \/ written' = written
          \/ \E a \in Endpoint, c \in Commands :
               /\ written'[a] = Append(written[a], c)
               /\ written'[Peer(a)] = written[Peer(a)]
      BY <2>2, OtherSteps
    <3>3. \/ written'["client"] = written["client"]
          \/ \E c \in Commands : written'["client"] = Append(written["client"], c)
      BY <3>2 DEF Endpoint
    <3> QED
      BY <3>1, <3>3 DEF Upstream!Next, Upstream!Write, Upstream!vars
  <2> QED
    BY <2>1, <2>2
<1> QED
  BY <1>1, <1>2, TypeCorrect, ParityCorrect, StreamCorrect, PTL
     DEF Spec, UpstreamReliable, Upstream!Spec

(* What the server writes comes out at the client as a reliable stream.     *)
THEOREM DownstreamImplements == Spec => DownstreamReliable
<1>1. Init => Downstream!Init
  BY DEF Init, Downstream!Init, Endpoint
<1>2. TypeOK /\ TypeOK' /\ ParitySound /\ StreamInv /\ [Next]_vars
        => [Downstream!Next]_(Downstream!vars)
  <2> SUFFICES ASSUME TypeOK, TypeOK', ParitySound, StreamInv, Next
               PROVE  Downstream!Next \/ UNCHANGED Downstream!vars
    BY DEF vars, Downstream!vars
  <2> "client" \in Endpoint /\ "server" \in Endpoint
      /\ Peer("client") = "server" /\ Peer("server") = "client"
    BY DEF Endpoint, Peer
  <2>1. ASSUME NEW a \in Endpoint, NEW d \in net[a], Process(a, d)
        PROVE  Downstream!Next \/ UNCHANGED Downstream!vars
    <3>1. CASE a = "client"
      <4>1. \E n \in Len(delivered["client"]) .. Len(written["server"]) :
              delivered'["client"] = SubSeq(written["server"], 1, n)
        BY <2>1, <3>1, ProcessReads
      <4>2. written'["server"] = written["server"]
        BY <2>1, ProcessReads
      <4> QED
        BY <4>1, <4>2 DEF Downstream!Next, Downstream!Read
    <3>2. CASE a = "server"
      <4>1. written' = written /\ delivered'["client"] = delivered["client"]
        BY <2>1, <3>2, ProcessReads
      <4> QED
        BY <4>1 DEF Downstream!vars
    <3> QED
      BY <3>1, <3>2 DEF Endpoint
  <2>2. CASE ~ \E a \in Endpoint : \E d \in net[a] : Process(a, d)
    <3>1. delivered' = delivered
      BY <2>2, OtherSteps
    <3>2. \/ written' = written
          \/ \E a \in Endpoint, c \in Commands :
               /\ written'[a] = Append(written[a], c)
               /\ written'[Peer(a)] = written[Peer(a)]
      BY <2>2, OtherSteps
    <3>3. \/ written'["server"] = written["server"]
          \/ \E c \in Commands : written'["server"] = Append(written["server"], c)
      BY <3>2 DEF Endpoint
    <3> QED
      BY <3>1, <3>3 DEF Downstream!Next, Downstream!Write, Downstream!vars
  <2> QED
    BY <2>1, <2>2
<1> QED
  BY <1>1, <1>2, TypeCorrect, ParityCorrect, StreamCorrect, PTL
     DEF Spec, DownstreamReliable, Downstream!Spec
=============================================================================
