---------------------------- MODULE SessionProofs ----------------------------
(***************************************************************************)
(* Proofs about a client and its slot (Session), for any number of levels, *)
(* parts, datagrams and losses: types always; and, when an attempt to      *)
(* connect begins only after the one before has come to an end (Patient),  *)
(* that nobody is kicked, that frames find the level they are of, that     *)
(* both ends spawn in the same level, and that nobody is forgotten.        *)
(*                                                                         *)
(* The inductive invariant, SessionInv, is one of four parts:              *)
(*   - the client has not been kicked;                                     *)
(*   - it never has more than one command to say (Small);                  *)
(*   - at most one datagram of an attempt to connect is under way, with    *)
(*     nothing of the channel before it behind it (Attempt);               *)
(*   - the slot is in one of three situations (Mode): free, with whatever  *)
(*     a client that does not know of it may have left (Abandoned); given  *)
(*     to a client that has not set up its end (Disengaged); or in the     *)
(*     midst of one conversation (Synced).                                 *)
(*                                                                         *)
(* In the last, the channels of both ends belong together, as NetChan's    *)
(* ParitySound says of its own (Sound), and the spawn sequence is a token  *)
(* that moves between them: one command, one answer or one text is under   *)
(* way, or none, wherever it is and however many copies of it there are    *)
(* (Token); and what the ends believe of each other follows from the place *)
(* of that token (Agreed).                                                 *)
(***************************************************************************)
EXTENDS Session, ListsProofs

-----------------------------------------------------------------------------
(* The types. *)

ClientText == Command \cup {Precache(l) : l \in Levels}
ServerCommand ==
  {ServerData(l) : l \in Levels} \cup
  {Part(l, k) : l \in Levels, k \in 1 .. Parts} \cup
  {Text(t) : t \in ClientText}

PacketOf(S) ==
  [sequence : 1 .. MaxSequence, has_reliable : BOOLEAN,
   ack : 0 .. MaxSequence, reliable_ack : {0, 1}, payload : Seq(S)]
ChannelOf(S) ==
  [incoming_sequence : 0 .. MaxSequence,
   incoming_acknowledged : 0 .. MaxSequence,
   incoming_reliable_acknowledged : {0, 1},
   incoming_reliable_sequence : {0, 1},
   outgoing_sequence : 1 .. MaxSequence + 1, reliable_sequence : {0, 1},
   last_reliable_sequence : 0 .. MaxSequence + 1,
   message : Seq(S), reliable : Seq(S), open : BOOLEAN]

Numbers == {NoChallenge, Used, FirstChallenge}
Frames == {Frame(l) : l \in Levels}
OutOfBandOf(ops) == [op : ops, value : Numbers]
SequencedOf(S, U) ==
  [op : {"sequenced"}, packet : PacketOf(S), unreliable : U]
FromClient ==
  OutOfBandOf({"get_challenge", "connect"}) \cup
  SequencedOf(Command, {Nothing, Disconnect})
FromServer ==
  OutOfBandOf({"challenge", "client_connect"}) \cup
  SequencedOf(ServerCommand, {Nothing, Reconnect, Disconnect} \cup Frames)

ClientStates == {"disconnected", "connecting", "connected", "active"}
ServerStates == {"free", "connected", "active"}

(* What every variable is. *)
ClientTypes ==
  /\ cls_state \in ClientStates
  /\ data \in SUBSET (Levels \X (1 .. Parts))
  /\ cbuf \in Seq(ClientText)
ServerTypes ==
  /\ sv_state \in ServerStates
  /\ challenge \in Numbers
  /\ spawn_count \in Levels
ChannelTypes ==
  /\ chan \in [Endpoint -> ChannelOf(Command) \cup ChannelOf(ServerCommand)]
  /\ chan["client"] \in ChannelOf(Command)
  /\ chan["server"] \in ChannelOf(ServerCommand)
WireTypes ==
  /\ wire \in [Endpoint -> Seq(FromServer) \cup Seq(FromClient)]
  /\ wire["client"] \in Seq(FromServer)
  /\ wire["server"] \in Seq(FromClient)
  /\ \A e \in Endpoint : Len(wire[e]) <= MaxWire
HistoryTypes ==
  /\ requests \in 0 .. MaxRequests
  /\ disconnects \in 0 .. MaxDisconnects
  /\ drops \in 0 .. MaxDrops
  /\ kicked \in BOOLEAN
Types ==
  ClientTypes /\ ServerTypes /\ ChannelTypes /\ WireTypes /\ HistoryTypes

(* The operators of the channel, as conditions on its members.              *)
CanStageOf(c) == c.reliable = <<>> /\ c.message # <<>>
NeedReliableOf(c) ==
  \/ /\ c.incoming_acknowledged > c.last_reliable_sequence
     /\ c.incoming_reliable_acknowledged # c.reliable_sequence
  \/ CanStageOf(c)
StagedOf(c) == IF CanStageOf(c) THEN c.message ELSE c.reliable
PacketFrom(c) ==
  [sequence     |-> c.outgoing_sequence,
   has_reliable |-> NeedReliableOf(c),
   ack          |-> c.incoming_sequence,
   reliable_ack |-> c.incoming_reliable_sequence,
   payload      |-> IF NeedReliableOf(c) THEN StagedOf(c) ELSE <<>>]

(* What NetChan's operators come to for a channel of Session.               *)
LEMMA Operators ==
  ASSUME NEW c, NEW p, NEW bit
  PROVE  /\ NC(c)!CanStage(Self) <=> CanStageOf(c)
         /\ NC(c)!NeedReliable(Self) <=> NeedReliableOf(c)
         /\ NC(c)!Staged(Self) = StagedOf(c)
         /\ NC(c)!ReliableSent(Self) = c.outgoing_sequence + 1
         /\ NC(c)!Toggled(bit) = 1 - bit
         /\ NC(c)!Fresh(Self, p) <=> p.sequence > c.incoming_sequence
         /\ NC(c)!AfterAck(Self, p) =
              IF p.reliable_ack = c.reliable_sequence THEN <<>> ELSE c.reliable
         /\ NC(c)!Datagram(Self) = PacketFrom(c)
<1>1. Self \in Endpoint
  BY DEF Self, Endpoint
<1>2. NC(c)!CanStage(Self) <=> CanStageOf(c)
  BY <1>1 DEF NC!CanStage, CanStageOf
<1>3. NC(c)!NeedReliable(Self) <=> NeedReliableOf(c)
  BY <1>1, <1>2 DEF NC!NeedReliable, NC!RemoteDropped, NeedReliableOf
<1>4. NC(c)!Staged(Self) = StagedOf(c)
  BY <1>1, <1>2 DEF NC!Staged, StagedOf
<1>5. NC(c)!ReliableSent(Self) = c.outgoing_sequence + 1
  BY <1>1 DEF NC!ReliableSent
<1>6. NC(c)!Toggled(bit) = 1 - bit
  BY DEF NC!Toggled
<1>7. NC(c)!Fresh(Self, p) <=> p.sequence > c.incoming_sequence
  BY <1>1 DEF NC!Fresh
<1>8. NC(c)!AfterAck(Self, p) =
        IF p.reliable_ack = c.reliable_sequence THEN <<>> ELSE c.reliable
  BY <1>1 DEF NC!AfterAck
<1>9. NC(c)!Datagram(Self) = PacketFrom(c)
  <2>1. NC(c)!NeedReliable(Self) = NeedReliableOf(c)
    BY <1>3 DEF NC!NeedReliable, NeedReliableOf
  <2> QED
    BY <1>1, <1>4, <2>1 DEF NC!Datagram, PacketFrom
<1> QED
  BY <1>2, <1>3, <1>4, <1>5, <1>6, <1>7, <1>8, <1>9

(* Netchan_Transmit and Netchan_Process, member by member.                  *)
LEMMA TransmittedIs ==
  ASSUME NEW c
  PROVE  Transmitted(c) =
           [c EXCEPT
              !.reliable = StagedOf(c),
              !.message = IF CanStageOf(c) THEN <<>> ELSE @,
              !.reliable_sequence = IF CanStageOf(c) THEN 1 - @ ELSE @,
              !.outgoing_sequence = @ + 1,
              !.last_reliable_sequence =
                 IF NeedReliableOf(c) THEN c.outgoing_sequence + 1 ELSE @]
  BY Operators DEF Transmitted

LEMMA ProcessedIs ==
  ASSUME NEW c, NEW p
  PROVE  Processed(c, p) =
           [c EXCEPT
              !.reliable = IF p.reliable_ack = c.reliable_sequence THEN <<>>
                           ELSE c.reliable,
              !.incoming_sequence = p.sequence,
              !.incoming_acknowledged = p.ack,
              !.incoming_reliable_acknowledged = p.reliable_ack,
              !.incoming_reliable_sequence =
                 IF p.has_reliable THEN 1 - @ ELSE @]
  BY Operators DEF Processed

(* The same with its type, and with what is sent.                           *)
LEMMA TransmittedFields ==
  ASSUME NEW S, NEW c \in ChannelOf(S)
  PROVE  /\ Transmitted(c).incoming_sequence = c.incoming_sequence
         /\ Transmitted(c).incoming_acknowledged = c.incoming_acknowledged
         /\ Transmitted(c).incoming_reliable_acknowledged =
              c.incoming_reliable_acknowledged
         /\ Transmitted(c).incoming_reliable_sequence =
              c.incoming_reliable_sequence
         /\ Transmitted(c).outgoing_sequence = c.outgoing_sequence + 1
         /\ Transmitted(c).reliable_sequence =
              IF CanStageOf(c) THEN 1 - c.reliable_sequence
              ELSE c.reliable_sequence
         /\ Transmitted(c).last_reliable_sequence =
              IF NeedReliableOf(c) THEN c.outgoing_sequence + 1
              ELSE c.last_reliable_sequence
         /\ Transmitted(c).message =
              IF CanStageOf(c) THEN <<>> ELSE c.message
         /\ Transmitted(c).reliable = StagedOf(c)
         /\ Transmitted(c).open = c.open
  BY TransmittedIs DEF ChannelOf

LEMMA ProcessedFields ==
  ASSUME NEW S, NEW c \in ChannelOf(S), NEW p
  PROVE  /\ Processed(c, p).incoming_sequence = p.sequence
         /\ Processed(c, p).incoming_acknowledged = p.ack
         /\ Processed(c, p).incoming_reliable_acknowledged = p.reliable_ack
         /\ Processed(c, p).incoming_reliable_sequence =
              IF p.has_reliable THEN 1 - c.incoming_reliable_sequence
              ELSE c.incoming_reliable_sequence
         /\ Processed(c, p).outgoing_sequence = c.outgoing_sequence
         /\ Processed(c, p).reliable_sequence = c.reliable_sequence
         /\ Processed(c, p).last_reliable_sequence = c.last_reliable_sequence
         /\ Processed(c, p).message = c.message
         /\ Processed(c, p).reliable =
              IF p.reliable_ack = c.reliable_sequence THEN <<>> ELSE c.reliable
         /\ Processed(c, p).open = c.open
  BY ProcessedIs DEF ChannelOf

LEMMA TransmittedTypes ==
  ASSUME NEW S, NEW c \in ChannelOf(S), CanTransmit(c)
  PROVE  /\ Transmitted(c) \in ChannelOf(S)
         /\ PacketFrom(c) \in PacketOf(S)
<1> DEFINE d == Transmitted(c)
<1>1. /\ MaxSequence \in Nat \ {0}
      /\ c.outgoing_sequence \in 1 .. MaxSequence
  BY SessionAssumption DEF ChannelOf, CanTransmit
<1>2. StagedOf(c) \in Seq(S) /\ CanStageOf(c) \in BOOLEAN
      /\ NeedReliableOf(c) \in BOOLEAN
  BY DEF StagedOf, CanStageOf, NeedReliableOf, ChannelOf
<1>3. /\ d.incoming_sequence \in 0 .. MaxSequence
      /\ d.incoming_acknowledged \in 0 .. MaxSequence
      /\ d.incoming_reliable_acknowledged \in {0, 1}
      /\ d.incoming_reliable_sequence \in {0, 1}
  BY TransmittedFields DEF ChannelOf
<1>4. /\ d.outgoing_sequence \in 1 .. MaxSequence + 1
      /\ d.last_reliable_sequence \in 0 .. MaxSequence + 1
  BY <1>1, TransmittedFields DEF ChannelOf
<1>5. /\ d.reliable_sequence \in {0, 1}
      /\ d.message \in Seq(S)
      /\ d.reliable \in Seq(S)
      /\ d.open \in BOOLEAN
  <2>1. <<>> \in Seq(S) /\ c.message \in Seq(S)
        /\ c.reliable_sequence \in {0, 1} /\ c.open \in BOOLEAN
    BY DEF ChannelOf
  <2>2. /\ d.reliable_sequence \in {c.reliable_sequence, 1 - c.reliable_sequence}
        /\ d.message \in {<<>>, c.message}
        /\ d.reliable = StagedOf(c)
        /\ d.open = c.open
    BY TransmittedFields
  <2>3. d.message \in Seq(S)
    BY <2>1, <2>2
  <2>4. d.reliable \in Seq(S)
    BY <1>2, <2>2
  <2>5. d.reliable_sequence \in {0, 1} /\ d.open \in BOOLEAN
    BY <2>1, <2>2
  <2> QED
    BY <2>3, <2>4, <2>5
<1>6. d = [incoming_sequence |-> d.incoming_sequence,
           incoming_acknowledged |-> d.incoming_acknowledged,
           incoming_reliable_acknowledged |-> d.incoming_reliable_acknowledged,
           incoming_reliable_sequence |-> d.incoming_reliable_sequence,
           outgoing_sequence |-> d.outgoing_sequence,
           reliable_sequence |-> d.reliable_sequence,
           last_reliable_sequence |-> d.last_reliable_sequence,
           message |-> d.message, reliable |-> d.reliable, open |-> d.open]
  BY TransmittedIs DEF ChannelOf
<1>7. d \in ChannelOf(S)
  <2> HIDE DEF d
  <2> QED
    BY <1>3, <1>4, <1>5, <1>6 DEF ChannelOf
<1>8. PacketFrom(c) \in PacketOf(S)
  <2>1. (IF NeedReliableOf(c) THEN StagedOf(c) ELSE <<>>) \in Seq(S)
    BY <1>2
  <2>2. c.incoming_sequence \in 0 .. MaxSequence
        /\ c.incoming_reliable_sequence \in {0, 1}
    BY DEF ChannelOf
  <2> QED
    BY <1>1, <1>2, <2>1, <2>2 DEF PacketFrom, PacketOf
<1> QED
  BY <1>7, <1>8

LEMMA ProcessedTypes ==
  ASSUME NEW S, NEW R, NEW c \in ChannelOf(S), NEW p \in PacketOf(R)
  PROVE  Processed(c, p) \in ChannelOf(S)
<1> DEFINE d == Processed(c, p)
<1>1. /\ p.sequence \in 0 .. MaxSequence
      /\ p.ack \in 0 .. MaxSequence
      /\ p.reliable_ack \in {0, 1}
      /\ <<>> \in Seq(S)
  BY SessionAssumption DEF PacketOf
<1>2. /\ d.incoming_sequence \in 0 .. MaxSequence
      /\ d.incoming_acknowledged \in 0 .. MaxSequence
      /\ d.incoming_reliable_acknowledged \in {0, 1}
      /\ d.incoming_reliable_sequence \in {0, 1}
  BY <1>1, ProcessedFields DEF ChannelOf
<1>3. /\ d.outgoing_sequence \in 1 .. MaxSequence + 1
      /\ d.reliable_sequence \in {0, 1}
      /\ d.last_reliable_sequence \in 0 .. MaxSequence + 1
      /\ d.open \in BOOLEAN
  BY ProcessedFields DEF ChannelOf
<1>5. d.message \in Seq(S) /\ d.reliable \in Seq(S)
  <2>1. c.message \in Seq(S) /\ c.reliable \in Seq(S)
    BY DEF ChannelOf
  <2>2. d.message = c.message /\ d.reliable \in {<<>>, c.reliable}
    BY ProcessedFields
  <2> HIDE DEF d
  <2> QED
    BY <1>1, <2>1, <2>2
<1>4. d = [incoming_sequence |-> d.incoming_sequence,
           incoming_acknowledged |-> d.incoming_acknowledged,
           incoming_reliable_acknowledged |-> d.incoming_reliable_acknowledged,
           incoming_reliable_sequence |-> d.incoming_reliable_sequence,
           outgoing_sequence |-> d.outgoing_sequence,
           reliable_sequence |-> d.reliable_sequence,
           last_reliable_sequence |-> d.last_reliable_sequence,
           message |-> d.message, reliable |-> d.reliable, open |-> d.open]
  BY ProcessedIs DEF ChannelOf
<1> HIDE DEF d
<1>6. /\ d.incoming_sequence \in 0 .. MaxSequence
      /\ d.outgoing_sequence \in 1 .. MaxSequence + 1
      /\ d.reliable_sequence \in {0, 1}
      /\ d.message \in Seq(S)
      /\ d.reliable \in Seq(S)
      /\ d.open \in BOOLEAN
      /\ d.last_reliable_sequence \in 0 .. MaxSequence + 1
  BY <1>2, <1>3, <1>5
<1>7. /\ d.incoming_acknowledged \in 0 .. MaxSequence
      /\ d.incoming_reliable_acknowledged \in {0, 1}
      /\ d.incoming_reliable_sequence \in {0, 1}
  BY <1>2
<1>8. d \in ChannelOf(S)
  BY <1>4, <1>6, <1>7 DEF ChannelOf
<1> QED
  BY <1>8 DEF d

LEMMA MessageTypes ==
  ASSUME NEW S, NEW c \in ChannelOf(S), NEW m \in Seq(S)
  PROVE  /\ [c EXCEPT !.message = m] \in ChannelOf(S)
         /\ [c EXCEPT !.message = m].message = m
         /\ Written(c, m) = [c EXCEPT !.message = c.message \o m]
         /\ Written(c, m) \in ChannelOf(S)
<1>1. /\ c.message \o m \in Seq(S)
      /\ Written(c, m) = [c EXCEPT !.message = c.message \o m]
  BY DEF ChannelOf, Written
<1>2. ASSUME NEW n \in Seq(S)
      PROVE  /\ [c EXCEPT !.message = n] \in ChannelOf(S)
             /\ [c EXCEPT !.message = n].message = n
  BY DEF ChannelOf
<1> QED
  BY <1>1, <1>2

(* The channel c with another message.                                      *)
Saying(c, m) == [c EXCEPT !.message = m]

LEMMA SayingIs ==
  ASSUME NEW S, NEW c \in ChannelOf(S), NEW m \in Seq(S)
  PROVE  /\ Saying(c, m) \in ChannelOf(S)
         /\ Saying(c, m).message = m
         /\ Saying(c, m).reliable = c.reliable
         /\ Saying(c, m).incoming_sequence = c.incoming_sequence
         /\ Saying(c, m).open = c.open
         /\ Written(c, m) = Saying(c, c.message \o m)
         /\ c.message = m => Saying(c, m) = c
  BY DEF ChannelOf, Saying, Written

LEMMA NewChannelTypes ==
  ASSUME NEW S, NEW open \in BOOLEAN
  PROVE  NewChannel(open) \in ChannelOf(S)
  BY SessionAssumption DEF NewChannel, ChannelOf

-----------------------------------------------------------------------------
(* Commands read one after the other. *)

(* f is what n steps from s come to, one after the other.                   *)
AreSteps(f, S, n, step, s) ==
  /\ f \in [0 .. n -> S]
  /\ f[0] = s
  /\ \A i \in 1 .. n : f[i] = step[<<f[i - 1], i>>]

LEMMA StepsExist ==
  ASSUME NEW S, NEW n \in Nat, NEW step \in [S \X (1 .. n) -> S], NEW s \in S
  PROVE  \E f : AreSteps(f, S, n, step, s)
<1> DEFINE Steps(f, m) ==
             /\ f \in [0 .. m -> S]
             /\ f[0] = s
             /\ \A i \in 1 .. m : i <= n => f[i] = step[<<f[i - 1], i>>]
           T == {m \in Nat : \E f : Steps(f, m)}
<1>1. 0 \in T
  <2> DEFINE f == [i \in 0 .. 0 |-> s]
  <2>1. Steps(f, 0)
    OBVIOUS
  <2> QED
    BY <2>1
<1>2. ASSUME NEW m \in Nat, m \in T
      PROVE  m + 1 \in T
  <2>1. PICK f : Steps(f, m)
    BY <1>2
  <2> DEFINE last == IF m + 1 <= n THEN step[<<f[m], m + 1>>] ELSE s
             g == [i \in 0 .. m + 1 |-> IF i = m + 1 THEN last ELSE f[i]]
  <2>2. last \in S
    <3>1. m \in 0 .. m /\ f[m] \in S
      BY <2>1
    <3>2. m + 1 <= n => <<f[m], m + 1>> \in S \X (1 .. n)
      BY <3>1
    <3> QED
      BY <3>2
  <2>3. g \in [0 .. m + 1 -> S]
    BY <2>1, <2>2
  <2>4. /\ g[m + 1] = last
        /\ \A i \in 0 .. m : g[i] = f[i]
    OBVIOUS
  <2> HIDE DEF g
  <2>5. ASSUME NEW i \in 1 .. m + 1, i <= n
        PROVE  g[i] = step[<<g[i - 1], i>>]
    <3>1. CASE i = m + 1
      <4>1. i - 1 = m /\ m \in 0 .. m
        BY <3>1
      <4> QED
        BY <4>1, <3>1, <2>4, <2>5
    <3>2. CASE i # m + 1
      <4>1. i \in 1 .. m /\ i \in 0 .. m /\ i - 1 \in 0 .. m
        BY <3>2
      <4> QED
        BY <4>1, <2>1, <2>4, <2>5
    <3> QED
      BY <3>1, <3>2
  <2>6. Steps(g, m + 1)
    BY <2>1, <2>3, <2>4, <2>5
  <2> QED
    BY <2>6
<1> HIDE DEF T
<1>3. T = Nat
  <2>1. T \in SUBSET Nat
    BY DEF T
  <2> QED
    BY <1>1, <1>2, <2>1, Induct
<1>4. PICK f : Steps(f, n)
  BY <1>3 DEF T
<1>5. \A i \in 1 .. n : i <= n
  OBVIOUS
<1> QED
  BY <1>4, <1>5 DEF AreSteps

(* What holds of the first and is handed on holds of all.                   *)
LEMMA StepsStay ==
  ASSUME NEW S, NEW n \in Nat, NEW f, f[0] \in S,
         \A i \in 1 .. n : f[i - 1] \in S => f[i] \in S
  PROVE  \A i \in 0 .. n : f[i] \in S
<1> DEFINE T == {m \in Nat : m <= n => f[m] \in S}
<1>1. 0 \in T
  OBVIOUS
<1>2. ASSUME NEW m \in Nat, m \in T
      PROVE  m + 1 \in T
  <2>1. CASE m + 1 <= n
    <3>1. m + 1 \in 1 .. n /\ (m + 1) - 1 = m /\ m <= n
      BY <2>1
    <3> QED
      BY <3>1, <1>2
  <2>2. CASE ~(m + 1 <= n)
    BY <2>2
  <2> QED
    BY <2>1, <2>2
<1>3. T \in SUBSET Nat
  OBVIOUS
<1> HIDE DEF T
<1>4. T = Nat
  BY <1>1, <1>2, <1>3, Induct
<1> QED
  BY <1>4 DEF T

(* What the client changes when it reads commands, and the server.          *)
ClientReading ==
  [state : ClientStates, data : SUBSET (Levels \X (1 .. Parts)),
   cbuf : Seq(ClientText), message : Seq(Command)]
ServerReading ==
  [state : ServerStates \cup {"kicked"}, message : Seq(ServerCommand)]

LEMMA ServerCommandParsed ==
  ASSUME NEW c \in ClientReading, NEW cmd \in ServerCommand
  PROVE  ParseServerCommand(c, cmd) \in ClientReading
<1>1. CASE cmd \in {ServerData(l) : l \in Levels}
  <2>1. cmd.op = "server_data"
    BY <1>1 DEF ServerData
  <2>2. ParseServerCommand(c, cmd) = [Cleared(c) EXCEPT !.state = "connected"]
    BY <2>1 DEF ParseServerCommand
  <2>3. Cleared(c) \in ClientReading
    <3>1. {} \in SUBSET (Levels \X (1 .. Parts)) /\ <<>> \in Seq(Command)
      OBVIOUS
    <3> QED
      BY <3>1 DEF Cleared, ClientReading
  <2>4. "connected" \in ClientStates
    BY DEF ClientStates
  <2> QED
    BY <2>2, <2>3, <2>4 DEF ClientReading
<1>2. CASE cmd \in {Part(l, k) : l \in Levels, k \in 1 .. Parts}
  <2>1. /\ cmd.op = "config_string"
        /\ <<cmd.level, cmd.part>> \in Levels \X (1 .. Parts)
    BY <1>2 DEF Part
  <2>2. ParseServerCommand(c, cmd) =
          [c EXCEPT !.data = @ \cup {<<cmd.level, cmd.part>>}]
    BY <2>1 DEF ParseServerCommand
  <2> QED
    BY <2>1, <2>2 DEF ClientReading
<1>3. CASE cmd \in {Text(t) : t \in ClientText}
  <2>1. cmd.op = "cbuf_text" /\ cmd.command \in ClientText
    BY <1>3 DEF Text
  <2>2. ParseServerCommand(c, cmd) = [c EXCEPT !.cbuf = Append(@, cmd.command)]
    BY <2>1 DEF ParseServerCommand
  <2>3. c.cbuf \in Seq(ClientText)
    BY DEF ClientReading
  <2>4. Append(c.cbuf, cmd.command) \in Seq(ClientText)
    BY <2>1, <2>3
  <2> QED
    BY <2>2, <2>4 DEF ClientReading
<1> QED
  BY <1>1, <1>2, <1>3 DEF ServerCommand

LEMMA ServerCommandsParsed ==
  ASSUME NEW c \in ClientReading, NEW commands \in Seq(ServerCommand)
  PROVE  \E f : /\ f[0] = c
                /\ \A i \in 0 .. Len(commands) : f[i] \in ClientReading
                /\ \A i \in 1 .. Len(commands) :
                     f[i] = ParseServerCommand(f[i - 1], commands[i])
                /\ ParseServerCommands(c, commands) = f[Len(commands)]
<1> DEFINE n == Len(commands)
           Is(f) == f = [i \in 0 .. n |-> IF i = 0 THEN c
                         ELSE ParseServerCommand(f[i - 1], commands[i])]
           step == [x \in ClientReading \X (1 .. n) |->
                      ParseServerCommand(x[1], commands[x[2]])]
           parsed == CHOOSE f : Is(f)
<1>1. n \in Nat /\ \A i \in 1 .. n : commands[i] \in ServerCommand
  OBVIOUS
<1>2. step \in [ClientReading \X (1 .. n) -> ClientReading]
  <2>1. ASSUME NEW x \in ClientReading \X (1 .. n)
        PROVE  ParseServerCommand(x[1], commands[x[2]]) \in ClientReading
    <3>1. x[1] \in ClientReading /\ commands[x[2]] \in ServerCommand
      BY <1>1
    <3> QED
      BY <3>1, ServerCommandParsed
  <2> QED
    BY <2>1
<1>3. \A y \in ClientReading : \A i \in 1 .. n :
        step[<<y, i>>] = ParseServerCommand(y, commands[i])
  OBVIOUS
<1> HIDE DEF step, n
<1>4. PICK f : AreSteps(f, ClientReading, n, step, c)
  BY <1>1, <1>2, StepsExist
<1>5. Is(f)
  <2>1. \A i \in 0 .. n : f[i] = IF i = 0 THEN c
                                 ELSE ParseServerCommand(f[i - 1], commands[i])
    <3> TAKE i \in 0 .. n
    <3>1. CASE i = 0
      BY <3>1, <1>4 DEF AreSteps
    <3>2. CASE i # 0
      <4>1. i \in 1 .. n /\ i - 1 \in 0 .. n
        BY <3>2, <1>1
      <4>2. f[i - 1] \in ClientReading
        BY <4>1, <1>4 DEF AreSteps
      <4> QED
        BY <4>1, <4>2, <3>2, <1>3, <1>4 DEF AreSteps
    <3> QED
      BY <3>1, <3>2
  <2>2. f = [i \in 0 .. n |-> f[i]]
    BY <1>4 DEF AreSteps
  <2> QED
    BY <2>1, <2>2
<1>6. Is(parsed)
  BY <1>5
<1>7. ParseServerCommands(c, commands) = parsed[n]
  BY DEF ParseServerCommands, n
<1> HIDE DEF parsed
<1>8. /\ parsed[0] = c
      /\ \A i \in 1 .. n :
           parsed[i] = ParseServerCommand(parsed[i - 1], commands[i])
  <2>1. \A i \in 0 .. n :
          parsed[i] = IF i = 0 THEN c
                      ELSE ParseServerCommand(parsed[i - 1], commands[i])
    BY <1>6
  <2>2. 0 \in 0 .. n /\ \A i \in 1 .. n : i \in 0 .. n /\ i # 0
    BY <1>1
  <2> HIDE DEF Is
  <2> QED
    BY <2>1, <2>2
<1>9. \A i \in 0 .. n : parsed[i] \in ClientReading
  <2>1. \A i \in 1 .. n : parsed[i - 1] \in ClientReading =>
                            parsed[i] \in ClientReading
    BY <1>1, <1>8, ServerCommandParsed
  <2> QED
    BY <1>1, <1>8, <2>1, StepsStay
<1> QED
  BY <1>7, <1>8, <1>9 DEF n

(* What the server answers.                                                 *)
LEMMA AnswerTypes ==
  ASSUME NEW cmd \in Command, spawn_count \in Levels
  PROVE  Answer(cmd) \in Seq(ServerCommand)
<1>1. Parts \in Nat \ {0}
  BY SessionAssumption
<1>2. NewAnswer \in Seq(ServerCommand)
  <2>1. 1 \in 1 .. Parts
    BY <1>1
  <2>2. GetPart(spawn_count, 1) \in ClientText
    BY <2>1 DEF ClientText, Command
  <2>3. ServerData(spawn_count) \in ServerCommand
        /\ Text(GetPart(spawn_count, 1)) \in ServerCommand
    BY <2>2 DEF ServerCommand
  <2> QED
    BY <2>3 DEF NewAnswer
<1>3. CASE cmd.op = "new" \/ Stale(cmd)
  BY <1>2, <1>3 DEF Answer
<1>4. CASE ~(cmd.op = "new" \/ Stale(cmd)) /\ cmd.op = "part"
  <2>1. cmd \in {GetPart(l, p) : l \in Levels, p \in 1 .. Parts}
    BY <1>4 DEF Command, New, Begin
  <2>2. cmd.part \in 1 .. Parts
    BY <2>1 DEF GetPart
  <2>3. (IF cmd.part < Parts THEN GetPart(spawn_count, cmd.part + 1)
         ELSE Precache(spawn_count)) \in ClientText
    <3>1. CASE cmd.part < Parts
      <4>1. cmd.part + 1 \in 1 .. Parts
        BY <1>1, <2>2, <3>1
      <4> QED
        BY <3>1, <4>1 DEF ClientText, Command
    <3>2. CASE ~(cmd.part < Parts)
      BY <3>2 DEF ClientText
    <3> QED
      BY <3>1, <3>2
  <2>4. Part(spawn_count, cmd.part) \in ServerCommand
    BY <2>2 DEF ServerCommand
  <2>5. Answer(cmd) = PartAnswer(cmd)
    BY <1>4 DEF Answer
  <2>6. Text(IF cmd.part < Parts THEN GetPart(spawn_count, cmd.part + 1)
             ELSE Precache(spawn_count)) \in ServerCommand
    BY <2>3 DEF ServerCommand
  <2> QED
    BY <2>4, <2>5, <2>6 DEF PartAnswer
<1>5. CASE ~(cmd.op = "new" \/ Stale(cmd)) /\ cmd.op # "part"
  BY <1>5 DEF Answer
<1> QED
  BY <1>3, <1>4, <1>5

LEMMA ClientCommandParsed ==
  ASSUME NEW c \in ServerReading, NEW cmd \in Command, spawn_count \in Levels
  PROVE  ParseClientCommand(c, cmd) \in ServerReading
<1>1. CASE c.state = "connected"
  <2> DEFINE m == c.message \o Answer(cmd)
             s == IF cmd.op = "begin" /\ ~Stale(cmd) THEN "active" ELSE c.state
  <2>1. m \in Seq(ServerCommand)
    BY AnswerTypes DEF ServerReading
  <2>2. s \in ServerStates \cup {"kicked"}
    BY <1>1 DEF ServerStates
  <2>3. ParseClientCommand(c, cmd) = [c EXCEPT !.message = m, !.state = s]
    BY <1>1 DEF ParseClientCommand
  <2> HIDE DEF m, s
  <2> QED
    BY <2>1, <2>2, <2>3 DEF ServerReading
<1>2. CASE c.state # "connected"
  BY <1>2 DEF ParseClientCommand, ServerReading
<1> QED
  BY <1>1, <1>2

LEMMA ClientCommandsParsed ==
  ASSUME NEW c \in ServerReading, NEW commands \in Seq(Command),
         spawn_count \in Levels
  PROVE  \E f : /\ f[0] = c
                /\ \A i \in 0 .. Len(commands) : f[i] \in ServerReading
                /\ \A i \in 1 .. Len(commands) :
                     f[i] = ParseClientCommand(f[i - 1], commands[i])
                /\ ParseClientCommands(c, commands) = f[Len(commands)]
<1> DEFINE n == Len(commands)
           Is(f) == f = [i \in 0 .. n |-> IF i = 0 THEN c
                         ELSE ParseClientCommand(f[i - 1], commands[i])]
           step == [x \in ServerReading \X (1 .. n) |->
                      ParseClientCommand(x[1], commands[x[2]])]
           parsed == CHOOSE f : Is(f)
<1>1. n \in Nat /\ \A i \in 1 .. n : commands[i] \in Command
  OBVIOUS
<1>2. step \in [ServerReading \X (1 .. n) -> ServerReading]
  <2>1. ASSUME NEW x \in ServerReading \X (1 .. n)
        PROVE  ParseClientCommand(x[1], commands[x[2]]) \in ServerReading
    <3>1. x[1] \in ServerReading /\ commands[x[2]] \in Command
      BY <1>1
    <3> QED
      BY <3>1, ClientCommandParsed
  <2> QED
    BY <2>1
<1>3. \A y \in ServerReading : \A i \in 1 .. n :
        step[<<y, i>>] = ParseClientCommand(y, commands[i])
  OBVIOUS
<1> HIDE DEF step, n
<1>4. PICK f : AreSteps(f, ServerReading, n, step, c)
  BY <1>1, <1>2, StepsExist
<1>5. Is(f)
  <2>1. \A i \in 0 .. n : f[i] = IF i = 0 THEN c
                                 ELSE ParseClientCommand(f[i - 1], commands[i])
    <3> TAKE i \in 0 .. n
    <3>1. CASE i = 0
      BY <3>1, <1>4 DEF AreSteps
    <3>2. CASE i # 0
      <4>1. i \in 1 .. n /\ i - 1 \in 0 .. n
        BY <3>2, <1>1
      <4>2. f[i - 1] \in ServerReading
        BY <4>1, <1>4 DEF AreSteps
      <4> QED
        BY <4>1, <4>2, <3>2, <1>3, <1>4 DEF AreSteps
    <3> QED
      BY <3>1, <3>2
  <2>2. f = [i \in 0 .. n |-> f[i]]
    BY <1>4 DEF AreSteps
  <2> QED
    BY <2>1, <2>2
<1>6. Is(parsed)
  BY <1>5
<1>7. ParseClientCommands(c, commands) = parsed[n]
  BY DEF ParseClientCommands, n
<1> HIDE DEF parsed
<1>8. /\ parsed[0] = c
      /\ \A i \in 1 .. n :
           parsed[i] = ParseClientCommand(parsed[i - 1], commands[i])
  <2>1. \A i \in 0 .. n :
          parsed[i] = IF i = 0 THEN c
                      ELSE ParseClientCommand(parsed[i - 1], commands[i])
    BY <1>6
  <2>2. 0 \in 0 .. n /\ \A i \in 1 .. n : i \in 0 .. n /\ i # 0
    BY <1>1
  <2> HIDE DEF Is
  <2> QED
    BY <2>1, <2>2
<1>9. \A i \in 0 .. n : parsed[i] \in ServerReading
  <2>1. \A i \in 1 .. n : parsed[i - 1] \in ServerReading =>
                            parsed[i] \in ServerReading
    BY <1>1, <1>8, ClientCommandParsed
  <2> QED
    BY <1>1, <1>8, <2>1, StepsStay
<1> QED
  BY <1>7, <1>8, <1>9 DEF n

(* The texts the client executes.                                           *)
LEMMA TextExecuted ==
  ASSUME NEW t \in ClientText
  PROVE  Executed(t) \in Seq(Command)
<1>1. CASE t.op # "precache"
  <2>1. t \in Command
    BY <1>1 DEF ClientText, Precache
  <2> QED
    BY <1>1, <2>1 DEF Executed
<1>2. CASE t.op = "precache"
  <2>1. t.level \in Levels
    BY <1>2 DEF ClientText, Precache, Command, New, GetPart, Begin
  <2>2. Begin(t.level) \in Command
    BY <2>1 DEF Command
  <2> QED
    BY <1>2, <2>2 DEF Executed
<1> QED
  BY <1>1, <1>2

LEMMA TextsExecuted ==
  ASSUME NEW texts \in Seq(ClientText)
  PROVE  \E f : /\ f[0] = <<>>
                /\ \A i \in 0 .. Len(texts) : f[i] \in Seq(Command)
                /\ \A i \in 1 .. Len(texts) :
                     f[i] = f[i - 1] \o Executed(texts[i])
                /\ ExecutedAll(texts) = f[Len(texts)]
<1> DEFINE n == Len(texts)
           Is(f) == f = [i \in 0 .. n |-> IF i = 0 THEN <<>>
                         ELSE f[i - 1] \o Executed(texts[i])]
           step == [x \in Seq(Command) \X (1 .. n) |->
                      x[1] \o Executed(texts[x[2]])]
           parsed == CHOOSE f : Is(f)
<1>1. n \in Nat /\ \A i \in 1 .. n : texts[i] \in ClientText
  OBVIOUS
<1>2. step \in [Seq(Command) \X (1 .. n) -> Seq(Command)]
  <2>1. ASSUME NEW x \in Seq(Command) \X (1 .. n)
        PROVE  x[1] \o Executed(texts[x[2]]) \in Seq(Command)
    <3>1. x[1] \in Seq(Command) /\ texts[x[2]] \in ClientText
      BY <1>1
    <3> QED
      BY <3>1, TextExecuted
  <2> QED
    BY <2>1
<1>3. \A y \in Seq(Command) : \A i \in 1 .. n :
        step[<<y, i>>] = y \o Executed(texts[i])
  OBVIOUS
<1> HIDE DEF step, n
<1> <<>> \in Seq(Command)
  OBVIOUS
<1>4. PICK f : AreSteps(f, Seq(Command), n, step, <<>>)
  BY <1>1, <1>2, StepsExist
<1>5. Is(f)
  <2>1. \A i \in 0 .. n : f[i] = IF i = 0 THEN <<>>
                                 ELSE f[i - 1] \o Executed(texts[i])
    <3> TAKE i \in 0 .. n
    <3>1. CASE i = 0
      BY <3>1, <1>4 DEF AreSteps
    <3>2. CASE i # 0
      <4>1. i \in 1 .. n /\ i - 1 \in 0 .. n
        BY <3>2, <1>1
      <4>2. f[i - 1] \in Seq(Command)
        BY <4>1, <1>4 DEF AreSteps
      <4> QED
        BY <4>1, <4>2, <3>2, <1>3, <1>4 DEF AreSteps
    <3> QED
      BY <3>1, <3>2
  <2>2. f = [i \in 0 .. n |-> f[i]]
    BY <1>4 DEF AreSteps
  <2> QED
    BY <2>1, <2>2
<1>6. Is(parsed)
  BY <1>5
<1>7. ExecutedAll(texts) = parsed[n]
  BY DEF ExecutedAll, n
<1> HIDE DEF parsed
<1>8. /\ parsed[0] = <<>>
      /\ \A i \in 1 .. n :
           parsed[i] = parsed[i - 1] \o Executed(texts[i])
  <2>1. \A i \in 0 .. n :
          parsed[i] = IF i = 0 THEN <<>>
                      ELSE parsed[i - 1] \o Executed(texts[i])
    BY <1>6
  <2>2. 0 \in 0 .. n /\ \A i \in 1 .. n : i \in 0 .. n /\ i # 0
    BY <1>1
  <2> HIDE DEF Is
  <2> QED
    BY <2>1, <2>2
<1>9. \A i \in 0 .. n : parsed[i] \in Seq(Command)
  <2>1. \A i \in 1 .. n : parsed[i - 1] \in Seq(Command) =>
                            parsed[i] \in Seq(Command)
    <3> TAKE i \in 1 .. n
    <3> HAVE parsed[i - 1] \in Seq(Command)
    <3>1. Executed(texts[i]) \in Seq(Command)
      BY <1>1, TextExecuted
    <3>2. parsed[i - 1] \o Executed(texts[i]) \in Seq(Command)
      BY <3>1
    <3> QED
      BY <1>8, <3>2
  <2> QED
    BY <1>1, <1>8, <2>1, StepsStay
<1> QED
  BY <1>7, <1>8, <1>9 DEF n

(* No more than two of them are ever read at a time.                        *)
LEMMA FewServerCommands ==
  ASSUME NEW c \in ClientReading
  PROVE  /\ ParseServerCommands(c, <<>>) = c
         /\ \A a, b \in ServerCommand :
              ParseServerCommands(c, <<a, b>>) =
                ParseServerCommand(ParseServerCommand(c, a), b)
<1>1. ParseServerCommands(c, <<>>) = c
  <2> DEFINE none == <<>>
  <2>1. none \in Seq(ServerCommand)
    OBVIOUS
  <2>3. Len(none) = 0
    OBVIOUS
  <2> HIDE DEF none
  <2>2. PICK f : /\ f[0] = c
                 /\ \A i \in 1 .. Len(none) :
                      f[i] = ParseServerCommand(f[i - 1], none[i])
                 /\ ParseServerCommands(c, none) = f[Len(none)]
    BY <2>1, ServerCommandsParsed
  <2> QED
    BY <2>2, <2>3 DEF none
<1>2. ASSUME NEW a \in ServerCommand, NEW b \in ServerCommand
      PROVE  ParseServerCommands(c, <<a, b>>) =
               ParseServerCommand(ParseServerCommand(c, a), b)
  <2> DEFINE both == <<a, b>>
  <2>1. both \in Seq(ServerCommand) /\ Len(both) = 2
        /\ both[1] = a /\ both[2] = b
    OBVIOUS
  <2> HIDE DEF both
  <2>2. PICK f : /\ f[0] = c
                 /\ \A i \in 1 .. Len(both) :
                      f[i] = ParseServerCommand(f[i - 1], both[i])
                 /\ ParseServerCommands(c, both) = f[Len(both)]
    BY <2>1, ServerCommandsParsed
  <2>3. 1 \in 1 .. Len(both) /\ 2 \in 1 .. Len(both)
        /\ 1 - 1 = 0 /\ 2 - 1 = 1
    BY <2>1
  <2>4. f[1] = ParseServerCommand(f[0], a) /\ f[2] = ParseServerCommand(f[1], b)
    BY <2>1, <2>2, <2>3
  <2> QED
    BY <2>1, <2>2, <2>4 DEF both
<1> QED
  BY <1>1, <1>2

LEMMA FewClientCommands ==
  ASSUME NEW s \in ServerReading, spawn_count \in Levels
  PROVE  /\ ParseClientCommands(s, <<>>) = s
         /\ \A a \in Command :
              ParseClientCommands(s, <<a>>) = ParseClientCommand(s, a)
<1>1. ParseClientCommands(s, <<>>) = s
  <2> DEFINE none == <<>>
  <2>1. none \in Seq(Command)
    OBVIOUS
  <2>3. Len(none) = 0
    OBVIOUS
  <2> HIDE DEF none
  <2>2. PICK f : /\ f[0] = s
                 /\ \A i \in 1 .. Len(none) :
                      f[i] = ParseClientCommand(f[i - 1], none[i])
                 /\ ParseClientCommands(s, none) = f[Len(none)]
    BY <2>1, ClientCommandsParsed
  <2> QED
    BY <2>2, <2>3 DEF none
<1>2. ASSUME NEW a \in Command
      PROVE  ParseClientCommands(s, <<a>>) = ParseClientCommand(s, a)
  <2> DEFINE one == <<a>>
  <2>1. one \in Seq(Command) /\ Len(one) = 1 /\ one[1] = a
    OBVIOUS
  <2> HIDE DEF one
  <2>2. PICK f : /\ f[0] = s
                 /\ \A i \in 1 .. Len(one) :
                      f[i] = ParseClientCommand(f[i - 1], one[i])
                 /\ ParseClientCommands(s, one) = f[Len(one)]
    BY <2>1, ClientCommandsParsed
  <2>3. 1 \in 1 .. Len(one) /\ 1 - 1 = 0
    BY <2>1
  <2>4. f[1] = ParseClientCommand(f[0], a)
    BY <2>1, <2>2, <2>3
  <2> QED
    BY <2>1, <2>2, <2>4 DEF one
<1> QED
  BY <1>1, <1>2

LEMMA FewTexts ==
  /\ ExecutedAll(<<>>) = <<>>
  /\ \A t \in ClientText : ExecutedAll(<<t>>) = Executed(t)
<1>1. ExecutedAll(<<>>) = <<>>
  <2>1. <<>> \in Seq(ClientText) /\ Len(<<>>) = 0
    OBVIOUS
  <2>2. PICK f : /\ f[0] = <<>>
                 /\ ExecutedAll(<<>>) = f[0]
    BY <2>1, TextsExecuted
  <2> QED
    BY <2>2
<1>2. ASSUME NEW t \in ClientText
      PROVE  ExecutedAll(<<t>>) = Executed(t)
  <2> DEFINE one == <<t>>
  <2>1. one \in Seq(ClientText) /\ Len(one) = 1 /\ one[1] = t
    OBVIOUS
  <2> HIDE DEF one
  <2>2. PICK f : /\ f[0] = <<>>
                 /\ \A i \in 1 .. Len(one) :
                      f[i] = f[i - 1] \o Executed(one[i])
                 /\ ExecutedAll(one) = f[Len(one)]
    BY <2>1, TextsExecuted
  <2>3. 1 \in 1 .. Len(one) /\ 1 - 1 = 0
    BY <2>1
  <2>4. f[1] = <<>> \o Executed(t)
    BY <2>1, <2>2, <2>3
  <2>5. Executed(t) \in Seq(Command)
    BY TextExecuted
  <2>6. <<>> \o Executed(t) = Executed(t)
    BY <2>5
  <2> QED
    BY <2>1, <2>2, <2>4, <2>6 DEF one
<1> QED
  BY <1>1, <1>2

-----------------------------------------------------------------------------
(* What the two ends know of each other. *)

OutOfBandOps == {"get_challenge", "challenge", "connect", "client_connect"}

(* The last of what a channel has to say.                                   *)
Leaves(d) == d.op = "sequenced" /\ d.unreliable = Disconnect

(* The client will not have set its channel up anew when it reads the       *)
(* datagram at i.                                                           *)
CurrentIn(V, i) == \A j \in i .. Len(V) : V[j].op # "client_connect"
AnsweredIn(V) == \E j \in 1 .. Len(V) : V[j].op = "client_connect"

(* The datagrams of the server that a client that has accepted the one with *)
(* number n will accept.                                                    *)
ToClientIn(V, n) ==
  {d \in Range(V) :
     \E i \in 1 .. Len(V) :
       /\ d = V[i]
       /\ d.op = "sequenced"
       /\ d.unreliable # Disconnect
       /\ CurrentIn(V, i)
       /\ n < d.packet.sequence}

(* Those of the client, but for the last words of a former connection: they *)
(* can still arrive when the server has set its channel up anew.            *)
ResidualIn(W, n, i) ==
  /\ n = 0
  /\ \A j \in 1 .. i : W[j].op = "sequenced" => Leaves(W[j])
ToServerIn(W, n) ==
  {d \in Range(W) :
     \E i \in 1 .. Len(W) :
       /\ d = W[i]
       /\ d.op = "sequenced"
       /\ ~ResidualIn(W, n, i)
       /\ n < d.packet.sequence}

(* What comes from the server comes in order, and does not end.             *)
InOrder(V) ==
  \A i \in 1 .. Len(V) : CurrentIn(V, i) =>
    /\ ~Leaves(V[i])
    /\ \A j \in 1 .. Len(V) :
         /\ i < j
         /\ V[i].op = "sequenced"
         /\ V[j].op = "sequenced"
         => V[i].packet.sequence < V[j].packet.sequence

(* The last reliable message of c has reached r.                            *)
Got(c, r) == r.incoming_reliable_sequence = c.reliable_sequence

(* c may believe what the numbers and bits tell it of r, when P is what r   *)
(* will accept from c and Q what c will accept from r: NetChan's            *)
(* ParitySound, for one direction.                                          *)
Sequential(c, r, P, Q) ==
  /\ r.incoming_sequence < c.outgoing_sequence
  /\ c.last_reliable_sequence <= c.outgoing_sequence
  /\ c.incoming_acknowledged <= r.incoming_sequence
  /\ \A d \in P : /\ r.incoming_sequence < d.packet.sequence
                  /\ d.packet.sequence < c.outgoing_sequence
  /\ \A d \in Q : d.packet.ack <= r.incoming_sequence
OneCopy(c, r, P) ==
  \A d \in P :
    /\ d.packet.has_reliable => /\ d.packet.sequence + 1 = c.last_reliable_sequence
                                /\ ~Got(c, r)
                                /\ d.packet.payload = c.reliable
    /\ ~d.packet.has_reliable => d.packet.payload = <<>>
AcksTrue(c, r, Q) ==
  \A d \in Q :
    /\ d.packet.reliable_ack = c.reliable_sequence => Got(c, r)
    /\ d.packet.reliable_ack # c.reliable_sequence
         /\ d.packet.ack + 1 >= c.last_reliable_sequence => ~Got(c, r)
    /\ c.reliable = <<>> => d.packet.reliable_ack = c.reliable_sequence
    /\ \A q \in Q : /\ d.packet.sequence < q.packet.sequence
                    /\ d.packet.reliable_ack = c.reliable_sequence
                    => q.packet.reliable_ack = c.reliable_sequence
LastAckTrue(c, r) ==
  /\ c.incoming_reliable_acknowledged = c.reliable_sequence <=> c.reliable = <<>>
  /\ c.reliable = <<>> => Got(c, r)
  /\ c.reliable # <<>> /\ c.incoming_acknowledged + 1 >= c.last_reliable_sequence
       => ~Got(c, r)
Sound(c, r, P, Q) ==
  Sequential(c, r, P, Q) /\ OneCopy(c, r, P) /\ AcksTrue(c, r, Q) /\ LastAckTrue(c, r)

Unreceived(c, r) == IF Got(c, r) THEN <<>> ELSE c.reliable
Undelivered(c, r) == Unreceived(c, r) \o c.message

-----------------------------------------------------------------------------
(* The conversation: one command, one answer or one text at a time. *)

Answers ==
  {<<ServerData(l), Text(GetPart(l, 1))>> : l \in Levels} \cup
  {<<Part(l, k), Text(IF k < Parts THEN GetPart(l, k + 1) ELSE Precache(l))>> :
     l \in Levels, k \in 1 .. Parts}

(* The client has what it says, by its command or its text t, when it has   *)
(* the data D; and what it needs for the answer a.                          *)
Asks(t, D) ==
  CASE t.op = "new" -> TRUE
    [] t.op = "part" -> D = {t.level} \X (1 .. t.part - 1)
    [] OTHER -> D = Level(t.level)
Continues(a, D) ==
  a[1].op = "config_string" => D = {a[1].level} \X (1 .. a[1].part - 1)

(* Nothing more is said.                                                    *)
Silent(up, down, texts) == up = <<>> /\ down = <<>> /\ texts = <<>>

(* There is one command, answer or text at the most, and, when the client   *)
(* is present, it fits the data it has.                                     *)
Token(up, down, texts, present, D) ==
  \/ Silent(up, down, texts)
  \/ /\ down = <<>> /\ texts = <<>>
     /\ \E t \in Command : up = <<t>> /\ (present => Asks(t, D))
  \/ /\ up = <<>> /\ down = <<>>
     /\ \E t \in ClientText : /\ t.op \in {"part", "precache"}
                              /\ texts = <<t>>
                              /\ present => Asks(t, D)
  \/ /\ up = <<>> /\ texts = <<>>
     /\ down \in Answers
     /\ present => Continues(down, D)

(* Once the client is in the game, or is told that it is, all is said.      *)
Agreed(state, slot, level, P, silent, present, D) ==
  /\ slot = "active" => silent /\ (present => D = Level(level))
  /\ state = "active" => silent /\ \E l \in Levels : D = Level(l)
  /\ \A d \in P : d.unreliable.op = "frame" =>
       silent /\ (present => D = Level(d.unreliable.level))
  /\ slot = "connected" /\ present /\ ReconnectArrives =>
       ~silent \/ \E d \in P : d.unreliable = Reconnect

(* The same for a client whose slot is free, from what is still to arrive.  *)
Settled(P, message, texts) ==
  /\ \A d \in P : ~d.packet.has_reliable
  /\ message = <<>>
  /\ texts = <<>>
Orphaned(state, P, message, texts, D) ==
  /\ \A d \in P :
       /\ ~d.packet.has_reliable => d.packet.payload = <<>>
       /\ d.packet.has_reliable =>
            /\ message = <<>> /\ texts = <<>>
            /\ d.packet.payload \in Answers
            /\ Continues(d.packet.payload, D)
            /\ \A q \in P : q.packet.has_reliable =>
                 q.packet.sequence = d.packet.sequence
       /\ d.unreliable.op = "frame" =>
            Settled(P, message, texts) /\ D = Level(d.unreliable.level)
  /\ state = "active" =>
       Settled(P, message, texts) /\ \E l \in Levels : D = Level(l)

-----------------------------------------------------------------------------
(* The invariant. *)

(* The server has set its channel up, the client has not heard of it yet.   *)
Answered == AnsweredIn(wire["client"])
Present == InConversation \/ Answered

(* The client as it will be when it has.                                    *)
NewClientChannel == Written(NewChannel(TRUE), <<New>>)
ClientChannel == IF Answered THEN NewClientChannel ELSE chan["client"]
ClientTexts == IF Answered THEN <<>> ELSE cbuf
ToClient == ToClientIn(wire["client"], ClientChannel.incoming_sequence)
ToServer == ToServerIn(wire["server"], chan["server"].incoming_sequence)
Up == Undelivered(ClientChannel, chan["server"])
Down == Undelivered(chan["server"], ClientChannel)

Synced ==
  /\ sv_state # "free"
  /\ ClientChannel.open /\ chan["server"].open
  /\ Sound(ClientChannel, chan["server"], ToServer, ToClient)
  /\ Sound(chan["server"], ClientChannel, ToClient, ToServer)
  /\ {chan["server"].message, chan["server"].reliable} \subseteq {<<>>} \cup Answers
  /\ InOrder(wire["client"])
  /\ chan["server"].incoming_sequence = 0 => sv_state = "connected"
  /\ Token(Up, Down, ClientTexts, Present, data)
  /\ Agreed(cls_state, sv_state, spawn_count, ToClient,
            Silent(Up, Down, ClientTexts), Present, data)

(* The client has lost the answer to its connect, or has left.              *)
OnlyLeaves(W) == \A i \in 1 .. Len(W) : W[i].op = "sequenced" => Leaves(W[i])
Disengaged ==
  /\ sv_state = "connected"
  /\ ~Present
  /\ chan["server"].incoming_sequence = 0
  /\ OnlyLeaves(wire["server"])

Abandoned ==
  /\ sv_state = "free"
  /\ Present => Orphaned(cls_state, ToClient, ClientChannel.message,
                         ClientTexts, data)

Mode == Abandoned \/ Disengaged \/ Synced

Brief(W) ==
  \A i \in 1 .. Len(W) : W[i].op = "sequenced" => Len(W[i].packet.payload) <= 1
Small ==
  /\ Len(chan["client"].reliable) <= 1
  /\ Len(chan["client"].message) + Len(cbuf) <= 1
  /\ Brief(wire["server"])

(* One datagram of an attempt to connect is under way at the most, and none *)
(* of the client's last connection follows or survives it.                  *)
OneAttempt(V, W) ==
  /\ \A i, j \in 1 .. Len(V) :
       V[i].op \in OutOfBandOps /\ V[j].op \in OutOfBandOps => i = j
  /\ \A i, j \in 1 .. Len(W) :
       W[i].op \in OutOfBandOps /\ W[j].op \in OutOfBandOps => i = j
  /\ \A i \in 1 .. Len(V) : \A j \in 1 .. Len(W) :
       ~(V[i].op \in OutOfBandOps /\ W[j].op \in OutOfBandOps)
  /\ \A i, j \in 1 .. Len(W) : W[i].op = "get_challenge" /\ i < j => Leaves(W[j])
  /\ (\/ \E i \in 1 .. Len(V) : V[i].op \in OutOfBandOps
      \/ \E i \in 1 .. Len(W) : W[i].op = "connect")
       => OnlyLeaves(W)
Attempting(V, W) ==
  \/ \E i \in 1 .. Len(V) : V[i].op \in OutOfBandOps
  \/ \E i \in 1 .. Len(W) : W[i].op \in OutOfBandOps
Attempt ==
  /\ OneAttempt(wire["client"], wire["server"])
  /\ Attempting(wire["client"], wire["server"]) =>
       cls_state \in {"connecting", "disconnected"} /\ cbuf = <<>>

SessionInv ==
  /\ ~kicked
  /\ Small
  /\ Attempt
  /\ Mode

-----------------------------------------------------------------------------
(* What is sent, and what is under way afterwards. *)

DatagramOf(c, unreliable) ==
  [op |-> "sequenced", packet |-> PacketFrom(c), unreliable |-> unreliable]

LEMMA SequencedIs ==
  ASSUME NEW c, NEW u
  PROVE  Sequenced(c, u) = IF c.open THEN <<DatagramOf(c, u)>> ELSE <<>>
  BY Operators DEF Sequenced, DatagramOf

LEMMA SequencedTypes ==
  ASSUME NEW S, NEW U, NEW c \in ChannelOf(S), CanTransmit(c), NEW u \in U
  PROVE  /\ DatagramOf(c, u) \in SequencedOf(S, U)
         /\ Sequenced(c, u) \in Seq(SequencedOf(S, U))
<1>1. DatagramOf(c, u) \in SequencedOf(S, U)
  BY TransmittedTypes DEF DatagramOf, SequencedOf
<1>2. Sequenced(c, u) \in Seq(SequencedOf(S, U))
  <2>1. /\ <<DatagramOf(c, u)>> \in Seq(SequencedOf(S, U))
        /\ <<>> \in Seq(SequencedOf(S, U))
    BY <1>1
  <2> QED
    BY <2>1, SequencedIs
<1> QED
  BY <1>1, <1>2

LEMMA FromClientTypes ==
  ASSUME NEW c \in ChannelOf(Command), CanTransmit(c),
         NEW u \in {Nothing, Disconnect}
  PROVE  Sequenced(c, u) \in Seq(FromClient)
<1> DEFINE U == {Nothing, Disconnect}
<1>1. Sequenced(c, u) \in Seq(SequencedOf(Command, U))
  <2> HIDE DEF U
  <2> QED
    BY SequencedTypes DEF U
<1>2. SequencedOf(Command, U) \subseteq FromClient
  BY DEF FromClient
<1> HIDE DEF U
<1> QED
  BY <1>1, <1>2

LEMMA FromServerTypes ==
  ASSUME NEW c \in ChannelOf(ServerCommand), CanTransmit(c),
         NEW u \in {Nothing, Reconnect, Disconnect} \cup Frames
  PROVE  Sequenced(c, u) \in Seq(FromServer)
<1> DEFINE U == {Nothing, Reconnect, Disconnect} \cup Frames
<1>1. Sequenced(c, u) \in Seq(SequencedOf(ServerCommand, U))
  <2> HIDE DEF U
  <2> QED
    BY SequencedTypes DEF U
<1>2. SequencedOf(ServerCommand, U) \subseteq FromServer
  BY DEF FromServer
<1> HIDE DEF U
<1> QED
  BY <1>1, <1>2

LEMMA ClientSends ==
  ASSUME WireTypes, NEW datagrams \in Seq(FromClient), Send("client", datagrams)
  PROVE  /\ WireTypes'
         /\ wire'["client"] = wire["client"]
         /\ wire'["server"] = wire["server"] \o datagrams
<1>1. /\ Len(wire["server"]) + Len(datagrams) <= MaxWire
      /\ wire' = [wire EXCEPT !["server"] = wire["server"] \o datagrams]
  BY DEF Send, Peer
<1>2. "client" \in Endpoint /\ "server" \in Endpoint
      /\ Endpoint = {"client", "server"}
  BY DEF Endpoint
<1>3. /\ wire'["client"] = wire["client"]
      /\ wire'["server"] = wire["server"] \o datagrams
  BY <1>1, <1>2 DEF WireTypes
<1>4. wire'["client"] \in Seq(FromServer) /\ Len(wire'["client"]) <= MaxWire
  BY <1>2, <1>3 DEF WireTypes
<1>5. wire'["server"] \in Seq(FromClient) /\ Len(wire'["server"]) <= MaxWire
  <2>1. wire["server"] \in Seq(FromClient)
    BY DEF WireTypes
  <2>2. /\ wire["server"] \o datagrams \in Seq(FromClient)
        /\ Len(wire["server"] \o datagrams) = Len(wire["server"]) + Len(datagrams)
    BY <2>1
  <2> QED
    BY <1>1, <1>3, <2>2
<1>6. wire' \in [Endpoint -> Seq(FromServer) \cup Seq(FromClient)]
  BY <1>1, <1>2, <1>5, <1>3 DEF WireTypes
<1> QED
  BY <1>2, <1>3, <1>4, <1>5, <1>6 DEF WireTypes

LEMMA ServerSends ==
  ASSUME WireTypes, NEW datagrams \in Seq(FromServer), Send("server", datagrams)
  PROVE  /\ WireTypes'
         /\ wire'["server"] = wire["server"]
         /\ wire'["client"] = wire["client"] \o datagrams
<1>1. /\ Len(wire["client"]) + Len(datagrams) <= MaxWire
      /\ wire' = [wire EXCEPT !["client"] = wire["client"] \o datagrams]
  BY DEF Send, Peer
<1>2. "client" \in Endpoint /\ "server" \in Endpoint
      /\ Endpoint = {"client", "server"}
  BY DEF Endpoint
<1>3. /\ wire'["server"] = wire["server"]
      /\ wire'["client"] = wire["client"] \o datagrams
  BY <1>1, <1>2 DEF WireTypes
<1>4. wire'["server"] \in Seq(FromClient) /\ Len(wire'["server"]) <= MaxWire
  BY <1>2, <1>3 DEF WireTypes
<1>5. wire'["client"] \in Seq(FromServer) /\ Len(wire'["client"]) <= MaxWire
  <2>1. wire["client"] \in Seq(FromServer)
    BY DEF WireTypes
  <2>2. /\ wire["client"] \o datagrams \in Seq(FromServer)
        /\ Len(wire["client"] \o datagrams) = Len(wire["client"]) + Len(datagrams)
    BY <2>1
  <2> QED
    BY <1>1, <1>3, <2>2
<1>6. wire' \in [Endpoint -> Seq(FromServer) \cup Seq(FromClient)]
  BY <1>1, <1>2, <1>5, <1>3 DEF WireTypes
<1> QED
  BY <1>2, <1>3, <1>4, <1>5, <1>6 DEF WireTypes

LEMMA ClientReplies ==
  ASSUME WireTypes, NEW datagrams \in Seq(FromClient), Arrived("client"),
         Reply("client", datagrams)
  PROVE  /\ WireTypes'
         /\ wire'["client"] = Tail(wire["client"])
         /\ wire'["server"] = wire["server"] \o datagrams
         /\ Datagram("client") = wire["client"][1]
         /\ Datagram("client") \in FromServer
         /\ Len(wire["client"]) >= 1
<1>1. /\ Len(wire["server"]) + Len(datagrams) <= MaxWire
      /\ wire' = [wire EXCEPT !["client"] = Tail(wire["client"]),
                              !["server"] = wire["server"] \o datagrams]
      /\ wire["client"] # <<>>
  BY DEF Reply, Peer, Arrived
<1>2. "client" \in Endpoint /\ "server" \in Endpoint
      /\ Endpoint = {"client", "server"}
  BY DEF Endpoint
<1>3. /\ wire'["client"] = Tail(wire["client"])
      /\ wire'["server"] = wire["server"] \o datagrams
  BY <1>1, <1>2 DEF WireTypes
<1>4. wire'["client"] \in Seq(FromServer) /\ Len(wire'["client"]) <= MaxWire
  <2>1. wire["client"] \in Seq(FromServer) /\ Len(wire["client"]) <= MaxWire
        /\ MaxWire \in Nat
    BY <1>2, SessionAssumption DEF WireTypes
  <2>2. /\ Tail(wire["client"]) \in Seq(FromServer)
        /\ Len(Tail(wire["client"])) = Len(wire["client"]) - 1
    BY <1>1, <2>1
  <2>3. Len(wire["client"]) - 1 <= MaxWire
    BY <2>1
  <2> QED
    BY <1>3, <2>2, <2>3
<1>5. wire'["server"] \in Seq(FromClient) /\ Len(wire'["server"]) <= MaxWire
  <2>1. wire["server"] \in Seq(FromClient)
    BY DEF WireTypes
  <2>2. /\ wire["server"] \o datagrams \in Seq(FromClient)
        /\ Len(wire["server"] \o datagrams) = Len(wire["server"]) + Len(datagrams)
    BY <2>1
  <2> QED
    BY <1>1, <1>3, <2>2
<1>6. wire' \in [Endpoint -> Seq(FromServer) \cup Seq(FromClient)]
  <2>1. /\ Tail(wire["client"]) \in Seq(FromServer) \cup Seq(FromClient)
        /\ wire["server"] \o datagrams \in Seq(FromServer) \cup Seq(FromClient)
    BY <1>3, <1>4, <1>5
  <2> QED
    BY <1>1, <1>2, <2>1 DEF WireTypes
<1>7. WireTypes'
  BY <1>2, <1>4, <1>5, <1>6 DEF WireTypes
<1>8. /\ Datagram("client") = wire["client"][1]
      /\ Datagram("client") \in FromServer
      /\ Len(wire["client"]) >= 1
  <2>1. wire["client"] \in Seq(FromServer)
    BY DEF WireTypes
  <2> QED
    BY <1>1, <2>1 DEF Datagram
<1> QED
  BY <1>3, <1>7, <1>8

LEMMA ServerReplies ==
  ASSUME WireTypes, NEW datagrams \in Seq(FromServer), Arrived("server"),
         Reply("server", datagrams)
  PROVE  /\ WireTypes'
         /\ wire'["server"] = Tail(wire["server"])
         /\ wire'["client"] = wire["client"] \o datagrams
         /\ Datagram("server") = wire["server"][1]
         /\ Datagram("server") \in FromClient
         /\ Len(wire["server"]) >= 1
<1>1. /\ Len(wire["client"]) + Len(datagrams) <= MaxWire
      /\ wire' = [wire EXCEPT !["server"] = Tail(wire["server"]),
                              !["client"] = wire["client"] \o datagrams]
      /\ wire["server"] # <<>>
  BY DEF Reply, Peer, Arrived
<1>2. "client" \in Endpoint /\ "server" \in Endpoint
      /\ Endpoint = {"client", "server"}
  BY DEF Endpoint
<1>3. /\ wire'["server"] = Tail(wire["server"])
      /\ wire'["client"] = wire["client"] \o datagrams
  BY <1>1, <1>2 DEF WireTypes
<1>4. wire'["server"] \in Seq(FromClient) /\ Len(wire'["server"]) <= MaxWire
  <2>1. wire["server"] \in Seq(FromClient) /\ Len(wire["server"]) <= MaxWire
        /\ MaxWire \in Nat
    BY <1>2, SessionAssumption DEF WireTypes
  <2>2. /\ Tail(wire["server"]) \in Seq(FromClient)
        /\ Len(Tail(wire["server"])) = Len(wire["server"]) - 1
    BY <1>1, <2>1
  <2>3. Len(wire["server"]) - 1 <= MaxWire
    BY <2>1
  <2> QED
    BY <1>3, <2>2, <2>3
<1>5. wire'["client"] \in Seq(FromServer) /\ Len(wire'["client"]) <= MaxWire
  <2>1. wire["client"] \in Seq(FromServer)
    BY DEF WireTypes
  <2>2. /\ wire["client"] \o datagrams \in Seq(FromServer)
        /\ Len(wire["client"] \o datagrams) = Len(wire["client"]) + Len(datagrams)
    BY <2>1
  <2> QED
    BY <1>1, <1>3, <2>2
<1>6. wire' \in [Endpoint -> Seq(FromServer) \cup Seq(FromClient)]
  <2>1. /\ Tail(wire["server"]) \in Seq(FromServer) \cup Seq(FromClient)
        /\ wire["client"] \o datagrams \in Seq(FromServer) \cup Seq(FromClient)
    BY <1>3, <1>4, <1>5
  <2> QED
    BY <1>1, <1>2, <2>1 DEF WireTypes
<1>7. WireTypes'
  BY <1>2, <1>4, <1>5, <1>6 DEF WireTypes
<1>8. /\ Datagram("server") = wire["server"][1]
      /\ Datagram("server") \in FromClient
      /\ Len(wire["server"]) >= 1
  <2>1. wire["server"] \in Seq(FromClient)
    BY DEF WireTypes
  <2> QED
    BY <1>1, <2>1 DEF Datagram
<1> QED
  BY <1>3, <1>7, <1>8

(* One channel is replaced, the other one stays.                            *)
LEMMA ClientChannelSet ==
  ASSUME ChannelTypes, NEW c \in ChannelOf(Command),
         chan' = [chan EXCEPT !["client"] = c]
  PROVE  /\ ChannelTypes'
         /\ chan'["client"] = c
         /\ chan'["server"] = chan["server"]
<1>1. "client" \in Endpoint /\ "server" \in Endpoint
  BY DEF Endpoint
<1>2. chan'["client"] = c /\ chan'["server"] = chan["server"]
  BY <1>1 DEF ChannelTypes
<1>3. chan' \in [Endpoint -> ChannelOf(Command) \cup ChannelOf(ServerCommand)]
  BY <1>1 DEF ChannelTypes
<1> QED
  BY <1>2, <1>3 DEF ChannelTypes

LEMMA ServerChannelSet ==
  ASSUME ChannelTypes, NEW c \in ChannelOf(ServerCommand),
         chan' = [chan EXCEPT !["server"] = c]
  PROVE  /\ ChannelTypes'
         /\ chan'["server"] = c
         /\ chan'["client"] = chan["client"]
<1>1. "client" \in Endpoint /\ "server" \in Endpoint
  BY DEF Endpoint
<1>2. chan'["server"] = c /\ chan'["client"] = chan["client"]
  BY <1>1 DEF ChannelTypes
<1>3. chan' \in [Endpoint -> ChannelOf(Command) \cup ChannelOf(ServerCommand)]
  BY <1>1 DEF ChannelTypes
<1> QED
  BY <1>2, <1>3 DEF ChannelTypes

-----------------------------------------------------------------------------
(* What every action does, and that it keeps the types. *)

LEMMA NothingSent ==
  ASSUME WireTypes
  PROVE  /\ wire["client"] \o <<>> = wire["client"]
         /\ wire["server"] \o <<>> = wire["server"]
         /\ <<>> \in Seq(FromClient) /\ <<>> \in Seq(FromServer)
  BY DEF WireTypes

LEMMA LoseIs ==
  ASSUME Types, NEW e \in Endpoint, Lose(e)
  PROVE  /\ Types'
         /\ UNCHANGED <<client, server, chan, history>>
         /\ \/ /\ Len(wire["client"]) >= 1
               /\ wire'["client"] = Tail(wire["client"])
               /\ wire'["server"] = wire["server"]
               /\ ReconnectArrives => ~(/\ wire["client"][1].op = "sequenced"
                                        /\ wire["client"][1].unreliable = Reconnect)
            \/ /\ Len(wire["server"]) >= 1
               /\ wire'["server"] = Tail(wire["server"])
               /\ wire'["client"] = wire["client"]
<1>1. UNCHANGED <<client, server, chan, history>>
  BY DEF Lose
<1>2. CASE e = "client"
  <2>1. /\ WireTypes'
        /\ wire'["client"] = Tail(wire["client"])
        /\ wire'["server"] = wire["server"]
        /\ Datagram("client") = wire["client"][1]
        /\ Len(wire["client"]) >= 1
    BY <1>2, ClientReplies, NothingSent DEF Lose, Types
  <2> QED
    BY <1>1, <1>2, <2>1 DEF Lose, Types, ClientTypes, ServerTypes, ChannelTypes,
       HistoryTypes, client, server, history
<1>3. CASE e = "server"
  <2>1. /\ WireTypes'
        /\ wire'["server"] = Tail(wire["server"])
        /\ wire'["client"] = wire["client"]
        /\ Len(wire["server"]) >= 1
    BY <1>3, ServerReplies, NothingSent DEF Lose, Types
  <2> QED
    BY <1>1, <2>1 DEF Types, ClientTypes, ServerTypes, ChannelTypes,
       HistoryTypes, client, server, history
<1> QED
  BY <1>2, <1>3 DEF Endpoint

(* The texts are executed by a client with channel c.                       *)
ExecutedBy(c) ==
  IF cls_state = "disconnected" THEN c ELSE Written(c, ExecutedAll(cbuf))

LEMMA CbufIs ==
  ASSUME Types, NEW c \in ChannelOf(Command), Cbuf_Execute(c)
  PROVE  /\ cbuf' = <<>>
         /\ cbuf' \in Seq(ClientText)
         /\ chan'["client"] = ExecutedBy(c)
         /\ chan'["server"] = chan["server"]
         /\ ChannelTypes'
         /\ ExecutedAll(cbuf) \in Seq(Command)
<1>1. ExecutedAll(cbuf) \in Seq(Command)
  <2>1. cbuf \in Seq(ClientText)
    BY DEF Types, ClientTypes
  <2>2. PICK f : /\ \A i \in 0 .. Len(cbuf) : f[i] \in Seq(Command)
                 /\ ExecutedAll(cbuf) = f[Len(cbuf)]
    BY <2>1, TextsExecuted
  <2> QED
    BY <2>1, <2>2
<1>2. ExecutedBy(c) \in ChannelOf(Command)
  BY <1>1, MessageTypes DEF ExecutedBy
<1>3. chan' = [chan EXCEPT !["client"] = ExecutedBy(c)] /\ cbuf' = <<>>
  BY DEF Cbuf_Execute, ExecutedBy
<1>4. ChannelTypes
  BY DEF Types
<1>5. cbuf' \in Seq(ClientText)
  BY <1>3
<1>6. /\ ChannelTypes'
      /\ chan'["client"] = ExecutedBy(c)
      /\ chan'["server"] = chan["server"]
  BY <1>2, <1>3, <1>4, ClientChannelSet
<1> QED
  BY <1>1, <1>3, <1>5, <1>6

LEMMA RenderFrameIs ==
  ASSUME Types, RenderFrame
  PROVE  /\ Types'
         /\ cbuf # <<>> /\ cbuf' = <<>>
         /\ chan'["client"] = ExecutedBy(chan["client"])
         /\ chan'["server"] = chan["server"]
         /\ UNCHANGED <<cls_state, data, server, wire, history>>
<1>1. chan["client"] \in ChannelOf(Command)
  BY DEF Types, ChannelTypes
<1>2. /\ cbuf' = <<>>
      /\ cbuf' \in Seq(ClientText)
      /\ chan'["client"] = ExecutedBy(chan["client"])
      /\ chan'["server"] = chan["server"]
      /\ ChannelTypes'
  BY <1>1, CbufIs DEF RenderFrame
<1> QED
  BY <1>2 DEF RenderFrame, Types, ClientTypes, ServerTypes, WireTypes,
     HistoryTypes, server, history

LEMMA SendCmdIs ==
  ASSUME Types, Cl_SendCmd
  PROVE  /\ Types'
         /\ cls_state \in {"connected", "active"}
         /\ CanTransmit(chan["client"])
         /\ cbuf' = <<>>
         /\ chan'["client"] = ExecutedBy(Transmitted(chan["client"]))
         /\ chan'["server"] = chan["server"]
         /\ wire'["client"] = wire["client"]
         /\ wire'["server"] =
              wire["server"] \o Sequenced(chan["client"], Nothing)
         /\ UNCHANGED <<cls_state, data, server, history>>
<1>1. chan["client"] \in ChannelOf(Command) /\ CanTransmit(chan["client"])
  BY DEF Types, ChannelTypes, Cl_SendCmd
<1>2. Transmitted(chan["client"]) \in ChannelOf(Command)
  BY <1>1, TransmittedTypes
<1>3. /\ cbuf' = <<>>
      /\ cbuf' \in Seq(ClientText)
      /\ chan'["client"] = ExecutedBy(Transmitted(chan["client"]))
      /\ chan'["server"] = chan["server"]
      /\ ChannelTypes'
  BY <1>2, CbufIs DEF Cl_SendCmd
<1>4. Sequenced(chan["client"], Nothing) \in Seq(FromClient)
  BY <1>1, FromClientTypes
<1>5. /\ WireTypes'
      /\ wire'["client"] = wire["client"]
      /\ wire'["server"] = wire["server"] \o Sequenced(chan["client"], Nothing)
  BY <1>4, ClientSends DEF Cl_SendCmd, Types
<1> QED
  BY <1>1, <1>3, <1>5 DEF Cl_SendCmd, Types, ClientTypes, ServerTypes,
     HistoryTypes, server, history

LEMMA CheckForResendIs ==
  ASSUME Types, Cl_CheckForResend
  PROVE  /\ Types'
         /\ cls_state = "connecting"
         /\ Patient => ~Connecting
         /\ cbuf' = <<>>
         /\ chan'["client"] = ExecutedBy(chan["client"])
         /\ chan'["server"] = chan["server"]
         /\ wire'["client"] = wire["client"]
         /\ wire'["server"] =
              wire["server"] \o <<OutOfBand("get_challenge", 0)>>
         /\ UNCHANGED <<cls_state, data, server, kicked>>
<1>1. chan["client"] \in ChannelOf(Command)
  BY DEF Types, ChannelTypes
<1>2. /\ cbuf' = <<>>
      /\ cbuf' \in Seq(ClientText)
      /\ chan'["client"] = ExecutedBy(chan["client"])
      /\ chan'["server"] = chan["server"]
      /\ ChannelTypes'
  BY <1>1, CbufIs DEF Cl_CheckForResend
<1>3. <<OutOfBand("get_challenge", 0)>> \in Seq(FromClient)
  BY DEF OutOfBand, FromClient, OutOfBandOf, Numbers, Used
<1>4. /\ WireTypes'
      /\ wire'["client"] = wire["client"]
      /\ wire'["server"] = wire["server"] \o <<OutOfBand("get_challenge", 0)>>
  BY <1>3, ClientSends DEF Cl_CheckForResend, Types
<1>5. requests' \in 0 .. MaxRequests
  BY SessionAssumption DEF Cl_CheckForResend, Types, HistoryTypes
<1> QED
  BY <1>2, <1>4, <1>5 DEF Cl_CheckForResend, Types, ClientTypes, ServerTypes,
     HistoryTypes, server

LEMMA ConnectIs ==
  ASSUME Types, Cl_Connect_f
  PROVE  /\ Types'
         /\ cls_state = "disconnected" /\ cls_state' = "connecting"
         /\ UNCHANGED <<data, cbuf, server, chan, wire, history>>
  BY DEF Cl_Connect_f, Types, ClientTypes, ServerTypes, ChannelTypes,
     WireTypes, HistoryTypes, server, history, ClientStates

(* Cl_Disconnect of a client with channel c.                                *)
Left(c) == [Transmitted(c) EXCEPT !.message = <<>>]

LEMMA DisconnectIs ==
  ASSUME Types, NEW c \in ChannelOf(Command), DisconnectFrom(c)
  PROVE  /\ ClientTypes' /\ ServerTypes' /\ ChannelTypes' /\ HistoryTypes'
         /\ CanTransmit(c)
         /\ cls_state' = "disconnected" /\ data' = {} /\ cbuf' = <<>>
         /\ chan'["client"] = Left(c)
         /\ chan'["server"] = chan["server"]
         /\ UNCHANGED <<server, kicked>>
<1>1. Left(c) \in ChannelOf(Command)
  <2>1. Transmitted(c) \in ChannelOf(Command) /\ <<>> \in Seq(Command)
    BY TransmittedTypes DEF DisconnectFrom
  <2> QED
    BY <2>1, MessageTypes DEF Left
<1>2. /\ chan'["client"] = Left(c)
      /\ chan'["server"] = chan["server"]
      /\ ChannelTypes'
  BY <1>1, ClientChannelSet DEF Types, DisconnectFrom, Left
<1>3. ClientTypes'
  BY DEF DisconnectFrom, ClientTypes, ClientStates
<1>4. ServerTypes'
  BY DEF DisconnectFrom, ServerTypes, Types, server
<1>5. HistoryTypes'
  BY SessionAssumption DEF DisconnectFrom, HistoryTypes, Types
<1> QED
  BY <1>2, <1>3, <1>4, <1>5 DEF DisconnectFrom

LEMMA ClDisconnectIs ==
  ASSUME Types, Cl_Disconnect
  PROVE  /\ Types'
         /\ cls_state' = "disconnected" /\ data' = {} /\ cbuf' = <<>>
         /\ cbuf = <<>>
         /\ CanTransmit(chan["client"])
         /\ chan'["client"] = Left(chan["client"])
         /\ chan'["server"] = chan["server"]
         /\ wire'["client"] = wire["client"]
         /\ wire'["server"] =
              wire["server"] \o Sequenced(chan["client"], Disconnect)
         /\ UNCHANGED <<server, kicked>>
<1>1. chan["client"] \in ChannelOf(Command)
  BY DEF Types, ChannelTypes
<1>2. /\ ClientTypes' /\ ServerTypes' /\ ChannelTypes' /\ HistoryTypes'
      /\ cls_state' = "disconnected" /\ data' = {} /\ cbuf' = <<>>
      /\ CanTransmit(chan["client"])
      /\ chan'["client"] = Left(chan["client"])
      /\ chan'["server"] = chan["server"]
      /\ UNCHANGED <<server, kicked>>
  BY <1>1, DisconnectIs DEF Cl_Disconnect
<1>3. Sequenced(chan["client"], Disconnect) \in Seq(FromClient)
  BY <1>1, <1>2, FromClientTypes
<1>4. /\ WireTypes'
      /\ wire'["client"] = wire["client"]
      /\ wire'["server"] =
           wire["server"] \o Sequenced(chan["client"], Disconnect)
  BY <1>3, ClientSends DEF Cl_Disconnect, Types
<1> QED
  BY <1>2, <1>4 DEF Cl_Disconnect, Types

LEMMA ChallengeIs ==
  ASSUME Types, Cl_Challenge
  PROVE  /\ Types'
         /\ UNCHANGED <<client, server, chan, history>>
         /\ Len(wire["client"]) >= 1
         /\ wire["client"][1].op = "challenge"
         /\ wire'["client"] = Tail(wire["client"])
         /\ \/ /\ cls_state = "connecting"
               /\ \E n \in Numbers :
                    wire'["server"] = wire["server"] \o <<OutOfBand("connect", n)>>
            \/ wire'["server"] = wire["server"]
<1> DEFINE d == Datagram("client")
           sent == IF cls_state = "connecting"
                     THEN <<OutOfBand("connect", d.value)>> ELSE <<>>
<1>1. d.op = "challenge" /\ Arrived("client") /\ Reply("client", sent)
  BY DEF Cl_Challenge
<1>2. d \in FromServer
  BY <1>1 DEF Arrived, Datagram, Types, WireTypes
<1>3. d.value \in Numbers
  BY <1>1, <1>2 DEF FromServer, OutOfBandOf, SequencedOf
<1>4. sent \in Seq(FromClient)
  <2>1. OutOfBand("connect", d.value) \in FromClient
    BY <1>3 DEF OutOfBand, FromClient, OutOfBandOf
  <2> QED
    BY <2>1
<1>5. /\ WireTypes'
      /\ wire'["client"] = Tail(wire["client"])
      /\ wire'["server"] = wire["server"] \o sent
      /\ d = wire["client"][1]
      /\ Len(wire["client"]) >= 1
  <2> HIDE DEF sent
  <2> QED
    BY <1>1, <1>4, ClientReplies DEF Types
<1>6. \/ /\ cls_state = "connecting"
         /\ \E n \in Numbers :
              wire'["server"] = wire["server"] \o <<OutOfBand("connect", n)>>
      \/ wire'["server"] = wire["server"]
  <2>1. CASE cls_state = "connecting"
    BY <2>1, <1>3, <1>5
  <2>2. CASE cls_state # "connecting"
    <3>1. sent = <<>>
      BY <2>2
    <3> HIDE DEF sent
    <3> QED
      BY <3>1, <1>5, NothingSent DEF Types
  <2> QED
    BY <2>1, <2>2
<1>7. UNCHANGED <<client, server, chan, history>>
  BY DEF Cl_Challenge
<1>8. Types'
  BY <1>5, <1>7 DEF Types, ClientTypes, ServerTypes, ChannelTypes,
     HistoryTypes, client, server, history
<1> QED
  BY <1>1, <1>5, <1>6, <1>7, <1>8

LEMMA NewClientChannelIs ==
  /\ NewClientChannel \in ChannelOf(Command)
  /\ NewClientChannel = [NewChannel(TRUE) EXCEPT !.message = <<New>>]
<1>1. NewChannel(TRUE) \in ChannelOf(Command)
  BY NewChannelTypes
<1>2. <<New>> \in Seq(Command)
  BY DEF Command
<1>3. NewChannel(TRUE).message \o <<New>> = <<New>>
  <2>1. <<>> \o <<New>> = <<New>>
    BY <1>2
  <2> QED
    BY <2>1 DEF NewChannel
<1>4. NewClientChannel \in ChannelOf(Command)
  BY <1>1, <1>2, MessageTypes DEF NewClientChannel
<1> QED
  BY <1>3, <1>4 DEF NewClientChannel, Written

LEMMA ClientConnectIs ==
  ASSUME Types, Cl_ClientConnect
  PROVE  /\ Types'
         /\ Len(wire["client"]) >= 1
         /\ wire["client"][1].op = "client_connect"
         /\ wire'["client"] = Tail(wire["client"])
         /\ wire'["server"] = wire["server"]
         /\ UNCHANGED <<data, cbuf, server, history>>
         /\ IF cls_state = "connected"
              THEN UNCHANGED <<cls_state, chan>>
              ELSE /\ chan'["client"] = NewClientChannel
                   /\ chan'["server"] = chan["server"]
                   /\ cls_state' = "connected"
<1>1. /\ WireTypes'
      /\ wire'["client"] = Tail(wire["client"])
      /\ wire'["server"] = wire["server"]
      /\ Datagram("client") = wire["client"][1]
      /\ Len(wire["client"]) >= 1
      /\ Datagram("client").op = "client_connect"
  BY ClientReplies, NothingSent DEF Cl_ClientConnect, Types
<1>2. UNCHANGED <<data, cbuf, server, history>>
  BY DEF Cl_ClientConnect
<1>3. /\ IF cls_state = "connected"
           THEN UNCHANGED <<cls_state, chan>>
           ELSE /\ chan'["client"] = NewClientChannel
                /\ chan'["server"] = chan["server"]
                /\ cls_state' = "connected"
      /\ ChannelTypes'
      /\ cls_state' \in ClientStates
  <2>1. CASE cls_state = "connected"
    BY <2>1 DEF Cl_ClientConnect, IgnoresConnect, Types, ChannelTypes,
       ClientTypes
  <2>2. CASE cls_state # "connected"
    <3>1. /\ chan' = [chan EXCEPT !["client"] = NewClientChannel]
          /\ cls_state' = "connected"
      BY <2>2 DEF Cl_ClientConnect, IgnoresConnect, NewClientChannel
    <3> QED
      BY <2>2, <3>1, NewClientChannelIs, ClientChannelSet DEF Types, ClientStates
  <2> QED
    BY <2>1, <2>2
<1>4. Types'
  BY <1>1, <1>2, <1>3 DEF Types, ClientTypes, ServerTypes, HistoryTypes,
     server, history
<1> QED
  BY <1>1, <1>2, <1>3, <1>4

(* The client with a datagram of the server read, and its commands parsed.  *)
ClientReads == Processed(chan["client"], Datagram("client").packet)
ClientParsed ==
  ParseServerCommands([state |-> cls_state, data |-> data, cbuf |-> cbuf,
                       message |-> chan["client"].message],
                      Datagram("client").packet.payload)
ClientAccepts ==
  /\ InConversation
  /\ chan["client"].incoming_sequence < Datagram("client").packet.sequence

LEMMA FromServerIs ==
  ASSUME WireTypes, Arrived("client"), Datagram("client").op = "sequenced"
  PROVE  /\ Datagram("client").packet \in PacketOf(ServerCommand)
         /\ Datagram("client").unreliable \in
              {Nothing, Reconnect, Disconnect} \cup Frames
<1>1. Datagram("client") \in FromServer
  BY DEF Arrived, Datagram, WireTypes
<1> DEFINE d == Datagram("client")
           U == {Nothing, Reconnect, Disconnect} \cup Frames
<1>2. d \notin OutOfBandOf({"challenge", "client_connect"})
  BY DEF OutOfBandOf
<1>3. d \in SequencedOf(ServerCommand, U)
  BY <1>1, <1>2 DEF FromServer
<1> HIDE DEF U, d
<1>4. d.packet \in PacketOf(ServerCommand) /\ d.unreliable \in U
  BY <1>3 DEF SequencedOf
<1> QED
  BY <1>4 DEF U, d

LEMMA FromClientIs ==
  ASSUME WireTypes, Arrived("server"), Datagram("server").op = "sequenced"
  PROVE  /\ Datagram("server").packet \in PacketOf(Command)
         /\ Datagram("server").unreliable \in {Nothing, Disconnect}
<1>1. Datagram("server") \in FromClient
  BY DEF Arrived, Datagram, WireTypes
<1> DEFINE d == Datagram("server")
           U == {Nothing, Disconnect}
<1>2. d \notin OutOfBandOf({"get_challenge", "connect"})
  BY DEF OutOfBandOf
<1>3. d \in SequencedOf(Command, U)
  BY <1>1, <1>2 DEF FromClient
<1> HIDE DEF U, d
<1>4. d.packet \in PacketOf(Command) /\ d.unreliable \in U
  BY <1>3 DEF SequencedOf
<1> QED
  BY <1>4 DEF U, d

LEMMA ClientReadsIs ==
  ASSUME Types, Arrived("client"), Datagram("client").op = "sequenced"
  PROVE  /\ ClientReads \in ChannelOf(Command)
         /\ ClientReads.message = chan["client"].message
         /\ ClientParsed \in ClientReading
<1>1. /\ Datagram("client").packet \in PacketOf(ServerCommand)
      /\ chan["client"] \in ChannelOf(Command)
  BY FromServerIs DEF Types, ChannelTypes
<1>2. ClientReads \in ChannelOf(Command)
  BY <1>1, ProcessedTypes DEF ClientReads
<1>3. ClientReads.message = chan["client"].message
  BY <1>1, ProcessedFields DEF ClientReads
<1>4. ClientParsed \in ClientReading
  <2> DEFINE c == [state |-> cls_state, data |-> data, cbuf |-> cbuf,
                   message |-> chan["client"].message]
             commands == Datagram("client").packet.payload
  <2>1. chan["client"].message \in Seq(Command)
    BY <1>1 DEF ChannelOf
  <2>2. c \in ClientReading
    BY <2>1 DEF ClientReading, Types, ClientTypes
  <2>3. commands \in Seq(ServerCommand)
    BY <1>1 DEF PacketOf
  <2>4. ClientParsed = ParseServerCommands(c, commands)
    BY DEF ClientParsed
  <2> HIDE DEF c, commands
  <2>5. PICK f : /\ \A i \in 0 .. Len(commands) : f[i] \in ClientReading
                 /\ ParseServerCommands(c, commands) = f[Len(commands)]
    BY <2>2, <2>3, ServerCommandsParsed
  <2>6. Len(commands) \in 0 .. Len(commands)
    BY <2>3
  <2> QED
    BY <2>4, <2>5, <2>6
<1> QED
  BY <1>2, <1>3, <1>4

LEMMA ReadPacketIs ==
  ASSUME Types, Cl_ReadPacket
  PROVE  /\ Types'
         /\ Arrived("client")
         /\ Len(wire["client"]) >= 1
         /\ Datagram("client") = wire["client"][1]
         /\ Datagram("client").op = "sequenced"
         /\ wire'["client"] = Tail(wire["client"])
         /\ \/ /\ ~ClientAccepts
               /\ wire'["server"] = wire["server"]
               /\ UNCHANGED <<client, server, chan, history>>
            \/ /\ ClientAccepts
               /\ Datagram("client").unreliable = Disconnect
               /\ CanTransmit(ClientReads)
               /\ wire'["server"] =
                    wire["server"] \o Sequenced(ClientReads, Disconnect)
               /\ cls_state' = "disconnected" /\ data' = {} /\ cbuf' = <<>>
               /\ chan'["client"] = Left(ClientReads)
               /\ chan'["server"] = chan["server"]
               /\ UNCHANGED <<server, kicked>>
            \/ /\ ClientAccepts
               /\ Datagram("client").unreliable # Disconnect
               /\ wire'["server"] = wire["server"]
               /\ chan'["client"] =
                    [ClientReads EXCEPT !.message = ClientParsed.message]
               /\ chan'["server"] = chan["server"]
               /\ cls_state' = ParseUnreliable(ClientParsed.state,
                                               Datagram("client").unreliable)
               /\ data' = ClientParsed.data
               /\ cbuf' = ClientParsed.cbuf
               /\ UNCHANGED <<server, history>>
<1> DEFINE d == Datagram("client")
<1>1. Arrived("client") /\ d.op = "sequenced"
  BY DEF Cl_ReadPacket
<1>2. /\ ClientReads \in ChannelOf(Command)
      /\ ClientReads.message = chan["client"].message
      /\ ClientParsed \in ClientReading
  BY <1>1, ClientReadsIs
<1>3. ClientAccepts <=> /\ cls_state \in {"connected", "active"}
                        /\ NC(chan["client"])!Fresh(Self, d.packet)
  <2>1. NC(chan["client"])!Fresh(Self, d.packet) <=>
          d.packet.sequence > chan["client"].incoming_sequence
    BY Operators
  <2>2. /\ d.packet.sequence \in Int
        /\ chan["client"].incoming_sequence \in Int
    <3>1. d.packet \in PacketOf(ServerCommand) /\ chan["client"] \in ChannelOf(Command)
      BY <1>1, FromServerIs DEF Types, ChannelTypes
    <3> QED
      BY <3>1 DEF PacketOf, ChannelOf
  <2> QED
    BY <2>1, <2>2 DEF ClientAccepts, InConversation
<1>4. CASE ~ClientAccepts
  <2>1. Reply("client", <<>>) /\ UNCHANGED <<client, server, chan, history>>
    BY <1>3, <1>4 DEF Cl_ReadPacket
  <2>2. /\ WireTypes'
        /\ wire'["client"] = Tail(wire["client"])
        /\ wire'["server"] = wire["server"]
        /\ d = wire["client"][1]
        /\ Len(wire["client"]) >= 1
    BY <1>1, <2>1, ClientReplies, NothingSent DEF Types
  <2>3. Types'
    BY <2>1, <2>2 DEF Types, ClientTypes, ServerTypes, ChannelTypes,
       HistoryTypes, client, server, history
  <2> QED
    BY <1>1, <1>4, <2>1, <2>2, <2>3
<1>5. CASE ClientAccepts /\ d.unreliable = Disconnect
  <2>1. /\ Reply("client", Sequenced(ClientReads, Disconnect))
        /\ DisconnectFrom(ClientReads)
    BY <1>3, <1>5 DEF Cl_ReadPacket, ClientReads
  <2>2. /\ ClientTypes' /\ ServerTypes' /\ ChannelTypes' /\ HistoryTypes'
        /\ CanTransmit(ClientReads)
        /\ cls_state' = "disconnected" /\ data' = {} /\ cbuf' = <<>>
        /\ chan'["client"] = Left(ClientReads)
        /\ chan'["server"] = chan["server"]
        /\ UNCHANGED <<server, kicked>>
    BY <1>2, <2>1, DisconnectIs
  <2>3. Sequenced(ClientReads, Disconnect) \in Seq(FromClient)
    BY <1>2, <2>2, FromClientTypes
  <2>4. /\ WireTypes'
        /\ wire'["client"] = Tail(wire["client"])
        /\ wire'["server"] =
             wire["server"] \o Sequenced(ClientReads, Disconnect)
        /\ d = wire["client"][1]
        /\ Len(wire["client"]) >= 1
    BY <1>1, <2>1, <2>3, ClientReplies DEF Types
  <2>5. Types'
    BY <2>2, <2>4 DEF Types
  <2> QED
    BY <1>1, <1>5, <2>2, <2>4, <2>5
<1>6. CASE ClientAccepts /\ d.unreliable # Disconnect
  <2>1. /\ Reply("client", <<>>)
        /\ chan' = [chan EXCEPT !["client"] =
                      [ClientReads EXCEPT !.message = ClientParsed.message]]
        /\ cls_state' = ParseUnreliable(ClientParsed.state, d.unreliable)
        /\ data' = ClientParsed.data
        /\ cbuf' = ClientParsed.cbuf
        /\ UNCHANGED <<server, history>>
    <3>1. ClientParsed = ParseServerCommands(
                     [state |-> cls_state, data |-> data, cbuf |-> cbuf,
                      message |-> ClientReads.message], d.packet.payload)
      BY <1>2 DEF ClientParsed
    <3> QED
      BY <1>3, <1>6, <3>1 DEF Cl_ReadPacket, ClientReads
  <2>2. /\ WireTypes'
        /\ wire'["client"] = Tail(wire["client"])
        /\ wire'["server"] = wire["server"]
        /\ d = wire["client"][1]
        /\ Len(wire["client"]) >= 1
    BY <1>1, <2>1, ClientReplies, NothingSent DEF Types
  <2>3. /\ ClientParsed.state \in ClientStates
        /\ ClientParsed.data \in SUBSET (Levels \X (1 .. Parts))
        /\ ClientParsed.cbuf \in Seq(ClientText)
        /\ ClientParsed.message \in Seq(Command)
    <3> HIDE DEF d
    <3> QED
      BY <1>2 DEF ClientReading
  <2>4. ClientTypes'
    <3>1. ParseUnreliable(ClientParsed.state, d.unreliable) \in ClientStates
      BY <2>3 DEF ParseUnreliable, ClientStates
    <3> HIDE DEF d
    <3> QED
      BY <2>1, <2>3, <3>1 DEF ClientTypes
  <2>5. /\ [ClientReads EXCEPT !.message = ClientParsed.message]
             \in ChannelOf(Command)
        /\ ChannelTypes
    BY <1>2, <2>3, MessageTypes DEF Types
  <2>6. /\ ChannelTypes'
        /\ chan'["client"] =
             [ClientReads EXCEPT !.message = ClientParsed.message]
        /\ chan'["server"] = chan["server"]
    BY <2>1, <2>5, ClientChannelSet
  <2>7. Types'
    BY <2>1, <2>2, <2>4, <2>6 DEF Types, ServerTypes, HistoryTypes, server,
       history
  <2> QED
    BY <1>1, <1>6, <2>1, <2>2, <2>6, <2>7
<1> QED
  BY <1>4, <1>5, <1>6

LEMMA GetChallengeIs ==
  ASSUME Types, Svc_GetChallenge
  PROVE  /\ Types'
         /\ Len(wire["server"]) >= 1
         /\ wire["server"][1].op = "get_challenge"
         /\ wire'["server"] = Tail(wire["server"])
         /\ \E n \in Numbers :
              wire'["client"] = wire["client"] \o <<OutOfBand("challenge", n)>>
         /\ UNCHANGED <<client, sv_state, spawn_count, chan, history>>
<1> DEFINE sent == <<OutOfBand("challenge", challenge')>>
<1>1. challenge' \in Numbers
  BY DEF Svc_GetChallenge, Types, ServerTypes, Numbers
<1>2. sent \in Seq(FromServer)
  <2>1. OutOfBand("challenge", challenge') \in FromServer
    BY <1>1 DEF OutOfBand, FromServer, OutOfBandOf
  <2> QED
    BY <2>1
<1>3. Arrived("server") /\ Reply("server", sent)
  BY DEF Svc_GetChallenge
<1>4. /\ WireTypes'
      /\ wire'["server"] = Tail(wire["server"])
      /\ wire'["client"] = wire["client"] \o sent
      /\ Datagram("server") = wire["server"][1]
      /\ Len(wire["server"]) >= 1
  <2> HIDE DEF sent
  <2> QED
    BY <1>2, <1>3, ServerReplies DEF Types
<1>5. UNCHANGED <<client, sv_state, spawn_count, chan, history>>
      /\ Datagram("server").op = "get_challenge"
  BY DEF Svc_GetChallenge
<1>6. Types'
  BY <1>1, <1>4, <1>5 DEF Types, ClientTypes, ServerTypes, ChannelTypes,
     HistoryTypes, client, history
<1> QED
  BY <1>1, <1>4, <1>5, <1>6

LEMMA SvcConnectIs ==
  ASSUME Types, Svc_Connect
  PROVE  /\ Types'
         /\ Len(wire["server"]) >= 1
         /\ wire["server"][1].op = "connect"
         /\ wire'["server"] = Tail(wire["server"])
         /\ UNCHANGED <<client, spawn_count, history>>
         /\ \/ /\ wire'["client"] =
                    wire["client"] \o <<OutOfBand("client_connect", 0)>>
               /\ chan'["server"] = NewChannel(TRUE)
               /\ chan'["client"] = chan["client"]
               /\ sv_state' = "connected"
            \/ /\ wire'["client"] = wire["client"]
               /\ UNCHANGED <<chan, sv_state>>
<1>1. Arrived("server") /\ Datagram("server").op = "connect"
      /\ UNCHANGED <<client, spawn_count, history>>
  BY DEF Svc_Connect
<1>2. CASE ChallengeMet(Datagram("server"))
  <2> DEFINE sent == <<OutOfBand("client_connect", 0)>>
  <2>1. /\ Reply("server", sent)
        /\ challenge' = Used
        /\ chan' = [chan EXCEPT !["server"] = NewChannel(TRUE)]
        /\ sv_state' = "connected"
    BY <1>2 DEF Svc_Connect
  <2>2. sent \in Seq(FromServer)
    BY DEF OutOfBand, FromServer, OutOfBandOf, Numbers, Used
  <2>3. /\ WireTypes'
        /\ wire'["server"] = Tail(wire["server"])
        /\ wire'["client"] = wire["client"] \o sent
        /\ Datagram("server") = wire["server"][1]
        /\ Len(wire["server"]) >= 1
    <3> HIDE DEF sent
    <3> QED
      BY <1>1, <2>1, <2>2, ServerReplies DEF Types
  <2>4. /\ ChannelTypes'
        /\ chan'["server"] = NewChannel(TRUE)
        /\ chan'["client"] = chan["client"]
    BY <2>1, NewChannelTypes, ServerChannelSet DEF Types
  <2>5. ServerTypes'
    BY <1>1, <2>1 DEF Types, ServerTypes, ServerStates, Numbers
  <2>6. Types'
    BY <1>1, <2>3, <2>4, <2>5 DEF Types, ClientTypes, HistoryTypes, client,
       history
  <2> QED
    BY <1>1, <2>1, <2>3, <2>4, <2>6
<1>3. CASE ~ChallengeMet(Datagram("server"))
  <2>1. Reply("server", <<>>) /\ UNCHANGED <<challenge, chan, sv_state>>
    BY <1>3 DEF Svc_Connect
  <2>2. /\ WireTypes'
        /\ wire'["server"] = Tail(wire["server"])
        /\ wire'["client"] = wire["client"]
        /\ Datagram("server") = wire["server"][1]
        /\ Len(wire["server"]) >= 1
    BY <1>1, <2>1, ServerReplies, NothingSent DEF Types
  <2>3. Types'
    BY <1>1, <2>1, <2>2 DEF Types, ClientTypes, ServerTypes, ChannelTypes,
       HistoryTypes, client, history
  <2> QED
    BY <1>1, <2>1, <2>2, <2>3
<1> QED
  BY <1>2, <1>3

(* The server with a datagram of the client read, and its commands parsed.  *)
ServerReads == Processed(chan["server"], Datagram("server").packet)
ServerParsed ==
  ParseClientCommands([state |-> sv_state, message |-> chan["server"].message],
                      Datagram("server").packet.payload)
ServerAnswers == [ServerReads EXCEPT !.message = ServerParsed.message]
ServerAccepts ==
  /\ sv_state # "free"
  /\ chan["server"].incoming_sequence < Datagram("server").packet.sequence

LEMMA ServerReadsIs ==
  ASSUME Types, Arrived("server"), Datagram("server").op = "sequenced"
  PROVE  /\ ServerReads \in ChannelOf(ServerCommand)
         /\ ServerReads.message = chan["server"].message
         /\ ServerParsed \in ServerReading
         /\ ServerAnswers \in ChannelOf(ServerCommand)
<1>1. /\ Datagram("server").packet \in PacketOf(Command)
      /\ chan["server"] \in ChannelOf(ServerCommand)
  BY FromClientIs DEF Types, ChannelTypes
<1>2. ServerReads \in ChannelOf(ServerCommand)
  BY <1>1, ProcessedTypes DEF ServerReads
<1>3. ServerReads.message = chan["server"].message
  BY <1>1, ProcessedFields DEF ServerReads
<1>4. ServerParsed \in ServerReading
  <2> DEFINE c == [state |-> sv_state, message |-> chan["server"].message]
             commands == Datagram("server").packet.payload
  <2>1. chan["server"].message \in Seq(ServerCommand)
    BY <1>1 DEF ChannelOf
  <2>2. c \in ServerReading /\ spawn_count \in Levels
    BY <2>1 DEF ServerReading, Types, ServerTypes
  <2>3. commands \in Seq(Command)
    BY <1>1 DEF PacketOf
  <2>4. ServerParsed = ParseClientCommands(c, commands)
    BY DEF ServerParsed
  <2> HIDE DEF c, commands
  <2>5. PICK f : /\ \A i \in 0 .. Len(commands) : f[i] \in ServerReading
                 /\ ParseClientCommands(c, commands) = f[Len(commands)]
    BY <2>2, <2>3, ClientCommandsParsed
  <2>6. Len(commands) \in 0 .. Len(commands)
    BY <2>3
  <2> QED
    BY <2>4, <2>5, <2>6
<1>5. ServerAnswers \in ChannelOf(ServerCommand)
  <2>1. ServerParsed.message \in Seq(ServerCommand)
    BY <1>4 DEF ServerReading
  <2> QED
    BY <1>2, <2>1, MessageTypes DEF ServerAnswers
<1> QED
  BY <1>2, <1>3, <1>4, <1>5

(* Sv_DropClient leaves a slot that is free.                                *)
LEMMA DropIs ==
  ASSUME Types, NEW c, DropFrom(c)
  PROVE  /\ ClientTypes' /\ ServerTypes' /\ ChannelTypes'
         /\ CanTransmit(c)
         /\ sv_state' = "free"
         /\ chan'["client"] = chan["client"]
         /\ chan'["server"] = NewChannel(FALSE)
         /\ UNCHANGED <<client, spawn_count, requests, disconnects>>
<1>1. chan' = [chan EXCEPT !["server"] = NewChannel(FALSE)]
      /\ sv_state' = "free" /\ CanTransmit(c)
      /\ UNCHANGED <<client, challenge, spawn_count, requests, disconnects>>
  BY DEF DropFrom
<1>2. /\ ChannelTypes' /\ chan'["client"] = chan["client"]
      /\ chan'["server"] = NewChannel(FALSE)
  BY <1>1, NewChannelTypes, ServerChannelSet DEF Types
<1> QED
  BY <1>1, <1>2 DEF Types, ClientTypes, ServerTypes, client, ServerStates

LEMMA SvReadPacketIs ==
  ASSUME Types, Sv_ReadPacket
  PROVE  /\ Types'
         /\ Arrived("server")
         /\ Len(wire["server"]) >= 1
         /\ Datagram("server") = wire["server"][1]
         /\ Datagram("server").op = "sequenced"
         /\ wire'["server"] = Tail(wire["server"])
         /\ UNCHANGED <<client, spawn_count>>
         /\ \/ /\ ~ServerAccepts
               /\ wire'["client"] = wire["client"]
               /\ UNCHANGED <<sv_state, chan, kicked>>
            \/ /\ ServerAccepts
               /\ ServerParsed.state = "kicked"
                    \/ Datagram("server").unreliable = Disconnect
               /\ CanTransmit(ServerAnswers)
               /\ wire'["client"] =
                    wire["client"] \o Sequenced(ServerAnswers, Disconnect)
               /\ sv_state' = "free"
               /\ chan'["client"] = chan["client"]
               /\ chan'["server"] = NewChannel(FALSE)
               /\ kicked' = (kicked \/ ServerParsed.state = "kicked")
            \/ /\ ServerAccepts
               /\ ServerParsed.state # "kicked"
               /\ Datagram("server").unreliable # Disconnect
               /\ wire'["client"] = wire["client"]
               /\ chan'["server"] = ServerAnswers
               /\ chan'["client"] = chan["client"]
               /\ sv_state' = ServerParsed.state
               /\ kicked' = kicked
<1> DEFINE d == Datagram("server")
           leaves == ServerParsed.state = "kicked" \/ d.unreliable = Disconnect
<1>1. Arrived("server") /\ d.op = "sequenced"
  BY DEF Sv_ReadPacket
<1>2. /\ ServerReads \in ChannelOf(ServerCommand)
      /\ ServerReads.message = chan["server"].message
      /\ ServerParsed \in ServerReading
      /\ ServerAnswers \in ChannelOf(ServerCommand)
  BY <1>1, ServerReadsIs
<1>3. ServerAccepts <=> ~(\/ sv_state = "free"
                          \/ ~NC(chan["server"])!Fresh(Self, d.packet))
  <2>1. NC(chan["server"])!Fresh(Self, d.packet) <=>
          d.packet.sequence > chan["server"].incoming_sequence
    BY Operators
  <2>2. /\ d.packet.sequence \in Int
        /\ chan["server"].incoming_sequence \in Int
    <3>1. d.packet \in PacketOf(Command) /\ chan["server"] \in ChannelOf(ServerCommand)
      BY <1>1, FromClientIs DEF Types, ChannelTypes
    <3> QED
      BY <3>1 DEF PacketOf, ChannelOf
  <2> QED
    BY <2>1, <2>2 DEF ServerAccepts
<1>4. ServerParsed = ParseClientCommands(
                 [state |-> sv_state, message |-> ServerReads.message],
                 d.packet.payload)
  BY <1>2 DEF ServerParsed
<1>5. CASE ~ServerAccepts
  <2>1. Reply("server", <<>>) /\ UNCHANGED <<client, server, chan, history>>
    BY <1>3, <1>5 DEF Sv_ReadPacket
  <2>2. /\ WireTypes'
        /\ wire'["server"] = Tail(wire["server"])
        /\ wire'["client"] = wire["client"]
        /\ d = wire["server"][1]
        /\ Len(wire["server"]) >= 1
    BY <1>1, <2>1, ServerReplies, NothingSent DEF Types
  <2>3. Types'
    BY <2>1, <2>2 DEF Types, ClientTypes, ServerTypes, ChannelTypes,
       HistoryTypes, client, server, history
  <2> QED
    BY <1>1, <1>5, <2>1, <2>2, <2>3 DEF server, history
<1>6. CASE ServerAccepts /\ leaves
  <2>1. /\ Reply("server", Sequenced(ServerAnswers, Disconnect))
        /\ DropFrom(ServerAnswers)
        /\ kicked' = (kicked \/ ServerParsed.state = "kicked")
        /\ UNCHANGED drops
    BY <1>3, <1>4, <1>6 DEF Sv_ReadPacket, ServerReads, ServerAnswers
  <2>2. /\ ClientTypes' /\ ServerTypes' /\ ChannelTypes'
        /\ CanTransmit(ServerAnswers)
        /\ sv_state' = "free"
        /\ chan'["client"] = chan["client"]
        /\ chan'["server"] = NewChannel(FALSE)
        /\ UNCHANGED <<client, spawn_count, requests, disconnects>>
    BY <2>1, DropIs
  <2>3. Sequenced(ServerAnswers, Disconnect) \in Seq(FromServer)
    BY <1>2, <2>2, FromServerTypes
  <2>4. /\ WireTypes'
        /\ wire'["server"] = Tail(wire["server"])
        /\ wire'["client"] =
             wire["client"] \o Sequenced(ServerAnswers, Disconnect)
        /\ d = wire["server"][1]
        /\ Len(wire["server"]) >= 1
    BY <1>1, <2>1, <2>3, ServerReplies DEF Types
  <2>5. HistoryTypes'
    <3>1. kicked' \in BOOLEAN
      BY <2>1
    <3> QED
      BY <3>1, <2>1, <2>2 DEF Types, HistoryTypes
  <2>6. Types'
    BY <2>2, <2>4, <2>5 DEF Types
  <2> QED
    BY <1>1, <1>6, <2>1, <2>2, <2>4, <2>6
<1>7. CASE ServerAccepts /\ ~leaves
  <2>1. /\ Reply("server", <<>>)
        /\ chan' = [chan EXCEPT !["server"] = ServerAnswers]
        /\ sv_state' = ServerParsed.state
        /\ UNCHANGED <<client, challenge, spawn_count, history>>
    BY <1>3, <1>4, <1>7 DEF Sv_ReadPacket, ServerReads, ServerAnswers
  <2>2. /\ WireTypes'
        /\ wire'["server"] = Tail(wire["server"])
        /\ wire'["client"] = wire["client"]
        /\ d = wire["server"][1]
        /\ Len(wire["server"]) >= 1
    BY <1>1, <2>1, ServerReplies, NothingSent DEF Types
  <2>3. /\ ChannelTypes'
        /\ chan'["server"] = ServerAnswers
        /\ chan'["client"] = chan["client"]
    BY <1>2, <2>1, ServerChannelSet DEF Types
  <2>4. ServerParsed.state \in ServerStates
    BY <1>2, <1>7 DEF ServerReading
  <2>5. Types'
    BY <2>1, <2>2, <2>3, <2>4 DEF Types, ClientTypes, ServerTypes,
       HistoryTypes, client, history
  <2> QED
    BY <1>1, <1>7, <2>1, <2>2, <2>3, <2>5 DEF history
<1> QED
  BY <1>5, <1>6, <1>7

LEMMA DropClientIs ==
  ASSUME Types, Sv_DropClient
  PROVE  /\ Types'
         /\ sv_state # "free" /\ sv_state' = "free"
         /\ CanTransmit(chan["server"])
         /\ wire'["server"] = wire["server"]
         /\ wire'["client"] =
              wire["client"] \o Sequenced(chan["server"], Disconnect)
         /\ chan'["client"] = chan["client"]
         /\ chan'["server"] = NewChannel(FALSE)
         /\ UNCHANGED <<client, spawn_count, kicked>>
<1>1. /\ ClientTypes' /\ ServerTypes' /\ ChannelTypes'
      /\ CanTransmit(chan["server"])
      /\ sv_state' = "free"
      /\ chan'["client"] = chan["client"]
      /\ chan'["server"] = NewChannel(FALSE)
      /\ UNCHANGED <<client, spawn_count, requests, disconnects>>
  BY DropIs DEF Sv_DropClient
<1>2. Sequenced(chan["server"], Disconnect) \in Seq(FromServer)
  BY <1>1, FromServerTypes DEF Types, ChannelTypes
<1>3. /\ WireTypes'
      /\ wire'["server"] = wire["server"]
      /\ wire'["client"] =
           wire["client"] \o Sequenced(chan["server"], Disconnect)
  BY <1>2, ServerSends DEF Sv_DropClient, Types
<1>4. HistoryTypes'
  BY <1>1, SessionAssumption DEF Sv_DropClient, Types, HistoryTypes
<1> QED
  BY <1>1, <1>3, <1>4 DEF Sv_DropClient, Types

LEMMA SendClientMessagesIs ==
  ASSUME Types, Sv_SendClientMessages
  PROVE  /\ Types'
         /\ sv_state # "free"
         /\ CanTransmit(chan["server"])
         /\ chan'["server"] = Transmitted(chan["server"])
         /\ chan'["client"] = chan["client"]
         /\ wire'["server"] = wire["server"]
         /\ wire'["client"] = wire["client"] \o
              Sequenced(chan["server"], IF sv_state = "active"
                                          THEN Frame(spawn_count) ELSE Nothing)
         /\ UNCHANGED <<client, server, history>>
<1> DEFINE u == IF sv_state = "active" THEN Frame(spawn_count) ELSE Nothing
<1>1. /\ sv_state # "free"
      /\ CanTransmit(chan["server"])
      /\ chan' = [chan EXCEPT !["server"] = Transmitted(chan["server"])]
      /\ Send("server", Sequenced(chan["server"], u))
      /\ UNCHANGED <<client, server, history>>
  BY DEF Sv_SendClientMessages
<1>2. chan["server"] \in ChannelOf(ServerCommand) /\ spawn_count \in Levels
  BY DEF Types, ChannelTypes, ServerTypes
<1>3. u \in {Nothing, Reconnect, Disconnect} \cup Frames
  BY <1>2 DEF Frames
<1> HIDE DEF u
<1>4. Sequenced(chan["server"], u) \in Seq(FromServer)
  BY <1>1, <1>2, <1>3, FromServerTypes
<1>5. /\ WireTypes'
      /\ wire'["server"] = wire["server"]
      /\ wire'["client"] = wire["client"] \o Sequenced(chan["server"], u)
  BY <1>1, <1>4, ServerSends DEF Types
<1>6. /\ ChannelTypes'
      /\ chan'["server"] = Transmitted(chan["server"])
      /\ chan'["client"] = chan["client"]
  BY <1>1, <1>2, TransmittedTypes, ServerChannelSet DEF Types
<1> USE DEF u
<1>7. Types'
  BY <1>1, <1>5, <1>6 DEF Types, ClientTypes, ServerTypes, HistoryTypes,
     client, server, history
<1> QED
  BY <1>1, <1>5, <1>6, <1>7

LEMMA InitServerIs ==
  ASSUME Types, Sv_InitServer
  PROVE  /\ Types'
         /\ UNCHANGED <<client, history>>
         /\ wire'["server"] = wire["server"]
         /\ \/ /\ sv_state = "free" /\ sv_state' = "free"
               /\ UNCHANGED <<chan, wire>>
            \/ /\ sv_state # "free" /\ sv_state' = "connected"
               /\ CanTransmit(chan["server"])
               /\ chan'["server"] = Transmitted(chan["server"])
               /\ chan'["client"] = chan["client"]
               /\ wire'["client"] =
                    wire["client"] \o Sequenced(chan["server"], Reconnect)
<1>1. /\ spawn_count' \in Levels
      /\ UNCHANGED <<client, challenge, history>>
  BY SessionAssumption DEF Sv_InitServer, Types, ServerTypes, Levels
<1>2. CASE sv_state = "free"
  BY <1>1, <1>2 DEF Sv_InitServer, Types, ClientTypes, ServerTypes,
     ChannelTypes, WireTypes, HistoryTypes, client, history
<1>3. CASE sv_state # "free"
  <2>1. /\ CanTransmit(chan["server"])
        /\ Send("server", Sequenced(chan["server"], Reconnect))
        /\ chan' = [chan EXCEPT !["server"] = Transmitted(chan["server"])]
        /\ sv_state' = "connected"
    BY <1>3 DEF Sv_InitServer
  <2>2. chan["server"] \in ChannelOf(ServerCommand)
    BY DEF Types, ChannelTypes
  <2>3. Sequenced(chan["server"], Reconnect) \in Seq(FromServer)
    BY <2>1, <2>2, FromServerTypes
  <2>4. /\ WireTypes'
        /\ wire'["server"] = wire["server"]
        /\ wire'["client"] =
             wire["client"] \o Sequenced(chan["server"], Reconnect)
    BY <2>1, <2>3, ServerSends DEF Types
  <2>5. /\ ChannelTypes'
        /\ chan'["server"] = Transmitted(chan["server"])
        /\ chan'["client"] = chan["client"]
    BY <2>1, <2>2, TransmittedTypes, ServerChannelSet DEF Types
  <2>6. ServerTypes'
    BY <1>1, <2>1 DEF Types, ServerTypes, ServerStates
  <2>7. Types'
    BY <1>1, <2>4, <2>5, <2>6 DEF Types, ClientTypes, HistoryTypes, client,
       history
  <2> QED
    BY <1>1, <1>3, <2>1, <2>4, <2>5, <2>7
<1> QED
  BY <1>2, <1>3

-----------------------------------------------------------------------------
(* The types are kept. *)

LEMMA InitTypes ==
  ASSUME Init
  PROVE  Types
<1>1. ClientTypes
  BY DEF Init, ClientTypes, ClientStates
<1>2. ServerTypes
  BY SessionAssumption DEF Init, ServerTypes, ServerStates, Numbers, Levels
<1>3. ChannelTypes
  <2>1. /\ NewChannel(FALSE) \in ChannelOf(Command)
        /\ NewChannel(FALSE) \in ChannelOf(ServerCommand)
    BY NewChannelTypes
  <2> QED
    BY <2>1 DEF Init, ChannelTypes, Endpoint
<1>4. WireTypes
  <2>1. /\ wire = [e \in Endpoint |-> <<>>]
        /\ <<>> \in Seq(FromServer) /\ <<>> \in Seq(FromClient)
        /\ Len(<<>>) = 0 /\ MaxWire \in Nat
    BY SessionAssumption DEF Init
  <2>2. wire["client"] = <<>> /\ wire["server"] = <<>>
    BY <2>1 DEF Endpoint
  <2> QED
    BY <2>1, <2>2 DEF WireTypes, Endpoint
<1>5. HistoryTypes
  <2>1. /\ MaxRequests \in Nat /\ MaxDisconnects \in Nat
        /\ MaxDrops \in Nat
    BY SessionAssumption
  <2>2. /\ requests \in 0 .. MaxRequests
        /\ disconnects \in 0 .. MaxDisconnects
        /\ drops \in 0 .. MaxDrops
    BY <2>1 DEF Init
  <2>3. kicked \in BOOLEAN
    BY Zenon DEF Init
  <2> QED
    BY <2>2, <2>3 DEF HistoryTypes
<1> QED
  BY <1>1, <1>2, <1>3, <1>4, <1>5 DEF Types

LEMMA NextTypes ==
  ASSUME Types, [Next]_vars
  PROVE  Types'
<1>1. CASE UNCHANGED vars
  BY <1>1 DEF vars, client, server, history, Types, ClientTypes, ServerTypes,
     ChannelTypes, WireTypes, HistoryTypes
<1>2. CASE Next
  BY <1>2, LoseIs, RenderFrameIs, SendCmdIs, CheckForResendIs, ConnectIs,
     ClDisconnectIs, ChallengeIs, ClientConnectIs, ReadPacketIs,
     GetChallengeIs, SvcConnectIs, SvReadPacketIs, DropClientIs,
     SendClientMessagesIs, InitServerIs DEF Next
<1> QED
  BY <1>1, <1>2

(* A copy that was sent has a number the channel has passed.                *)
Numbered ==
  \A e \in Endpoint :
    chan[e].last_reliable_sequence <= chan[e].outgoing_sequence

LEMMA NumberedStays ==
  ASSUME NEW S, NEW c \in ChannelOf(S),
         c.last_reliable_sequence <= c.outgoing_sequence
  PROVE  /\ Transmitted(c).last_reliable_sequence <=
              Transmitted(c).outgoing_sequence
         /\ \A p : Processed(c, p).last_reliable_sequence <=
                    Processed(c, p).outgoing_sequence
         /\ \A m : [c EXCEPT !.message = m].last_reliable_sequence <=
                    [c EXCEPT !.message = m].outgoing_sequence
<1>1. Transmitted(c).last_reliable_sequence <= Transmitted(c).outgoing_sequence
  <2>1. c.outgoing_sequence \in Int /\ c.last_reliable_sequence \in Int
    BY SessionAssumption DEF ChannelOf
  <2> QED
    BY <2>1, TransmittedFields
<1>2. \A p : Processed(c, p).last_reliable_sequence <=
              Processed(c, p).outgoing_sequence
  BY ProcessedFields
<1>3. \A m : [c EXCEPT !.message = m].last_reliable_sequence <=
              [c EXCEPT !.message = m].outgoing_sequence
  BY DEF ChannelOf
<1> QED
  BY <1>1, <1>2, <1>3

LEMMA NextNumbered ==
  ASSUME Types, Numbered, [Next]_vars
  PROVE  Numbered'
<1> DEFINE Good(c) == c.last_reliable_sequence <= c.outgoing_sequence
           C == chan["client"]
           S == chan["server"]
<1>1. /\ C \in ChannelOf(Command) /\ S \in ChannelOf(ServerCommand)
      /\ Good(C) /\ Good(S)
  BY DEF Types, ChannelTypes, Numbered, Endpoint
<1>2. Good(NewChannel(FALSE)) /\ Good(NewChannel(TRUE))
  BY DEF NewChannel
<1>3. Good(NewClientChannel)
  BY NewChannelTypes, NumberedStays, NewClientChannelIs, <1>2
<1>4. ASSUME NEW c \in ChannelOf(Command), Good(c)
      PROVE  Good(ExecutedBy(c)) /\ Good(Transmitted(c))
  BY <1>4, NumberedStays DEF ExecutedBy, Written
<1>5. Good(Transmitted(S))
  BY <1>1, NumberedStays
<1>6. CanTransmit(C) => Good(ExecutedBy(Transmitted(C)))
  BY <1>1, <1>4, TransmittedTypes
<1>7. ASSUME NEW c \in ChannelOf(Command), Good(c), CanTransmit(c)
      PROVE  Good(Left(c))
  <2>1. Transmitted(c) \in ChannelOf(Command) /\ Good(Transmitted(c))
    BY <1>4, <1>7, TransmittedTypes
  <2> QED
    BY <2>1, NumberedStays DEF Left
<1>8. Good(chan'["client"]) /\ Good(chan'["server"])
  <2>1. CASE UNCHANGED vars \/ \E e \in Endpoint : Lose(e)
    BY <1>1, <2>1, LoseIs DEF vars
  <2>2. CASE RenderFrame \/ Cl_SendCmd \/ Cl_CheckForResend \/ Cl_Connect_f
    BY <1>1, <1>4, <1>6, <2>2, RenderFrameIs, SendCmdIs, CheckForResendIs,
       ConnectIs
  <2>3. CASE Cl_Disconnect
    BY <1>1, <1>7, <2>3, ClDisconnectIs
  <2>4. CASE Cl_Challenge \/ Cl_ClientConnect
    BY <1>1, <1>3, <2>4, ChallengeIs, ClientConnectIs
  <2>5. CASE Cl_ReadPacket
    <3>1. Arrived("client") /\ Datagram("client").op = "sequenced"
      BY <2>5, ReadPacketIs
    <3>2. ClientReads \in ChannelOf(Command) /\ Good(ClientReads)
      BY <1>1, <3>1, ClientReadsIs, NumberedStays DEF ClientReads
    <3>3. \A m : Good([ClientReads EXCEPT !.message = m])
      BY <3>2, NumberedStays
    <3> HIDE DEF Good
    <3> QED
      BY <1>1, <1>7, <2>5, <3>2, <3>3, ReadPacketIs
  <2>6. CASE Svc_GetChallenge \/ Svc_Connect
    BY <1>1, <1>2, <2>6, GetChallengeIs, SvcConnectIs
  <2>7. CASE Sv_ReadPacket
    <3>1. Arrived("server") /\ Datagram("server").op = "sequenced"
      BY <2>7, SvReadPacketIs
    <3>2. ServerReads \in ChannelOf(ServerCommand) /\ Good(ServerReads)
      BY <1>1, <3>1, ServerReadsIs, NumberedStays DEF ServerReads
    <3>3. Good(ServerAnswers)
      BY <3>2, NumberedStays DEF ServerAnswers
    <3> HIDE DEF Good
    <3> QED
      BY <1>1, <1>2, <2>7, <3>3, SvReadPacketIs
  <2>8. CASE Sv_DropClient \/ Sv_SendClientMessages \/ Sv_InitServer
    BY <1>1, <1>2, <1>5, <2>8, DropClientIs, SendClientMessagesIs, InitServerIs
  <2> QED
    BY <2>1, <2>2, <2>3, <2>4, <2>5, <2>6, <2>7, <2>8 DEF Next
<1> QED
  BY <1>8 DEF Numbered, Endpoint

LEMMA RangeOf ==
  ASSUME NEW S, NEW s \in Seq(S)
  PROVE  Range(s) \subseteq S
  BY DEF Range

(* The states of both ends are those of the code, at every number of parts, *)
(* levels and losses.                                                       *)
THEOREM SessionTypes == Spec => []TypeOK
<1>1. Init => Types /\ Numbered
  <2> SUFFICES ASSUME Init PROVE Types /\ Numbered
    OBVIOUS
  <2>1. Numbered
    BY DEF Init, Numbered, NewChannel
  <2> QED
    BY <2>1, InitTypes
<1>2. Types /\ Numbered /\ [Next]_vars => Types' /\ Numbered'
  BY NextTypes, NextNumbered
<1>3. Types /\ Numbered => TypeOK
  <2> SUFFICES ASSUME Types, Numbered PROVE TypeOK
    OBVIOUS
  <2>1. \A e \in Endpoint : ChannelOK(chan[e]) /\ Len(wire[e]) <= MaxWire
    <3> TAKE e \in Endpoint
    <3>1. \E S : chan[e] \in ChannelOf(S)
      BY DEF Types, ChannelTypes
    <3>2. PICK S : chan[e] \in ChannelOf(S)
      BY <3>1
    <3> DEFINE c == chan[e]
    <3>3. c.last_reliable_sequence <= c.outgoing_sequence
      BY DEF Numbered
    <3>4. /\ c.outgoing_sequence \in 1 .. MaxSequence + 1
          /\ c.incoming_sequence \in 0 .. MaxSequence
          /\ c.incoming_acknowledged \in 0 .. MaxSequence
          /\ c.last_reliable_sequence \in 0 .. MaxSequence + 1
          /\ c.reliable_sequence \in {0, 1}
          /\ c.incoming_reliable_acknowledged \in {0, 1}
          /\ c.incoming_reliable_sequence \in {0, 1}
          /\ c.open \in BOOLEAN
      BY <3>2 DEF ChannelOf
    <3> HIDE DEF c
    <3>5. c.last_reliable_sequence \in 0 .. c.outgoing_sequence
      BY <3>3, <3>4, SessionAssumption
    <3>6. ChannelOK(c)
      BY <3>4, <3>5 DEF ChannelOK
    <3> QED
      BY <3>6 DEF c, Types, WireTypes
  <2>2. /\ Range(cbuf) \subseteq Command \cup {Precache(l) : l \in Levels}
        /\ Range(chan["client"].message) \subseteq Command
        /\ Range(chan["client"].reliable) \subseteq Command
    <3>1. /\ cbuf \in Seq(ClientText)
          /\ chan["client"].message \in Seq(Command)
          /\ chan["client"].reliable \in Seq(Command)
      BY DEF Types, ClientTypes, ChannelTypes, ChannelOf
    <3> QED
      BY <3>1, RangeOf DEF ClientText
  <2>3. ClientTypes /\ ServerTypes /\ HistoryTypes
    BY DEF Types
  <2> QED
    BY <2>1, <2>2, <2>3 DEF TypeOK, ClientTypes, ServerTypes, HistoryTypes,
       ClientStates, ServerStates, Numbers
<1> QED
  BY <1>1, <1>2, <1>3, PTL DEF Spec

-----------------------------------------------------------------------------
(* Two channels that are sound stay so. *)

Carries(P, S) == \A d \in P : d.packet \in PacketOf(S)

LEMMA Numbers1 ==
  ASSUME NEW S, NEW c \in ChannelOf(S)
  PROVE  /\ c.incoming_sequence \in Int
         /\ c.incoming_acknowledged \in Int
         /\ c.outgoing_sequence \in Int
         /\ c.last_reliable_sequence \in Int
         /\ c.incoming_reliable_acknowledged \in {0, 1}
         /\ c.incoming_reliable_sequence \in {0, 1}
         /\ c.reliable_sequence \in {0, 1}
         /\ c.message \in Seq(S)
         /\ c.reliable \in Seq(S)
         /\ c.incoming_sequence >= 0
         /\ c.outgoing_sequence >= 1
  BY SessionAssumption DEF ChannelOf

LEMMA PacketNumbers ==
  ASSUME NEW S, NEW P, Carries(P, S), NEW d \in P
  PROVE  /\ d.packet.sequence \in Int
         /\ d.packet.sequence >= 1
         /\ d.packet.ack \in Int
         /\ d.packet.reliable_ack \in {0, 1}
         /\ d.packet.has_reliable \in BOOLEAN
         /\ d.packet.payload \in Seq(S)
<1>1. d.packet \in PacketOf(S)
  BY DEF Carries
<1> QED
  BY <1>1, SessionAssumption DEF PacketOf

(* Fewer datagrams can arrive.                                              *)
LEMMA SoundSubset ==
  ASSUME NEW c, NEW r, NEW P, NEW Q, Sound(c, r, P, Q),
         NEW P1 \in SUBSET P, NEW Q1 \in SUBSET Q
  PROVE  Sound(c, r, P1, Q1)
<1>1. Sequential(c, r, P1, Q1)
  BY DEF Sound, Sequential
<1>2. OneCopy(c, r, P1)
  BY DEF Sound, OneCopy
<1>3. AcksTrue(c, r, Q1)
  BY DEF Sound, AcksTrue
<1> QED
  BY <1>1, <1>2, <1>3 DEF Sound

(* It does not matter what is written.                                      *)
LEMMA SoundMessage ==
  ASSUME NEW S, NEW c \in ChannelOf(S), NEW r, NEW P, NEW Q, NEW m,
         Sound(c, r, P, Q), Sound(r, c, Q, P)
  PROVE  /\ Sound(Saying(c, m), r, P, Q)
         /\ Sound(r, Saying(c, m), Q, P)
<1> DEFINE d == Saying(c, m)
<1>1. /\ d.incoming_sequence = c.incoming_sequence
      /\ d.incoming_acknowledged = c.incoming_acknowledged
      /\ d.incoming_reliable_acknowledged = c.incoming_reliable_acknowledged
      /\ d.incoming_reliable_sequence = c.incoming_reliable_sequence
      /\ d.outgoing_sequence = c.outgoing_sequence
      /\ d.reliable_sequence = c.reliable_sequence
      /\ d.last_reliable_sequence = c.last_reliable_sequence
      /\ d.reliable = c.reliable
  BY DEF ChannelOf, Saying
<1> HIDE DEF d
<1>2. Sound(d, r, P, Q)
  BY <1>1 DEF Sound, Sequential, OneCopy, AcksTrue, LastAckTrue, Got
<1>3. Sound(r, d, Q, P)
  BY <1>1 DEF Sound, Sequential, OneCopy, AcksTrue, LastAckTrue, Got
<1> QED
  BY <1>2, <1>3 DEF d

(* c transmits to r: Netchan_Transmit.                                      *)
LEMMA SoundTransmit ==
  ASSUME NEW A, NEW B, NEW c \in ChannelOf(A), NEW r \in ChannelOf(B),
         NEW P, NEW Q, Carries(P, A), Carries(Q, B),
         Sound(c, r, P, Q), Sound(r, c, Q, P),
         NEW d, d.packet = PacketFrom(c), NEW P1 \in SUBSET (P \cup {d})
  PROVE  /\ Sound(Transmitted(c), r, P1, Q)
         /\ Sound(r, Transmitted(c), Q, P1)
<1> DEFINE t == Transmitted(c)
<1>1. /\ t.incoming_sequence = c.incoming_sequence
      /\ t.incoming_acknowledged = c.incoming_acknowledged
      /\ t.incoming_reliable_acknowledged = c.incoming_reliable_acknowledged
      /\ t.incoming_reliable_sequence = c.incoming_reliable_sequence
      /\ t.outgoing_sequence = c.outgoing_sequence + 1
      /\ t.reliable_sequence = IF CanStageOf(c) THEN 1 - c.reliable_sequence
                               ELSE c.reliable_sequence
      /\ t.last_reliable_sequence =
           IF NeedReliableOf(c) THEN c.outgoing_sequence + 1
           ELSE c.last_reliable_sequence
      /\ t.reliable = StagedOf(c)
  BY TransmittedFields
<1>2. /\ d.packet.sequence = c.outgoing_sequence
      /\ d.packet.has_reliable = NeedReliableOf(c)
      /\ d.packet.ack = c.incoming_sequence
      /\ d.packet.reliable_ack = c.incoming_reliable_sequence
      /\ d.packet.payload = IF NeedReliableOf(c) THEN StagedOf(c) ELSE <<>>
  BY DEF PacketFrom
<1> HIDE DEF t
<1>3. /\ c.incoming_sequence \in Int /\ c.incoming_acknowledged \in Int
      /\ c.outgoing_sequence \in Int /\ c.last_reliable_sequence \in Int
      /\ r.incoming_sequence \in Int /\ r.incoming_acknowledged \in Int
      /\ r.outgoing_sequence \in Int /\ r.last_reliable_sequence \in Int
      /\ c.reliable_sequence \in {0, 1} /\ r.reliable_sequence \in {0, 1}
      /\ c.incoming_reliable_sequence \in {0, 1}
      /\ r.incoming_reliable_sequence \in {0, 1}
  BY Numbers1
<1>4. \A x \in P \cup Q : /\ x.packet.sequence \in Int
                          /\ x.packet.ack \in Int
                          /\ x.packet.reliable_ack \in {0, 1}
  BY PacketNumbers
<1>5. Sequential(c, r, P, Q) /\ OneCopy(c, r, P) /\ AcksTrue(c, r, Q)
      /\ LastAckTrue(c, r)
  BY DEF Sound
<1>6. Sequential(r, c, Q, P) /\ OneCopy(r, c, Q) /\ AcksTrue(r, c, P)
      /\ LastAckTrue(r, c)
  BY DEF Sound
<1>7. CanStageOf(c) => Got(c, r) /\ ~Got(t, r) /\ NeedReliableOf(c)
                       /\ t.reliable # <<>>
  BY <1>1, <1>3, <1>5 DEF CanStageOf, LastAckTrue, Got, StagedOf, NeedReliableOf
<1>8. ~CanStageOf(c) => t.reliable = c.reliable /\ (Got(t, r) <=> Got(c, r))
  BY <1>1 DEF StagedOf, Got
<1>9. NeedReliableOf(c) =>
        /\ ~Got(t, r)
        /\ \A x \in P : ~x.packet.has_reliable
  <2>1. CASE CanStageOf(c)
    BY <2>1, <1>5, <1>7 DEF OneCopy
  <2>2. CASE ~CanStageOf(c) /\ NeedReliableOf(c)
    <3>1. /\ c.incoming_acknowledged > c.last_reliable_sequence
          /\ c.reliable # <<>>
      BY <2>2, <1>5 DEF NeedReliableOf, LastAckTrue
    <3>2. ~Got(c, r)
      BY <3>1, <1>3, <1>5 DEF LastAckTrue
    <3>3. \A x \in P : ~x.packet.has_reliable
      BY <3>1, <1>3, <1>4, <1>5 DEF Sequential, OneCopy
    <3> QED
      BY <2>2, <3>2, <3>3, <1>8
  <2> QED
    BY <2>1, <2>2
<1>10. Sequential(t, r, P1, Q)
  BY <1>1, <1>2, <1>3, <1>4, <1>5, <1>6 DEF Sequential
<1>11. OneCopy(t, r, P1)
  <2> SUFFICES ASSUME NEW x \in P1
               PROVE  /\ x.packet.has_reliable =>
                           /\ x.packet.sequence + 1 = t.last_reliable_sequence
                           /\ ~Got(t, r)
                           /\ x.packet.payload = t.reliable
                      /\ ~x.packet.has_reliable => x.packet.payload = <<>>
    BY DEF OneCopy
  <2>1. CASE x = d
    BY <2>1, <1>1, <1>2, <1>9
  <2>2. CASE x # d
    <3>1. x \in P
      BY <2>2
    <3>2. CASE NeedReliableOf(c)
      BY <3>1, <3>2, <1>5, <1>9 DEF OneCopy
    <3>3. CASE ~NeedReliableOf(c)
      BY <3>1, <3>3, <1>1, <1>5, <1>7, <1>8 DEF OneCopy
    <3> QED
      BY <3>2, <3>3
  <2> QED
    BY <2>1, <2>2
<1>12. AcksTrue(t, r, Q)
  <2>1. CASE CanStageOf(c)
    <3>1. \A x \in Q : x.packet.reliable_ack = c.reliable_sequence
      BY <2>1, <1>5 DEF AcksTrue, CanStageOf
    <3>2. \A x \in Q : x.packet.reliable_ack # t.reliable_sequence
      BY <2>1, <3>1, <1>1, <1>3
    <3> QED
      BY <2>1, <3>2, <1>7 DEF AcksTrue
  <2>2. CASE ~CanStageOf(c) /\ NeedReliableOf(c)
    <3>1. ~Got(t, r)
      BY <2>2, <1>9
    <3> QED
      BY <2>2, <3>1, <1>1, <1>5, <1>8 DEF AcksTrue
  <2>3. CASE ~NeedReliableOf(c)
    <3>1. ~CanStageOf(c)
      BY <2>3 DEF NeedReliableOf
    <3> QED
      BY <2>3, <3>1, <1>1, <1>5, <1>8 DEF AcksTrue
  <2> QED
    BY <2>1, <2>2, <2>3
<1>13. LastAckTrue(t, r)
  <2>1. CASE CanStageOf(c)
    <3>1. c.incoming_reliable_acknowledged = c.reliable_sequence
      BY <2>1, <1>5 DEF LastAckTrue, CanStageOf
    <3>2. t.incoming_reliable_acknowledged # t.reliable_sequence
      BY <2>1, <3>1, <1>1, <1>3
    <3> QED
      BY <2>1, <3>2, <1>7 DEF LastAckTrue
  <2>2. CASE ~CanStageOf(c) /\ NeedReliableOf(c)
    <3>1. ~Got(t, r)
      BY <2>2, <1>9
    <3> QED
      BY <2>2, <3>1, <1>1, <1>5, <1>8 DEF LastAckTrue
  <2>3. CASE ~NeedReliableOf(c)
    <3>1. ~CanStageOf(c)
      BY <2>3 DEF NeedReliableOf
    <3> QED
      BY <2>3, <3>1, <1>1, <1>5, <1>8 DEF LastAckTrue
  <2> QED
    BY <2>1, <2>2, <2>3
<1>14. Sequential(r, t, Q, P1)
  BY <1>1, <1>2, <1>3, <1>4, <1>6 DEF Sequential
<1>15. OneCopy(r, t, Q) /\ LastAckTrue(r, t)
  BY <1>1, <1>6 DEF OneCopy, LastAckTrue, Got
<1>16. AcksTrue(r, t, P1)
  <2> SUFFICES ASSUME NEW x \in P1
               PROVE  /\ x.packet.reliable_ack = r.reliable_sequence => Got(r, t)
                      /\ x.packet.reliable_ack # r.reliable_sequence
                           /\ x.packet.ack + 1 >= r.last_reliable_sequence
                           => ~Got(r, t)
                      /\ r.reliable = <<>> =>
                           x.packet.reliable_ack = r.reliable_sequence
                      /\ \A q \in P1 :
                           /\ x.packet.sequence < q.packet.sequence
                           /\ x.packet.reliable_ack = r.reliable_sequence
                           => q.packet.reliable_ack = r.reliable_sequence
    BY DEF AcksTrue
  <2>1. Got(r, t) <=> Got(r, c)
    BY <1>1 DEF Got
  <2>2. Got(r, c) <=> d.packet.reliable_ack = r.reliable_sequence
    BY <1>2 DEF Got
  <2>3. \A y \in P : y.packet.sequence < c.outgoing_sequence
    BY <1>5 DEF Sequential
  <2>4. CASE x = d
    <3>1. \A q \in P1 : x.packet.sequence < q.packet.sequence => FALSE
      BY <2>3, <2>4, <1>2, <1>3, <1>4
    <3>2. r.reliable = <<>> => Got(r, c)
      BY <1>6 DEF LastAckTrue
    <3> QED
      BY <2>1, <2>2, <2>4, <3>1, <3>2
  <2>5. CASE x # d
    <3>1. x \in P
      BY <2>5
    <3>2. x.packet.reliable_ack = r.reliable_sequence => Got(r, c)
      BY <3>1, <1>6 DEF AcksTrue
    <3>3. \A q \in P1 : /\ x.packet.sequence < q.packet.sequence
                        /\ x.packet.reliable_ack = r.reliable_sequence
                        => q.packet.reliable_ack = r.reliable_sequence
      BY <3>1, <3>2, <2>2, <1>6 DEF AcksTrue
    <3> QED
      BY <2>1, <3>1, <3>2, <3>3, <1>6 DEF AcksTrue
  <2> QED
    BY <2>4, <2>5
<1> QED
  BY <1>10, <1>11, <1>12, <1>13, <1>14, <1>15, <1>16 DEF Sound, t

(* r accepts p from c: Netchan_Process.                                     *)
LEMMA SoundReceive ==
  ASSUME NEW A, NEW B, NEW c \in ChannelOf(A), NEW r \in ChannelOf(B),
         NEW P, NEW Q, Carries(P, A), Carries(Q, B),
         Sound(c, r, P, Q), Sound(r, c, Q, P),
         NEW p \in P, NEW P1 \in SUBSET P,
         \A d \in P1 : p.packet.sequence < d.packet.sequence
  PROVE  /\ Sound(c, Processed(r, p.packet), P1, Q)
         /\ Sound(Processed(r, p.packet), c, Q, P1)
<1> DEFINE t == Processed(r, p.packet)
<1>1. /\ t.incoming_sequence = p.packet.sequence
      /\ t.incoming_acknowledged = p.packet.ack
      /\ t.incoming_reliable_acknowledged = p.packet.reliable_ack
      /\ t.incoming_reliable_sequence =
           IF p.packet.has_reliable THEN 1 - r.incoming_reliable_sequence
           ELSE r.incoming_reliable_sequence
      /\ t.outgoing_sequence = r.outgoing_sequence
      /\ t.reliable_sequence = r.reliable_sequence
      /\ t.last_reliable_sequence = r.last_reliable_sequence
      /\ t.reliable = IF p.packet.reliable_ack = r.reliable_sequence THEN <<>>
                      ELSE r.reliable
  <2>1. \A q :
          /\ Processed(r, q).incoming_sequence = q.sequence
          /\ Processed(r, q).incoming_acknowledged = q.ack
          /\ Processed(r, q).incoming_reliable_acknowledged = q.reliable_ack
          /\ Processed(r, q).incoming_reliable_sequence =
               IF q.has_reliable THEN 1 - r.incoming_reliable_sequence
               ELSE r.incoming_reliable_sequence
          /\ Processed(r, q).outgoing_sequence = r.outgoing_sequence
          /\ Processed(r, q).reliable_sequence = r.reliable_sequence
          /\ Processed(r, q).last_reliable_sequence = r.last_reliable_sequence
          /\ Processed(r, q).reliable =
               IF q.reliable_ack = r.reliable_sequence THEN <<>> ELSE r.reliable
    BY ProcessedFields
  <2> QED
    BY <2>1
<1> HIDE DEF t
<1>2. /\ c.incoming_sequence \in Int /\ c.incoming_acknowledged \in Int
      /\ c.outgoing_sequence \in Int /\ c.last_reliable_sequence \in Int
      /\ r.incoming_sequence \in Int /\ r.incoming_acknowledged \in Int
      /\ r.outgoing_sequence \in Int /\ r.last_reliable_sequence \in Int
      /\ c.reliable_sequence \in {0, 1} /\ r.reliable_sequence \in {0, 1}
      /\ c.incoming_reliable_sequence \in {0, 1}
      /\ r.incoming_reliable_sequence \in {0, 1}
  BY Numbers1
<1>3. \A x \in P \cup Q : /\ x.packet.sequence \in Int
                          /\ x.packet.ack \in Int
                          /\ x.packet.reliable_ack \in {0, 1}
  BY PacketNumbers
<1>4. Sequential(c, r, P, Q) /\ OneCopy(c, r, P) /\ AcksTrue(c, r, Q)
      /\ LastAckTrue(c, r)
  BY DEF Sound
<1>5. Sequential(r, c, Q, P) /\ OneCopy(r, c, Q) /\ AcksTrue(r, c, P)
      /\ LastAckTrue(r, c)
  BY DEF Sound
<1>6. /\ r.incoming_sequence < p.packet.sequence
      /\ p.packet.sequence < c.outgoing_sequence
      /\ p.packet.ack <= c.incoming_sequence
  BY <1>4, <1>5 DEF Sequential
<1>7. /\ p.packet.has_reliable =>
           /\ p.packet.sequence + 1 = c.last_reliable_sequence
           /\ ~Got(c, r) /\ Got(c, t)
           /\ \A x \in P1 : ~x.packet.has_reliable
      /\ ~p.packet.has_reliable => (Got(c, t) <=> Got(c, r))
  <2>1. ~p.packet.has_reliable => (Got(c, t) <=> Got(c, r))
    BY <1>1 DEF Got
  <2>2. ASSUME p.packet.has_reliable
        PROVE  /\ p.packet.sequence + 1 = c.last_reliable_sequence
               /\ ~Got(c, r) /\ Got(c, t)
               /\ \A x \in P1 : ~x.packet.has_reliable
    <3>1. p.packet.sequence + 1 = c.last_reliable_sequence /\ ~Got(c, r)
      BY <2>2, <1>4 DEF OneCopy
    <3>2. Got(c, t)
      BY <2>2, <3>1, <1>1, <1>2 DEF Got
    <3>3. \A x \in P1 : ~x.packet.has_reliable
      <4> SUFFICES ASSUME NEW x \in P1, x.packet.has_reliable PROVE FALSE
        OBVIOUS
      <4>1. x.packet.sequence + 1 = c.last_reliable_sequence
        BY <1>4 DEF OneCopy
      <4> QED
        BY <3>1, <4>1, <1>2, <1>3
    <3> QED
      BY <3>1, <3>2, <3>3
  <2> QED
    BY <2>1, <2>2
<1>8. Got(t, c) <=> Got(r, c)
  BY <1>1 DEF Got
<1>9. /\ p.packet.reliable_ack = r.reliable_sequence =>
           /\ Got(r, c)
           /\ \A x \in P1 : x.packet.reliable_ack = r.reliable_sequence
      /\ p.packet.reliable_ack # r.reliable_sequence =>
           /\ t.reliable = r.reliable
           /\ r.reliable # <<>>
  <2>1. p.packet.reliable_ack = r.reliable_sequence => Got(r, c)
    BY <1>5 DEF AcksTrue
  <2>2. p.packet.reliable_ack = r.reliable_sequence =>
          \A x \in P1 : x.packet.reliable_ack = r.reliable_sequence
    BY <1>5 DEF AcksTrue
  <2>3. p.packet.reliable_ack # r.reliable_sequence => r.reliable # <<>>
    BY <1>5 DEF AcksTrue
  <2> QED
    BY <2>1, <2>2, <2>3, <1>1
<1>10. Sequential(c, t, P1, Q)
  BY <1>1, <1>2, <1>3, <1>4, <1>5, <1>6 DEF Sequential
<1>11. OneCopy(c, t, P1)
  BY <1>4, <1>7 DEF OneCopy
<1>12. AcksTrue(c, t, Q) /\ LastAckTrue(c, t)
  <2>1. CASE p.packet.has_reliable
    <3>1. \A x \in Q : x.packet.ack + 1 < c.last_reliable_sequence
      BY <2>1, <1>2, <1>3, <1>4, <1>6, <1>7 DEF Sequential
    <3>2. c.incoming_acknowledged + 1 < c.last_reliable_sequence
      BY <2>1, <1>2, <1>3, <1>4, <1>6, <1>7 DEF Sequential
    <3>3. AcksTrue(c, t, Q)
      BY <2>1, <3>1, <1>2, <1>3, <1>4, <1>7 DEF AcksTrue
    <3>4. LastAckTrue(c, t)
      BY <2>1, <3>2, <1>2, <1>4, <1>7 DEF LastAckTrue
    <3> QED
      BY <3>3, <3>4
  <2>2. CASE ~p.packet.has_reliable
    BY <2>2, <1>4, <1>7 DEF AcksTrue, LastAckTrue
  <2> QED
    BY <2>1, <2>2
<1>13. Sequential(t, c, Q, P1)
  BY <1>1, <1>2, <1>3, <1>5, <1>6 DEF Sequential
<1>14. OneCopy(t, c, Q)
  <2> SUFFICES ASSUME NEW x \in Q
               PROVE  /\ x.packet.has_reliable =>
                           /\ x.packet.sequence + 1 = t.last_reliable_sequence
                           /\ ~Got(t, c)
                           /\ x.packet.payload = t.reliable
                      /\ ~x.packet.has_reliable => x.packet.payload = <<>>
    BY DEF OneCopy
  <2>1. CASE x.packet.has_reliable
    <3>1. ~Got(r, c)
      BY <2>1, <1>5 DEF OneCopy
    <3> QED
      BY <2>1, <3>1, <1>1, <1>5, <1>8, <1>9 DEF OneCopy
  <2>2. CASE ~x.packet.has_reliable
    BY <2>2, <1>5 DEF OneCopy
  <2> QED
    BY <2>1, <2>2
<1>15. AcksTrue(t, c, P1)
  <2>1. CASE p.packet.reliable_ack = r.reliable_sequence
    BY <2>1, <1>1, <1>5, <1>8, <1>9 DEF AcksTrue
  <2>2. CASE p.packet.reliable_ack # r.reliable_sequence
    BY <2>2, <1>1, <1>5, <1>8, <1>9 DEF AcksTrue
  <2> QED
    BY <2>1, <2>2
<1>16. LastAckTrue(t, c)
  <2>1. CASE p.packet.reliable_ack = r.reliable_sequence
    BY <2>1, <1>1, <1>8, <1>9 DEF LastAckTrue
  <2>2. CASE p.packet.reliable_ack # r.reliable_sequence
    <3>1. p.packet.ack + 1 >= r.last_reliable_sequence => ~Got(r, c)
      BY <2>2, <1>5 DEF AcksTrue
    <3> QED
      BY <2>2, <3>1, <1>1, <1>8, <1>9 DEF LastAckTrue
  <2> QED
    BY <2>1, <2>2
<1> QED
  BY <1>10, <1>11, <1>12, <1>13, <1>14, <1>15, <1>16 DEF Sound, t

(* What is not delivered yet stays so, until it is.                         *)
LEMMA UndeliveredTransmit ==
  ASSUME NEW A, NEW B, NEW c \in ChannelOf(A), NEW r \in ChannelOf(B),
         NEW P, NEW Q, Sound(c, r, P, Q)
  PROVE  /\ Undelivered(Transmitted(c), r) = Undelivered(c, r)
         /\ Undelivered(r, Transmitted(c)) = Undelivered(r, c)
<1> DEFINE t == Transmitted(c)
<1>1. /\ t.incoming_reliable_sequence = c.incoming_reliable_sequence
      /\ t.reliable_sequence = IF CanStageOf(c) THEN 1 - c.reliable_sequence
                               ELSE c.reliable_sequence
      /\ t.message = IF CanStageOf(c) THEN <<>> ELSE c.message
      /\ t.reliable = StagedOf(c)
  BY TransmittedFields
<1> HIDE DEF t
<1>2. /\ c.reliable_sequence \in {0, 1} /\ r.incoming_reliable_sequence \in {0, 1}
      /\ c.message \in Seq(A) /\ c.reliable \in Seq(A)
  BY Numbers1
<1>3. LastAckTrue(c, r)
  BY DEF Sound
<1>4. Undelivered(r, t) = Undelivered(r, c)
  BY <1>1 DEF Undelivered, Unreceived, Got
<1>5. CASE CanStageOf(c)
  <2>1. Got(c, r) /\ c.reliable = <<>>
    BY <1>3, <1>5 DEF LastAckTrue, CanStageOf
  <2>2. ~Got(t, r)
    BY <2>1, <1>1, <1>2, <1>5 DEF Got
  <2>3. Undelivered(c, r) = <<>> \o c.message
    BY <2>1 DEF Undelivered, Unreceived
  <2>4. Undelivered(t, r) = c.message \o <<>>
    BY <2>2, <1>1, <1>5 DEF Undelivered, Unreceived, StagedOf
  <2>5. c.message \o <<>> = <<>> \o c.message
    BY <1>2
  <2> QED
    BY <2>3, <2>4, <2>5, <1>4 DEF t
<1>6. CASE ~CanStageOf(c)
  <2>1. Undelivered(t, r) = Undelivered(c, r)
    BY <1>1, <1>6 DEF Undelivered, Unreceived, StagedOf, Got
  <2> QED
    BY <2>1, <1>4 DEF t
<1> QED
  BY <1>5, <1>6

LEMMA ReceivedFields ==
  ASSUME NEW S, NEW r \in ChannelOf(S)
  PROVE  \A q :
          /\ Processed(r, q).incoming_reliable_sequence =
               IF q.has_reliable THEN 1 - r.incoming_reliable_sequence
               ELSE r.incoming_reliable_sequence
          /\ Processed(r, q).reliable_sequence = r.reliable_sequence
          /\ Processed(r, q).message = r.message
          /\ Processed(r, q).reliable =
               IF q.reliable_ack = r.reliable_sequence THEN <<>> ELSE r.reliable
  BY ProcessedFields

(* What is received, with a reliable message or without one.                *)
LEMMA ReliableReceived ==
  ASSUME NEW A, NEW B, NEW c \in ChannelOf(A), NEW r \in ChannelOf(B),
         NEW P, NEW Q, Carries(P, A), Carries(Q, B),
         Sound(c, r, P, Q), Sound(r, c, Q, P), NEW p \in P, p.packet.has_reliable
  PROVE  /\ Undelivered(Processed(r, p.packet), c) = Undelivered(r, c)
         /\ Unreceived(c, r) = p.packet.payload
         /\ Unreceived(c, Processed(r, p.packet)) = <<>>
         /\ Undelivered(c, Processed(r, p.packet)) = c.message
<1> DEFINE t == Processed(r, p.packet)
<1>1. /\ t.incoming_reliable_sequence =
           IF p.packet.has_reliable THEN 1 - r.incoming_reliable_sequence
           ELSE r.incoming_reliable_sequence
      /\ t.reliable_sequence = r.reliable_sequence
      /\ t.message = r.message
      /\ t.reliable = IF p.packet.reliable_ack = r.reliable_sequence THEN <<>>
                      ELSE r.reliable
  <2>1. \A q :
          /\ Processed(r, q).incoming_reliable_sequence =
               IF q.has_reliable THEN 1 - r.incoming_reliable_sequence
               ELSE r.incoming_reliable_sequence
          /\ Processed(r, q).reliable_sequence = r.reliable_sequence
          /\ Processed(r, q).message = r.message
          /\ Processed(r, q).reliable =
               IF q.reliable_ack = r.reliable_sequence THEN <<>> ELSE r.reliable
    BY ReceivedFields
  <2> QED
    BY <2>1
<1> HIDE DEF t
<1>2. /\ c.reliable_sequence \in {0, 1} /\ r.incoming_reliable_sequence \in {0, 1}
      /\ c.message \in Seq(A)
  BY Numbers1
<1>3. /\ OneCopy(c, r, P) /\ LastAckTrue(c, r) /\ AcksTrue(r, c, P)
  BY DEF Sound
<1>4. Undelivered(t, c) = Undelivered(r, c)
  <2>1. Got(t, c) <=> Got(r, c)
    BY <1>1 DEF Got
  <2>2. ~Got(r, c) => t.reliable = r.reliable
    BY <1>1, <1>3 DEF AcksTrue
  <2> QED
    BY <2>1, <2>2, <1>1 DEF Undelivered, Unreceived
<1>5. /\ Unreceived(c, r) = p.packet.payload
      /\ p.packet.payload # <<>>
      /\ Unreceived(c, t) = <<>>
      /\ Undelivered(c, t) = c.message
  <2>1. ~Got(c, r) /\ p.packet.payload = c.reliable
    BY <1>3 DEF OneCopy
  <2>2. c.reliable # <<>>
    BY <2>1, <1>3 DEF LastAckTrue
  <2>3. Got(c, t)
    BY <2>1, <1>1, <1>2 DEF Got
  <2>4. Unreceived(c, t) = <<>>
    BY <2>3 DEF Unreceived
  <2>5. <<>> \o c.message = c.message
    BY <1>2
  <2>6. Unreceived(c, r) = c.reliable
    BY <2>1 DEF Unreceived
  <2>7. Undelivered(c, t) = c.message
    BY <2>4, <2>5 DEF Undelivered
  <2> QED
    BY <2>1, <2>2, <2>4, <2>6, <2>7
<1> QED
  BY <1>4, <1>5 DEF t

LEMMA ReliableHolds ==
  ASSUME NEW A, NEW B, NEW c \in ChannelOf(A), NEW r \in ChannelOf(B),
         NEW P, NEW Q, Carries(P, A), Carries(Q, B),
         Sound(c, r, P, Q), Sound(r, c, Q, P), NEW p \in P, p.packet.has_reliable
  PROVE  p.packet.payload # <<>>
<1>1. OneCopy(c, r, P) /\ LastAckTrue(c, r)
  BY DEF Sound
<1>2. ~Got(c, r) /\ p.packet.payload = c.reliable
  BY <1>1 DEF OneCopy
<1> QED
  BY <1>1, <1>2 DEF LastAckTrue

LEMMA UnreliableReceived ==
  ASSUME NEW A, NEW B, NEW c \in ChannelOf(A), NEW r \in ChannelOf(B),
         NEW P, NEW Q, Carries(P, A), Carries(Q, B),
         Sound(c, r, P, Q), Sound(r, c, Q, P), NEW p \in P, ~p.packet.has_reliable
  PROVE  /\ Undelivered(Processed(r, p.packet), c) = Undelivered(r, c)
         /\ Undelivered(c, Processed(r, p.packet)) = Undelivered(c, r)
         /\ p.packet.payload = <<>>
<1> DEFINE t == Processed(r, p.packet)
<1>1. /\ t.incoming_reliable_sequence =
           IF p.packet.has_reliable THEN 1 - r.incoming_reliable_sequence
           ELSE r.incoming_reliable_sequence
      /\ t.reliable_sequence = r.reliable_sequence
      /\ t.message = r.message
      /\ t.reliable = IF p.packet.reliable_ack = r.reliable_sequence THEN <<>>
                      ELSE r.reliable
  <2>1. \A q :
          /\ Processed(r, q).incoming_reliable_sequence =
               IF q.has_reliable THEN 1 - r.incoming_reliable_sequence
               ELSE r.incoming_reliable_sequence
          /\ Processed(r, q).reliable_sequence = r.reliable_sequence
          /\ Processed(r, q).message = r.message
          /\ Processed(r, q).reliable =
               IF q.reliable_ack = r.reliable_sequence THEN <<>> ELSE r.reliable
    BY ReceivedFields
  <2> QED
    BY <2>1
<1> HIDE DEF t
<1>2. /\ c.reliable_sequence \in {0, 1} /\ r.incoming_reliable_sequence \in {0, 1}
      /\ c.message \in Seq(A)
  BY Numbers1
<1>3. /\ OneCopy(c, r, P) /\ LastAckTrue(c, r) /\ AcksTrue(r, c, P)
  BY DEF Sound
<1>4. Undelivered(t, c) = Undelivered(r, c)
  <2>1. Got(t, c) <=> Got(r, c)
    BY <1>1 DEF Got
  <2>2. ~Got(r, c) => t.reliable = r.reliable
    BY <1>1, <1>3 DEF AcksTrue
  <2> QED
    BY <2>1, <2>2, <1>1 DEF Undelivered, Unreceived
<1>5. p.packet.payload = <<>>
  BY <1>3 DEF OneCopy
<1>6. Undelivered(c, t) = Undelivered(c, r)
  BY <1>1 DEF Undelivered, Unreceived, Got
<1> QED
  BY <1>4, <1>5, <1>6 DEF t

LEMMA UndeliveredMessage ==
  ASSUME NEW S, NEW c \in ChannelOf(S), NEW r, NEW m
  PROVE  /\ Undelivered(Saying(c, m), r) = Unreceived(c, r) \o m
         /\ Undelivered(r, Saying(c, m)) = Undelivered(r, c)
<1> DEFINE d == Saying(c, m)
<1>1. /\ d.incoming_reliable_sequence = c.incoming_reliable_sequence
      /\ d.reliable_sequence = c.reliable_sequence
      /\ d.reliable = c.reliable
      /\ d.message = m
  BY DEF ChannelOf, Saying
<1> HIDE DEF d
<1>2. Undelivered(d, r) = Unreceived(c, r) \o m
  BY <1>1 DEF Undelivered, Unreceived, Got
<1>3. Undelivered(r, d) = Undelivered(r, c)
  BY <1>1 DEF Undelivered, Unreceived, Got
<1> QED
  BY <1>2, <1>3 DEF d

-----------------------------------------------------------------------------
(* What is under way when the oldest datagram is taken, or one is added. *)

LEMMA TailIs ==
  ASSUME NEW S, NEW s \in Seq(S), Len(s) >= 1
  PROVE  /\ Tail(s) \in Seq(S)
         /\ Len(Tail(s)) = Len(s) - 1
         /\ \A i \in 1 .. Len(Tail(s)) : Tail(s)[i] = s[i + 1]
         /\ \A i \in 1 .. Len(Tail(s)) : i + 1 \in 1 .. Len(s)
         /\ 1 \in 1 .. Len(s)
         /\ \A i \in 1 .. Len(s) : i # 1 => i - 1 \in 1 .. Len(Tail(s))
                                          /\ s[i] = Tail(s)[i - 1]
  BY s # <<>>

LEMMA AddedIs ==
  ASSUME NEW S, NEW s \in Seq(S), NEW d \in S
  PROVE  /\ s \o <<d>> \in Seq(S)
         /\ Len(s \o <<d>>) = Len(s) + 1
         /\ \A i \in 1 .. Len(s) : (s \o <<d>>)[i] = s[i]
         /\ (s \o <<d>>)[Len(s) + 1] = d
         /\ 1 .. Len(s \o <<d>>) = (1 .. Len(s)) \cup {Len(s) + 1}
         /\ Len(s) \in Nat
  OBVIOUS

LEMMA TailToClient ==
  ASSUME NEW S, NEW V \in Seq(S), Len(V) >= 1, NEW n
  PROVE  /\ ToClientIn(Tail(V), n) \subseteq ToClientIn(V, n)
         /\ \A d \in ToClientIn(V, n) : d \in ToClientIn(Tail(V), n) \/ d = V[1]
         /\ V[1].op # "client_connect" =>
              (AnsweredIn(Tail(V)) <=> AnsweredIn(V))
         /\ InOrder(V) => InOrder(Tail(V))
<1> DEFINE T == Tail(V)
<1>1. /\ T \in Seq(S)
      /\ Len(T) = Len(V) - 1
      /\ \A i \in 1 .. Len(T) : T[i] = V[i + 1]
      /\ \A i \in 1 .. Len(T) : i + 1 \in 1 .. Len(V)
      /\ 1 \in 1 .. Len(V)
      /\ \A i \in 1 .. Len(V) : i # 1 => i - 1 \in 1 .. Len(T) /\ V[i] = T[i - 1]
  BY TailIs
<1> HIDE DEF T
<1>2. ASSUME NEW i \in 1 .. Len(T)
      PROVE  CurrentIn(T, i) <=> CurrentIn(V, i + 1)
  <2>1. ASSUME CurrentIn(T, i), NEW j \in i + 1 .. Len(V)
        PROVE  V[j].op # "client_connect"
    <3>1. j \in 1 .. Len(V) /\ j # 1 /\ j - 1 \in i .. Len(T)
      BY <1>1
    <3> QED
      BY <2>1, <3>1, <1>1 DEF CurrentIn
  <2>2. ASSUME CurrentIn(V, i + 1), NEW j \in i .. Len(T)
        PROVE  T[j].op # "client_connect"
    <3>1. j \in 1 .. Len(T) /\ j + 1 \in i + 1 .. Len(V)
      BY <1>1
    <3> QED
      BY <2>2, <3>1, <1>1 DEF CurrentIn
  <2> QED
    BY <2>1, <2>2 DEF CurrentIn
<1>3. \A d : d \in Range(V) <=> \E i \in 1 .. Len(V) : d = V[i]
  BY DEF Range
<1>4. \A d : d \in Range(T) <=> \E i \in 1 .. Len(T) : d = T[i]
  BY <1>1 DEF Range
<1>5. ToClientIn(T, n) \subseteq ToClientIn(V, n)
  <2> SUFFICES ASSUME NEW d \in ToClientIn(T, n)
               PROVE  d \in ToClientIn(V, n)
    OBVIOUS
  <2>1. PICK i \in 1 .. Len(T) : /\ d = T[i]
                                 /\ d.op = "sequenced"
                                 /\ d.unreliable # Disconnect
                                 /\ CurrentIn(T, i)
                                 /\ n < d.packet.sequence
    BY DEF ToClientIn
  <2>2. /\ i + 1 \in 1 .. Len(V) /\ d = V[i + 1]
        /\ CurrentIn(V, i + 1)
    BY <2>1, <1>1, <1>2
  <2> QED
    BY <2>1, <2>2, <1>3 DEF ToClientIn
<1>6. ASSUME NEW d \in ToClientIn(V, n), d # V[1]
      PROVE  d \in ToClientIn(T, n)
  <2>1. PICK i \in 1 .. Len(V) : /\ d = V[i]
                                 /\ d.op = "sequenced"
                                 /\ d.unreliable # Disconnect
                                 /\ CurrentIn(V, i)
                                 /\ n < d.packet.sequence
    BY DEF ToClientIn
  <2>2. i # 1 /\ i - 1 \in 1 .. Len(T) /\ d = T[i - 1] /\ (i - 1) + 1 = i
    BY <2>1, <1>1, <1>6
  <2>3. CurrentIn(T, i - 1)
    BY <2>1, <2>2, <1>2
  <2> QED
    BY <2>1, <2>2, <2>3, <1>4 DEF ToClientIn
<1>7. V[1].op # "client_connect" => (AnsweredIn(T) <=> AnsweredIn(V))
  <2>1. AnsweredIn(T) => AnsweredIn(V)
    BY <1>1 DEF AnsweredIn
  <2>2. ASSUME AnsweredIn(V), V[1].op # "client_connect"
        PROVE  AnsweredIn(T)
    <3>1. PICK j \in 1 .. Len(V) : V[j].op = "client_connect"
      BY <2>2 DEF AnsweredIn
    <3>2. j - 1 \in 1 .. Len(T) /\ V[j] = T[j - 1]
      BY <3>1, <2>2, <1>1
    <3> QED
      BY <3>1, <3>2 DEF AnsweredIn
  <2> QED
    BY <2>1, <2>2
<1>8. ASSUME InOrder(V)
      PROVE  InOrder(T)
  <2> SUFFICES ASSUME NEW i \in 1 .. Len(T), CurrentIn(T, i)
               PROVE  /\ ~Leaves(T[i])
                      /\ \A j \in 1 .. Len(T) :
                           /\ i < j
                           /\ T[i].op = "sequenced"
                           /\ T[j].op = "sequenced"
                           => T[i].packet.sequence < T[j].packet.sequence
    BY DEF InOrder
  <2>1. i + 1 \in 1 .. Len(V) /\ T[i] = V[i + 1] /\ CurrentIn(V, i + 1)
    BY <1>1, <1>2
  <2>2. ~Leaves(T[i])
    BY <2>1, <1>8 DEF InOrder
  <2>3. ASSUME NEW j \in 1 .. Len(T), i < j, T[i].op = "sequenced",
               T[j].op = "sequenced"
        PROVE  T[i].packet.sequence < T[j].packet.sequence
    <3>1. j + 1 \in 1 .. Len(V) /\ T[j] = V[j + 1] /\ i + 1 < j + 1
      BY <2>3, <1>1
    <3> QED
      BY <2>1, <2>3, <3>1, <1>8 DEF InOrder
  <2> QED
    BY <2>2, <2>3
<1> QED
  BY <1>5, <1>6, <1>7, <1>8 DEF T

LEMMA AddedToClient ==
  ASSUME NEW S, NEW V \in Seq(S), NEW d \in S, NEW n
  PROVE  /\ d.op # "client_connect" =>
              /\ ToClientIn(V, n) \subseteq ToClientIn(V \o <<d>>, n)
              /\ ToClientIn(V \o <<d>>, n) \subseteq ToClientIn(V, n) \cup {d}
              /\ d.op # "sequenced" \/ d.unreliable = Disconnect =>
                   ToClientIn(V \o <<d>>, n) \subseteq ToClientIn(V, n)
              /\ AnsweredIn(V \o <<d>>) <=> AnsweredIn(V)
              /\ /\ InOrder(V)
                 /\ ~Leaves(d)
                 /\ \A i \in 1 .. Len(V) :
                      CurrentIn(V, i) /\ V[i].op = "sequenced" /\ d.op = "sequenced"
                        => V[i].packet.sequence < d.packet.sequence
                 => InOrder(V \o <<d>>)
         /\ /\ d.op = "sequenced"
            /\ d.unreliable # Disconnect
            /\ n < d.packet.sequence
            => d \in ToClientIn(V \o <<d>>, n)
         /\ d.op = "client_connect" =>
              /\ ToClientIn(V \o <<d>>, n) = {}
              /\ AnsweredIn(V \o <<d>>)
              /\ InOrder(V \o <<d>>)
<1> DEFINE T == V \o <<d>>
           m == Len(V) + 1
<1>1. /\ T \in Seq(S)
      /\ Len(T) = m
      /\ \A i \in 1 .. Len(V) : T[i] = V[i]
      /\ T[m] = d
      /\ 1 .. Len(T) = (1 .. Len(V)) \cup {m}
      /\ Len(V) \in Nat
  BY AddedIs
<1> HIDE DEF T
<1>2. \A x : x \in Range(V) <=> \E i \in 1 .. Len(V) : x = V[i]
  BY DEF Range
<1>3. \A x : x \in Range(T) <=> \E i \in 1 .. Len(T) : x = T[i]
  BY <1>1 DEF Range
<1>4. ASSUME d.op # "client_connect"
      PROVE  /\ \A i \in 1 .. Len(V) : CurrentIn(T, i) <=> CurrentIn(V, i)
             /\ ToClientIn(V, n) \subseteq ToClientIn(T, n)
             /\ ToClientIn(T, n) \subseteq ToClientIn(V, n) \cup {d}
             /\ d.op # "sequenced" \/ d.unreliable = Disconnect =>
                  ToClientIn(T, n) \subseteq ToClientIn(V, n)
             /\ AnsweredIn(T) <=> AnsweredIn(V)
  <2>1. ASSUME NEW i \in 1 .. Len(V)
        PROVE  CurrentIn(T, i) <=> CurrentIn(V, i)
    <3>1. i .. Len(T) = (i .. Len(V)) \cup {m} /\ \A j \in i .. Len(V) : j \in 1 .. Len(V)
      BY <1>1
    <3> QED
      BY <3>1, <1>1, <1>4 DEF CurrentIn
  <2>2. ToClientIn(V, n) \subseteq ToClientIn(T, n)
    BY <2>1, <1>1, <1>3 DEF ToClientIn
  <2>3. ASSUME NEW x \in ToClientIn(T, n)
        PROVE  \/ x \in ToClientIn(V, n)
               \/ x = d /\ d.op = "sequenced" /\ d.unreliable # Disconnect
    <3>1. PICK i \in 1 .. Len(T) : /\ x = T[i]
                                   /\ x.op = "sequenced"
                                   /\ x.unreliable # Disconnect
                                   /\ CurrentIn(T, i)
                                   /\ n < x.packet.sequence
      BY DEF ToClientIn
    <3>2. CASE i = m
      BY <3>1, <3>2, <1>1
    <3>3. CASE i # m
      <4>1. i \in 1 .. Len(V) /\ x = V[i] /\ CurrentIn(V, i)
        BY <3>1, <3>3, <2>1, <1>1
      <4> QED
        BY <3>1, <4>1, <1>2 DEF ToClientIn
    <3> QED
      BY <3>2, <3>3
  <2>4. AnsweredIn(T) <=> AnsweredIn(V)
    BY <1>1, <1>4 DEF AnsweredIn
  <2> QED
    BY <2>1, <2>2, <2>3, <2>4
<1>5. ASSUME d.op # "client_connect", InOrder(V), ~Leaves(d),
             \A i \in 1 .. Len(V) :
               CurrentIn(V, i) /\ V[i].op = "sequenced" /\ d.op = "sequenced"
                 => V[i].packet.sequence < d.packet.sequence
      PROVE  InOrder(T)
  <2> SUFFICES ASSUME NEW i \in 1 .. Len(T), CurrentIn(T, i)
               PROVE  /\ ~Leaves(T[i])
                      /\ \A j \in 1 .. Len(T) :
                           /\ i < j
                           /\ T[i].op = "sequenced"
                           /\ T[j].op = "sequenced"
                           => T[i].packet.sequence < T[j].packet.sequence
    BY DEF InOrder
  <2>1. CASE i = m
    <3>1. \A j \in 1 .. Len(T) : ~(i < j)
      BY <2>1, <1>1
    <3> QED
      BY <2>1, <3>1, <1>1, <1>5
  <2>2. CASE i # m
    <3>1. i \in 1 .. Len(V) /\ T[i] = V[i] /\ CurrentIn(V, i)
      BY <2>2, <1>1, <1>4, <1>5
    <3>2. ~Leaves(T[i])
      BY <3>1, <1>5 DEF InOrder
    <3>3. ASSUME NEW j \in 1 .. Len(T), i < j, T[i].op = "sequenced",
                 T[j].op = "sequenced"
          PROVE  T[i].packet.sequence < T[j].packet.sequence
      <4>1. CASE j = m
        BY <4>1, <3>1, <3>3, <1>1, <1>5
      <4>2. CASE j # m
        <5>1. j \in 1 .. Len(V) /\ T[j] = V[j]
          BY <4>2, <1>1
        <5> QED
          BY <5>1, <3>1, <3>3, <1>5 DEF InOrder
      <4> QED
        BY <4>1, <4>2
    <3> QED
      BY <3>2, <3>3
  <2> QED
    BY <2>1, <2>2
<1>6. ASSUME d.op = "sequenced", d.unreliable # Disconnect,
             n < d.packet.sequence
      PROVE  d \in ToClientIn(T, n)
  <2>1. CurrentIn(T, m)
    <3>1. \A j \in m .. Len(T) : j = m
      BY <1>1
    <3> QED
      BY <3>1, <1>1, <1>6 DEF CurrentIn
  <2>2. m \in 1 .. Len(T) /\ d \in Range(T)
    BY <1>1, <1>3
  <2> QED
    BY <2>1, <2>2, <1>1, <1>6 DEF ToClientIn
<1>7. ASSUME d.op = "client_connect"
      PROVE  /\ ToClientIn(T, n) = {}
             /\ AnsweredIn(T)
             /\ InOrder(T)
  <2>1. \A i \in 1 .. Len(T) : ~CurrentIn(T, i)
    <3> TAKE i \in 1 .. Len(T)
    <3>1. m \in i .. Len(T)
      BY <1>1
    <3> QED
      BY <3>1, <1>1, <1>7 DEF CurrentIn
  <2>2. m \in 1 .. Len(T)
    BY <1>1
  <2> QED
    BY <2>1, <2>2, <1>1, <1>7 DEF ToClientIn, InOrder, AnsweredIn
<1> QED
  BY <1>4, <1>5, <1>6, <1>7 DEF T

LEMMA TailToServer ==
  ASSUME NEW S, NEW W \in Seq(S), Len(W) >= 1, NEW n \in Int, NEW m \in Int, n <= m,
         \A i \in 1 .. Len(W) : W[i].op = "sequenced" => W[i].packet.sequence \in Int,
         n = m \/ ~ResidualIn(W, n, 1)
  PROVE  ToServerIn(Tail(W), m) \subseteq ToServerIn(W, n)
<1> DEFINE T == Tail(W)
<1>1. /\ T \in Seq(S)
      /\ Len(T) = Len(W) - 1
      /\ \A i \in 1 .. Len(T) : T[i] = W[i + 1]
      /\ \A i \in 1 .. Len(T) : i + 1 \in 1 .. Len(W)
      /\ 1 \in 1 .. Len(W)
      /\ \A i \in 1 .. Len(W) : i # 1 => i - 1 \in 1 .. Len(T) /\ W[i] = T[i - 1]
  BY TailIs
<1> HIDE DEF T
<1>2. ASSUME NEW i \in 1 .. Len(T), ResidualIn(W, n, i + 1)
      PROVE  ResidualIn(T, m, i)
  <2>1. 1 \in 1 .. i + 1
    OBVIOUS
  <2>2. ResidualIn(W, n, 1)
    <3>1. \A j \in 1 .. 1 : j \in 1 .. i + 1
      OBVIOUS
    <3> QED
      BY <3>1, <1>2 DEF ResidualIn
  <2>3. m = 0
    BY <2>2, <1>2 DEF ResidualIn
  <2>4. ASSUME NEW j \in 1 .. i, T[j].op = "sequenced"
        PROVE  Leaves(T[j])
    <3>1. j \in 1 .. Len(T) /\ j + 1 \in 1 .. i + 1
      BY <1>1
    <3>2. T[j] = W[j + 1]
      BY <3>1, <1>1
    <3> QED
      BY <3>1, <3>2, <2>4, <1>2 DEF ResidualIn
  <2> QED
    BY <2>3, <2>4 DEF ResidualIn
<1> SUFFICES ASSUME NEW d \in ToServerIn(T, m)
             PROVE  d \in ToServerIn(W, n)
  BY DEF T
<1>3. PICK i \in 1 .. Len(T) : /\ d = T[i]
                               /\ d.op = "sequenced"
                               /\ ~ResidualIn(T, m, i)
                               /\ m < d.packet.sequence
  BY DEF ToServerIn
<1>4. i + 1 \in 1 .. Len(W) /\ d = W[i + 1] /\ ~ResidualIn(W, n, i + 1)
  BY <1>1, <1>2, <1>3
<1>5. n < d.packet.sequence
  BY <1>3, <1>4
<1>6. d \in Range(W)
  BY <1>4 DEF Range
<1> QED
  BY <1>3, <1>4, <1>5, <1>6 DEF ToServerIn

LEMMA AddedToServer ==
  ASSUME NEW S, NEW W \in Seq(S), NEW d \in S, NEW n
  PROVE  /\ ToServerIn(W \o <<d>>, n) \subseteq ToServerIn(W, n) \cup {d}
         /\ d.op # "sequenced" =>
              ToServerIn(W \o <<d>>, n) \subseteq ToServerIn(W, n)
         /\ OnlyLeaves(W) /\ (d.op = "sequenced" => Leaves(d)) =>
              OnlyLeaves(W \o <<d>>)
         /\ Brief(W) /\ (d.op = "sequenced" => Len(d.packet.payload) <= 1) =>
              Brief(W \o <<d>>)
<1> DEFINE T == W \o <<d>>
           m == Len(W) + 1
<1>1. /\ T \in Seq(S)
      /\ Len(T) = m
      /\ \A i \in 1 .. Len(W) : T[i] = W[i]
      /\ T[m] = d
      /\ 1 .. Len(T) = (1 .. Len(W)) \cup {m}
      /\ Len(W) \in Nat
  BY AddedIs
<1> HIDE DEF T
<1>2. ASSUME NEW i \in 1 .. Len(W)
      PROVE  ResidualIn(T, n, i) <=> ResidualIn(W, n, i)
  <2>1. \A j \in 1 .. i : T[j] = W[j]
    BY <1>1
  <2> QED
    BY <2>1 DEF ResidualIn
<1>3. ASSUME NEW x \in ToServerIn(T, n)
      PROVE  x \in ToServerIn(W, n) \/ (x = d /\ d.op = "sequenced")
  <2>1. PICK i \in 1 .. Len(T) : /\ x = T[i]
                                 /\ x.op = "sequenced"
                                 /\ ~ResidualIn(T, n, i)
                                 /\ n < x.packet.sequence
    BY DEF ToServerIn
  <2>2. CASE i = m
    BY <2>1, <2>2, <1>1
  <2>3. CASE i # m
    <3>1. i \in 1 .. Len(W) /\ x = W[i] /\ ~ResidualIn(W, n, i)
      BY <2>1, <2>3, <1>1, <1>2
    <3>2. x \in Range(W)
      BY <3>1 DEF Range
    <3> QED
      BY <2>1, <3>1, <3>2 DEF ToServerIn
  <2> QED
    BY <2>2, <2>3
<1>4. ASSUME OnlyLeaves(W), d.op = "sequenced" => Leaves(d)
      PROVE  OnlyLeaves(T)
  BY <1>1, <1>4 DEF OnlyLeaves
<1>5. ASSUME Brief(W), d.op = "sequenced" => Len(d.packet.payload) <= 1
      PROVE  Brief(T)
  BY <1>1, <1>5 DEF Brief
<1> QED
  BY <1>3, <1>4, <1>5 DEF T

LEMMA TailLeaves ==
  ASSUME NEW S, NEW W \in Seq(S), Len(W) >= 1
  PROVE  /\ OnlyLeaves(W) => OnlyLeaves(Tail(W))
         /\ Brief(W) => Brief(Tail(W))
<1>1. \A i \in 1 .. Len(Tail(W)) : /\ Tail(W)[i] = W[i + 1]
                                   /\ i + 1 \in 1 .. Len(W)
  BY TailIs
<1>2. OnlyLeaves(W) => OnlyLeaves(Tail(W))
  BY <1>1 DEF OnlyLeaves
<1>3. Brief(W) => Brief(Tail(W))
  BY <1>1 DEF Brief
<1> QED
  BY <1>2, <1>3

(* After a connect the server accepts nothing of what was there before.     *)
LEMMA OnlyResidual ==
  ASSUME NEW W, OnlyLeaves(W)
  PROVE  ToServerIn(W, 0) = {}
<1>1. ASSUME NEW i \in 1 .. Len(W)
      PROVE  ResidualIn(W, 0, i)
  <2>1. \A j \in 1 .. i : j \in 1 .. Len(W)
    OBVIOUS
  <2> QED
    BY <2>1 DEF ResidualIn, OnlyLeaves
<1> QED
  BY <1>1 DEF ToServerIn

-----------------------------------------------------------------------------
(* The attempt to connect. *)

LEMMA AttemptTail ==
  ASSUME NEW A, NEW B, NEW V \in Seq(A), NEW W \in Seq(B), OneAttempt(V, W)
  PROVE  /\ Len(V) >= 1 => /\ OneAttempt(Tail(V), W)
                           /\ Attempting(Tail(V), W) => Attempting(V, W)
         /\ Len(W) >= 1 => /\ OneAttempt(V, Tail(W))
                           /\ Attempting(V, Tail(W)) => Attempting(V, W)
<1>1. ASSUME Len(V) >= 1
      PROVE  /\ OneAttempt(Tail(V), W)
             /\ Attempting(Tail(V), W) => Attempting(V, W)
  <2> DEFINE T == Tail(V)
  <2>1. \A i \in 1 .. Len(T) : T[i] = V[i + 1] /\ i + 1 \in 1 .. Len(V)
    BY <1>1, TailIs
  <2>2. \A i, j \in 1 .. Len(T) : i + 1 = j + 1 => i = j
    OBVIOUS
  <2> HIDE DEF T
  <2> QED
    <3>1. Attempting(T, W) => Attempting(V, W)
      BY <2>1 DEF Attempting
    <3>2. \A i, j \in 1 .. Len(T) :
            T[i].op \in OutOfBandOps /\ T[j].op \in OutOfBandOps => i = j
      BY <2>1, <2>2 DEF OneAttempt
    <3>3. OneAttempt(T, W)
      BY <2>1, <3>2 DEF OneAttempt
    <3> QED
      BY <3>1, <3>3 DEF T
<1>2. ASSUME Len(W) >= 1
      PROVE  /\ OneAttempt(V, Tail(W))
             /\ Attempting(V, Tail(W)) => Attempting(V, W)
  <2> DEFINE T == Tail(W)
  <2>1. \A i \in 1 .. Len(T) : T[i] = W[i + 1] /\ i + 1 \in 1 .. Len(W)
    BY <1>2, TailIs
  <2>2. \A i, j \in 1 .. Len(T) : /\ i + 1 = j + 1 => i = j
                                  /\ i < j => i + 1 < j + 1
    OBVIOUS
  <2>3. OnlyLeaves(W) => OnlyLeaves(T)
    BY <1>2, TailLeaves
  <2> HIDE DEF T
  <2>4. Attempting(V, T) => Attempting(V, W)
    BY <2>1 DEF Attempting
  <2>5. \A i, j \in 1 .. Len(T) :
          T[i].op \in OutOfBandOps /\ T[j].op \in OutOfBandOps => i = j
    BY <2>1, <2>2 DEF OneAttempt
  <2>6. \A i, j \in 1 .. Len(T) :
          T[i].op = "get_challenge" /\ i < j => Leaves(T[j])
    BY <2>1, <2>2 DEF OneAttempt
  <2>7. \A i \in 1 .. Len(V) : \A j \in 1 .. Len(T) :
          ~(V[i].op \in OutOfBandOps /\ T[j].op \in OutOfBandOps)
    BY <2>1 DEF OneAttempt
  <2>8. (\/ \E i \in 1 .. Len(V) : V[i].op \in OutOfBandOps
         \/ \E i \in 1 .. Len(T) : T[i].op = "connect")
          => OnlyLeaves(T)
    BY <2>1, <2>3 DEF OneAttempt
  <2>9. \A i, j \in 1 .. Len(V) :
          V[i].op \in OutOfBandOps /\ V[j].op \in OutOfBandOps => i = j
    BY DEF OneAttempt
  <2>10. OneAttempt(V, T)
    BY <2>5, <2>6, <2>7, <2>8, <2>9 DEF OneAttempt
  <2> QED
    BY <2>4, <2>10 DEF T
<1> QED
  BY <1>1, <1>2

(* A datagram of a channel is no part of it.                                *)
LEMMA AttemptSequenced ==
  ASSUME NEW A, NEW B, NEW V \in Seq(A), NEW W \in Seq(B), OneAttempt(V, W)
  PROVE  /\ \A d \in A : d.op = "sequenced" =>
              /\ OneAttempt(V \o <<d>>, W)
              /\ Attempting(V \o <<d>>, W) => Attempting(V, W)
         /\ \A d \in B : d.op = "sequenced" /\ (Leaves(d) \/ ~Attempting(V, W)) =>
              /\ OneAttempt(V, W \o <<d>>)
              /\ Attempting(V, W \o <<d>>) => Attempting(V, W)
<1>1. ASSUME NEW d \in A, d.op = "sequenced"
      PROVE  /\ OneAttempt(V \o <<d>>, W)
             /\ Attempting(V \o <<d>>, W) => Attempting(V, W)
  <2> DEFINE T == V \o <<d>>
             m == Len(V) + 1
  <2>1. /\ \A i \in 1 .. Len(V) : T[i] = V[i]
        /\ T[m] = d
        /\ 1 .. Len(T) = (1 .. Len(V)) \cup {m}
    BY AddedIs
  <2> HIDE DEF T, m
  <2>2. \A i \in 1 .. Len(T) : T[i].op \in OutOfBandOps =>
          i \in 1 .. Len(V) /\ V[i].op \in OutOfBandOps
    BY <2>1, <1>1 DEF OutOfBandOps
  <2>3. Attempting(T, W) => Attempting(V, W)
    BY <2>2 DEF Attempting
  <2>4. OneAttempt(T, W)
    BY <2>2 DEF OneAttempt
  <2> QED
    BY <2>3, <2>4 DEF T
<1>2. ASSUME NEW d \in B, d.op = "sequenced", Leaves(d) \/ ~Attempting(V, W)
      PROVE  /\ OneAttempt(V, W \o <<d>>)
             /\ Attempting(V, W \o <<d>>) => Attempting(V, W)
  <2> DEFINE T == W \o <<d>>
             m == Len(W) + 1
  <2>1. /\ \A i \in 1 .. Len(W) : T[i] = W[i]
        /\ T[m] = d
        /\ 1 .. Len(T) = (1 .. Len(W)) \cup {m}
    BY AddedIs
  <2>2. OnlyLeaves(W) /\ Leaves(d) => OnlyLeaves(T)
    BY AddedToServer
  <2> HIDE DEF T, m
  <2>3. \A i \in 1 .. Len(T) : T[i].op \in OutOfBandOps =>
          i \in 1 .. Len(W) /\ W[i].op \in OutOfBandOps /\ T[i] = W[i]
    BY <2>1, <1>2 DEF OutOfBandOps
  <2>4. Attempting(V, T) => Attempting(V, W)
    BY <2>3 DEF Attempting
  <2>5. \A i, j \in 1 .. Len(T) :
          T[i].op \in OutOfBandOps /\ T[j].op \in OutOfBandOps => i = j
    BY <2>3 DEF OneAttempt
  <2>6. \A i \in 1 .. Len(V) : \A j \in 1 .. Len(T) :
          ~(V[i].op \in OutOfBandOps /\ T[j].op \in OutOfBandOps)
    BY <2>3 DEF OneAttempt
  <2>7. ASSUME NEW i \in 1 .. Len(T), NEW j \in 1 .. Len(T),
               T[i].op = "get_challenge", i < j
        PROVE  Leaves(T[j])
    <3>1. i \in 1 .. Len(W) /\ W[i].op = "get_challenge"
      BY <2>3, <2>7 DEF OutOfBandOps
    <3>2. Attempting(V, W)
      BY <3>1 DEF Attempting, OutOfBandOps
    <3>3. Leaves(d)
      BY <3>2, <1>2
    <3> QED
      BY <2>1, <2>7, <3>1, <3>3 DEF OneAttempt
  <2>8. (\/ \E i \in 1 .. Len(V) : V[i].op \in OutOfBandOps
         \/ \E i \in 1 .. Len(T) : T[i].op = "connect")
          => OnlyLeaves(T)
    <3>1. SUFFICES ASSUME \/ \E i \in 1 .. Len(V) : V[i].op \in OutOfBandOps
                          \/ \E i \in 1 .. Len(T) : T[i].op = "connect"
                   PROVE  OnlyLeaves(T)
      OBVIOUS
    <3>2. \/ \E i \in 1 .. Len(V) : V[i].op \in OutOfBandOps
          \/ \E i \in 1 .. Len(W) : W[i].op = "connect"
      BY <3>1, <2>3 DEF OutOfBandOps
    <3>3. Attempting(V, W)
      BY <3>2 DEF Attempting, OutOfBandOps
    <3>4. OnlyLeaves(W)
      BY <3>2 DEF OneAttempt
    <3> QED
      BY <3>3, <3>4, <2>2, <1>2
  <2>9. \A i, j \in 1 .. Len(V) :
          V[i].op \in OutOfBandOps /\ V[j].op \in OutOfBandOps => i = j
    BY DEF OneAttempt
  <2>10. OneAttempt(V, T)
    BY <2>5, <2>6, <2>7, <2>8, <2>9 DEF OneAttempt
  <2> QED
    BY <2>4, <2>10 DEF T
<1> QED
  BY <1>1, <1>2

(* From nothing to a challenge asked for.                                   *)
LEMMA AttemptAsk ==
  ASSUME NEW A, NEW B, NEW V \in Seq(A), NEW W \in Seq(B), ~Attempting(V, W),
         NEW d \in B, d.op = "get_challenge"
  PROVE  OneAttempt(V, W \o <<d>>)
<1> DEFINE T == W \o <<d>>
           m == Len(W) + 1
<1>1. /\ \A i \in 1 .. Len(W) : T[i] = W[i]
      /\ T[m] = d
      /\ 1 .. Len(T) = (1 .. Len(W)) \cup {m}
      /\ \A i \in 1 .. Len(T) : i <= m
  BY AddedIs
<1> HIDE DEF T, m
<1>2. \A i \in 1 .. Len(V) : V[i].op \notin OutOfBandOps
  BY DEF Attempting
<1>3. \A i \in 1 .. Len(T) : T[i].op \in OutOfBandOps => i = m
  BY <1>1 DEF Attempting
<1>4. \A i \in 1 .. Len(T) : T[i].op # "connect"
  BY <1>1, <1>3 DEF OutOfBandOps
<1>5. \A i, j \in 1 .. Len(T) : T[i].op = "get_challenge" => ~(i < j)
  <2> SUFFICES ASSUME NEW i \in 1 .. Len(T), NEW j \in 1 .. Len(T),
                      T[i].op = "get_challenge"
               PROVE  ~(i < j)
    OBVIOUS
  <2>1. i = m /\ j <= m
    BY <1>1, <1>3 DEF OutOfBandOps
  <2>2. m \in Int
    BY DEF m
  <2> QED
    BY <2>1, <2>2
<1>6. OneAttempt(V, T)
  BY <1>2, <1>3, <1>4, <1>5 DEF OneAttempt
<1> QED
  BY <1>6 DEF T

(* The answer takes the place of what it answers.                           *)
LEMMA AttemptAnswer ==
  ASSUME NEW A, NEW B, NEW V \in Seq(A), NEW W \in Seq(B), OneAttempt(V, W),
         Len(W) >= 1, W[1].op \in {"get_challenge", "connect"},
         NEW d \in A, d.op \in {"challenge", "client_connect"}
  PROVE  OneAttempt(V \o <<d>>, Tail(W)) /\ OnlyLeaves(Tail(W))
<1> DEFINE T == Tail(W)
           R == V \o <<d>>
           m == Len(V) + 1
<1>1. /\ \A i \in 1 .. Len(V) : R[i] = V[i]
      /\ R[m] = d
      /\ 1 .. Len(R) = (1 .. Len(V)) \cup {m}
  BY AddedIs
<1>2. /\ \A i \in 1 .. Len(T) : T[i] = W[i + 1] /\ i + 1 \in 1 .. Len(W)
      /\ 1 \in 1 .. Len(W)
      /\ \A i \in 1 .. Len(T) : 1 < i + 1 /\ 1 # i + 1
  <2>1. \A i \in 1 .. Len(T) : 1 < i + 1 /\ 1 # i + 1
    OBVIOUS
  <2> QED
    BY <2>1, TailIs
<1>3. OnlyLeaves(W) => OnlyLeaves(T)
  BY TailLeaves
<1> HIDE DEF T, R, m
<1>4. W[1].op \in OutOfBandOps
  BY DEF OutOfBandOps
<1>5. \A i \in 1 .. Len(V) : V[i].op \notin OutOfBandOps
  BY <1>2, <1>4 DEF OneAttempt
<1>6. \A i \in 1 .. Len(T) : T[i].op \notin OutOfBandOps
  BY <1>2, <1>4 DEF OneAttempt
<1>7. OnlyLeaves(T)
  <2>1. CASE W[1].op = "get_challenge"
    BY <2>1, <1>2 DEF OneAttempt, OnlyLeaves
  <2>2. CASE W[1].op = "connect"
    BY <2>2, <1>2, <1>3 DEF OneAttempt
  <2> QED
    BY <2>1, <2>2
<1>8. \A i \in 1 .. Len(R) : R[i].op \in OutOfBandOps => i = m
  BY <1>1, <1>5
<1>9. \A i \in 1 .. Len(T) : T[i].op # "get_challenge"
  BY <1>6 DEF OutOfBandOps
<1>10. OneAttempt(R, T)
  BY <1>6, <1>7, <1>8, <1>9 DEF OneAttempt
<1> QED
  BY <1>7, <1>10 DEF R, T

(* So does the connect of the client; and a client that is let in is done.  *)
LEMMA AttemptConnect ==
  ASSUME NEW A, NEW B, NEW V \in Seq(A), NEW W \in Seq(B), OneAttempt(V, W),
         Len(V) >= 1, V[1].op \in {"challenge", "client_connect"}
  PROVE  /\ OnlyLeaves(W)
         /\ ~Attempting(Tail(V), W)
         /\ \A d \in B : d.op = "connect" => OneAttempt(Tail(V), W \o <<d>>)
<1> DEFINE T == Tail(V)
<1>1. /\ \A i \in 1 .. Len(T) : T[i] = V[i + 1] /\ i + 1 \in 1 .. Len(V)
      /\ 1 \in 1 .. Len(V)
      /\ \A i \in 1 .. Len(T) : 1 # i + 1
  <2>1. \A i \in 1 .. Len(T) : 1 # i + 1
    OBVIOUS
  <2> QED
    BY <2>1, TailIs
<1> HIDE DEF T
<1>2. V[1].op \in OutOfBandOps
  BY DEF OutOfBandOps
<1>3. \A i \in 1 .. Len(T) : T[i].op \notin OutOfBandOps
  BY <1>1, <1>2 DEF OneAttempt
<1>4. \A i \in 1 .. Len(W) : W[i].op \notin OutOfBandOps
  BY <1>1, <1>2 DEF OneAttempt
<1>5. OnlyLeaves(W)
  BY <1>1, <1>2 DEF OneAttempt
<1>6. ~Attempting(T, W)
  BY <1>3, <1>4 DEF Attempting
<1>7. ASSUME NEW d \in B, d.op = "connect"
      PROVE  OneAttempt(T, W \o <<d>>)
  <2> DEFINE R == W \o <<d>>
             m == Len(W) + 1
  <2>1. /\ \A i \in 1 .. Len(W) : R[i] = W[i]
        /\ R[m] = d
        /\ 1 .. Len(R) = (1 .. Len(W)) \cup {m}
    BY AddedIs
  <2>2. OnlyLeaves(R)
    BY <1>5, <1>7, AddedToServer
  <2> HIDE DEF R, m
  <2>3. \A i \in 1 .. Len(R) : R[i].op \in OutOfBandOps => i = m
    BY <2>1, <1>4
  <2>4. \A i \in 1 .. Len(R) : R[i].op # "get_challenge"
    BY <2>1, <1>4, <1>7 DEF OutOfBandOps
  <2>5. OneAttempt(T, R)
    BY <1>3, <2>2, <2>3, <2>4 DEF OneAttempt
  <2> QED
    BY <2>5 DEF R
<1> QED
  BY <1>5, <1>6, <1>7 DEF T

-----------------------------------------------------------------------------
(* What the invariant is about has its type. *)

LEMMA EmptyConcat ==
  ASSUME NEW S, NEW a \in Seq(S), NEW b \in Seq(S)
  PROVE  /\ a \o b = <<>> => a = <<>> /\ b = <<>>
         /\ a = <<>> => a \o b = b
         /\ b = <<>> => a \o b = a
         /\ a \o b \in Seq(S)
         /\ Len(a \o b) = Len(a) + Len(b)
<1>1. a \o b = <<>> => a = <<>> /\ b = <<>>
  <2>1. Len(a \o b) = Len(a) + Len(b) /\ Len(a) \in Nat /\ Len(b) \in Nat
    OBVIOUS
  <2>2. a \o b = <<>> => Len(a \o b) = 0
    OBVIOUS
  <2>3. (Len(a) = 0 => a = <<>>) /\ (Len(b) = 0 => b = <<>>)
    OBVIOUS
  <2>4. a \o b = <<>> => Len(a) = 0 /\ Len(b) = 0
    BY <2>1, <2>2
  <2> QED
    BY <2>3, <2>4
<1> QED
  BY <1>1

LEMMA ViewTypes ==
  ASSUME Types
  PROVE  /\ wire["client"] \in Seq(FromServer)
         /\ wire["server"] \in Seq(FromClient)
         /\ chan["client"] \in ChannelOf(Command)
         /\ ClientChannel \in ChannelOf(Command)
         /\ chan["server"] \in ChannelOf(ServerCommand)
         /\ ClientTexts \in Seq(ClientText)
         /\ Carries(ToClient, ServerCommand)
         /\ Carries(ToServer, Command)
         /\ \A d \in ToClient : /\ d.op = "sequenced"
                                /\ d.unreliable \in {Nothing, Reconnect} \cup Frames
                                /\ ClientChannel.incoming_sequence < d.packet.sequence
<1>1. /\ wire["client"] \in Seq(FromServer)
      /\ wire["server"] \in Seq(FromClient)
      /\ chan["client"] \in ChannelOf(Command)
      /\ chan["server"] \in ChannelOf(ServerCommand)
      /\ cbuf \in Seq(ClientText)
  BY DEF Types, WireTypes, ChannelTypes, ClientTypes
<1>2. ClientChannel \in ChannelOf(Command)
  BY <1>1, NewClientChannelIs DEF ClientChannel
<1>3. ClientTexts \in Seq(ClientText)
  BY <1>1 DEF ClientTexts
<1>4. ASSUME NEW d \in ToClient
      PROVE  /\ d.op = "sequenced"
             /\ d.packet \in PacketOf(ServerCommand)
             /\ d.unreliable \in {Nothing, Reconnect} \cup Frames
             /\ ClientChannel.incoming_sequence < d.packet.sequence
  <2>1. /\ d \in Range(wire["client"])
        /\ d.op = "sequenced" /\ d.unreliable # Disconnect
        /\ ClientChannel.incoming_sequence < d.packet.sequence
    BY DEF ToClient, ToClientIn
  <2>2. d \in FromServer
    BY <1>1, <2>1, RangeOf
  <2> DEFINE U == {Nothing, Reconnect, Disconnect} \cup Frames
  <2>3. d \notin OutOfBandOf({"challenge", "client_connect"})
    BY <2>1 DEF OutOfBandOf
  <2>4. d \in SequencedOf(ServerCommand, U)
    BY <2>2, <2>3 DEF FromServer
  <2> HIDE DEF U
  <2>5. d.packet \in PacketOf(ServerCommand) /\ d.unreliable \in U
    BY <2>4 DEF SequencedOf
  <2> QED
    BY <2>1, <2>5 DEF U
<1>5. ASSUME NEW d \in ToServer
      PROVE  d.packet \in PacketOf(Command)
  <2>1. d \in Range(wire["server"]) /\ d.op = "sequenced"
    BY DEF ToServer, ToServerIn
  <2>2. d \in FromClient
    BY <1>1, <2>1, RangeOf
  <2> DEFINE U == {Nothing, Disconnect}
  <2>3. d \notin OutOfBandOf({"get_challenge", "connect"})
    BY <2>1 DEF OutOfBandOf
  <2>4. d \in SequencedOf(Command, U)
    BY <2>2, <2>3 DEF FromClient
  <2> HIDE DEF U
  <2> QED
    BY <2>4 DEF SequencedOf
<1> QED
  BY <1>1, <1>2, <1>3, <1>4, <1>5 DEF Carries

LEMMA UndeliveredTypes ==
  ASSUME NEW A, NEW c \in ChannelOf(A), NEW r
  PROVE  /\ Unreceived(c, r) \in Seq(A)
         /\ c.message \in Seq(A)
         /\ Undelivered(c, r) \in Seq(A)
         /\ Undelivered(c, r) = <<>> =>
              /\ Unreceived(c, r) = <<>>
              /\ c.message = <<>>
<1>1. c.message \in Seq(A) /\ c.reliable \in Seq(A)
  BY Numbers1
<1> DEFINE a == Unreceived(c, r)
<1>2. a \in Seq(A)
  BY <1>1 DEF Unreceived
<1> DEFINE m == c.message
<1>3. Undelivered(c, r) = a \o m
  BY DEF Undelivered
<1>4. m \in Seq(A)
  BY <1>1
<1> HIDE DEF a, m
<1>5. /\ a \o m \in Seq(A)
      /\ a \o m = <<>> => a = <<>> /\ m = <<>>
  BY <1>2, <1>4, EmptyConcat
<1> QED
  BY <1>2, <1>3, <1>4, <1>5 DEF a, m

(* A client that was answered has everything before it.                     *)
LEMMA NewIsUp ==
  ASSUME Types, Answered
  PROVE  /\ Up = <<New>>
         /\ ClientChannel.message = <<New>>
         /\ ClientChannel.outgoing_sequence = 1
         /\ ClientChannel.incoming_sequence = 0
         /\ ClientChannel.open
         /\ <<New>> # <<>>
<1>1. ClientChannel = [NewChannel(TRUE) EXCEPT !.message = <<New>>]
  BY NewClientChannelIs DEF ClientChannel
<1>2. /\ ClientChannel.message = <<New>>
      /\ ClientChannel.reliable = <<>>
      /\ ClientChannel.outgoing_sequence = 1
      /\ ClientChannel.incoming_sequence = 0
      /\ ClientChannel.open
  BY <1>1 DEF NewChannel
<1>3. Up = <<>> \o <<New>>
  BY <1>2 DEF Up, Undelivered, Unreceived
<1>4. <<New>> \in Seq({New})
  OBVIOUS
<1>5. <<>> \o <<New>> = <<New>>
  BY <1>4
<1> QED
  BY <1>2, <1>3, <1>5

LEMMA NotAttempting ==
  ASSUME ~Attempting(wire["client"], wire["server"])
  PROVE  ~Answered /\ ClientChannel = chan["client"] /\ ClientTexts = cbuf
<1>1. ~Answered
  BY DEF Attempting, OutOfBandOps, Answered, AnsweredIn
<1> QED
  BY <1>1 DEF ClientChannel, ClientTexts

LEMMA InConversationIs ==
  ASSUME Attempt, InConversation
  PROVE  /\ ~Attempting(wire["client"], wire["server"])
         /\ ~Answered /\ ClientChannel = chan["client"] /\ ClientTexts = cbuf
         /\ Present
<1>1. ~Attempting(wire["client"], wire["server"])
  BY DEF Attempt, InConversation
<1> QED
  BY <1>1, NotAttempting DEF Present

(* A client loses nothing with its slot.                                    *)
LEMMA OrphanedSubset ==
  ASSUME NEW state, NEW P, NEW message, NEW texts, NEW D, NEW P1 \in SUBSET P,
         Orphaned(state, P, message, texts, D)
  PROVE  Orphaned(state, P1, message, texts, D)
<1>1. Settled(P, message, texts) => Settled(P1, message, texts)
  BY DEF Settled
<1> QED
  BY <1>1 DEF Orphaned

LEMMA SilentIs ==
  ASSUME NEW A, NEW B, NEW c \in ChannelOf(A), NEW s \in ChannelOf(B),
         NEW P, NEW Q, NEW texts, Sound(s, c, P, Q),
         Silent(Undelivered(c, s), Undelivered(s, c), texts)
  PROVE  Settled(P, c.message, texts)
<1>1. /\ Undelivered(c, s) = <<>> /\ Undelivered(s, c) = <<>> /\ texts = <<>>
  BY DEF Silent
<1>2. c.message = <<>>
  BY <1>1, UndeliveredTypes
<1>3. Unreceived(s, c) = <<>>
  BY <1>1, UndeliveredTypes
<1>4. Got(s, c)
  BY <1>3 DEF Sound, LastAckTrue, Unreceived
<1>5. \A d \in P : ~d.packet.has_reliable
  BY <1>4 DEF Sound, OneCopy
<1> QED
  BY <1>1, <1>2, <1>5 DEF Settled

(* What the server has still to say.                                        *)
LEMMA AnswerIs ==
  ASSUME NEW a \in Answers
  PROVE  a \in Seq(ServerCommand) /\ Len(a) = 2 /\ a # <<>>
<1>1. Parts \in Nat \ {0}
  BY SessionAssumption
<1>2. CASE a \in {<<ServerData(l), Text(GetPart(l, 1))>> : l \in Levels}
  <2>1. PICK l \in Levels : a = <<ServerData(l), Text(GetPart(l, 1))>>
    BY <1>2
  <2>2. GetPart(l, 1) \in ClientText
    BY <1>1 DEF ClientText, Command
  <2>3. ServerData(l) \in ServerCommand /\ Text(GetPart(l, 1)) \in ServerCommand
    BY <2>2 DEF ServerCommand
  <2> QED
    BY <2>1, <2>3
<1>3. CASE a \in {<<Part(l, k), Text(IF k < Parts THEN GetPart(l, k + 1)
                                              ELSE Precache(l))>> :
                   l \in Levels, k \in 1 .. Parts}
  <2>1. PICK l \in Levels, k \in 1 .. Parts :
          a = <<Part(l, k), Text(IF k < Parts THEN GetPart(l, k + 1)
                                 ELSE Precache(l))>>
    BY <1>3
  <2> DEFINE t == IF k < Parts THEN GetPart(l, k + 1) ELSE Precache(l)
  <2>2. t \in ClientText
    <3>1. CASE k < Parts
      <4>1. k + 1 \in 1 .. Parts
        BY <1>1, <3>1
      <4> QED
        BY <3>1, <4>1 DEF ClientText, Command
    <3>2. CASE ~(k < Parts)
      BY <3>2 DEF ClientText
    <3> QED
      BY <3>1, <3>2
  <2> HIDE DEF t
  <2>3. Part(l, k) \in ServerCommand /\ Text(t) \in ServerCommand
    BY <2>2 DEF ServerCommand
  <2> QED
    BY <2>1, <2>3 DEF t
<1> QED
  BY <1>2, <1>3 DEF Answers

LEMMA OneAnswer ==
  ASSUME NEW a, NEW b, {a, b} \subseteq {<<>>} \cup Answers,
         a \o b \in Answers
  PROVE  (a = <<>> /\ b = a \o b) \/ (b = <<>> /\ a = a \o b)
<1>1. a \in Seq(ServerCommand) /\ b \in Seq(ServerCommand)
  <2>1. <<>> \in Seq(ServerCommand)
    OBVIOUS
  <2> QED
    BY <2>1, AnswerIs
<1>2. Len(a \o b) = Len(a) + Len(b) /\ Len(a \o b) = 2
  BY <1>1, EmptyConcat, AnswerIs
<1>3. a = <<>> \/ b = <<>>
  <2> SUFFICES ASSUME a # <<>>, b # <<>> PROVE FALSE
    OBVIOUS
  <2>1. Len(a) = 2 /\ Len(b) = 2
    BY AnswerIs
  <2> QED
    BY <1>2, <2>1
<1> QED
  BY <1>1, <1>3, EmptyConcat

(* A client that is synced, but loses its slot, will find its way.          *)
LEMMA SyncedOrphaned ==
  ASSUME Types, Synced, Present
  PROVE  Orphaned(cls_state, ToClient, ClientChannel.message, ClientTexts, data)
<1> DEFINE c == ClientChannel
           s == chan["server"]
<1>1. /\ c \in ChannelOf(Command) /\ s \in ChannelOf(ServerCommand)
      /\ ClientTexts \in Seq(ClientText)
      /\ Carries(ToClient, ServerCommand)
  BY ViewTypes
<1>2. /\ Sound(c, s, ToServer, ToClient) /\ Sound(s, c, ToClient, ToServer)
      /\ {s.message, s.reliable} \subseteq {<<>>} \cup Answers
      /\ Token(Up, Down, ClientTexts, Present, data)
      /\ Agreed(cls_state, sv_state, spawn_count, ToClient,
                Silent(Up, Down, ClientTexts), Present, data)
  BY DEF Synced
<1>3. Up = Undelivered(c, s) /\ Down = Undelivered(s, c)
  BY DEF Up, Down
<1> HIDE DEF c, s
<1>4. Silent(Up, Down, ClientTexts) => Settled(ToClient, c.message, ClientTexts)
  BY <1>1, <1>2, <1>3, SilentIs
<1>5. \A d \in ToClient : d.unreliable.op = "frame" =>
        Settled(ToClient, c.message, ClientTexts) /\ data = Level(d.unreliable.level)
  BY <1>2, <1>4 DEF Agreed
<1>6. cls_state = "active" =>
        Settled(ToClient, c.message, ClientTexts) /\ \E l \in Levels : data = Level(l)
  BY <1>2, <1>4 DEF Agreed
<1>7. ASSUME NEW d \in ToClient, ~d.packet.has_reliable
      PROVE  d.packet.payload = <<>>
  BY <1>2, <1>7 DEF Sound, OneCopy
<1>8. ASSUME NEW d \in ToClient, d.packet.has_reliable
      PROVE  /\ c.message = <<>> /\ ClientTexts = <<>>
             /\ d.packet.payload \in Answers
             /\ Continues(d.packet.payload, data)
             /\ \A q \in ToClient : q.packet.has_reliable =>
                  q.packet.sequence = d.packet.sequence
  <2>1. /\ d.packet.payload = s.reliable
        /\ d.packet.payload # <<>>
        /\ Down = d.packet.payload \o s.message
    <3>1. ~Got(s, c) /\ d.packet.payload = s.reliable
      BY <1>2, <1>8 DEF Sound, OneCopy
    <3>2. s.reliable # <<>>
      BY <1>2, <3>1 DEF Sound, LastAckTrue
    <3> QED
      BY <1>3, <3>1, <3>2 DEF Undelivered, Unreceived
  <2>2. s.reliable \in Seq(ServerCommand) /\ s.message \in Seq(ServerCommand)
    BY <1>1, Numbers1
  <2>3. Down # <<>>
    BY <2>1, <2>2, EmptyConcat
  <2>4. /\ Up = <<>> /\ ClientTexts = <<>> /\ Down \in Answers
        /\ Continues(Down, data)
    BY <1>2, <2>3 DEF Token, Silent
  <2>5. Down = d.packet.payload
    BY <1>2, <2>1, <2>4, OneAnswer
  <2>6. c.message = <<>>
    BY <1>1, <1>3, <2>4, UndeliveredTypes
  <2>7. \A q \in ToClient : q.packet.has_reliable =>
          q.packet.sequence = d.packet.sequence
    <3> SUFFICES ASSUME NEW q \in ToClient, q.packet.has_reliable
                 PROVE  q.packet.sequence = d.packet.sequence
      OBVIOUS
    <3>1. /\ q.packet.sequence + 1 = s.last_reliable_sequence
          /\ d.packet.sequence + 1 = s.last_reliable_sequence
      BY <1>2, <1>8 DEF Sound, OneCopy
    <3>2. q.packet.sequence \in Int /\ d.packet.sequence \in Int
      BY <1>1, PacketNumbers
    <3> QED
      BY <3>1, <3>2
  <2> QED
    BY <2>4, <2>5, <2>6, <2>7
<1>9. Orphaned(cls_state, ToClient, c.message, ClientTexts, data)
  BY <1>5, <1>6, <1>7, <1>8 DEF Orphaned
<1> QED
  BY <1>9 DEF c

-----------------------------------------------------------------------------
(* Less is under way. *)

(* The client takes no notice of a reconnect that it needs.                 *)
Missed ==
  /\ ReconnectArrives
  /\ Present
  /\ Silent(Up, Down, ClientTexts)
  /\ \E d \in ToClient : d.unreliable = Reconnect
  /\ \A d \in ToClient' : d.unreliable # Reconnect

LEMMA WireShrinks ==
  ASSUME Types, Mode,
         UNCHANGED <<data, cbuf, sv_state, spawn_count, chan>>,
         InConversation' <=> InConversation,
         cls_state' = "active" => cls_state = "active",
         Answered' <=> Answered,
         ToClient' \subseteq ToClient, ToServer' \subseteq ToServer,
         InOrder(wire["client"]) => InOrder(wire'["client"]),
         OnlyLeaves(wire["server"]) => OnlyLeaves(wire'["server"]),
         ~Missed
  PROVE  Mode'
<1>1. /\ ClientChannel' = ClientChannel
      /\ ClientTexts' = ClientTexts
      /\ Present' <=> Present
  BY DEF ClientChannel, ClientTexts, Present, NewClientChannel
<1>2. Up' = Up /\ Down' = Down
  BY <1>1 DEF Up, Down
<1>3. CASE Abandoned
  <2>1. ASSUME Present
        PROVE  Orphaned(cls_state', ToClient', ClientChannel.message,
                        ClientTexts, data)
    <3>1. Orphaned(cls_state, ToClient', ClientChannel.message, ClientTexts, data)
      BY <1>3, <2>1, OrphanedSubset DEF Abandoned
    <3> QED
      BY <3>1 DEF Orphaned
  <2>2. Abandoned'
    BY <1>1, <1>3, <2>1 DEF Abandoned
  <2> QED
    BY <2>2 DEF Mode
<1>4. CASE Disengaged
  BY <1>1, <1>4 DEF Disengaged, Mode
<1>5. CASE Synced
  <2>1. /\ Sound(ClientChannel, chan["server"], ToServer', ToClient')
        /\ Sound(chan["server"], ClientChannel, ToClient', ToServer')
    BY <1>5, SoundSubset DEF Synced
  <2>2. Agreed(cls_state', sv_state, spawn_count, ToClient',
               Silent(Up, Down, ClientTexts), Present, data)
    <3>1. Agreed(cls_state, sv_state, spawn_count, ToClient,
                 Silent(Up, Down, ClientTexts), Present, data)
      BY <1>5 DEF Synced
    <3>2. sv_state = "connected" /\ Present /\ ReconnectArrives =>
            \/ ~Silent(Up, Down, ClientTexts)
            \/ \E d \in ToClient' : d.unreliable = Reconnect
      BY <3>1 DEF Agreed, Missed
    <3> QED
      BY <3>1, <3>2 DEF Agreed
  <2>3. Synced'
    BY <1>1, <1>2, <1>5, <2>1, <2>2 DEF Synced
  <2> QED
    BY <2>3 DEF Mode
<1> QED
  BY <1>3, <1>4, <1>5 DEF Mode

(* The oldest datagram is gone without effect.                              *)
LEMMA ClientLoses ==
  ASSUME Types, Mode,
         UNCHANGED <<data, cbuf, sv_state, spawn_count, chan, cls_state>>,
         Len(wire["client"]) >= 1,
         wire'["client"] = Tail(wire["client"]),
         ToServer' \subseteq ToServer,
         OnlyLeaves(wire["server"]) => OnlyLeaves(wire'["server"]),
         wire["client"][1].op # "client_connect",
         /\ wire["client"][1] \in ToClient
         /\ ReconnectArrives
         /\ Present
         /\ Silent(Up, Down, ClientTexts)
         => wire["client"][1].unreliable # Reconnect
  PROVE  Mode'
<1>1. wire["client"] \in Seq(FromServer)
  BY ViewTypes
<1>2. /\ Answered' <=> Answered
      /\ InOrder(wire["client"]) => InOrder(wire'["client"])
  BY <1>1, TailToClient DEF Answered
<1>3. ClientChannel' = ClientChannel
  BY <1>2 DEF ClientChannel, NewClientChannel
<1>4. /\ ToClient' \subseteq ToClient
      /\ \A d \in ToClient : d \in ToClient' \/ d = wire["client"][1]
  BY <1>1, <1>3, TailToClient DEF ToClient
<1>5. ~Missed
  BY <1>4 DEF Missed
<1>6. InConversation' <=> InConversation
  BY DEF InConversation
<1> QED
  BY <1>2, <1>4, <1>5, <1>6, WireShrinks

LEMMA ServerLoses ==
  ASSUME Types, Mode,
         UNCHANGED <<data, cbuf, sv_state, spawn_count, chan, cls_state>>,
         Len(wire["server"]) >= 1,
         wire'["server"] = Tail(wire["server"]),
         Answered' <=> Answered,
         ToClient' = ToClient,
         InOrder(wire["client"]) => InOrder(wire'["client"])
  PROVE  Mode'
<1>1. wire["server"] \in Seq(FromClient)
  BY ViewTypes
<1>2. chan["server"].incoming_sequence \in Int
  BY ViewTypes, Numbers1
<1>3. ToServer' \subseteq ToServer
  <2>1. \A i \in 1 .. Len(wire["server"]) : wire["server"][i].op = "sequenced" =>
          wire["server"][i].packet.sequence \in Int
    BY <1>1, SessionAssumption DEF FromClient, OutOfBandOf, SequencedOf, PacketOf
  <2> QED
    BY <1>1, <1>2, <2>1, TailToServer DEF ToServer
<1>4. OnlyLeaves(wire["server"]) => OnlyLeaves(wire'["server"])
  BY <1>1, TailLeaves
<1>5. ~Missed
  BY DEF Missed
<1>6. InConversation' <=> InConversation
  BY DEF InConversation
<1> QED
  BY <1>3, <1>4, <1>5, <1>6, WireShrinks

(* The invariant but for the state of the slot.                             *)
Aside == ~kicked /\ Small /\ Attempt

(* A datagram less changes nothing about the attempt to connect.            *)
LEMMA AsideLoses ==
  ASSUME Types, Aside, UNCHANGED <<cls_state, cbuf, kicked>>,
         chan'["client"] = chan["client"],
         \/ /\ Len(wire["client"]) >= 1
            /\ wire'["client"] = Tail(wire["client"])
            /\ wire'["server"] = wire["server"]
         \/ /\ Len(wire["server"]) >= 1
            /\ wire'["server"] = Tail(wire["server"])
            /\ wire'["client"] = wire["client"]
  PROVE  Aside'
<1>1. /\ wire["client"] \in Seq(FromServer)
      /\ wire["server"] \in Seq(FromClient)
  BY ViewTypes
<1>2. Brief(wire'["server"])
  BY <1>1, TailLeaves DEF Aside, Small
<1>3. /\ OneAttempt(wire'["client"], wire'["server"])
      /\ Attempting(wire'["client"], wire'["server"]) =>
           Attempting(wire["client"], wire["server"])
  BY <1>1, AttemptTail DEF Aside, Attempt
<1> QED
  BY <1>2, <1>3 DEF Aside, Small, Attempt

-----------------------------------------------------------------------------
(* The network loses a datagram. *)

LEMMA LoseKeeps ==
  ASSUME Types, SessionInv, NEW e \in Endpoint, Lose(e)
  PROVE  SessionInv'
<1> DEFINE V == wire["client"]
           W == wire["server"]
<1>1. /\ UNCHANGED <<client, server, chan, history>>
      /\ \/ /\ Len(V) >= 1
            /\ wire'["client"] = Tail(V)
            /\ wire'["server"] = W
            /\ ReconnectArrives => ~(/\ V[1].op = "sequenced"
                                     /\ V[1].unreliable = Reconnect)
         \/ /\ Len(W) >= 1
            /\ wire'["server"] = Tail(W)
            /\ wire'["client"] = V
  BY LoseIs
<1>2. UNCHANGED <<cls_state, data, cbuf, sv_state, spawn_count, chan, kicked>>
  BY <1>1 DEF client, server, history
<1>3. Aside'
  BY <1>1, <1>2, AsideLoses DEF Aside, SessionInv
<1>4. V \in Seq(FromServer) /\ W \in Seq(FromClient)
  BY ViewTypes
<1>5. Mode /\ Attempt
  BY DEF SessionInv
<1>6. CASE /\ Len(V) >= 1
           /\ wire'["client"] = Tail(V)
           /\ wire'["server"] = W
           /\ ReconnectArrives => ~(/\ V[1].op = "sequenced"
                                    /\ V[1].unreliable = Reconnect)
           /\ V[1].op # "client_connect"
  <2>1. ToServer' = ToServer
    BY <1>2, <1>6 DEF ToServer
  <2>2. V[1] \in ToClient => V[1].op = "sequenced"
    BY DEF ToClient, ToClientIn
  <2> QED
    BY <1>2, <1>3, <1>5, <1>6, <2>1, <2>2, ClientLoses DEF Aside, SessionInv
<1>7. CASE /\ Len(V) >= 1
           /\ wire'["client"] = Tail(V)
           /\ wire'["server"] = W
           /\ V[1].op = "client_connect"
  <2>1. /\ OnlyLeaves(W)
        /\ ~Attempting(Tail(V), W)
    BY <1>4, <1>5, <1>7, AttemptConnect DEF Attempt
  <2>2. ~Answered'
    BY <1>7, <2>1 DEF Answered, AnsweredIn, Attempting, OutOfBandOps
  <2>3. Answered
    BY <1>7 DEF Answered, AnsweredIn
  <2>4. ~InConversation
    BY <1>5, <2>3, InConversationIs
  <2>5. ~Present'
    BY <1>2, <2>2, <2>4 DEF Present, InConversation
  <2>6. Mode'
    <3>1. CASE Abandoned
      BY <1>2, <2>5, <3>1 DEF Abandoned, Mode
    <3>2. CASE Disengaged
      BY <2>3, <3>2 DEF Disengaged, Present
    <3>3. CASE Synced
      <4>1. chan["server"].incoming_sequence < 1
        BY <2>3, <3>3, NewIsUp DEF Synced, Sound, Sequential
      <4>2. chan["server"].incoming_sequence = 0
        BY <4>1, ViewTypes, Numbers1
      <4>3. sv_state = "connected"
        BY <4>2, <3>3 DEF Synced
      <4> QED
        BY <1>2, <1>7, <2>1, <2>5, <4>2, <4>3 DEF Disengaged, Mode
    <3> QED
      BY <1>5, <3>1, <3>2, <3>3 DEF Mode
  <2> QED
    BY <1>3, <2>6 DEF Aside, SessionInv
<1>8. CASE /\ Len(W) >= 1
           /\ wire'["server"] = Tail(W)
           /\ wire'["client"] = V
  <2>1. /\ Answered' <=> Answered
        /\ ToClient' = ToClient
    BY <1>2, <1>8 DEF Answered, ToClient, ClientChannel, NewClientChannel
  <2> QED
    BY <1>2, <1>3, <1>5, <1>8, <2>1, ServerLoses DEF Aside, SessionInv
<1> QED
  BY <1>1, <1>6, <1>7, <1>8

-----------------------------------------------------------------------------
(* The client connects, out of band. *)

LEMMA ConnectKeeps ==
  ASSUME Types, SessionInv, Cl_Connect_f
  PROVE  SessionInv'
<1>1. /\ cls_state = "disconnected" /\ cls_state' = "connecting"
      /\ UNCHANGED <<data, cbuf, sv_state, spawn_count, chan, wire, kicked>>
  BY ConnectIs DEF server, history
<1>2. /\ InConversation' <=> InConversation
      /\ cls_state' = "active" => cls_state = "active"
  BY <1>1 DEF InConversation
<1>3. /\ Answered' <=> Answered
      /\ ToClient' = ToClient
      /\ ToServer' = ToServer
  BY <1>1 DEF Answered, ToClient, ToServer, ClientChannel, NewClientChannel
<1>4. ~Missed
  BY <1>3 DEF Missed
<1>5. Mode'
  BY <1>1, <1>2, <1>3, <1>4, WireShrinks DEF SessionInv
<1>6. Small' /\ Attempt'
  BY <1>1 DEF SessionInv, Small, Attempt
<1> QED
  BY <1>1, <1>5, <1>6 DEF SessionInv

LEMMA ChallengeKeeps ==
  ASSUME Types, SessionInv, Cl_Challenge
  PROVE  SessionInv'
<1> DEFINE V == wire["client"]
           W == wire["server"]
<1>1. /\ Types'
      /\ UNCHANGED <<cls_state, data, cbuf, sv_state, spawn_count, chan, kicked>>
      /\ Len(V) >= 1
      /\ V[1].op = "challenge"
      /\ wire'["client"] = Tail(V)
      /\ \/ /\ cls_state = "connecting"
            /\ \E n \in Numbers : wire'["server"] = W \o <<OutOfBand("connect", n)>>
         \/ wire'["server"] = W
  BY ChallengeIs DEF client, server, history
<1>2. V \in Seq(FromServer) /\ W \in Seq(FromClient)
  BY ViewTypes
<1>3. /\ OnlyLeaves(W)
      /\ ~Attempting(Tail(V), W)
      /\ \A d \in FromClient : d.op = "connect" => OneAttempt(Tail(V), W \o <<d>>)
  BY <1>1, <1>2, AttemptConnect DEF SessionInv, Attempt
<1>4. Mode /\ Attempt /\ Small /\ ~kicked
  BY DEF SessionInv
<1>5. V[1] \in ToClient => V[1].op = "sequenced"
  BY DEF ToClient, ToClientIn
<1>6. Attempting(V, W)
  <2>1. 1 \in 1 .. Len(V)
    BY <1>1, <1>2
  <2> QED
    BY <1>1, <2>1 DEF Attempting, OutOfBandOps
<1>7. /\ cls_state \in {"connecting", "disconnected"}
      /\ cbuf = <<>>
  BY <1>4, <1>6 DEF Attempt
<1>8. CASE wire'["server"] = W
  <2>1. ToServer' = ToServer
    BY <1>1, <1>8 DEF ToServer
  <2>2. Mode'
    BY <1>1, <1>4, <1>5, <1>8, <2>1, ClientLoses
  <2>3. Aside'
    BY <1>1, <1>4, <1>8, AsideLoses DEF Aside
  <2> QED
    BY <2>2, <2>3 DEF Aside, SessionInv
<1>9. ASSUME NEW n \in Numbers, wire'["server"] = W \o <<OutOfBand("connect", n)>>
      PROVE  SessionInv'
  <2> DEFINE d == OutOfBand("connect", n)
  <2>1. d \in FromClient /\ d.op = "connect"
    BY DEF OutOfBand, FromClient, OutOfBandOf
  <2> HIDE DEF d
  <2>2. /\ ToServerIn(W \o <<d>>, chan["server"].incoming_sequence)
             \subseteq ToServerIn(W, chan["server"].incoming_sequence)
        /\ OnlyLeaves(W \o <<d>>)
        /\ Brief(W \o <<d>>)
    <3> DEFINE k == chan["server"].incoming_sequence
    <3> HIDE DEF k
    <3>1. d.op # "sequenced" => ToServerIn(W \o <<d>>, k) \subseteq ToServerIn(W, k)
      BY <1>2, <2>1, AddedToServer
    <3>2. OnlyLeaves(W) /\ (d.op = "sequenced" => Leaves(d)) =>
            OnlyLeaves(W \o <<d>>)
      BY <1>2, <2>1, AddedToServer
    <3>3. Brief(W) /\ (d.op = "sequenced" => Len(d.packet.payload) <= 1) =>
            Brief(W \o <<d>>)
      BY <1>2, <2>1, AddedToServer
    <3> QED
      BY <1>3, <1>4, <2>1, <3>1, <3>2, <3>3 DEF Small, k
  <2>3. wire'["server"] = W \o <<d>>
    BY <1>9 DEF d
  <2>4. ToServer' \subseteq ToServer
    BY <1>1, <2>2, <2>3 DEF ToServer
  <2>5. Mode'
    BY <1>1, <1>4, <1>5, <2>2, <2>3, <2>4, ClientLoses
  <2>6. OneAttempt(wire'["client"], wire'["server"])
    BY <1>1, <1>3, <2>1, <2>3
  <2>7. Attempt' /\ Small'
    BY <1>1, <1>4, <1>7, <2>2, <2>3, <2>6 DEF Attempt, Small
  <2> QED
    BY <1>1, <1>4, <2>5, <2>7 DEF SessionInv
<1> QED
  BY <1>1, <1>8, <1>9

LEMMA GetChallengeKeeps ==
  ASSUME Types, SessionInv, Svc_GetChallenge
  PROVE  SessionInv'
<1> DEFINE V == wire["client"]
           W == wire["server"]
<1>1. /\ Types'
      /\ UNCHANGED <<cls_state, data, cbuf, sv_state, spawn_count, chan, kicked>>
      /\ Len(W) >= 1
      /\ W[1].op = "get_challenge"
      /\ wire'["server"] = Tail(W)
      /\ \E n \in Numbers : wire'["client"] = V \o <<OutOfBand("challenge", n)>>
  BY GetChallengeIs DEF client, history
<1>2. V \in Seq(FromServer) /\ W \in Seq(FromClient)
  BY ViewTypes
<1>3. Mode /\ Attempt /\ Small /\ ~kicked
  BY DEF SessionInv
<1>4. Attempting(V, W)
  <2>1. 1 \in 1 .. Len(W)
    BY <1>1, <1>2
  <2> QED
    BY <1>1, <2>1 DEF Attempting, OutOfBandOps
<1>5. /\ cls_state \in {"connecting", "disconnected"}
      /\ cbuf = <<>>
  BY <1>3, <1>4 DEF Attempt
<1>6. PICK n \in Numbers : wire'["client"] = V \o <<OutOfBand("challenge", n)>>
  BY <1>1
<1> DEFINE d == OutOfBand("challenge", n)
<1>7. d \in FromServer /\ d.op = "challenge"
  BY DEF OutOfBand, FromServer, OutOfBandOf
<1>8. wire'["client"] = V \o <<d>>
  BY <1>6
<1> HIDE DEF d
<1>9. OneAttempt(V \o <<d>>, Tail(W))
  BY <1>1, <1>2, <1>3, <1>7, AttemptAnswer DEF Attempt
<1>10. /\ ToClientIn(V \o <<d>>, ClientChannel.incoming_sequence) \subseteq ToClient
       /\ ToClient \subseteq ToClientIn(V \o <<d>>, ClientChannel.incoming_sequence)
       /\ AnsweredIn(V \o <<d>>) <=> AnsweredIn(V)
       /\ InOrder(V) => InOrder(V \o <<d>>)
  <2>1. d.op # "client_connect" /\ d.op # "sequenced" /\ ~Leaves(d)
    BY <1>7 DEF Leaves
  <2>2. d.op # "sequenced" \/ d.unreliable = Disconnect =>
          ToClientIn(V \o <<d>>, ClientChannel.incoming_sequence)
            \subseteq ToClientIn(V, ClientChannel.incoming_sequence)
    BY <1>2, <1>7, <2>1, AddedToClient
  <2>3. /\ ToClientIn(V, ClientChannel.incoming_sequence)
             \subseteq ToClientIn(V \o <<d>>, ClientChannel.incoming_sequence)
        /\ AnsweredIn(V \o <<d>>) <=> AnsweredIn(V)
    BY <1>2, <1>7, <2>1, AddedToClient
  <2>4. /\ InOrder(V)
        /\ ~Leaves(d)
        /\ \A i \in 1 .. Len(V) :
             CurrentIn(V, i) /\ V[i].op = "sequenced" /\ d.op = "sequenced"
               => V[i].packet.sequence < d.packet.sequence
        => InOrder(V \o <<d>>)
    BY <1>2, <1>7, <2>1, AddedToClient
  <2> QED
    BY <2>1, <2>2, <2>3, <2>4 DEF ToClient
<1>11. Answered' <=> Answered
  BY <1>8, <1>10 DEF Answered
<1>12. ToClient' = ToClient
  <2>1. ClientChannel' = ClientChannel
    BY <1>1, <1>11 DEF ClientChannel, NewClientChannel
  <2> QED
    BY <1>8, <1>10, <2>1 DEF ToClient
<1>13. Mode'
  BY <1>1, <1>3, <1>8, <1>10, <1>11, <1>12, ServerLoses
<1>14. Brief(Tail(W))
  BY <1>1, <1>2, <1>3, TailLeaves DEF Small
<1>15. Attempt' /\ Small'
  BY <1>1, <1>3, <1>5, <1>8, <1>9, <1>14 DEF Attempt, Small
<1> QED
  BY <1>1, <1>3, <1>13, <1>15 DEF SessionInv

(* Two ends that have just been set up are synced.                          *)
LEMMA NewSynced ==
  /\ Sound(NewClientChannel, NewChannel(TRUE), {}, {})
  /\ Sound(NewChannel(TRUE), NewClientChannel, {}, {})
  /\ Undelivered(NewClientChannel, NewChannel(TRUE)) = <<New>>
  /\ Undelivered(NewChannel(TRUE), NewClientChannel) = <<>>
  /\ NewClientChannel.open /\ NewChannel(TRUE).open
  /\ NewClientChannel.incoming_sequence = 0
  /\ NewChannel(TRUE).incoming_sequence = 0
  /\ NewChannel(TRUE).message = <<>>
  /\ NewChannel(TRUE).reliable = <<>>
<1> DEFINE c == NewClientChannel
           s == NewChannel(TRUE)
<1>1. /\ s.incoming_sequence = 0
      /\ s.incoming_acknowledged = 0
      /\ s.incoming_reliable_acknowledged = 0
      /\ s.incoming_reliable_sequence = 0
      /\ s.outgoing_sequence = 1
      /\ s.reliable_sequence = 0
      /\ s.last_reliable_sequence = 0
      /\ s.message = <<>>
      /\ s.reliable = <<>>
      /\ s.open
  BY DEF NewChannel
<1>2. /\ c.incoming_sequence = 0
      /\ c.incoming_acknowledged = 0
      /\ c.incoming_reliable_acknowledged = 0
      /\ c.incoming_reliable_sequence = 0
      /\ c.outgoing_sequence = 1
      /\ c.reliable_sequence = 0
      /\ c.last_reliable_sequence = 0
      /\ c.message = <<New>>
      /\ c.reliable = <<>>
      /\ c.open
  BY NewClientChannelIs DEF NewChannel
<1> HIDE DEF c, s
<1>3. Got(c, s) /\ Got(s, c)
  BY <1>1, <1>2 DEF Got
<1>4. Sound(c, s, {}, {})
  BY <1>1, <1>2, <1>3 DEF Sound, Sequential, OneCopy, AcksTrue, LastAckTrue
<1>5. Sound(s, c, {}, {})
  BY <1>1, <1>2, <1>3 DEF Sound, Sequential, OneCopy, AcksTrue, LastAckTrue
<1>6. Undelivered(c, s) = <<>> \o <<New>> /\ Undelivered(s, c) = <<>> \o <<>>
  BY <1>1, <1>2, <1>3 DEF Undelivered, Unreceived
<1>7. <<>> \o <<New>> = <<New>> /\ <<>> \o <<>> = <<>>
  OBVIOUS
<1> QED
  BY <1>1, <1>2, <1>4, <1>5, <1>6, <1>7 DEF c, s

LEMMA SvcConnectKeeps ==
  ASSUME Types, SessionInv, Svc_Connect
  PROVE  SessionInv'
<1> DEFINE V == wire["client"]
           W == wire["server"]
<1>1. /\ Types'
      /\ UNCHANGED <<cls_state, data, cbuf, spawn_count, kicked>>
      /\ Len(W) >= 1
      /\ W[1].op = "connect"
      /\ wire'["server"] = Tail(W)
      /\ \/ /\ wire'["client"] = V \o <<OutOfBand("client_connect", 0)>>
            /\ chan'["server"] = NewChannel(TRUE)
            /\ chan'["client"] = chan["client"]
            /\ sv_state' = "connected"
         \/ /\ wire'["client"] = V
            /\ UNCHANGED <<chan, sv_state>>
  BY SvcConnectIs DEF client, history
<1>2. V \in Seq(FromServer) /\ W \in Seq(FromClient)
  BY ViewTypes
<1>3. Mode /\ Attempt /\ Small /\ ~kicked
  BY DEF SessionInv
<1>4. 1 \in 1 .. Len(W)
  BY <1>1, <1>2
<1>5. /\ cls_state \in {"connecting", "disconnected"}
      /\ cbuf = <<>>
  BY <1>1, <1>3, <1>4 DEF Attempt, Attempting, OutOfBandOps
<1>6. CASE /\ wire'["client"] = V
           /\ UNCHANGED <<chan, sv_state>>
  <2>1. /\ Answered' <=> Answered
        /\ ToClient' = ToClient
    BY <1>1, <1>6 DEF Answered, ToClient, ClientChannel, NewClientChannel
  <2>2. Mode'
    BY <1>1, <1>3, <1>6, <2>1, ServerLoses
  <2>3. Aside'
    BY <1>1, <1>3, <1>6, AsideLoses DEF Aside
  <2> QED
    BY <2>2, <2>3 DEF Aside, SessionInv
<1>7. CASE /\ wire'["client"] = V \o <<OutOfBand("client_connect", 0)>>
           /\ chan'["server"] = NewChannel(TRUE)
           /\ chan'["client"] = chan["client"]
           /\ sv_state' = "connected"
  <2> DEFINE d == OutOfBand("client_connect", 0)
  <2>1. d \in FromServer /\ d.op = "client_connect"
    BY DEF OutOfBand, FromServer, OutOfBandOf, Numbers, Used
  <2>2. wire'["client"] = V \o <<d>>
    BY <1>7
  <2> HIDE DEF d
  <2>3. OneAttempt(V \o <<d>>, Tail(W)) /\ OnlyLeaves(Tail(W))
    BY <1>1, <1>2, <1>3, <2>1, AttemptAnswer DEF Attempt
  <2>4. Answered' /\ InOrder(wire'["client"])
    <3> DEFINE k == 0
    <3> HIDE DEF k
    <3>1. ToClientIn(V \o <<d>>, k) = {}
      BY <1>2, <2>1, AddedToClient
    <3>2. AnsweredIn(V \o <<d>>)
      BY <1>2, <2>1, AddedToClient
    <3>3. InOrder(V \o <<d>>)
      BY <1>2, <2>1, AddedToClient
    <3> QED
      BY <2>2, <3>2, <3>3 DEF Answered
  <2>5. /\ ClientChannel' = NewClientChannel
        /\ ClientTexts' = <<>>
        /\ Present'
    BY <2>4 DEF ClientChannel, ClientTexts, Present, NewClientChannel
  <2>6. ToClient' = {}
    <3>1. ToClientIn(V \o <<d>>, NewClientChannel.incoming_sequence) = {}
      BY <1>2, <2>1, AddedToClient
    <3> QED
      BY <2>2, <2>5, <3>1 DEF ToClient
  <2>7. ToServer' = {}
    BY <1>1, <1>7, <2>3, NewSynced, OnlyResidual DEF ToServer
  <2>8. Up' = <<New>> /\ Down' = <<>>
    BY <1>7, <2>5, NewSynced DEF Up, Down
  <2>9. Token(Up', Down', ClientTexts', Present', data')
    <3>1. New \in Command /\ Asks(New, data')
      BY DEF Command, New, Asks
    <3> QED
      BY <2>5, <2>8, <3>1 DEF Token
  <2>10. Agreed(cls_state', sv_state', spawn_count', ToClient',
                Silent(Up', Down', ClientTexts'), Present', data')
    <3>1. ~Silent(Up', Down', ClientTexts')
      <4>1. <<New>> # <<>>
        OBVIOUS
      <4> QED
        BY <2>8, <4>1 DEF Silent
    <3>2. cls_state' # "active"
      BY <1>1, <1>5
    <3> QED
      BY <1>7, <2>6, <3>1, <3>2 DEF Agreed
  <2>11. Synced'
    BY <1>7, <2>4, <2>5, <2>6, <2>7, <2>9, <2>10, NewSynced DEF Synced
  <2>12. Brief(Tail(W))
    BY <1>1, <1>2, <1>3, TailLeaves DEF Small
  <2>13. Attempt' /\ Small'
    BY <1>1, <1>3, <1>5, <1>7, <2>2, <2>3, <2>12 DEF Attempt, Small
  <2> QED
    BY <1>1, <1>3, <2>11, <2>13 DEF SessionInv, Mode
<1> QED
  BY <1>1, <1>6, <1>7

-----------------------------------------------------------------------------
(* The texts of the server are executed. *)

(* A sequence of one at the most.                                           *)
LEMMA Nonempty ==
  ASSUME NEW S, NEW s \in Seq(S)
  PROVE  /\ Len(s) \in Nat
         /\ s # <<>> => Len(s) >= 1
         /\ Len(s) = 0 => s = <<>>
         /\ s # <<>> /\ Len(s) <= 1 => s[1] \in S /\ s = <<s[1]>>
<1>1. Len(s) \in Nat
  OBVIOUS
<1>2. Len(s) = 0 => s = <<>>
  OBVIOUS
<1>3. s # <<>> => Len(s) >= 1
  BY <1>1, <1>2
<1>4. ASSUME s # <<>>, Len(s) <= 1
      PROVE  s[1] \in S /\ s = <<s[1]>>
  <2> DEFINE n == Len(s)
  <2>1. n \in Nat /\ n >= 1 /\ n <= 1
    BY <1>1, <1>3, <1>4
  <2> HIDE DEF n
  <2>2. n = 1
    BY <2>1
  <2> USE DEF n
  <2>3. s[1] \in S
    BY <2>2
  <2>4. s = <<s[1]>>
    BY <2>2
  <2> QED
    BY <2>3, <2>4
<1> QED
  BY <1>1, <1>2, <1>3, <1>4

LEMMA ExecutedByIs ==
  ASSUME Types, NEW c \in ChannelOf(Command), Len(c.message) + Len(cbuf) <= 1
  PROVE  \E m \in Seq(Command) :
           /\ ExecutedBy(c) = Saying(c, m)
           /\ ExecutedBy(c) \in ChannelOf(Command)
           /\ ExecutedBy(c).message = m
           /\ Len(m) <= 1
           /\ \/ cls_state = "disconnected" /\ m = c.message
              \/ cbuf = <<>> /\ m = c.message
              \/ \E t \in ClientText : /\ cls_state # "disconnected"
                                       /\ cbuf = <<t>>
                                       /\ c.message = <<>>
                                       /\ m = Executed(t)
<1>1. /\ c.message \in Seq(Command)
      /\ cbuf \in Seq(ClientText)
      /\ Len(c.message) <= 1
  BY Numbers1 DEF Types, ClientTypes
<1>2. /\ Saying(c, c.message) = c
      /\ c.message \in Seq(Command)
  BY <1>1, SayingIs
<1>3. CASE cls_state = "disconnected"
  BY <1>1, <1>2, <1>3 DEF ExecutedBy
<1>4. CASE cls_state # "disconnected" /\ cbuf = <<>>
  <2>1. ExecutedAll(cbuf) = <<>>
    BY <1>4, FewTexts
  <2>2. c.message \o <<>> = c.message
    BY <1>1
  <2> DEFINE m == <<>>
  <2>3. m \in Seq(Command) /\ c.message \o m = c.message /\ ExecutedAll(cbuf) = m
    BY <2>1, <2>2
  <2> HIDE DEF m
  <2>4. Written(c, m) = Saying(c, c.message)
    <3>2. m \in Seq(Command)
      BY <2>3
    <3>1. Written(c, m) = Saying(c, c.message \o m)
      BY <3>2, SayingIs
    <3> QED
      BY <2>3, <3>1
  <2>5. ExecutedBy(c) = c
    BY <1>2, <1>4, <2>3, <2>4 DEF ExecutedBy
  <2> QED
    BY <1>1, <1>2, <1>4, <2>5
<1>5. CASE cls_state # "disconnected" /\ cbuf # <<>>
  <2> DEFINE x == cbuf
             y == c.message
  <2>1. x \in Seq(ClientText) /\ y \in Seq(Command) /\ x # <<>> /\ Len(y) + Len(x) <= 1
    BY <1>1, <1>5
  <2> HIDE DEF x, y
  <2>2. /\ Len(x) \in Nat /\ Len(x) >= 1 /\ Len(y) \in Nat
        /\ Len(y) = 0 => y = <<>>
    BY <2>1, Nonempty
  <2>3. Len(x) <= 1 /\ y = <<>>
    BY <2>1, <2>2
  <2>4. x[1] \in ClientText /\ x = <<x[1]>>
    BY <2>1, <2>3, Nonempty
  <2> DEFINE t == x[1]
  <2>5. t \in ClientText /\ cbuf = <<t>> /\ c.message = <<>>
    BY <2>3, <2>4 DEF x, y
  <2> HIDE DEF t
  <2>6. ExecutedAll(cbuf) = Executed(t)
    BY <2>5, FewTexts
  <2>7. Executed(t) \in Seq(Command) /\ Len(Executed(t)) <= 1
    <3>1. Executed(t) \in Seq(Command)
      BY <2>5, TextExecuted
    <3> QED
      BY <3>1 DEF Executed
  <2> DEFINE m == Executed(t)
  <2>8. ExecutedBy(c) = Written(c, m)
    BY <1>5, <2>6 DEF ExecutedBy
  <2>9. m \in Seq(Command) /\ m = Executed(t) /\ Len(m) <= 1 /\ <<>> \o m = m
    BY <2>7
  <2> HIDE DEF m
  <2>10. /\ Written(c, m) = Saying(c, c.message \o m)
         /\ Saying(c, m) \in ChannelOf(Command)
         /\ Saying(c, m).message = m
    BY <2>9, SayingIs
  <2>11. c.message \o m = m
    BY <2>5, <2>9
  <2>12. ExecutedBy(c) = Saying(c, m)
    BY <2>8, <2>10, <2>11
  <2>13. \E u \in ClientText : /\ cls_state # "disconnected"
                              /\ cbuf = <<u>>
                              /\ c.message = <<>>
                              /\ m = Executed(u)
    BY <1>5, <2>5, <2>9
  <2> QED
    BY <2>9, <2>10, <2>12, <2>13
<1> QED
  BY <1>3, <1>4, <1>5

(* What the client says for a text asks for the same.                       *)
LEMMA TextAsks ==
  ASSUME NEW t \in ClientText, t.op \in {"part", "precache"}
  PROVE  /\ \/ Executed(t) = <<>> /\ ~InConversation
            \/ \E a \in Command : /\ Executed(t) = <<a>>
                                  /\ \A D : Asks(t, D) => Asks(a, D)
         /\ Executed(t) = <<>> => ~InConversation
<1>1. CASE t.op = "part"
  <2>1. t \in Command
    BY <1>1 DEF ClientText, Precache
  <2>2. Executed(t) = <<t>> /\ <<t>> # <<>>
    BY <1>1 DEF Executed
  <2> QED
    BY <2>1, <2>2
<1>2. CASE t.op = "precache"
  <2>1. PICK l \in Levels : t = Precache(l)
    BY <1>2 DEF ClientText, Command, New, GetPart, Begin
  <2>2. t.level = l
    BY <2>1 DEF Precache
  <2>3. Begin(l) \in Command
    BY DEF Command
  <2>4. \A D : Asks(t, D) => Asks(Begin(l), D)
    BY <1>2, <2>2 DEF Asks, Begin
  <2>5. CASE InConversation
    <3>1. Executed(t) = <<Begin(l)>> /\ <<Begin(l)>> # <<>>
      BY <1>2, <2>2, <2>5 DEF Executed, InConversation
    <3> QED
      BY <2>3, <2>4, <3>1
  <2>6. CASE ~InConversation
    BY <1>2, <2>6 DEF Executed, InConversation
  <2> QED
    BY <2>5, <2>6
<1> QED
  BY <1>1, <1>2

(* The conversation goes on.                                                *)
LEMMA Executes ==
  ASSUME Types, NEW c \in ChannelOf(Command), NEW s \in ChannelOf(ServerCommand),
         Len(c.message) + Len(cbuf) <= 1, NEW P,
         Token(Undelivered(c, s), Undelivered(s, c), cbuf, InConversation, data),
         Agreed(cls_state, sv_state, spawn_count, P,
                Silent(Undelivered(c, s), Undelivered(s, c), cbuf),
                InConversation, data)
  PROVE  /\ Token(Undelivered(ExecutedBy(c), s), Undelivered(s, ExecutedBy(c)),
                  <<>>, InConversation, data)
         /\ Agreed(cls_state, sv_state, spawn_count, P,
                   Silent(Undelivered(ExecutedBy(c), s),
                          Undelivered(s, ExecutedBy(c)), <<>>),
                   InConversation, data)
<1>1. PICK m \in Seq(Command) :
        /\ ExecutedBy(c) = Saying(c, m)
        /\ ExecutedBy(c) \in ChannelOf(Command)
        /\ ExecutedBy(c).message = m
        /\ Len(m) <= 1
        /\ \/ cls_state = "disconnected" /\ m = c.message
           \/ cbuf = <<>> /\ m = c.message
           \/ \E t \in ClientText : /\ cls_state # "disconnected"
                                    /\ cbuf = <<t>>
                                    /\ c.message = <<>>
                                    /\ m = Executed(t)
  BY ExecutedByIs
<1> DEFINE up == Undelivered(c, s)
           down == Undelivered(s, c)
           c1 == ExecutedBy(c)
           held == Unreceived(c, s)
<1>2. Undelivered(s, c1) = down
  BY <1>1, UndeliveredMessage
<1>3. Undelivered(c1, s) = held \o m
  BY <1>1, UndeliveredMessage
<1>4. up = held \o c.message
  BY DEF Undelivered
<1>5. CASE m = c.message /\ cbuf = <<>>
  BY <1>2, <1>3, <1>4, <1>5
<1>6. ASSUME cbuf # <<>>
      PROVE  /\ up = <<>> /\ down = <<>>
             /\ \E t \in ClientText : /\ t.op \in {"part", "precache"}
                                      /\ cbuf = <<t>>
                                      /\ InConversation => Asks(t, data)
             /\ ~Silent(up, down, cbuf)
  BY <1>6 DEF Token, Silent
<1>7. cbuf # <<>> => held = <<>>
  <2>1. up = <<>> => held = <<>>
    BY UndeliveredTypes
  <2> QED
    BY <1>6, <2>1
<1>8. <<>> \o m = m
  BY <1>1
<1>9. CASE cls_state = "disconnected" /\ m = c.message /\ cbuf # <<>>
  <2>1. Undelivered(c1, s) = <<>>
    BY <1>3, <1>4, <1>6, <1>9
  <2>2. ~InConversation
    BY <1>9 DEF InConversation
  <2>3. Silent(Undelivered(c1, s), Undelivered(s, c1), <<>>)
    BY <1>2, <1>6, <1>9, <2>1 DEF Silent
  <2> QED
    BY <1>6, <1>9, <2>2, <2>3 DEF Token, Agreed
<1>10. CASE \E t \in ClientText : /\ cls_state # "disconnected"
                                  /\ cbuf = <<t>>
                                  /\ c.message = <<>>
                                  /\ m = Executed(t)
  <2>1. PICK t \in ClientText : cbuf = <<t>> /\ m = Executed(t)
    BY <1>10
  <2>2. cbuf # <<>>
    BY <2>1
  <2>3. t.op \in {"part", "precache"} /\ (InConversation => Asks(t, data))
    <3>1. PICK u \in ClientText : /\ u.op \in {"part", "precache"}
                                  /\ cbuf = <<u>>
                                  /\ InConversation => Asks(u, data)
      BY <1>6, <2>2
    <3>2. u = t
      BY <2>1, <3>1
    <3> QED
      BY <3>1, <3>2
  <2>4. Undelivered(c1, s) = m /\ Undelivered(s, c1) = <<>>
    BY <1>2, <1>3, <1>6, <1>7, <1>8, <2>2
  <2>5. ~Silent(up, down, cbuf)
    BY <1>6, <2>2
  <2>6. Token(m, <<>>, <<>>, InConversation, data)
    <3>1. CASE m = <<>>
      BY <3>1 DEF Token, Silent
    <3>2. CASE \E a \in Command : /\ m = <<a>>
                                  /\ \A D : Asks(t, D) => Asks(a, D)
      BY <2>3, <3>2 DEF Token
    <3> QED
      BY <2>1, <2>3, <3>1, <3>2, TextAsks
  <2>7. InConversation => ~Silent(m, <<>>, <<>>)
    BY <2>1, <2>3, TextAsks DEF Silent
  <2>8. Agreed(cls_state, sv_state, spawn_count, P, Silent(m, <<>>, <<>>),
               InConversation, data)
    BY <2>5, <2>7 DEF Agreed
  <2> QED
    BY <2>4, <2>6, <2>8
<1> QED
  BY <1>1, <1>5, <1>9, <1>10

(* So it does without a slot.                                               *)
LEMMA ExecutesOrphaned ==
  ASSUME Types, NEW c \in ChannelOf(Command), Len(c.message) + Len(cbuf) <= 1,
         NEW P, Orphaned(cls_state, P, c.message, cbuf, data), InConversation
  PROVE  Orphaned(cls_state, P, ExecutedBy(c).message, <<>>, data)
<1>1. PICK m \in Seq(Command) :
        /\ ExecutedBy(c) = Saying(c, m)
        /\ ExecutedBy(c) \in ChannelOf(Command)
        /\ ExecutedBy(c).message = m
        /\ Len(m) <= 1
        /\ \/ cls_state = "disconnected" /\ m = c.message
           \/ cbuf = <<>> /\ m = c.message
           \/ \E t \in ClientText : /\ cls_state # "disconnected"
                                    /\ cbuf = <<t>>
                                    /\ c.message = <<>>
                                    /\ m = Executed(t)
  BY ExecutedByIs
<1>2. CASE cbuf = <<>>
  BY <1>1, <1>2 DEF InConversation
<1>3. CASE cbuf # <<>>
  BY <1>3 DEF Orphaned, Settled
<1> QED
  BY <1>2, <1>3

LEMMA CbufKeeps ==
  ASSUME Types, SessionInv,
         ~Attempting(wire["client"], wire["server"]),
         cbuf' = <<>>,
         chan'["client"] = ExecutedBy(chan["client"]),
         chan'["server"] = chan["server"],
         wire'["client"] = wire["client"],
         UNCHANGED <<cls_state, data, sv_state, spawn_count>>,
         ToServer' \subseteq ToServer,
         OnlyLeaves(wire["server"]) => OnlyLeaves(wire'["server"])
  PROVE  /\ Mode'
         /\ Len(chan'["client"].reliable) <= 1
         /\ Len(chan'["client"].message) + Len(cbuf') <= 1
<1> DEFINE c == chan["client"]
           s == chan["server"]
           c1 == ExecutedBy(c)
<1>1. /\ c \in ChannelOf(Command)
      /\ s \in ChannelOf(ServerCommand)
  BY ViewTypes
<1>2. Len(c.message) + Len(cbuf) <= 1 /\ Len(c.reliable) <= 1
  BY DEF SessionInv, Small
<1>3. PICK m \in Seq(Command) :
        /\ c1 = Saying(c, m)
        /\ c1.message = m
        /\ Len(m) <= 1
  <2>1. \E m \in Seq(Command) : /\ ExecutedBy(c) = Saying(c, m)
                                /\ ExecutedBy(c).message = m
                                /\ Len(m) <= 1
    BY <1>1, <1>2, ExecutedByIs
  <2> QED
    BY <2>1
<1>4. /\ c1.incoming_sequence = c.incoming_sequence
      /\ c1.open = c.open
      /\ c1.reliable = c.reliable
  BY <1>1, <1>3, SayingIs
<1>5. ~Answered /\ ClientChannel = c /\ ClientTexts = cbuf
  BY NotAttempting
<1>6. ~Answered'
  BY <1>5 DEF Answered
<1>7. ClientChannel' = c1 /\ ClientTexts' = <<>>
  BY <1>6 DEF ClientChannel, ClientTexts
<1>8. /\ Present <=> InConversation
      /\ Present' <=> InConversation
      /\ InConversation' <=> InConversation
  BY <1>5, <1>6 DEF Present, InConversation
<1>9. ToClient' = ToClient
  BY <1>4, <1>5, <1>7 DEF ToClient
<1>10. Len(chan'["client"].reliable) <= 1
  BY <1>2, <1>4
<1>11. Len(chan'["client"].message) + Len(cbuf') <= 1
  BY <1>3
<1>12. CASE Abandoned
  <2>1. InConversation => Orphaned(cls_state, ToClient, c1.message, <<>>, data)
    BY <1>1, <1>2, <1>5, <1>8, <1>12, ExecutesOrphaned DEF Abandoned
  <2>2. Abandoned'
    BY <1>7, <1>8, <1>9, <1>12, <2>1 DEF Abandoned
  <2> QED
    BY <1>10, <1>11, <2>2 DEF Mode
<1>13. CASE Disengaged
  <2>1. Disengaged'
    BY <1>8, <1>13 DEF Disengaged
  <2> QED
    BY <1>10, <1>11, <2>1 DEF Mode
<1>14. CASE Synced
  <2>1. Sound(c, s, ToServer, ToClient) /\ Sound(s, c, ToClient, ToServer)
    BY <1>5, <1>14 DEF Synced
  <2>2. Sound(c1, s, ToServer, ToClient) /\ Sound(s, c1, ToClient, ToServer)
    BY <1>1, <1>3, <2>1, SoundMessage
  <2>3. Sound(c1, s, ToServer', ToClient) /\ Sound(s, c1, ToClient, ToServer')
    BY <2>2, SoundSubset
  <2>4. /\ Token(Undelivered(c, s), Undelivered(s, c), cbuf, InConversation, data)
        /\ Agreed(cls_state, sv_state, spawn_count, ToClient,
                  Silent(Undelivered(c, s), Undelivered(s, c), cbuf),
                  InConversation, data)
    <3>1. Up = Undelivered(c, s) /\ Down = Undelivered(s, c)
      BY <1>5 DEF Up, Down
    <3>2. /\ Token(Up, Down, ClientTexts, Present, data)
          /\ Agreed(cls_state, sv_state, spawn_count, ToClient,
                    Silent(Up, Down, ClientTexts), Present, data)
      BY <1>14 DEF Synced
    <3> QED
      BY <1>5, <1>8, <3>1, <3>2 DEF Token, Agreed
  <2>5. /\ Token(Undelivered(c1, s), Undelivered(s, c1), <<>>, InConversation, data)
        /\ Agreed(cls_state, sv_state, spawn_count, ToClient,
                  Silent(Undelivered(c1, s), Undelivered(s, c1), <<>>),
                  InConversation, data)
    BY <1>1, <1>2, <2>4, Executes
  <2>6. Up' = Undelivered(c1, s) /\ Down' = Undelivered(s, c1)
    BY <1>7 DEF Up, Down
  <2>7. Token(Up', Down', ClientTexts', Present', data')
    BY <1>7, <1>8, <2>5, <2>6 DEF Token
  <2>8. Agreed(cls_state', sv_state', spawn_count', ToClient',
               Silent(Up', Down', ClientTexts'), Present', data')
    BY <1>7, <1>8, <1>9, <2>5, <2>6 DEF Agreed
  <2>9. Synced'
    BY <1>4, <1>5, <1>7, <1>9, <1>14, <2>3, <2>7, <2>8 DEF Synced
  <2> QED
    BY <1>10, <1>11, <2>9 DEF Mode
<1> QED
  BY <1>12, <1>13, <1>14 DEF SessionInv, Mode

LEMMA RenderFrameKeeps ==
  ASSUME Types, SessionInv, RenderFrame
  PROVE  SessionInv'
<1>1. /\ cbuf # <<>> /\ cbuf' = <<>>
      /\ chan'["client"] = ExecutedBy(chan["client"])
      /\ chan'["server"] = chan["server"]
      /\ UNCHANGED <<cls_state, data, sv_state, spawn_count, wire, kicked>>
  BY RenderFrameIs DEF server, history
<1>2. ~Attempting(wire["client"], wire["server"])
  BY <1>1 DEF SessionInv, Attempt
<1>3. ToServer' = ToServer
  BY <1>1 DEF ToServer
<1>4. /\ Mode'
      /\ Len(chan'["client"].reliable) <= 1
      /\ Len(chan'["client"].message) + Len(cbuf') <= 1
  BY <1>1, <1>2, <1>3, CbufKeeps
<1>5. Small' /\ Attempt'
  BY <1>1, <1>2, <1>4 DEF SessionInv, Small, Attempt
<1> QED
  BY <1>1, <1>4, <1>5 DEF SessionInv

LEMMA ConnectingIs ==
  ASSUME Types, ~Connecting
  PROVE  ~Attempting(wire["client"], wire["server"])
<1>1. /\ \A i \in 1 .. Len(wire["client"]) : wire["client"][i] \in Range(wire["client"])
      /\ \A i \in 1 .. Len(wire["server"]) : wire["server"][i] \in Range(wire["server"])
  BY ViewTypes DEF Range
<1> QED
  BY <1>1 DEF Connecting, Attempting, OutOfBandOps, Endpoint

LEMMA CheckForResendKeeps ==
  ASSUME Patient, Types, SessionInv, Cl_CheckForResend
  PROVE  SessionInv'
<1> DEFINE V == wire["client"]
           W == wire["server"]
<1>1. /\ cls_state = "connecting"
      /\ ~Connecting
      /\ cbuf' = <<>>
      /\ chan'["client"] = ExecutedBy(chan["client"])
      /\ chan'["server"] = chan["server"]
      /\ wire'["client"] = V
      /\ wire'["server"] = W \o <<OutOfBand("get_challenge", 0)>>
      /\ UNCHANGED <<cls_state, data, sv_state, spawn_count, kicked>>
  BY CheckForResendIs DEF server
<1>2. ~Attempting(V, W)
  BY <1>1, ConnectingIs
<1>3. V \in Seq(FromServer) /\ W \in Seq(FromClient)
  BY ViewTypes
<1> DEFINE d == OutOfBand("get_challenge", 0)
<1>4. d \in FromClient /\ d.op = "get_challenge"
  BY DEF OutOfBand, FromClient, OutOfBandOf, Numbers, Used
<1>5. wire'["server"] = W \o <<d>>
  BY <1>1
<1> HIDE DEF d
<1>6. ToServer' \subseteq ToServer
  <2> DEFINE k == chan["server"].incoming_sequence
  <2> HIDE DEF k
  <2>1. d.op # "sequenced" => ToServerIn(W \o <<d>>, k) \subseteq ToServerIn(W, k)
    BY <1>3, <1>4, AddedToServer
  <2> QED
    BY <1>1, <1>4, <1>5, <2>1 DEF ToServer, k
<1>7. OnlyLeaves(W) => OnlyLeaves(W \o <<d>>)
  <2>1. OnlyLeaves(W) /\ (d.op = "sequenced" => Leaves(d)) => OnlyLeaves(W \o <<d>>)
    BY <1>3, <1>4, AddedToServer
  <2> QED
    BY <1>4, <2>1
<1>8. Brief(W \o <<d>>)
  <2>1. Brief(W) /\ (d.op = "sequenced" => Len(d.packet.payload) <= 1) =>
          Brief(W \o <<d>>)
    BY <1>3, <1>4, AddedToServer
  <2> QED
    BY <1>4, <2>1 DEF SessionInv, Small
<1>9. OneAttempt(V, W \o <<d>>)
  BY <1>2, <1>3, <1>4, AttemptAsk
<1>10. /\ Mode'
       /\ Len(chan'["client"].reliable) <= 1
       /\ Len(chan'["client"].message) + Len(cbuf') <= 1
  BY <1>1, <1>2, <1>5, <1>6, <1>7, CbufKeeps
<1>11. Small' /\ Attempt'
  BY <1>1, <1>5, <1>8, <1>9, <1>10 DEF Small, Attempt
<1> QED
  BY <1>1, <1>10, <1>11 DEF SessionInv

-----------------------------------------------------------------------------
(* The client transmits. *)

LEMMA SmallTransmit ==
  ASSUME NEW c \in ChannelOf(Command), CanTransmit(c),
         Len(c.reliable) <= 1, NEW n \in Nat, Len(c.message) + n <= 1
  PROVE  /\ Transmitted(c) \in ChannelOf(Command)
         /\ Len(Transmitted(c).reliable) <= 1
         /\ Len(Transmitted(c).message) + n <= 1
         /\ Transmitted(c).message \in {<<>>, c.message}
         /\ Len(PacketFrom(c).payload) <= 1
         /\ Transmitted(c).incoming_sequence = c.incoming_sequence
         /\ Transmitted(c).open = c.open
<1>1. c.message \in Seq(Command) /\ c.reliable \in Seq(Command)
  BY Numbers1
<1>2. /\ Transmitted(c).message = IF CanStageOf(c) THEN <<>> ELSE c.message
      /\ Transmitted(c).reliable = StagedOf(c)
      /\ Transmitted(c).incoming_sequence = c.incoming_sequence
      /\ Transmitted(c).open = c.open
  BY TransmittedFields
<1>3. Transmitted(c) \in ChannelOf(Command)
  BY TransmittedTypes
<1>4. Len(StagedOf(c)) <= 1
  BY <1>1 DEF StagedOf, CanStageOf
<1>5. Len(<<>>) = 0
  OBVIOUS
<1>6. Len(PacketFrom(c).payload) <= 1
  <2>1. PacketFrom(c).payload = IF NeedReliableOf(c) THEN StagedOf(c) ELSE <<>>
    BY DEF PacketFrom
  <2> QED
    BY <1>4, <1>5, <2>1
<1>7. Len(c.message) >= 0
  BY <1>1
<1>8. Len(Transmitted(c).message) + n <= 1
  BY <1>1, <1>2, <1>5, <1>7
<1> QED
  BY <1>2, <1>3, <1>4, <1>6, <1>8

(* What the client sends on its channel, when it is open.                   *)
LEMMA ClientAdds ==
  ASSUME Types, NEW c \in ChannelOf(Command), CanTransmit(c),
         NEW u \in {Nothing, Disconnect}, Len(PacketFrom(c).payload) <= 1,
         NEW W \in Seq(FromClient), NEW V \in Seq(FromServer), OneAttempt(V, W),
         ~Attempting(V, W) \/ u = Disconnect,
         Brief(W), NEW k
  PROVE  /\ DatagramOf(c, u).packet = PacketFrom(c)
         /\ ToServerIn(W \o Sequenced(c, u), k) \subseteq
              ToServerIn(W, k) \cup {DatagramOf(c, u)}
         /\ Brief(W \o Sequenced(c, u))
         /\ OneAttempt(V, W \o Sequenced(c, u))
         /\ Attempting(V, W \o Sequenced(c, u)) => Attempting(V, W)
         /\ u = Disconnect /\ OnlyLeaves(W) => OnlyLeaves(W \o Sequenced(c, u))
<1> DEFINE d == DatagramOf(c, u)
<1>1. d.packet = PacketFrom(c) /\ d.op = "sequenced" /\ d.unreliable = u
  BY DEF DatagramOf
<1>2. CASE ~c.open
  <2>1. Sequenced(c, u) = <<>>
    BY <1>2, SequencedIs
  <2>2. W \o <<>> = W
    OBVIOUS
  <2> QED
    BY <1>1, <2>1, <2>2
<1>3. CASE c.open
  <2>1. Sequenced(c, u) = <<d>>
    BY <1>3, SequencedIs
  <2>2. d \in SequencedOf(Command, {Nothing, Disconnect})
    BY SequencedTypes
  <2>3. d \in FromClient
    BY <2>2 DEF FromClient
  <2>4. Leaves(d) <=> u = Disconnect
    BY <1>1 DEF Leaves
  <2> HIDE DEF d
  <2>5. ToServerIn(W \o <<d>>, k) \subseteq ToServerIn(W, k) \cup {d}
    BY <2>3, AddedToServer
  <2>6. Brief(W) /\ (d.op = "sequenced" => Len(d.packet.payload) <= 1) =>
          Brief(W \o <<d>>)
    BY <2>3, AddedToServer
  <2>7. OnlyLeaves(W) /\ (d.op = "sequenced" => Leaves(d)) => OnlyLeaves(W \o <<d>>)
    BY <2>3, AddedToServer
  <2>8. /\ OneAttempt(V, W \o <<d>>)
        /\ Attempting(V, W \o <<d>>) => Attempting(V, W)
    BY <1>1, <2>3, <2>4, AttemptSequenced
  <2>9. /\ Brief(W \o <<d>>)
        /\ u = Disconnect /\ OnlyLeaves(W) => OnlyLeaves(W \o <<d>>)
    BY <1>1, <2>4, <2>6, <2>7
  <2>10. d = DatagramOf(c, u)
    BY DEF d
  <2> QED
    BY <1>1, <2>1, <2>5, <2>8, <2>9, <2>10
<1> QED
  BY <1>2, <1>3

LEMMA SendCmdKeeps ==
  ASSUME Types, SessionInv, Cl_SendCmd
  PROVE  SessionInv'
<1> DEFINE V == wire["client"]
           W == wire["server"]
           c == chan["client"]
           s == chan["server"]
           c0 == Transmitted(c)
           c1 == ExecutedBy(c0)
           d == DatagramOf(c, Nothing)
<1>1. /\ cls_state \in {"connected", "active"}
      /\ CanTransmit(c)
      /\ cbuf' = <<>>
      /\ chan'["client"] = c1
      /\ chan'["server"] = s
      /\ wire'["client"] = V
      /\ wire'["server"] = W \o Sequenced(c, Nothing)
      /\ UNCHANGED <<cls_state, data, sv_state, spawn_count, kicked>>
  BY SendCmdIs DEF server, history
<1>2. InConversation
  BY <1>1 DEF InConversation
<1>3. ~Attempting(V, W) /\ ~Answered /\ ClientChannel = c /\ ClientTexts = cbuf
      /\ Present
  BY <1>2, InConversationIs DEF SessionInv
<1>4. /\ V \in Seq(FromServer) /\ W \in Seq(FromClient)
      /\ c \in ChannelOf(Command) /\ s \in ChannelOf(ServerCommand)
      /\ Carries(ToClient, ServerCommand) /\ Carries(ToServer, Command)
  BY ViewTypes
<1>5. /\ Len(c.reliable) <= 1
      /\ Len(c.message) + Len(cbuf) <= 1
      /\ Len(cbuf) \in Nat
  BY DEF SessionInv, Small, Types, ClientTypes
<1>6. /\ c0 \in ChannelOf(Command)
      /\ Len(c0.reliable) <= 1
      /\ Len(c0.message) + Len(cbuf) <= 1
      /\ c0.message \in {<<>>, c.message}
      /\ Len(PacketFrom(c).payload) <= 1
      /\ c0.incoming_sequence = c.incoming_sequence
      /\ c0.open = c.open
  BY <1>1, <1>4, <1>5, SmallTransmit
<1>7. /\ d.packet = PacketFrom(c)
      /\ ToServerIn(W \o Sequenced(c, Nothing), s.incoming_sequence) \subseteq
           ToServerIn(W, s.incoming_sequence) \cup {d}
      /\ Brief(W \o Sequenced(c, Nothing))
      /\ OneAttempt(V, W \o Sequenced(c, Nothing))
      /\ ~Attempting(V, W \o Sequenced(c, Nothing))
  <2> DEFINE k == s.incoming_sequence
  <2> HIDE DEF k
  <2>1. OneAttempt(V, W) /\ Brief(W)
    BY DEF SessionInv, Small, Attempt
  <2>2. /\ DatagramOf(c, Nothing).packet = PacketFrom(c)
        /\ ToServerIn(W \o Sequenced(c, Nothing), k) \subseteq
             ToServerIn(W, k) \cup {DatagramOf(c, Nothing)}
        /\ Brief(W \o Sequenced(c, Nothing))
        /\ OneAttempt(V, W \o Sequenced(c, Nothing))
        /\ Attempting(V, W \o Sequenced(c, Nothing)) => Attempting(V, W)
    BY <1>1, <1>3, <1>4, <1>6, <2>1, ClientAdds
  <2> QED
    BY <1>3, <2>2 DEF k
<1>8. PICK m \in Seq(Command) :
        /\ c1 = Saying(c0, m)
        /\ c1.message = m
        /\ Len(m) <= 1
  <2>1. \E m \in Seq(Command) : /\ ExecutedBy(c0) = Saying(c0, m)
                                /\ ExecutedBy(c0).message = m
                                /\ Len(m) <= 1
    BY <1>6, ExecutedByIs
  <2> QED
    BY <2>1
<1>9. /\ c1.incoming_sequence = c.incoming_sequence
      /\ c1.open = c.open
      /\ c1.reliable = c0.reliable
  BY <1>6, <1>8, SayingIs
<1>10. ~Answered'
  BY <1>1, <1>3 DEF Answered
<1>11. ClientChannel' = c1 /\ ClientTexts' = <<>>
  BY <1>1, <1>10 DEF ClientChannel, ClientTexts
<1>12. Present' /\ InConversation'
  BY <1>1, <1>2 DEF Present, InConversation
<1>13. ToClient' = ToClient
  BY <1>1, <1>3, <1>9, <1>11 DEF ToClient
<1>14. ToServer' \subseteq ToServer \cup {d}
  BY <1>1, <1>7 DEF ToServer
<1>15. Small' /\ Attempt'
  BY <1>1, <1>6, <1>7, <1>8, <1>9 DEF Small, Attempt
<1>16. CASE Abandoned
  <2>1. Orphaned(cls_state, ToClient, c0.message, cbuf, data)
    <3>1. Orphaned(cls_state, ToClient, c.message, cbuf, data)
      BY <1>3, <1>16 DEF Abandoned
    <3> QED
      BY <1>6, <3>1 DEF Orphaned, Settled
  <2>2. Orphaned(cls_state, ToClient, c1.message, <<>>, data)
    BY <1>2, <1>6, <2>1, ExecutesOrphaned
  <2>3. Abandoned'
    BY <1>1, <1>11, <1>13, <1>16, <2>2 DEF Abandoned
  <2> QED
    BY <1>1, <1>15, <2>3 DEF SessionInv, Mode
<1>17. CASE Disengaged
  BY <1>3, <1>17 DEF Disengaged
<1>18. CASE Synced
  <2>1. Sound(c, s, ToServer, ToClient) /\ Sound(s, c, ToClient, ToServer)
    BY <1>3, <1>18 DEF Synced
  <2>2. Sound(c0, s, ToServer', ToClient) /\ Sound(s, c0, ToClient, ToServer')
    <3> HIDE DEF c, s, d
    <3> QED
      BY <1>4, <1>7, <1>14, <2>1, SoundTransmit
  <2>3. Sound(c1, s, ToServer', ToClient) /\ Sound(s, c1, ToClient, ToServer')
    BY <1>6, <1>8, <2>2, SoundMessage
  <2>4. /\ Undelivered(c0, s) = Undelivered(c, s)
        /\ Undelivered(s, c0) = Undelivered(s, c)
    BY <1>4, <2>1, UndeliveredTransmit
  <2>5. /\ Token(Undelivered(c0, s), Undelivered(s, c0), cbuf, InConversation, data)
        /\ Agreed(cls_state, sv_state, spawn_count, ToClient,
                  Silent(Undelivered(c0, s), Undelivered(s, c0), cbuf),
                  InConversation, data)
    <3>1. Up = Undelivered(c, s) /\ Down = Undelivered(s, c)
      BY <1>3 DEF Up, Down
    <3>2. /\ Token(Up, Down, ClientTexts, Present, data)
          /\ Agreed(cls_state, sv_state, spawn_count, ToClient,
                    Silent(Up, Down, ClientTexts), Present, data)
      BY <1>18 DEF Synced
    <3> QED
      BY <1>2, <1>3, <2>4, <3>1, <3>2 DEF Token, Agreed
  <2>6. /\ Token(Undelivered(c1, s), Undelivered(s, c1), <<>>, InConversation, data)
        /\ Agreed(cls_state, sv_state, spawn_count, ToClient,
                  Silent(Undelivered(c1, s), Undelivered(s, c1), <<>>),
                  InConversation, data)
    BY <1>4, <1>6, <2>5, Executes
  <2>7. Up' = Undelivered(c1, s) /\ Down' = Undelivered(s, c1)
    BY <1>1, <1>11 DEF Up, Down
  <2>8. Token(Up', Down', ClientTexts', Present', data')
    BY <1>1, <1>2, <1>11, <1>12, <2>6, <2>7 DEF Token
  <2>9. Agreed(cls_state', sv_state', spawn_count', ToClient',
               Silent(Up', Down', ClientTexts'), Present', data')
    BY <1>1, <1>2, <1>11, <1>12, <1>13, <2>6, <2>7 DEF Agreed
  <2>10. Synced'
    <3>1. /\ sv_state # "free"
          /\ c.open /\ s.open
          /\ {s.message, s.reliable} \subseteq {<<>>} \cup Answers
          /\ InOrder(V)
          /\ s.incoming_sequence = 0 => sv_state = "connected"
      BY <1>3, <1>18 DEF Synced
    <3> QED
      BY <1>1, <1>9, <1>11, <1>13, <2>3, <2>8, <2>9, <3>1 DEF Synced
  <2> QED
    BY <1>1, <1>15, <2>10 DEF SessionInv, Mode
<1> QED
  BY <1>16, <1>17, <1>18 DEF SessionInv, Mode

-----------------------------------------------------------------------------
(* The client leaves. *)

LEMMA LeftIs ==
  ASSUME NEW c \in ChannelOf(Command), CanTransmit(c)
  PROVE  /\ Transmitted(c) \in ChannelOf(Command)
         /\ Left(c) = Saying(Transmitted(c), <<>>)
         /\ Left(c) \in ChannelOf(Command)
         /\ Left(c).message = <<>>
         /\ Left(c).reliable = Transmitted(c).reliable
         /\ Left(c).incoming_sequence = c.incoming_sequence
         /\ Left(c).open = c.open
<1>1. Transmitted(c) \in ChannelOf(Command)
  BY TransmittedTypes
<1>2. /\ Transmitted(c).incoming_sequence = c.incoming_sequence
      /\ Transmitted(c).open = c.open
  BY TransmittedFields
<1>3. Left(c) = Saying(Transmitted(c), <<>>)
  BY DEF Left, Saying
<1> DEFINE t == Transmitted(c)
           m == <<>>
<1>4. t \in ChannelOf(Command) /\ m \in Seq(Command)
  BY <1>1
<1> HIDE DEF t, m
<1>5. /\ Saying(t, m) \in ChannelOf(Command)
      /\ Saying(t, m).message = m
      /\ Saying(t, m).reliable = t.reliable
      /\ Saying(t, m).incoming_sequence = t.incoming_sequence
      /\ Saying(t, m).open = t.open
  BY <1>4, SayingIs
<1> QED
  BY <1>1, <1>2, <1>3, <1>5 DEF t, m

(* Some of a command and what follows it.                                   *)
LEMMA OneCommand ==
  ASSUME NEW S, NEW a \in Seq(S), NEW b \in Seq(S), NEW t, a \o b = <<t>>
  PROVE  a = <<>> \/ a = <<t>>
<1>1. Len(a) + Len(b) = 1 /\ Len(a) \in Nat /\ Len(b) \in Nat
  <2>1. Len(a \o b) = Len(a) + Len(b)
    OBVIOUS
  <2>2. Len(<<t>>) = 1
    OBVIOUS
  <2> QED
    BY <2>1, <2>2
<1>2. CASE Len(a) = 0
  BY <1>2
<1>3. CASE Len(b) = 0
  <2>1. b = <<>>
    BY <1>3
  <2>2. a \o <<>> = a
    OBVIOUS
  <2> QED
    BY <2>1, <2>2
<1> QED
  BY <1>1, <1>2, <1>3

LEMMA DisconnectKeeps ==
  ASSUME Types, SessionInv, Cl_Disconnect
  PROVE  SessionInv'
<1> DEFINE V == wire["client"]
           W == wire["server"]
           c == chan["client"]
           s == chan["server"]
           c0 == Transmitted(c)
           c1 == Left(c)
           d == DatagramOf(c, Disconnect)
<1>1. /\ cls_state' = "disconnected" /\ data' = {} /\ cbuf' = <<>>
      /\ cbuf = <<>>
      /\ CanTransmit(c)
      /\ chan'["client"] = c1
      /\ chan'["server"] = s
      /\ wire'["client"] = V
      /\ wire'["server"] = W \o Sequenced(c, Disconnect)
      /\ UNCHANGED <<sv_state, spawn_count, kicked>>
  BY ClDisconnectIs DEF server
<1>2. ~InConversation'
  BY <1>1 DEF InConversation
<1>3. Answered' <=> Answered
  BY <1>1 DEF Answered
<1>4. /\ V \in Seq(FromServer) /\ W \in Seq(FromClient)
      /\ c \in ChannelOf(Command) /\ s \in ChannelOf(ServerCommand)
      /\ Carries(ToClient, ServerCommand) /\ Carries(ToServer, Command)
  BY ViewTypes
<1>5. /\ Len(c.reliable) <= 1
      /\ Len(c.message) + 0 <= 1
      /\ OneAttempt(V, W) /\ Brief(W)
      /\ Mode /\ Attempt /\ ~kicked
  BY <1>1 DEF SessionInv, Small, Attempt
<1>6. /\ c0 \in ChannelOf(Command)
      /\ Len(c0.reliable) <= 1
      /\ Len(PacketFrom(c).payload) <= 1
  BY <1>1, <1>4, <1>5, SmallTransmit
<1>7. /\ c1 = Saying(c0, <<>>)
      /\ c1.message = <<>>
      /\ c1.reliable = c0.reliable
      /\ c1.incoming_sequence = c.incoming_sequence
      /\ c1.open = c.open
  BY <1>1, <1>4, LeftIs
<1>8. /\ d.packet = PacketFrom(c)
      /\ ToServerIn(W \o Sequenced(c, Disconnect), s.incoming_sequence) \subseteq
           ToServerIn(W, s.incoming_sequence) \cup {d}
      /\ Brief(W \o Sequenced(c, Disconnect))
      /\ OneAttempt(V, W \o Sequenced(c, Disconnect))
      /\ Attempting(V, W \o Sequenced(c, Disconnect)) => Attempting(V, W)
      /\ OnlyLeaves(W) => OnlyLeaves(W \o Sequenced(c, Disconnect))
  <2> DEFINE k == s.incoming_sequence
  <2> HIDE DEF k
  <2>1. /\ DatagramOf(c, Disconnect).packet = PacketFrom(c)
        /\ ToServerIn(W \o Sequenced(c, Disconnect), k) \subseteq
             ToServerIn(W, k) \cup {DatagramOf(c, Disconnect)}
        /\ Brief(W \o Sequenced(c, Disconnect))
        /\ OneAttempt(V, W \o Sequenced(c, Disconnect))
        /\ Attempting(V, W \o Sequenced(c, Disconnect)) => Attempting(V, W)
        /\ OnlyLeaves(W) => OnlyLeaves(W \o Sequenced(c, Disconnect))
    BY <1>1, <1>4, <1>5, <1>6, ClientAdds
  <2> QED
    BY <2>1 DEF k
<1>9. Small' /\ Attempt'
  <2>1. Len(<<>>) = 0
    OBVIOUS
  <2> QED
    BY <1>1, <1>6, <1>7, <1>8, <2>1 DEF Small, Attempt
<1>10. ToServer' \subseteq ToServer \cup {d}
  BY <1>1, <1>8 DEF ToServer
<1>11. CASE Answered
  <2>1. /\ ClientChannel' = ClientChannel
        /\ ClientTexts' = <<>> /\ ClientTexts = <<>>
        /\ Present' /\ Present
        /\ ToClient' = ToClient
    BY <1>1, <1>3, <1>11 DEF ClientChannel, ClientTexts, Present, NewClientChannel,
                             ToClient
  <2>2. /\ Up = <<New>>
        /\ ClientChannel.message = <<New>>
        /\ ClientChannel.outgoing_sequence = 1
        /\ <<New>> # <<>>
    BY <1>11, NewIsUp
  <2>3. ~InConversation
    BY <1>5, <1>11, InConversationIs
  <2>4. CASE Abandoned
    <3>1. Orphaned(cls_state, ToClient, ClientChannel.message, <<>>, data)
      BY <2>1, <2>4 DEF Abandoned
    <3>2. Orphaned(cls_state', ToClient, ClientChannel.message, <<>>, data')
      BY <1>1, <2>2, <3>1 DEF Orphaned, Settled
    <3>3. Abandoned'
      BY <1>1, <2>1, <2>4, <3>2 DEF Abandoned
    <3> QED
      BY <1>1, <1>5, <1>9, <3>3 DEF SessionInv, Mode
  <2>5. CASE Disengaged
    BY <2>1, <2>5 DEF Disengaged
  <2>6. CASE Synced
    <3>1. s.incoming_sequence < 1
      BY <2>2, <2>6 DEF Synced, Sound, Sequential
    <3>2. s.incoming_sequence = 0
      BY <1>4, <3>1, Numbers1
    <3>3. OnlyLeaves(W)
      BY <1>5, <1>11 DEF OneAttempt, Answered, AnsweredIn, OutOfBandOps
    <3>4. ToServer' = {}
      BY <1>1, <1>8, <3>2, <3>3, OnlyResidual DEF ToServer
    <3>5. /\ Sound(ClientChannel, s, ToServer', ToClient)
          /\ Sound(s, ClientChannel, ToClient, ToServer')
      <4>1. /\ Sound(ClientChannel, s, ToServer, ToClient)
            /\ Sound(s, ClientChannel, ToClient, ToServer)
        BY <2>6 DEF Synced
      <4> QED
        BY <3>4, <4>1, SoundSubset
    <3>6. Up' = Up /\ Down' = Down
      BY <1>1, <2>1 DEF Up, Down
    <3>7. Token(Up, Down, <<>>, TRUE, {})
      <4>1. Token(Up, Down, <<>>, TRUE, data)
        BY <2>1, <2>6 DEF Synced, Token
      <4>2. Down = <<>>
        BY <2>2, <4>1 DEF Token, Silent
      <4>3. New \in Command /\ Asks(New, {})
        BY DEF Command, New, Asks
      <4> QED
        BY <2>2, <4>2, <4>3 DEF Token
    <3>8. Agreed("disconnected", sv_state, spawn_count, ToClient,
                 Silent(Up, Down, <<>>), TRUE, {})
      <4>1. Agreed(cls_state, sv_state, spawn_count, ToClient,
                   Silent(Up, Down, <<>>), TRUE, data)
        BY <2>1, <2>6 DEF Synced, Agreed
      <4>2. ~Silent(Up, Down, <<>>)
        BY <2>2 DEF Silent
      <4> QED
        BY <4>1, <4>2 DEF Agreed
    <3>9. Token(Up', Down', ClientTexts', Present', data')
      BY <1>1, <2>1, <3>6, <3>7 DEF Token
    <3>10. Agreed(cls_state', sv_state', spawn_count', ToClient',
                  Silent(Up', Down', ClientTexts'), Present', data')
      BY <1>1, <2>1, <3>6, <3>8 DEF Agreed
    <3>11. Synced'
      BY <1>1, <2>1, <2>6, <3>5, <3>9, <3>10 DEF Synced
    <3> QED
      BY <1>1, <1>5, <1>9, <3>11 DEF SessionInv, Mode
  <2> QED
    BY <1>5, <2>4, <2>5, <2>6 DEF Mode
<1>12. CASE ~Answered
  <2>1. /\ ClientChannel = c /\ ClientTexts = <<>>
        /\ ClientChannel' = c1 /\ ClientTexts' = <<>>
        /\ ~Present'
    BY <1>1, <1>2, <1>3, <1>12 DEF ClientChannel, ClientTexts, Present
  <2>2. ToClient' = ToClient
    BY <1>1, <1>7, <2>1 DEF ToClient
  <2>3. CASE Abandoned
    <3>1. Abandoned'
      BY <1>1, <2>1, <2>3 DEF Abandoned
    <3> QED
      BY <1>1, <1>5, <1>9, <3>1 DEF SessionInv, Mode
  <2>4. CASE Disengaged
    <3>1. Disengaged'
      BY <1>1, <1>8, <2>1, <2>4 DEF Disengaged
    <3> QED
      BY <1>1, <1>5, <1>9, <3>1 DEF SessionInv, Mode
  <2>5. CASE Synced
    <3>1. Sound(c, s, ToServer, ToClient) /\ Sound(s, c, ToClient, ToServer)
      BY <2>1, <2>5 DEF Synced
    <3>2. Sound(c0, s, ToServer', ToClient) /\ Sound(s, c0, ToClient, ToServer')
      <4> HIDE DEF c, s, d
      <4> QED
        BY <1>4, <1>8, <1>10, <3>1, SoundTransmit
    <3>3. Sound(c1, s, ToServer', ToClient) /\ Sound(s, c1, ToClient, ToServer')
      <4> DEFINE m == <<>>
                 P1 == ToServer'
      <4>1. c1 = Saying(c0, m)
        BY <1>7
      <4> HIDE DEF c0, c1, s, m, P1
      <4>2. Sound(c0, s, P1, ToClient) /\ Sound(s, c0, ToClient, P1)
        BY <3>2 DEF P1
      <4>3. /\ Sound(Saying(c0, m), s, P1, ToClient)
            /\ Sound(s, Saying(c0, m), ToClient, P1)
        BY <1>6, <4>2, SoundMessage
      <4> QED
        BY <4>1, <4>3 DEF P1
    <3>4. /\ Undelivered(c0, s) = Undelivered(c, s)
          /\ Undelivered(s, c0) = Undelivered(s, c)
      BY <1>4, <3>1, UndeliveredTransmit
    <3> DEFINE held == Unreceived(c0, s)
    <3>5. held \in Seq(Command) /\ c0.message \in Seq(Command)
      BY <1>6, UndeliveredTypes
    <3>6. /\ Up = held \o c0.message
          /\ Down = Undelivered(s, c0)
      BY <2>1, <3>4 DEF Up, Down, Undelivered
    <3>7. Up' = held /\ Down' = Undelivered(s, c0)
      <4>1. /\ Undelivered(c1, s) = held \o <<>>
            /\ Undelivered(s, c1) = Undelivered(s, c0)
        <5> DEFINE m == <<>>
        <5>1. c1 = Saying(c0, m)
          BY <1>7
        <5> HIDE DEF c0, c1, s, m
        <5>2. /\ Undelivered(Saying(c0, m), s) = Unreceived(c0, s) \o m
              /\ Undelivered(s, Saying(c0, m)) = Undelivered(s, c0)
          BY <1>6, UndeliveredMessage
        <5> QED
          BY <5>1, <5>2 DEF m
      <4>2. held \o <<>> = held
        BY <3>5
      <4> QED
        BY <1>1, <2>1, <4>1, <4>2 DEF Up, Down
    <3> HIDE DEF held
    <3>8. /\ Token(Up, Down, <<>>, Present, data)
          /\ Agreed(cls_state, sv_state, spawn_count, ToClient,
                    Silent(Up, Down, <<>>), Present, data)
      BY <2>1, <2>5 DEF Synced, Token, Agreed
    <3>9. Up = <<>> => held = <<>>
      BY <3>5, <3>6, EmptyConcat
    <3>10. \A t : Up = <<t>> => held = <<>> \/ held = <<t>>
      BY <3>5, <3>6, OneCommand
    <3>11. Token(held, Down, <<>>, FALSE, {})
      <4>1. CASE Silent(Up, Down, <<>>)
        BY <3>9, <4>1 DEF Token, Silent
      <4>2. CASE /\ Down = <<>>
                 /\ \E t \in Command : Up = <<t>>
        <5>1. PICK t \in Command : Up = <<t>>
          BY <4>2
        <5>2. held = <<>> \/ held = <<t>>
          BY <3>10, <5>1
        <5> QED
          BY <4>2, <5>2 DEF Token, Silent
      <4>3. CASE Up = <<>> /\ Down \in Answers
        BY <3>9, <4>3 DEF Token
      <4> QED
        BY <3>8, <4>1, <4>2, <4>3 DEF Token
    <3>12. Silent(Up, Down, <<>>) => Silent(held, Down, <<>>)
      BY <3>9 DEF Silent
    <3>13. Agreed("disconnected", sv_state, spawn_count, ToClient,
                  Silent(held, Down, <<>>), FALSE, {})
      BY <3>8, <3>12 DEF Agreed
    <3>14. Token(Up', Down', ClientTexts', Present', data')
      BY <1>1, <2>1, <3>6, <3>7, <3>11 DEF Token
    <3>15. Agreed(cls_state', sv_state', spawn_count', ToClient',
                  Silent(Up', Down', ClientTexts'), Present', data')
      BY <1>1, <2>1, <2>2, <3>6, <3>7, <3>13 DEF Agreed
    <3>16. Synced'
      <4>1. /\ sv_state # "free"
            /\ c.open /\ s.open
            /\ {s.message, s.reliable} \subseteq {<<>>} \cup Answers
            /\ InOrder(V)
            /\ s.incoming_sequence = 0 => sv_state = "connected"
        BY <2>1, <2>5 DEF Synced
      <4> QED
        BY <1>1, <1>7, <2>1, <2>2, <3>3, <3>14, <3>15, <4>1 DEF Synced
    <3> QED
      BY <1>1, <1>5, <1>9, <3>16 DEF SessionInv, Mode
  <2> QED
    BY <1>5, <2>3, <2>4, <2>5 DEF Mode
<1> QED
  BY <1>11, <1>12

-----------------------------------------------------------------------------
(* The client hears that it is let in. *)

LEMMA ClientConnectKeeps ==
  ASSUME Types, SessionInv, Cl_ClientConnect
  PROVE  SessionInv'
<1> DEFINE V == wire["client"]
           W == wire["server"]
           s == chan["server"]
<1>1. /\ Len(V) >= 1
      /\ V[1].op = "client_connect"
      /\ wire'["client"] = Tail(V)
      /\ wire'["server"] = W
      /\ UNCHANGED <<data, cbuf, sv_state, spawn_count, kicked>>
      /\ IF cls_state = "connected"
           THEN UNCHANGED <<cls_state, chan>>
           ELSE /\ chan'["client"] = NewClientChannel
                /\ chan'["server"] = s
                /\ cls_state' = "connected"
  BY ClientConnectIs DEF server, history
<1>2. V \in Seq(FromServer) /\ W \in Seq(FromClient)
  BY ViewTypes
<1>3. Mode /\ Attempt /\ Small /\ ~kicked
  BY DEF SessionInv
<1>4. 1 \in 1 .. Len(V)
  BY <1>1, <1>2
<1>5. Answered /\ Attempting(V, W)
  BY <1>1, <1>4 DEF Answered, AnsweredIn, Attempting, OutOfBandOps
<1>6. /\ cls_state \in {"connecting", "disconnected"}
      /\ cbuf = <<>>
  BY <1>3, <1>5 DEF Attempt
<1>7. /\ chan'["client"] = NewClientChannel
      /\ chan'["server"] = s
      /\ cls_state' = "connected"
  BY <1>1, <1>6
<1>8. /\ OnlyLeaves(W)
      /\ ~Attempting(Tail(V), W)
  BY <1>1, <1>2, <1>3, AttemptConnect DEF Attempt
<1>9. ~Answered'
  BY <1>1, <1>8 DEF Answered, AnsweredIn, Attempting, OutOfBandOps
<1>10. OneAttempt(Tail(V), W)
  BY <1>1, <1>2, <1>3, AttemptTail DEF Attempt
<1>11. /\ ClientChannel = NewClientChannel /\ ClientTexts = <<>>
       /\ ClientChannel' = NewClientChannel /\ ClientTexts' = <<>>
       /\ Present /\ Present'
  BY <1>1, <1>5, <1>6, <1>7, <1>9 DEF ClientChannel, ClientTexts, Present,
                                      InConversation, NewClientChannel
<1>12. ToClient' \subseteq ToClient
  <2> DEFINE k == NewClientChannel.incoming_sequence
  <2> HIDE DEF k
  <2>1. ToClientIn(Tail(V), k) \subseteq ToClientIn(V, k)
    BY <1>1, <1>2, TailToClient
  <2> QED
    BY <1>1, <1>11, <2>1 DEF ToClient, k
<1>13. ToServer' = ToServer
  BY <1>1, <1>7 DEF ToServer
<1>14. Attempt'
  BY <1>1, <1>8, <1>10 DEF Attempt
<1>15. Small'
  <2>1. /\ NewClientChannel.message = <<New>>
        /\ NewClientChannel.reliable = <<>>
    <3>1. NewChannel(TRUE).reliable = <<>>
      BY NewSynced
    <3> QED
      BY NewClientChannelIs DEF NewChannel
  <2>2. Len(<<New>>) = 1 /\ Len(<<>>) = 0
    OBVIOUS
  <2> QED
    BY <1>1, <1>3, <1>6, <1>7, <2>1, <2>2 DEF Small
<1>16. Up = <<New>> /\ <<New>> # <<>>
  BY <1>5, NewIsUp
<1>17. Up' = Up /\ Down' = Down
  BY <1>7, <1>11 DEF Up, Down
<1>18. CASE Abandoned
  <2>1. Orphaned(cls_state, ToClient', ClientChannel.message, <<>>, data)
    BY <1>11, <1>12, <1>18, OrphanedSubset DEF Abandoned
  <2>2. Orphaned(cls_state', ToClient', ClientChannel.message, <<>>, data)
    BY <1>7, <2>1 DEF Orphaned
  <2>3. Abandoned'
    BY <1>1, <1>11, <1>18, <2>2 DEF Abandoned
  <2> QED
    BY <1>1, <1>3, <1>14, <1>15, <2>3 DEF SessionInv, Mode
<1>19. CASE Disengaged
  BY <1>11, <1>19 DEF Disengaged
<1>20. CASE Synced
  <2>1. /\ Sound(ClientChannel, s, ToServer, ToClient')
        /\ Sound(s, ClientChannel, ToClient', ToServer)
    BY <1>12, <1>20, SoundSubset DEF Synced
  <2>2. InOrder(Tail(V))
    BY <1>1, <1>2, <1>20, TailToClient DEF Synced
  <2>3. ~Silent(Up, Down, ClientTexts)
    BY <1>16 DEF Silent
  <2>4. Agreed(cls_state, sv_state, spawn_count, ToClient,
               Silent(Up, Down, ClientTexts), Present, data)
    BY <1>20 DEF Synced
  <2>5. Agreed(cls_state', sv_state', spawn_count', ToClient',
               Silent(Up', Down', ClientTexts'), Present', data')
    BY <1>1, <1>7, <1>11, <1>12, <1>17, <2>3, <2>4 DEF Agreed
  <2>6. Token(Up', Down', ClientTexts', Present', data')
    BY <1>1, <1>11, <1>17, <1>20 DEF Synced, Token
  <2>7. Synced'
    BY <1>1, <1>7, <1>11, <1>13, <1>20, <2>1, <2>2, <2>5, <2>6 DEF Synced
  <2> QED
    BY <1>1, <1>3, <1>14, <1>15, <2>7 DEF SessionInv, Mode
<1> QED
  BY <1>3, <1>18, <1>19, <1>20 DEF Mode

-----------------------------------------------------------------------------
(* The server transmits. *)

LEMMA ServerAdds ==
  ASSUME Types, NEW s \in ChannelOf(ServerCommand), CanTransmit(s),
         NEW u \in {Nothing, Reconnect, Disconnect} \cup Frames,
         NEW V \in Seq(FromServer), NEW W \in Seq(FromClient), OneAttempt(V, W),
         NEW n
  PROVE  /\ DatagramOf(s, u).packet = PacketFrom(s)
         /\ DatagramOf(s, u).unreliable = u
         /\ ToClientIn(V, n) \subseteq ToClientIn(V \o Sequenced(s, u), n)
         /\ ToClientIn(V \o Sequenced(s, u), n) \subseteq
              ToClientIn(V, n) \cup {DatagramOf(s, u)}
         /\ u = Disconnect =>
              ToClientIn(V \o Sequenced(s, u), n) \subseteq ToClientIn(V, n)
         /\ AnsweredIn(V \o Sequenced(s, u)) <=> AnsweredIn(V)
         /\ OneAttempt(V \o Sequenced(s, u), W)
         /\ Attempting(V \o Sequenced(s, u), W) => Attempting(V, W)
         /\ s.open /\ u # Disconnect /\ n < s.outgoing_sequence =>
              DatagramOf(s, u) \in ToClientIn(V \o Sequenced(s, u), n)
         /\ /\ InOrder(V)
            /\ u # Disconnect
            /\ \A i \in 1 .. Len(V) : CurrentIn(V, i) /\ V[i].op = "sequenced" =>
                 V[i].packet.sequence < s.outgoing_sequence
            => InOrder(V \o Sequenced(s, u))
<1> DEFINE d == DatagramOf(s, u)
<1>1. /\ d.packet = PacketFrom(s) /\ d.op = "sequenced" /\ d.unreliable = u
      /\ d.packet.sequence = s.outgoing_sequence
  BY DEF DatagramOf, PacketFrom
<1>2. CASE ~s.open
  <2>1. Sequenced(s, u) = <<>>
    BY <1>2, SequencedIs
  <2>2. V \o <<>> = V
    OBVIOUS
  <2> QED
    BY <1>1, <1>2, <2>1, <2>2
<1>3. CASE s.open
  <2>1. Sequenced(s, u) = <<d>>
    BY <1>3, SequencedIs
  <2>2. d \in SequencedOf(ServerCommand,
                          {Nothing, Reconnect, Disconnect} \cup Frames)
    BY SequencedTypes
  <2>3. d \in FromServer
    BY <2>2 DEF FromServer
  <2>4. Leaves(d) <=> u = Disconnect
    BY <1>1 DEF Leaves
  <2>5. d.op # "client_connect"
    BY <1>1
  <2>6. d = DatagramOf(s, u)
    BY DEF d
  <2> HIDE DEF d
  <2>7. /\ ToClientIn(V, n) \subseteq ToClientIn(V \o <<d>>, n)
        /\ ToClientIn(V \o <<d>>, n) \subseteq ToClientIn(V, n) \cup {d}
        /\ AnsweredIn(V \o <<d>>) <=> AnsweredIn(V)
    BY <2>3, <2>5, AddedToClient
  <2>8. d.op # "sequenced" \/ d.unreliable = Disconnect =>
          ToClientIn(V \o <<d>>, n) \subseteq ToClientIn(V, n)
    BY <2>3, <2>5, AddedToClient
  <2>9. /\ InOrder(V)
        /\ ~Leaves(d)
        /\ \A i \in 1 .. Len(V) :
             CurrentIn(V, i) /\ V[i].op = "sequenced" /\ d.op = "sequenced"
               => V[i].packet.sequence < d.packet.sequence
        => InOrder(V \o <<d>>)
    BY <2>3, <2>5, AddedToClient
  <2>10. /\ d.op = "sequenced"
         /\ d.unreliable # Disconnect
         /\ n < d.packet.sequence
         => d \in ToClientIn(V \o <<d>>, n)
    BY <2>3, AddedToClient
  <2>11. /\ OneAttempt(V \o <<d>>, W)
         /\ Attempting(V \o <<d>>, W) => Attempting(V, W)
    BY <1>1, <2>3, AttemptSequenced
  <2> QED
    BY <1>1, <2>1, <2>4, <2>6, <2>7, <2>8, <2>9, <2>10, <2>11
<1> QED
  BY <1>2, <1>3

(* A client without a slot.                                                 *)
LEMMA SlotFreed ==
  ASSUME Types,
         Present => Orphaned(cls_state, ToClient, ClientChannel.message,
                             ClientTexts, data),
         sv_state' = "free",
         UNCHANGED <<cls_state, data, cbuf>>,
         chan'["client"] = chan["client"],
         Answered' <=> Answered,
         ToClientIn(wire'["client"], ClientChannel.incoming_sequence)
           \subseteq ToClient
  PROVE  Abandoned'
<1>1. /\ ClientChannel' = ClientChannel
      /\ ClientTexts' = ClientTexts
      /\ Present' <=> Present
  BY DEF ClientChannel, ClientTexts, Present, NewClientChannel, InConversation
<1>2. ToClient' \subseteq ToClient
  BY <1>1 DEF ToClient
<1>3. Present => Orphaned(cls_state, ToClient', ClientChannel.message,
                          ClientTexts, data)
  BY <1>2, OrphanedSubset
<1> QED
  BY <1>1, <1>3 DEF Abandoned, Orphaned

LEMMA DropClientKeeps ==
  ASSUME Types, SessionInv, Sv_DropClient
  PROVE  SessionInv'
<1> DEFINE V == wire["client"]
           W == wire["server"]
           s == chan["server"]
<1>1. /\ sv_state # "free" /\ sv_state' = "free"
      /\ CanTransmit(s)
      /\ wire'["server"] = W
      /\ wire'["client"] = V \o Sequenced(s, Disconnect)
      /\ chan'["client"] = chan["client"]
      /\ UNCHANGED <<cls_state, data, cbuf, spawn_count, kicked>>
  BY DropClientIs DEF client
<1>2. Mode /\ Attempt /\ Small /\ ~kicked
  BY DEF SessionInv
<1>3. /\ V \in Seq(FromServer) /\ W \in Seq(FromClient)
      /\ s \in ChannelOf(ServerCommand)
  BY ViewTypes
<1> DEFINE k == ClientChannel.incoming_sequence
<1> HIDE DEF k
<1>4. /\ ToClientIn(V \o Sequenced(s, Disconnect), k) \subseteq ToClientIn(V, k)
      /\ AnsweredIn(V \o Sequenced(s, Disconnect)) <=> AnsweredIn(V)
      /\ OneAttempt(V \o Sequenced(s, Disconnect), W)
      /\ Attempting(V \o Sequenced(s, Disconnect), W) => Attempting(V, W)
  <2>1. OneAttempt(V, W)
    BY <1>2 DEF Attempt
  <2> QED
    BY <1>1, <1>3, <2>1, ServerAdds
<1>5. Answered' <=> Answered
  BY <1>1, <1>4 DEF Answered
<1>6. ToClientIn(wire'["client"], ClientChannel.incoming_sequence) \subseteq ToClient
  BY <1>1, <1>4 DEF ToClient, k
<1>7. Present => Orphaned(cls_state, ToClient, ClientChannel.message,
                          ClientTexts, data)
  BY <1>1, <1>2, SyncedOrphaned DEF Mode, Abandoned, Disengaged
<1>8. Abandoned'
  BY <1>1, <1>5, <1>6, <1>7, SlotFreed
<1>9. Small' /\ Attempt'
  BY <1>1, <1>2, <1>4 DEF Small, Attempt
<1> QED
  BY <1>1, <1>2, <1>8, <1>9 DEF SessionInv, Mode

(* Netchan_Transmit of the server keeps the two ends synced.                *)
LEMMA SyncedTransmit ==
  ASSUME Types, Synced, Attempt, CanTransmit(chan["server"]),
         NEW u \in {Nothing, Reconnect} \cup Frames,
         chan'["server"] = Transmitted(chan["server"]),
         chan'["client"] = chan["client"],
         wire'["server"] = wire["server"],
         wire'["client"] = wire["client"] \o Sequenced(chan["server"], u),
         UNCHANGED <<cls_state, data, cbuf>>,
         \/ /\ UNCHANGED <<sv_state, spawn_count>>
            /\ u = IF sv_state = "active" THEN Frame(spawn_count) ELSE Nothing
         \/ /\ sv_state' = "connected"
            /\ u = Reconnect
  PROVE  Synced'
<1> DEFINE V == wire["client"]
           W == wire["server"]
           c == ClientChannel
           s == chan["server"]
           s0 == Transmitted(s)
           d == DatagramOf(s, u)
           k == ClientChannel.incoming_sequence
<1>1. /\ V \in Seq(FromServer) /\ W \in Seq(FromClient)
      /\ c \in ChannelOf(Command) /\ s \in ChannelOf(ServerCommand)
      /\ Carries(ToClient, ServerCommand) /\ Carries(ToServer, Command)
      /\ OneAttempt(V, W)
  BY ViewTypes DEF Attempt
<1>2. /\ Sound(c, s, ToServer, ToClient) /\ Sound(s, c, ToClient, ToServer)
      /\ sv_state # "free"
      /\ c.open /\ s.open
      /\ {s.message, s.reliable} \subseteq {<<>>} \cup Answers
      /\ InOrder(V)
      /\ s.incoming_sequence = 0 => sv_state = "connected"
      /\ Token(Up, Down, ClientTexts, Present, data)
      /\ Agreed(cls_state, sv_state, spawn_count, ToClient,
                Silent(Up, Down, ClientTexts), Present, data)
  BY DEF Synced
<1>3. u \in {Nothing, Reconnect, Disconnect} \cup Frames /\ u # Disconnect
  BY DEF Nothing, Reconnect, Disconnect, Frames, Frame
<1>4. k < s.outgoing_sequence
  BY <1>2 DEF Sound, Sequential
<1>5. ASSUME NEW i \in 1 .. Len(V), CurrentIn(V, i), V[i].op = "sequenced"
      PROVE  V[i].packet.sequence < s.outgoing_sequence
  <2>1. V[i].unreliable # Disconnect
    BY <1>2, <1>5 DEF InOrder, Leaves
  <2>2. V[i] \in Range(V)
    BY DEF Range
  <2>3. V[i].packet.sequence \in Int /\ k \in Int /\ s.outgoing_sequence \in Int
    <3>1. V[i] \in FromServer
      BY <1>1
    <3>2. V[i].packet \in PacketOf(ServerCommand)
      BY <1>5, <3>1 DEF FromServer, OutOfBandOf, SequencedOf
    <3> QED
      BY <1>1, <3>2, Numbers1, SessionAssumption DEF PacketOf
  <2>4. CASE k < V[i].packet.sequence
    <3>1. V[i] \in ToClient
      BY <1>5, <2>1, <2>2, <2>4 DEF ToClient, ToClientIn
    <3> QED
      BY <1>2, <3>1 DEF Sound, Sequential
  <2>5. CASE ~(k < V[i].packet.sequence)
    BY <1>4, <2>3, <2>5
  <2> QED
    BY <2>4, <2>5
<1>6. /\ d.packet = PacketFrom(s)
      /\ d.unreliable = u
      /\ ToClient \subseteq ToClientIn(V \o Sequenced(s, u), k)
      /\ ToClientIn(V \o Sequenced(s, u), k) \subseteq ToClient \cup {d}
      /\ AnsweredIn(V \o Sequenced(s, u)) <=> AnsweredIn(V)
      /\ d \in ToClientIn(V \o Sequenced(s, u), k)
      /\ InOrder(V \o Sequenced(s, u))
  <2> HIDE DEF k
  <2>1. /\ DatagramOf(s, u).packet = PacketFrom(s)
        /\ DatagramOf(s, u).unreliable = u
        /\ ToClientIn(V, k) \subseteq ToClientIn(V \o Sequenced(s, u), k)
        /\ ToClientIn(V \o Sequenced(s, u), k) \subseteq
             ToClientIn(V, k) \cup {DatagramOf(s, u)}
        /\ AnsweredIn(V \o Sequenced(s, u)) <=> AnsweredIn(V)
    BY <1>1, <1>3, ServerAdds
  <2>2. s.open /\ u # Disconnect /\ k < s.outgoing_sequence =>
          DatagramOf(s, u) \in ToClientIn(V \o Sequenced(s, u), k)
    BY <1>1, <1>3, ServerAdds
  <2>3. /\ InOrder(V)
        /\ u # Disconnect
        /\ \A i \in 1 .. Len(V) : CurrentIn(V, i) /\ V[i].op = "sequenced" =>
             V[i].packet.sequence < s.outgoing_sequence
        => InOrder(V \o Sequenced(s, u))
    BY <1>1, <1>3, ServerAdds
  <2>4. ToClient = ToClientIn(V, k)
    BY DEF ToClient, k
  <2>5. InOrder(V \o Sequenced(s, u))
    BY <1>2, <1>3, <1>5, <2>3
  <2>6. k < s.outgoing_sequence
    BY <1>4 DEF k
  <2> QED
    BY <1>2, <1>3, <2>1, <2>2, <2>4, <2>5, <2>6
<1>7. Answered' <=> Answered
  BY <1>6 DEF Answered
<1>8. /\ ClientChannel' = c
      /\ ClientTexts' = ClientTexts
      /\ Present' <=> Present
  BY <1>7 DEF ClientChannel, ClientTexts, Present, NewClientChannel, InConversation
<1>9. /\ ToClient \subseteq ToClient'
      /\ ToClient' \subseteq ToClient \cup {d}
      /\ d \in ToClient'
  BY <1>6, <1>8 DEF ToClient
<1>10. /\ s0.incoming_sequence = s.incoming_sequence
       /\ s0.message = IF CanStageOf(s) THEN <<>> ELSE s.message
       /\ s0.reliable = StagedOf(s)
       /\ s0.open = s.open
  BY <1>1, TransmittedFields
<1>11. {s0.message, s0.reliable} \subseteq {<<>>} \cup Answers
  BY <1>2, <1>10 DEF StagedOf
<1>12. ToServer' = ToServer
  BY <1>10 DEF ToServer
<1>13. Sound(c, s0, ToServer, ToClient') /\ Sound(s0, c, ToClient', ToServer)
  <2> HIDE DEF c, s, d
  <2> QED
    BY <1>1, <1>2, <1>6, <1>9, SoundTransmit
<1>14. /\ Undelivered(s0, c) = Undelivered(s, c)
       /\ Undelivered(c, s0) = Undelivered(c, s)
  BY <1>1, <1>2, UndeliveredTransmit
<1>15. Up' = Up /\ Down' = Down
  BY <1>8, <1>14 DEF Up, Down
<1> DEFINE silent == Silent(Up, Down, ClientTexts)
<1>16. CASE /\ UNCHANGED <<sv_state, spawn_count>>
            /\ u = IF sv_state = "active" THEN Frame(spawn_count) ELSE Nothing
  <2>1. u.op = "frame" => sv_state = "active" /\ u.level = spawn_count
    BY <1>16 DEF Frame, Nothing
  <2>2. Agreed(cls_state, sv_state, spawn_count, ToClient', silent, Present, data)
    BY <1>2, <1>6, <1>9, <2>1 DEF Agreed
  <2>3. Agreed(cls_state', sv_state', spawn_count', ToClient',
               Silent(Up', Down', ClientTexts'), Present', data')
    BY <1>8, <1>15, <1>16, <2>2 DEF Agreed
  <2>4. /\ sv_state' # "free"
        /\ s.incoming_sequence = 0 => sv_state' = "connected"
    BY <1>2, <1>16
  <2>5. Token(Up', Down', ClientTexts', Present', data')
    BY <1>2, <1>8, <1>15 DEF Token
  <2> QED
    BY <1>2, <1>6, <1>8, <1>10, <1>11, <1>12, <1>13, <2>3, <2>4, <2>5 DEF Synced
<1>17. CASE sv_state' = "connected" /\ u = Reconnect
  <2>1. u.op # "frame"
    BY <1>17 DEF Reconnect
  <2>2. Agreed(cls_state, "connected", spawn_count', ToClient', silent, Present, data)
    BY <1>2, <1>6, <1>9, <1>17, <2>1 DEF Agreed
  <2>3. Agreed(cls_state', sv_state', spawn_count', ToClient',
               Silent(Up', Down', ClientTexts'), Present', data')
    BY <1>8, <1>15, <1>17, <2>2 DEF Agreed
  <2>4. Token(Up', Down', ClientTexts', Present', data')
    BY <1>2, <1>8, <1>15 DEF Token
  <2> QED
    BY <1>2, <1>6, <1>8, <1>10, <1>11, <1>12, <1>13, <1>17, <2>3, <2>4 DEF Synced
<1> QED
  BY <1>16, <1>17

(* So do the actions in which it transmits.                                 *)
LEMMA TransmitKeeps ==
  ASSUME Types, SessionInv, sv_state # "free", CanTransmit(chan["server"]),
         NEW u \in {Nothing, Reconnect} \cup Frames,
         chan'["server"] = Transmitted(chan["server"]),
         chan'["client"] = chan["client"],
         wire'["server"] = wire["server"],
         wire'["client"] = wire["client"] \o Sequenced(chan["server"], u),
         UNCHANGED <<cls_state, data, cbuf, kicked>>,
         \/ /\ UNCHANGED <<sv_state, spawn_count>>
            /\ u = IF sv_state = "active" THEN Frame(spawn_count) ELSE Nothing
         \/ /\ sv_state' = "connected"
            /\ u = Reconnect
  PROVE  SessionInv'
<1> DEFINE V == wire["client"]
           W == wire["server"]
           s == chan["server"]
<1>1. Mode /\ Attempt /\ Small /\ ~kicked
  BY DEF SessionInv
<1>2. /\ V \in Seq(FromServer) /\ W \in Seq(FromClient)
      /\ s \in ChannelOf(ServerCommand)
      /\ OneAttempt(V, W)
      /\ u \in {Nothing, Reconnect, Disconnect} \cup Frames
  BY <1>1, ViewTypes DEF Attempt
<1>3. /\ AnsweredIn(V \o Sequenced(s, u)) <=> AnsweredIn(V)
      /\ OneAttempt(V \o Sequenced(s, u), W)
      /\ Attempting(V \o Sequenced(s, u), W) => Attempting(V, W)
  BY <1>2, ServerAdds
<1>4. Small' /\ Attempt'
  BY <1>1, <1>3 DEF Small, Attempt
<1>5. CASE Disengaged
  <2>1. Present' <=> Present
    BY <1>3 DEF Present, Answered, InConversation
  <2>2. Transmitted(s).incoming_sequence = s.incoming_sequence
    BY <1>2, TransmittedFields
  <2>3. Disengaged'
    BY <1>5, <2>1, <2>2 DEF Disengaged
  <2> QED
    BY <1>1, <1>4, <2>3 DEF SessionInv, Mode
<1>6. CASE Synced
  BY <1>1, <1>4, <1>6, SyncedTransmit DEF SessionInv, Mode
<1> QED
  BY <1>1, <1>5, <1>6 DEF Mode, Abandoned

LEMMA SendClientMessagesKeeps ==
  ASSUME Types, SessionInv, Sv_SendClientMessages
  PROVE  SessionInv'
<1> DEFINE u == IF sv_state = "active" THEN Frame(spawn_count) ELSE Nothing
<1>1. /\ sv_state # "free"
      /\ CanTransmit(chan["server"])
      /\ chan'["server"] = Transmitted(chan["server"])
      /\ chan'["client"] = chan["client"]
      /\ wire'["server"] = wire["server"]
      /\ wire'["client"] = wire["client"] \o Sequenced(chan["server"], u)
      /\ UNCHANGED <<cls_state, data, cbuf, sv_state, spawn_count, kicked>>
  BY SendClientMessagesIs DEF client, server, history
<1>2. u \in {Nothing, Reconnect} \cup Frames
  BY DEF Types, ServerTypes, Frames
<1>3. u = IF sv_state = "active" THEN Frame(spawn_count) ELSE Nothing
  OBVIOUS
<1> HIDE DEF u
<1> QED
  BY <1>1, <1>2, <1>3, TransmitKeeps

LEMMA InitServerKeeps ==
  ASSUME Types, SessionInv, Sv_InitServer
  PROVE  SessionInv'
<1>1. /\ UNCHANGED <<cls_state, data, cbuf, kicked>>
      /\ wire'["server"] = wire["server"]
      /\ \/ /\ sv_state = "free" /\ sv_state' = "free"
            /\ UNCHANGED <<chan, wire>>
         \/ /\ sv_state # "free" /\ sv_state' = "connected"
            /\ CanTransmit(chan["server"])
            /\ chan'["server"] = Transmitted(chan["server"])
            /\ chan'["client"] = chan["client"]
            /\ wire'["client"] =
                 wire["client"] \o Sequenced(chan["server"], Reconnect)
  BY InitServerIs DEF client, history
<1>2. CASE sv_state # "free"
  <2> DEFINE u == Reconnect
  <2>1. u \in {Nothing, Reconnect} \cup Frames /\ u = Reconnect
    OBVIOUS
  <2>2. wire'["client"] = wire["client"] \o Sequenced(chan["server"], u)
    BY <1>1, <1>2
  <2> HIDE DEF u
  <2> QED
    BY <1>1, <1>2, <2>1, <2>2, TransmitKeeps
<1>3. CASE sv_state = "free"
  <2>1. UNCHANGED <<cls_state, data, cbuf, kicked, sv_state, chan, wire>>
    BY <1>1, <1>3
  <2>2. Mode /\ Attempt /\ Small /\ ~kicked
    BY DEF SessionInv
  <2>3. Small' /\ Attempt'
    BY <2>1, <2>2 DEF Small, Attempt
  <2>4. Abandoned
    BY <1>3, <2>2 DEF Mode, Disengaged, Synced
  <2>5. Answered' <=> Answered
    BY <2>1 DEF Answered
  <2>6. ToClientIn(wire'["client"], ClientChannel.incoming_sequence) \subseteq ToClient
    BY <2>1 DEF ToClient
  <2>7. Abandoned'
    BY <1>3, <2>1, <2>4, <2>5, <2>6, SlotFreed DEF Abandoned
  <2> QED
    BY <2>1, <2>2, <2>3, <2>7 DEF SessionInv, Mode
<1> QED
  BY <1>2, <1>3

-----------------------------------------------------------------------------
(* The server reads a datagram of the channel. *)

(* It answers what it is asked, or has nothing left to say.                 *)
LEMMA AnswerGiven ==
  ASSUME spawn_count \in Levels, NEW a \in Command
  PROVE  \/ /\ Answer(a) \in Answers
            /\ \A D : Asks(a, D) => Continues(Answer(a), D)
            /\ ~(a.op = "begin" /\ ~Stale(a))
         \/ /\ Answer(a) = <<>>
            /\ a.op = "begin" /\ ~Stale(a)
            /\ \A D : Asks(a, D) => D = Level(spawn_count)
<1>1. CASE a.op = "new" \/ Stale(a)
  <2>1. Answer(a) = <<ServerData(spawn_count), Text(GetPart(spawn_count, 1))>>
    BY <1>1 DEF Answer, NewAnswer
  <2>2. Answer(a) \in Answers
    BY <2>1 DEF Answers
  <2>3. Answer(a)[1].op = "server_data"
    BY <2>1 DEF ServerData
  <2>4. ~(a.op = "begin" /\ ~Stale(a))
    BY <1>1
  <2> QED
    BY <2>2, <2>3, <2>4 DEF Continues
<1>2. CASE a.op # "new" /\ ~Stale(a) /\ a.op = "part"
  <2>1. PICK l \in Levels, k \in 1 .. Parts : a = GetPart(l, k)
    BY <1>2 DEF Command, New, Begin
  <2>2. a.level = l /\ a.part = k /\ l = spawn_count
    BY <1>2, <2>1 DEF GetPart, Stale
  <2>3. Answer(a) = <<Part(l, k), Text(IF k < Parts THEN GetPart(l, k + 1)
                                                   ELSE Precache(l))>>
    BY <1>2, <2>2 DEF Answer, PartAnswer
  <2>4. Answer(a) \in Answers
    BY <2>3 DEF Answers
  <2>5. /\ Answer(a)[1].level = l
        /\ Answer(a)[1].part = k
    BY <2>3 DEF Part
  <2>6. \A D : Asks(a, D) => Continues(Answer(a), D)
    BY <1>2, <2>2, <2>5 DEF Asks, Continues
  <2> QED
    BY <1>2, <2>4, <2>6
<1>3. CASE a.op # "new" /\ ~Stale(a) /\ a.op # "part"
  <2>1. PICK l \in Levels : a = Begin(l)
    BY <1>3 DEF Command, New, GetPart
  <2>2. a.level = l /\ l = spawn_count /\ a.op = "begin"
    BY <1>3, <2>1 DEF Begin, Stale
  <2>3. Answer(a) = <<>>
    BY <1>3 DEF Answer
  <2> QED
    BY <1>3, <2>2, <2>3 DEF Asks
<1> QED
  BY <1>1, <1>2, <1>3

(* The one command that a datagram holds.                                   *)
LEMMA CommandParsed ==
  ASSUME Types, NEW message \in Seq(ServerCommand), NEW commands \in Seq(Command),
         Len(commands) <= 1, sv_state # "free",
         commands = <<>> \/ sv_state = "connected"
  PROVE  LET parsed == ParseClientCommands([state |-> sv_state,
                                            message |-> message], commands)
         IN  /\ commands = <<>> => parsed.state = sv_state /\ parsed.message = message
             /\ parsed.state # "kicked"
             /\ commands # <<>> => \E a \in Command :
                  /\ commands = <<a>>
                  /\ parsed.message = message \o Answer(a)
                  /\ parsed.state = IF a.op = "begin" /\ ~Stale(a)
                                      THEN "active" ELSE "connected"
<1> DEFINE r == [state |-> sv_state, message |-> message]
<1>1. r \in ServerReading /\ spawn_count \in Levels
  BY DEF ServerReading, Types, ServerTypes
<1>2. r.state = sv_state /\ r.message = message
  OBVIOUS
<1>3. CASE commands = <<>>
  <2>1. ParseClientCommands(r, commands) = r
    BY <1>1, <1>3, FewClientCommands
  <2>2. sv_state # "kicked"
    BY DEF Types, ServerTypes, ServerStates
  <2> QED
    BY <1>2, <1>3, <2>1, <2>2
<1>4. CASE commands # <<>>
  <2>2. commands[1] \in Command /\ commands = <<commands[1]>>
    BY <1>4, Nonempty
  <2> DEFINE a == commands[1]
  <2>3. a \in Command /\ commands = <<a>>
    BY <2>2
  <2> HIDE DEF a
  <2>4. sv_state = "connected"
    BY <1>4
  <2> HIDE DEF r
  <2>5. ParseClientCommands(r, commands) = ParseClientCommand(r, a)
    BY <1>1, <2>3, FewClientCommands
  <2>6. ParseClientCommand(r, a) =
          [r EXCEPT !.message = @ \o Answer(a),
                    !.state = IF a.op = "begin" /\ ~Stale(a)
                                THEN "active" ELSE @]
    BY <1>2, <2>4 DEF ParseClientCommand
  <2>7. /\ ParseClientCommand(r, a).message = message \o Answer(a)
        /\ ParseClientCommand(r, a).state =
             IF a.op = "begin" /\ ~Stale(a) THEN "active" ELSE "connected"
    BY <1>1, <1>2, <2>4, <2>6 DEF ServerReading
  <2> QED
    BY <1>4, <2>3, <2>5, <2>7 DEF r
<1> QED
  BY <1>3, <1>4

(* What the server accepts can be one command, and then it is connected.    *)
LEMMA ServerHears ==
  ASSUME Types, Synced, Brief(wire["server"]), Len(wire["server"]) >= 1,
         Arrived("server"),
         Datagram("server") = wire["server"][1],
         Datagram("server").op = "sequenced", ServerAccepts,
         ~ResidualIn(wire["server"], chan["server"].incoming_sequence, 1)
  PROVE  LET p == Datagram("server").packet
         IN  /\ Datagram("server") \in ToServer
             /\ p \in PacketOf(Command)
             /\ Len(p.payload) <= 1
             /\ p.has_reliable =>
                  /\ Up = p.payload \o ClientChannel.message
                  /\ p.payload # <<>>
                  /\ sv_state = "connected"
                  /\ Down = <<>>
                  /\ ClientTexts = <<>>
                  /\ cls_state # "active"
                  /\ \A d \in ToClient : d.unreliable.op # "frame"
                  /\ \E t \in Command : Up = <<t>> /\ (Present => Asks(t, data))
             /\ ~p.has_reliable => p.payload = <<>>
             /\ p.payload = <<>> \/ sv_state = "connected"
<1> DEFINE W == wire["server"]
           c == ClientChannel
           s == chan["server"]
           p == Datagram("server").packet
<1>1. /\ W \in Seq(FromClient) /\ c \in ChannelOf(Command)
      /\ s \in ChannelOf(ServerCommand)
      /\ Carries(ToClient, ServerCommand) /\ Carries(ToServer, Command)
  BY ViewTypes
<1>2. 1 \in 1 .. Len(W)
  BY <1>1
<1>3. W[1] \in Range(W)
  BY <1>2 DEF Range
<1>4. Datagram("server") \in ToServer
  BY <1>2, <1>3 DEF ToServer, ToServerIn, ServerAccepts
<1>5. p \in PacketOf(Command)
  BY <1>1, <1>4 DEF Carries
<1>6. Len(p.payload) <= 1
  BY <1>2 DEF Brief
<1>7. Sound(c, s, ToServer, ToClient) /\ Sound(s, c, ToClient, ToServer)
  BY DEF Synced
<1>8. /\ p.has_reliable => /\ Up = p.payload \o c.message
                           /\ p.payload # <<>>
      /\ ~p.has_reliable => p.payload = <<>>
  <2> DEFINE q == Datagram("server")
  <2>1. q \in ToServer
    BY <1>4
  <2> HIDE DEF q, c, s
  <2>2. /\ q.packet.has_reliable => /\ Undelivered(c, s) = q.packet.payload \o c.message
                                    /\ q.packet.payload # <<>>
        /\ ~q.packet.has_reliable => q.packet.payload = <<>>
    <3>1. CASE q.packet.has_reliable
      <4>1. Unreceived(c, s) = q.packet.payload
        BY <1>1, <1>7, <2>1, <3>1, ReliableReceived
      <4>2. q.packet.payload # <<>>
        BY <1>1, <1>7, <2>1, <3>1, ReliableHolds
      <4> QED
        BY <3>1, <4>1, <4>2 DEF Undelivered
    <3>2. CASE ~q.packet.has_reliable
      BY <1>1, <1>7, <2>1, <3>2, UnreliableReceived
    <3> QED
      BY <3>1, <3>2
  <2> QED
    BY <2>2 DEF q, c, s, Up
<1>9. p.has_reliable => Up # <<>>
  <2>1. p.payload \in Seq(Command) /\ c.message \in Seq(Command)
    BY <1>1, <1>5, Numbers1 DEF PacketOf
  <2>2. p.payload \o c.message = <<>> => p.payload = <<>>
    BY <2>1, EmptyConcat
  <2> QED
    BY <1>8, <2>2
<1>10. p.has_reliable =>
         /\ sv_state = "connected"
         /\ Down = <<>>
         /\ ClientTexts = <<>>
         /\ cls_state # "active"
         /\ \A d \in ToClient : d.unreliable.op # "frame"
         /\ \E t \in Command : Up = <<t>> /\ (Present => Asks(t, data))
  <2> SUFFICES ASSUME p.has_reliable
               PROVE  /\ sv_state = "connected"
                      /\ Down = <<>>
                      /\ ClientTexts = <<>>
                      /\ cls_state # "active"
                      /\ \A d \in ToClient : d.unreliable.op # "frame"
                      /\ \E t \in Command : Up = <<t>> /\ (Present => Asks(t, data))
    OBVIOUS
  <2>1. ~Silent(Up, Down, ClientTexts)
    BY <1>9 DEF Silent
  <2>2. /\ Down = <<>>
        /\ ClientTexts = <<>>
        /\ \E t \in Command : Up = <<t>> /\ (Present => Asks(t, data))
    BY <1>9 DEF Synced, Token, Silent
  <2>3. /\ sv_state # "active" /\ cls_state # "active"
        /\ \A d \in ToClient : d.unreliable.op # "frame"
    BY <2>1 DEF Synced, Agreed
  <2>4. sv_state = "connected"
    BY <2>3 DEF Synced, Types, ServerTypes, ServerStates
  <2> QED
    BY <2>2, <2>3, <2>4
<1> QED
  BY <1>4, <1>5, <1>6, <1>8, <1>10 DEF PacketOf

(* It stays in step with the client when it answers.                        *)
LEMMA ServerStaysSynced ==
  ASSUME Types, Synced, Brief(wire["server"]), Len(wire["server"]) >= 1,
         Arrived("server"),
         Datagram("server") = wire["server"][1],
         Datagram("server").op = "sequenced", ServerAccepts,
         ~ResidualIn(wire["server"], chan["server"].incoming_sequence, 1),
         UNCHANGED <<cls_state, data, cbuf, spawn_count>>,
         wire'["server"] = Tail(wire["server"]),
         wire'["client"] = wire["client"],
         chan'["server"] = ServerAnswers,
         chan'["client"] = chan["client"],
         sv_state' = ServerParsed.state
  PROVE  Synced'
<1> DEFINE W == wire["server"]
           c == ClientChannel
           s == chan["server"]
           q == Datagram("server")
           p == Datagram("server").packet
           s1 == ServerReads
           s2 == ServerAnswers
           m == ServerParsed.message
<1>1. /\ W \in Seq(FromClient) /\ c \in ChannelOf(Command)
      /\ s \in ChannelOf(ServerCommand)
      /\ Carries(ToClient, ServerCommand) /\ Carries(ToServer, Command)
  BY ViewTypes
<1>2. /\ q \in ToServer
      /\ p \in PacketOf(Command)
      /\ Len(p.payload) <= 1
      /\ p.has_reliable =>
           /\ Up = p.payload \o c.message
           /\ p.payload # <<>>
           /\ sv_state = "connected"
           /\ Down = <<>>
           /\ ClientTexts = <<>>
           /\ cls_state # "active"
           /\ \A d \in ToClient : d.unreliable.op # "frame"
           /\ \E t \in Command : Up = <<t>> /\ (Present => Asks(t, data))
      /\ ~p.has_reliable => p.payload = <<>>
      /\ p.payload = <<>> \/ sv_state = "connected"
  BY ServerHears
<1>3. /\ Sound(c, s, ToServer, ToClient) /\ Sound(s, c, ToClient, ToServer)
      /\ sv_state # "free"
      /\ c.open /\ s.open
      /\ {s.message, s.reliable} \subseteq {<<>>} \cup Answers
      /\ InOrder(wire["client"])
      /\ Token(Up, Down, ClientTexts, Present, data)
      /\ Agreed(cls_state, sv_state, spawn_count, ToClient,
                Silent(Up, Down, ClientTexts), Present, data)
  BY DEF Synced
<1>4. /\ s1 \in ChannelOf(ServerCommand)
      /\ s1.message = s.message
      /\ s2 = Saying(s1, m)
      /\ s2 \in ChannelOf(ServerCommand)
      /\ m \in Seq(ServerCommand)
  BY ServerReadsIs DEF ServerAnswers, ServerReading, Saying
<1>5. s1 = Processed(s, p)
  BY DEF ServerReads
<1>6. /\ s1.incoming_sequence = p.sequence
      /\ s1.reliable \in {<<>>, s.reliable}
      /\ s1.open = s.open
  <2> DEFINE r == s
  <2>1. r \in ChannelOf(ServerCommand)
    BY <1>1
  <2> HIDE DEF r
  <2>2. \A x : /\ Processed(r, x).incoming_sequence = x.sequence
               /\ Processed(r, x).open = r.open
               /\ Processed(r, x).reliable =
                    IF x.reliable_ack = r.reliable_sequence THEN <<>> ELSE r.reliable
    BY <2>1, ProcessedFields
  <2> QED
    BY <1>5, <2>2 DEF r
<1>7. /\ s2.message = m
      /\ s2.incoming_sequence = p.sequence
      /\ s2.reliable = s1.reliable
      /\ s2.open
  <2> HIDE DEF s1, s2, m
  <2>1. /\ Saying(s1, m).message = m
        /\ Saying(s1, m).reliable = s1.reliable
        /\ Saying(s1, m).incoming_sequence = s1.incoming_sequence
        /\ Saying(s1, m).open = s1.open
    BY <1>4, SayingIs
  <2> QED
    BY <1>3, <1>4, <1>6, <2>1
<1>8. /\ Answered' <=> Answered
      /\ ClientChannel' = c
      /\ ClientTexts' = ClientTexts
      /\ Present' <=> Present
  BY DEF Answered, ClientChannel, ClientTexts, Present, NewClientChannel,
         InConversation
<1>9. ToClient' = ToClient
  BY <1>8 DEF ToClient
<1>10. /\ p.sequence \in Int /\ p.sequence >= 1
       /\ s.incoming_sequence \in Int
       /\ s.incoming_sequence < p.sequence
  BY <1>1, <1>2, Numbers1, SessionAssumption DEF PacketOf, ServerAccepts
<1>11. ToServer' \subseteq ToServer /\ (\A d \in ToServer' : p.sequence < d.packet.sequence)
  <2>5. W \in Seq(FromClient)
    BY <1>1
  <2>1. \A i \in 1 .. Len(W) : W[i].op = "sequenced" => W[i].packet.sequence \in Int
    BY <2>5, SessionAssumption DEF FromClient, OutOfBandOf, SequencedOf, PacketOf
  <2> DEFINE n == s.incoming_sequence
             k == p.sequence
  <2>2. /\ n \in Int /\ k \in Int /\ n <= k
        /\ ~ResidualIn(W, n, 1)
        /\ ToServer = ToServerIn(W, n)
        /\ ToServer' = ToServerIn(Tail(W), k)
    BY <1>7, <1>10 DEF ToServer
  <2> HIDE DEF n, k
  <2>3. ToServerIn(Tail(W), k) \subseteq ToServerIn(W, n)
    BY <1>1, <2>1, <2>2, TailToServer
  <2>4. \A d \in ToServerIn(Tail(W), k) : k < d.packet.sequence
    BY DEF ToServerIn
  <2> QED
    BY <2>2, <2>3, <2>4 DEF k
<1>12. Sound(c, s1, ToServer', ToClient) /\ Sound(s1, c, ToClient, ToServer')
  <2> DEFINE x == q
             P1 == ToServer'
  <2>1. /\ x \in ToServer /\ P1 \in SUBSET ToServer
        /\ \A d \in P1 : x.packet.sequence < d.packet.sequence
    BY <1>2, <1>11
  <2> HIDE DEF c, s, x, P1
  <2>2. /\ Sound(c, Processed(s, x.packet), P1, ToClient)
        /\ Sound(Processed(s, x.packet), c, ToClient, P1)
    BY <1>1, <1>3, <2>1, SoundReceive
  <2> QED
    BY <1>5, <2>2 DEF x, P1
<1>13. Sound(c, s2, ToServer', ToClient) /\ Sound(s2, c, ToClient, ToServer')
  <2> HIDE DEF s1, s2, c, m
  <2> QED
    BY <1>4, <1>12, SoundMessage
<1>14. /\ Undelivered(s1, c) = Down
       /\ p.has_reliable => Undelivered(c, s1) = c.message
       /\ ~p.has_reliable => Undelivered(c, s1) = Up
  <2> DEFINE x == q
  <2>1. x \in ToServer
    BY <1>2
  <2> HIDE DEF c, s, x
  <2>2. /\ Undelivered(Processed(s, x.packet), c) = Undelivered(s, c)
        /\ x.packet.has_reliable =>
             Undelivered(c, Processed(s, x.packet)) = c.message
        /\ ~x.packet.has_reliable =>
             Undelivered(c, Processed(s, x.packet)) = Undelivered(c, s)
    <3>1. CASE x.packet.has_reliable
      BY <1>1, <1>3, <2>1, <3>1, ReliableReceived
    <3>2. CASE ~x.packet.has_reliable
      BY <1>1, <1>3, <2>1, <3>2, UnreliableReceived
    <3> QED
      BY <3>1, <3>2
  <2> QED
    BY <1>5, <2>2 DEF x, c, s, Up, Down
<1> DEFINE held == Unreceived(s1, c)
<1>15. /\ Undelivered(s2, c) = held \o m
       /\ Undelivered(c, s2) = Undelivered(c, s1)
  <2> HIDE DEF s1, s2, c, m
  <2> QED
    BY <1>4, UndeliveredMessage
<1>16. /\ Up' = Undelivered(c, s1)
       /\ Down' = held \o m
  BY <1>8, <1>15 DEF Up, Down
<1>17. /\ p.payload = <<>> => ServerParsed.state = sv_state /\ m = s.message
       /\ p.payload # <<>> => \E a \in Command :
            /\ p.payload = <<a>>
            /\ m = s.message \o Answer(a)
            /\ ServerParsed.state = IF a.op = "begin" /\ ~Stale(a)
                                      THEN "active" ELSE "connected"
  <2>1. s.message \in Seq(ServerCommand) /\ p.payload \in Seq(Command)
    BY <1>1, <1>2, Numbers1 DEF PacketOf
  <2> QED
    BY <1>2, <1>3, <2>1, CommandParsed DEF ServerParsed
<1>18. /\ s1.message \in Seq(ServerCommand)
       /\ held \in Seq(ServerCommand)
       /\ Undelivered(s1, c) = held \o s.message
       /\ Undelivered(s1, c) = <<>> => held = <<>> /\ s.message = <<>>
  <2>1. Undelivered(s1, c) = held \o s.message
    BY <1>4 DEF Undelivered
  <2> QED
    BY <1>4, <2>1, UndeliveredTypes
<1>19. s2.incoming_sequence # 0
  BY <1>7, <1>10
<1> HIDE DEF held
<1>20. CASE ~p.has_reliable
  <2>1. p.payload = <<>>
    BY <1>2, <1>20
  <2>2. sv_state' = sv_state /\ m = s.message
    BY <1>17, <2>1
  <2>3. Up' = Up /\ Down' = Down
    BY <1>14, <1>16, <1>18, <1>20, <2>2
  <2>4. {s2.message, s2.reliable} \subseteq {<<>>} \cup Answers
    BY <1>3, <1>6, <1>7, <2>2
  <2>5. Token(Up', Down', ClientTexts', Present', data')
    BY <1>3, <1>8, <2>3 DEF Token
  <2>6. Agreed(cls_state', sv_state', spawn_count', ToClient',
               Silent(Up', Down', ClientTexts'), Present', data')
    BY <1>3, <1>8, <1>9, <2>2, <2>3 DEF Agreed
  <2> QED
    BY <1>3, <1>7, <1>8, <1>9, <1>13, <1>19, <2>2, <2>4, <2>5, <2>6 DEF Synced
<1>21. CASE p.has_reliable
  <2>1. PICK t \in Command : Up = <<t>> /\ (Present => Asks(t, data))
    BY <1>2, <1>21
  <2>2. PICK a \in Command :
          /\ p.payload = <<a>>
          /\ m = s.message \o Answer(a)
          /\ ServerParsed.state = IF a.op = "begin" /\ ~Stale(a)
                                    THEN "active" ELSE "connected"
    BY <1>2, <1>17, <1>21
  <2>3. a = t /\ c.message = <<>>
    <3>1. c.message \in Seq(Command)
      BY <1>1, Numbers1
    <3>2. <<a>> \o c.message = <<t>>
      BY <1>2, <1>21, <2>1, <2>2
    <3> DEFINE b == c.message
    <3>3. b \in Seq(Command) /\ <<a>> \o b = <<t>> /\ <<a>> \in Seq(Command)
      BY <3>1, <3>2
    <3> HIDE DEF b
    <3>4. <<a>> = <<t>>
      <4>1. <<a>> = <<>> \/ <<a>> = <<t>>
        BY <3>3, OneCommand
      <4> QED
        BY <4>1
    <3>5. Len(<<a>> \o b) = 1 + Len(b) /\ Len(<<t>>) = 1
      BY <3>3
    <3>6. Len(b) = 0
      <4> DEFINE n == Len(b)
      <4>1. n \in Nat /\ 1 + n = 1
        BY <3>2, <3>3, <3>5, Nonempty DEF b
      <4> HIDE DEF n
      <4>2. n = 0
        BY <4>1
      <4> QED
        BY <4>2 DEF n
    <3>7. b = <<>>
      BY <3>3, <3>6
    <3> QED
      BY <3>4, <3>7 DEF b
  <2>4. held = <<>> /\ s.message = <<>>
    BY <1>2, <1>14, <1>18, <1>21
  <2>5. spawn_count \in Levels
    BY DEF Types, ServerTypes
  <2>6. Answer(a) \in Seq(ServerCommand)
    BY <2>5, AnswerTypes
  <2> DEFINE answer == Answer(a)
  <2>7. /\ <<>> \o answer = answer
    BY <2>6
  <2>8. m = answer /\ Up' = <<>> /\ Down' = answer
    BY <1>14, <1>16, <1>21, <2>2, <2>3, <2>4, <2>7
  <2>9. ClientTexts' = <<>> /\ cls_state' # "active"
    BY <1>2, <1>8, <1>21
  <2>10. \A d \in ToClient' : d.unreliable.op # "frame"
    BY <1>2, <1>9, <1>21
  <2>11. s2.reliable \in {<<>>} \cup Answers
    BY <1>3, <1>6, <1>7
  <2>12. Present' => Asks(a, data')
    BY <1>8, <2>1, <2>3
  <2>13. CASE /\ answer \in Answers
              /\ \A D : Asks(a, D) => Continues(answer, D)
              /\ ~(a.op = "begin" /\ ~Stale(a))
    <3>1. sv_state' = "connected"
      BY <2>2, <2>13
    <3>2. answer # <<>>
      BY <2>13, AnswerIs
    <3>3. Token(Up', Down', ClientTexts', Present', data')
      BY <2>8, <2>9, <2>12, <2>13 DEF Token
    <3>4. ~Silent(Up', Down', ClientTexts')
      BY <2>8, <3>2 DEF Silent
    <3>5. Agreed(cls_state', sv_state', spawn_count', ToClient',
                 Silent(Up', Down', ClientTexts'), Present', data')
      BY <2>9, <2>10, <3>1, <3>4 DEF Agreed
    <3> QED
      BY <1>3, <1>7, <1>8, <1>9, <1>13, <1>19, <2>8, <2>11, <2>13, <3>1, <3>3, <3>5
         DEF Synced
  <2>14. CASE /\ answer = <<>>
              /\ a.op = "begin" /\ ~Stale(a)
              /\ \A D : Asks(a, D) => D = Level(spawn_count)
    <3>1. sv_state' = "active"
      BY <2>2, <2>14
    <3>2. Silent(Up', Down', ClientTexts')
      BY <2>8, <2>9, <2>14 DEF Silent
    <3>3. Token(Up', Down', ClientTexts', Present', data')
      BY <3>2 DEF Token
    <3>4. Agreed(cls_state', sv_state', spawn_count', ToClient',
                 Silent(Up', Down', ClientTexts'), Present', data')
      BY <2>9, <2>10, <2>12, <2>14, <3>1, <3>2 DEF Agreed
    <3> QED
      BY <1>3, <1>7, <1>8, <1>9, <1>13, <1>19, <2>8, <2>11, <2>14, <3>1, <3>3, <3>4
         DEF Synced
  <2> QED
    BY <2>5, <2>13, <2>14, AnswerGiven
<1> QED
  BY <1>20, <1>21

(* A client that has begun says nothing more that the server could take for *)
(* an error.                                                                *)
LEMMA ServerNeverKicks ==
  ASSUME Types, Mode, Brief(wire["server"]), Len(wire["server"]) >= 1,
         Arrived("server"),
         Datagram("server") = wire["server"][1],
         Datagram("server").op = "sequenced", ServerAccepts
  PROVE  ServerParsed.state # "kicked"
<1> DEFINE W == wire["server"]
           s == chan["server"]
           p == Datagram("server").packet
<1>1. /\ W \in Seq(FromClient) /\ s \in ChannelOf(ServerCommand)
  BY ViewTypes
<1>2. p \in PacketOf(Command)
  BY FromClientIs DEF Types
<1>3. /\ s.message \in Seq(ServerCommand)
      /\ p.payload \in Seq(Command)
  BY <1>1, <1>2, Numbers1 DEF PacketOf
<1>4. 1 \in 1 .. Len(W)
  BY <1>1
<1>5. Len(p.payload) <= 1
  BY <1>4 DEF Brief
<1>6. sv_state # "free"
  BY DEF ServerAccepts
<1>7. p.payload = <<>> \/ sv_state = "connected"
  <2>1. CASE Disengaged
    BY <2>1 DEF Disengaged
  <2>2. CASE Synced /\ ResidualIn(W, s.incoming_sequence, 1)
    BY <2>2 DEF ResidualIn, Synced
  <2>3. CASE Synced /\ ~ResidualIn(W, s.incoming_sequence, 1)
    BY <2>3, ServerHears
  <2> QED
    BY <1>6, <2>1, <2>2, <2>3 DEF Mode, Abandoned
<1> DEFINE m == s.message
           commands == p.payload
<1>8. /\ m \in Seq(ServerCommand) /\ commands \in Seq(Command)
      /\ Len(commands) <= 1
      /\ commands = <<>> \/ sv_state = "connected"
      /\ ServerParsed = ParseClientCommands([state |-> sv_state, message |-> m],
                                            commands)
  BY <1>3, <1>5, <1>7 DEF ServerParsed
<1> HIDE DEF m, commands
<1>9. ParseClientCommands([state |-> sv_state, message |-> m], commands).state
        # "kicked"
  BY <1>6, <1>8, CommandParsed
<1> QED
  BY <1>8, <1>9

(* Sv_ReadPackets: what it reads may be the last of a former connection.    *)
LEMMA SvReadPacketKeeps ==
  ASSUME Types, SessionInv, Sv_ReadPacket
  PROVE  SessionInv'
<1> DEFINE V == wire["client"]
           W == wire["server"]
           s == chan["server"]
           q == Datagram("server")
<1>1. /\ Arrived("server")
      /\ Len(W) >= 1
      /\ q = W[1]
      /\ q.op = "sequenced"
      /\ wire'["server"] = Tail(W)
      /\ UNCHANGED <<cls_state, data, cbuf, spawn_count>>
  BY SvReadPacketIs DEF client
<1>2. \/ /\ ~ServerAccepts
         /\ wire'["client"] = V
         /\ UNCHANGED <<sv_state, chan, kicked>>
      \/ /\ ServerAccepts
         /\ ServerParsed.state = "kicked" \/ q.unreliable = Disconnect
         /\ CanTransmit(ServerAnswers)
         /\ wire'["client"] = V \o Sequenced(ServerAnswers, Disconnect)
         /\ sv_state' = "free"
         /\ chan'["client"] = chan["client"]
         /\ chan'["server"] = NewChannel(FALSE)
         /\ kicked' = (kicked \/ ServerParsed.state = "kicked")
      \/ /\ ServerAccepts
         /\ ServerParsed.state # "kicked"
         /\ q.unreliable # Disconnect
         /\ wire'["client"] = V
         /\ chan'["server"] = ServerAnswers
         /\ chan'["client"] = chan["client"]
         /\ sv_state' = ServerParsed.state
         /\ kicked' = kicked
  BY SvReadPacketIs
<1>3. Mode /\ Attempt /\ Small /\ ~kicked /\ Brief(W) /\ OneAttempt(V, W)
  BY DEF SessionInv, Small, Attempt
<1>4. V \in Seq(FromServer) /\ W \in Seq(FromClient)
  BY ViewTypes
<1>5. CASE /\ ~ServerAccepts
           /\ wire'["client"] = V
           /\ UNCHANGED <<sv_state, chan, kicked>>
  <2>1. /\ Answered' <=> Answered
        /\ ToClient' = ToClient
    BY <1>1, <1>5 DEF Answered, ToClient, ClientChannel, NewClientChannel
  <2>2. Mode'
    BY <1>1, <1>3, <1>5, <2>1, ServerLoses
  <2>3. Aside'
    BY <1>1, <1>3, <1>5, AsideLoses DEF Aside
  <2> QED
    BY <2>2, <2>3 DEF Aside, SessionInv
<1>6. CASE /\ ServerAccepts
           /\ CanTransmit(ServerAnswers)
           /\ wire'["client"] = V \o Sequenced(ServerAnswers, Disconnect)
           /\ sv_state' = "free"
           /\ chan'["client"] = chan["client"]
           /\ kicked' = (kicked \/ ServerParsed.state = "kicked")
  <2>1. ServerParsed.state # "kicked"
    BY <1>1, <1>3, <1>6, ServerNeverKicks
  <2>2. ~kicked'
    BY <1>3, <1>6, <2>1
  <2>3. /\ OneAttempt(V, Tail(W))
        /\ Attempting(V, Tail(W)) => Attempting(V, W)
        /\ Brief(Tail(W))
        /\ Tail(W) \in Seq(FromClient)
    BY <1>1, <1>3, <1>4, AttemptTail, TailLeaves, TailIs
  <2> DEFINE X == ServerAnswers
             T == Tail(W)
             k == ClientChannel.incoming_sequence
  <2>4. X \in ChannelOf(ServerCommand) /\ CanTransmit(X)
    BY <1>1, <1>6, ServerReadsIs
  <2>5. OneAttempt(V, T) /\ T \in Seq(FromClient)
    BY <2>3
  <2> HIDE DEF X, T, k
  <2>6. /\ ToClientIn(V \o Sequenced(X, Disconnect), k) \subseteq ToClientIn(V, k)
        /\ AnsweredIn(V \o Sequenced(X, Disconnect)) <=> AnsweredIn(V)
        /\ OneAttempt(V \o Sequenced(X, Disconnect), T)
        /\ Attempting(V \o Sequenced(X, Disconnect), T) => Attempting(V, T)
    BY <1>4, <2>4, <2>5, ServerAdds
  <2>7. wire'["client"] = V \o Sequenced(X, Disconnect) /\ wire'["server"] = T
    BY <1>1, <1>6 DEF X, T
  <2>8. Answered' <=> Answered
    BY <2>6, <2>7 DEF Answered
  <2>9. ToClientIn(wire'["client"], ClientChannel.incoming_sequence) \subseteq ToClient
    BY <2>6, <2>7 DEF ToClient, k
  <2>10. Present => Orphaned(cls_state, ToClient, ClientChannel.message,
                             ClientTexts, data)
    BY <1>3, <1>6, SyncedOrphaned DEF Mode, Abandoned, Disengaged, ServerAccepts
  <2>11. Abandoned'
    BY <1>1, <1>6, <2>8, <2>9, <2>10, SlotFreed
  <2>12. Attempt'
    <3>1. OneAttempt(wire'["client"], wire'["server"])
      BY <2>6, <2>7
    <3>2. Attempting(wire'["client"], wire'["server"]) => Attempting(V, W)
      BY <2>3, <2>6, <2>7 DEF T
    <3> QED
      BY <1>1, <1>3, <3>1, <3>2 DEF Attempt
  <2>13. Small'
    BY <1>1, <1>3, <1>6, <2>3 DEF Small
  <2> QED
    BY <2>2, <2>11, <2>12, <2>13 DEF SessionInv, Mode
<1>7. CASE /\ ServerAccepts
           /\ q.unreliable # Disconnect
           /\ wire'["client"] = V
           /\ chan'["server"] = ServerAnswers
           /\ chan'["client"] = chan["client"]
           /\ sv_state' = ServerParsed.state
           /\ kicked' = kicked
  <2>1. 1 \in 1 .. Len(W) /\ 1 \in 1 .. 1
    BY <1>1, <1>4
  <2>2. ~Leaves(W[1]) /\ W[1].op = "sequenced"
    BY <1>1, <1>7 DEF Leaves
  <2>3. ~Disengaged
    BY <2>1, <2>2 DEF Disengaged, OnlyLeaves
  <2>4. ~ResidualIn(W, s.incoming_sequence, 1)
    BY <2>1, <2>2 DEF ResidualIn
  <2>5. Synced
    BY <1>3, <1>7, <2>3 DEF Mode, Abandoned, ServerAccepts
  <2>6. Synced'
    BY <1>1, <1>3, <1>7, <2>4, <2>5, ServerStaysSynced
  <2>7. Aside'
    BY <1>1, <1>3, <1>7, AsideLoses DEF Aside
  <2> QED
    BY <2>6, <2>7 DEF Aside, SessionInv, Mode
<1> QED
  BY <1>2, <1>5, <1>6, <1>7

-----------------------------------------------------------------------------
(* The client reads a datagram of the channel. *)

(* An answer leaves it with one text, which asks for what it lacks.         *)
LEMMA AnswerParsed ==
  ASSUME NEW r \in ClientReading, r.message = <<>>, r.cbuf = <<>>,
         NEW a \in Answers
  PROVE  LET parsed == ParseServerCommands(r, a)
         IN  /\ parsed.message = <<>>
             /\ parsed.state \in {"connected", r.state}
             /\ \E t \in ClientText : /\ t.op \in {"part", "precache"}
                                      /\ parsed.cbuf = <<t>>
                                      /\ Continues(a, r.data) => Asks(t, parsed.data)
<1>1. Parts \in Nat \ {0}
  BY SessionAssumption
<1>2. CASE \E l \in Levels : a = <<ServerData(l), Text(GetPart(l, 1))>>
  <2>1. PICK l \in Levels : a = <<ServerData(l), Text(GetPart(l, 1))>>
    BY <1>2
  <2> DEFINE t == GetPart(l, 1)
             r1 == [Cleared(r) EXCEPT !.state = "connected"]
  <2>2. t \in Command /\ t \in ClientText
    BY <1>1 DEF ClientText, Command
  <2>3. t.op = "part" /\ t.level = l /\ t.part = 1
    BY DEF GetPart
  <2>4. ServerData(l) \in ServerCommand /\ Text(t) \in ServerCommand
    BY <2>2 DEF ServerCommand
  <2>5. ParseServerCommand(r, ServerData(l)) = r1
    BY DEF ParseServerCommand, ServerData
  <2>6. r1 \in ClientReading
    BY <2>4, <2>5, ServerCommandParsed
  <2>7. r1.message = <<>> /\ r1.cbuf = <<>> /\ r1.data = {} /\ r1.state = "connected"
    BY DEF Cleared, ClientReading
  <2> HIDE DEF r1, t
  <2>8. ParseServerCommand(r1, Text(t)) = [r1 EXCEPT !.cbuf = Append(@, t)]
    BY DEF ParseServerCommand, Text
  <2> DEFINE r2 == [r1 EXCEPT !.cbuf = <<t>>]
  <2>9. Append(r1.cbuf, t) = <<t>>
    BY <2>7
  <2>10. ParseServerCommand(r1, Text(t)) = r2
    BY <2>8, <2>9
  <2>11. r2.message = <<>> /\ r2.cbuf = <<t>> /\ r2.data = {} /\ r2.state = "connected"
    BY <2>6, <2>7 DEF ClientReading
  <2> HIDE DEF r2
  <2>12. ParseServerCommands(r, a) = r2
    BY <2>1, <2>4, <2>5, <2>10, FewServerCommands DEF t
  <2>13. {t.level} \X (1 .. t.part - 1) = {}
    BY <2>3
  <2>14. Asks(t, {})
    BY <2>3, <2>13 DEF Asks
  <2> QED
    BY <2>2, <2>3, <2>11, <2>12, <2>14
<1>3. CASE \E l \in Levels, k \in 1 .. Parts :
             a = <<Part(l, k), Text(IF k < Parts THEN GetPart(l, k + 1)
                                                 ELSE Precache(l))>>
  <2>1. PICK l \in Levels, k \in 1 .. Parts :
             a = <<Part(l, k), Text(IF k < Parts THEN GetPart(l, k + 1)
                                                 ELSE Precache(l))>>
    BY <1>3
  <2> DEFINE t == IF k < Parts THEN GetPart(l, k + 1) ELSE Precache(l)
             D == r.data \cup {<<l, k>>}
             r1 == [r EXCEPT !.data = D]
  <2>2. /\ t \in ClientText /\ t.op \in {"part", "precache"}
        /\ t.level = l
        /\ k < Parts => t.op = "part" /\ t.part = k + 1
        /\ k = Parts => t.op = "precache"
    <3>1. CASE k < Parts
      <4>1. k + 1 \in 1 .. Parts
        BY <1>1, <3>1
      <4>2. t = GetPart(l, k + 1)
        BY <3>1
      <4>3. t \in ClientText
        BY <4>1, <4>2 DEF ClientText, Command
      <4> QED
        BY <3>1, <4>2, <4>3, <1>1 DEF GetPart
    <3>2. CASE ~(k < Parts)
      <4>1. t = Precache(l)
        BY <3>2
      <4> QED
        BY <3>2, <4>1 DEF Precache, ClientText
    <3> QED
      BY <3>1, <3>2
  <2>3. Part(l, k) \in ServerCommand /\ Text(t) \in ServerCommand
    BY <2>2 DEF ServerCommand
  <2>4. a = <<Part(l, k), Text(t)>>
    BY <2>1
  <2> HIDE DEF t
  <2>5. ParseServerCommand(r, Part(l, k)) = r1
    BY DEF ParseServerCommand, Part
  <2>6. r1 \in ClientReading
    BY <2>3, <2>5, ServerCommandParsed
  <2> HIDE DEF D
  <2>7. /\ r1.message = <<>> /\ r1.cbuf = <<>> /\ r1.data = D
        /\ r1.state = r.state
    BY DEF ClientReading
  <2> HIDE DEF r1
  <2>8. ParseServerCommand(r1, Text(t)) = [r1 EXCEPT !.cbuf = Append(@, t)]
    BY DEF ParseServerCommand, Text
  <2> DEFINE r2 == [r1 EXCEPT !.cbuf = <<t>>]
  <2>9. Append(r1.cbuf, t) = <<t>>
    BY <2>7
  <2>10. ParseServerCommand(r1, Text(t)) = r2
    BY <2>8, <2>9
  <2>11. r2.message = <<>> /\ r2.cbuf = <<t>> /\ r2.data = D /\ r2.state = r.state
    BY <2>6, <2>7 DEF ClientReading
  <2> HIDE DEF r2
  <2>12. ParseServerCommands(r, a) = r2
    BY <2>3, <2>4, <2>5, <2>10, FewServerCommands
  <2>13. Continues(a, r.data) => D = {l} \X (1 .. k)
    <3>1. a[1] = Part(l, k)
      BY <2>4
    <3>2. Continues(a, r.data) => r.data = {l} \X (1 .. k - 1)
      BY <3>1 DEF Continues, Part
    <3>3. ({l} \X (1 .. k - 1)) \cup {<<l, k>>} = {l} \X (1 .. k)
      <4>1. (1 .. k - 1) \cup {k} = 1 .. k
        BY <1>1
      <4> QED
        BY <4>1
    <3> QED
      BY <3>2, <3>3 DEF D
  <2>14. D = {l} \X (1 .. k) => Asks(t, D)
    <3>1. CASE k < Parts
      <4>1. (k + 1) - 1 = k
        BY <1>1
      <4> QED
        BY <2>2, <3>1, <4>1 DEF Asks
    <3>2. CASE ~(k < Parts)
      <4>1. k = Parts
        BY <1>1, <3>2
      <4> QED
        BY <2>2, <4>1 DEF Asks, Level
    <3> QED
      BY <3>1, <3>2
  <2> QED
    BY <2>2, <2>11, <2>12, <2>13, <2>14
<1> QED
  BY <1>2, <1>3 DEF Answers

(* The rest of what comes is later than what the client has accepted.       *)
LEMMA LaterToClient ==
  ASSUME NEW S, NEW V \in Seq(S), Len(V) >= 1, NEW n \in Int, ~AnsweredIn(V),
         V[1].op = "sequenced", V[1].unreliable # Disconnect,
         \A i \in 1 .. Len(V) : V[i].op = "sequenced" => V[i].packet.sequence \in Int,
         n < V[1].packet.sequence
  PROVE  /\ V[1] \in ToClientIn(V, n)
         /\ ToClientIn(Tail(V), V[1].packet.sequence) \subseteq ToClientIn(V, n)
         /\ \A d \in ToClientIn(Tail(V), V[1].packet.sequence) :
              V[1].packet.sequence < d.packet.sequence
         /\ InOrder(V) =>
              \A d \in ToClientIn(V, n) :
                d = V[1] \/ d \in ToClientIn(Tail(V), V[1].packet.sequence)
<1> DEFINE k == V[1].packet.sequence
           T == Tail(V)
<1>1. 1 \in 1 .. Len(V)
  BY DEF ToClientIn
<1>2. CurrentIn(V, 1)
  BY <1>1 DEF CurrentIn, AnsweredIn
<1>3. V[1] \in ToClientIn(V, n)
  BY <1>1, <1>2 DEF ToClientIn, Range
<1>4. k \in Int /\ n < k
  BY <1>1
<1> HIDE DEF k
<1>5. ToClientIn(T, k) \subseteq ToClientIn(T, n)
  <2>1. T \in Seq(S) /\ \A i \in 1 .. Len(T) :
          T[i].op = "sequenced" => T[i].packet.sequence \in Int
    BY <1>1, TailIs
  <2> HIDE DEF T
  <2>2. \A i \in 1 .. Len(T) : T[i].op = "sequenced" /\ k < T[i].packet.sequence
                               => n < T[i].packet.sequence
    BY <1>4, <2>1
  <2> QED
    BY <2>2 DEF ToClientIn
<1>6. ToClientIn(T, n) \subseteq ToClientIn(V, n)
  BY TailToClient
<1>7. \A d \in ToClientIn(T, k) : k < d.packet.sequence
  BY DEF ToClientIn
<1>8. ASSUME InOrder(V), NEW d \in ToClientIn(V, n), d # V[1]
      PROVE  d \in ToClientIn(T, k)
  <2>1. PICK i \in 1 .. Len(V) : /\ d = V[i]
                                 /\ d.op = "sequenced"
                                 /\ d.unreliable # Disconnect
    BY <1>8 DEF ToClientIn
  <2>2. i # 1
    BY <1>8, <2>1
  <2>3. 1 < i
    BY <1>1, <2>2
  <2>4. k < d.packet.sequence
    BY <1>1, <1>2, <1>8, <2>1, <2>3 DEF InOrder, k
  <2>5. d \in ToClientIn(T, n)
    BY <1>8, TailToClient
  <2> QED
    BY <2>4, <2>5 DEF ToClientIn
<1> QED
  BY <1>3, <1>5, <1>6, <1>7, <1>8 DEF k

LEMMA ClientReadsFields ==
  ASSUME Types, Arrived("client"), Datagram("client").op = "sequenced"
  PROVE  /\ ClientReads \in ChannelOf(Command)
         /\ ClientReads.message = chan["client"].message
         /\ ClientReads.reliable \in {<<>>, chan["client"].reliable}
         /\ ClientReads.incoming_sequence = Datagram("client").packet.sequence
         /\ ClientReads.open = chan["client"].open
         /\ ClientParsed \in ClientReading
<1> DEFINE c == chan["client"]
           p == Datagram("client").packet
<1>1. c \in ChannelOf(Command)
  BY DEF Types, ChannelTypes
<1> HIDE DEF c
<1>2. \A x : /\ Processed(c, x).incoming_sequence = x.sequence
             /\ Processed(c, x).open = c.open
             /\ Processed(c, x).reliable =
                  IF x.reliable_ack = c.reliable_sequence THEN <<>> ELSE c.reliable
  BY <1>1, ProcessedFields
<1>3. ClientReads = Processed(c, p)
  BY DEF ClientReads, c
<1>4. /\ ClientReads \in ChannelOf(Command)
      /\ ClientReads.message = chan["client"].message
      /\ ClientParsed \in ClientReading
  BY ClientReadsIs
<1> HIDE DEF p
<1>5. ClientReads.reliable \in {<<>>, c.reliable}
  BY <1>2, <1>3
<1>6. ClientReads.incoming_sequence = p.sequence /\ ClientReads.open = c.open
  BY <1>2, <1>3
<1> QED
  BY <1>4, <1>5, <1>6 DEF c, p

LEMMA StateParsed ==
  ASSUME NEW state, NEW u \in {Nothing, Reconnect} \cup Frames
  PROVE  \/ u = Nothing /\ ParseUnreliable(state, u) = state
         \/ u = Reconnect /\ ParseUnreliable(state, u) = "connecting"
         \/ u \in Frames /\ u.op = "frame" /\ ParseUnreliable(state, u) = "active"
<1>1. CASE u = Nothing
  BY <1>1 DEF ParseUnreliable, Nothing
<1>2. CASE u = Reconnect
  BY <1>2 DEF ParseUnreliable, Reconnect
<1>3. CASE u \in Frames
  <2>1. u.op = "frame"
    BY <1>3 DEF Frames, Frame
  <2> QED
    BY <1>3, <2>1 DEF ParseUnreliable
<1> QED
  BY <1>1, <1>2, <1>3

(* What a client that accepts a datagram still has to come.                 *)
LEMMA ClientHears ==
  ASSUME Types, Attempt, Len(wire["client"]) >= 1,
         Datagram("client") = wire["client"][1],
         Datagram("client").op = "sequenced", ClientAccepts,
         Datagram("client").unreliable # Disconnect,
         wire'["client"] = Tail(wire["client"]),
         chan'["client"].incoming_sequence = Datagram("client").packet.sequence
  PROVE  /\ ~Attempting(wire["client"], wire["server"])
         /\ ~Answered /\ ClientChannel = chan["client"] /\ ClientTexts = cbuf
         /\ Present /\ InConversation
         /\ ~Answered' /\ ClientChannel' = chan'["client"] /\ ClientTexts' = cbuf'
         /\ Present' <=> InConversation'
         /\ Datagram("client") \in ToClient
         /\ Datagram("client").unreliable \in {Nothing, Reconnect} \cup Frames
         /\ ToClient' \subseteq ToClient
         /\ \A d \in ToClient' :
              Datagram("client").packet.sequence < d.packet.sequence
         /\ InOrder(wire["client"]) =>
              /\ InOrder(wire'["client"])
              /\ \A d \in ToClient : d = Datagram("client") \/ d \in ToClient'
<1> DEFINE V == wire["client"]
           q == Datagram("client")
           n == chan["client"].incoming_sequence
<1>1. InConversation
  BY DEF ClientAccepts
<1>2. /\ ~Attempting(V, wire["server"])
      /\ ~Answered /\ ClientChannel = chan["client"] /\ ClientTexts = cbuf
      /\ Present
  BY <1>1, InConversationIs
<1>3. /\ V \in Seq(FromServer)
      /\ chan["client"] \in ChannelOf(Command)
  BY ViewTypes
<1>4. n \in Int /\ n < V[1].packet.sequence
  BY <1>3, Numbers1 DEF ClientAccepts
<1>5. \A i \in 1 .. Len(V) : V[i].op = "sequenced" => V[i].packet.sequence \in Int
  BY <1>3, SessionAssumption DEF FromServer, OutOfBandOf, SequencedOf, PacketOf
<1>6. /\ ~AnsweredIn(V)
      /\ V[1].op # "client_connect"
      /\ V[1].op = "sequenced" /\ V[1].unreliable # Disconnect
  BY <1>2 DEF Answered
<1>7. ToClient = ToClientIn(V, n)
  BY <1>2 DEF ToClient
<1>8. /\ AnsweredIn(Tail(V)) <=> AnsweredIn(V)
      /\ InOrder(V) => InOrder(Tail(V))
  BY <1>3, <1>6, TailToClient
<1>9. ~Answered'
  BY <1>6, <1>8 DEF Answered
<1>10. /\ ClientChannel' = chan'["client"] /\ ClientTexts' = cbuf'
       /\ Present' <=> InConversation'
  BY <1>9 DEF ClientChannel, ClientTexts, Present
<1>11. ToClient' = ToClientIn(Tail(V), V[1].packet.sequence)
  BY <1>10 DEF ToClient
<1> HIDE DEF n
<1>12. /\ V[1] \in ToClientIn(V, n)
       /\ ToClientIn(Tail(V), V[1].packet.sequence) \subseteq ToClientIn(V, n)
       /\ \A d \in ToClientIn(Tail(V), V[1].packet.sequence) :
            V[1].packet.sequence < d.packet.sequence
       /\ InOrder(V) =>
            \A d \in ToClientIn(V, n) :
              d = V[1] \/ d \in ToClientIn(Tail(V), V[1].packet.sequence)
  BY <1>3, <1>4, <1>5, <1>6, LaterToClient
<1>13. q.unreliable \in {Nothing, Reconnect} \cup Frames
  BY <1>7, <1>12, ViewTypes
<1>14. InOrder(V) =>
         /\ InOrder(wire'["client"])
         /\ \A d \in ToClient : d = q \/ d \in ToClient'
  BY <1>7, <1>8, <1>11, <1>12
<1> QED
  BY <1>1, <1>2, <1>7, <1>9, <1>10, <1>11, <1>12, <1>13, <1>14

(* A reliable message is an answer; without one the client says no more.    *)
LEMMA ClientParses ==
  ASSUME Types, Arrived("client"), Datagram("client").op = "sequenced",
         \/ Datagram("client").packet.payload = <<>>
         \/ /\ Datagram("client").packet.payload \in Answers
            /\ chan["client"].message = <<>> /\ cbuf = <<>>
  PROVE  \/ /\ Datagram("client").packet.payload = <<>>
            /\ ClientParsed.message = chan["client"].message
            /\ ClientParsed.state = cls_state
            /\ ClientParsed.data = data
            /\ ClientParsed.cbuf = cbuf
         \/ /\ Datagram("client").packet.payload # <<>>
            /\ Datagram("client").packet.payload \in Answers
            /\ ClientParsed.message = <<>>
            /\ ClientParsed.state \in {"connected", cls_state}
            /\ \E t \in ClientText :
                 /\ t.op \in {"part", "precache"}
                 /\ ClientParsed.cbuf = <<t>>
                 /\ Continues(Datagram("client").packet.payload, data) =>
                      Asks(t, ClientParsed.data)
<1> DEFINE r == [state |-> cls_state, data |-> data, cbuf |-> cbuf,
                 message |-> chan["client"].message]
           a == Datagram("client").packet.payload
<1>1. r \in ClientReading
  BY Numbers1 DEF Types, ClientTypes, ChannelTypes, ClientReading
<1>2. /\ r.message = chan["client"].message /\ r.state = cls_state
      /\ r.data = data /\ r.cbuf = cbuf
  OBVIOUS
<1>3. ClientParsed = ParseServerCommands(r, a)
  BY DEF ClientParsed
<1> HIDE DEF r, a
<1>4. CASE a = <<>>
  <2>1. ClientParsed = r
    BY <1>1, <1>3, <1>4, FewServerCommands
  <2> QED
    BY <1>2, <1>4, <2>1 DEF a
<1>5. CASE a # <<>>
  <2>1. a \in Answers /\ r.message = <<>> /\ r.cbuf = <<>>
    BY <1>2, <1>5 DEF a
  <2>2. /\ ParseServerCommands(r, a).message = <<>>
        /\ ParseServerCommands(r, a).state \in {"connected", r.state}
        /\ \E t \in ClientText :
             /\ t.op \in {"part", "precache"}
             /\ ParseServerCommands(r, a).cbuf = <<t>>
             /\ Continues(a, r.data) => Asks(t, ParseServerCommands(r, a).data)
    BY <1>1, <2>1, AnswerParsed
  <2> QED
    BY <1>2, <1>3, <1>5, <2>1, <2>2 DEF a
<1> QED
  BY <1>4, <1>5

(* What the client does with a datagram it accepts.                         *)
ClientTakes ==
  /\ Arrived("client")
  /\ Len(wire["client"]) >= 1
  /\ Datagram("client") = wire["client"][1]
  /\ Datagram("client").op = "sequenced"
  /\ wire'["client"] = Tail(wire["client"])
  /\ ClientAccepts
  /\ Datagram("client").unreliable # Disconnect
  /\ wire'["server"] = wire["server"]
  /\ chan'["client"] = Saying(ClientReads, ClientParsed.message)
  /\ chan'["server"] = chan["server"]
  /\ cls_state' = ParseUnreliable(ClientParsed.state,
                                  Datagram("client").unreliable)
  /\ data' = ClientParsed.data
  /\ cbuf' = ClientParsed.cbuf
  /\ UNCHANGED <<sv_state, spawn_count, kicked>>

LEMMA ClientTakesIs ==
  ASSUME Types, ClientTakes
  PROVE  /\ chan'["client"] \in ChannelOf(Command)
         /\ chan'["client"].message = ClientParsed.message
         /\ chan'["client"].reliable = ClientReads.reliable
         /\ chan'["client"].reliable \in {<<>>, chan["client"].reliable}
         /\ chan'["client"].incoming_sequence = Datagram("client").packet.sequence
         /\ chan'["client"].open = chan["client"].open
         /\ ClientParsed.message \in Seq(Command)
         /\ ClientParsed.cbuf \in Seq(ClientText)
<1> DEFINE c1 == ClientReads
           m == ClientParsed.message
<1>1. /\ c1 \in ChannelOf(Command)
      /\ c1.reliable \in {<<>>, chan["client"].reliable}
      /\ c1.incoming_sequence = Datagram("client").packet.sequence
      /\ c1.open = chan["client"].open
      /\ m \in Seq(Command)
      /\ ClientParsed.cbuf \in Seq(ClientText)
  BY ClientReadsFields DEF ClientTakes, ClientReading
<1>2. chan'["client"] = Saying(c1, m)
  BY DEF ClientTakes
<1> HIDE DEF c1, m
<1>3. /\ Saying(c1, m) \in ChannelOf(Command)
      /\ Saying(c1, m).message = m
      /\ Saying(c1, m).reliable = c1.reliable
      /\ Saying(c1, m).incoming_sequence = c1.incoming_sequence
      /\ Saying(c1, m).open = c1.open
  BY <1>1, SayingIs
<1> QED
  BY <1>1, <1>2, <1>3 DEF c1, m

(* A client without a slot reads what was sent before.                      *)
LEMMA ClientTakesOrphaned ==
  ASSUME Types, Attempt, Small, Abandoned, ClientTakes
  PROVE  /\ Abandoned'
         /\ Len(ClientParsed.message) + Len(ClientParsed.cbuf) <= 1
<1> DEFINE q == Datagram("client")
           a == q.packet.payload
           P == ToClient
           P1 == ToClient'
           u == q.unreliable
           message == chan["client"].message
           message1 == ClientParsed.message
           texts1 == ClientParsed.cbuf
           D1 == ClientParsed.data
<1>1. /\ ClientChannel = chan["client"] /\ ClientTexts = cbuf
      /\ Present
      /\ ClientChannel' = chan'["client"] /\ ClientTexts' = cbuf'
      /\ q \in P
      /\ u \in {Nothing, Reconnect} \cup Frames
      /\ P1 \subseteq P
      /\ \A d \in P1 : q.packet.sequence < d.packet.sequence
  BY ClientTakesIs, ClientHears DEF ClientTakes
<1>2. Orphaned(cls_state, P, message, cbuf, data)
  BY <1>1 DEF Abandoned
<1>3. /\ ~q.packet.has_reliable => a = <<>>
      /\ q.packet.has_reliable => message = <<>> /\ cbuf = <<>> /\ a \in Answers
  BY <1>1, <1>2 DEF Orphaned
<1>4. \/ /\ a = <<>>
         /\ message1 = message
         /\ ClientParsed.state = cls_state
         /\ D1 = data
         /\ texts1 = cbuf
      \/ /\ a # <<>>
         /\ message1 = <<>>
         /\ ClientParsed.state \in {"connected", cls_state}
         /\ \E t \in ClientText : texts1 = <<t>>
  BY <1>3, ClientParses DEF ClientTakes
<1>5. /\ cls_state' = ParseUnreliable(ClientParsed.state, u)
      /\ data' = D1 /\ cbuf' = texts1 /\ sv_state' = sv_state
      /\ chan'["client"].message = message1
  BY ClientTakesIs DEF ClientTakes
<1>6. \/ u = Nothing /\ cls_state' = ClientParsed.state
      \/ u = Reconnect /\ cls_state' = "connecting"
      \/ u \in Frames /\ u.op = "frame" /\ cls_state' = "active"
  <2> DEFINE state == ClientParsed.state
  <2>1. cls_state' = ParseUnreliable(state, u)
    BY <1>5
  <2> HIDE DEF state, u
  <2>2. \/ u = Nothing /\ ParseUnreliable(state, u) = state
        \/ u = Reconnect /\ ParseUnreliable(state, u) = "connecting"
        \/ u \in Frames /\ u.op = "frame" /\ ParseUnreliable(state, u) = "active"
    BY <1>1, StateParsed
  <2> QED
    BY <2>1, <2>2 DEF state
<1>7. Orphaned(cls_state', P1, message1, texts1, D1)
      /\ Len(message1) + Len(texts1) <= 1
  <2>1. CASE a = <<>>
    <3>1. /\ message1 = message /\ ClientParsed.state = cls_state
          /\ D1 = data /\ texts1 = cbuf
      BY <1>4, <2>1
    <3>2. Orphaned(cls_state, P1, message, cbuf, data)
      <4> HIDE DEF P, P1, message
      <4> QED
        BY <1>1, <1>2, OrphanedSubset
    <3>3. cls_state' = "active" =>
            Settled(P1, message, cbuf) /\ \E l \in Levels : data = Level(l)
      <4>1. CASE u \in Frames /\ u.op = "frame"
        <5>1. PICK l \in Levels : u = Frame(l)
          BY <4>1 DEF Frames
        <5>2. u.level = l
          BY <5>1 DEF Frame
        <5>3. Settled(P, message, cbuf) /\ data = Level(l)
          BY <1>1, <1>2, <4>1, <5>2 DEF Orphaned
        <5> QED
          BY <1>1, <5>3 DEF Settled
      <4>2. CASE u = Nothing /\ cls_state' = cls_state
        BY <3>2, <4>2 DEF Orphaned
      <4>3. CASE cls_state' = "connecting"
        BY <4>3
      <4> QED
        BY <1>6, <3>1, <4>1, <4>2, <4>3
    <3>4. Orphaned(cls_state', P1, message, cbuf, data)
      BY <3>2, <3>3 DEF Orphaned
    <3>5. Len(message) + Len(cbuf) <= 1
      BY DEF Small
    <3> QED
      BY <3>1, <3>4, <3>5
  <2>2. CASE a # <<>>
    <3>1. q.packet.has_reliable
      BY <1>3, <2>2
    <3>2. PICK t \in ClientText : texts1 = <<t>>
      BY <1>4, <2>2
    <3>3. message1 = <<>> /\ ClientParsed.state \in {"connected", cls_state}
      BY <1>4, <2>2
    <3>4. \A d \in P : d.packet.has_reliable => d.packet.sequence = q.packet.sequence
      BY <1>1, <1>2, <3>1 DEF Orphaned
    <3>5. \A d \in P1 : ~d.packet.has_reliable
      <4> TAKE d \in P1
      <4>1. d \in P /\ q.packet.sequence < d.packet.sequence
        BY <1>1
      <4>2. q.packet.sequence \in Int
        BY <1>1, PacketNumbers, ViewTypes
      <4> QED
        BY <3>4, <4>1, <4>2
    <3>6. ~Settled(P, message, cbuf)
      BY <1>1, <3>1 DEF Settled
    <3>7. \A d \in P : d.unreliable.op # "frame"
      BY <1>2, <3>6 DEF Orphaned
    <3>8. cls_state # "active"
      BY <1>2, <3>6 DEF Orphaned
    <3>9. cls_state' # "active"
      BY <1>1, <1>6, <3>3, <3>7, <3>8
    <3>10. \A d \in P1 : d.packet.payload = <<>>
      BY <1>1, <1>2, <3>5 DEF Orphaned
    <3>11. \A d \in P1 : d.unreliable.op # "frame"
      BY <1>1, <3>7
    <3>12. Orphaned(cls_state', P1, message1, texts1, D1)
      BY <3>5, <3>9, <3>10, <3>11 DEF Orphaned
    <3>13. Len(message1) + Len(texts1) <= 1
      <4>1. Len(<<>>) = 0 /\ Len(<<t>>) = 1
        OBVIOUS
      <4> QED
        BY <3>2, <3>3, <4>1
    <3> QED
      BY <3>12, <3>13
  <2> QED
    BY <2>1, <2>2
<1>8. Abandoned'
  BY <1>1, <1>5, <1>7 DEF Abandoned
<1> QED
  BY <1>7, <1>8

(* A client in step with the server stays so.                               *)
LEMMA ClientTakesSynced ==
  ASSUME Types, Attempt, Small, Synced, ClientTakes
  PROVE  /\ Synced'
         /\ Len(ClientParsed.message) + Len(ClientParsed.cbuf) <= 1
<1> DEFINE q == Datagram("client")
           a == q.packet.payload
           P == ToClient
           P1 == ToClient'
           u == q.unreliable
           c == chan["client"]
           s == chan["server"]
           c1 == ClientReads
           m == ClientParsed.message
           texts1 == ClientParsed.cbuf
           D1 == ClientParsed.data
<1>1. /\ ClientChannel = c /\ ClientTexts = cbuf
      /\ Present /\ InConversation
      /\ ClientChannel' = chan'["client"] /\ ClientTexts' = cbuf'
      /\ Present' <=> InConversation'
      /\ q \in P
      /\ u \in {Nothing, Reconnect} \cup Frames
      /\ P1 \subseteq P
      /\ \A d \in P1 : q.packet.sequence < d.packet.sequence
      /\ InOrder(wire["client"]) =>
           /\ InOrder(wire'["client"])
           /\ \A d \in P : d = q \/ d \in P1
  BY ClientTakesIs, ClientHears DEF ClientTakes
<1>2. /\ c \in ChannelOf(Command) /\ s \in ChannelOf(ServerCommand)
      /\ Carries(P, ServerCommand) /\ Carries(ToServer, Command)
  BY ViewTypes
<1>3. /\ Sound(c, s, ToServer, P) /\ Sound(s, c, P, ToServer)
      /\ sv_state # "free"
      /\ c.open /\ s.open
      /\ {s.message, s.reliable} \subseteq {<<>>} \cup Answers
      /\ InOrder(wire["client"])
      /\ s.incoming_sequence = 0 => sv_state = "connected"
      /\ Token(Up, Down, cbuf, TRUE, data)
      /\ Agreed(cls_state, sv_state, spawn_count, P,
                Silent(Up, Down, cbuf), TRUE, data)
  BY <1>1 DEF Synced, Token, Agreed
<1>4. Up = Undelivered(c, s) /\ Down = Undelivered(s, c)
  BY <1>1 DEF Up, Down
<1>5. /\ chan'["client"] = Saying(c1, m) /\ chan'["server"] = s
      /\ cls_state' = ParseUnreliable(ClientParsed.state, u)
      /\ data' = D1 /\ cbuf' = texts1
      /\ UNCHANGED <<sv_state, spawn_count>>
      /\ chan'["client"].open = c.open
      /\ m \in Seq(Command)
      /\ c1 \in ChannelOf(Command)
      /\ c1.message = c.message
  BY ClientTakesIs, ClientReadsFields DEF ClientTakes
<1>6. c1 = Processed(c, q.packet)
  BY DEF ClientReads
<1>7. ToServer' = ToServer
  BY <1>5 DEF ToServer, ClientTakes
<1>8. \/ u = Nothing /\ cls_state' = ClientParsed.state
      \/ u = Reconnect /\ cls_state' = "connecting"
      \/ u \in Frames /\ u.op = "frame" /\ cls_state' = "active"
  <2> DEFINE state == ClientParsed.state
  <2>1. cls_state' = ParseUnreliable(state, u)
    BY <1>5
  <2> HIDE DEF state, u
  <2>2. \/ u = Nothing /\ ParseUnreliable(state, u) = state
        \/ u = Reconnect /\ ParseUnreliable(state, u) = "connecting"
        \/ u \in Frames /\ u.op = "frame" /\ ParseUnreliable(state, u) = "active"
    BY <1>1, StateParsed
  <2> QED
    BY <2>1, <2>2 DEF state
<1>9. Sound(c1, s, ToServer, P1) /\ Sound(s, c1, P1, ToServer)
  <2> DEFINE x == q
             P2 == P1
  <2>1. /\ x \in P /\ P2 \in SUBSET P
        /\ \A d \in P2 : x.packet.sequence < d.packet.sequence
    BY <1>1
  <2>2. /\ Sound(c, s, ToServer, P) /\ Sound(s, c, P, ToServer)
    BY <1>3
  <2>3. c1 = Processed(c, x.packet)
    BY <1>6
  <2> HIDE DEF c, s, x, P, P2, c1
  <2>4. /\ Sound(s, Processed(c, x.packet), P2, ToServer)
        /\ Sound(Processed(c, x.packet), s, ToServer, P2)
    BY <1>2, <2>1, <2>2, SoundReceive
  <2> QED
    BY <2>3, <2>4 DEF P2
<1>10. /\ Sound(ClientChannel', chan'["server"], ToServer', ToClient')
       /\ Sound(chan'["server"], ClientChannel', ToClient', ToServer')
  <2> DEFINE P2 == P1
  <2>1. Sound(c1, s, ToServer, P2) /\ Sound(s, c1, P2, ToServer)
    BY <1>9
  <2>2. c1 \in ChannelOf(Command)
    BY <1>5
  <2> HIDE DEF c1, s, m, P2
  <2>3. Sound(Saying(c1, m), s, ToServer, P2) /\ Sound(s, Saying(c1, m), P2, ToServer)
    BY <2>1, <2>2, SoundMessage
  <2> QED
    BY <1>1, <1>5, <1>7, <2>3 DEF P2
<1> DEFINE held == Unreceived(c1, s)
<1>11. /\ Up' = held \o m
       /\ Down' = Undelivered(s, c1)
  <2>1. c1 \in ChannelOf(Command)
    BY <1>5
  <2> HIDE DEF c1, s, m
  <2>2. /\ Undelivered(Saying(c1, m), s) = Unreceived(c1, s) \o m
        /\ Undelivered(s, Saying(c1, m)) = Undelivered(s, c1)
    BY <2>1, UndeliveredMessage
  <2> QED
    BY <1>1, <1>5, <2>2 DEF Up, Down, s
<1>12. /\ Undelivered(c1, s) = held \o c.message
       /\ held \in Seq(Command) /\ c.message \in Seq(Command)
       /\ Undelivered(c1, s) = <<>> => held = <<>> /\ c.message = <<>>
  <2>1. Undelivered(c1, s) = held \o c.message
    BY <1>5 DEF Undelivered
  <2>2. c1 \in ChannelOf(Command)
    BY <1>5
  <2> DEFINE y == c1
  <2>3. y \in ChannelOf(Command) /\ y.message = c.message
    BY <1>5, <2>2
  <2> HIDE DEF y, s
  <2>4. /\ Unreceived(y, s) \in Seq(Command)
        /\ y.message \in Seq(Command)
        /\ Undelivered(y, s) = <<>> => Unreceived(y, s) = <<>> /\ y.message = <<>>
    BY <2>3, UndeliveredTypes
  <2> QED
    BY <2>1, <2>3, <2>4 DEF y
<1> HIDE DEF held
<1>13. CASE q.packet.has_reliable
  <2>1. /\ Undelivered(c1, s) = Undelivered(c, s)
        /\ Unreceived(s, c) = a
        /\ Undelivered(s, c1) = s.message
        /\ a # <<>>
    <3> DEFINE x == q
    <3>1. x \in P /\ x.packet.has_reliable
      BY <1>1, <1>13
    <3>2. /\ Sound(c, s, ToServer, P) /\ Sound(s, c, P, ToServer)
      BY <1>3
    <3>3. c1 = Processed(c, x.packet)
      BY <1>6
    <3> HIDE DEF c, s, x, P, c1
    <3>4. /\ Undelivered(Processed(c, x.packet), s) = Undelivered(c, s)
          /\ Unreceived(s, c) = x.packet.payload
          /\ Undelivered(s, Processed(c, x.packet)) = s.message
      BY <1>2, <3>1, <3>2, ReliableReceived
    <3>5. x.packet.payload # <<>>
      BY <1>2, <3>1, <3>2, ReliableHolds
    <3> QED
      BY <3>3, <3>4, <3>5 DEF x
  <2>2. Down = a \o s.message
    BY <1>4, <2>1 DEF Undelivered
  <2>3. a = s.reliable
    BY <2>1 DEF Unreceived
  <2>4. a \in Answers /\ s.message \in {<<>>} \cup Answers
    BY <1>3, <2>1, <2>3
  <2>5. Down # <<>>
    <3>1. a \in Seq(ServerCommand) /\ s.message \in Seq(ServerCommand)
      BY <1>2, <2>4, AnswerIs, Numbers1
    <3>2. a \o s.message = <<>> => a = <<>>
      BY <3>1, EmptyConcat
    <3> QED
      BY <2>1, <2>2, <3>2
  <2>6. /\ Up = <<>> /\ cbuf = <<>> /\ Down \in Answers /\ Continues(Down, data)
    BY <1>3, <2>5 DEF Token, Silent
  <2>7. s.message = <<>> /\ a = Down
    <3> DEFINE b == s.message
               x == a
    <3>1. {x, b} \subseteq {<<>>} \cup Answers /\ x \o b \in Answers /\ x # <<>>
          /\ x \o b = Down
      BY <2>1, <2>2, <2>4, <2>6
    <3> HIDE DEF b, x
    <3>2. (x = <<>> /\ b = x \o b) \/ (b = <<>> /\ x = x \o b)
      BY <3>1, OneAnswer
    <3> QED
      BY <3>1, <3>2 DEF b, x
  <2>8. held = <<>> /\ c.message = <<>>
    BY <1>4, <1>12, <2>1, <2>6
  <2>9. /\ m = <<>>
        /\ ClientParsed.state \in {"connected", cls_state}
        /\ \E t \in ClientText :
             /\ t.op \in {"part", "precache"}
             /\ texts1 = <<t>>
             /\ Continues(a, data) => Asks(t, D1)
    BY <2>1, <2>4, <2>6, <2>8, ClientParses DEF ClientTakes
  <2>10. PICK t \in ClientText : /\ t.op \in {"part", "precache"}
                                 /\ texts1 = <<t>>
                                 /\ Asks(t, D1)
    BY <2>6, <2>7, <2>9
  <2>11. Up' = <<>> /\ Down' = <<>>
    <3>1. <<>> \o <<>> = <<>>
      OBVIOUS
    <3> QED
      BY <1>11, <2>1, <2>7, <2>8, <2>9, <3>1
  <2>12. Token(Up', Down', ClientTexts', Present', data')
    BY <1>1, <1>5, <2>10, <2>11 DEF Token
  <2>13. /\ sv_state # "active" /\ cls_state # "active"
         /\ \A d \in P : d.unreliable.op # "frame"
    BY <1>3, <2>5 DEF Agreed, Silent
  <2>14. cls_state' # "active"
    BY <1>1, <1>8, <2>9, <2>13
  <2>15. ~Silent(Up', Down', ClientTexts')
    <3>1. <<t>> # <<>>
      OBVIOUS
    <3> QED
      BY <1>1, <1>5, <2>10, <3>1 DEF Silent
  <2>16. Agreed(cls_state', sv_state', spawn_count', ToClient',
                Silent(Up', Down', ClientTexts'), Present', data')
    <3>1. sv_state' # "active" /\ \A d \in ToClient' : d.unreliable.op # "frame"
      BY <1>1, <1>5, <2>13
    <3> QED
      BY <2>14, <2>15, <3>1 DEF Agreed
  <2>17. Synced'
    BY <1>1, <1>3, <1>5, <1>10, <2>12, <2>16 DEF Synced
  <2>18. Len(m) + Len(texts1) <= 1
    <3>1. Len(<<>>) = 0 /\ Len(<<t>>) = 1
      OBVIOUS
    <3> QED
      BY <2>9, <2>10, <3>1
  <2> QED
    BY <2>17, <2>18
<1>14. CASE ~q.packet.has_reliable
  <2>1. /\ Undelivered(c1, s) = Undelivered(c, s)
        /\ Undelivered(s, c1) = Undelivered(s, c)
        /\ a = <<>>
    <3> DEFINE x == q
    <3>1. x \in P /\ ~x.packet.has_reliable
      BY <1>1, <1>14
    <3>2. /\ Sound(c, s, ToServer, P) /\ Sound(s, c, P, ToServer)
      BY <1>3
    <3>3. c1 = Processed(c, x.packet)
      BY <1>6
    <3> HIDE DEF c, s, x, P, c1
    <3>4. /\ Undelivered(Processed(c, x.packet), s) = Undelivered(c, s)
          /\ Undelivered(s, Processed(c, x.packet)) = Undelivered(s, c)
          /\ x.packet.payload = <<>>
      BY <1>2, <3>1, <3>2, UnreliableReceived
    <3> QED
      BY <3>3, <3>4 DEF x
  <2>2. /\ m = c.message /\ ClientParsed.state = cls_state
        /\ D1 = data /\ texts1 = cbuf
    BY <2>1, ClientParses DEF ClientTakes
  <2>3. Up' = Up /\ Down' = Down
    BY <1>4, <1>11, <1>12, <2>1, <2>2
  <2>4. Token(Up', Down', ClientTexts', Present', data')
    BY <1>1, <1>3, <1>5, <2>2, <2>3 DEF Token
  <2> DEFINE silent == Silent(Up, Down, cbuf)
  <2>5. Silent(Up', Down', ClientTexts') <=> silent
    BY <1>1, <1>5, <2>2, <2>3
  <2> HIDE DEF silent
  <2>6. Agreed(cls_state, sv_state, spawn_count, P, silent, TRUE, data)
    BY <1>3 DEF silent
  <2>7. cls_state' = "active" => silent /\ \E l \in Levels : data = Level(l)
    <3>1. CASE u \in Frames /\ u.op = "frame"
      <4>1. PICK l \in Levels : u = Frame(l)
        BY <3>1 DEF Frames
      <4>2. u.level = l
        BY <4>1 DEF Frame
      <4> QED
        BY <1>1, <2>6, <3>1, <4>2 DEF Agreed
    <3>2. CASE u = Nothing /\ cls_state' = cls_state
      BY <2>6, <3>2 DEF Agreed
    <3>3. CASE cls_state' = "connecting"
      BY <3>3
    <3> QED
      BY <1>8, <2>2, <3>1, <3>2, <3>3
  <2>8. /\ sv_state' = "active" => silent /\ data' = Level(spawn_count')
        /\ \A d \in ToClient' : d.unreliable.op = "frame" =>
             silent /\ data' = Level(d.unreliable.level)
    BY <1>1, <1>5, <2>2, <2>6 DEF Agreed
  <2>9. /\ sv_state' = "connected" /\ Present' /\ ReconnectArrives =>
             ~silent \/ \E d \in ToClient' : d.unreliable = Reconnect
    <3> SUFFICES ASSUME sv_state' = "connected", Present', ReconnectArrives, silent
                 PROVE  \E d \in ToClient' : d.unreliable = Reconnect
      OBVIOUS
    <3>1. PICK d \in P : d.unreliable = Reconnect
      BY <1>5, <2>6 DEF Agreed
    <3>2. u # Reconnect
      BY <1>1, <1>8 DEF InConversation, Reconnect, Nothing, Frames, Frame
    <3> QED
      BY <1>1, <1>3, <3>1, <3>2
  <2>10. Agreed(cls_state', sv_state', spawn_count', ToClient',
                silent, Present', data')
    BY <1>5, <2>2, <2>7, <2>8, <2>9 DEF Agreed
  <2>11. Agreed(cls_state', sv_state', spawn_count', ToClient',
                Silent(Up', Down', ClientTexts'), Present', data')
    BY <2>5, <2>10 DEF Agreed
  <2>12. Synced'
    BY <1>1, <1>3, <1>5, <1>10, <2>4, <2>11 DEF Synced
  <2> QED
    BY <2>2, <2>12 DEF Small
<1> QED
  BY <1>13, <1>14

(* A client that is told to leave has lost its slot already.                *)
LEMMA ClientLeaves ==
  ASSUME Types, SessionInv, Len(wire["client"]) >= 1, Arrived("client"),
         Datagram("client") = wire["client"][1],
         Datagram("client").op = "sequenced",
         wire'["client"] = Tail(wire["client"]),
         ClientAccepts, Datagram("client").unreliable = Disconnect,
         CanTransmit(ClientReads),
         wire'["server"] = wire["server"] \o Sequenced(ClientReads, Disconnect),
         cls_state' = "disconnected", cbuf' = <<>>,
         chan'["client"] = Left(ClientReads),
         UNCHANGED <<sv_state, kicked>>
  PROVE  SessionInv'
<1> DEFINE V == wire["client"]
           W == wire["server"]
           c == ClientReads
<1>1. /\ Mode /\ Attempt /\ Small /\ ~kicked /\ InConversation
      /\ Brief(W) /\ OneAttempt(V, W)
  BY DEF SessionInv, ClientAccepts, Small, Attempt
<1>2. /\ ~Attempting(V, W)
      /\ ~Answered /\ Present
  BY <1>1, InConversationIs
<1>3. V \in Seq(FromServer) /\ W \in Seq(FromClient) /\ chan["client"] \in ChannelOf(Command)
      /\ cbuf \in Seq(ClientText)
  BY ViewTypes DEF Types, ClientTypes
<1>4. CurrentIn(V, 1) /\ Leaves(V[1]) /\ 1 \in 1 .. Len(V) /\ V[1].op # "client_connect"
  BY <1>2, <1>3 DEF CurrentIn, Answered, AnsweredIn, Leaves
<1>5. ~Synced
  BY <1>4 DEF Synced, InOrder
<1>6. Abandoned
  BY <1>1, <1>2, <1>5 DEF Mode, Disengaged
<1>7. ~AnsweredIn(Tail(V))
  BY <1>2, <1>3, <1>4, TailToClient DEF Answered
<1>8. ~Present'
  BY <1>7 DEF Present, Answered, InConversation
<1>9. Abandoned'
  BY <1>6, <1>8 DEF Abandoned
<1>10. /\ c \in ChannelOf(Command)
       /\ Len(c.reliable) <= 1
       /\ Len(c.message) + 0 <= 1
  <2>1. /\ c \in ChannelOf(Command)
        /\ c.message = chan["client"].message
        /\ c.reliable \in {<<>>, chan["client"].reliable}
    BY ClientReadsFields
  <2>2. Len(<<>>) = 0
    OBVIOUS
  <2>3. Len(chan["client"].message) \in Nat /\ Len(cbuf) \in Nat
    BY <1>3, Numbers1, Nonempty
  <2> DEFINE n == Len(chan["client"].message)
             k == Len(cbuf)
  <2>4. n \in Nat /\ k \in Nat /\ n + k <= 1
    BY <1>1, <2>3 DEF Small
  <2> HIDE DEF n, k
  <2>5. n + 0 <= 1
    BY <2>4
  <2>6. Len(c.message) + 0 <= 1
    BY <2>1, <2>5 DEF n
  <2>7. Len(c.reliable) <= 1
    BY <1>1, <2>1, <2>2 DEF Small
  <2> QED
    BY <2>1, <2>6, <2>7
<1> DEFINE c0 == Transmitted(c)
           T == Tail(V)
<1> HIDE DEF c
<1>11. /\ c0 \in ChannelOf(Command)
       /\ Len(c0.reliable) <= 1
       /\ Len(PacketFrom(c).payload) <= 1
  BY <1>10, SmallTransmit DEF c
<1>12. Left(c).message = <<>> /\ Left(c).reliable = c0.reliable
  BY <1>10, LeftIs DEF c
<1>13. /\ T \in Seq(FromServer) /\ OneAttempt(T, W)
       /\ ~Attempting(T, W)
  BY <1>1, <1>2, <1>3, AttemptTail, TailIs
<1> HIDE DEF T
<1>14. /\ Brief(W \o Sequenced(c, Disconnect))
       /\ OneAttempt(T, W \o Sequenced(c, Disconnect))
       /\ ~Attempting(T, W \o Sequenced(c, Disconnect))
  <2>1. CanTransmit(c)
    BY DEF c
  <2> DEFINE k == 0
  <2> HIDE DEF k
  <2>2. /\ ToServerIn(W \o Sequenced(c, Disconnect), k) \subseteq
             ToServerIn(W, k) \cup {DatagramOf(c, Disconnect)}
        /\ Brief(W \o Sequenced(c, Disconnect))
        /\ OneAttempt(T, W \o Sequenced(c, Disconnect))
        /\ Attempting(T, W \o Sequenced(c, Disconnect)) => Attempting(T, W)
    BY <1>1, <1>3, <1>10, <1>11, <1>13, <2>1, ClientAdds
  <2> QED
    BY <1>13, <2>2
<1>15. Small'
  <2>1. Len(<<>>) = 0
    OBVIOUS
  <2> QED
    BY <1>11, <1>12, <1>14, <2>1 DEF Small, c
<1>16. Attempt'
  BY <1>14 DEF Attempt, T, c
<1> QED
  BY <1>1, <1>9, <1>15, <1>16 DEF SessionInv, Mode

(* Cl_ReadPackets: a datagram that is dumped, a disconnect of the server,   *)
(* and what the client parses.                                              *)
LEMMA ReadPacketKeeps ==
  ASSUME Types, SessionInv, Cl_ReadPacket
  PROVE  SessionInv'
<1> DEFINE V == wire["client"]
           W == wire["server"]
           q == Datagram("client")
<1>1. /\ Arrived("client")
      /\ Len(V) >= 1
      /\ q = V[1]
      /\ q.op = "sequenced"
      /\ wire'["client"] = Tail(V)
  BY ReadPacketIs
<1>2. \/ /\ ~ClientAccepts
         /\ wire'["server"] = W
         /\ UNCHANGED <<cls_state, data, cbuf, sv_state, spawn_count, chan, kicked>>
      \/ /\ ClientAccepts
         /\ q.unreliable = Disconnect
         /\ CanTransmit(ClientReads)
         /\ wire'["server"] = W \o Sequenced(ClientReads, Disconnect)
         /\ cls_state' = "disconnected" /\ cbuf' = <<>>
         /\ chan'["client"] = Left(ClientReads)
         /\ UNCHANGED <<sv_state, kicked>>
      \/ ClientTakes
  BY <1>1, ReadPacketIs DEF client, server, history, ClientTakes, Saying
<1>3. Mode /\ Attempt /\ Small /\ ~kicked /\ Brief(W) /\ OneAttempt(V, W)
  BY DEF SessionInv, Small, Attempt
<1>4. V \in Seq(FromServer) /\ W \in Seq(FromClient)
  BY ViewTypes
<1>5. CASE /\ ~ClientAccepts
           /\ wire'["server"] = W
           /\ UNCHANGED <<cls_state, data, cbuf, sv_state, spawn_count, chan, kicked>>
  <2>1. ToServer' = ToServer
    BY <1>5 DEF ToServer
  <2>2. ~(V[1] \in ToClient /\ Present /\ Silent(Up, Down, ClientTexts))
    <3>1. CASE InConversation
      <4>1. ClientChannel = chan["client"]
        BY <1>3, <3>1, InConversationIs
      <4>2. V[1] \in ToClient => chan["client"].incoming_sequence < V[1].packet.sequence
        BY <4>1, ViewTypes
      <4> QED
        BY <1>1, <1>5, <3>1, <4>2 DEF ClientAccepts
    <3>2. CASE Answered
      BY <3>2, NewIsUp DEF Silent
    <3> QED
      BY <3>1, <3>2 DEF Present
  <2>3. Mode'
    BY <1>1, <1>3, <1>5, <2>1, <2>2, ClientLoses
  <2>4. Aside'
    BY <1>1, <1>3, <1>5, AsideLoses DEF Aside
  <2> QED
    BY <2>3, <2>4 DEF Aside, SessionInv
<1>6. CASE /\ ClientAccepts
           /\ q.unreliable = Disconnect
           /\ CanTransmit(ClientReads)
           /\ wire'["server"] = W \o Sequenced(ClientReads, Disconnect)
           /\ cls_state' = "disconnected" /\ cbuf' = <<>>
           /\ chan'["client"] = Left(ClientReads)
           /\ UNCHANGED <<sv_state, kicked>>
  BY <1>1, <1>6, ClientLeaves
<1>7. CASE ClientTakes
  <2>1. ~Attempting(V, W)
    BY <1>3, <1>7, ClientTakesIs, ClientHears DEF ClientTakes
  <2>2. /\ OneAttempt(Tail(V), W)
        /\ ~Attempting(Tail(V), W)
    BY <1>1, <1>3, <1>4, <2>1, AttemptTail
  <2>3. ~Disengaged
    BY <1>7 DEF Disengaged, Present, ClientTakes, ClientAccepts
  <2>4. /\ Mode'
        /\ Len(ClientParsed.message) + Len(ClientParsed.cbuf) <= 1
    BY <1>3, <1>7, <2>3, ClientTakesOrphaned, ClientTakesSynced DEF Mode
  <2>5. /\ chan'["client"].message = ClientParsed.message
        /\ chan'["client"].reliable \in {<<>>, chan["client"].reliable}
        /\ cbuf' = ClientParsed.cbuf
        /\ wire'["client"] = Tail(V) /\ wire'["server"] = W
        /\ kicked' = kicked
    BY <1>7, ClientTakesIs DEF ClientTakes
  <2>6. Small'
    <3>1. Len(<<>>) = 0
      OBVIOUS
    <3>2. Len(chan["client"].reliable) <= 1
      BY <1>3 DEF Small
    <3>3. Len(chan'["client"].reliable) <= 1
      BY <2>5, <3>1, <3>2
    <3>4. Len(chan'["client"].message) + Len(cbuf') <= 1
      BY <2>4, <2>5
    <3>5. Brief(wire'["server"])
      BY <1>3, <2>5
    <3> QED
      BY <3>3, <3>4, <3>5 DEF Small
  <2>7. Attempt'
    BY <2>2, <2>5 DEF Attempt
  <2> QED
    BY <1>3, <2>4, <2>5, <2>6, <2>7 DEF SessionInv
<1> QED
  BY <1>2, <1>5, <1>6, <1>7

-----------------------------------------------------------------------------
(* The invariant, and what follows from it. *)

LEMMA InitInv ==
  ASSUME Types, Init
  PROVE  SessionInv
<1>1. /\ ~kicked /\ cls_state = "disconnected" /\ cbuf = <<>> /\ sv_state = "free"
      /\ wire["client"] = <<>> /\ wire["server"] = <<>>
      /\ chan["client"].message = <<>> /\ chan["client"].reliable = <<>>
  BY DEF Init, Endpoint, NewChannel
<1>2. Len(<<>>) = 0
  OBVIOUS
<1>3. Small
  BY <1>1, <1>2 DEF Small, Brief
<1>4. Attempt
  BY <1>1, <1>2 DEF Attempt, OneAttempt, Attempting, OnlyLeaves
<1>5. Abandoned
  BY <1>1, <1>2 DEF Abandoned, Present, InConversation, Answered, AnsweredIn
<1> QED
  BY <1>1, <1>3, <1>4, <1>5 DEF SessionInv, Mode

LEMMA StutterKeeps ==
  ASSUME SessionInv, UNCHANGED vars
  PROVE  SessionInv'
<1>1. UNCHANGED <<cls_state, data, cbuf, sv_state, spawn_count, chan, wire, kicked>>
  BY DEF vars, client, server, history
<1>2. /\ Answered' = Answered /\ Present' = Present
      /\ ClientChannel' = ClientChannel /\ ClientTexts' = ClientTexts
  BY <1>1 DEF Answered, Present, InConversation, ClientChannel, ClientTexts,
              NewClientChannel
<1>3. /\ ToClient' = ToClient /\ ToServer' = ToServer /\ Up' = Up /\ Down' = Down
  BY <1>1, <1>2 DEF ToClient, ToServer, Up, Down
<1>4. Mode'
  <2>1. CASE Abandoned
    BY <1>1, <1>2, <1>3, <2>1 DEF Mode, Abandoned
  <2>2. CASE Disengaged
    BY <1>1, <1>2, <1>3, <2>2 DEF Mode, Disengaged
  <2>3. CASE Synced
    BY <1>1, <1>2, <1>3, <2>3 DEF Mode, Synced
  <2> QED
    BY <2>1, <2>2, <2>3 DEF SessionInv, Mode
<1>5. Small' /\ Attempt' /\ ~kicked'
  BY <1>1 DEF SessionInv, Small, Attempt
<1> QED
  BY <1>4, <1>5 DEF SessionInv

LEMMA NextKeeps ==
  ASSUME Patient, Types, SessionInv, [Next]_vars
  PROVE  SessionInv'
<1>1. CASE \E e \in Endpoint : Lose(e)
  BY <1>1, LoseKeeps
<1>2. CASE RenderFrame
  BY <1>2, RenderFrameKeeps
<1>3. CASE Cl_SendCmd
  BY <1>3, SendCmdKeeps
<1>4. CASE Cl_CheckForResend
  BY <1>4, CheckForResendKeeps
<1>5. CASE Cl_Connect_f
  BY <1>5, ConnectKeeps
<1>6. CASE Cl_Disconnect
  BY <1>6, DisconnectKeeps
<1>7. CASE Cl_Challenge
  BY <1>7, ChallengeKeeps
<1>8. CASE Cl_ClientConnect
  BY <1>8, ClientConnectKeeps
<1>9. CASE Cl_ReadPacket
  BY <1>9, ReadPacketKeeps
<1>10. CASE Svc_GetChallenge
  BY <1>10, GetChallengeKeeps
<1>11. CASE Svc_Connect
  BY <1>11, SvcConnectKeeps
<1>12. CASE Sv_ReadPacket
  BY <1>12, SvReadPacketKeeps
<1>13. CASE Sv_DropClient
  BY <1>13, DropClientKeeps
<1>14. CASE Sv_SendClientMessages
  BY <1>14, SendClientMessagesKeeps
<1>15. CASE Sv_InitServer
  BY <1>15, InitServerKeeps
<1>16. CASE UNCHANGED vars
  BY <1>16, StutterKeeps
<1> QED
  BY <1>1, <1>2, <1>3, <1>4, <1>5, <1>6, <1>7, <1>8, <1>9, <1>10, <1>11, <1>12,
     <1>13, <1>14, <1>15, <1>16 DEF Next

(* A frame that the client will accept is one that is still to come.        *)
LEMMA FramesFollow ==
  ASSUME Types, SessionInv
  PROVE  FramesOfTheLevel
<1> DEFINE V == wire["client"]
           c == chan["client"]
<1> SUFFICES ASSUME NEW d \in Range(V), InConversation, d.op = "sequenced",
                    NC(c)!Fresh(Self, d.packet), d.unreliable.op = "frame"
             PROVE  data = Level(d.unreliable.level)
  BY DEF FramesOfTheLevel
<1>1. ~Answered /\ ClientChannel = c /\ ClientTexts = cbuf /\ Present
  BY InConversationIs DEF SessionInv
<1>2. d.packet.sequence > c.incoming_sequence
  BY Operators
<1>3. V \in Seq(FromServer) /\ c \in ChannelOf(Command)
  BY ViewTypes
<1>4. PICK i \in 1 .. Len(V) : d = V[i]
  BY <1>3 DEF Range
<1>5. CurrentIn(V, i)
  BY <1>1, <1>4 DEF Answered, AnsweredIn, CurrentIn
<1>6. d.unreliable # Disconnect
  BY DEF Disconnect
<1>7. d.packet.sequence \in Int /\ c.incoming_sequence \in Int
  BY <1>3, <1>4, Numbers1, SessionAssumption
     DEF FromServer, OutOfBandOf, SequencedOf, PacketOf
<1>8. d \in ToClient
  <2>1. c.incoming_sequence < d.packet.sequence
    BY <1>2, <1>7
  <2> QED
    BY <1>1, <1>4, <1>5, <1>6, <2>1 DEF ToClient, ToClientIn
<1> QED
  BY <1>1, <1>8 DEF SessionInv, Mode, Abandoned, Disengaged, Synced, Orphaned, Agreed

LEMMA SpawnedFollows ==
  ASSUME Types, SessionInv
  PROVE  SpawnedWithLevel
<1>1. ASSUME InConversation
      PROVE  Present
  BY <1>1 DEF Present
<1>2. cls_state = "active" => InConversation
  BY DEF InConversation
<1>3. cls_state = "active" => \E l \in Levels : data = Level(l)
  BY <1>1, <1>2 DEF SessionInv, Mode, Abandoned, Disengaged, Synced, Orphaned, Agreed
<1>4. sv_state = "active" /\ InConversation => data = Level(spawn_count)
  BY <1>1 DEF SessionInv, Mode, Abandoned, Disengaged, Synced, Agreed
<1> QED
  BY <1>3, <1>4 DEF SpawnedWithLevel

LEMMA NobodyFollows ==
  ASSUME ReconnectArrives, Types, SessionInv
  PROVE  NobodyForgotten
<1> DEFINE c == chan["client"]
           s == chan["server"]
<1> SUFFICES ASSUME Quiet, InConversation, sv_state = "connected"
             PROVE  FALSE
  BY DEF NobodyForgotten
<1>1. ~Answered /\ ClientChannel = c /\ ClientTexts = cbuf /\ Present
  BY InConversationIs DEF SessionInv
<1>2. Synced
  BY <1>1 DEF SessionInv, Mode, Abandoned, Disengaged
<1>3. /\ cbuf = <<>> /\ wire["client"] = <<>>
      /\ c.message = <<>> /\ c.reliable = <<>>
      /\ s.message = <<>> /\ s.reliable = <<>>
  BY DEF Quiet, Endpoint
<1>4. ToClient = {}
  BY <1>3 DEF ToClient, ToClientIn, Range
<1>5. ~Silent(Up, Down, ClientTexts)
  BY <1>1, <1>2, <1>4 DEF Synced, Agreed
<1>6. <<>> \o <<>> = <<>>
  OBVIOUS
<1>7. Up = <<>>
  BY <1>1, <1>3, <1>6 DEF Up, Undelivered, Unreceived
<1>8. Down = <<>>
  BY <1>1, <1>3, <1>6 DEF Down, Undelivered, Unreceived
<1> QED
  BY <1>1, <1>3, <1>5, <1>7, <1>8 DEF Silent

LEMMA SessionInvariant ==
  ASSUME Patient
  PROVE  Spec => [](Types /\ SessionInv)
<1>1. Init => Types /\ SessionInv
  BY InitTypes, InitInv
<1>2. Types /\ SessionInv /\ [Next]_vars => Types' /\ SessionInv'
  BY NextTypes, NextKeeps
<1> QED
  BY <1>1, <1>2, PTL DEF Spec

(* Sv_Begin_f kicks no client that does what it is told, whatever is lost   *)
(* and however often the level changes, when nothing of an attempt to       *)
(* connect is under way any more at the next.                               *)
THEOREM SessionNeverKicked ==
  ASSUME Patient
  PROVE  Spec => []NeverKicked
<1>1. SessionInv => NeverKicked
  BY DEF SessionInv, NeverKicked
<1> QED
  BY <1>1, SessionInvariant, PTL

(* Sv_Begin_f: a frame that the client will accept finds it with all of the *)
(* level it is of, and with nothing of another.                             *)
THEOREM SessionFrames ==
  ASSUME Patient
  PROVE  Spec => []FramesOfTheLevel
<1>1. Types /\ SessionInv => FramesOfTheLevel
  BY FramesFollow
<1> QED
  BY <1>1, SessionInvariant, PTL

(* The spawn counts keep both ends on one level: a client in the game has   *)
(* all of one, and its slot is not in the game of another.                  *)
THEOREM SessionSpawned ==
  ASSUME Patient
  PROVE  Spec => []SpawnedWithLevel
<1>1. Types /\ SessionInv => SpawnedWithLevel
  BY SpawnedFollows
<1> QED
  BY <1>1, SessionInvariant, PTL

(* Sv_InitServer and the spawn sequence forget nobody, if the network       *)
(* spares the reconnect message.                                            *)
THEOREM SessionNobodyForgotten ==
  ASSUME Patient, ReconnectArrives
  PROVE  Spec => []NobodyForgotten
<1>1. Types /\ SessionInv => NobodyForgotten
  BY NobodyFollows
<1> QED
  BY <1>1, SessionInvariant, PTL
=============================================================================
