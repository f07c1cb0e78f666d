------------------------------ MODULE Session ------------------------------
(***************************************************************************)
(* The life of a connection: a client, the server's slot for it, and the   *)
(* conversation that takes the client from the main menu into a level and  *)
(* from one level into the next (cl_main.c, cl_parse.c, sv_main.c,         *)
(* sv_client.c, sv_init.c).                                                *)
(*                                                                         *)
(* A challenge is asked for and answered out of band.  Then both ends set  *)
(* a channel up, as NetChan has it, and the client is sent the level part  *)
(* by part: every command of the client is answered with a part and with   *)
(* the text of its next command.  A level change takes the clients along.  *)
(*                                                                         *)
(* The network loses datagrams and delivers the others in order, once.     *)
(*                                                                         *)
(* The client asks for another challenge when it has waited three seconds  *)
(* for its connection, or when the user has it connect anew.  Where it is  *)
(* Patient, nothing of the attempt before is under way any more by then.   *)
(***************************************************************************)
EXTENDS Integers, Sequences, FiniteSets, SequencesExt

CONSTANTS
  Parts,            \* Messages the config strings and baselines take.
  Known,            \* Whether the client has been connected before.
  ReconnectArrives, \* Whether the network spares the reconnect message.
  Patient,          \* Whether nothing of an attempt to connect is under way
                    \* any more when the client asks for a challenge again.
  MaxLevels,        \* Bound: levels of the server.
  MaxSequence,      \* Bound: datagrams of an end until it is set up again.
  MaxWire,          \* Bound: datagrams under way to an end.
  MaxRequests,      \* Bound: times the client asks for a challenge.
  MaxDisconnects,   \* Bound: times the client disconnects,
  MaxDrops          \* Bound: and is dropped by the server.

ASSUME SessionAssumption ==
  /\ {Parts, MaxLevels, MaxSequence, MaxWire} \subseteq Nat \ {0}
  /\ {MaxRequests, MaxDisconnects, MaxDrops} \subseteq Nat
  /\ {Known, ReconnectArrives, Patient} \subseteq BOOLEAN

VARIABLES
  cls_state,        \* cls.state.
  data,             \* What the client has of a level, as <<level, part>>.
  cbuf,             \* Texts from the server the client has not executed yet.
  sv_state,         \* client->state, of the server's slot.
  challenge,        \* svs.challenges, for the address of the client.
  spawn_count,      \* svs.spawn_count.
  chan,             \* The net_chan_t of either end.
  wire,             \* wire[e]: the datagrams under way to e, oldest first.
  requests, disconnects, drops, \* History: how often it happened,
  kicked            \* and whether the server took begin for an error.

client == <<cls_state, data, cbuf>>
server == <<sv_state, challenge, spawn_count>>
history == <<requests, disconnects, drops, kicked>>
vars == <<client, server, chan, wire, history>>

Endpoint == {"client", "server"}

(* No number has been chosen yet; the first one chosen; and zero, which a   *)
(* connect leaves.                                                          *)
NoChallenge == -1
FirstChallenge == 1
Used == 0

-----------------------------------------------------------------------------
(* NetChan of an end with channel c, for its operators. *)
NC(c) == INSTANCE NetChan WITH
  Commands <- {}, MessageCapacity <- 1, MaxSequence <- [e \in Endpoint |-> 0],
  MaxWrites <- [e \in Endpoint |-> 0], MaxLead <- 0, MaxInTransit <- 0,
  MaxLost <- 0, Repeats <- FALSE, Repair <- 0,
  incoming_sequence <- [e \in Endpoint |-> c.incoming_sequence],
  incoming_acknowledged <- [e \in Endpoint |-> c.incoming_acknowledged],
  incoming_reliable_acknowledged <-
    [e \in Endpoint |-> c.incoming_reliable_acknowledged],
  incoming_reliable_sequence <-
    [e \in Endpoint |-> c.incoming_reliable_sequence],
  outgoing_sequence <- [e \in Endpoint |-> c.outgoing_sequence],
  reliable_sequence <- [e \in Endpoint |-> c.reliable_sequence],
  last_reliable_sequence <- [e \in Endpoint |-> c.last_reliable_sequence],
  message <- [e \in Endpoint |-> c.message],
  reliable <- [e \in Endpoint |-> c.reliable],
  overflowed <- [e \in Endpoint |-> FALSE],
  fatal_error <- [e \in Endpoint |-> FALSE],
  net <- [e \in Endpoint |-> {}], lost <- 0,
  written <- [e \in Endpoint |-> <<>>], delivered <- [e \in Endpoint |-> <<>>]

Self == "client"  \* Either end will do as the argument of NC(c)'s operators.

Peer(e) == IF e = "client" THEN "server" ELSE "client"

(* Netchan_Setup; as long as it has not been called the address is zero. *)
NewChannel(open) ==
  [incoming_sequence |-> 0, incoming_acknowledged |-> 0,
   incoming_reliable_acknowledged |-> 0, incoming_reliable_sequence |-> 0,
   outgoing_sequence |-> 1, reliable_sequence |-> 0,
   last_reliable_sequence |-> 0, message |-> <<>>, reliable |-> <<>>,
   open |-> open]

(* The channel after Netchan_Transmit. *)
Transmitted(c) ==
  [c EXCEPT
     !.reliable = NC(c)!Staged(Self),
     !.message = IF NC(c)!CanStage(Self) THEN <<>> ELSE @,
     !.reliable_sequence =
        IF NC(c)!CanStage(Self) THEN NC(c)!Toggled(@) ELSE @,
     !.outgoing_sequence = @ + 1,
     !.last_reliable_sequence =
        IF NC(c)!NeedReliable(Self) THEN NC(c)!ReliableSent(Self) ELSE @]

(* The channel after Netchan_Process. *)
Processed(c, p) ==
  [c EXCEPT
     !.reliable = NC(c)!AfterAck(Self, p),
     !.incoming_sequence = p.sequence,
     !.incoming_acknowledged = p.ack,
     !.incoming_reliable_acknowledged = p.reliable_ack,
     !.incoming_reliable_sequence =
        IF p.has_reliable THEN NC(c)!Toggled(@) ELSE @]

Written(c, commands) == [c EXCEPT !.message = @ \o commands]

(* A datagram of no channel. *)
OutOfBand(op, value) == [op |-> op, value |-> value]

(* A datagram of channel c, with its unreliable part; none to address zero. *)
Sequenced(c, unreliable) ==
  IF c.open THEN << [op |-> "sequenced", packet |-> NC(c)!Datagram(Self),
                     unreliable |-> unreliable] >>
  ELSE <<>>

Nothing == [op |-> "nothing"]
Reconnect == [op |-> "reconnect"]
Disconnect == [op |-> "disconnect"]
Frame(level) == [op |-> "frame", level |-> level]

Arrived(e) == wire[e] # <<>>
Datagram(e) == Head(wire[e])
CanTransmit(c) == c.outgoing_sequence <= MaxSequence

(* e sends some datagrams, after reading one or on its own account. *)
Send(e, datagrams) ==
  /\ Len(wire[Peer(e)]) + Len(datagrams) <= MaxWire
  /\ wire' = [wire EXCEPT ![Peer(e)] = @ \o datagrams]
Reply(e, datagrams) ==
  /\ Len(wire[Peer(e)]) + Len(datagrams) <= MaxWire
  /\ wire' = [wire EXCEPT ![e] = Tail(@), ![Peer(e)] = @ \o datagrams]

-----------------------------------------------------------------------------
(* The commands of the spawn sequence; level is the spawn count. *)
New == [op |-> "new"]
GetPart(level, part) == [op |-> "part", level |-> level, part |-> part]
Begin(level) == [op |-> "begin", level |-> level]

ServerData(level) == [op |-> "server_data", level |-> level]
Part(level, part) == [op |-> "config_string", level |-> level, part |-> part]
Text(command) == [op |-> "cbuf_text", command |-> command]
Precache(level) == [op |-> "precache", level |-> level]

Init ==
  /\ cls_state = "disconnected"
  /\ data = {}
  /\ cbuf = <<>>
  /\ sv_state = "free"
  /\ challenge = IF Known THEN Used ELSE NoChallenge
  /\ spawn_count = 1
  /\ chan = [e \in Endpoint |-> NewChannel(FALSE)]
  /\ wire = [e \in Endpoint |-> <<>>]
  /\ requests = 0
  /\ disconnects = 0
  /\ drops = 0
  /\ kicked = FALSE

(* The network loses a datagram. *)
Lose(e) ==
  /\ Arrived(e)
  /\ ReconnectArrives => ~(/\ Datagram(e).op = "sequenced"
                           /\ Datagram(e).unreliable = Reconnect)
  /\ Reply(e, <<>>)
  /\ UNCHANGED <<client, server, chan, history>>

-----------------------------------------------------------------------------
(* What the client writes when it executes a text: commands it does not     *)
(* know are forwarded, precache is its own and needs a connection.          *)
Executed(text) ==
  IF text.op # "precache" THEN <<text>>
  ELSE IF cls_state \in {"connected", "active"} THEN <<Begin(text.level)>>
  ELSE <<>>

(* What it writes when it executes the texts one after the other. *)
ExecutedAll(texts) ==
  LET Commands[i \in 0 .. Len(texts)] ==
        IF i = 0 THEN <<>> ELSE Commands[i - 1] \o Executed(texts[i])
  IN  Commands[Len(texts)]

(* Cbuf_Execute, at the start of the next frame, by a client with channel c. *)
Cbuf_Execute(c) ==
  /\ cbuf' = <<>>
  /\ chan' = [chan EXCEPT !["client"] =
                IF cls_state = "disconnected" THEN c
                ELSE Written(c, ExecutedAll(cbuf))]

(* Cl_Frame without a packet frame. *)
RenderFrame ==
  /\ cbuf # <<>>
  /\ Cbuf_Execute(chan["client"])
  /\ UNCHANGED <<cls_state, data, server, wire, history>>

(* Cl_SendCmd: a connected client sends what it has written, or that it is  *)
(* still there; an active one sends movement.                               *)
Cl_SendCmd ==
  /\ cls_state \in {"connected", "active"}
  /\ CanTransmit(chan["client"])
  /\ Send("client", Sequenced(chan["client"], Nothing))
  /\ Cbuf_Execute(Transmitted(chan["client"]))
  /\ UNCHANGED <<cls_state, data, server, history>>

(* A datagram of an attempt to connect is under way. *)
Connecting ==
  \E e \in Endpoint : \E d \in Range(wire[e]) :
    d.op \in {"get_challenge", "challenge", "connect", "client_connect"}

(* Cl_CheckForResend, at once or after three seconds. *)
Cl_CheckForResend ==
  /\ cls_state = "connecting"
  /\ Patient => ~Connecting
  /\ requests < MaxRequests
  /\ requests' = requests + 1
  /\ Send("client", <<OutOfBand("get_challenge", 0)>>)
  /\ Cbuf_Execute(chan["client"])
  /\ UNCHANGED <<cls_state, data, server, disconnects, drops, kicked>>

(* Cl_Connect_f, or Cl_Reconnect_f after a disconnect.  A command of the    *)
(* user follows the texts of the server.                                    *)
Cl_Connect_f ==
  /\ cls_state = "disconnected"
  /\ cbuf = <<>>
  /\ cls_state' = "connecting"
  /\ UNCHANGED <<data, cbuf, server, chan, wire, history>>

(* The client with channel c disconnects.  It says so three times in a row; *)
(* here once, as all of them can be lost.                                   *)
DisconnectFrom(c) ==
  /\ disconnects < MaxDisconnects
  /\ CanTransmit(c)
  /\ disconnects' = disconnects + 1
  /\ cls_state' = "disconnected"
  /\ data' = {}
  /\ cbuf' = <<>>
  /\ chan' = [chan EXCEPT !["client"] = [Transmitted(c) EXCEPT !.message = <<>>]]
  /\ UNCHANGED <<server, requests, drops, kicked>>

(* Cl_Disconnect, because the user wants it or nothing has arrived for too  *)
(* long.                                                                    *)
Cl_Disconnect ==
  /\ cls_state # "disconnected"
  /\ cbuf = <<>>
  /\ DisconnectFrom(chan["client"])
  /\ Send("client", Sequenced(chan["client"], Disconnect))

-----------------------------------------------------------------------------
(* Cl_ConnectionlessPacket: "challenge". *)
Cl_Challenge ==
  /\ Arrived("client") /\ Datagram("client").op = "challenge"
  /\ Reply("client", IF cls_state = "connecting"
                       THEN <<OutOfBand("connect", Datagram("client").value)>>
                       ELSE <<>>)
  /\ UNCHANGED <<client, server, chan, history>>

(* A connect that was answered twice. *)
IgnoresConnect == cls_state = "connected"

(* Cl_ConnectionlessPacket: "client_connect". *)
Cl_ClientConnect ==
  /\ Arrived("client") /\ Datagram("client").op = "client_connect"
  /\ Reply("client", <<>>)
  /\ IF IgnoresConnect
       THEN UNCHANGED <<cls_state, chan>>
       ELSE /\ chan' = [chan EXCEPT !["client"] =
                          Written(NewChannel(TRUE), <<New>>)]
            /\ cls_state' = "connected"
  /\ UNCHANGED <<data, cbuf, server, history>>

(* Mutant of Cleared: the client keeps what it has. *)
ClearedNot(c) == c

(* Cl_ClearState, for a client that is given another level. *)
Cleared(c) == [c EXCEPT !.data = {}, !.message = <<>>]

(* Cl_ParseServerMessage: one command of the reliable part. *)
ParseServerCommand(c, cmd) ==
  CASE cmd.op = "server_data" -> [Cleared(c) EXCEPT !.state = "connected"]
    [] cmd.op = "config_string" ->
         [c EXCEPT !.data = @ \cup {<<cmd.level, cmd.part>>}]
    [] cmd.op = "cbuf_text" -> [c EXCEPT !.cbuf = Append(@, cmd.command)]

(* The reliable part, command by command. *)
ParseServerCommands(c, commands) ==
  LET Parsed[i \in 0 .. Len(commands)] ==
        IF i = 0 THEN c ELSE ParseServerCommand(Parsed[i - 1], commands[i])
  IN  Parsed[Len(commands)]

(* Mutant of ParseUnreliable: one that is still connecting need not be told. *)
ParseUnreliableActive(state, unreliable) ==
  CASE unreliable.op = "frame" -> "active"
    [] unreliable.op = "reconnect" /\ state = "active" -> "connecting"
    [] OTHER -> state

(* The unreliable part. *)
ParseUnreliable(state, unreliable) ==
  CASE unreliable.op = "frame" -> "active"
    [] unreliable.op = "reconnect" -> "connecting"
    [] OTHER -> state

(* Cl_ReadPackets, for a datagram of the channel: without a connection it   *)
(* is dumped.  A disconnect of the server is an error.                      *)
Cl_ReadPacket ==
  /\ Arrived("client") /\ Datagram("client").op = "sequenced"
  /\ LET p == Datagram("client").packet
         unreliable == Datagram("client").unreliable
         c == Processed(chan["client"], p)
         parsed == ParseServerCommands(
                     [state |-> cls_state, data |-> data, cbuf |-> cbuf,
                      message |-> c.message], p.payload)
     IN  IF \/ cls_state \notin {"connected", "active"}
            \/ ~NC(chan["client"])!Fresh(Self, p)
           THEN /\ Reply("client", <<>>)
                /\ UNCHANGED <<client, server, chan, history>>
         ELSE IF unreliable = Disconnect
           THEN /\ Reply("client", Sequenced(c, Disconnect))
                /\ DisconnectFrom(c)
         ELSE /\ Reply("client", <<>>)
              /\ chan' = [chan EXCEPT !["client"] =
                            [c EXCEPT !.message = parsed.message]]
              /\ cls_state' = ParseUnreliable(parsed.state, unreliable)
              /\ data' = parsed.data
              /\ cbuf' = parsed.cbuf
              /\ UNCHANGED <<server, history>>

-----------------------------------------------------------------------------
(* Svc_GetChallenge: an address keeps the number it once got. *)
Svc_GetChallenge ==
  /\ Arrived("server") /\ Datagram("server").op = "get_challenge"
  /\ challenge' = IF challenge = NoChallenge THEN FirstChallenge ELSE challenge
  /\ Reply("server", <<OutOfBand("challenge", challenge')>>)
  /\ UNCHANGED <<client, sv_state, spawn_count, chan, history>>

ChallengeMet(d) == d.value = challenge

(* Svc_Connect: into the slot the client has, or else into a free one. *)
Svc_Connect ==
  /\ Arrived("server") /\ Datagram("server").op = "connect"
  /\ IF ChallengeMet(Datagram("server"))
       THEN /\ Reply("server", <<OutOfBand("client_connect", 0)>>)
            /\ challenge' = Used
            /\ chan' = [chan EXCEPT !["server"] = NewChannel(TRUE)]
            /\ sv_state' = "connected"
       ELSE /\ Reply("server", <<>>)
            /\ UNCHANGED <<challenge, chan, sv_state>>
  /\ UNCHANGED <<client, spawn_count, history>>

(* Sv_New_f: what a client is sent first. *)
NewAnswer == <<ServerData(spawn_count), Text(GetPart(spawn_count, 1))>>

(* Mutant of Stale: not noticed. *)
StaleNever(cmd) == FALSE

(* The level has changed while the client was connecting. *)
Stale(cmd) == cmd.level # spawn_count

(* Mutant of PartAnswer: the last part is not noticed. *)
PartAnswerPastEnd(cmd) ==
  <<Part(spawn_count, cmd.part),
    Text(IF cmd.part <= Parts THEN GetPart(spawn_count, cmd.part + 1)
                              ELSE Precache(spawn_count))>>

(* Sv_ConfigStrings_f and Sv_Baselines_f: a part, and what to ask for next. *)
PartAnswer(cmd) ==
  <<Part(spawn_count, cmd.part),
    Text(IF cmd.part < Parts THEN GetPart(spawn_count, cmd.part + 1)
                             ELSE Precache(spawn_count))>>

(* Sv_UserStringCommand: what it answers a client that is connecting. *)
Answer(cmd) ==
  IF cmd.op = "new" \/ Stale(cmd) THEN NewAnswer
  ELSE IF cmd.op = "part" THEN PartAnswer(cmd)
  ELSE <<>>

(* Sv_ParseClientMessage: one command of the reliable part.  A client that  *)
(* is in the game already must not begin.                                   *)
ParseClientCommand(s, cmd) ==
  IF s.state = "connected"
    THEN [s EXCEPT !.message = @ \o Answer(cmd),
                   !.state = IF cmd.op = "begin" /\ ~Stale(cmd)
                               THEN "active" ELSE @]
  ELSE IF s.state = "active" /\ cmd.op = "begin"
    THEN [s EXCEPT !.state = "kicked"]
  ELSE s

(* The reliable part, command by command. *)
ParseClientCommands(s, commands) ==
  LET Parsed[i \in 0 .. Len(commands)] ==
        IF i = 0 THEN s ELSE ParseClientCommand(Parsed[i - 1], commands[i])
  IN  Parsed[Len(commands)]

(* Sv_DropClient, for a slot with channel c: the client is told once. *)
DropFrom(c) ==
  /\ CanTransmit(c)
  /\ sv_state' = "free"
  /\ chan' = [chan EXCEPT !["server"] = NewChannel(FALSE)]
  /\ UNCHANGED <<client, challenge, spawn_count, requests, disconnects>>

(* Sv_ReadPackets, for a datagram of the channel. *)
Sv_ReadPacket ==
  /\ Arrived("server") /\ Datagram("server").op = "sequenced"
  /\ LET p == Datagram("server").packet
         c == Processed(chan["server"], p)
         parsed == ParseClientCommands(
                     [state |-> sv_state, message |-> c.message], p.payload)
         read == [c EXCEPT !.message = parsed.message]
     IN  IF sv_state = "free" \/ ~NC(chan["server"])!Fresh(Self, p)
           THEN /\ Reply("server", <<>>)
                /\ UNCHANGED <<client, server, chan, history>>
         ELSE IF parsed.state = "kicked" \/ Datagram("server").unreliable = Disconnect
           THEN /\ Reply("server", Sequenced(read, Disconnect))
                /\ DropFrom(read)
                /\ kicked' = (kicked \/ parsed.state = "kicked")
                /\ UNCHANGED drops
         ELSE /\ Reply("server", <<>>)
              /\ chan' = [chan EXCEPT !["server"] = read]
              /\ sv_state' = parsed.state
              /\ UNCHANGED <<client, challenge, spawn_count, history>>

(* Sv_DropClient, because the client has timed out or was kicked. *)
Sv_DropClient ==
  /\ sv_state # "free"
  /\ drops < MaxDrops
  /\ drops' = drops + 1
  /\ DropFrom(chan["server"])
  /\ Send("server", Sequenced(chan["server"], Disconnect))
  /\ UNCHANGED kicked

(* Sv_SendClientMessages: a frame to a client in the game, else what is     *)
(* written for it, or that the server is still there.                       *)
Sv_SendClientMessages ==
  /\ sv_state # "free"
  /\ CanTransmit(chan["server"])
  /\ chan' = [chan EXCEPT !["server"] = Transmitted(@)]
  /\ Send("server", Sequenced(chan["server"],
                      IF sv_state = "active" THEN Frame(spawn_count)
                      ELSE Nothing))
  /\ UNCHANGED <<client, server, history>>

(* Sv_InitServer: another level, after a word to the clients. *)
Sv_InitServer ==
  /\ spawn_count < MaxLevels
  /\ spawn_count' = spawn_count + 1
  /\ IF sv_state = "free"
       THEN UNCHANGED <<sv_state, chan, wire>>
       ELSE /\ CanTransmit(chan["server"])
            /\ Send("server", Sequenced(chan["server"], Reconnect))
            /\ chan' = [chan EXCEPT !["server"] = Transmitted(@)]
            /\ sv_state' = "connected"
  /\ UNCHANGED <<client, challenge, history>>

Next ==
  \/ \E e \in Endpoint : Lose(e)
  \/ RenderFrame \/ Cl_SendCmd \/ Cl_CheckForResend
  \/ Cl_Connect_f \/ Cl_Disconnect
  \/ Cl_Challenge \/ Cl_ClientConnect \/ Cl_ReadPacket
  \/ Svc_GetChallenge \/ Svc_Connect \/ Sv_ReadPacket
  \/ Sv_DropClient \/ Sv_SendClientMessages \/ Sv_InitServer

Spec == Init /\ [][Next]_vars
-----------------------------------------------------------------------------
Levels == 1 .. MaxLevels
Command == {New} \cup {GetPart(l, p) : l \in Levels, p \in 1 .. Parts}
                 \cup {Begin(l) : l \in Levels}
ChannelOK(c) ==
  /\ c.outgoing_sequence \in 1 .. MaxSequence + 1
  /\ {c.incoming_sequence, c.incoming_acknowledged} \subseteq 0 .. MaxSequence
  /\ c.last_reliable_sequence \in 0 .. c.outgoing_sequence
  /\ {c.reliable_sequence, c.incoming_reliable_acknowledged,
      c.incoming_reliable_sequence} \subseteq {0, 1}
  /\ c.open \in BOOLEAN

(* The states of both ends are those of the code, the channel of the client *)
(* carries commands of the spawn sequence, and the client asks for parts    *)
(* the level has.                                                           *)
TypeOK ==
  /\ cls_state \in {"disconnected", "connecting", "connected", "active"}
  /\ data \subseteq Levels \X (1 .. Parts)
  /\ Range(cbuf) \subseteq Command \cup {Precache(l) : l \in Levels}
  /\ sv_state \in {"free", "connected", "active"}
  /\ challenge \in {NoChallenge, Used, FirstChallenge}
  /\ spawn_count \in Levels
  /\ \A e \in Endpoint : ChannelOK(chan[e]) /\ Len(wire[e]) <= MaxWire
  /\ Range(chan["client"].message) \cup Range(chan["client"].reliable)
       \subseteq Command
  /\ requests \in 0 .. MaxRequests
  /\ disconnects \in 0 .. MaxDisconnects
  /\ drops \in 0 .. MaxDrops
  /\ kicked \in BOOLEAN

Level(l) == {l} \X (1 .. Parts)

InConversation == cls_state \in {"connected", "active"}

(* Sv_Begin_f kicks who begins twice.  A client that does what it is told   *)
(* never does, whatever level it begins and however often it connects, as   *)
(* long as its attempts to connect do not overlap (Patient).                *)
NeverKicked == ~kicked

(* Sv_Begin_f lets a client into the level it has been sent: a frame that   *)
(* the client will accept finds it with that level, all of it and of no     *)
(* other, though the level may change at any point of the spawn sequence.   *)
FramesOfTheLevel ==
  \A d \in Range(wire["client"]) :
    /\ InConversation
    /\ d.op = "sequenced"
    /\ NC(chan["client"])!Fresh(Self, d.packet)
    /\ d.unreliable.op = "frame"
    => data = Level(d.unreliable.level)

(* The spawn counts keep both ends on one level: a client in the game has   *)
(* a level, and a slot in the game has a client with the level the server   *)
(* runs, unless that client has left.                                       *)
SpawnedWithLevel ==
  /\ cls_state = "active" => \E l \in Levels : data = Level(l)
  /\ sv_state = "active" /\ InConversation => data = Level(spawn_count)

(* Nothing is under way, nothing is waiting to be sent or acknowledged. *)
Quiet ==
  /\ cbuf = <<>>
  /\ \A e \in Endpoint : /\ wire[e] = <<>>
                         /\ chan[e].message = <<>>
                         /\ chan[e].reliable = <<>>

(* Sv_InitServer and the spawn sequence forget nobody: when nothing is left *)
(* to arrive, the slot of a client with a connection is in the game or      *)
(* gone.  In a slot that is still connecting it would stay for ever, as     *)
(* both ends go on telling each other that they are there.                  *)
NobodyForgotten == Quiet /\ InConversation => sv_state # "connected"
=============================================================================
