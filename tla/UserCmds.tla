------------------------------ MODULE UserCmds ------------------------------
(***************************************************************************)
(* Movement commands.  In every packet frame the client sends what the     *)
(* player did since the last one, together with its two predecessors       *)
(* (cl_cmd.c), and the server runs those it has missed before the new one  *)
(* (sv_client.c).  The frames the server sends back are old when they      *)
(* arrive, so the client predicts where the commands under way will take   *)
(* the player (cl_predict.c), and checks later whether it was right.       *)
(*                                                                         *)
(* The state of a player is the sequence of the commands run so far: two   *)
(* of them are the same exactly if the same was done in the same order.    *)
(* The datagrams are those of a channel (NetChan): the receiver drops what *)
(* it has been overtaken by.  Both ends are active from the start.         *)
(***************************************************************************)
EXTENDS Integers, Sequences, FiniteSets, SequencesExt, Functions, Lists

CONSTANTS
  CmdBackup,    \* CMD_BACKUP: commands the client keeps.
  MaxReplay,    \* As many lost datagrams in a row are not made up for: 20.
  MaxSequence,  \* Bound: datagrams of the client, below the 31 bit wrap.
  MaxFrames     \* Bound: frames of the server.

(* The client's first two datagrams, of the time before it was active,      *)
(* carried no command.                                                      *)
FirstMove == 3

ASSUME UserCmdsAssumption ==
  /\ CmdBackup \in Nat /\ CmdBackup > 2
  /\ MaxReplay \in Nat /\ MaxReplay > 2
  /\ MaxSequence \in Nat /\ MaxSequence >= FirstMove
  /\ MaxFrames \in Nat \ {0}

VARIABLES
  outgoing_sequence,     \* The client's net_chan: number of the next datagram,
  incoming_acknowledged, \* and the last one the server says it has.
  received,              \* Its incoming_sequence, the last datagram accepted.
  cmds,                  \* cl.cmds: what was done in each slot's packet frame.
  frame,                 \* cl.frame.ps: the state in the last frame received.
  origins,               \* cl.predicted_state.origins: the state foreseen.
  error,                 \* cl.predicted_state.error: whether it was wrong.
  incoming_sequence,     \* The server's: the client's last datagram accepted.
  last_cmd,              \* client->last_cmd.
  player,                \* The state of the player in the game.
  sv_outgoing,           \* The server's outgoing_sequence for this client.
  frame_num,             \* Frames of the server so far.
  uplink,                \* Datagrams that may still reach the server,
  downlink,              \* and the client.
  sent,                  \* History: the commands sent,
  accepted,              \* the datagrams of the client that were accepted,
  disturbed              \* and whether prediction was without its basis.

client == <<outgoing_sequence, incoming_acknowledged, received, cmds, frame,
            origins, error>>
server == <<incoming_sequence, last_cmd, player, sv_outgoing, frame_num>>
vars == <<client, server, uplink, downlink, sent, accepted, disturbed>>

(* What was done in a packet frame is the set of the frames whose input is  *)
(* in it: none for a cleared command, which also lasts no time; Time stands *)
(* for the duration of a command without any input.                         *)
Null == {}
Time == 0

-----------------------------------------------------------------------------
(* & CMD_MASK *)
Slot(n) == n % CmdBackup

(* The state after some commands; one without duration does nothing. *)
MovedAll(state, sequence) ==
  state \o Without(sequence, {Null})

Init ==
  /\ outgoing_sequence = FirstMove
  /\ incoming_sequence \in 1 .. FirstMove - 1
  /\ incoming_acknowledged = incoming_sequence
  /\ received = 1
  /\ cmds = [s \in 0 .. CmdBackup - 1 |-> Null]
  /\ frame = <<>>
  /\ origins = [s \in 0 .. CmdBackup - 1 |-> <<>>]
  /\ error = FALSE
  /\ last_cmd = Null
  /\ player = <<>>
  /\ sv_outgoing = 2
  /\ frame_num = 1
  /\ uplink = {}
  /\ downlink = {}
  /\ sent = [n \in 1 .. FirstMove - 1 |-> Null]
  /\ accepted = {incoming_sequence}
  /\ disturbed = FALSE

-----------------------------------------------------------------------------
(* Cl_UpdateCmd: the input of this frame is added to the pending command.   *)
UpdatedCmds ==
  [cmds EXCEPT ![Slot(outgoing_sequence)] = @ \cup {outgoing_sequence}]

(* Mutant of Unacknowledged: the last one acknowledged is run again. *)
UnacknowledgedAndLast == incoming_acknowledged .. outgoing_sequence

(* The commands Cl_PredictMovement runs, the pending one included. *)
Unacknowledged == incoming_acknowledged + 1 .. outgoing_sequence

TooFarOutOfDate == outgoing_sequence - incoming_acknowledged >= CmdBackup

(* Cl_PredictMovement: the state after each of the commands, starting from  *)
(* the last frame.  A command without duration leaves no trace.             *)
Predicted(ring) ==
  LET Until(n) == [i \in 1 .. Cardinality({k \in Unacknowledged : k <= n}) |->
                     ring[Slot(Min(Unacknowledged) + i - 1)]]
      In(s) == {n \in Unacknowledged : Slot(n) = s /\ ring[s] # Null}
  IN  [s \in DOMAIN origins |->
         IF In(s) = {} THEN origins[s] ELSE MovedAll(frame, Until(Max(In(s))))]

(* Cl_PredictMovement in a frame whose commands are those in ring. *)
Foreseen(ring) == IF TooFarOutOfDate THEN origins ELSE Predicted(ring)

(* Cl_FinalizeCmd: a command that is sent lasts as long as the frame. *)
Finalized(cmd) == IF cmd = Null THEN {Time} ELSE cmd

(* The ring when a command is sent and the next one is initialized. *)
RingAfterSend(ring) ==
  [ring EXCEPT ![Slot(outgoing_sequence)] = Finalized(@),
               ![Slot(outgoing_sequence + 1)] = Null]

(* CL_CMD_MOVE: the oldest command first. *)
Move(ring) ==
  [sequence |-> outgoing_sequence,
   oldest   |-> ring[Slot(outgoing_sequence - 2)],
   old      |-> ring[Slot(outgoing_sequence - 1)],
   new      |-> Finalized(ring[Slot(outgoing_sequence)])]

(* Cl_SendCmd, with the commands the frame left in the ring. *)
SendCmd(ring) ==
  /\ outgoing_sequence < MaxSequence
  /\ uplink' = uplink \cup {Move(ring)}
  /\ sent' = Append(sent, Move(ring).new)
  /\ cmds' = RingAfterSend(ring)
  /\ outgoing_sequence' = outgoing_sequence + 1
  /\ UNCHANGED <<incoming_acknowledged, received, frame, error, server,
                 downlink, accepted>>

(* Cl_Frame with a packet frame: input and prediction come before the send. *)
PacketFrame ==
  /\ SendCmd(UpdatedCmds)
  /\ origins' = Foreseen(UpdatedCmds)
  /\ disturbed' = (disturbed \/ TooFarOutOfDate)

(* Cl_Frame without: the client renders more often than it sends. *)
RenderFrame ==
  /\ cmds' = UpdatedCmds
  /\ origins' = Foreseen(UpdatedCmds)
  /\ UNCHANGED <<outgoing_sequence, incoming_acknowledged, received, frame,
                 error, server, uplink, downlink, sent, accepted, disturbed>>

(* Cl_Frame when nothing is rendered, but the user info was modified: the   *)
(* command is sent without ever having been predicted.                      *)
UserInfoFrame ==
  /\ SendCmd(cmds)
  /\ disturbed' = TRUE
  /\ UNCHANGED origins

-----------------------------------------------------------------------------
(* Mutant of Lost: the new one is counted too. *)
LostAndNew(d) == d.sequence - incoming_sequence

(* chan->dropped: the datagrams missing before this one. *)
Lost(d) == d.sequence - (incoming_sequence + 1)

(* What the server runs in place of lost commands: copies for the last two, *)
(* and the last command it had for those before.                            *)
Replayed(d) ==
  IF Lost(d) >= MaxReplay THEN <<>>
  ELSE [i \in 1 .. Lost(d) |->
          IF i = Lost(d) THEN d.old
          ELSE IF i = Lost(d) - 1 THEN d.oldest
          ELSE last_cmd]

(* Sv_ParseClientMessage, for a datagram Netchan_Process lets through. *)
ParseMove(d) ==
  /\ d.sequence > incoming_sequence
  /\ incoming_sequence' = d.sequence
  /\ player' = MovedAll(player, Append(Replayed(d), d.new))
  /\ last_cmd' = d.new
  /\ accepted' = accepted \cup {d.sequence}
  /\ uplink' = {u \in uplink : u.sequence > d.sequence}
  /\ UNCHANGED <<client, sv_outgoing, frame_num, downlink, sent, disturbed>>

(* Sv_SendClientDatagram.  All datagrams of the clients have been read when *)
(* a frame is built, so it is of the player as of incoming_sequence.  If    *)
(* the sounds and temporary entities do not fit, they follow in a datagram  *)
(* of their own.                                                            *)
SendClientDatagram(fits) ==
  /\ frame_num < MaxFrames
  /\ frame_num' = frame_num + 1
  /\ LET Datagram(n, has_frame) ==
           [sequence |-> n, ack |-> incoming_sequence, has_frame |-> has_frame,
            state |-> player]
     IN  IF fits
           THEN /\ downlink' = downlink \cup {Datagram(sv_outgoing, TRUE)}
                /\ sv_outgoing' = sv_outgoing + 1
                /\ UNCHANGED disturbed
           ELSE /\ downlink' = downlink \cup {Datagram(sv_outgoing, TRUE),
                                              Datagram(sv_outgoing + 1, FALSE)}
                /\ sv_outgoing' = sv_outgoing + 2
                /\ disturbed' = TRUE
  /\ UNCHANGED <<client, incoming_sequence, last_cmd, player, uplink, sent,
                 accepted>>

(* Mutants of Acknowledges: noted too late for this frame, and the number   *)
(* of the datagram itself.                                                  *)
AcknowledgedBefore(m) == incoming_acknowledged
AcknowledgesItself(m) == m.sequence

(* The command that the state in a datagram is the result of, for all the   *)
(* client knows.                                                            *)
Acknowledges(m) == m.ack

(* Netchan_Process, and Cl_ParseFrame if there is a frame: it ends with     *)
(* Cl_CheckPredictionError.                                                 *)
ParseServerMessage(m) ==
  /\ m.sequence > received
  /\ received' = m.sequence
  /\ incoming_acknowledged' = Acknowledges(m)
  /\ IF m.has_frame
       THEN /\ frame' = m.state
            /\ error' = (m.state # origins[Slot(Acknowledges(m))])
       ELSE UNCHANGED <<frame, error>>
  /\ downlink' = {d \in downlink : d.sequence > m.sequence}
  /\ UNCHANGED <<outgoing_sequence, cmds, origins, server, uplink, sent,
                 accepted, disturbed>>

Next ==
  \/ PacketFrame
  \/ RenderFrame
  \/ UserInfoFrame
  \/ \E d \in uplink : ParseMove(d)
  \/ \E fits \in BOOLEAN : SendClientDatagram(fits)
  \/ \E m \in downlink : ParseServerMessage(m)

Spec == Init /\ [][Next]_vars

-----------------------------------------------------------------------------
Cmds == SUBSET (0 .. MaxSequence)

(* Every ring has its size, and every number is in its range. *)
TypeOK ==
  /\ outgoing_sequence \in FirstMove .. MaxSequence
  /\ incoming_acknowledged \in 1 .. outgoing_sequence - 1
  /\ received \in 1 .. sv_outgoing - 1
  /\ cmds \in [0 .. CmdBackup - 1 -> Cmds]
  /\ frame \in Seq(Cmds)
  /\ origins \in [0 .. CmdBackup - 1 -> Seq(Cmds)]
  /\ error \in BOOLEAN
  /\ incoming_sequence \in 1 .. outgoing_sequence - 1
  /\ last_cmd \in Cmds
  /\ player \in Seq(Cmds)
  /\ sv_outgoing \in 2 .. 2 * MaxFrames
  /\ frame_num \in 1 .. MaxFrames
  /\ \A d \in uplink : d.sequence \in incoming_sequence + 1 .. outgoing_sequence - 1
  /\ \A m \in downlink : m.sequence \in received + 1 .. sv_outgoing - 1
  /\ Len(sent) = outgoing_sequence - 1
  /\ accepted \subseteq 1 .. incoming_sequence
  /\ disturbed \in BOOLEAN

(* The datagrams accepted next before and after a command was due. *)
Before(n) == Max({m \in accepted : m < n})
Upon(n) == Min({m \in accepted : m >= n})

(* Commands the server has had to run by now. *)
Due == Min(accepted) + 1 .. incoming_sequence

(* So many datagrams were lost in a row that none was made up for. *)
Skipped(n) == Upon(n) # n /\ Upon(n) - Before(n) > MaxReplay

(* One of the copies of the command has arrived. *)
Copied(n) == Upon(n) - n <= 2

(* What the server runs for a command due: what was sent, if one of the     *)
(* three copies arrived, else a repetition of what it had last, except in a *)
(* loss so long that it gave up.                                            *)
Ran(n) ==
  IF n \notin Due \/ Skipped(n) THEN Null
  ELSE IF Copied(n) THEN sent[n] ELSE sent[Before(n)]

(* The server has run everything due, in order and each once, whatever was  *)
(* lost, overtaken or made up for.                                          *)
RunAsSent ==
  player = MovedAll(<<>>, [n \in 1 .. incoming_sequence |-> Ran(n)])

(* Prediction never runs what the state it starts from is the result of. *)
NeverRunAgain ==
  \A i \in DOMAIN frame : \A n \in frame[i] : n <= incoming_acknowledged

(* The server had to invent or leave out what the player did. *)
Invented == \E n \in Due : Skipped(n) \/ ~Copied(n)

(* As long as every frame fits its datagram and every command was predicted *)
(* when it was sent, the client is wrong only about what the server never   *)
(* got: the frame just received is what was foreseen for the command it     *)
(* acknowledges, whatever was lost or overtaken on either way.              *)
PredictionSound == error => disturbed \/ Invented
=============================================================================
