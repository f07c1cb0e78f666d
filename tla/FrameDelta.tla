----------------------------- MODULE FrameDelta -----------------------------
(***************************************************************************)
(* Entity frames: the server sends an active client one frame per server   *)
(* frame, encoded as the difference to the last frame the client says it   *)
(* has (sv_entity.c), and the client rebuilds it from its own backups      *)
(* (cl_entity.c).  Both ends keep rings: PacketBackup frames each, and a   *)
(* ring of entity states the frames point into.  Any datagram may be lost, *)
(* repeated or overtaken; those the channel calls stale are dropped.       *)
(*                                                                         *)
(* The server's entity state ring is shared by all clients; what it holds  *)
(* for the others is Foreign here.  The player state is delta encoded from *)
(* the same base frame and is not modelled apart from the entities.        *)
(***************************************************************************)
EXTENDS Integers, Sequences, FiniteSets, FiniteSetsExt

CONSTANTS
  Worlds,         \* Courses of the game: seen[n] is what the client can see in
                  \* frame n, as number |-> state, and others[n] how many ring
                  \* entries the frames of the other clients take before it.
  PacketBackup,   \* PACKET_BACKUP: frames kept by either end.
  PacketEntities, \* MAX_PACKET_ENTITIES: entity states per frame allowed for.
  MaxClients,     \* sv_max_clients: how many clients share the state ring.
  MaxEdicts,      \* MAX_EDICTS: entities are numbered from 1 to below it.
  MaxFrames       \* Bound: frames the server runs.

(* svs.num_entity_states and ENTITY_STATE_BACKUP. *)
NumEntityStates == MaxClients * PacketBackup * PacketEntities
EntityStateBackup == PacketBackup * PacketEntities

(* The sizes of the code are 32, 64 and 1024. *)
ASSUME FrameDeltaAssumption ==
  /\ PacketBackup \in Nat /\ PacketBackup > 3
  /\ PacketEntities \in Nat /\ PacketBackup <= 4 * PacketEntities
  /\ MaxEdicts \in Nat /\ MaxEdicts <= EntityStateBackup
  /\ MaxClients \in Nat \ {0}
  /\ MaxFrames \in Nat

ASSUME WorldsAssumption ==
  \A w \in Worlds :
    /\ w.others \in [1 .. MaxFrames -> Nat]
    /\ DOMAIN w.seen = 1 .. MaxFrames
    /\ \A n \in 1 .. MaxFrames :
         /\ DOMAIN w.seen[n] \subseteq 1 .. MaxEdicts - 1
         /\ w.seen[n] = [e \in DOMAIN w.seen[n] |-> w.seen[n][e]]

VARIABLES
  world,            \* The course this game takes.
  frame_num,        \* sv.frame_num.
  last_frame,       \* client->last_frame, -1 to ask for a full frame.
  frames,           \* client->frames: where its entity states are.
  entity_states,    \* svs.entity_states.
  next_entity_state,\* svs.next_entity_state.
  downlink,         \* Frame datagrams that may still reach the client.
  uplink,           \* Frame numbers in movement datagrams to the server.
  cl_frame,         \* cl.frame.frame_num, -1 while cl.frame is not valid.
  cl_frames,        \* cl.frames.
  cl_entity_states, \* cl.entity_states.
  cl_entity_state,  \* cl.entity_state.
  error             \* The ERR_DROP that ended the client's session.

server == <<frame_num, last_frame, frames, entity_states, next_entity_state>>
client == <<cl_frame, cl_frames, cl_entity_states, cl_entity_state, error>>
vars == <<world, server, downlink, uplink, client>>

Foreign == [number |-> 1, state |-> -1]
Baseline == -2  \* The state in an entity's baseline.
Mixed == -3     \* What a difference makes of a state it was not taken from.
NoFrame == [valid |-> FALSE, frame_num |-> 0, first |-> 0, num |-> 0]

-----------------------------------------------------------------------------
(* & PACKET_MASK *)
Slot(n) == n % PacketBackup

(* Mutant of Count: the terminator is counted too. *)
CountOneMore(states) == Cardinality(DOMAIN states) + 1

Count(states) == Cardinality(DOMAIN states)

(* The entity states that num ring entries from first on hold, by number. *)
StatesAt(ring, size, first, num) ==
  LET entries == {ring[(first + i) % size] : i \in 0 .. num - 1}
  IN  [n \in {x.number : x \in entries} |->
         (CHOOSE x \in entries : x.number = n).state]

(* How many entities with lower numbers there are. *)
Rank(numbers, n) == Cardinality({m \in numbers : m < n})

(* The ring after the states are stored from next on, in order of number. *)
Stored(ring, size, next, states) ==
  LET At(k) == {n \in DOMAIN states : (next + Rank(DOMAIN states, n)) % size = k}
  IN  [k \in DOMAIN ring |->
         IF At(k) = {} THEN ring[k]
         ELSE [number |-> Max(At(k)), state |-> states[Max(At(k))]]]

(* The ring after other clients' frames took count entries from next on. *)
StoredForeign(ring, size, next, count) ==
  [k \in DOMAIN ring |->
     IF \E i \in 0 .. count - 1 : (next + i) % size = k THEN Foreign ELSE ring[k]]

(* The states the server has for the frame it kept as number n. *)
ServerStates(n) ==
  StatesAt(entity_states, NumEntityStates,
           frames[Slot(n)].first, frames[Slot(n)].num)

(* The states the client has for the frame in one of its slots. *)
ClientStates(slot) ==
  StatesAt(cl_entity_states, EntityStateBackup,
           cl_frames[slot].first, cl_frames[slot].num)

-----------------------------------------------------------------------------
Init ==
  /\ world \in Worlds
  /\ frame_num = 0
  /\ last_frame = -1
  /\ frames = [s \in 0 .. PacketBackup - 1 |-> [first |-> 0, num |-> 0]]
  /\ entity_states = [k \in 0 .. NumEntityStates - 1 |-> Foreign]
  /\ next_entity_state = 0
  /\ downlink = {}
  /\ uplink = {}
  /\ cl_frame = -1
  /\ cl_frames = [s \in 0 .. PacketBackup - 1 |-> NoFrame]
  /\ cl_entity_states = [k \in 0 .. EntityStateBackup - 1 |-> Foreign]
  /\ cl_entity_state = 0
  /\ error = "none"

(* Mutant of TooOld: a bound that forgets that the slots are reused.        *)
TooOldLate == frame_num - last_frame > PacketBackup

(* The client has not got a good message through in a long time. *)
TooOld == frame_num - last_frame >= PacketBackup - 3

(* The difference from one set of entity states to the next: those gone,    *)
(* and those changed, or new and written as changes of their baselines.     *)
Emitted(from, to) ==
  [removed |-> DOMAIN from \ DOMAIN to,
   updated |-> [n \in {n \in DOMAIN to : n \notin DOMAIN from \/ from[n] # to[n]} |->
                  [from |-> IF n \in DOMAIN from THEN from[n] ELSE Baseline,
                   to   |-> to[n]]]]

(* Sv_WriteFrame of the frame just built: both it and the base frame are    *)
(* read back from the rings.                                                *)
FrameDatagram ==
  LET full == last_frame < 0 \/ TooOld
      base == IF full THEN <<>> ELSE ServerStates(last_frame)
  IN  [frame_num |-> frame_num,
       delta     |-> IF full THEN -1 ELSE last_frame,
       entities  |-> Emitted(base, ServerStates(frame_num))]

(* Sv_RunGameFrame. *)
RunGameFrame ==
  /\ frame_num < MaxFrames
  /\ frame_num' = frame_num + 1
  /\ UNCHANGED <<world, last_frame, uplink, client>>

(* Ring entries the other clients' frames take before this client's. *)
Others == world.others[frame_num']

(* Sv_SendClientDatagram: Sv_BuildClientFrame takes ring entries for what   *)
(* the client can see, Sv_WriteFrame encodes them.                          *)
SendClientDatagram ==
  /\ RunGameFrame
  /\ LET visible == world.seen[frame_num']
         first   == next_entity_state + Others
     IN  /\ frames' = [frames EXCEPT ![Slot(frame_num')] =
                         [first |-> first, num |-> Count(visible)]]
         /\ entity_states' =
              Stored(StoredForeign(entity_states, NumEntityStates,
                                   next_entity_state, Others),
                     NumEntityStates, first, visible)
         /\ next_entity_state' = first + Count(visible)
  /\ downlink' = downlink \cup {FrameDatagram'}

(* Sv_RateDrop: the client is over its bandwidth and gets nothing. *)
RateDrop ==
  /\ RunGameFrame
  /\ entity_states' =
       StoredForeign(entity_states, NumEntityStates, next_entity_state, Others)
  /\ next_entity_state' = next_entity_state + Others
  /\ UNCHANGED <<frames, downlink>>

-----------------------------------------------------------------------------
(* The channel lets only later datagrams through, so only later frames. *)
Later(m) == m.frame_num > cl_frame

(* Mutants of Reach: one entry too few is left for the decoding to run      *)
(* ahead; and enough is left for any frame, but not for the bases that the  *)
(* server may still name.                                                   *)
ReachOneMore == EntityStateBackup - PacketBackup + 1
ReachForAll == EntityStateBackup - MaxEdicts

(* How far back in the client's ring a base frame may begin.                *)
Reach == EntityStateBackup - PacketBackup

(* What Cl_ParseFrame finds wrong with the base frame of a datagram. *)
DeltaError(m) ==
  LET base == cl_frames[Slot(m.delta)]
  IN  IF m.delta <= 0 THEN "none"
      ELSE IF ~base.valid THEN "Delta from invalid frame"
      ELSE IF base.frame_num # m.delta THEN "Delta frame too old"
      ELSE IF cl_entity_state - base.first > Reach
        THEN "Delta parse_entities too old"
      ELSE "none"

-----------------------------------------------------------------------------
(* Cl_ParseEntities walks through the entities of the datagram and those of *)
(* the base frame together, and stores into the ring the base is read from. *)

(* The least of some entity numbers, or the 0xffff that is beyond all.      *)
Least(numbers) == Min(numbers \cup {MaxEdicts})

(* The number of the base frame's entity at old_index.                      *)
OldNumber(base, ring, old) ==
  IF old < base.num THEN ring[(base.first + old) % EntityStateBackup].number
  ELSE MaxEdicts

(* Net_ReadDeltaEntity: a difference applied to some state.                 *)
Applied(change, from) == IF from = change.from THEN change.to ELSE Mixed

(* One entity: old_number, which was read when old_index came to it, is     *)
(* compared with the number read last.  Whatever state the ring has at      *)
(* old_index by now is copied, or changed; or the entity is left out; or a  *)
(* new one is made from its baseline.                                       *)
ParseEntity(base, entities, p) ==
  LET number  == Least(p.left)
      place   == (cl_entity_state + p.stored) % EntityStateBackup
      old     == p.ring[(base.first + p.old) % EntityStateBackup].state
      keeps   == p.number < number
      removes == ~keeps /\ number \in entities.removed
      entry   == IF keeps THEN [number |-> p.number, state |-> old]
                 ELSE [number |-> number,
                       state  |-> Applied(entities.updated[number],
                                          IF p.number = number THEN old ELSE Baseline)]
      ring    == IF removes THEN p.ring ELSE [p.ring EXCEPT ![place] = entry]
      passes  == removes \/ p.number <= number
      next    == IF passes THEN p.old + 1 ELSE p.old
  IN  [ring   |-> ring,
       stored |-> IF removes THEN p.stored ELSE p.stored + 1,
       old    |-> next,
       number |-> IF passes THEN OldNumber(base, ring, next) ELSE p.number,
       left   |-> IF keeps THEN p.left ELSE p.left \ {number}]

(* The ring, and how many entities were stored in it, when both the         *)
(* datagram and the base frame are at their ends.                           *)
ParseEntities(m) ==
  LET base  == IF m.delta <= 0 THEN NoFrame ELSE cl_frames[Slot(m.delta)]
      sent  == m.entities.removed \cup DOMAIN m.entities.updated
      turns == base.num + Cardinality(sent)
      Parsing[i \in 0 .. turns] ==
        IF i = 0
        THEN [ring |-> cl_entity_states, stored |-> 0, old |-> 0,
              number |-> OldNumber(base, cl_entity_states, 0), left |-> sent]
        ELSE LET p == Parsing[i - 1]
             IN  IF p.left = {} /\ p.number = MaxEdicts THEN p
                 ELSE ParseEntity(base, m.entities, p)
  IN  Parsing[turns]

(* The entity states the frame then has.                                    *)
Decoded(m) ==
  LET p == ParseEntities(m)
  IN  StatesAt(p.ring, EntityStateBackup, cl_entity_state, p.stored)

(* Cl_ParseFrame: the frame is rebuilt, and kept for later deltas.          *)
(* Datagrams that have become stale can have no effect and are forgotten.   *)
ParseFrame(m) ==
  /\ error = "none" /\ Later(m)
  /\ DeltaError(m) = "none"
  /\ LET p == ParseEntities(m)
     IN  /\ cl_entity_states' = p.ring
         /\ cl_entity_state' = cl_entity_state + p.stored
         /\ cl_frames' = [cl_frames EXCEPT ![Slot(m.frame_num)] =
                            [valid |-> TRUE, frame_num |-> m.frame_num,
                             first |-> cl_entity_state, num |-> p.stored]]
  /\ cl_frame' = m.frame_num
  /\ downlink' = {d \in downlink : d.frame_num > m.frame_num}
  /\ UNCHANGED <<world, server, uplink, error>>

(* Com_Error(ERR_DROP): the client leaves the server. *)
RefuseFrame(m) ==
  /\ error = "none" /\ Later(m)
  /\ DeltaError(m) # "none"
  /\ error' = DeltaError(m)
  /\ UNCHANGED <<world, server, downlink, uplink, cl_frame, cl_frames,
                 cl_entity_states, cl_entity_state>>

(* Cl_SendCmd: every movement datagram names the last frame received.  One  *)
(* the server already has from this client would change nothing.            *)
SendCmd ==
  /\ error = "none" /\ cl_frame > last_frame
  /\ uplink' = uplink \cup {cl_frame}
  /\ UNCHANGED <<world, server, downlink, client>>

(* CL_CMD_MOVE in Sv_ParseClientMessage.  What a client sends never         *)
(* decreases, so an overtaken datagram, which the channel drops, is one     *)
(* with a lower frame number.                                               *)
ParseMove(n) ==
  /\ n > last_frame
  /\ last_frame' = n
  /\ uplink' = {u \in uplink : u > n}
  /\ UNCHANGED <<world, frame_num, frames, entity_states, next_entity_state,
                 downlink, client>>

Next ==
  \/ SendClientDatagram
  \/ RateDrop
  \/ \E m \in downlink : ParseFrame(m)
  \/ \E m \in downlink : RefuseFrame(m)
  \/ SendCmd
  \/ \E n \in uplink : ParseMove(n)

Spec == Init /\ [][Next]_vars

-----------------------------------------------------------------------------
Numbers == UNION {DOMAIN world.seen[n] : n \in DOMAIN world.seen}

(* Every ring index is in its ring and no frame of the server counts more   *)
(* entities than there are.                                                 *)
TypeOK ==
  /\ world \in Worlds
  /\ frame_num \in 0 .. MaxFrames
  /\ last_frame \in -1 .. MaxFrames
  /\ DOMAIN frames = 0 .. PacketBackup - 1
  /\ \A s \in DOMAIN frames : frames[s].num \in 0 .. Cardinality(Numbers)
  /\ DOMAIN entity_states = 0 .. NumEntityStates - 1
  /\ next_entity_state \in Nat
  /\ \A m \in downlink : m.frame_num \in 1 .. MaxFrames /\ m.delta \in -1 .. MaxFrames
  /\ uplink \subseteq -1 .. MaxFrames
  /\ cl_frame \in -1 .. MaxFrames
  /\ DOMAIN cl_frames = 0 .. PacketBackup - 1
  /\ \A s \in DOMAIN cl_frames : cl_frames[s].num \in Nat
  /\ DOMAIN cl_entity_states = 0 .. EntityStateBackup - 1
  /\ cl_entity_state \in Nat

(* Some frame of this course references more entities than MAX_PACKET_ENTITIES. *)
Crowded ==
  \E n \in DOMAIN world.seen : Cardinality(DOMAIN world.seen[n]) > PacketEntities

(* No frame has more entities that an earlier one, which it may be encoded  *)
(* against, does not have than PACKET_BACKUP.  Each of them lets what       *)
(* Cl_ParseEntities stores come one entry closer, around the ring, to what  *)
(* it is still to read, and PACKET_BACKUP entries are all that the check    *)
(* for the base frame leaves between them.                                  *)
FewNewcomers ==
  \A a, b \in 1 .. MaxFrames :
    a < b /\ b - a < PacketBackup - 3 =>
      Cardinality(DOMAIN world.seen[b] \ DOMAIN world.seen[a]) <= PacketBackup

(* The courses in which no base frame is overwritten while it is read.      *)
ReadIntact == ~Crowded \/ FewNewcomers

(* While the server may still encode against a frame, what the frames of    *)
(* all clients take fits into its ring.  Nothing in the code sees to this:  *)
(* the size of the ring allows for MAX_PACKET_ENTITIES per frame and client. *)
RingSuffices ==
  \A n \in 1 .. MaxFrames :
    (PacketBackup - 3) * (Cardinality(DOMAIN world.seen[n]) + world.others[n])
      <= NumEntityStates

(* What the client has as the current frame is what it could see then,      *)
(* although each frame is stored over the oldest ones while it is decoded.  *)
(* Where there are both more entities than MAX_PACKET_ENTITIES and more     *)
(* newcomers than PACKET_BACKUP, it need not be (cl_entity.c:33).           *)
FrameFaithful ==
  ReadIntact /\ cl_frame > 0 => ClientStates(Slot(cl_frame)) = world.seen[cl_frame]

(* Whichever of the frame datagrams are lost or overtaken, and however late *)
(* the acknowledgements are, each one the client may still accept decodes   *)
(* to what was visible, from the backups the client has by then, but for    *)
(* the courses excepted above.  When the course is crowded it may be        *)
(* refused instead, for its entities only.                                  *)
EveryFrameUsable ==
  error = "none" =>
    \A m \in downlink : Later(m) =>
      \/ /\ DeltaError(m) = "none"
         /\ ReadIntact => Decoded(m) = world.seen[m.frame_num]
      \/ DeltaError(m) = "Delta parse_entities too old" /\ Crowded

(* No ERR_DROP of Cl_ParseFrame ever ends a session, unless the rings are   *)
(* too small for what is in sight; and even then only the check meant for   *)
(* that case does, never one of the frame numbers.                          *)
DroppedOnlyWhenCrowded ==
  \/ error = "none"
  \/ Crowded /\ error = "Delta parse_entities too old"

(* While the server would still encode against the frame the client named,  *)
(* neither its frame slot nor its ring entries have been reused.            *)
BaseIntact ==
  last_frame > 0 /\ ~TooOld => ServerStates(last_frame) = world.seen[last_frame]
=============================================================================
