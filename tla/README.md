# Verification of Quake2World

TLA+ models of the parts of Quake2World (`src/src/`) whose correctness is a matter of
order: messages that are lost, repeated or overtaken, rings that are overwritten while
something still points into them, threads that read each other's status. The rest of
the program - geometry, rendering, sound, the console - is numeric or presentational and
is listed below only to say so.

* [Inventory](#inventory) - [How the parts interact](#how-the-parts-interact)
* [The modules](#the-modules): [NetChan](#netchan), [FrameDelta](#framedelta), [UserCmds](#usercmds), [Session](#session), [ThreadPool](#threadpool),
  [Game](#game), [MasterServer](#masterserver), [Download](#download)
* [Runs and bounds](#runs-and-bounds) - [Fairness](#fairness) - [Proofs](#proofs)
* [What the checks found](#what-the-checks-found) - [Plan](#plan) - [Not modelled](#not-modelled)

## Inventory

| component | state | operations | what is hard | what makes it correct |
|---|---|---|---|---|
| Network channel `net_chan.c` | per end: sequence numbers in and out, two parity bits, the collected and the outstanding reliable message | `Netchan_Setup`, `Netchan_Transmit`, `Netchan_Process`, writes to `chan->message` | loss, repetition, overtaking; overflow; a loss of the message and a loss of its acknowledgement look the same | reliable commands arrive once, in order, none missing; nothing is released before it has arrived |
| Entity frames `server/sv_entity.c`, `sv_send.c`, `client/cl_entity.c` | frame ring and entity state ring at either end, `last_frame` | build, encode, rate-drop, parse, acknowledge | a base frame that was overwritten; frames the client missed; rings that wrap | what the client decodes is what the server saw; no session dies of a delta error |
| User commands `client/cl_cmd.c`, `cl_predict.c`, `server/sv_client.c` | ring of commands, last command per client, prediction base | send a command with two older ones, replay lost ones, predict | loss bursts; datagrams that are no movement; a base older than the acknowledgement | what the server runs is what was sent, as far as the copies reach |
| Connection `server/sv_main.c`, `sv_client.c`, `sv_init.c`, `client/cl_main.c`, `cl_parse.c` | challenges, client slots and their states, `cls.state`, spawn count, timers | challenge, connect, new, config strings, baselines, begin, disconnect, level change, timeouts | out-of-band datagrams that are lost, late or repeated; level change during connection | a client that keeps running becomes active; a slot has one client; commands of an old level do nothing |
| Downloads `sv_client.c`, `cl_parse.c`, `cl_http.c` | file, offset, percentage | download, next chunk, finish, abort | the last chunk; a disconnect in the middle | the file is complete when it is renamed; the exchange ends |
| Thread pool `thread.c` | status, function and mutex per thread | create, wait, init, shut down | status read without the mutex; signals before sleep | jobs run once, waits return, shutdown ends |
| Command buffer `cmd.c` | text, deferred text, wait flag | add, insert, execute, defer | overflow, a line without end | commands are executed in order, once |
| Managed memory `mem.c` | tree of blocks by tag | allocate, link, free, free by tag | a tag freed with children of another | no block used after it is freed |
| Game rules `game/default/g_main.c`, `g_commands.c` | match, round and warm-up times, votes | start, end, restart, vote | a restart while a countdown runs; clients leaving during a vote | the count of a vote is the votes cast; players of a team game have teams; nobody enters a running match or round |
| Capture the flag `game/default/g_item.c` | one flag per team: at base, carried, dropped | take, drop, return, capture | the many ways to lose a flag | a flag is in one place, and carried only by an enemy |
| Master server `master/main.c` | list of servers, heartbeat times, pings | heartbeat, ack, shutdown, ping, list | removal during iteration; lost heartbeats | who is listed has answered; only silent servers are dropped; dead ones go, living ones come back |
| Map compiler `tools/q2wmap/threads.c` | index of the next piece of work | get work, run | threads sharing the index | each piece is done once |
| Others: `cvar.c`, `net*.c`, `filesystem.c`, `cmodel.c`, `console.c`, renderer, sound, user interface, game physics, client game, artificial intelligence | | | no protocol | |

### How the parts interact

The server and each client run a frame loop on one thread. A frame reads the socket,
runs the game or the prediction, and sends. Out-of-band datagrams
(`Netchan_OutOfBand`) set a connection up; everything else goes through one
`net_chan_t` per end, which puts the outstanding reliable message in front of the
unreliable part (entity frames, movement, keepalives). The spawn sequence and downloads
are conversations over the reliable stream, so they rest on what NetChan shows of it:
first in, first out, nothing lost, nothing twice. Entity frames and movement commands
are unreliable and protect themselves by naming the last frame received and by repeating
older commands; they rest only on the channel dropping stale datagrams. The thread pool
is shared by the renderer, the sound loader and the map compiler; the main loop restarts
it when its size changes.

## The modules

| module | models | used by |
|---|---|---|
| `ReliableChannel` | what a channel promises in one direction: a stream that can only be cut off at an overflow | `NetChan` (refinement) |
| `NetChan` | `net_chan.c` at both ends of a connection and the network between | `MCNetChan`, `NetChanProofs` |
| `NetChanProofs` | theorems about `NetChan` | |
| `FrameDelta` | `sv_entity.c`, `sv_send.c`, `cl_entity.c`: frames, rings, deltas | `MCFrameDelta`, `FrameDeltaProofs` |
| `FrameDeltaProofs` | theorems about `FrameDelta` | |
| `UserCmds` | `cl_cmd.c`, `cl_predict.c`, `sv_client.c`: movement commands and prediction | `UserCmdsProofs` |
| `UserCmdsProofs` | theorems about `UserCmds` | |
| `Session` | `sv_main.c`, `sv_client.c`, `sv_init.c`, `cl_main.c`, `cl_parse.c`: connecting, the spawn sequence, level changes; its channels are those of `NetChan` | `SessionProofs` |
| `SessionProofs` | theorems about `Session` | |
| `JobService` | what the thread pool promises: jobs run once, waits do not return before | `ThreadPool` (refinement) |
| `ThreadPool` | `thread.c` and its callers | `MCThreadPool`, `ThreadPoolProofs` |
| `ThreadPoolProofs` | theorems about `ThreadPool` | |
| `GamePlayers` | `g_client.c`, `g_commands.c`, `g_item.c`: clients, teams, flags | `GameRules` |
| `GameRules` | `g_main.c`, `g_commands.c`: votes, matches, rounds, restarts, the frame of the game | `Game` |
| `Game` | the game module as the server drives it, and its properties | `MCGame`, `GameProofs` |
| `GameProofs` | theorems about `Game` | |
| `MasterServer` | `master/main.c`, and the heartbeats of `sv_main.c` | `ServicesProofs` |
| `Download` | `sv_client.c`, `cl_parse.c`, `cl_http.c`: downloads | `ServicesProofs` |
| `ServicesProofs` | theorems about `MasterServer` and about `Download`, whose definitions have names of their own (`DownloadSpec`, `DownloadTypeOK`) for that | |
| `Lists` | taking elements out of a list (`g_list_remove`; commands that do nothing) | `MasterServer`, `UserCmds` |
| `ListsProofs` | lemmas about `Lists`, induction, least and greatest numbers | the other proofs |

The `MC` modules give the constants their small values; those of `UserCmds`, `Session`,
`MasterServer` and `Download` are numbers and truth values and stand in their `.cfg` files.

### NetChan

The variables are the members of `net_chan_t` by their own names, as functions of the
endpoint; `message` is `chan->message` (what is written and not yet sent), `reliable` is
`chan->reliable_buffer`. `net[e]` holds the datagrams that may still reach `e`.

* `Write` is `Mem_WriteBuffer` into `chan->message`. That buffer allows overflow: what
  no longer fits clears the buffer first.
* `Transmit` is `Netchan_Transmit` after its overflow check, `TransmitOverflowed` the
  early return of that check. `NeedReliable` is `Netchan_NeedReliable`, split into its two
  reasons.
* `Receive` is a datagram arriving in `Cl_ReadPackets` or `Sv_ReadPackets` and
  `Netchan_Process`. A datagram may be received again when `Repeats` is set; one that is never received is
  lost. `Lose` is a loss the network decides on; the liveness run needs it, as there
  a datagram that is left alone will arrive.
* Stale datagrams are removed from `net` as soon as they are stale: receiving one changes
  nothing, in the code as in the model.

`written` and `delivered` are history: what was given to one end, what came out of the
other. A datagram's unreliable part is not there: it is acted on exactly when the
datagram is accepted.

The properties:

* `UpstreamReliable`, `DownstreamReliable`: each direction implements
  `ReliableChannel` - what is delivered is always a prefix of what was written, until an
  overflow, after which nothing more of it is sent.
* `StreamIntact`: accepted, staged and collected commands are together what was written.
* `OneCopyAcceptable`: of all reliable datagrams under way, those that would be accepted
  carry one and the same message. The receiver's only test is the sequence number, so
  all of exactly-once delivery hangs on this.
* `ReleasedOnceAccepted`: an action property - the sender forgets a reliable message only
  when the receiver has had it.
* `ParitySound`: the inductive invariant behind these (see [Proofs](#proofs)).
* `EventuallyDelivered`: a written command is delivered, or its buffer overflowed.

### FrameDelta

One client of several. The game takes one of the courses in `Worlds`: what the client
can see in each frame, and how many entries the other clients' frames take in the
server's shared ring. `SendClientDatagram` builds and encodes a frame, `RateDrop` is a
frame in which the client gets nothing; `ParseFrame` and `RefuseFrame` are the two
outcomes of `Cl_ParseFrame`; `SendCmd` and `ParseMove` carry `last_frame` back. The
rings are real: entries are overwritten, and a frame is read back through its index.

The client decodes a frame entity by entity into the ring the base frame is read from.
`ParseEntity` is one turn of the loops in `Cl_ParseEntities` with the `Cl_ParseDeltaEntity` it
calls: it compares the next number of the datagram (`Least`) with `old_number`, which was read when `old_index` came to it, and
stores what it makes of the state the ring has at `old_index` *by then*. `ParseEntities` takes the turns until both are
at their ends; `Decoded` is what the frame has afterwards. A difference applied to another state than it was taken
from gives `Mixed`.

The check in `Cl_ParseFrame` (`Reach`: a distance of at most `ENTITY_STATE_BACKUP - PACKET_BACKUP`) leaves the
store `PACKET_BACKUP` entries, 32, before it comes round to what is still to be read, and every entity that is new brings it one
entry closer. A frame may have 64 entities or more. As long as no frame has more than `MAX_PACKET_ENTITIES`, an accepted base is
young enough to leave more room than that (`Followable` in the proofs). In a crowded course with more than `PACKET_BACKUP`
newcomers in a frame (not `ReadIntact`), a base state may be overwritten before it is read, and the client is shown a
wrong frame: `FrameFaithful` and `EveryFrameUsable` except these courses, and need to. The run has such a course, `Overrunning`, for everything
else that is claimed.

`Stored` is the loop over the edicts in order of number: an entity goes to the place
that the number of visible entities before it (`Rank`) gives it.

Nothing in the code limits what the frames of all clients take of the server's ring; `RingSuffices` says
of a course of the game that they take no more than the ring has while the server may still encode against a frame. It does
whenever nobody sees more than `MAX_PACKET_ENTITIES`, and the run's courses all have it, the crowded ones too.

* `FrameFaithful`: the client's current frame is what the server saw, if `ReadIntact`.
* `EveryFrameUsable`: every datagram under way that is not stale can be parsed, or is refused in a crowd for its
  entities; and it would decode to what the server saw, if `ReadIntact` - whatever is lost, however old the acknowledgement.
* `BaseIntact`: as long as the server encodes against the acknowledged frame, its own
  copy of that frame has not been reused, other clients' entries included.
* `DroppedOnlyWhenCrowded`: the checks in `Cl_ParseFrame` never end a session unless
  more entities are in sight than the rings are meant for.

### UserCmds

The client collects what the player does into the command of the current slot
(`Cl_UpdateCmd`), predicts, and in some frames sends; a datagram carries the command and
its two predecessors. A command is the set of frames whose input is in it, and the
state of a player is the sequence of commands run, so that two states are equal exactly when the
same was done in the same order: `Pm_Move` is a function of the two, and which one does
not matter here. `PacketFrame`, `RenderFrame` and `UserInfoFrame` are the three ways through
`Cl_Frame`, in its order: input, prediction, sending. `ParseMove` is `CL_CMD_MOVE` with
the replay of what was lost; `SendClientDatagram` sends the player's state back, in
one datagram or, when the sounds do not fit, followed by a second one without a frame.

Two history variables stand beside the state: `accepted`, the datagrams of the client
that arrived, and `disturbed`, set when a command was sent without having been
predicted (`UserInfoFrame`, or a ring that is used up) or a frame took two datagrams.

* `RunAsSent`: the server has run what was sent, once and in order: the command itself
  if one of its three copies arrived, what it had last if not, and nothing in a loss of
  `MaxReplay` datagrams or more. `Ran(n)` says which of these is due for the datagram `n`.
* `NeverRunAgain`: prediction never runs a command that is already in the frame it
  starts from.
* `PredictionSound`: unless disturbed, the frame received is what was predicted for the
  command it acknowledges, except for what the server had to invent.

That `disturbed` is needed is a defect: when a frame's sounds take a second datagram and the first one is
lost, the commands between the two are neither in the frame nor run on top of it, although the comment of
`Cl_PredictMovement` presumes that what is acknowledged is in the frame.

### Session

One client and the slot the server has for its address. `cls_state` and `sv_state` are
`cls.state` and `client->state`; `data` is what the client has of a level, `cbuf` the texts the
server put into its command buffer, which it executes at the start of the next frame.
`wire[e]` is a first-in first-out line that may lose any of its datagrams; what a network
that overtakes and repeats does to a channel is the subject of NetChan. Unlike there, a channel may
here be set up again, at one end before the other, while datagrams of its former life
are under way.

The channels are those of NetChan: each is a record of the members of `net_chan_t`, and
`NC(c)` is NetChan with the members of `c` for its variables, so that parity, staging and
retransmission are NetChan's own operators (`CanStage`, `NeedReliable`, `Datagram`, `AfterAck`,
`Fresh`). One action is one call: what `Cl_ReadPackets` or `Sv_ReadPackets` does with a datagram, with all the
reliable commands in it, their answers included; one step of the client's frame with
`Cbuf_Execute` of the next. The spawn sequence

    new -> server data -> part 1 .. Parts -> precache -> begin

stands for `new`, `config_strings` and `baselines` with their offsets, `precache`, `begin`; the
spawn count is the number of the level. Timeouts have no clock: `Cl_Disconnect` and `Sv_DropClient`
may happen at any time, `Cl_CheckForResend` as often as `MaxRequests` says. The three copies of a
disconnect are one, as all three may be lost.

* `FramesOfTheLevel`: a frame the client will accept finds it with the whole level it is of.
* `SpawnedWithLevel`: client and slot agree on the level once both are in the game.
* `NeverKicked`: an obedient client never begins twice, so it is not kicked for it.
* `NobodyForgotten`: when nothing is left to be sent, no slot is still waiting for a client
  that thinks it is connected. This is where a conversation driven by answers gets
  stuck, and the only property that sees it: both ends are alive and content.

Three constants say what the network and the user do.

* With `ReconnectArrives = FALSE` the network may lose the message of a level change as well
  (`session_levelchange`); `NobodyForgotten` needs that it does not.
* With `Known = TRUE` the server remembers the client's address, with the challenge zero it keeps after a connect, and
  every connect of this client names that zero and is taken. The properties hold with it and without.
* With `Patient = TRUE` attempts to connect do not overlap: when the client asks for a challenge, nothing of an
  earlier attempt (a request, a challenge, a connect, its answer) is under way any more. The code asks again after three
  seconds (`Cl_CheckForResend`), so this says that datagrams are not under way for longer than that, nor for as long as a user takes who
  disconnects and connects again. Nothing but the type invariant is claimed of a client that is not patient: `NeverKicked` and `NobodyForgotten` fail
  there, as the [proofs found](#what-the-proofs-found); of the other two it is open. That is a matter of `NetChanReconnect` in the plan.

### ThreadPool

Every statement of `Thread_Run`, `Thread_Create_` and `Thread_Wait` between which another
thread can intervene is an action. `Forget` and `Publish`, the two stores after a job,
may happen in either order, as neither is volatile or followed by a barrier. Jobs may
wait for other jobs, as in `tests/check_thread.c`. A condition variable may wake up for
no reason and a signal with nobody asleep is lost.

* `JobsServed`: refinement of `JobService`.
* `HandlesExclusive`: a thread is not given away again, nor reset, while somebody holds
  its handle.
* `EveryJobRuns`, `EveryWaitReturns`: no signal is missed while the pool is up.

### Game

The rules of the default game change the same few things from many places: a client may be
made a spectator, a player, or a member of another team by its own command, by the end of a
round, by a restart somebody voted for, by the administrator, or by dying in an arena, and each of
these may have to do something about the flag it carries. So the handlers are operators from *worlds* (records
of all variables) to worlds, composed as the code calls them; an action of `Game` is one call from the
server, with everything the call does.

* A client's record is what `G_ClientRespawn` keeps or resets: `client_persistent_t`, and whether
  it is dead. A slot is free, `connecting` (also after a change of level), or `in_use`.
* `base[t]` says whether the flag of team `t` is shown at its base, `dropped[t]` holds the entities of
  dropped ones. Flags are taken, tossed, landed, returned and captured as in `g_item.c`; a toss may be `stuck`, where
  `G_DropItem` finds no room and returns the flag at once.
* `GFrame` is `G_Frame`: time advances, the dead respawn, and then the vote, the rules, the end of the match, the start and
  the end of the round, in this order. What depends on scores, clocks and geometry - a limit that is reached, a shot under
  way, a click - is chosen freely.
* `match_time` and `round_time` count the frames left, 0 being "running" and `Unset` the zero of the code.
* `server` is what a server may be configured to; `MCGame` lists the eight kinds of games that are checked,
  and what the administrator may change in each.

Properties:

* `FlagsInOnePlace`: a flag is never in two places, and where the server may have neither match nor rounds always in one. With them it
  may be lost until the next restart: the dead keep their flag in warmup and lose it by respawning, and so do carriers when a match or a
  round starts. `May(name)` says which of the variables may be set, now or after a change by the administrator; that `match` is not set
  *now* is not enough, see [below](#what-the-proofs-found).
* `CarriedByEnemy`: who carries a flag plays for the other team; `G_TossFlag` looks for no other, so a carrier who got to another side could
  not lose it.
* `PlayersHaveTeams`: in a team game each player has a team, which `G_CheckRoundEnd` and `G_Ready_f` rely on when
  they count everybody who is not good as evil, and no spectator has one.
* `NoLateEntry`: nobody enters a running match or round, by any of the ways above. It and `PlayersHaveTeams` hold of servers that may not
  be set to both `match` and `rounds` (and the latter not to both `ctf` and `rounds`), as all that are checked.
* `VotesCounted`: the counters of a vote are the votes of those present and of those who have left; the exception is named: votes
  that the end of a level cut short.

Noticed on the way: `round_num` is not counted up when a round ends, so `round_limit` is not reached by playing rounds, and those who
watch by choice, whose `round_num` is zero, are put into the next round although the comment at `g_main.c:424` means to skip
them; `G_RestartGame` leaves `start_match` armed, so that everybody is respawned once more and loses what flag it has taken in between; the votes of clients who are not
in use when a level is spawned are not reset, so they cannot vote in the next one until somebody else's vote is over; and
with `ctf` and rounds together, teams are not counted and the team of the winner is looked up without a test, so that combination
is not among the games.

### MasterServer

`ms_servers` is the list in its order, `entry` the `ms_server_t` of each server with its times as ages, `next_heartbeat` a
server's clock. Datagrams form a set: they are lost and overtake each other. The main loop handles one datagram, or waits out a unit of
time (`Tick`), and then lets `Ms_Frame` look at every server; dropping a server frees the link the loop is about to follow, so the
loop may end there (`Ends`). Servers start, change levels, end with or without a word, and name the master anew; the master may be
restarted, and then knows nobody. A server that is not `Reachable` can send but is not reached by pings.

* `ListedAnswered`: whom `Ms_GetServers` names has answered a ping at some time; a heartbeat is not enough, nor is a registration. It may have been before the master
  was restarted, or for an earlier registration: `Ms_Ack` takes any answer, however late.
* `DroppedOnlyUnheard`: the master gives a server up only while its last heartbeat is overdue, in a moment in which none comes in, and after it has answered
  nothing for as long as all the pings take that may be queued. Not that the heartbeat has been overdue for so long: the count of pings is reset by answers
  but not by heartbeats, so the unanswered pings of several silences add up, and a server whose answers are lost each time is dropped at the beginning of
  a silence. `Silence < Interval` has the master ping every server between two heartbeats. (A server that sent heartbeats more often than every 30 s would never be pinged, nor listed.)
* `GoneForgotten`: who has ended does not stay registered for ever.
* `AliveListed`: who goes on is listed time and again, though the master may drop it in between.

### Download

One file that the server has or has not, and the client's copies of it under the temporary and the proper name. A
file is a sequence of numbered bytes, so that a byte in the wrong place shows. `up` and `down` are the commands under way in the reliable
stream, which NetChan shows to be delivered once and in order; at a disconnect they are gone. `Kill` ends the client program: what it had
written comes to the disk in part.

* `FileWhole`: what gets the proper name is the file of the server, however often it was interrupted, resumed, or begun over HTTP.
  (That the proper name may lose its file to a failed HTTP transfer, or a finished one not get it, it does not forbid.) It holds by two wrongs: a resumed download writes from the last byte on but asks for what follows it, so the
  file is damaged and a byte short, but then its last chunk is never labelled with 100 percent and it is not renamed.
* `RenamedWhenDone`: does not hold, see [below](#what-the-checks-found).

Further, as modelled: a file that HTTP has transferred is not renamed, as its name is cleared before; the error leaves
`ready` unset, so HTTP is not tried again. A failed HTTP transfer deletes the proper name instead of the temporary one. A server does not
answer a request for an empty file. What goes under the proper name in the end is a temporary file that was complete when it was asked for again.

## Runs and bounds

| run | expects | shows | bounds |
|---|---|---|---|
| `netchan_safety` | pass | the safety of the channel | client 5 datagrams and 3 commands, server 2 and 1, buffer of 2: enough to send, lose, learn of it, send again, and overflow |
| `netchan_liveness` | pass | retransmission works | one command, 2 losses, 15 datagrams per end; a behaviour that has used up its datagrams before they could repair the loss is not asked for delivery (`Repair`) |
| `framedelta_safety` | pass | frames, with as many entities as allowed for and with more, stored over the ring they are decoded from | rings of 6 frames and of 42 and 84 states, 7 frames, of two clients: all wrap; where 7 entities are allowed for, a course with 7 that are all new in every frame, and two with 18 or 19 that at times have 6 or 7 new ones ahead of them: as many as `PACKET_BACKUP`, and one more |
| `usercmds_safety` | pass | commands and prediction | ring of 4, replay of up to 3 (`MaxReplay` 4), 4 commands, 3 frames: a loss of one, two, three and four datagrams, the last one given up, and a ring that is used up |
| `session_safety` | pass | connecting, level change, disconnect, drop, of a patient client that the server may know already | one part, 2 levels, 2 requests for a challenge, one disconnect, one drop, 4 datagrams of an end until its channel is set up again, 3 under way: both ends get into the second level, before or after the first |
| `session_levelchange` | violation | a lost reconnect strands the client | as safety, for a client the server does not know, patient or not |
| `threadpool_jobs` | pass | jobs and handles; nothing gets stuck while the pool is up | 2 threads, 3 jobs, pool started twice |
| `threadpool_shutdown` | violation | shutdown can hang | 1 thread, 1 job |
| `game_safety` | pass | clients, flags, matches, rounds and votes | eight kinds of games, two or three slots, one restart during a match or round, a countdown of two frames, a vote of one, 4 votes cast |
| `master_servers` | pass | the list of servers | two servers, one of them unreachable; heartbeat every 2 units of time, pings after 1, dropped after 1 unanswered; 3 starts, ends, commands or restarts of the master |
| `download_file` | pass | what is renamed is the file | files of 0, 1, 2, 3, 5 and 7 bytes or none, chunks of 3, error texts of up to 8 |
| `download_renamed` | violation | a complete download is not renamed | 3 bytes, chunks of 2 |

`PACKET_BACKUP` is 32 in the code and 6 here, which keeps its relation to the
`- 3` in `Sv_WriteFrame`: a base may be up to two frames old. `MAX_PACKET_ENTITIES` is 64 and 7, more than `PACKET_BACKUP` in both, so that
a frame may have more newcomers than the check leaves room for, in a crowded course and in one that is not. Two frames of 18 take just
as much as the check allows a base to be old (`Reach`), and one of 18 and one of 19 too much. `CMD_BACKUP` is 64 and the limit of the replay 20 in the code; 4 and 4
keep every case of either apart. The parity argument of the channel involves the last reliable
send and the datagrams after it only; five datagrams let two reliable messages be
sent, one of them twice. The proofs hold for any number.

In Game three slots let two players of one team meet one of the other; the times of the code (10 s, 30 s) are one or two
frames, as only their order to other events matters; the countdown is two, so that something can happen while it is under way. In MasterServer the real times (300, 30, 10 s, 6 pings) keep the order `PingGap < Silence < Interval`; the small ones
let pings and heartbeats interleave within few steps. In Download sizes below, at and above one and two chunks cover each case of the
last chunk; an error text longer than the file covers a temporary file that is.

`CHECK_DEADLOCK FALSE` in the runs: bounded counters run out in NetChan, FrameDelta, UserCmds and Session, and
a stopped thread pool may stay stopped. Game, MasterServer and Download never stop.

## Fairness

* NetChan: weak fairness of `Transmit` and `Receive` at each end. Both ends
  send in every frame or at least a keepalive every second (`Sv_SendClientMessages`,
  `Cl_SendCmd`), and each frame reads everything the socket has. Nothing
  is assumed of `Write`.
* ThreadPool: weak fairness of each thread and of the calls the main thread has begun;
  strong fairness of `LockIdle`, as a thread that keeps waking up for no reason takes its
  mutex again and again. Which calls the main thread makes is not assumed.
* MasterServer: weak fairness of time and of the servers' loops; strong fairness of the arrival of heartbeats at the master and of
  pings at a server, and of answers while the master still has the server: of datagrams that are sent again and again some arrive, and some in
  time. Nothing is assumed of datagrams to or from a server that is not reachable.
* Download: weak fairness of reading what the connection delivers (for `RenamedWhenDone` only).
* Game has no liveness property: whether anything starts is up to the players.
* FrameDelta and UserCmds have no liveness property: nothing is promised when datagrams
  may be lost. What Session promises in the end is stated as `NobodyForgotten`, of states
  in which nothing is left to happen, and needs no fairness.

## Proofs

Each theorem holds for every value of the constants that the module's own assumptions allow; the assumptions are about sizes,
and each is one that the code's numbers meet. Each module of proofs begins with its inductive invariant and has one lemma per
action, then the theorems.

| module | theorem | property |
|---|---|---|
| `NetChanProofs` | `TypeCorrect` | `TypeOK` |
| | `ParityCorrect` | `ParitySound` |
| | `OneCopy` | `OneCopyAcceptable` |
| | `ReleaseSafe` | `ReleasedOnceAccepted` |
| | `StreamsIntact` | `StreamIntact` |
| | `UpstreamImplements`, `DownstreamImplements` | `UpstreamReliable`, `DownstreamReliable` |
| `ThreadPoolProofs` | `TypeCorrect` | `TypeOK` |
| | `HandlesStayExclusive` | `HandlesExclusive` |
| | `PoolServes` | `JobsServed` |
| `FrameDeltaProofs` | `TypeCorrect` | `TypeOK`, in any course |
| | `BasesStayIntact`, `FramesStayUsable`, `FramesAreFaithful`, `DropsNeedACrowd` | `BaseIntact`, `EveryFrameUsable`, `FrameFaithful`, `DroppedOnlyWhenCrowded`, in courses with `RingSuffices`; the second and the third except if both crowded and with more than `PACKET_BACKUP` newcomers in a frame (`ReadIntact`) |
| `UserCmdsProofs` | `TypeCorrect` | `TypeOK` |
| | `CommandsRunAsSent` | `RunAsSent` |
| | `NothingRunAgain` | `NeverRunAgain` |
| | `PredictionIsSound` | `PredictionSound` |
| `SessionProofs` | `SessionTypes` | `TypeOK`, patient or not |
| | `SessionNeverKicked`, `SessionFrames`, `SessionSpawned` | `NeverKicked`, `FramesOfTheLevel`, `SpawnedWithLevel`, if `Patient` |
| | `SessionNobodyForgotten` | `NobodyForgotten`, if `Patient` and `ReconnectArrives` |
| `ServicesProofs`, of `MasterServer` | `TypeCorrect` | `TypeOK` |
| | `ListedHaveAnswered` | `ListedAnswered` |
| | `UnheardAreDropped` | `DroppedOnlyUnheard` |
| `ServicesProofs`, of `Download` | `DownloadTypes` | `DownloadTypeOK` |
| | `FileStaysWhole` | `FileWhole` |
| `GameProofs` | `GameTypes` | `TypeOK` |
| | `GameCarriers` | `CarriedByEnemy` |
| | `GameFlags` | `FlagsInOnePlace` |
| | `GameVotes` | `VotesCounted` |
| | `GameTeams` | `PlayersHaveTeams`, if not both `match` and `rounds`, nor both `ctf` and `rounds`, may be set |
| | `GameEntry` | `NoLateEntry`, if not both `match` and `rounds` may be set |

### How they go

**NetChan**, for any set of commands, any buffer size, any number of datagrams
and any number in transit. The inductive invariant is `TypeOK /\ ParitySound`. For each endpoint `ParitySound` says
that sequence numbers are ordered (`Sequenced`); that every reliable datagram the
peer would still accept carries the message that is outstanding now, and that its
parity is that of the messages staged (`CopiesCurrent`); that every datagram from the
peer which would still be accepted, acknowledges a parity its sender really had when
the datagram it acknowledges was the last received (`AcksTruthful`); and the same of the
acknowledgement received last (`LastAckTruthful`). The last two are why
`RemoteDropped` is right: an acknowledgement past the last reliable send, with
the other parity, can come only from a receiver that will never accept the
earlier copies. `OneCopyAcceptable` says nothing of acknowledgements and is not
inductive without them. The stream properties then follow from one more invariant,
which relates what is written to what is delivered, staged and collected, by a lemma per
operation (`WriteStream`, `TransmitStream`, `ProcessStream`).

**ThreadPool**, for any number of threads and jobs. The invariant follows a job through its life: who holds which mutex
(`Locked`), that a running thread has a job of its own until it has run it (`OwnJob`), that a handle passed on to a later job is not
waited for before that one begins (`PassedOn`), and what the main thread has in hand (`MainBusy`). `HandlesExclusive` alone is
not inductive: that the status `Thread_Wait` resets without the mutex is that of a finished thread follows only
from `Locked` and `OwnJob`. The refinement maps a job to what `JobService` knows of it; each step is one of its steps or a stutter, and
only the end of a job and the return of a wait are not obviously so.

**FrameDelta**, for rings of any size, any number of clients and any course. `ServerHas(n)` says that the server's slot and ring still hold
frame `n` as it was and how far the ring has gone since; `ClientHas(n)` the same of the client. The invariant claims `ServerHas` of
every frame that anything under way may still name to the server (`SentOK`) and `ClientHas` of every frame that anything under way is encoded
against (`ReceivedOK`), within the windows that `TooOld` and the client's own checks look at. That a frame is still there when it is read is then
arithmetic on ring positions: fewer than `PACKET_BACKUP - 3` frames have passed, each of which takes its share of the ring at most. `EveryFrameUsable`
is not inductive itself, as it does not speak of acknowledgements under way, which choose the next base. That the decoding gives what was seen is an induction
over the turns of `ParseEntities` (`Sofar`, `SofarFirst`, `SofarNext`): what has been stored is the entities of the new frame up to the last number, in their
places, and the base entries still to be read are as they were. The latter holds because there is room for the newcomers between the store and the
reads (`CanFollow`, `Followable`): in a course that is not crowded since the base is young, in a crowded one because of `Reach` and `FewNewcomers` (`UncrowdedRoom`).

**UserCmds**, for any ring, any bound on the replay, any number of datagrams and frames. What is in the ring, in a datagram and in a frame is
given by the history of commands sent (`RingOK`, `UplinkOK`, `DownlinkOK`), and `Result(n)`, the state that the first `n` commands lead to,
stands for every state while nothing is invented or disturbed (`ForesightOK`): in the frame received, in those under way, and as foreseen. `WindowOK` adds
that the ring then always reaches back to the last acknowledgement, without which `PredictionSound` does not follow.
`RunAsSent` is inductive together with `AcceptedOK`, by three cases of a loss: up to two datagrams, whose copies arrive, more than that, and
more than are made up for (`ReplayedIsDue`).

**Session**, for any number of parts, levels, datagrams, requests, disconnects, drops and datagrams under way, and whether or not the server knows the
client. None of the four properties is inductive, nor are they together: each hangs on the reliable stream, and what that delivers hangs on where a
client and a slot are in their conversation, which may begin again at any time at either end. The invariant `SessionInv` has these parts:

* `Small`: a client has one command to say at the most, in its buffer, as a text still to be executed, or in a datagram. That is why the
  server never has two answers to give, and also why the limit of eight commands in a datagram (`CMD_MAX_STRINGS`), which is not modelled, is never met.
* `Attempt`: one datagram of an attempt to connect is under way at the most, and nothing of the channel before is behind it. This is what
  `Patient` is for; it is the only place where it is used.
* `Mode`: the slot is in one of three situations. `Abandoned`: it is free, and what is still under way from it, or to it, leads a client
  at most into a game it will time out of (`Orphaned`). `Disengaged`: it has been given to a client that has lost the answer, or has
  left. `Synced`: there is one conversation, and then
  * `Sound`, once for each direction: the two ends' parities, sequence numbers and acknowledgements belong together. This is
    `ParitySound` of NetChan for a channel that was set up at the server first and whose client has perhaps not yet set up its end;
  * `Token`: at any moment one command, one answer or one text is under way, or none, in however many datagrams it has been sent, and
    what it asks for or brings is what the client lacks next. `Undelivered` says when a message counts as under way: when the other end
    has not accepted it, which only the parities tell;
  * `Agreed`: once the slot is in the game or a frame is under way, nothing of the spawn sequence is; the frame finds the whole level; and
    a slot that is connecting has something under way, or the reconnect message, which is what `NobodyForgotten` says when all is quiet.

The proof goes by action, and in each by situation: what a loss, a transmission and an arrival do to `Sound` (`Netchan_Process` is the long one: an
acknowledgement that comes late must not release what has not arrived), what one reliable message does to the
token (the command of a former level, which `Stale` discards, as much as the expected one), then what the unreliable part of the same datagram does.
That a datagram with several reliable commands is handled command by command is a recursive function in the model (`ParseServerCommands`), and
as an answer has two commands at most, two steps of it are all the proof needs. `NeverKicked` falls out of `Agreed`: when a
`begin` is the token, the slot is not in the game.

**MasterServer**, for any servers and any of the times. `PingsOK` is the point: while pings are queued, the server has been unheard for as
long as they have waited, so a full queue means a long silence. The list has each server once (`ListOK`), without which dropping a
server would not free its entry; an answer under way is of a server that answered (`AnswersOK`). That a heartbeat saves a server is a matter of the step alone: `Ms_Frame` looks
at the entries after the message.

**Download**, for any sizes. During a download over the connection either the open file agrees with what the server has sent, or, after it was resumed,
it is one byte behind (`OneBehind`) and remains so to the end, where the server's percentage stays below 100. So the rename happens only in the first case.

**Game**, for any number of clients, any settings of a server and any changes of them, any countdown. The actions are compositions of operators
from worlds to worlds, and so is the proof: the invariant `Inv` is one of worlds, each operator has a lemma that says what it leaves alone and
that it keeps `Inv`, and a frame is kept by keeping it through its parts (`Keeps`, `KeepsOn`). The parts of `Inv`:

* `EachOK`: a client with a flag is a player of the other team in a game of ctf; nobody was counted to a match or round still to come
  (`NumOK`), by which a restart knows who plays; where neither match nor rounds may be set, the dead have no flag.
* `OnePlace` and `Somewhere` are `FlagsInOnePlace` without counting.
* `LevelOK`: what counts down, runs or is armed is a match or round the settings allow. `start_match` may be armed
  when `match` is not set, so it speaks of what may be set.
* `VoteOK`: `VotesCounted`, and that nobody outside the game has a vote that is not stale. Without it a client that begins would
  bring a vote nobody counted.

None of the properties is inductive by itself; even the age of a vote in `TypeOK` needs that a vote in progress is one the server allows. Two loops, over the clients of `G_RestartGame` and of `G_CheckRoundLimit`, are recursive functions; that such
a function exists is shown by induction (`LoopExists`), and then that each client is changed by its own step only (`LoopIs`), as a step looks at the others
only to choose a team. `Keeps` carries `NoLateEntry` through the parts of a frame: what runs after a part ran before it, and nobody has entered (`Enters`).
That `OneContest`, the condition, is kept is part of it too: a toggle changes only what may be changed.

Some definitions are written as they are because of the proofs: `ParseServerCommands`, `ParseClientCommands` and `ExecutedAll` of Session are recursive functions in place of the library's folds. `Without` replaces the library's `SelectSeq`, which takes an operator
and cannot be reasoned about; the facts about it are shown by induction over the places of a list, in the form of a set of numbers that contains
zero and with each number the next (`Induct`), which needs no operator as a parameter. `Rank` replaces a sort of the visible entities. The loops of Game are recursive functions for the same reason.

### What the proofs found

Where a proof did not go through for a reason:

* In `Download` the temporary file may grow past the file at the server: an error text of HTTP can be longer. `TypeOK` had bounded
  it too tightly, and the run's sizes did not show it.
* `EveryFrameUsable` needs `PACKET_BACKUP <= 4 * MAX_PACKET_ENTITIES`: the client's check refuses frames that are
  `ENTITY_STATE_BACKUP - PACKET_BACKUP` entries old although they are still there, which is harmless only if the frames the server
  may name are younger. With 32 and 64 they are, in courses that are not crowded.
* The server's ring is overwritten under a base frame in a course that is crowded for all clients (not `RingSuffices`); the server has no
  check like that of the client.
* `FlagsInOnePlace` said that a flag is not lost while neither match nor rounds are set. It is, if `match` has been unset during the countdown: the restart
  clears `match_time` but leaves `start_match` armed, so everybody is respawned in the next frame (`g_main.c:600`), and a flag taken before that
  is gone. The run had a countdown of one frame and could not show it; it has two now, and the property says what holds.
* `NeverKicked` had only held within the bounds of the run, and `NobodyForgotten` only for a client the server did not know. The invariant could
  not be shown across a connect that meets a conversation, and the model checker, asked for that, found in forty steps, with a client that
  has been connected before: it asks for a challenge twice and both times gets the zero that is kept for its address, so it sends two connects. The server takes the first and sends three keepalives. The client sets up its end, acknowledges the
  third, and sends `new`. The second connect arrives first (`sv_main.c:249` takes it, as the challenge is still zero) and the server sets its end up
  again. Then comes `new`, which acknowledges the third datagram of a channel that has not sent one: the server takes its answer for lost whenever it
  looks, and sends it again while the first copy can still be accepted. The user disconnects, the disconnect is lost, and the answer to the second connect, which is
  accepted in any state but `CL_CONNECTED` (`cl_main.c:369`), has the client set up its end anew, so that it accepts the
  answer twice. It begins twice, and `Sv_Begin_f` kicks it for "duplicate spawns" (`sv_client.c:165`). That takes more datagrams than the run allows for, so no run shows it; the constant `Patient`
  is the condition under which the properties hold.
* `NoLateEntry` and `PlayersHaveTeams` need their conditions: with `match` and `rounds` both set by the administrator, a restart looks only at the number of the match
  when it seats clients, and `G_CheckRoundLimit` puts clients into a game whose match is running.

### Only model-checked

* Liveness (`EventuallyDelivered`, `EveryJobRuns`, `EveryWaitReturns`, `GoneForgotten`, `AliveListed`): the prover has no rule
  for fairness and `ENABLED`.
* That the counterexamples of the three violations are there is for the model checker to show; each of the properties that the passing runs
  check as an invariant is proved, under the conditions in the table.

## What the checks found

* The reconnect of a level change is one unreliable datagram. A client that misses it stays
  connected to a slot that waits for it to begin, and each keeps the other from timing out
  (`session_levelchange`).
* `Thread_Shutdown` can miss its own wake-up and hang (`threadpool_shutdown`).
* The last chunk of a download is labelled with less than 100 percent, so the file is complete but never renamed, and the client waits for
  more (`download_renamed`).

Read off the models, without a run of their own:

* `last_reliable_sequence` is one more than what its comment says, so a retransmission starts one acknowledgement late. It does no harm
  to the reliability: all of the above is proved with it.
* A frame with more than 32 new entities may be decoded wrongly when there are more than 64 in sight: `Cl_ParseDeltaEntity` (`cl_entity.c:33`) stores into the ring
  ahead of what is still to be read from it, and the check at `cl_entity.c:304` leaves 32 entries between them, not the size of a frame ([FrameDelta](#framedelta)). Without the
  exception of `ReadIntact`, the run finds it in the course `Overrunning`.
* Prediction leaves out commands when the datagram that follows a frame's is acknowledged and the frame is lost ([UserCmds](#usercmds)).
* `netchan->fatal_error` is set and never read: after its own overflow a client silently stops sending (`TransmitOverflowed`).
* The `modified` flag of the variable `threads` is never cleared, so from the first change on the pool is restarted in every frame.
* What the sections [Game](#game) and [Download](#download) list.

## Plan

In this order; what is done is in the past tense.

1. `ReliableChannel`, `NetChan` and their proofs: done.
2. `FrameDelta` and its proofs: done.
3. `JobService`, `ThreadPool` and their proofs: done.
4. `UserCmds` and its proofs: done.
5. `Download` and its proofs: done.
6. `Session` and its proofs: done, for one client whose attempts to connect do not overlap. `NetChanReconnect`: a channel that is set up again, at one
   end or both, while old datagrams are under way and may be overtaken; with it the clients the server
   knows, and the frames of a slot that is used again. Then two clients and a full server.
7. `GamePlayers`, `GameRules`, `Game` and their proofs: done. Then items that respawn, and movers.
8. `MasterServer` and its proofs: done.
9. `CommandBuffer`, `WorkDispatch`, `ManagedMemory`.

## Not modelled

More entities in sight than `MAX_PACKET_ENTITIES` are possible, as nothing limits a frame, and are in the model. The client
can then be dropped with "Delta parse_entities too old", and with more than `PACKET_BACKUP` newcomers in a frame it can be shown a wrong one:
the properties say when they hold, not how often or how badly it goes wrong otherwise.

In Game: balanced teams (`g_teams` 2), scores and what they decide, gameplay modes but for the restart a change causes (so also that instagib and arena hide the flags when they are spawned, `g_entity.c:454`), items other than flags,
weapons, `G_KillBox`, the three seconds between two `spectate`, chat and map lists, and `ctf` together with rounds.
In MasterServer: the blacklist, the coding of the answer to `getservers`, and the acknowledgements a game server only prints. In
Download: names and patterns that are refused, a second file, a second server, and a user who asks for another file in the middle.

In Session: other clients and a full server, qport and translated addresses, the size of the table of
challenges, the checks of the user info, downloads, the limit of eight commands per datagram, demos, and a client in the
process of the server.

The player state in a frame is encoded from the same base frame as the entities and
adds nothing. Sequence numbers are natural numbers: they have 31 bits and would wrap after
a year of play. In NetChan a channel is
set up once; Session sets it up again, over a network that keeps the order. Field-by-field message coding
(`net_message.c`), sockets, geometry, physics, the renderer, sound and user interface
are not modelled: they are numeric or pure input and output.
