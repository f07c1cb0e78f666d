---------------------------- MODULE MasterServer ----------------------------
(***************************************************************************)
(* The master server (master/main.c) and the game servers that report to   *)
(* it (sv_main.c, sv_admin.c, sv_init.c).                                  *)
(*                                                                         *)
(* A public dedicated server sends the master a heartbeat from time to     *)
(* time, and a shutdown when it quits.  The master registers whoever pings *)
(* it or sends a heartbeat, but lists a server only once that answered a   *)
(* ping.  It pings a server whose last heartbeat is old, and drops it when *)
(* too many pings in a row are not answered.                               *)
(*                                                                         *)
(* Datagrams are lost and overtake each other.  Two equal ones under way   *)
(* count as one: the other is lost.                                        *)
(***************************************************************************)
EXTENDS Integers, FiniteSets, SequencesExt, Lists

CONSTANTS
  Servers,          \* The addresses of game servers.
  Reachable,        \* Those that datagrams reach; the others can only send.
  Interval,         \* HEARTBEAT_SECONDS, in units of time;
  Silence,          \* the 30 seconds after which the master starts to ping;
  PingGap,          \* and the 10 seconds between two pings.
  MaxQueuedPings,   \* The 6 queued pings past which a server is dropped.
  MaxChanges        \* Bound: starts, stops and commands.

ASSUME MasterAssumption ==
  /\ Reachable \subseteq Servers
  /\ "master" \notin Servers
  /\ {Interval, Silence, PingGap, MaxQueuedPings} \subseteq Nat \ {0}
  /\ Silence < Interval
  /\ MaxChanges \in Nat

VARIABLES
  running,          \* The servers that run (svs.initialized).
  next_heartbeat,   \* Their svs.next_heartbeat, less svs.real_time.
  ms_servers,       \* The list of the master, the last one registered first.
  entry,            \* The ms_server_t of every server in it.
  wire,             \* Datagrams under way, <<from, to, command>>.
  changes,          \* History: starts, stops and commands;
  unheard,          \* units of time since the master last heard an answer to
                    \* a ping from it, or registered it;
  answered          \* the servers that ever answered a ping of the master.

master == <<ms_servers, entry>>
servers == <<running, next_heartbeat>>
vars == <<master, servers, wire, changes, unheard, answered>>

-----------------------------------------------------------------------------
(* The fields of ms_server_t, its times as ages: as far as they matter.    *)
Entry == [last_heartbeat : 0 .. Silence + 1, last_ping : 0 .. PingGap,
          queued_pings : 0 .. MaxQueuedPings + 1, validated : BOOLEAN]

(* What Ms_AddServer starts an entry with: last_ping is zero, long ago.     *)
Registered == [last_heartbeat |-> 0, last_ping |-> PingGap,
               queued_pings |-> 0, validated |-> FALSE]

(* unheard is counted up to the time in which a server can be dropped.      *)
Limit == MaxQueuedPings * PingGap

Datagram == (Servers \X {"master"} \X {"ping", "heartbeat", "ack", "shutdown"})
            \union ({"master"} \X Reachable \X {"ping"})

TypeOK ==
  /\ running \subseteq Servers
  /\ next_heartbeat \in [Servers -> 0 .. Interval]
  /\ ToSet(ms_servers) \subseteq Servers
  /\ Len(ms_servers) = Cardinality(ToSet(ms_servers))
  /\ entry \in [Servers -> Entry]
  /\ wire \subseteq Datagram
  /\ changes \in 0 .. MaxChanges
  /\ unheard \in [Servers -> 0 .. Limit]
  /\ answered \subseteq Servers

Init ==
  /\ running = {}
  /\ next_heartbeat = [s \in Servers |-> 0]
  /\ ms_servers = <<>>
  /\ entry = [s \in Servers |-> Registered]
  /\ wire = {}
  /\ changes = 0
  /\ unheard = [s \in Servers |-> 0]
  /\ answered = {}

-----------------------------------------------------------------------------
(* The game server. *)

Changes ==
  /\ changes < MaxChanges
  /\ changes' = changes + 1

(* Sv_InitServer, which clears next_heartbeat; also for a running server,   *)
(* whose level changes.                                                     *)
InitServer(s) ==
  /\ Changes
  /\ running' = running \union {s}
  /\ next_heartbeat' = [next_heartbeat EXCEPT ![s] = 0]
  /\ UNCHANGED <<master, wire, unheard, answered>>

(* The server quits, or ends without a word.                                *)
ShutdownMasters(s) ==
  /\ s \in running
  /\ Changes
  /\ running' = running \ {s}
  /\ \/ wire' = wire \union {<<s, "master", "shutdown">>}
     \/ UNCHANGED wire
  /\ next_heartbeat' = [next_heartbeat EXCEPT ![s] = 0]
  /\ UNCHANGED <<master, unheard, answered>>

(* The console command set_master: the ping registers the server at once.   *)
SetMaster(s) ==
  /\ s \in running
  /\ Changes
  /\ wire' = wire \union {<<s, "master", "ping">>}
  /\ next_heartbeat' = [next_heartbeat EXCEPT ![s] = 0]
  /\ UNCHANGED <<master, running, unheard, answered>>

HeartbeatMasters(s) ==
  /\ s \in running
  /\ next_heartbeat[s] = 0
  /\ next_heartbeat' = [next_heartbeat EXCEPT ![s] = Interval]
  /\ wire' = wire \union {<<s, "master", "heartbeat">>}
  /\ UNCHANGED <<master, running, changes, unheard, answered>>

(* Svc_Ping answers; nobody does for a server that is down.                 *)
ReadPacket(s) ==
  LET d == <<"master", s, "ping">> IN
  /\ d \in wire
  /\ IF s \in running
     THEN /\ wire' = (wire \ {d}) \union {<<s, "master", "ack">>}
          /\ answered' = answered \union {s}
     ELSE /\ wire' = wire \ {d}
          /\ UNCHANGED answered
  /\ UNCHANGED <<master, servers, changes, unheard>>

-----------------------------------------------------------------------------
(* The master: its list and entries after a message.  What it answers to a *)
(* heartbeat or a registration the server only prints: it is left out.      *)

GetServer(list, s) == s \in ToSet(list)

(* Mutant of AddServer: who is in the list already is put there again. *)
AddServerAgain(list, e, s) ==
  <<<<s>> \o list, [e EXCEPT ![s] = Registered]>>

AddServer(list, e, s) ==
  IF GetServer(list, s)
  THEN <<list, e>>
  ELSE <<<<s>> \o list, [e EXCEPT ![s] = Registered]>>

RemoveServer(list, e, s) ==
  <<Without(list, {s}), [e EXCEPT ![s] = Registered]>>

(* Mutant of Heartbeat: the heartbeat counts as an answer. *)
HeartbeatTrusted(list, e, s) ==
  IF GetServer(list, s)
  THEN <<list, [e EXCEPT ![s].last_heartbeat = 0, ![s].validated = TRUE]>>
  ELSE AddServer(list, e, s)

(* Mutant of Heartbeat: an unknown server is not added. *)
HeartbeatKnown(list, e, s) ==
  IF GetServer(list, s)
  THEN <<list, [e EXCEPT ![s].last_heartbeat = 0]>>
  ELSE <<list, e>>

Heartbeat(list, e, s) ==
  IF GetServer(list, s)
  THEN <<list, [e EXCEPT ![s].last_heartbeat = 0]>>
  ELSE AddServer(list, e, s)

Acknowledged(e) == [e EXCEPT !.validated = TRUE, !.queued_pings = 0]

AckFrom(list, e, s) ==
  IF GetServer(list, s)
  THEN <<list, [e EXCEPT ![s] = Acknowledged(@)]>>
  ELSE <<list, e>>

ParseMessage(list, e, s, command) ==
  CASE command = "ping" -> AddServer(list, e, s)
    [] command = "heartbeat" -> Heartbeat(list, e, s)
    [] command = "ack" -> AckFrom(list, e, s)
    [] command = "shutdown" -> RemoveServer(list, e, s)

-----------------------------------------------------------------------------
(* Ms_Frame looks at each server in turn.                                   *)

Overdue(e) == e.last_heartbeat > Silence

(* Mutant of TimedOut: the heartbeat is not looked at. *)
TimedOutAnyway(e) == e.queued_pings > MaxQueuedPings

TimedOut(e) == Overdue(e) /\ e.queued_pings > MaxQueuedPings
MayPing(e) ==
  Overdue(e) /\ e.queued_pings <= MaxQueuedPings /\ e.last_ping >= PingGap

(* Mutant of Pinged: the ping is not counted. *)
PingedUncounted(e) == [e EXCEPT !.last_ping = 0]

Pinged(e) == [e EXCEPT !.queued_pings = @ + 1, !.last_ping = 0]

(* Dropping a server frees its link of the list before the loop goes on to  *)
(* the next one: then the loop may also end there.                          *)
Ends(list, e) ==
  {Len(list)} \union {i \in 1 .. Len(list) : TimedOut(e[list[i]])}

(* The servers in the list that a loop which ends at the nth looks at.      *)
Seen(list, n) == {list[i] : i \in 1 .. n}

MsFrame(list, e, sent, n) ==
  LET seen == Seen(list, n)
      gone == {s \in seen : TimedOut(e[s])}
      pinged == {s \in seen : MayPing(e[s])}
  IN /\ wire' = sent \union {<<"master", s, "ping">> : s \in pinged \cap Reachable}
     /\ ms_servers' = Without(list, gone)
     /\ entry' = [s \in Servers |->
                    IF s \in gone THEN Registered
                    ELSE IF s \in pinged THEN Pinged(e[s]) ELSE e[s]]

(* The main loop: a message, or a second without one, and then Ms_Frame.    *)
Receive(s, command) ==
  LET d == <<s, "master", command>>
      parsed == ParseMessage(ms_servers, entry, s, command)
      list == parsed[1]
      e == parsed[2]
  IN /\ d \in wire
     /\ UNCHANGED <<servers, changes, answered>>
     /\ unheard' = IF command = "ack" \/ ~GetServer(list, s)
                      \/ ~GetServer(ms_servers, s)
                   THEN [unheard EXCEPT ![s] = 0] ELSE unheard
     /\ \E n \in Ends(list, e) :
          MsFrame(list, e, wire \ {d}, n)

Older(age, most) == IF age < most THEN age + 1 ELSE age

Aged(e) == [e EXCEPT !.last_heartbeat = Older(@, Silence + 1),
                     !.last_ping = Older(@, PingGap)]

(* A unit of time, at the end of which the master looks at its servers.     *)
Tick ==
  LET e == [s \in Servers |-> IF GetServer(ms_servers, s)
                              THEN Aged(entry[s]) ELSE entry[s]]
  IN /\ UNCHANGED <<running, changes, answered>>
     /\ next_heartbeat' = [s \in Servers |->
                             IF next_heartbeat[s] > 0
                             THEN next_heartbeat[s] - 1 ELSE 0]
     /\ unheard' = [s \in Servers |->
                      IF GetServer(ms_servers, s) THEN Older(unheard[s], Limit)
                      ELSE 0]
     /\ \E n \in Ends(ms_servers, e) : MsFrame(ms_servers, e, wire, n)

(* The master ends and is started again: main() knows no server.            *)
Restart ==
  /\ Changes
  /\ ms_servers' = <<>>
  /\ entry' = [s \in Servers |-> Registered]
  /\ unheard' = [s \in Servers |-> 0]
  /\ UNCHANGED <<servers, wire, answered>>

(* The network loses a datagram.                                            *)
Lose(d) ==
  /\ wire' = wire \ {d}
  /\ UNCHANGED <<master, servers, changes, unheard, answered>>

-----------------------------------------------------------------------------
Next ==
  \/ Tick
  \/ Restart
  \/ \E s \in Servers :
       \/ InitServer(s)
       \/ ShutdownMasters(s)
       \/ SetMaster(s)
       \/ HeartbeatMasters(s)
       \/ ReadPacket(s)
       \/ \E command \in {"ping", "heartbeat", "ack", "shutdown"} :
            Receive(s, command)
  \/ \E d \in wire : Lose(d)

Spec == Init /\ [][Next]_vars

(* The loops of the master and the servers go on.  Of datagrams sent again  *)
(* and again some arrive, and some answers while the master waits for them. *)
Fairness ==
  /\ WF_vars(Tick)
  /\ \A s \in Reachable :
       /\ WF_vars(HeartbeatMasters(s))
       /\ SF_vars(GetServer(ms_servers, s) /\ ReadPacket(s))
       /\ SF_vars(Receive(s, "heartbeat"))
       /\ SF_vars(GetServer(ms_servers, s) /\ Receive(s, "ack"))

FairSpec == Spec /\ Fairness

-----------------------------------------------------------------------------
(* Properties *)

(* What a client is sent when it asks for servers (Ms_GetServers).          *)
Listed == {s \in ToSet(ms_servers) : entry[s].validated}

(* Nobody gets into the list of servers by a heartbeat or a ping alone,     *)
(* whoever claimed to send it: only by having answered the master.          *)
ListedAnswered == Listed \subseteq answered

(* The master gives a server up (not the server itself) only while its      *)
(* heartbeat is overdue, and when it has not heard an answer from it for as *)
(* long as all the pings it may queue take; a heartbeat that comes in just  *)
(* then saves it.  That silence may have begun before the last heartbeat:   *)
(* a heartbeat does not reset the count of pings (main.c:189), and so the   *)
(* unanswered pings of several silences add up.                             *)
DroppedOnlyUnheard ==
  [][\A s \in ToSet(ms_servers) \ ToSet(ms_servers') :
       \/ <<s, "master", "shutdown">> \in wire \ wire'
       \/ /\ unheard'[s] = Limit
          /\ Overdue(IF Tick THEN Aged(entry[s]) ELSE entry[s])
          /\ <<s, "master", "heartbeat">> \notin wire \ wire'
       \/ Restart]_vars

(* A server that has ended, with a word or without, does not stay in the    *)
(* master for ever, whatever it had under way.                              *)
GoneForgotten ==
  \A s \in Servers : <>[](s \notin running) => <>[](s \notin ToSet(ms_servers))

(* A server that goes on running is listed time and again, though    *)
(* heartbeats, pings and answers get lost and the master drops it for that. *)
AliveListed ==
  \A s \in Reachable : <>[](s \in running) => []<>(s \in Listed)
=============================================================================
