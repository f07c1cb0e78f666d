------------------------- MODULE ServicesProofs ----------------------------
(***************************************************************************)
(* Proofs about the two services beside the game: the list of servers that *)
(* a master keeps (MasterServer), and the files that a client gets from    *)
(* the server it is connected to (Download).  What they have in common is  *)
(* that nobody can rely on what was begun: servers end without a word, and *)
(* transfers are interrupted.                                              *)
(***************************************************************************)
EXTENDS MasterServer, Download, ListsProofs, SequenceTheorems, TLAPS

-----------------------------------------------------------------------------
(***************************************************************************)
(* Proofs about the master server (MasterServer), for any servers, times   *)
(* and number of queued pings: its list holds every server once, lists     *)
(* nobody who did not answer it, and gives a server up only when it heard  *)
(* nothing from it for as long as the queued pings took.                   *)
(***************************************************************************)

(* The list is one of servers, each in it once; of a server that is not in  *)
(* it the entry is as a registration would start it.                        *)
ListOK ==
  /\ ms_servers \in Seq(Servers)
  /\ Distinct(ms_servers)
  /\ \A s \in Servers \ ToSet(ms_servers) : entry[s] = Registered

(* An answer under way, and one taken in, is one that the server gave.      *)
AnswersOK ==
  \A s \in Servers :
    /\ <<s, "master", "ack">> \in wire => s \in answered
    /\ entry[s].validated => s \in answered

(* The time for which queued pings have waited for an answer: PingGap for   *)
(* all but the last of them, and the age of the last.                       *)
Waited(e) == (e.queued_pings - 1) * PingGap + e.last_ping

(* So long the master has not heard an answer.                              *)
PingsOK ==
  \A s \in Servers :
    entry[s].queued_pings = 0 \/ unheard[s] = Limit \/ unheard[s] >= Waited(entry[s])

MasterInv == TypeOK /\ ListOK /\ AnswersOK /\ PingsOK

-----------------------------------------------------------------------------
(* The numbers of the constants.                                            *)
LEMMA Numbers ==
  /\ Reachable \subseteq Servers
  /\ Interval \in Nat /\ Interval > 0
  /\ Silence \in Nat /\ Silence > 0
  /\ PingGap \in Nat /\ PingGap > 0
  /\ MaxQueuedPings \in Nat /\ MaxQueuedPings > 0
  /\ MaxChanges \in Nat
  /\ Limit \in Nat
BY MasterAssumption DEF Limit

(* What messages, rounds and time make of an entry is an entry, and they    *)
(* change the fields they name.                                             *)
LEMMA EntryFields ==
  ASSUME NEW e \in Entry
  PROVE  /\ LET f == [e EXCEPT !.last_heartbeat = 0] IN
              /\ f \in Entry /\ f.last_heartbeat = 0
              /\ f.queued_pings = e.queued_pings /\ f.last_ping = e.last_ping
              /\ f.validated = e.validated
         /\ Acknowledged(e) \in Entry /\ Acknowledged(e).queued_pings = 0
         /\ MayPing(e) => /\ Pinged(e) \in Entry
                          /\ Pinged(e).queued_pings = e.queued_pings + 1
                          /\ Pinged(e).last_ping = 0 /\ e.last_ping = PingGap
                          /\ Pinged(e).validated = e.validated
         /\ Aged(e) \in Entry
         /\ Aged(e).queued_pings = e.queued_pings
         /\ Aged(e).last_ping = Older(e.last_ping, PingGap)
         /\ Aged(e).validated = e.validated
<1> DEFINE H == 0 .. Silence + 1
           P == 0 .. PingGap
           Q == 0 .. MaxQueuedPings + 1
           R == [last_heartbeat : H, last_ping : P, queued_pings : Q,
                 validated : BOOLEAN]
<1>1. Entry = R
  BY DEF Entry
<1>2. /\ e.last_heartbeat \in H /\ e.last_ping \in P /\ e.queued_pings \in Q
      /\ e \in R
  BY <1>1
<1>3. 0 \in H /\ 0 \in P /\ 0 \in Q
  BY Numbers
<1>4. /\ Older(e.last_heartbeat, Silence + 1) \in H
      /\ Older(e.last_ping, PingGap) \in P
  BY <1>2, Numbers DEF Older
<1>5. MayPing(e) => e.queued_pings + 1 \in Q /\ e.last_ping = PingGap
  BY <1>2, Numbers DEF MayPing
<1> HIDE DEF H, P, Q
<1>6. LET f == [e EXCEPT !.last_heartbeat = 0] IN
        /\ f \in R /\ f.last_heartbeat = 0
        /\ f.queued_pings = e.queued_pings /\ f.last_ping = e.last_ping
        /\ f.validated = e.validated
  BY <1>2, <1>3
<1>7. Acknowledged(e) \in R /\ Acknowledged(e).queued_pings = 0
  BY <1>2, <1>3 DEF Acknowledged
<1>8. MayPing(e) => /\ Pinged(e) \in R
                    /\ Pinged(e).queued_pings = e.queued_pings + 1
                    /\ Pinged(e).last_ping = 0
                    /\ Pinged(e).validated = e.validated
  BY <1>2, <1>3, <1>5 DEF Pinged
<1>9. /\ Aged(e) \in R
      /\ Aged(e).queued_pings = e.queued_pings
      /\ Aged(e).last_ping = Older(e.last_ping, PingGap)
      /\ Aged(e).validated = e.validated
  <2>1. Aged(e) \in R
    BY <1>2, <1>4 DEF Aged
  <2> QED
    BY <2>1, <1>2 DEF Aged
<1> HIDE DEF R
<1> QED
  BY <1>1, <1>5, <1>6, <1>7, <1>8, <1>9

(* The length of a list is the number of its servers, as TypeOK has it.     *)
LEMMA ListType ==
  ASSUME NEW list \in Seq(Servers), Distinct(list)
  PROVE  /\ ToSet(list) \subseteq Servers
         /\ Len(list) = Cardinality(ToSet(list))
<1>1. Len(list) = Cardinality(ToSet(list))
  BY DistinctLength
<1>2. ToSet(list) \subseteq Servers
  BY DEF ToSet
<1> QED
  BY <1>1, <1>2

(* A new server at the head of the list.                                    *)
LEMMA ListAdd ==
  ASSUME NEW list \in Seq(Servers), Distinct(list),
         NEW s \in Servers, s \notin ToSet(list)
  PROVE  /\ <<s>> \o list \in Seq(Servers)
         /\ Distinct(<<s>> \o list)
         /\ ToSet(<<s>> \o list) = ToSet(list) \cup {s}
<1> DEFINE longer == <<s>> \o list
           n == Len(list)
<1>1. /\ n \in Nat
      /\ longer \in Seq(Servers)
      /\ Len(longer) = n + 1
      /\ longer[1] = s
      /\ \A i \in 1 .. n : longer[i + 1] = list[i]
  OBVIOUS
<1>2. /\ ToSet(list) = {list[i] : i \in 1 .. n}
      /\ ToSet(longer) = {longer[i] : i \in 1 .. n + 1}
  BY <1>1 DEF ToSet
<1>3. \A i \in 1 .. n : list[i] # s
  BY <1>2
<1>4. \A i, j \in 1 .. n : list[i] = list[j] => i = j
  BY DEF Distinct
<1> HIDE DEF longer, n
<1>5. \A i \in 1 .. n + 1 : i = 1 \/ (i - 1 \in 1 .. n /\ longer[i] = list[i - 1])
  <2> TAKE i \in 1 .. n + 1
  <2>1. i = 1 \/ (i - 1 \in 1 .. n /\ i - 1 + 1 = i)
    BY <1>1
  <2> QED
    BY <1>1, <2>1
<1>6. Distinct(longer)
  BY <1>1, <1>3, <1>4, <1>5 DEF Distinct
<1>7. ToSet(longer) = ToSet(list) \cup {s}
  <2>1. \A x : x \in ToSet(longer) => x \in ToSet(list) \cup {s}
    BY <1>1, <1>2, <1>5
  <2>2. s \in ToSet(longer)
    BY <1>1, <1>2
  <2>3. \A i \in 1 .. n : list[i] \in ToSet(longer)
    BY <1>1, <1>2
  <2> QED
    BY <2>1, <2>2, <2>3, <1>2
<1> QED
  BY <1>1, <1>6, <1>7 DEF longer

-----------------------------------------------------------------------------
(* What a message does to the list and the entries: it concerns the sender  *)
(* alone, only an answer validates, and only an answer or a registration    *)
(* touches the count of pings.                                              *)
LEMMA ParseFacts ==
  ASSUME NEW list \in Seq(Servers), Distinct(list),
         NEW e \in [Servers -> Entry],
         \A t \in Servers \ ToSet(list) : e[t] = Registered,
         NEW s \in Servers,
         NEW command \in {"ping", "heartbeat", "ack", "shutdown"},
         NEW l, NEW f, ParseMessage(list, e, s, command) = <<l, f>>
  PROVE  /\ l \in Seq(Servers) /\ Distinct(l)
         /\ f \in [Servers -> Entry]
         /\ \A t \in Servers \ ToSet(l) : f[t] = Registered
         /\ \A t \in Servers \ {s} : /\ f[t] = e[t]
                                     /\ t \in ToSet(l) <=> t \in ToSet(list)
         /\ f[s].validated => command = "ack" \/ e[s].validated
         /\ \/ f[s].queued_pings = 0
            \/ /\ f[s].queued_pings = e[s].queued_pings
               /\ f[s].last_ping = e[s].last_ping
               /\ command # "ack"
               /\ s \in ToSet(list) /\ s \in ToSet(l)
         /\ s \in ToSet(list) \ ToSet(l) => command = "shutdown"
         /\ s \in ToSet(list) /\ TimedOut(f[s])
              => command \notin {"ack", "heartbeat"} /\ f[s] = e[s]
<1>0. /\ Registered \in Entry /\ Registered.queued_pings = 0 /\ ~Registered.validated
      /\ ~TimedOut(Registered)
  BY Numbers DEF Registered, Entry, TimedOut
<1>1. CASE command = "ping" \/ (command = "heartbeat" /\ ~GetServer(list, s))
  <2>1. <<l, f>> = AddServer(list, e, s)
    BY <1>1 DEF ParseMessage, Heartbeat
  <2>2. CASE s \in ToSet(list)
    <3>1. l = list /\ f = e /\ command = "ping"
      BY <1>1, <2>1, <2>2 DEF AddServer, GetServer
    <3> QED
      BY <3>1, <2>2
  <2>3. CASE s \notin ToSet(list)
    <3>1. l = <<s>> \o list /\ f = [e EXCEPT ![s] = Registered]
      BY <2>1, <2>3 DEF AddServer, GetServer
    <3>2. /\ l \in Seq(Servers) /\ Distinct(l)
          /\ ToSet(l) = ToSet(list) \cup {s}
      BY <3>1, <2>3, ListAdd
    <3> HIDE DEF Registered
    <3>3. /\ f \in [Servers -> Entry] /\ f[s] = Registered
          /\ \A t \in Servers \ {s} : f[t] = e[t]
      BY <3>1, <1>0
    <3> QED
      BY <3>2, <3>3, <2>3, <1>0
  <2> QED
    BY <2>2, <2>3
<1>2. CASE command = "heartbeat" /\ GetServer(list, s)
  <2>1. l = list /\ f = [e EXCEPT ![s].last_heartbeat = 0]
    BY <1>2 DEF ParseMessage, Heartbeat
  <2>2. /\ f \in [Servers -> Entry]
        /\ \A t \in Servers \ {s} : f[t] = e[t]
        /\ f[s].last_heartbeat = 0
        /\ f[s].validated = e[s].validated
        /\ f[s].queued_pings = e[s].queued_pings
        /\ f[s].last_ping = e[s].last_ping
    <3> DEFINE h == [e[s] EXCEPT !.last_heartbeat = 0]
    <3>1. h \in Entry /\ h.last_heartbeat = 0
          /\ h.queued_pings = e[s].queued_pings /\ h.last_ping = e[s].last_ping
          /\ h.validated = e[s].validated
      BY EntryFields
    <3>2. f = [e EXCEPT ![s] = h]
      BY <2>1
    <3> HIDE DEF h
    <3> QED
      BY <3>1, <3>2
  <2>3. ~TimedOut(f[s])
    BY <2>2, Numbers DEF TimedOut, Overdue
  <2> QED
    BY <1>2, <2>1, <2>2, <2>3 DEF GetServer
<1>3. CASE command = "ack"
  <2>1. <<l, f>> = AckFrom(list, e, s)
    BY <1>3 DEF ParseMessage
  <2>2. CASE s \in ToSet(list)
    <3>1. l = list /\ f = [e EXCEPT ![s] = Acknowledged(@)]
      BY <2>1, <2>2 DEF AckFrom, GetServer
    <3>2. /\ f \in [Servers -> Entry]
          /\ \A t \in Servers \ {s} : f[t] = e[t]
          /\ f[s].queued_pings = 0
      <4> DEFINE h == Acknowledged(e[s])
      <4>1. h \in Entry /\ h.queued_pings = 0
        BY EntryFields
      <4>2. f = [e EXCEPT ![s] = h]
        BY <3>1
      <4> HIDE DEF h
      <4> QED
        BY <4>1, <4>2
    <3>3. ~TimedOut(f[s])
      BY <3>2, Numbers DEF TimedOut
    <3> QED
      BY <1>3, <2>2, <3>1, <3>2, <3>3
  <2>3. CASE s \notin ToSet(list)
    <3>1. l = list /\ f = e
      BY <2>1, <2>3 DEF AckFrom, GetServer
    <3> QED
      BY <1>0, <1>3, <2>3, <3>1
  <2> QED
    BY <2>2, <2>3
<1>4. CASE command = "shutdown"
  <2>1. l = Without(list, {s}) /\ f = [e EXCEPT ![s] = Registered]
    BY <1>4 DEF ParseMessage, RemoveServer
  <2>2. /\ l \in Seq(Servers) /\ Distinct(l)
        /\ ToSet(l) = ToSet(list) \ {s}
    BY <2>1, WithoutFacts
  <2> HIDE DEF Registered
  <2>3. /\ f \in [Servers -> Entry] /\ f[s] = Registered
        /\ \A t \in Servers \ {s} : f[t] = e[t]
    BY <2>1, <1>0
  <2> QED
    BY <1>0, <1>4, <2>2, <2>3
<1> QED
  BY <1>1, <1>2, <1>3, <1>4

(* What a round of the master does: it drops only who timed out, and pings  *)
(* only whom it may.                                                        *)
LEMMA MsFrameFacts ==
  ASSUME NEW list \in Seq(Servers), Distinct(list),
         NEW e \in [Servers -> Entry],
         \A t \in Servers \ ToSet(list) : e[t] = Registered,
         NEW sent, NEW n \in Ends(list, e),
         MsFrame(list, e, sent, n)
  PROVE  /\ (ms_servers \in Seq(Servers))' /\ Distinct(ms_servers)'
         /\ entry' \in [Servers -> Entry]
         /\ \A t \in Servers \ ToSet(ms_servers') : entry'[t] = Registered
         /\ \A t \in ToSet(list) \ ToSet(ms_servers') : TimedOut(e[t])
         /\ \A t \in Servers : \/ entry'[t] = Registered
                               \/ entry'[t] = e[t]
                               \/ MayPing(e[t]) /\ entry'[t] = Pinged(e[t])
         /\ sent \subseteq wire'
         /\ wire' \subseteq sent \cup {<<"master", t, "ping">> : t \in Reachable}
<1> DEFINE seen == Seen(list, n)
           gone == {s \in seen : TimedOut(e[s])}
           pinged == {s \in seen : MayPing(e[s])}
<1>1. /\ ms_servers' = Without(list, gone)
      /\ entry' = [s \in Servers |->
                     IF s \in gone THEN Registered
                     ELSE IF s \in pinged THEN Pinged(e[s]) ELSE e[s]]
      /\ wire' = sent \cup {<<"master", s, "ping">> : s \in pinged \cap Reachable}
  BY DEF MsFrame
<1>2. /\ \A s \in gone : TimedOut(e[s])
      /\ \A s \in pinged : MayPing(e[s])
  OBVIOUS
<1> HIDE DEF gone, pinged
<1>3. /\ ms_servers' \in Seq(Servers)
      /\ Distinct(ms_servers')
      /\ ToSet(ms_servers') = ToSet(list) \ gone
  BY <1>1, WithoutFacts
<1>4. Registered \in Entry
  BY Numbers DEF Registered, Entry
<1>5. ASSUME NEW s \in Servers, MayPing(e[s])
      PROVE  Pinged(e[s]) \in Entry
  BY <1>5, EntryFields
<1>6. \A s \in Servers : entry'[s] = IF s \in gone THEN Registered
                                     ELSE IF s \in pinged THEN Pinged(e[s]) ELSE e[s]
  BY <1>1
<1>7. entry' \in [Servers -> Entry]
  BY <1>1, <1>2, <1>4, <1>5
<1>8. \A s \in pinged : s \in ToSet(list)
  BY DEF pinged, Seen, ToSet, Ends
<1>9. \A t \in Servers \ ToSet(ms_servers') : entry'[t] = Registered
  BY <1>3, <1>6, <1>8
<1>10. \A t \in Servers : \/ entry'[t] = Registered
                          \/ entry'[t] = e[t]
                          \/ MayPing(e[t]) /\ entry'[t] = Pinged(e[t])
  BY <1>2, <1>6
<1>11. /\ sent \subseteq wire'
       /\ wire' \subseteq sent \cup {<<"master", t, "ping">> : t \in Reachable}
  BY <1>1
<1>12. Distinct(ms_servers)'
  BY <1>3 DEF Distinct
<1> QED
  BY <1>2, <1>3, <1>7, <1>9, <1>10, <1>11, <1>12

(* A round keeps the time of the queued pings: another one is queued only   *)
(* when the last is PingGap old.                                            *)
LEMMA FrameKeepsPings ==
  ASSUME NEW e \in Entry, NEW f \in Entry, NEW u \in 0 .. Limit,
         e.queued_pings = 0 \/ u = Limit \/ u >= Waited(e),
         f = Registered \/ f = e \/ (MayPing(e) /\ f = Pinged(e))
  PROVE  f.queued_pings = 0 \/ u = Limit \/ u >= Waited(f)
<1>1. CASE f = Registered
  BY <1>1 DEF Registered
<1>2. CASE f = e
  BY <1>2
<1>3. CASE MayPing(e) /\ f = Pinged(e)
  <2>1. /\ f.queued_pings = e.queued_pings + 1 /\ f.last_ping = 0
        /\ e.last_ping = PingGap
    BY <1>3, EntryFields
  <2> DEFINE q == e.queued_pings
  <2>2. q \in Nat
    BY Numbers DEF Entry
  <2>3. Waited(f) = q * PingGap
    BY <2>1, <2>2, Numbers DEF Waited
  <2>4. Waited(e) = q * PingGap
    BY <2>1, <2>2, Numbers DEF Waited
  <2>5. q = 0 => Waited(f) = 0
    BY <2>3, Numbers
  <2> QED
    BY <2>3, <2>4, <2>5, Numbers
<1> QED
  BY <1>1, <1>2, <1>3

(* Who timed out has been waited for as long as the queued pings took.      *)
LEMMA TimedOutUnheard ==
  ASSUME NEW e \in Entry, NEW u \in 0 .. Limit,
         e.queued_pings = 0 \/ u = Limit \/ u >= Waited(e),
         TimedOut(e)
  PROVE  u = Limit
<1>1. e.queued_pings = MaxQueuedPings + 1 /\ e.last_ping >= 0 /\ e.last_ping \in Int
  BY Numbers DEF TimedOut, Entry
<1>2. Waited(e) >= Limit
  BY <1>1, Numbers DEF Waited, Limit
<1>3. Waited(e) \in Int
  BY <1>1, Numbers DEF Waited
<1> QED
  BY <1>1, <1>2, <1>3, Numbers

-----------------------------------------------------------------------------
(* No server is given up but one that shut down, or was not heard for long. *)
Drops ==
  \A s \in ToSet(ms_servers) \ ToSet(ms_servers') :
    \/ <<s, "master", "shutdown">> \in wire \ wire'
    \/ /\ unheard'[s] = Limit
       /\ Overdue(IF Tick THEN Aged(entry[s]) ELSE entry[s])
       /\ <<s, "master", "heartbeat">> \notin wire \ wire'
    \/ Restart

(* Nothing is listed, nothing is under way.                                 *)
LEMMA InitHolds ==
  ASSUME Init
  PROVE  MasterInv
<1>1. /\ ms_servers \in Seq(Servers) /\ ToSet(ms_servers) = {}
      /\ Distinct(ms_servers)
  BY DEF Init, ToSet, Distinct
<1>2. Registered \in Entry /\ Registered.queued_pings = 0 /\ ~Registered.validated
  BY Numbers DEF Registered, Entry
<1>3. entry \in [Servers -> Entry] /\ \A s \in Servers : entry[s] = Registered
  BY <1>2 DEF Init
<1>4. TypeOK
  <2>1. Len(ms_servers) = Cardinality(ToSet(ms_servers))
    BY <1>1, ListType
  <2>2. /\ next_heartbeat \in [Servers -> 0 .. Interval]
        /\ unheard \in [Servers -> 0 .. Limit]
        /\ changes \in 0 .. MaxChanges
    BY Numbers DEF Init
  <2> QED
    BY <1>1, <1>3, <2>1, <2>2 DEF Init, TypeOK
<1>5. ListOK
  BY <1>1, <1>3 DEF ListOK
<1>6. AnswersOK /\ PingsOK
  BY <1>2, <1>3 DEF Init, AnswersOK, PingsOK
<1> QED
  BY <1>4, <1>5, <1>6 DEF MasterInv

(* What leaves the master alone keeps its part, if what it sends is a       *)
(* datagram, and an answer only if it is noted.                             *)
LEMMA OthersKeep ==
  ASSUME MasterInv, UNCHANGED <<master, unheard>>,
         running' \subseteq Servers,
         next_heartbeat' \in [Servers -> 0 .. Interval],
         wire' \subseteq Datagram,
         changes' \in 0 .. MaxChanges,
         answered \subseteq answered', answered' \subseteq Servers,
         \A s \in Servers : <<s, "master", "ack">> \in wire' \ wire => s \in answered'
  PROVE  MasterInv' /\ Drops
<1>1. TypeOK'
  BY DEF MasterInv, TypeOK, master
<1>2. ListOK'
  BY DEF MasterInv, ListOK, master, Distinct
<1>3. AnswersOK'
  BY DEF MasterInv, AnswersOK, master
<1>4. PingsOK'
  BY DEF MasterInv, PingsOK, master, Waited
<1>5. Drops
  BY DEF Drops, master
<1> QED
  BY <1>1, <1>2, <1>3, <1>4, <1>5 DEF MasterInv

(* The steps of the servers and of the network.                             *)
LEMMA ServersKeep ==
  ASSUME MasterInv,
         \/ \E s \in Servers : \/ InitServer(s) \/ ShutdownMasters(s)
                               \/ SetMaster(s) \/ HeartbeatMasters(s)
                               \/ ReadPacket(s)
         \/ \E d \in wire : Lose(d)
  PROVE  MasterInv' /\ Drops
<1>0. /\ running \subseteq Servers /\ answered \subseteq Servers
      /\ next_heartbeat \in [Servers -> 0 .. Interval]
      /\ wire \subseteq Datagram /\ changes \in 0 .. MaxChanges
  BY DEF MasterInv, TypeOK
<1>1. ASSUME Changes PROVE changes' \in 0 .. MaxChanges
  BY <1>0, <1>1, Numbers DEF Changes
<1>2. \A s \in Servers : \A i \in 0 .. Interval :
        [next_heartbeat EXCEPT ![s] = i] \in [Servers -> 0 .. Interval]
  BY <1>0
<1>3. \A s \in Servers : \A c \in {"ping", "heartbeat", "ack", "shutdown"} :
        <<s, "master", c>> \in Datagram
  BY DEF Datagram
<1>4. 0 \in 0 .. Interval /\ Interval \in 0 .. Interval
  BY Numbers
<1>5. ASSUME NEW s \in Servers, InitServer(s)
      PROVE  MasterInv' /\ Drops
  <2>1. /\ UNCHANGED <<master, unheard>> /\ wire' = wire /\ answered' = answered
        /\ Changes /\ running' = running \union {s}
        /\ next_heartbeat' = [next_heartbeat EXCEPT ![s] = 0]
    BY <1>5 DEF InitServer
  <2> QED
    BY <2>1, <1>0, <1>1, <1>2, <1>4, OthersKeep
<1>6. ASSUME NEW s \in Servers, ShutdownMasters(s)
      PROVE  MasterInv' /\ Drops
  <2>1. /\ UNCHANGED <<master, unheard>> /\ answered' = answered
        /\ wire' = wire \union {<<s, "master", "shutdown">>} \/ wire' = wire
        /\ Changes /\ running' = running \ {s}
        /\ next_heartbeat' = [next_heartbeat EXCEPT ![s] = 0]
    BY <1>6 DEF ShutdownMasters
  <2>2. wire' \subseteq Datagram
    <3>1. <<s, "master", "shutdown">> \in Datagram
      BY <1>3
    <3> QED
      BY <3>1, <2>1, <1>0
  <2>3. \A t \in Servers : <<t, "master", "ack">> \notin wire' \ wire
    BY <2>1
  <2> QED
    BY <2>1, <2>2, <2>3, <1>0, <1>1, <1>2, <1>4, OthersKeep
<1>7. ASSUME NEW s \in Servers, SetMaster(s)
      PROVE  MasterInv' /\ Drops
  <2>1. /\ UNCHANGED <<master, unheard>> /\ answered' = answered
        /\ wire' = wire \union {<<s, "master", "ping">>}
        /\ Changes /\ running' = running
        /\ next_heartbeat' = [next_heartbeat EXCEPT ![s] = 0]
    BY <1>7 DEF SetMaster
  <2>2. wire' \subseteq Datagram
    BY <2>1, <1>0, <1>3
  <2>3. \A t \in Servers : <<t, "master", "ack">> \notin wire' \ wire
    BY <2>1
  <2> QED
    BY <2>1, <2>2, <2>3, <1>0, <1>1, <1>2, <1>4, OthersKeep
<1>8. ASSUME NEW s \in Servers, HeartbeatMasters(s)
      PROVE  MasterInv' /\ Drops
  <2>1. /\ UNCHANGED <<master, unheard>> /\ answered' = answered
        /\ wire' = wire \union {<<s, "master", "heartbeat">>}
        /\ changes' = changes /\ running' = running
        /\ next_heartbeat' = [next_heartbeat EXCEPT ![s] = Interval]
    BY <1>8 DEF HeartbeatMasters
  <2>2. wire' \subseteq Datagram
    BY <2>1, <1>0, <1>3
  <2>3. \A t \in Servers : <<t, "master", "ack">> \notin wire' \ wire
    BY <2>1
  <2> QED
    BY <2>1, <2>2, <2>3, <1>0, <1>2, <1>4, OthersKeep
<1>9. ASSUME NEW s \in Servers, ReadPacket(s)
      PROVE  MasterInv' /\ Drops
  <2>1. /\ UNCHANGED <<master, unheard>> /\ changes' = changes
        /\ running' = running /\ next_heartbeat' = next_heartbeat
    BY <1>9 DEF ReadPacket, servers
  <2>2. \/ /\ wire' \subseteq wire \union {<<s, "master", "ack">>}
           /\ answered' = answered \union {s}
        \/ wire' \subseteq wire /\ answered' = answered
    BY <1>9 DEF ReadPacket
  <2>3. wire' \subseteq Datagram
    BY <2>2, <1>0, <1>3
  <2>4. \A t \in Servers : <<t, "master", "ack">> \in wire' \ wire => t \in answered'
    BY <2>2
  <2> QED
    BY <2>1, <2>2, <2>3, <2>4, <1>0, OthersKeep
<1>10. ASSUME NEW d \in wire, Lose(d)
       PROVE  MasterInv' /\ Drops
  <2>1. /\ UNCHANGED <<master, unheard>> /\ changes' = changes
        /\ running' = running /\ next_heartbeat' = next_heartbeat
        /\ wire' \subseteq wire /\ answered' = answered
    BY <1>10 DEF Lose, servers
  <2> QED
    BY <2>1, <1>0, OthersKeep
<1> QED
  BY <1>5, <1>6, <1>7, <1>8, <1>9, <1>10

(* The master starts again with nobody in its list.                         *)
LEMMA RestartKeeps ==
  ASSUME MasterInv, Restart
  PROVE  MasterInv' /\ Drops
<1>1. /\ ms_servers' \in Seq(Servers) /\ ToSet(ms_servers') = {}
      /\ Distinct(ms_servers')
  BY DEF Restart, ToSet, Distinct
<1>2. Registered \in Entry /\ Registered.queued_pings = 0 /\ ~Registered.validated
  BY Numbers DEF Registered, Entry
<1>3. entry' \in [Servers -> Entry] /\ \A s \in Servers : entry'[s] = Registered
  BY <1>2 DEF Restart
<1>4. TypeOK'
  <2>1. Len(ms_servers') = Cardinality(ToSet(ms_servers'))
    BY <1>1, ListType
  <2>2. changes' \in 0 .. MaxChanges
    BY Numbers DEF Restart, Changes, MasterInv, TypeOK
  <2>3. unheard' \in [Servers -> 0 .. Limit]
    BY Numbers DEF Restart
  <2> QED
    BY <1>1, <1>3, <2>1, <2>2, <2>3 DEF Restart, TypeOK, MasterInv, servers
<1>5. ListOK'
  BY <1>1, <1>3 DEF ListOK, Distinct
<1>6. AnswersOK' /\ PingsOK'
  BY <1>2, <1>3 DEF Restart, AnswersOK, PingsOK, MasterInv
<1> QED
  BY <1>4, <1>5, <1>6 DEF MasterInv, Drops

(* A message, and a round of the master after it: the round sees entries    *)
(* that changed for the sender alone.                                       *)
LEMMA ReceiveKeeps ==
  ASSUME MasterInv, NEW s \in Servers,
         NEW command \in {"ping", "heartbeat", "ack", "shutdown"},
         Receive(s, command)
  PROVE  MasterInv' /\ Drops
<1> DEFINE d == <<s, "master", command>>
<1>1. PICK l, e, n :
        /\ ParseMessage(ms_servers, entry, s, command) = <<l, e>>
        /\ n \in Ends(l, e) /\ MsFrame(l, e, wire \ {d}, n)
        /\ d \in wire
        /\ unheard' = IF command = "ack" \/ ~GetServer(l, s)
                         \/ ~GetServer(ms_servers, s)
                      THEN [unheard EXCEPT ![s] = 0] ELSE unheard
        /\ UNCHANGED <<servers, changes, answered>>
  <2>1. PICK l, e : ParseMessage(ms_servers, entry, s, command) = <<l, e>>
    BY DEF ParseMessage, AddServer, Heartbeat, AckFrom, RemoveServer
  <2> QED
    BY <2>1 DEF Receive
<1>2. /\ ms_servers \in Seq(Servers) /\ Distinct(ms_servers)
      /\ entry \in [Servers -> Entry]
      /\ \A t \in Servers \ ToSet(ms_servers) : entry[t] = Registered
  BY DEF MasterInv, TypeOK, ListOK
<1>3. /\ l \in Seq(Servers) /\ Distinct(l)
      /\ e \in [Servers -> Entry]
      /\ \A t \in Servers \ ToSet(l) : e[t] = Registered
      /\ \A t \in Servers \ {s} : /\ e[t] = entry[t]
                                  /\ t \in ToSet(l) <=> t \in ToSet(ms_servers)
      /\ e[s].validated => command = "ack" \/ entry[s].validated
      /\ \/ e[s].queued_pings = 0
         \/ /\ e[s].queued_pings = entry[s].queued_pings
            /\ e[s].last_ping = entry[s].last_ping
            /\ command # "ack"
            /\ s \in ToSet(ms_servers) /\ s \in ToSet(l)
      /\ s \in ToSet(ms_servers) \ ToSet(l) => command = "shutdown"
      /\ s \in ToSet(ms_servers) /\ TimedOut(e[s])
           => command \notin {"ack", "heartbeat"} /\ e[s] = entry[s]
  BY <1>1, <1>2, ParseFacts
<1>4. /\ (ms_servers \in Seq(Servers))' /\ Distinct(ms_servers)'
      /\ entry' \in [Servers -> Entry]
      /\ \A t \in Servers \ ToSet(ms_servers') : entry'[t] = Registered
      /\ \A t \in ToSet(l) \ ToSet(ms_servers') : TimedOut(e[t])
      /\ \A t \in Servers : \/ entry'[t] = Registered
                            \/ entry'[t] = e[t]
                            \/ MayPing(e[t]) /\ entry'[t] = Pinged(e[t])
      /\ wire \ {d} \subseteq wire'
      /\ wire' \subseteq (wire \ {d}) \cup {<<"master", t, "ping">> : t \in Reachable}
  BY <1>1, <1>3, MsFrameFacts
<1>5. unheard' \in [Servers -> 0 .. Limit]
  BY <1>1, Numbers DEF MasterInv, TypeOK
<1>6. ToSet(ms_servers') \subseteq Servers
      /\ Len(ms_servers') = Cardinality(ToSet(ms_servers'))
  BY <1>4, ListType DEF Distinct
<1>7. TypeOK'
  <2>1. wire' \subseteq Datagram
    BY <1>4 DEF MasterInv, TypeOK, Datagram
  <2>2. UNCHANGED <<running, next_heartbeat, changes, answered>>
    BY <1>1 DEF servers
  <2> QED
    BY <1>4, <1>5, <1>6, <2>1, <2>2 DEF MasterInv, TypeOK
<1>8. ListOK'
  BY <1>4 DEF ListOK
<1>9. AnswersOK'
  <2>1. ASSUME NEW t \in Servers
        PROVE  /\ <<t, "master", "ack">> \in wire' => t \in answered'
               /\ entry'[t].validated => t \in answered'
    <3>1. /\ <<t, "master", "ack">> \in wire => t \in answered
          /\ entry[t].validated => t \in answered
          /\ answered' = answered
      BY <1>1 DEF MasterInv, AnswersOK
    <3>2. <<t, "master", "ack">> \in wire' => <<t, "master", "ack">> \in wire
      BY <1>4
    <3>3. e[t].validated => t \in answered
      <4>1. CASE t = s
        BY <4>1, <3>1, <1>1, <1>3
      <4>2. CASE t # s
        BY <4>2, <3>1, <1>3
      <4> QED
        BY <4>1, <4>2
    <3>4. entry'[t].validated => e[t].validated
      <4>1. ~Registered.validated
        BY DEF Registered
      <4>2. MayPing(e[t]) => Pinged(e[t]).validated = e[t].validated
        BY <1>3, EntryFields
      <4> QED
        BY <1>4, <4>1, <4>2
    <3> QED
      BY <3>1, <3>2, <3>3, <3>4
  <2> QED
    BY <2>1 DEF AnswersOK
<1>10. ASSUME NEW t \in Servers
       PROVE  \/ e[t].queued_pings = 0
              \/ unheard'[t] = Limit
              \/ unheard'[t] >= Waited(e[t])
  <2>1. /\ \/ entry[t].queued_pings = 0 \/ unheard[t] = Limit
           \/ unheard[t] >= Waited(entry[t])
        /\ unheard \in [Servers -> 0 .. Limit]
    BY DEF MasterInv, TypeOK, PingsOK
  <2>2. CASE t # s
    BY <2>1, <2>2, <1>1, <1>3
  <2>3. CASE t = s /\ e[s].queued_pings # 0
    <3>1. unheard' = unheard
      BY <1>1, <1>3, <2>3 DEF GetServer
    <3>2. Waited(e[s]) = Waited(entry[s])
      BY <1>3, <2>3 DEF Waited
    <3> QED
      BY <2>1, <2>3, <3>1, <3>2, <1>3
  <2> QED
    BY <2>2, <2>3
<1>11. PingsOK'
  <2>1. ASSUME NEW t \in Servers
        PROVE  \/ entry'[t].queued_pings = 0
               \/ unheard'[t] = Limit
               \/ unheard'[t] >= Waited(entry'[t])
    <3>1. e[t] \in Entry /\ entry'[t] \in Entry /\ unheard'[t] \in 0 .. Limit
      BY <1>3, <1>4, <1>5
    <3> QED
      BY <3>1, <1>4, <1>10, FrameKeepsPings
  <2> QED
    BY <2>1 DEF PingsOK, Waited
<1>12. Drops
  <2> SUFFICES ASSUME NEW t \in ToSet(ms_servers) \ ToSet(ms_servers')
               PROVE  \/ <<t, "master", "shutdown">> \in wire \ wire'
                      \/ /\ unheard'[t] = Limit
                         /\ Overdue(entry[t])
                         /\ <<t, "master", "heartbeat">> \notin wire \ wire'
    <3>1. d \in wire /\ d \notin wire'
      BY <1>1, <1>4, MasterAssumption
    <3>2. Tick => wire \subseteq wire'
      BY DEF Tick, MsFrame
    <3> QED
      BY <3>1, <3>2 DEF Drops
  <2>1. t \in Servers
    BY <1>2, ListType
  <2>2. CASE t \in ToSet(l)
    <3>1. TimedOut(e[t])
      BY <1>4, <2>2
    <3>2. e[t] \in Entry /\ unheard'[t] \in 0 .. Limit
      BY <1>3, <1>5, <2>1
    <3>3. unheard'[t] = Limit
      BY <3>1, <3>2, <1>10, <2>1, TimedOutUnheard
    <3>4. e[t] = entry[t] /\ (t = s => command # "heartbeat")
      BY <3>1, <1>3, <2>1
    <3>5. <<t, "master", "heartbeat">> \notin wire \ wire'
      BY <3>4, <1>4
    <3> QED
      BY <3>1, <3>3, <3>4, <3>5 DEF TimedOut
  <2>3. CASE t \notin ToSet(l)
    <3>1. t = s /\ command = "shutdown"
      BY <1>3, <2>1, <2>3
    <3>2. d \in wire /\ d \notin wire'
      BY <1>1, <1>4, <3>1
    <3> QED
      BY <3>1, <3>2
  <2> QED
    BY <2>2, <2>3
<1> QED
  BY <1>7, <1>8, <1>9, <1>11, <1>12 DEF MasterInv

(* A unit of time: pings and silence grow older together.                   *)
LEMMA TickKeeps ==
  ASSUME MasterInv, Tick
  PROVE  MasterInv' /\ Drops
<1> DEFINE e == [s \in Servers |-> IF GetServer(ms_servers, s)
                                   THEN Aged(entry[s]) ELSE entry[s]]
<1>1. PICK n : n \in Ends(ms_servers, e) /\ MsFrame(ms_servers, e, wire, n)
  BY DEF Tick
<1>2. /\ unheard' = [s \in Servers |->
                       IF GetServer(ms_servers, s) THEN Older(unheard[s], Limit)
                       ELSE 0]
      /\ next_heartbeat' = [s \in Servers |->
                              IF next_heartbeat[s] > 0
                              THEN next_heartbeat[s] - 1 ELSE 0]
      /\ UNCHANGED <<running, changes, answered>>
  BY DEF Tick
<1>3. /\ ms_servers \in Seq(Servers) /\ Distinct(ms_servers)
      /\ entry \in [Servers -> Entry]
      /\ \A t \in Servers \ ToSet(ms_servers) : entry[t] = Registered
      /\ unheard \in [Servers -> 0 .. Limit]
      /\ next_heartbeat \in [Servers -> 0 .. Interval]
  BY DEF MasterInv, TypeOK, ListOK
<1>4. \A s \in Servers :
        /\ e[s] = IF s \in ToSet(ms_servers) THEN Aged(entry[s]) ELSE entry[s]
        /\ unheard'[s] = IF s \in ToSet(ms_servers) THEN Older(unheard[s], Limit)
                         ELSE 0
  BY <1>2 DEF GetServer
<1>5. \A s \in Servers :
        /\ Aged(entry[s]) \in Entry
        /\ Aged(entry[s]).queued_pings = entry[s].queued_pings
        /\ Aged(entry[s]).last_ping = Older(entry[s].last_ping, PingGap)
        /\ Aged(entry[s]).validated = entry[s].validated
  <2> TAKE s \in Servers
  <2>1. entry[s] \in Entry
    BY <1>3
  <2> QED
    BY <2>1, EntryFields
<1>6. e \in [Servers -> Entry]
  BY <1>3, <1>5
<1> HIDE DEF e
<1>7. /\ (ms_servers \in Seq(Servers))' /\ Distinct(ms_servers)'
      /\ entry' \in [Servers -> Entry]
      /\ \A t \in Servers \ ToSet(ms_servers') : entry'[t] = Registered
      /\ \A t \in ToSet(ms_servers) \ ToSet(ms_servers') : TimedOut(e[t])
      /\ \A t \in Servers : \/ entry'[t] = Registered
                            \/ entry'[t] = e[t]
                            \/ MayPing(e[t]) /\ entry'[t] = Pinged(e[t])
      /\ wire \subseteq wire'
      /\ wire' \subseteq wire \cup {<<"master", t, "ping">> : t \in Reachable}
  <2>1. \A t \in Servers \ ToSet(ms_servers) : e[t] = Registered
    BY <1>3, <1>4
  <2> QED
    BY <1>1, <1>3, <1>6, <2>1, MsFrameFacts
<1>8. \A s \in Servers : unheard'[s] \in 0 .. Limit
  BY <1>3, <1>4, Numbers DEF Older
<1>9. TypeOK'
  <2>1. wire' \subseteq Datagram
    BY <1>7 DEF MasterInv, TypeOK, Datagram
  <2>2. ToSet(ms_servers') \subseteq Servers
        /\ Len(ms_servers') = Cardinality(ToSet(ms_servers'))
    BY <1>7, ListType DEF Distinct
  <2>3. unheard' \in [Servers -> 0 .. Limit]
    BY <1>2, <1>8
  <2>4. next_heartbeat' \in [Servers -> 0 .. Interval]
    BY <1>2, <1>3, Numbers
  <2> QED
    BY <1>2, <1>7, <2>1, <2>2, <2>3, <2>4 DEF MasterInv, TypeOK
<1>10. ListOK'
  BY <1>7 DEF ListOK
<1>11. AnswersOK'
  <2>1. ASSUME NEW t \in Servers
        PROVE  /\ <<t, "master", "ack">> \in wire' => t \in answered'
               /\ entry'[t].validated => t \in answered'
    <3>1. /\ <<t, "master", "ack">> \in wire => t \in answered
          /\ entry[t].validated => t \in answered
          /\ answered' = answered
      BY <1>2 DEF MasterInv, AnswersOK
    <3>2. <<t, "master", "ack">> \in wire' => <<t, "master", "ack">> \in wire
      BY <1>7
    <3>3. e[t].validated = entry[t].validated
      BY <1>4, <1>5
    <3>4. entry'[t].validated => e[t].validated
      <4>1. ~Registered.validated
        BY DEF Registered
      <4>2. MayPing(e[t]) => Pinged(e[t]).validated = e[t].validated
        BY <1>6, EntryFields
      <4> QED
        BY <1>7, <4>1, <4>2
    <3> QED
      BY <3>1, <3>2, <3>3, <3>4
  <2> QED
    BY <2>1 DEF AnswersOK
<1>12. ASSUME NEW t \in Servers
       PROVE  \/ e[t].queued_pings = 0
              \/ unheard'[t] = Limit
              \/ unheard'[t] >= Waited(e[t])
  <2>1. /\ \/ entry[t].queued_pings = 0 \/ unheard[t] = Limit
           \/ unheard[t] >= Waited(entry[t])
        /\ unheard[t] \in 0 .. Limit
        /\ entry[t].queued_pings \in Nat /\ entry[t].last_ping \in Nat
    BY <1>3, Numbers DEF MasterInv, PingsOK, Entry
  <2>2. CASE t \notin ToSet(ms_servers)
    BY <1>3, <1>4, <2>2 DEF Registered
  <2>3. CASE t \in ToSet(ms_servers) /\ e[t].queued_pings # 0
    <3>1. /\ e[t].queued_pings = entry[t].queued_pings
          /\ e[t].last_ping <= entry[t].last_ping + 1 /\ e[t].last_ping \in Nat
      BY <1>4, <1>5, <2>1, <2>3, Numbers DEF Older
    <3>2. unheard'[t] = Limit \/ unheard'[t] = unheard[t] + 1
      BY <1>4, <2>1, <2>3, Numbers DEF Older
    <3> DEFINE a == (entry[t].queued_pings - 1) * PingGap
    <3>3. a \in Int
      BY <2>1, Numbers
    <3>4. Waited(entry[t]) = a + entry[t].last_ping /\ Waited(e[t]) = a + e[t].last_ping
      BY <3>1 DEF Waited
    <3>5. unheard[t] = Limit => unheard'[t] = Limit
      BY <1>4, <2>1, <2>3, Numbers DEF Older
    <3> HIDE DEF a
    <3> QED
      BY <2>1, <2>3, <3>1, <3>2, <3>3, <3>4, <3>5
  <2> QED
    BY <2>2, <2>3
<1>13. PingsOK'
  <2>1. ASSUME NEW t \in Servers
        PROVE  \/ entry'[t].queued_pings = 0
               \/ unheard'[t] = Limit
               \/ unheard'[t] >= Waited(entry'[t])
    <3>1. e[t] \in Entry /\ entry'[t] \in Entry /\ unheard'[t] \in 0 .. Limit
      BY <1>6, <1>7, <1>8
    <3> QED
      BY <3>1, <1>7, <1>12, FrameKeepsPings
  <2> QED
    BY <2>1 DEF PingsOK, Waited
<1>14. Drops
  <2> SUFFICES ASSUME NEW t \in ToSet(ms_servers) \ ToSet(ms_servers')
               PROVE  /\ unheard'[t] = Limit
                      /\ Overdue(Aged(entry[t]))
                      /\ <<t, "master", "heartbeat">> \notin wire \ wire'
    BY DEF Drops
  <2>1. t \in Servers /\ TimedOut(e[t])
    BY <1>3, <1>7, ListType
  <2>2. e[t] \in Entry /\ unheard'[t] \in 0 .. Limit
    BY <1>6, <1>8, <2>1
  <2>3. e[t] = Aged(entry[t])
    BY <1>4, <2>1
  <2>4. <<t, "master", "heartbeat">> \notin wire \ wire'
    BY <1>7
  <2> QED
    BY <2>1, <2>2, <2>3, <2>4, <1>12, TimedOutUnheard DEF TimedOut
<1> QED
  BY <1>9, <1>10, <1>11, <1>13, <1>14 DEF MasterInv

(* Every step keeps the invariant, and drops only whom it may.              *)
LEMMA NextKeeps ==
  ASSUME MasterInv, Next
  PROVE  MasterInv' /\ Drops
<1>1. CASE Tick
  BY <1>1, TickKeeps
<1>2. CASE Restart
  BY <1>2, RestartKeeps
<1>3. CASE \E s \in Servers :
             \E command \in {"ping", "heartbeat", "ack", "shutdown"} :
               Receive(s, command)
  BY <1>3, ReceiveKeeps
<1>4. CASE \/ \E s \in Servers : \/ InitServer(s) \/ ShutdownMasters(s)
                                 \/ SetMaster(s) \/ HeartbeatMasters(s)
                                 \/ ReadPacket(s)
           \/ \E d \in wire : Lose(d)
  BY <1>4, ServersKeep
<1> QED
  BY <1>1, <1>2, <1>3, <1>4 DEF Next

LEMMA StutterKeeps ==
  ASSUME MasterInv, UNCHANGED vars
  PROVE  MasterInv'
<1>1. UNCHANGED <<running, next_heartbeat, ms_servers, entry, wire, changes, unheard,
                  answered>>
  BY DEF vars, master, servers
<1> QED
  BY <1>1 DEF MasterInv, TypeOK, ListOK, AnswersOK, PingsOK, Distinct, Waited

THEOREM InvariantHolds == Spec => []MasterInv
<1>1. MasterInv /\ [Next]_vars => MasterInv'
  BY NextKeeps, StutterKeeps
<1> QED
  BY InitHolds, <1>1, PTL DEF Spec

(* Every entry, datagram and count is in its range, and the master lists no *)
(* server twice: TypeOK, for any servers and any of the times.              *)
THEOREM TypeCorrect == Spec => []TypeOK
<1>1. MasterInv => TypeOK
  BY DEF MasterInv
<1> QED
  BY <1>1, InvariantHolds, PTL

(* The list that clients are sent has only servers that answered a ping of  *)
(* the master at some time, of this run of it or of an earlier one          *)
(* (Ms_ParseMessage, Ms_GetServers): ListedAnswered.                        *)
THEOREM ListedHaveAnswered == Spec => []ListedAnswered
<1>1. MasterInv => ListedAnswered
  BY ListType DEF MasterInv, TypeOK, AnswersOK, ListedAnswered, Listed
<1> QED
  BY <1>1, InvariantHolds, PTL

(* Ms_Frame drops a server only while its heartbeat is overdue, and when    *)
(* all the pings it may queue, of this silence or of earlier ones, went     *)
(* unanswered for as long as they take: DroppedOnlyUnheard.                 *)
THEOREM UnheardAreDropped == Spec => DroppedOnlyUnheard
<1>1. MasterInv /\ [Next]_vars => [Drops]_vars
  BY NextKeeps
<1>2. [Drops]_vars => [\A s \in ToSet(ms_servers) \ ToSet(ms_servers') :
                         \/ <<s, "master", "shutdown">> \in wire \ wire'
                         \/ /\ unheard'[s] = Limit
                            /\ Overdue(IF Tick THEN Aged(entry[s]) ELSE entry[s])
                            /\ <<s, "master", "heartbeat">> \notin wire \ wire'
                         \/ Restart]_vars
  BY DEF Drops
<1> QED
  BY <1>1, <1>2, InvariantHolds, PTL DEF Spec, DroppedOnlyUnheard

-----------------------------------------------------------------------------
(***************************************************************************)
(* Whatever way a download takes, no wrong file gets its proper name: what *)
(* keeps the damage that a resumed download does under the temporary name  *)
(* is that the damaged file stays one byte short.                          *)
(***************************************************************************)

(* Nothing under way, in either direction. *)
Quiet == up = <<>> /\ down = <<>>

(* What may be left under the temporary name when a download is resumed:    *)
(* fewer bytes than the file has, or the file.                              *)
Resumable == temp = Absent \/ Len(temp) < size \/ temp = Bytes(size)

(* Anything else is from a web server, which then is asked first.           *)
TempOK ==
  /\ temp \in {Absent} \union Seq(0 .. MaxSize)
  /\ (url /\ ready) \/ Resumable

(* HTTP has the file as far as it has got, and nothing is under way. *)
HttpOK ==
  http =>
    /\ url /\ ~ready /\ Quiet /\ (connected => precache_check)
    /\ file \in Nat /\ (file = 0 \/ file <= size)
    /\ temp = Bytes(file)

(* A file is only open, and a message only under way, during a download. *)
OpenOK ==
  /\ ~connected => Quiet /\ ~precache_check /\ (~http => file = Closed)
  /\ connected /\ ~precache_check => Quiet /\ file = Closed

(* The open file, and what the server sends next, after sent bytes: either  *)
(* they agree, or the file is one byte behind, and then always will be.     *)
InStep(sent) == file = sent /\ temp = Bytes(sent)
OneBehind(sent) ==
  /\ sent > 0 /\ file = sent - 1
  /\ temp /= Absent /\ Len(temp) \in {sent - 1, sent}
  /\ sent = size => temp = Bytes(size)

(* A request for the first chunk. *)
DownloadOK(offset) ==
  \/ offset = 0 /\ (file = Closed \/ InStep(0))
  \/ offset = Len(temp) /\ offset <= size /\ OneBehind(offset)

(* A request for the next. *)
NextDlOK ==
  /\ 0 <= count /\ count <= size /\ size > 0 /\ buffer = (count /= size)
  /\ \/ InStep(count)
     \/ /\ count > 0 /\ file = count - 1
        /\ temp /= Absent /\ Len(temp) \in {count - 1, count}

(* A chunk. *)
ChunkOK(m) ==
  \E sent \in 0 .. size :
    /\ m = [percent |-> Percent(sent, ChunkLength(sent)),
            data |-> [i \in 1 .. ChunkLength(sent) |-> sent + i]]
    /\ size > 0 /\ count = sent + ChunkLength(sent) /\ buffer = (count /= size)
    /\ \/ sent = 0 /\ file = Closed
       \/ sent < size /\ InStep(sent)
       \/ OneBehind(sent)

MessagesOK ==
  /\ up = <<>> \/ down = <<>>
  /\ up /= <<>> =>
       \/ \E offset \in 0 .. MaxSize :
            up = <<[op |-> "download", offset |-> offset]>> /\ DownloadOK(offset)
       \/ up = <<[op |-> "nextdl"]>> /\ NextDlOK
  /\ down /= <<>> =>
       \/ down = <<Refused>>
       \/ \E m \in [percent : Int, data : Seq(0 .. MaxSize)] : down = <<m>> /\ ChunkOK(m)
  /\ file /= Closed /\ ~http => temp /= Absent /\ Resumable

DownloadInv == DownloadTypeOK /\ FileWhole /\ TempOK /\ HttpOK /\ OpenOK /\ MessagesOK

-----------------------------------------------------------------------------
(* The largest file is one there may be. *)
LEMMA MaxSizeIs == MaxSize \in Sizes /\ MaxSize \in Nat /\ \A n \in Sizes : n <= MaxSize
<1>1. \E n \in Sizes : \A m \in Sizes : m <= n
  BY DownloadAssumption
<1> QED
  BY <1>1, DownloadAssumption DEF MaxSize

LEMMA SizeIs ==
  ASSUME size \in Sizes \union {Missing}
  PROVE  size \in Int /\ -1 <= size /\ size <= MaxSize
BY MaxSizeIs, DownloadAssumption DEF Missing

(* The contents of a file of n bytes, or of none. *)
LEMMA BytesIs ==
  ASSUME NEW n \in Int, n <= MaxSize
  PROVE  /\ Bytes(n) \in Seq(0 .. MaxSize)
         /\ Len(Bytes(n)) = IF n > 0 THEN n ELSE 0
         /\ DOMAIN Bytes(n) = 1 .. n
         /\ \A i \in 1 .. n : Bytes(n)[i] = i
<1>1. CASE n > 0
  <2>1. Bytes(n) \in [1 .. n -> 0 .. MaxSize]
    BY <1>1, MaxSizeIs DEF Bytes
  <2> QED
    BY <1>1, <2>1 DEF Bytes
<1>2. CASE n <= 0
  <2>1. DOMAIN Bytes(n) = 1 .. n /\ \A i \in 1 .. n : Bytes(n)[i] = i
    BY DEF Bytes
  <2>2. Bytes(n) = <<>>
    BY <1>2 DEF Bytes
  <2> HIDE DEF Bytes
  <2> QED
    BY <1>2, <2>1, <2>2
<1> QED
  BY <1>1, <1>2

LEMMA RefusalIs ==
  ASSUME NEW n \in Nat
  PROVE  Refusal(n) \in Seq(0 .. MaxSize) /\ Len(Refusal(n)) = n
<1>1. Refusal(n) \in [1 .. n -> 0 .. MaxSize]
  BY MaxSizeIs DEF Refusal
<1> QED
  BY <1>1 DEF Refusal

(* No file holds what stands for no file. *)
LEMMA AbsentIsNoFile == Absent \notin Seq(0 .. MaxSize)
<1> SUFFICES ASSUME Absent \in Seq(0 .. MaxSize) PROVE FALSE
  OBVIOUS
<1>1. Absent[1] \in 0 .. MaxSize
  BY DEF Absent
<1> QED
  BY <1>1 DEF Absent

(* Writing at a place that exists or at the end. *)
LEMMA WrittenIs ==
  ASSUME NEW S, NEW c \in Seq(S), NEW b \in Seq(S), NEW pos \in 0 .. Len(c)
  PROVE  /\ Written(c, pos, b) \in Seq(S)
         /\ Len(Written(c, pos, b)) =
              IF pos + Len(b) > Len(c) THEN pos + Len(b) ELSE Len(c)
<1> DEFINE x == SubSeq(c, 1, pos)
           y == SubSeq(c, pos + Len(b) + 1, Len(c))
<1>1. x \in Seq(S) /\ Len(x) = pos
  OBVIOUS
<1>2. /\ y \in Seq(S)
      /\ pos + Len(b) < Len(c) => Len(y) = Len(c) - (pos + Len(b))
      /\ pos + Len(b) >= Len(c) => Len(y) = 0
  OBVIOUS
<1> DEFINE z == x \o b
<1>3. Written(c, pos, b) = z \o y
  BY DEF Written
<1> HIDE DEF x, y
<1>4. z \in Seq(S) /\ Len(z) = pos + Len(b)
  BY <1>1
<1> HIDE DEF z
<1>5. z \o y \in Seq(S) /\ Len(z \o y) = Len(z) + Len(y)
  BY <1>2, <1>4, ConcatProperties
<1>6. pos \in Nat /\ Len(b) \in Nat /\ Len(c) \in Nat
  OBVIOUS
<1>7. Len(z \o y) = IF pos + Len(b) > Len(c) THEN pos + Len(b) ELSE Len(c)
  <2>1. CASE pos + Len(b) >= Len(c)
    BY <1>2, <1>4, <1>5, <1>6, <2>1
  <2>2. CASE pos + Len(b) < Len(c)
    <3>1. Len(z \o y) = (pos + Len(b)) + (Len(c) - (pos + Len(b)))
      BY <1>2, <1>4, <1>5, <2>2
    <3> QED
      BY <1>6, <2>2, <3>1
  <2> QED
    BY <1>6, <2>1, <2>2
<1> QED
  BY <1>3, <1>5, <1>7

(* What a chunk holds. *)
LEMMA DataIs ==
  ASSUME NEW p \in Nat, NEW n \in Nat, p + n <= MaxSize
  PROVE  /\ [i \in 1 .. n |-> p + i] \in Seq(0 .. MaxSize)
         /\ Len([i \in 1 .. n |-> p + i]) = n
<1>1. [i \in 1 .. n |-> p + i] \in [1 .. n -> 0 .. MaxSize]
  BY MaxSizeIs
<1> QED
  BY <1>1

(* Writing the bytes that follow at the end of the first ones. *)
LEMMA WrittenNext ==
  ASSUME NEW p \in Nat, NEW n \in Nat, p + n <= MaxSize
  PROVE  Written(Bytes(p), p, [i \in 1 .. n |-> p + i]) = Bytes(p + n)
<1> DEFINE b == [i \in 1 .. n |-> p + i]
           w == Written(Bytes(p), p, b)
<1>1. b \in Seq(0 .. MaxSize) /\ Len(b) = n
  BY DataIs
<1>2. /\ Bytes(p) \in Seq(0 .. MaxSize) /\ Len(Bytes(p)) = p
      /\ \A i \in 1 .. p : Bytes(p)[i] = i
  BY BytesIs, MaxSizeIs
<1>3. /\ Bytes(p + n) \in Seq(0 .. MaxSize) /\ Len(Bytes(p + n)) = p + n
      /\ \A i \in 1 .. p + n : Bytes(p + n)[i] = i
  BY BytesIs, MaxSizeIs
<1>4. w \in Seq(0 .. MaxSize) /\ Len(w) = p + n
  <2>1. p \in 0 .. Len(Bytes(p))
    BY <1>2
  <2> HIDE DEF b
  <2> QED
    BY <1>1, <1>2, <2>1, WrittenIs
<1>5. /\ SubSeq(Bytes(p), 1, p) = Bytes(p)
      /\ SubSeq(Bytes(p), p + Len(b) + 1, Len(Bytes(p))) = <<>>
  BY <1>1, <1>2
<1>6. w = Bytes(p) \o b
  BY <1>1, <1>2, <1>5 DEF Written
<1>7. \A i \in 1 .. n : b[i] = p + i
  OBVIOUS
<1> HIDE DEF w, b
<1>8. \A i \in 1 .. p + n : w[i] = i
  BY <1>1, <1>2, <1>6, <1>7
<1>9. w = Bytes(p + n)
  BY <1>3, <1>4, <1>8, SeqEqual
<1> QED
  BY <1>9 DEF w, b

(* The same of a file that is opened anew. *)
LEMMA WrittenFirst ==
  ASSUME NEW n \in Nat, n <= MaxSize
  PROVE  Written(<<>>, 0, [i \in 1 .. n |-> 0 + i]) = Bytes(n)
<1>1. Bytes(0) = <<>>
  BY DEF Bytes
<1>2. Written(Bytes(0), 0, [i \in 1 .. n |-> 0 + i]) = Bytes(0 + n)
  BY WrittenNext
<1> QED
  BY <1>1, <1>2

(* What HTTP has got so far is a file as far as it goes. *)
LEMMA WrittenPart ==
  ASSUME NEW p \in Nat, NEW n \in Nat, NEW s \in Nat, p <= n, n <= s, s <= MaxSize
  PROVE  Written(Bytes(p), p, SubSeq(Bytes(s), p + 1, n)) = Bytes(n)
<1>1. Bytes(s) \in Seq(0 .. MaxSize) /\ Len(Bytes(s)) = s /\ \A i \in 1 .. s : Bytes(s)[i] = i
  BY BytesIs
<1>2. SubSeq(Bytes(s), p + 1, n) = [i \in 1 .. n - p |-> p + i]
  BY <1>1
<1>3. n - p \in Nat /\ p + (n - p) = n
  OBVIOUS
<1>4. \A k \in Nat : p + k <= MaxSize =>
        Written(Bytes(p), p, [i \in 1 .. k |-> p + i]) = Bytes(p + k)
  BY WrittenNext
<1>5. Written(Bytes(p), p, [i \in 1 .. n - p |-> p + i]) = Bytes(n)
  BY <1>3, <1>4, MaxSizeIs
<1> QED
  BY <1>2, <1>5

(* The server says that all is sent only with a chunk that follows all. *)
LEMMA DoneIsAll ==
  ASSUME size \in Nat, size > 0, NEW sent \in 0 .. size, NEW len \in Nat,
         Percent(sent, len) = 100
  PROVE  sent = size
<1>1. (sent * 100) \div size = 100
  BY DEF Percent
<1>2. sent * 100 >= size * 100
  BY <1>1
<1> QED
  BY <1>2

(* Writing nothing. *)
LEMMA WrittenNothing ==
  ASSUME NEW S, NEW c \in Seq(S), NEW pos \in 0 .. Len(c)
  PROVE  Written(c, pos, <<>>) = c
<1> DEFINE none == <<>>
           w == Written(c, pos, none)
           x == SubSeq(c, 1, pos)
           y == SubSeq(c, pos + 1, Len(c))
<1>1. none \in Seq(S) /\ Len(none) = 0 /\ Len(c) \in Nat /\ pos \in Nat
  OBVIOUS
<1> HIDE DEF none
<1>2. w \in Seq(S) /\ Len(w) = Len(c)
  <2>1. /\ w \in Seq(S)
        /\ Len(w) = IF pos + Len(none) > Len(c) THEN pos + Len(none) ELSE Len(c)
    BY <1>1, WrittenIs
  <2>2. pos + Len(none) = pos /\ ~(pos > Len(c))
    BY <1>1
  <2> QED
    BY <2>1, <2>2
<1>3. w = x \o none \o y
  <2>1. pos + Len(none) + 1 = pos + 1
    BY <1>1
  <2> QED
    BY <2>1 DEF Written
<1>4. /\ x \in Seq(S) /\ Len(x) = pos /\ \A i \in 1 .. pos : x[i] = c[i]
      /\ y \in Seq(S) /\ Len(y) = Len(c) - pos
      /\ \A i \in 1 .. Len(c) - pos : y[i] = c[pos + i]
  OBVIOUS
<1> HIDE DEF w, x, y
<1>5. x \o none = x
  BY <1>4 DEF none
<1>6. \A i \in 1 .. Len(c) : w[i] = IF i <= pos THEN x[i] ELSE y[i - pos]
  BY <1>1, <1>3, <1>4, <1>5, ConcatProperties
<1>7. ASSUME NEW i \in 1 .. Len(c) PROVE w[i] = c[i]
  <2>1. CASE i <= pos
    BY <1>1, <1>4, <1>6, <2>1
  <2>2. CASE i > pos
    <3>1. i - pos \in 1 .. Len(c) - pos /\ pos + (i - pos) = i /\ ~(i <= pos)
      BY <1>1, <2>2
    <3>2. y[i - pos] = c[pos + (i - pos)]
      BY <1>4, <3>1
    <3>3. w[i] = y[i - pos]
      BY <1>6, <3>1
    <3> QED
      BY <3>1, <3>2, <3>3
  <2> QED
    BY <1>1, <2>1, <2>2
<1>8. w = c
  BY <1>2, <1>7, SeqEqual
<1> QED
  BY <1>8 DEF w, none

(* The beginning of a file that may be resumed may be resumed. *)
LEMMA PrefixIs ==
  ASSUME NEW S, NEW c \in Seq(S), NEW n \in 0 .. Len(c)
  PROVE  /\ SubSeq(c, 1, n) \in Seq(S) /\ Len(SubSeq(c, 1, n)) = n
         /\ n = Len(c) => SubSeq(c, 1, n) = c
<1>1. SubSeq(c, 1, n) \in Seq(S) /\ Len(SubSeq(c, 1, n)) = n
  OBVIOUS
<1>2. \A i \in 1 .. n : SubSeq(c, 1, n)[i] = c[i]
  OBVIOUS
<1>3. n = Len(c) => SubSeq(c, 1, n) = c
  BY <1>1, <1>2, SeqEqual
<1> QED
  BY <1>1, <1>3

-----------------------------------------------------------------------------
(* A new connection, and the end of one. *)
LEMMA ConnectStep ==
  ASSUME DownloadInv, Connect
  PROVE  DownloadInv'
<1>1. /\ ~connected /\ ~http /\ connected' = TRUE /\ up' = <<>> /\ down' = <<>>
      /\ UNCHANGED <<size, sv_udp_download, url, precache_check, file, temp, final,
                     http, ready, status, buffer, count>>
  BY DEF Connect, world, curl, server
<1>2. file = Closed /\ ~precache_check
  BY <1>1 DEF DownloadInv, OpenOK
<1>3. DownloadTypeOK'
  BY <1>1 DEF DownloadInv, DownloadTypeOK
<1>4. FileWhole' /\ TempOK'
  BY <1>1 DEF DownloadInv, FileWhole, TempOK, Resumable
<1> QED
  BY <1>1, <1>2, <1>3, <1>4 DEF DownloadInv, HttpOK, OpenOK, MessagesOK, Quiet

(* Whatever ends a connection leaves a file that is resumable, or one that  *)
(* HTTP has begun and will begin anew.                                      *)
LEMMA ConnectionEnds ==
  ASSUME DownloadInv, connected' = FALSE, precache_check' = FALSE,
         up' = <<>>, down' = <<>>, file' = Closed, http' = FALSE,
         UNCHANGED server \/ (buffer' = FALSE /\ count' = 0),
         temp' = temp \/ (file # Closed /\ \E n \in 0 .. Len(temp) : temp' = SubSeq(temp, 1, n)),
         ready' \in BOOLEAN, ready \/ http => ready', status' \in {0, 200},
         UNCHANGED <<world, final>>
  PROVE  DownloadInv'
<1>1. UNCHANGED <<size, sv_udp_download, url, final>> /\ DownloadInv
  BY DEF world
<1>2. size \in Int /\ size <= MaxSize /\ MaxSize \in Nat
  BY SizeIs, MaxSizeIs DEF DownloadInv, DownloadTypeOK
<1>3. CASE temp' = temp
  <2>1. DownloadTypeOK'
    <3>1. {http', ready', buffer', connected', precache_check'} \subseteq BOOLEAN
      BY DEF DownloadInv, DownloadTypeOK, server
    <3>2. count' \in 0 .. MaxSize /\ (buffer' => count' < size)
      BY <1>2 DEF DownloadInv, DownloadTypeOK, server
    <3> QED
      BY <1>1, <1>3, <3>1, <3>2 DEF DownloadInv, DownloadTypeOK
  <2>2. TempOK'
    BY <1>1, <1>3 DEF DownloadInv, TempOK, Resumable, HttpOK
  <2> QED
    BY <1>1, <2>1, <2>2
       DEF DownloadInv, FileWhole, HttpOK, OpenOK, MessagesOK, Quiet
<1>4. CASE temp' # temp
  <2>1. temp \in Seq(0 .. MaxSize) /\ (~http => Resumable)
    <3>1. http => temp \in Seq(0 .. MaxSize)
      BY <1>2, BytesIs DEF DownloadInv, HttpOK
    <3> QED
      BY <1>1, <1>4, <3>1 DEF DownloadInv, TempOK, MessagesOK
  <2>2. PICK n \in 0 .. Len(temp) : temp' = SubSeq(temp, 1, n)
    BY <1>4
  <2>3. temp' \in Seq(0 .. MaxSize) /\ Len(temp') = n
    BY <2>1, <2>2, PrefixIs
  <2>4. DownloadTypeOK'
    <3>1. temp' \in Seq(-1 .. MaxSize) /\ Len(temp') <= MaxSize + MaxRefusal
      <4>1. Len(temp) <= MaxSize + MaxRefusal
        BY <2>1, AbsentIsNoFile DEF DownloadInv, DownloadTypeOK
      <4> QED
        BY <1>2, <2>1, <2>2, <2>3, <4>1, DownloadAssumption
    <3>2. {http', ready', buffer', connected', precache_check'} \subseteq BOOLEAN
      BY DEF DownloadInv, DownloadTypeOK, server
    <3>3. count' \in 0 .. MaxSize /\ (buffer' => count' < size)
      BY <1>2 DEF DownloadInv, DownloadTypeOK, server
    <3> QED
      BY <1>1, <3>1, <3>2, <3>3 DEF DownloadInv, DownloadTypeOK
  <2>5. ~http => Resumable'
    <3>1. n # Len(temp)
      BY <1>4, <2>1, <2>2, PrefixIs
    <3>2. ~http => temp # Absent /\ Resumable
      BY <1>1, <1>4 DEF DownloadInv, MessagesOK
    <3>3. Len(Bytes(size)) = IF size > 0 THEN size ELSE 0
      BY <1>2, BytesIs
    <3> QED
      BY <1>1, <1>2, <2>1, <2>3, <3>1, <3>2, <3>3 DEF Resumable
  <2>6. TempOK'
    BY <1>1, <2>3, <2>5 DEF DownloadInv, TempOK, HttpOK
  <2> QED
    BY <1>1, <2>4, <2>6
       DEF DownloadInv, FileWhole, HttpOK, OpenOK, MessagesOK, Quiet
<1> QED
  BY <1>3, <1>4

LEMMA DisconnectStep ==
  ASSUME DownloadInv, Disconnect
  PROVE  DownloadInv'
<1>1. http' = FALSE /\ file' = Closed /\ ready' \in BOOLEAN
      /\ (ready \/ http => ready') /\ status' \in {0, 200}
  BY DEF Disconnect, HttpFailed, curl, DownloadInv, DownloadTypeOK
<1> QED
  BY <1>1, ConnectionEnds DEF Disconnect

LEMMA KillStep ==
  ASSUME DownloadInv, Kill
  PROVE  DownloadInv'
BY ConnectionEnds DEF Kill

-----------------------------------------------------------------------------
(* HTTP gets more of the file, all of it, or something else. *)
LEMMA HttpReceiveStep ==
  ASSUME DownloadInv, HttpReceive
  PROVE  DownloadInv'
<1>1. /\ http /\ size # Missing /\ status' = 200
      /\ UNCHANGED <<size, sv_udp_download, url, final, http, ready>>
      /\ IF status = 0 THEN SendDisconnect
         ELSE UNCHANGED <<connected, precache_check, stream, server>>
  BY DEF HttpReceive, world
<1>2. size \in Nat /\ size <= MaxSize /\ MaxSize \in Nat
  BY <1>1, SizeIs, MaxSizeIs DEF DownloadInv, DownloadTypeOK, Missing
<1>3. /\ url /\ ~ready /\ Quiet /\ (connected => precache_check)
      /\ file \in Nat /\ file <= size /\ temp = Bytes(file)
  BY <1>1, <1>2 DEF DownloadInv, HttpOK
<1>4. PICK n \in file .. size :
        /\ temp' = Written(temp, file, SubSeq(Bytes(size), file + 1, n))
        /\ file' = n
  BY DEF HttpReceive
<1>5. n \in Nat /\ n <= size /\ temp' = Bytes(n)
  BY <1>2, <1>3, <1>4, WrittenPart
<1>6. temp' \in Seq(0 .. MaxSize) /\ Len(temp') = n
  BY <1>2, <1>5, BytesIs
<1>7. Quiet' /\ (connected' => precache_check')
  BY <1>1, <1>3 DEF SendDisconnect, Quiet, stream
<1>8. DownloadTypeOK'
  <2>1. {http', ready', buffer', connected', precache_check'} \subseteq BOOLEAN
    BY <1>1 DEF DownloadInv, DownloadTypeOK, server, SendDisconnect
  <2>2. count' \in 0 .. MaxSize /\ (buffer' => count' < size)
    BY <1>1, <1>2 DEF DownloadInv, DownloadTypeOK, server, SendDisconnect
  <2>3. temp' \in Seq(-1 .. MaxSize) /\ Len(temp') <= MaxSize + MaxRefusal
    BY <1>2, <1>5, <1>6, DownloadAssumption
  <2>4. file' \in 0 .. MaxSize /\ file' # Closed
    BY <1>2, <1>4, <1>5 DEF Closed
  <2> QED
    BY <1>1, <1>7, <2>1, <2>2, <2>3, <2>4 DEF DownloadInv, DownloadTypeOK, Quiet
<1>9. TempOK'
  <2>1. n = size \/ n < size
    BY <1>2, <1>5
  <2> QED
    BY <1>1, <1>5, <1>6, <2>1 DEF TempOK, Resumable
<1>10. HttpOK'
  BY <1>1, <1>3, <1>4, <1>5, <1>7 DEF HttpOK
<1>11. OpenOK'
  <2>1. connected' => connected
    BY <1>1 DEF SendDisconnect
  <2>2. ~connected' => ~precache_check'
    BY <1>1 DEF SendDisconnect, DownloadInv, OpenOK
  <2> QED
    BY <1>1, <1>7, <2>2 DEF OpenOK
<1> QED
  BY <1>1, <1>7, <1>8, <1>9, <1>10, <1>11 DEF DownloadInv, FileWhole, MessagesOK, Quiet

LEMMA HttpErrorStep ==
  ASSUME DownloadInv, HttpError
  PROVE  DownloadInv'
<1>1. /\ http /\ file' = Closed /\ http' = FALSE /\ ready' = TRUE /\ down' = down
      /\ UNCHANGED <<size, sv_udp_download, url, connected, precache_check, final,
                     status, buffer, count>>
      /\ IF connected THEN Ask(0) ELSE up' = up
  BY DEF HttpError, HttpFailed, world, server
<1>2. url /\ Quiet /\ (connected => precache_check) /\ file \in Nat
      /\ (file = 0 \/ file <= size) /\ temp = Bytes(file)
  BY <1>1 DEF DownloadInv, HttpOK
<1>3. size \in Int /\ size <= MaxSize /\ MaxSize \in Nat
  BY SizeIs, MaxSizeIs DEF DownloadInv, DownloadTypeOK
<1>4. /\ down' = <<>>
      /\ up' = IF connected THEN <<[op |-> "download", offset |-> 0]>> ELSE <<>>
  BY <1>1, <1>2 DEF Ask, Quiet
<1>5. temp' \in Seq(0 .. MaxSize) /\ Len(temp') <= MaxSize + MaxRefusal
  <2>1. CASE temp' = temp
    <3>1. temp \in Seq(0 .. MaxSize) /\ Len(temp) = file /\ file <= MaxSize
      BY <1>2, <1>3, BytesIs
    <3> QED
      BY <1>2, <1>3, <2>1, <3>1, DownloadAssumption
  <2>2. CASE \E n \in 0 .. MaxRefusal : temp' = Refusal(n)
    <3>1. PICK n \in 0 .. MaxRefusal : temp' = Refusal(n)
      BY <2>2
    <3>2. n \in Nat
      BY DownloadAssumption
    <3>3. temp' \in Seq(0 .. MaxSize) /\ Len(temp') = n
      BY <3>1, <3>2, RefusalIs
    <3> QED
      BY <1>3, <3>1, <3>3, DownloadAssumption
  <2> QED
    BY <2>1, <2>2 DEF HttpError
<1>6. DownloadTypeOK'
  <2>1. [op |-> "download", offset |-> 0] \in Request
    BY <1>3 DEF Request
  <2>2. Len(up') + Len(down') <= 1 /\ \A i \in DOMAIN up' : up'[i] \in Request
    BY <1>4, <2>1
  <2>3. {http', ready', buffer', connected', precache_check'} \subseteq BOOLEAN
    BY <1>1 DEF DownloadInv, DownloadTypeOK
  <2>4. temp' \in Seq(-1 .. MaxSize)
    BY <1>3, <1>5
  <2> QED
    BY <1>1, <1>5, <2>2, <2>3, <2>4 DEF DownloadInv, DownloadTypeOK
<1>7. TempOK' /\ FileWhole' /\ HttpOK'
  BY <1>1, <1>2, <1>5 DEF DownloadInv, TempOK, FileWhole, HttpOK
<1>8. OpenOK'
  BY <1>1, <1>2, <1>4 DEF DownloadInv, OpenOK, Quiet
<1>9. MessagesOK'
  <2>1. up' # <<>> => DownloadOK(0)'
    BY <1>1 DEF DownloadOK
  <2> QED
    BY <1>1, <1>3, <1>4, <2>1 DEF MessagesOK
<1> QED
  BY <1>6, <1>7, <1>8, <1>9 DEF DownloadInv

LEMMA HttpDoneStep ==
  ASSUME DownloadInv, HttpDone
  PROVE  DownloadInv'
<1>1. /\ http /\ file = size /\ file' = Closed /\ http' = FALSE
      /\ UNCHANGED <<size, sv_udp_download, url, connected, precache_check, temp,
                     final, ready, status, buffer, count, up, down>>
  BY DEF HttpDone, world, server, stream
<1>2. Quiet /\ temp = Bytes(size) /\ (connected => precache_check)
  BY <1>1 DEF DownloadInv, HttpOK
<1>3. DownloadTypeOK' /\ FileWhole'
  BY <1>1 DEF DownloadInv, DownloadTypeOK, FileWhole
<1>4. TempOK'
  BY <1>1, <1>2 DEF DownloadInv, TempOK, Resumable
<1> QED
  BY <1>1, <1>2, <1>3, <1>4 DEF DownloadInv, HttpOK, OpenOK, MessagesOK, Quiet

-----------------------------------------------------------------------------
(* A download begins: by HTTP, where another left off, or anew. *)
LEMMA CheckStep ==
  ASSUME DownloadInv, connected, file = Closed, Quiet, CheckOrDownloadFile,
         connected' = connected, precache_check' = TRUE,
         UNCHANGED <<world, final, server, down>>
  PROVE  DownloadInv'
<1>1. /\ UNCHANGED <<size, sv_udp_download, url, final, buffer, count>>
      /\ down' = <<>> /\ up = <<>> /\ ~http
  BY DEF world, server, Quiet, DownloadInv, DownloadTypeOK
<1>2. size \in Int /\ size <= MaxSize /\ MaxSize \in Nat
  BY SizeIs, MaxSizeIs DEF DownloadInv, DownloadTypeOK
<1>3. FileWhole' /\ OpenOK'
  BY <1>1 DEF DownloadInv, FileWhole, OpenOK
<1>4. CASE UNCHANGED <<file, temp, curl, up>>
  <2>1. UNCHANGED <<file, temp, http, ready, status, up>>
    BY <1>4 DEF curl
  <2>2. DownloadTypeOK' /\ TempOK' /\ HttpOK' /\ MessagesOK'
    BY <1>1, <2>1
       DEF DownloadInv, DownloadTypeOK, TempOK, Resumable, HttpOK, MessagesOK, Quiet
  <2> QED
    BY <1>3, <2>2 DEF DownloadInv
<1>5. CASE HttpDownload
  <2>1. /\ url /\ temp' = <<>> /\ file' = 0 /\ up' = <<>>
        /\ http' = TRUE /\ ready' = FALSE /\ status' = 0
    BY <1>1, <1>5 DEF HttpDownload
  <2>2. Bytes(0) = <<>> /\ (size <= 0 => Bytes(size) = <<>>)
    BY <1>2 DEF Bytes
  <2>3. TempOK' /\ HttpOK'
    BY <1>1, <1>2, <2>1, <2>2 DEF TempOK, Resumable, HttpOK, Quiet
  <2>4. DownloadTypeOK'
    <3>1. {http', ready', buffer', connected', precache_check'} \subseteq BOOLEAN
      BY <1>1, <2>1 DEF DownloadInv, DownloadTypeOK
    <3>2. Len(temp') <= MaxSize + MaxRefusal
      BY <1>2, <2>1, DownloadAssumption
    <3> QED
      BY <1>1, <1>2, <2>1, <3>1, <3>2 DEF DownloadInv, DownloadTypeOK, Closed
  <2> QED
    BY <1>1, <1>3, <2>1, <2>3, <2>4 DEF DownloadInv, MessagesOK
<1>6. ASSUME NEW offset \in 0 .. MaxSize, Ask(offset), UNCHANGED <<temp, curl>>,
             file' = Closed \/ (file' \in 0 .. MaxSize /\ temp # Absent /\ Resumable),
             DownloadOK(offset)'
      PROVE  DownloadInv'
  <2>1. /\ UNCHANGED <<temp, http, ready, status>>
        /\ up' = <<[op |-> "download", offset |-> offset]>>
    BY <1>1, <1>6 DEF curl, Ask
  <2>2. TempOK' /\ HttpOK'
    BY <1>1, <2>1 DEF DownloadInv, TempOK, Resumable, HttpOK
  <2>3. DownloadTypeOK'
    <3>1. [op |-> "download", offset |-> offset] \in Request
      BY DEF Request
    <3>2. Len(up') + Len(down') <= 1 /\ \A i \in DOMAIN up' : up'[i] \in Request
      BY <1>1, <2>1, <3>1
    <3>3. {http', ready', buffer', connected', precache_check'} \subseteq BOOLEAN
      BY <1>1, <2>1 DEF DownloadInv, DownloadTypeOK
    <3> QED
      BY <1>1, <1>6, <2>1, <3>2, <3>3 DEF DownloadInv, DownloadTypeOK
  <2>4. MessagesOK'
    BY <1>1, <1>6, <2>1 DEF MessagesOK, Resumable
  <2> QED
    BY <1>3, <2>2, <2>3, <2>4 DEF DownloadInv
<1>7. CASE ~(url /\ ready) /\ ResumeDownload
  <2>1. /\ temp # Absent /\ Len(temp) > 0 /\ file' = Len(temp) - 1
        /\ Ask(Len(temp)) /\ UNCHANGED <<temp, curl>>
    BY <1>7 DEF ResumeDownload
  <2>2. Resumable /\ temp \in Seq(0 .. MaxSize)
    BY <1>7, <2>1 DEF DownloadInv, TempOK
  <2>3. Len(Bytes(size)) = IF size > 0 THEN size ELSE 0
    BY <1>2, BytesIs
  <2>4. Len(temp) \in Nat /\ Len(temp) <= size /\ (Len(temp) = size => temp = Bytes(size))
    BY <1>2, <2>1, <2>2, <2>3 DEF Resumable
  <2>5. DownloadOK(Len(temp))'
    BY <1>1, <2>1, <2>4 DEF DownloadOK, OneBehind
  <2> QED
    BY <1>2, <1>6, <2>1, <2>2, <2>4, <2>5
<1>8. CASE ~(url /\ ready) /\ StartDownload
  <2>1. /\ temp \in {Absent, <<>>} /\ Ask(0) /\ UNCHANGED <<temp, curl>>
        /\ file' = IF temp = Absent THEN Closed ELSE 0
    BY <1>8 DEF StartDownload
  <2>2. Resumable
    BY <1>8 DEF DownloadInv, TempOK
  <2>3. Bytes(0) = <<>>
    BY DEF Bytes
  <2>4. DownloadOK(0)'
    BY <2>1, <2>3 DEF DownloadOK, InStep
  <2> QED
    BY <1>2, <1>6, <2>1, <2>2, <2>4
<1> QED
  BY <1>4, <1>5, <1>7, <1>8 DEF CheckOrDownloadFile

LEMMA PrecacheStep ==
  ASSUME DownloadInv, RequestNextDownload \/ Download_f
  PROVE  DownloadInv'
<1>1. connected /\ file = Closed /\ Quiet
  BY DEF RequestNextDownload, Download_f, DownloadInv, OpenOK, Quiet
<1>2. precache_check' = TRUE
  BY DEF RequestNextDownload, Download_f, DownloadInv, DownloadTypeOK
<1> QED
  BY <1>1, <1>2, CheckStep DEF RequestNextDownload, Download_f

-----------------------------------------------------------------------------
(* The server sends a chunk, the first or the next, if it has the file      *)
(* open.                                                                    *)
LEMMA ChunkIs ==
  ASSUME size \in Nat, NEW sent \in 0 .. size
  PROVE  /\ ChunkLength(sent) \in Nat /\ sent + ChunkLength(sent) <= size
         /\ sent < size => ChunkLength(sent) > 0
BY DownloadAssumption DEF ChunkLength, Least

LEMMA NextDownloadStep ==
  ASSUME DownloadInv, up # <<>>, up' = <<>>, NEW open \in BOOLEAN, NEW sent,
         NextDownload(open, sent),
         open => /\ size \in Nat /\ size > 0 /\ sent \in 0 .. size
                 /\ \/ sent = 0 /\ file = Closed
                    \/ sent < size /\ InStep(sent)
                    \/ OneBehind(sent),
         ~open => sent \in 0 .. MaxSize,
         UNCHANGED <<world, connected, precache_check, file, temp, final, curl>>
  PROVE  DownloadInv'
<1>1. /\ UNCHANGED <<size, sv_udp_download, url, http, ready, status>>
      /\ down = <<>> /\ ~http /\ connected /\ precache_check
  BY DEF world, curl, DownloadInv, HttpOK, OpenOK, MessagesOK, Quiet, DownloadTypeOK
<1>2. size \in Int /\ size <= MaxSize /\ MaxSize \in Nat
  BY SizeIs, MaxSizeIs DEF DownloadInv, DownloadTypeOK
<1>3. FileWhole' /\ TempOK' /\ HttpOK' /\ OpenOK'
  BY <1>1 DEF DownloadInv, FileWhole, TempOK, Resumable, HttpOK, OpenOK
<1>4. {http', ready', connected', precache_check'} \subseteq BOOLEAN
  BY <1>1 DEF DownloadInv, DownloadTypeOK
<1>5. CASE open
  <2>1. PICK len : len = ChunkLength(sent)
    OBVIOUS
  <2>2. /\ size \in Nat /\ size > 0 /\ sent \in 0 .. size
        /\ len \in Nat /\ sent + len <= size
    BY <1>5, <2>1, ChunkIs
  <2>3. PICK m : m = [percent |-> Percent(sent, len), data |-> [i \in 1 .. len |-> sent + i]]
    OBVIOUS
  <2>4. down' = <<m>> /\ count' = sent + len /\ buffer' = (sent + len # size)
    BY <1>1, <1>5, <2>1, <2>3 DEF NextDownload
  <2>5. m \in [percent : Int, data : Seq(0 .. MaxSize)]
    <3>1. [i \in 1 .. len |-> sent + i] \in Seq(0 .. MaxSize)
      BY <1>2, <2>2, DataIs
    <3>2. Percent(sent, len) \in Int
      BY <2>2 DEF Percent
    <3> QED
      BY <2>3, <3>1, <3>2
  <2>6. ChunkOK(m)'
    <3>1. \/ sent = 0 /\ file' = Closed
          \/ sent < size /\ InStep(sent)'
          \/ OneBehind(sent)'
      BY <1>1, <1>5 DEF InStep, OneBehind
    <3>2. Percent(sent, len)' = Percent(sent, len) /\ ChunkLength(sent)' = len
      BY <1>1, <2>1 DEF Percent, ChunkLength
    <3> QED
      BY <1>1, <2>2, <2>3, <2>4, <3>1, <3>2 DEF ChunkOK
  <2>7. MessagesOK'
    <3>1. file' # Closed /\ ~http' => temp' # Absent /\ Resumable'
      BY <1>1 DEF DownloadInv, MessagesOK, Resumable
    <3> QED
      BY <2>4, <2>5, <2>6, <3>1 DEF MessagesOK
  <2>8. DownloadTypeOK'
    <3>1. count' \in 0 .. MaxSize /\ (buffer' => count' < size)
      <4>1. sent \in Nat /\ sent + len <= MaxSize
        BY <1>2, <2>2
      <4>2. sent + len # size => sent + len < size
        BY <2>2
      <4>3. count' \in 0 .. MaxSize
        BY <2>2, <2>4, <4>1
      <4>4. buffer' => sent + len # size
        BY <2>4, Zenon
      <4> QED
        BY <2>4, <4>2, <4>3, <4>4
    <3>2. Len(up') + Len(down') <= 1 /\ \A i \in DOMAIN up' : up'[i] \in Request
      BY <2>4
    <3>3. buffer' \in BOOLEAN
      BY <2>4
    <3> QED
      BY <1>1, <1>4, <3>1, <3>2, <3>3 DEF DownloadInv, DownloadTypeOK
  <2> QED
    BY <1>3, <2>7, <2>8 DEF DownloadInv
<1>6. CASE ~open
  <2>1. buffer' = FALSE /\ count' = sent /\ down' = <<>> /\ sent \in 0 .. MaxSize
    BY <1>1, <1>6 DEF NextDownload
  <2>2. MessagesOK'
    BY <1>1, <2>1 DEF DownloadInv, MessagesOK, Resumable
  <2>3. DownloadTypeOK'
    <3>1. Len(up') + Len(down') <= 1 /\ \A i \in DOMAIN up' : up'[i] \in Request
      BY <2>1
    <3> QED
      BY <1>1, <1>4, <2>1, <3>1 DEF DownloadInv, DownloadTypeOK
  <2> QED
    BY <1>3, <2>2, <2>3 DEF DownloadInv
<1> QED
  BY <1>5, <1>6

(* The server sends no files, or has none of the name. *)
LEMMA RefuseStep ==
  ASSUME DownloadInv, up # <<>>, up' = <<>>, down' = Append(down, Refused),
         UNCHANGED server \/ (buffer' = FALSE /\ count' = 0),
         UNCHANGED <<world, connected, precache_check, file, temp, final, curl>>
  PROVE  DownloadInv'
<1>1. /\ UNCHANGED <<size, sv_udp_download, url, http, ready, status>>
      /\ down' = <<Refused>> /\ ~http /\ connected /\ precache_check
  <2>1. down = <<>> /\ ~http /\ connected /\ precache_check
    BY DEF DownloadInv, HttpOK, OpenOK, MessagesOK, Quiet, DownloadTypeOK
  <2> QED
    BY <2>1 DEF world, curl
<1>2. MaxSize \in Nat
  BY MaxSizeIs
<1>3. FileWhole' /\ TempOK' /\ HttpOK' /\ OpenOK'
  BY <1>1 DEF DownloadInv, FileWhole, TempOK, Resumable, HttpOK, OpenOK
<1>4. MessagesOK'
  BY <1>1 DEF DownloadInv, MessagesOK, Resumable
<1>5. DownloadTypeOK'
  <2>1. {http', ready', buffer', connected', precache_check'} \subseteq BOOLEAN
    BY <1>1 DEF DownloadInv, DownloadTypeOK, server
  <2>2. count' \in 0 .. MaxSize /\ (buffer' => count' < size)
    BY <1>1, <1>2 DEF DownloadInv, DownloadTypeOK, server
  <2>3. Len(up') + Len(down') <= 1 /\ \A i \in DOMAIN up' : up'[i] \in Request
    BY <1>1
  <2> QED
    BY <1>1, <2>1, <2>2, <2>3 DEF DownloadInv, DownloadTypeOK
<1> QED
  BY <1>3, <1>4, <1>5 DEF DownloadInv

LEMMA ReadPacketStep ==
  ASSUME DownloadInv, Sv_ReadPacket
  PROVE  DownloadInv'
<1>1. /\ up # <<>> /\ up' = Tail(up)
      /\ UNCHANGED <<world, connected, precache_check, file, temp, final, curl>>
  BY DEF Sv_ReadPacket
<1>2. size \in Sizes \union {Missing} /\ size \in Int /\ size <= MaxSize /\ MaxSize \in Nat
  BY SizeIs, MaxSizeIs DEF DownloadInv, DownloadTypeOK
<1>3. CASE \E offset \in 0 .. MaxSize :
             up = <<[op |-> "download", offset |-> offset]>> /\ DownloadOK(offset)
  <2>1. PICK offset \in 0 .. MaxSize :
          up = <<[op |-> "download", offset |-> offset]>> /\ DownloadOK(offset)
    BY <1>3
  <2>2. up' = <<>> /\ Sv_Download(offset)
    BY <1>1, <2>1 DEF Sv_ReadPacket
  <2>3. CASE size # Missing /\ NextDownload(size > 0, Least(offset, size))
    <3>1. size \in Nat
      BY <1>2, <2>3, DownloadAssumption
    <3>2. ASSUME size > 0
          PROVE  /\ Least(offset, size) \in 0 .. size
                 /\ \/ Least(offset, size) = 0 /\ file = Closed
                    \/ Least(offset, size) < size /\ InStep(Least(offset, size))
                    \/ OneBehind(Least(offset, size))
      <4>1. offset <= size
        BY <2>1, <3>1 DEF DownloadOK
      <4>2. Least(offset, size) = offset
        BY <3>1, <4>1 DEF Least
      <4> QED
        BY <2>1, <3>1, <3>2, <4>1, <4>2 DEF DownloadOK
    <3>3. ~(size > 0) => Least(offset, size) \in 0 .. MaxSize
      BY <1>2, <3>1 DEF Least
    <3>4. (size > 0) \in BOOLEAN
      OBVIOUS
    <3> QED
      BY <1>1, <2>2, <2>3, <3>1, <3>2, <3>3, <3>4, NextDownloadStep
  <2>4. CASE /\ down' = Append(down, Refused)
             /\ UNCHANGED server \/ (buffer' = FALSE /\ count' = 0)
    BY <1>1, <2>2, <2>4, RefuseStep
  <2> QED
    BY <2>2, <2>3, <2>4 DEF Sv_Download
<1>4. CASE up = <<[op |-> "nextdl"]>> /\ NextDlOK
  <2>1. up' = <<>> /\ NextDownload(buffer, count)
    BY <1>1, <1>4 DEF Sv_ReadPacket
  <2>2. /\ buffer \in BOOLEAN /\ count \in 0 .. size /\ size \in Nat /\ size > 0
        /\ buffer => InStep(count) \/ OneBehind(count)
        /\ buffer => count < size
    BY <1>2, <1>4 DEF NextDlOK, OneBehind, DownloadInv, DownloadTypeOK
  <2>3. count \in 0 .. MaxSize
    BY <1>2, <2>2
  <2> QED
    BY <1>1, <2>1, <2>2, <2>3, NextDownloadStep
<1> QED
  BY <1>1, <1>3, <1>4 DEF DownloadInv, MessagesOK

-----------------------------------------------------------------------------
(* The client takes a chunk. *)
LEMMA ParseStep ==
  ASSUME DownloadInv, ParseDownload
  PROVE  DownloadInv'
<1>1. /\ down # <<>> /\ down' = Tail(down)
      /\ UNCHANGED <<size, sv_udp_download, url, connected, precache_check, http,
                     ready, status, buffer, count>>
  BY DEF ParseDownload, world, curl, server
<1>2. up = <<>> /\ ~http /\ connected /\ precache_check
  BY <1>1 DEF DownloadInv, DownloadTypeOK, HttpOK, OpenOK, MessagesOK, Quiet
<1>3. /\ size \in Sizes \union {Missing} /\ size \in Int /\ size <= MaxSize
      /\ MaxSize \in Nat
  BY SizeIs, MaxSizeIs DEF DownloadInv, DownloadTypeOK
<1>4. PICK m : down = <<m>> /\ (m = Refused \/ (ChunkOK(m) /\ m # Refused))
  BY <1>1 DEF DownloadInv, MessagesOK
<1>5. down' = <<>> /\ Head(down) = m
  BY <1>1, <1>4
<1>6. {http', ready', buffer', connected', precache_check'} \subseteq BOOLEAN
  BY <1>1 DEF DownloadInv, DownloadTypeOK
<1>7. HttpOK' /\ OpenOK'
  BY <1>1, <1>2, <1>5 DEF HttpOK, OpenOK
<1>8. CASE m = Refused
  <2>1. file' = Closed /\ UNCHANGED <<temp, final, up>>
    BY <1>5, <1>8 DEF ParseDownload
  <2>2. DownloadTypeOK'
    <3>1. Len(up') + Len(down') <= 1 /\ \A i \in DOMAIN up' : up'[i] \in Request
      BY <1>2, <1>5, <2>1
    <3>2. /\ count \in 0 .. MaxSize /\ (buffer => count < size) /\ status \in {0, 200}
          /\ {temp, final} \subseteq Seq(-1 .. MaxSize) /\ sv_udp_download \in BOOLEAN
          /\ temp # Absent => Len(temp) <= MaxSize + MaxRefusal
          /\ url \in BOOLEAN
      BY DEF DownloadInv, DownloadTypeOK
    <3> QED
      BY <1>1, <1>2, <1>3, <1>6, <2>1, <3>1, <3>2 DEF DownloadTypeOK
  <2> QED
    BY <1>1, <1>2, <1>5, <1>7, <2>1, <2>2
       DEF DownloadInv, FileWhole, TempOK, Resumable, MessagesOK
<1>9. CASE ChunkOK(m) /\ m # Refused
  <2>1. PICK sent \in 0 .. size :
          /\ m = [percent |-> Percent(sent, ChunkLength(sent)),
                  data |-> [i \in 1 .. ChunkLength(sent) |-> sent + i]]
          /\ size > 0 /\ count = sent + ChunkLength(sent) /\ buffer = (count # size)
          /\ \/ sent = 0 /\ file = Closed
             \/ sent < size /\ InStep(sent)
             \/ OneBehind(sent)
    BY <1>9 DEF ChunkOK
  <2>2. PICK len : len = ChunkLength(sent)
    OBVIOUS
  <2>3. /\ size \in Nat /\ size > 0 /\ sent \in Nat /\ sent <= size /\ len \in Nat
        /\ count = sent + len /\ count <= size /\ (sent < size => len > 0)
        /\ count \in Nat /\ count <= MaxSize
    <3>1. size \in Nat /\ size > 0 /\ sent \in Nat /\ sent <= size
      BY <1>3, <2>1
    <3>2. len \in Nat /\ sent + len <= size /\ (sent < size => len > 0)
      BY <2>2, <3>1, ChunkIs
    <3>3. count = sent + len
      BY <2>1, <2>2
    <3> QED
      BY <1>3, <3>1, <3>2, <3>3
  <2>4. PICK pos : pos = IF file = Closed THEN 0 ELSE file
    OBVIOUS
  <2>5. PICK contents : contents = Written(IF file = Closed THEN <<>> ELSE temp, pos, m.data)
    OBVIOUS
  <2>6. m.data = [i \in 1 .. len |-> sent + i] /\ m.data \in Seq(0 .. MaxSize)
        /\ Len(m.data) = len
    BY <1>3, <2>1, <2>2, <2>3, DataIs
  <2>7. /\ contents \in Seq(0 .. MaxSize)
        /\ \/ pos = sent /\ contents = Bytes(count) /\ sent < size
           \/ /\ sent > 0 /\ pos = sent - 1 /\ sent < size
              /\ Len(contents) = count - 1
           \/ sent = size /\ pos = sent - 1 /\ contents = Bytes(size)
    <3>1. CASE sent = 0 /\ file = Closed
      <4>1. contents = Written(<<>>, 0, [i \in 1 .. len |-> 0 + i]) /\ pos = 0
        BY <2>4, <2>5, <2>6, <3>1
      <4>2. contents = Bytes(len) /\ count = len /\ sent < size
        BY <2>3, <3>1, <4>1, WrittenFirst
      <4> QED
        BY <2>3, <3>1, <4>1, <4>2, BytesIs
    <3>2. CASE sent < size /\ InStep(sent)
      <4>1. file = sent /\ file # Closed /\ temp = Bytes(sent)
        BY <2>3, <3>2 DEF InStep, Closed
      <4> QED
        <5>1. contents = Written(Bytes(sent), sent, [i \in 1 .. len |-> sent + i]) /\ pos = sent
          BY <2>4, <2>5, <2>6, <4>1
        <5>2. contents = Bytes(count)
          BY <2>3, <5>1, WrittenNext
        <5> QED
          BY <2>3, <3>2, <5>1, <5>2, BytesIs
    <3>3. CASE OneBehind(sent)
      <4>1. /\ file = sent - 1 /\ file # Closed /\ sent > 0 /\ pos = sent - 1
            /\ Len(temp) \in {sent - 1, sent} /\ (sent = size => temp = Bytes(size))
            /\ temp \in Seq(0 .. MaxSize)
        BY <2>4, <3>3 DEF OneBehind, Closed, DownloadInv, TempOK
      <4>2. contents = Written(temp, pos, m.data) /\ pos \in 0 .. Len(temp)
        BY <2>3, <2>5, <4>1
      <4>3. /\ contents \in Seq(0 .. MaxSize)
            /\ Len(contents) = IF pos + Len(m.data) > Len(temp) THEN pos + Len(m.data)
                               ELSE Len(temp)
        <5>1. /\ temp \in Seq(0 .. MaxSize) /\ m.data \in Seq(0 .. MaxSize)
              /\ pos \in 0 .. Len(temp)
          BY <2>6, <4>1, <4>2
        <5>2. /\ Written(temp, pos, m.data) \in Seq(0 .. MaxSize)
              /\ Len(Written(temp, pos, m.data)) =
                   IF pos + Len(m.data) > Len(temp) THEN pos + Len(m.data) ELSE Len(temp)
          BY <5>1, WrittenIs
        <5> QED
          BY <4>2, <5>2
      <4>4. CASE sent < size
        <5>1. Len(contents) = sent - 1 + len
          BY <2>3, <2>6, <4>1, <4>3, <4>4
        <5>2. sent - 1 + len = count - 1
          BY <2>3
        <5> QED
          BY <4>1, <4>3, <4>4, <5>1, <5>2
      <4>5. CASE sent = size
        <5>1. len = 0 /\ m.data = <<>>
          BY <2>1, <2>2, <2>3, <2>6, <4>5
        <5> QED
          BY <4>1, <4>2, <4>3, <4>5, <5>1, WrittenNothing
      <4> QED
        BY <2>3, <4>4, <4>5
    <3> QED
      BY <2>1, <3>1, <3>2, <3>3
  <2>8. CASE ~Done(m.percent)
    <3>1. /\ temp' = contents /\ file' = pos + len /\ up' = <<[op |-> "nextdl"]>>
          /\ final' = final
      <4>1. Append(up, [op |-> "nextdl"]) = <<[op |-> "nextdl"]>>
        BY <1>2
      <4> QED
        BY <1>5, <1>9, <2>4, <2>5, <2>6, <2>8, <4>1 DEF ParseDownload
    <3>2. Len(Bytes(size)) = size /\ Len(Bytes(count)) = count /\ count > 0
      BY <1>3, <2>3, <2>7, BytesIs
    <3>3. contents # Absent
      BY <2>7, AbsentIsNoFile
    <3>4. Resumable' /\ TempOK'
      BY <1>1, <1>3, <2>1, <2>3, <2>7, <3>1, <3>2 DEF Resumable, TempOK
    <3>5. NextDlOK'
      <4>1. count <= size /\ size > 0 /\ buffer = (count # size)
        BY <2>1, <2>3
      <4>2. CASE pos = sent /\ contents = Bytes(count)
        BY <1>1, <2>3, <3>1, <3>2, <4>1, <4>2 DEF NextDlOK, InStep
      <4>3. CASE sent < size /\ pos = sent - 1 /\ Len(contents) = count - 1
        BY <1>1, <2>3, <3>1, <3>2, <3>3, <4>1, <4>3 DEF NextDlOK
      <4>4. CASE sent = size /\ pos = sent - 1 /\ contents = Bytes(size)
        BY <1>1, <2>3, <3>1, <3>2, <3>3, <4>1, <4>4 DEF NextDlOK
      <4> QED
        BY <2>7, <4>2, <4>3, <4>4
    <3>6. MessagesOK'
      BY <1>5, <3>1, <3>3, <3>4, <3>5 DEF MessagesOK
    <3>7. DownloadTypeOK'
      <4>1. [op |-> "nextdl"] \in Request
        BY DEF Request
      <4>2. Len(up') + Len(down') <= 1 /\ \A i \in DOMAIN up' : up'[i] \in Request
        BY <1>5, <3>1, <4>1
      <4>3. temp' \in Seq(-1 .. MaxSize) /\ Len(temp') <= MaxSize + MaxRefusal
        <5>1. Len(contents) <= MaxSize
          BY <1>3, <2>3, <2>7, <3>2
        <5>2. MaxSize <= MaxSize + MaxRefusal /\ Len(contents) \in Nat
          BY <1>3, <2>7, DownloadAssumption
        <5>3. contents \in Seq(-1 .. MaxSize)
          BY <1>3, <2>7
        <5> QED
          BY <1>3, <3>1, <5>1, <5>2, <5>3, DownloadAssumption
      <4>4. file' \in 0 .. MaxSize
        BY <1>3, <2>3, <2>7, <3>1
      <4> QED
        BY <1>1, <1>6, <1>2, <3>1, <4>2, <4>3, <4>4 DEF DownloadInv, DownloadTypeOK
    <3> QED
      BY <1>1, <1>7, <3>1, <3>4, <3>6, <3>7 DEF DownloadInv, FileWhole
  <2>9. CASE Done(m.percent)
    <3>1. file' = Closed /\ final' = contents /\ temp' = Absent /\ up' = <<>>
      BY <1>2, <1>5, <1>9, <2>4, <2>5, <2>9 DEF ParseDownload
    <3>2. sent = size
      BY <2>1, <2>2, <2>3, <2>9, DoneIsAll DEF Done
    <3>3. final' = Bytes(size)
      BY <2>7, <3>1, <3>2
    <3>4. DownloadTypeOK'
      <4>1. Len(up') + Len(down') <= 1 /\ \A i \in DOMAIN up' : up'[i] \in Request
        BY <1>5, <3>1
      <4>2. {temp', final'} \subseteq Seq(-1 .. MaxSize)
        <5>1. final' \in Seq(-1 .. MaxSize)
          BY <1>3, <2>7, <3>1
        <5>2. temp' \in Seq(-1 .. MaxSize)
          BY <1>3, <3>1 DEF Absent
        <5> QED
          BY <5>1, <5>2
      <4> QED
        BY <1>1, <1>2, <1>6, <3>1, <4>1, <4>2 DEF DownloadInv, DownloadTypeOK
    <3> QED
      BY <1>1, <1>5, <1>7, <3>1, <3>3, <3>4
         DEF DownloadInv, FileWhole, TempOK, Resumable, MessagesOK
  <2> QED
    BY <2>8, <2>9
<1> QED
  BY <1>4, <1>8, <1>9

-----------------------------------------------------------------------------
LEMMA InitDownload == DownloadInit => DownloadInv
<1> SUFFICES ASSUME DownloadInit PROVE DownloadInv
  OBVIOUS
<1>1. MaxSize \in Nat /\ Absent \in Seq(-1 .. MaxSize)
  BY MaxSizeIs DEF Absent
<1>2. DownloadTypeOK
  <2>1. Len(up) + Len(down) <= 1 /\ \A i \in DOMAIN up : up[i] \in Request
    BY DEF DownloadInit
  <2>2. {sv_udp_download, url, connected, precache_check} \subseteq BOOLEAN
    BY DEF DownloadInit
  <2>3. {http, ready, buffer} \subseteq BOOLEAN
    BY DEF DownloadInit
  <2> QED
    BY <1>1, <2>1, <2>2, <2>3 DEF DownloadInit, DownloadTypeOK
<1> QED
  BY <1>2 DEF DownloadInit, DownloadInv, FileWhole, TempOK, Resumable, HttpOK, OpenOK,
              MessagesOK, Quiet

LEMMA NextDownloadKeeps == DownloadInv /\ [DownloadNext]_downloadVars => DownloadInv'
<1> SUFFICES ASSUME DownloadInv, [DownloadNext]_downloadVars PROVE DownloadInv'
  OBVIOUS
<1>1. CASE UNCHANGED downloadVars
  <2>1. UNCHANGED <<size, sv_udp_download, url, connected, precache_check, file, temp,
                    final, http, ready, status, buffer, count, up, down>>
    BY <1>1 DEF downloadVars, world, curl, server, stream
  <2> QED
    BY <2>1 DEF DownloadInv, DownloadTypeOK, FileWhole, TempOK, Resumable, HttpOK, OpenOK,
                MessagesOK, Quiet, DownloadOK, NextDlOK, ChunkOK, InStep, OneBehind,
                Percent, ChunkLength
<1> QED
  BY <1>1, ConnectStep, DisconnectStep, KillStep, PrecacheStep, ReadPacketStep,
     ParseStep, HttpReceiveStep, HttpErrorStep, HttpDoneStep DEF DownloadNext

LEMMA DownloadInvariant == DownloadSpec => []DownloadInv
BY InitDownload, NextDownloadKeeps, PTL DEF DownloadSpec

(* Every variable keeps its type; in particular the place in the open file  *)
(* stays within the file at the server, and so does what the server counts. *)
THEOREM DownloadTypes == DownloadSpec => []DownloadTypeOK
<1>1. DownloadInv => DownloadTypeOK
  BY DEF DownloadInv
<1> QED
  BY <1>1, DownloadInvariant, PTL

(* For any file, any chunk and any interruption: what gets the proper name  *)
(* is what the server has.                                                  *)
THEOREM FileStaysWhole == DownloadSpec => []FileWhole
<1>1. DownloadInv => FileWhole
  BY DEF DownloadInv
<1> QED
  BY <1>1, DownloadInvariant, PTL
=============================================================================
