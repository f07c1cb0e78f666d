----------------------------- MODULE GameProofs -----------------------------
(***************************************************************************)
(* Proofs about the game module (Game), for any number of clients, any     *)
(* server settings and whatever its administrator changes, any countdown   *)
(* and any number of restarts.                                             *)
(*                                                                         *)
(* The handlers of the game are operators from worlds to worlds, so the    *)
(* invariant is one of worlds, and each operator has a lemma that says     *)
(* what it leaves alone and that it keeps the invariant.                   *)
(***************************************************************************)
EXTENDS Game, ListsProofs

-----------------------------------------------------------------------------
(* The worlds.                                                             *)

Names == {"ctf", "teams", "match", "rounds"}

Levels == [ctf: BOOLEAN, teams: BOOLEAN, match: BOOLEAN, rounds: BOOLEAN, warmup: BOOLEAN,
           intermission: BOOLEAN, match_time: Times, start_match: BOOLEAN, match_num: Nat,
           round_time: Times, start_round: BOOLEAN, round_num: Nat]

Clients == [slot: {"free", "connecting", "in_use"}, team: Teams \cup {NoTeam},
            spectator: BOOLEAN, ready: BOOLEAN, dead: BOOLEAN, match_num: Nat,
            round_num: Nat, vote: {"none", "yes", "no"}, flags: SUBSET Teams]

Bases == [Teams -> BOOLEAN]
Drops == [Teams -> SUBSET [owner: Slots, landed: BOOLEAN]]

(* A vote of any age. *)
Votes == [cmd: {"none", "map", "restart"}, age: Nat,
          count: Tallies, gone: Tallies, stale: SUBSET Slots]

Worlds == [server: ServerType, level: Levels, client: [Slots -> Clients],
           base: Bases, dropped: Drops, vote: Votes]

(* The worlds of the server that runs: what toggles it has changed. *)
Ours(w) ==
  /\ w \in Worlds
  /\ w.server.slots = server.slots
  /\ w.server.auto_join = server.auto_join
  /\ w.server.voting = server.voting
  /\ w.server.toggles = server.toggles

(* May of a world. *)
Allowed(w, name) == w.server[name] \/ name \in w.server.toggles

Quiet(w)      == ~Allowed(w, "match") /\ ~Allowed(w, "rounds")
OneContest(w) == ~(Allowed(w, "match") /\ Allowed(w, "rounds"))
Strict(w)     == OneContest(w) /\ ~(Allowed(w, "ctf") /\ Allowed(w, "rounds"))

-----------------------------------------------------------------------------
(* The invariant.                                                          *)

FlagOK(l, p) ==
  p.flags # {} => l.ctf /\ ~p.spectator /\ p.team \in Teams /\ p.flags = {Other[p.team]}

(* Nobody has played in a match or round that is still to come. *)
NumOK(l, p) == p.match_num <= l.match_num /\ p.round_num <= l.round_num

TeamOK(l, p) ==
  IF p.spectator THEN p.team = NoTeam /\ ~p.ready /\ ~p.dead
  ELSE TeamGame(l) => p.team # NoTeam

ClientOK(w, p) ==
  /\ FlagOK(w.level, p)
  /\ NumOK(w.level, p)
  /\ Quiet(w) /\ p.dead => p.flags = {}
  /\ Strict(w) => TeamOK(w.level, p)

EachOK(w) == \A c \in InUse(w) : ClientOK(w, w.client[c])

(* A flag is in one place only, and in none unless the game is ctf. *)
OnePlace(w) ==
  \A t \in Teams :
    /\ \A c, d \in InUse(w) : t \in w.client[c].flags /\ t \in w.client[d].flags => c = d
    /\ \A c \in InUse(w) : t \in w.client[c].flags => ~w.base[t] /\ w.dropped[t] = {}
    /\ w.base[t] => w.dropped[t] = {}
    /\ \A x, y \in w.dropped[t] : x = y
    /\ ~w.level.ctf => ~w.base[t] /\ w.dropped[t] = {}

Somewhere(w) ==
  Quiet(w) /\ w.level.ctf =>
    \A t \in Teams : \/ w.base[t] \/ w.dropped[t] # {}
                     \/ \E c \in InUse(w) : t \in w.client[c].flags

(* A match or round that is counted down, runs or is armed is one that the *)
(* settings allow.                                                         *)
LevelOK(w) ==
  LET l == w.level IN
  /\ l.match_time # Unset => l.match
  /\ l.round_time # Unset => l.rounds
  /\ \A name \in Names : l[name] => Allowed(w, name)
  /\ l.warmup => l.match \/ l.rounds
  /\ l.start_match => Allowed(w, "match")
  /\ l.start_round => Allowed(w, "rounds")

Cast(w, v) == {c \in InUse(w) \ w.vote.stale : w.client[c].vote = v}

(* Who is not in the game has no vote but a stale one.                     *)
VoteOK(w) ==
  /\ w.vote.cmd # "none" => w.server.voting
  /\ w.vote.cmd = "none" => /\ Cast(w, "yes") = {} /\ Cast(w, "no") = {}
                            /\ w.vote.count = NoVote.count /\ w.vote.gone = NoVote.gone
  /\ w.vote.cmd # "none" => \A v \in {"yes", "no"} :
       w.vote.count[v] = Cardinality(Cast(w, v)) + w.vote.gone[v]
  /\ \A c \in Slots :
       LET p == w.client[c] IN
       IF c \in w.vote.stale THEN p.slot # "free" /\ p.vote # "none"
       ELSE p.slot # "in_use" => p.vote = "none"

Inv(w) == EachOK(w) /\ OnePlace(w) /\ Somewhere(w) /\ LevelOK(w) /\ VoteOK(w)

-----------------------------------------------------------------------------
(* A change that leaves the flags where they are or takes them from        *)
(* players, and does not touch slots and votes.                            *)
SameVote(w, v) ==
  /\ v.vote.cmd = w.vote.cmd /\ v.vote.count = w.vote.count
  /\ v.vote.gone = w.vote.gone /\ v.vote.stale = w.vote.stale

SameSeat(p, q) == q.slot = p.slot /\ q.vote = p.vote

Calm(w, v) ==
  /\ Ours(v) /\ v.server = w.server /\ v.base = w.base /\ v.dropped = w.dropped
  /\ v.level.ctf = w.level.ctf
  /\ SameVote(w, v)
  /\ LevelOK(v)
  /\ \A c \in Slots :
       LET p == w.client[c]
           q == v.client[c]
       IN  /\ SameSeat(p, q)
           /\ q.flags \subseteq p.flags
           /\ p.slot = "in_use" => ClientOK(v, q) /\ (Quiet(w) => q.flags = p.flags)

(* A change that touches no votes and no slots keeps what is said of       *)
(* votes.                                                                  *)
LEMMA SameVotes ==
  ASSUME NEW w, NEW v, VoteOK(w), v.server.voting = w.server.voting, SameVote(w, v),
         \A c \in Slots : SameSeat(w.client[c], v.client[c])
  PROVE  VoteOK(v) /\ InUse(v) = InUse(w)
<1>1. InUse(v) = InUse(w)
  BY DEF InUse, SameSeat
<1>2. \A x : Cast(v, x) = Cast(w, x)
  BY <1>1 DEF Cast, InUse, SameSeat, SameVote
<1>3. VoteOK(v)
  BY <1>2 DEF VoteOK, SameVote, SameSeat
<1> QED
  BY <1>1, <1>3

(* A calm change keeps the invariant.                                      *)
LEMMA CalmKeeps ==
  ASSUME NEW w, NEW v, Inv(w), Calm(w, v)
  PROVE  Inv(v) /\ InUse(v) = InUse(w)
<1>1. VoteOK(v) /\ InUse(v) = InUse(w)
  BY SameVotes DEF Calm, Inv
<1>2. Quiet(v) = Quiet(w)
  BY DEF Quiet, Allowed, Calm
<1>3. EachOK(v)
  BY <1>1 DEF EachOK, Calm, InUse
<1>4. \A c \in InUse(w) : v.client[c].flags \subseteq w.client[c].flags
  BY DEF Calm, InUse
<1>5. Quiet(w) => \A c \in InUse(w) : v.client[c].flags = w.client[c].flags
  BY DEF Calm, InUse
<1>6. v.base = w.base /\ v.dropped = w.dropped /\ v.level.ctf = w.level.ctf
  BY DEF Calm
<1>7. OnePlace(v)
  BY <1>1, <1>4, <1>6 DEF Inv, OnePlace
<1>8. Somewhere(v)
  BY <1>1, <1>2, <1>5, <1>6 DEF Inv, Somewhere
<1> QED
  BY <1>1, <1>3, <1>7, <1>8 DEF Inv, Calm

-----------------------------------------------------------------------------
(* Clients.                                                                *)

(* What is in a world of this server.                                      *)
LEMMA OursIs ==
  ASSUME NEW w, Ours(w)
  PROVE  /\ w \in Worlds /\ w.level \in Levels /\ w.client \in [Slots -> Clients]
         /\ w.base \in Bases /\ w.dropped \in Drops /\ w.vote \in Votes
         /\ w.server \in ServerType
         /\ \A c \in Slots : w.client[c] \in Clients
         /\ InUse(w) \subseteq Slots
BY DEF Ours, Worlds, InUse

(* One client is changed.                                                  *)
LEMMA SetClient ==
  ASSUME NEW w, Ours(w), NEW c \in Slots, NEW q \in Clients
  PROVE  LET v == [w EXCEPT !.client[c] = q] IN
         /\ Ours(v) /\ v.client[c] = q
         /\ \A d \in Slots \ {c} : v.client[d] = w.client[d]
         /\ v.client = [w.client EXCEPT ![c] = q]
         /\ v.server = w.server /\ v.level = w.level /\ v.base = w.base
         /\ v.dropped = w.dropped /\ v.vote = w.vote
BY DEF Ours, Worlds

(* Many are.                                                               *)
LEMMA SetClients ==
  ASSUME NEW w, Ours(w), NEW f \in [Slots -> Clients]
  PROVE  LET v == [w EXCEPT !.client = f] IN
         /\ Ours(v) /\ v.client = f
         /\ v.server = w.server /\ v.level = w.level /\ v.base = w.base
         /\ v.dropped = w.dropped /\ v.vote = w.vote
BY DEF Ours, Worlds

(* What a client p is when it has respawned as q.                          *)
Reborn(p, q, l) ==
  /\ q \in Clients
  /\ SameSeat(p, q) /\ q.spectator = p.spectator
  /\ q.flags = {} /\ ~q.dead
  /\ p.spectator => /\ q.team = NoTeam /\ ~q.ready
                    /\ q.match_num \in {0, p.match_num}
                    /\ q.round_num \in {0, p.round_num}
  /\ ~p.spectator => /\ q.team = p.team
                     /\ q.match_num = l.match_num /\ q.round_num = l.round_num

(* Respawned does what Reborn says.                                        *)
LEMMA RespawnedIs ==
  ASSUME NEW p \in Clients, NEW l \in Levels, NEW voluntary \in BOOLEAN
  PROVE  Reborn(p, Respawned(p, l, voluntary), l)
<1>1. l.match_num \in Nat /\ l.round_num \in Nat
  BY DEF Levels
<1> QED
  BY <1>1 DEF Reborn, SameSeat, Respawned, InitClientPersistent, Clients

(* A respawn leaves nothing to be wished for, unless a player of a team    *)
(* game has no team.                                                       *)
LEMMA RebornOK ==
  ASSUME NEW w, Ours(w), NEW p \in Clients, NEW q, Reborn(p, q, w.level),
         p.spectator => NumOK(w.level, p),
         Strict(w) /\ ~p.spectator /\ TeamGame(w.level) => p.team # NoTeam
  PROVE  ClientOK(w, q)
<1>1. w.level.match_num \in Nat /\ w.level.round_num \in Nat
  BY DEF Ours, Worlds, Levels
<1>2. p.match_num \in Nat /\ p.round_num \in Nat /\ p.spectator \in BOOLEAN
  BY DEF Clients
<1>3. NumOK(w.level, q)
  BY <1>1, <1>2 DEF NumOK, Reborn
<1>4. Strict(w) => TeamOK(w.level, q)
  BY <1>2 DEF TeamOK, Reborn
<1> QED
  BY <1>3, <1>4 DEF ClientOK, FlagOK, Reborn

(* One client respawns.                                                    *)
LEMMA RespawnOne ==
  ASSUME NEW w, Ours(w), NEW c \in Slots, NEW voluntary \in BOOLEAN
  PROVE  LET v == ClientRespawn(w, c, voluntary) IN
         /\ Ours(v) /\ Reborn(w.client[c], v.client[c], w.level)
         /\ \A d \in Slots \ {c} : v.client[d] = w.client[d]
         /\ v.server = w.server /\ v.level = w.level /\ v.base = w.base
         /\ v.dropped = w.dropped /\ v.vote = w.vote
<1> DEFINE q == Respawned(w.client[c], w.level, voluntary)
<1>1. Reborn(w.client[c], q, w.level)
  BY OursIs, RespawnedIs
<1>2. q \in Clients
  BY <1>1 DEF Reborn
<1> HIDE DEF q
<1> QED
  BY <1>1, <1>2, SetClient DEF ClientRespawn, q

(* Everybody of a set respawns.                                            *)
LEMMA RespawnMany ==
  ASSUME NEW w, Ours(w), NEW S \in SUBSET Slots
  PROVE  LET v == RespawnAll(w, S) IN
         /\ Ours(v)
         /\ \A c \in S : Reborn(w.client[c], v.client[c], w.level)
         /\ \A c \in Slots \ S : v.client[c] = w.client[c]
         /\ v.server = w.server /\ v.level = w.level /\ v.base = w.base
         /\ v.dropped = w.dropped /\ v.vote = w.vote
<1> DEFINE f == [c \in Slots |-> IF c \in S THEN Respawned(w.client[c], w.level, FALSE)
                                 ELSE w.client[c]]
<1>1. \A c \in S : Reborn(w.client[c], f[c], w.level)
  BY OursIs, RespawnedIs
<1>2. f \in [Slots -> Clients]
  BY <1>1, OursIs DEF Reborn
<1>3. \A c \in Slots \ S : f[c] = w.client[c]
  OBVIOUS
<1>4. RespawnAll(w, S) = [w EXCEPT !.client = f]
  BY DEF RespawnAll
<1> HIDE DEF f
<1>5. LET v == [w EXCEPT !.client = f] IN
      /\ Ours(v) /\ v.client = f
      /\ v.server = w.server /\ v.level = w.level /\ v.base = w.base
      /\ v.dropped = w.dropped /\ v.vote = w.vote
  BY <1>2, SetClients
<1> QED
  BY <1>1, <1>3, <1>4, <1>5

-----------------------------------------------------------------------------
(* Flags.                                                                  *)

(* The two teams are each other's opposite.                                *)
LEMMA Sides ==
  /\ \A t \in Teams : Other[t] \in Teams /\ Other[t] # t
  /\ NoTeam \notin Teams
  /\ \A t, u \in Teams : t # Other[u] => t = u
BY DEF Teams, Other, NoTeam

(* Where the flag of team t is, if it is in one place.                     *)
AtBase(w, t) ==
  w.base[t] /\ w.dropped[t] = {} /\ \A c \in InUse(w) : t \notin w.client[c].flags
OnGround(w, t) ==
  /\ ~w.base[t] /\ \E x : w.dropped[t] = {x}
  /\ \A c \in InUse(w) : t \notin w.client[c].flags
Carried(w, t, c) ==
  /\ ~w.base[t] /\ w.dropped[t] = {} /\ c \in InUse(w)
  /\ \A d \in InUse(w) : t \in w.client[d].flags <=> d = c

(* One flag is moved.                                                      *)
LEMMA Moved ==
  ASSUME NEW w, NEW v, OnePlace(w), Somewhere(w), w.level.ctf,
         v.level = w.level, v.server = w.server, InUse(v) = InUse(w),
         NEW t \in Teams,
         \A u \in Teams \ {t} :
           /\ v.base[u] = w.base[u] /\ v.dropped[u] = w.dropped[u]
           /\ \A c \in InUse(w) : u \in v.client[c].flags <=> u \in w.client[c].flags,
         AtBase(v, t) \/ OnGround(v, t) \/ \E c : Carried(v, t, c)
  PROVE  OnePlace(v) /\ Somewhere(v)
<1>1. OnePlace(v)
  BY DEF OnePlace, AtBase, OnGround, Carried
<1>2. Quiet(v) = Quiet(w)
  BY DEF Quiet, Allowed
<1>3. Somewhere(v)
  BY <1>2 DEF Somewhere, AtBase, OnGround, Carried
<1> QED
  BY <1>1, <1>3

(* A player tosses what it carries.                                        *)
LEMMA TossKeeps ==
  ASSUME NEW w, Ours(w), Inv(w), NEW c \in InUse(w), NEW stuck \in BOOLEAN
  PROVE  LET v == TossFlag(w, c, stuck) IN
         /\ Ours(v) /\ Inv(v) /\ InUse(v) = InUse(w)
         /\ v.server = w.server /\ v.level = w.level /\ v.vote = w.vote
         /\ v.client = [w.client EXCEPT ![c] = [w.client[c] EXCEPT !.flags = {}]]
<1> DEFINE p == w.client[c]
           t == Other[p.team]
           there == [owner |-> c, landed |-> FALSE]
           q == [p EXCEPT !.flags = {}]
           u == [w EXCEPT !.client[c] = q]
           back == [u.base EXCEPT ![t] = TRUE]
           lying == [u.dropped EXCEPT ![t] = u.dropped[t] \cup {there}]
           v == TossFlag(w, c, stuck)
<1>1. p \in Clients /\ c \in Slots /\ w.client \in [Slots -> Clients]
  BY OursIs
<1>2. FlagOK(w.level, p) /\ ClientOK(w, p)
  BY DEF Inv, EachOK, ClientOK
<1>3. q \in Clients
  BY <1>1 DEF Clients
<1>4. CASE ~Carries(w, c)
  <2>1. v = w
    BY <1>4 DEF TossFlag
  <2>2. p.flags = {}
    BY <1>2, <1>4, Sides DEF FlagOK, Carries
  <2>3. w.client = [w.client EXCEPT ![c] = [w.client[c] EXCEPT !.flags = {}]]
    BY <1>1, <2>2 DEF Clients
  <2> QED
    BY <2>1, <2>3
<1>5. CASE Carries(w, c)
  <2>1. w.level.ctf /\ p.team \in Teams /\ t \in Teams /\ t \in p.flags
    BY <1>1, <1>5, Sides DEF Carries, Clients
  <2>2. p.flags \ {t} = {} /\ p.flags = {t}
    BY <1>2, <2>1 DEF FlagOK
  <2>3. /\ Ours(u) /\ u.client[c] = q
        /\ \A d \in Slots \ {c} : u.client[d] = w.client[d]
        /\ u.client = [w.client EXCEPT ![c] = q]
        /\ u.server = w.server /\ u.level = w.level /\ u.base = w.base
        /\ u.dropped = w.dropped /\ u.vote = w.vote
    BY <1>1, <1>3, SetClient
  <2>4. [w EXCEPT !.client[c].flags = p.flags \ {t}] = u
    BY <2>2
  <2>5. v = IF stuck THEN [u EXCEPT !.base[t] = TRUE]
            ELSE [u EXCEPT !.dropped[t] = u.dropped[t] \cup {there}]
    <3> DEFINE tossed == [w EXCEPT !.client[c].flags = p.flags \ {t}]
    <3>1. v = IF stuck THEN ResetFlag(tossed, t)
              ELSE [tossed EXCEPT !.dropped[t] = tossed.dropped[t] \cup {there}]
      BY <1>5 DEF TossFlag
    <3> HIDE DEF tossed, u
    <3>2. tossed = u
      BY <2>4 DEF tossed
    <3> QED
      BY <2>1, <2>3, <3>1, <3>2 DEF ResetFlag
  <2>6. SameSeat(p, q) /\ q.flags = {}
    BY <1>1 DEF SameSeat, Clients
  <2>7. ClientOK(w, q)
    BY <1>1, <1>2 DEF ClientOK, FlagOK, NumOK, TeamOK, Clients
  <2> HIDE DEF q, u, v
  <2>8. u.base \in Bases /\ u.dropped \in Drops
    BY <2>3, OursIs
  <2>9. /\ Ours(v)
        /\ v.server = w.server /\ v.level = w.level
        /\ v.client = u.client /\ v.vote = w.vote
        /\ \/ v.base = back /\ v.dropped = w.dropped
           \/ v.base = w.base /\ v.dropped = lying
    <3>1. back \in Bases /\ lying \in Drops
      <4>1. there \in [owner: Slots, landed: BOOLEAN]
        BY <1>1
      <4> QED
        BY <2>1, <2>8, <4>1 DEF Bases, Drops
    <3>2. CASE stuck
      <4>1. v = [u EXCEPT !.base = back]
        BY <2>5, <3>2
      <4> QED
        BY <2>3, <3>1, <4>1 DEF Ours, Worlds
    <3>3. CASE ~stuck
      <4>1. v = [u EXCEPT !.dropped = lying]
        BY <2>5, <3>3
      <4> QED
        BY <2>3, <3>1, <4>1 DEF Ours, Worlds
    <3> QED
      BY <3>2, <3>3
  <2>10. VoteOK(v) /\ InUse(v) = InUse(w)
    <3>1. \A d \in Slots : SameSeat(w.client[d], v.client[d])
      BY <2>3, <2>6, <2>9 DEF SameSeat
    <3> QED
      BY <2>9, <3>1, SameVotes DEF Inv, SameVote
  <2>11. EachOK(v)
    <3>1. \A d \in InUse(w) : ClientOK(w, v.client[d])
      BY <2>3, <2>7, <2>9, OursIs DEF Inv, EachOK
    <3> QED
      BY <2>9, <2>10, <3>1 DEF EachOK, ClientOK, Quiet, Strict, OneContest, Allowed
  <2>12. \A d \in InUse(w), s \in Teams :
           s \in v.client[d].flags <=> d # c /\ s \in w.client[d].flags
    BY <2>3, <2>6, <2>9, OursIs
  <2>13. AtBase(w, t) \/ OnGround(w, t) \/ Carried(w, t, c)
    BY <2>1 DEF Inv, OnePlace, Carried
  <2>14. w.dropped[t] = {} /\ ~w.base[t] /\ \A d \in InUse(w) : t \in w.client[d].flags => d = c
    BY <2>1 DEF Inv, OnePlace
  <2>15. AtBase(v, t) \/ OnGround(v, t)
    <3>1. \A d \in InUse(v) : t \notin v.client[d].flags
      BY <2>1, <2>10, <2>12, <2>14
    <3>2. CASE v.base = back /\ v.dropped = w.dropped
      BY <2>1, <2>8, <2>14, <3>1, <3>2 DEF AtBase, Bases
    <3>3. CASE v.base = w.base /\ v.dropped = lying
      <4>1. v.dropped[t] = {there}
        BY <2>1, <2>3, <2>8, <2>14, <3>3 DEF Drops
      <4> QED
        BY <2>14, <3>1, <3>3, <4>1 DEF OnGround
    <3> QED
      BY <2>9, <3>2, <3>3
  <2>16. \A s \in Teams \ {t} :
           /\ v.base[s] = w.base[s] /\ v.dropped[s] = w.dropped[s]
           /\ \A d \in InUse(w) : s \in v.client[d].flags <=> s \in w.client[d].flags
    BY <2>1, <2>2, <2>3, <2>8, <2>9, <2>12 DEF Bases, Drops
  <2>17. OnePlace(v) /\ Somewhere(v)
    BY <2>1, <2>9, <2>10, <2>15, <2>16, Moved DEF Inv
  <2>18. LevelOK(v)
    BY <2>9 DEF Inv, LevelOK, Allowed
  <2> QED
    BY <2>3, <2>9, <2>10, <2>11, <2>17, <2>18 DEF Inv, v, q
<1> QED
  BY <1>4, <1>5

-----------------------------------------------------------------------------
(* Teams, and the clients of G_RestartGame and of the end of a round.      *)

(* There is always a smallest team.                                        *)
LEMMA Smallest ==
  ASSUME NEW w
  PROVE  SmallestTeam(w) \in Teams
BY DEF SmallestTeam, Teams

(* Who carries nothing only changes its team.                              *)
Joined(p, t) == [p EXCEPT !.team = t, !.spectator = FALSE, !.ready = FALSE]

(* What joining a team changes.                                            *)
LEMMA JoinedIs ==
  ASSUME NEW p \in Clients, NEW t \in Teams
  PROVE  LET q == Joined(p, t) IN
         /\ q \in Clients /\ SameSeat(p, q) /\ q.flags = p.flags /\ q.dead = p.dead
         /\ q.team = t /\ ~q.spectator /\ ~q.ready
         /\ q.match_num = p.match_num /\ q.round_num = p.round_num
BY DEF Joined, Clients, SameSeat

(* Who carries nothing, or is no player, just joins.                       *)
LEMMA JoinIsPut ==
  ASSUME NEW w, Ours(w), NEW c \in Slots, NEW t \in Teams, NEW stuck \in BOOLEAN,
         w.client[c].spectator \/ ~Carries(w, c)
  PROVE  AddClientToTeam(w, c, t, stuck)
           = IF MayJoin(w, c, t) THEN [w EXCEPT !.client[c] = Joined(w.client[c], t)] ELSE w
BY DEF AddClientToTeam, TossFlag, Joined

(* Worlds that are alike but for client c.                                 *)
Alike(w, v, c) ==
  /\ Ours(v)
  /\ \A d \in Slots \ {c} : v.client[d] = w.client[d]
  /\ v.server = w.server /\ v.level = w.level /\ v.base = w.base
  /\ v.dropped = w.dropped /\ v.vote = w.vote

(* One client is changed.                                                  *)
LEMMA AlikePut ==
  ASSUME NEW w, Ours(w), NEW c \in Slots, NEW q \in Clients
  PROVE  LET v == [w EXCEPT !.client[c] = q] IN Alike(w, v, c) /\ v.client[c] = q
BY SetClient DEF Alike

(* One client is changed and then respawns.                                *)
LEMMA AlikeRespawn ==
  ASSUME NEW w, NEW u, NEW c \in Slots, Alike(w, u, c), NEW voluntary \in BOOLEAN
  PROVE  LET v == ClientRespawn(u, c, voluntary) IN
         Alike(w, v, c) /\ Reborn(u.client[c], v.client[c], w.level)
<1>1. Ours(u)
  BY DEF Alike
<1> QED
  BY <1>1, RespawnOne DEF Alike

(* A player the restart of a match that runs does not set aside has to     *)
(* have a team already, since teams are not changed then.                  *)
Fit(l, p, teamz) ==
  MatchRunning(l) => \/ l.match /\ p.match_num # l.match_num
                     \/ ~l.match /\ ~l.rounds /\ ~teamz /\ TeamOK(l, p)

(* What a step of the loop over the clients does to one, p, now q.         *)
StepOK(kind, w, p, q, teamz) ==
  /\ q \in Clients /\ SameSeat(p, q) /\ q.flags \subseteq p.flags
  /\ kind = "restart" =>
       /\ q.flags = {}
       /\ NumOK(w.level, p) /\ (Strict(w) => Fit(w.level, p, teamz)) => ClientOK(w, q)
  /\ kind = "rejoin" =>
       (ClientOK(w, p) /\ (Strict(w) => ~MatchRunning(w.level)) => ClientOK(w, q))

(* What the restart of the game does to one client, for G_RestartGame.     *)
LEMMA RestartClientIs ==
  ASSUME NEW w, Ours(w), NEW c \in Slots, NEW teamz \in BOOLEAN
  PROVE  LET v == RestartClient(w, c, teamz) IN
         Alike(w, v, c) /\ StepOK("restart", w, w.client[c], v.client[c], teamz)
<1> DEFINE p == w.client[c]
           l == w.level
           aside == IF l.match THEN p.match_num # l.match_num
                    ELSE IF l.rounds THEN p.round_num # l.round_num
                    ELSE p.spectator
           q == [p EXCEPT !.ready = FALSE, !.spectator = aside,
                          !.team = IF teamz THEN NoTeam ELSE p.team]
           reset == [w EXCEPT !.client[c] = q]
           t == SmallestTeam(reset)
           seated == IF ~TeamGame(l) \/ reset.client[c].team # NoTeam THEN reset
                     ELSE IF server.auto_join THEN AddClientToTeam(reset, c, t, FALSE)
                     ELSE SetAside(reset, c)
           r == seated.client[c]
           v == RestartClient(w, c, teamz)
<1>1. p \in Clients /\ l \in Levels
  BY OursIs
<1>2. /\ q \in Clients /\ SameSeat(p, q) /\ ~q.ready /\ q.spectator = aside
      /\ q.match_num = p.match_num /\ q.round_num = p.round_num
      /\ q.team = (IF teamz THEN NoTeam ELSE p.team)
  BY <1>1 DEF Clients, Levels, SameSeat
<1>3. v = ClientRespawn(seated, c, FALSE)
  BY DEF RestartClient
<1> HIDE DEF q
<1>4. Alike(w, reset, c) /\ reset.client[c] = q
  BY <1>2, AlikePut
<1> HIDE DEF reset, t
<1>5. t \in Teams
  BY Smallest DEF t
<1>6. /\ Alike(w, seated, c) /\ r \in Clients /\ SameSeat(p, r)
      /\ r.match_num = p.match_num /\ r.round_num = p.round_num
      /\ \/ r = q /\ (~TeamGame(l) \/ q.team # NoTeam)
         \/ r = q /\ TeamGame(l) /\ q.team = NoTeam /\ MatchRunning(l)
         \/ TeamGame(l) /\ q.team = NoTeam /\ (r.spectator \/ r.team = t)
  <2>1. CASE ~TeamGame(l) \/ q.team # NoTeam
    BY <1>2, <1>4, <2>1
  <2>2. CASE TeamGame(l) /\ q.team = NoTeam /\ server.auto_join
    <3>1. Ours(reset) /\ ~Carries(reset, c) /\ reset.level = l
      BY <1>4, <2>2 DEF Alike, Carries
    <3>2. seated = IF MayJoin(reset, c, t) THEN [reset EXCEPT !.client[c] = Joined(q, t)] ELSE reset
      BY <1>4, <1>5, <2>2, <3>1, JoinIsPut
    <3>3. CASE MayJoin(reset, c, t)
      <4>1. /\ Joined(q, t) \in Clients /\ SameSeat(p, Joined(q, t)) /\ Joined(q, t).team = t
            /\ Joined(q, t).match_num = p.match_num /\ Joined(q, t).round_num = p.round_num
        BY <1>2, <1>5, JoinedIs DEF SameSeat
      <4>2. seated = [reset EXCEPT !.client[c] = Joined(q, t)]
        BY <3>2, <3>3
      <4> HIDE DEF seated
      <4>3. Alike(reset, seated, c) /\ r = Joined(q, t)
        BY <3>1, <4>1, <4>2, AlikePut
      <4> QED
        BY <1>4, <2>2, <4>1, <4>3 DEF Alike
    <3>4. CASE ~MayJoin(reset, c, t)
      <4>1. MatchRunning(l)
        BY <1>4, <1>5, <2>2, <3>1, <3>4, Sides DEF MayJoin
      <4>2. seated = reset
        BY <3>2, <3>4
      <4> HIDE DEF seated
      <4> QED
        BY <1>2, <1>4, <2>2, <4>1, <4>2
    <3> QED
      BY <3>3, <3>4
  <2>3. CASE TeamGame(l) /\ q.team = NoTeam /\ ~server.auto_join
    <3> DEFINE s == [q EXCEPT !.spectator = TRUE]
    <3>1. /\ s \in Clients /\ SameSeat(p, s) /\ s.spectator
          /\ s.match_num = p.match_num /\ s.round_num = p.round_num
      BY <1>2 DEF Clients, SameSeat
    <3>2. seated = [reset EXCEPT !.client[c] = s]
      BY <1>4, <2>3 DEF SetAside
    <3> HIDE DEF seated, s
    <3>3. Alike(reset, seated, c) /\ r = s
      BY <1>4, <3>1, <3>2, AlikePut DEF Alike
    <3> QED
      BY <1>4, <2>3, <3>1, <3>3 DEF Alike
  <2> QED
    BY <2>1, <2>2, <2>3
<1> HIDE DEF seated, v
<1>7. Alike(w, v, c) /\ Reborn(r, v.client[c], l)
  BY <1>3, <1>6, AlikeRespawn
<1>8. ASSUME NumOK(l, p), Strict(w) => Fit(l, p, teamz)
      PROVE  ClientOK(w, v.client[c])
  <2>1. Strict(w) /\ ~r.spectator /\ TeamGame(l) => r.team # NoTeam
    <3> SUFFICES ASSUME Strict(w), ~r.spectator, TeamGame(l), r.team = NoTeam, r = q,
                        q.team = NoTeam, MatchRunning(l)
                 PROVE  FALSE
      BY <1>5, <1>6, Sides
    <3> QED
      BY <1>2, <1>8 DEF Fit, TeamOK
  <2>2. NumOK(l, r)
    BY <1>6, <1>8 DEF NumOK
  <2> QED
    BY <1>6, <1>7, <2>1, <2>2, RebornOK
<1>9. v.client[c] \in Clients /\ SameSeat(p, v.client[c]) /\ v.client[c].flags = {}
  BY <1>6, <1>7 DEF Reborn, SameSeat
<1> QED
  BY <1>7, <1>8, <1>9 DEF StepOK, v

(* What the end of a round does to one client, for G_CheckRoundLimit.      *)
LEMMA RejoinIs ==
  ASSUME NEW w, Ours(w), NEW c \in Slots, NEW teamz
  PROVE  LET v == Rejoin(w, c) IN
         Alike(w, v, c) /\ StepOK("rejoin", w, w.client[c], v.client[c], teamz)
<1> DEFINE p == w.client[c]
           l == w.level
           t == IF p.team # NoTeam THEN p.team ELSE SmallestTeam(w)
           q == [p EXCEPT !.spectator = FALSE]
           joined == IF ~TeamGame(l) THEN [w EXCEPT !.client[c] = q]
                     ELSE AddClientToTeam(w, c, t, FALSE)
           r == joined.client[c]
           v == Rejoin(w, c)
<1>1. p \in Clients /\ l \in Levels
  BY OursIs
<1>2. CASE p.round_num # l.round_num
  <2>1. v = w
    BY <1>2 DEF Rejoin
  <2> HIDE DEF v
  <2> QED
    BY <1>1, <2>1 DEF StepOK, Alike, SameSeat, v
<1>3. CASE p.round_num = l.round_num
  <2>1. v = ClientRespawn(joined, c, FALSE)
    BY <1>3 DEF Rejoin
  <2>2. t \in Teams
    BY <1>1, Smallest DEF Clients
  <2>3. /\ q \in Clients /\ SameSeat(p, q) /\ q.flags = p.flags
        /\ q.match_num = p.match_num /\ q.round_num = p.round_num
    BY <1>1 DEF Clients, SameSeat
  <2>4. /\ Alike(w, joined, c) /\ r \in Clients /\ SameSeat(p, r)
        /\ r.match_num = p.match_num /\ r.round_num = p.round_num
        /\ TeamGame(l) => \/ r = p /\ (MatchRunning(l) \/ p.team = t)
                          \/ r.team = t
    <3>1. CASE ~TeamGame(l)
      <4>1. joined = [w EXCEPT !.client[c] = q]
        BY <3>1
      <4> HIDE DEF joined, q
      <4>2. Alike(w, joined, c) /\ r = q
        BY <2>3, <4>1, AlikePut
      <4> QED
        BY <2>3, <3>1, <4>2
    <3>2. CASE TeamGame(l) /\ MayJoin(w, c, t)
      <4>1. ~Carries(w, c)
        BY <3>2 DEF MayJoin, Carries
      <4>2. joined = [w EXCEPT !.client[c] = Joined(p, t)]
        BY <2>2, <3>2, <4>1, JoinIsPut
      <4>3. /\ Joined(p, t) \in Clients /\ SameSeat(p, Joined(p, t)) /\ Joined(p, t).team = t
            /\ Joined(p, t).match_num = p.match_num /\ Joined(p, t).round_num = p.round_num
        BY <1>1, <2>2, JoinedIs
      <4> HIDE DEF joined, t
      <4>4. Alike(w, joined, c) /\ r = Joined(p, t)
        BY <4>2, <4>3, AlikePut
      <4> QED
        BY <4>3, <4>4
    <3>3. CASE TeamGame(l) /\ ~MayJoin(w, c, t)
      <4>1. MatchRunning(l) \/ p.team = t
        BY <3>3 DEF MayJoin
      <4>2. joined = w
        BY <3>3 DEF AddClientToTeam
      <4> HIDE DEF joined, t
      <4> QED
        BY <1>1, <4>1, <4>2 DEF Alike, SameSeat
    <3> QED
      BY <3>1, <3>2, <3>3
  <2> HIDE DEF joined, v, t
  <2>5. Alike(w, v, c) /\ Reborn(r, v.client[c], l)
    BY <2>1, <2>4, AlikeRespawn
  <2>6. ASSUME ClientOK(w, p), Strict(w) => ~MatchRunning(l)
        PROVE  ClientOK(w, v.client[c])
    <3>1. Strict(w) /\ ~r.spectator /\ TeamGame(l) => r.team # NoTeam
      BY <2>2, <2>4, <2>6, Sides
    <3>2. NumOK(l, r)
      BY <2>4, <2>6 DEF ClientOK, NumOK
    <3> QED
      BY <2>4, <2>5, <3>1, <3>2, RebornOK
  <2>7. v.client[c] \in Clients /\ SameSeat(p, v.client[c]) /\ v.client[c].flags = {}
    BY <2>4, <2>5 DEF Reborn, SameSeat
  <2> QED
    BY <2>5, <2>6, <2>7 DEF StepOK, v
<1> QED
  BY <1>2, <1>3

-----------------------------------------------------------------------------
(* The loops over the clients.                                             *)

Step(kind, w, c, teamz) ==
  IF c \notin InUse(w) THEN w
  ELSE IF kind = "restart" THEN RestartClient(w, c, teamz) ELSE Rejoin(w, c)

IsLoop(f, kind, w, teamz, n) ==
  f = [c \in 0 .. n |-> IF c = 0 THEN w ELSE Step(kind, f[c - 1], c, teamz)]

(* The recursive function that a loop is exists, by induction on the       *)
(* clients.                                                                *)
LEMMA LoopExists ==
  ASSUME NEW kind, NEW w, NEW teamz, NEW n \in Nat
  PROVE  \E f : IsLoop(f, kind, w, teamz, n)
<1> DEFINE T == {m \in Nat : \E f : IsLoop(f, kind, w, teamz, m)}
<1>1. 0 \in T
  <2> DEFINE f == [c \in 0 .. 0 |-> w]
  <2>1. IsLoop(f, kind, w, teamz, 0)
    BY DEF IsLoop
  <2> QED
    BY <2>1
<1>2. ASSUME NEW m \in Nat, m \in T
      PROVE  m + 1 \in T
  <2>1. PICK f : IsLoop(f, kind, w, teamz, m)
    BY <1>2
  <2> DEFINE last == Step(kind, f[m], m + 1, teamz)
             g == [c \in 0 .. m + 1 |-> IF c = m + 1 THEN last ELSE f[c]]
  <2>2. \A c \in 0 .. m : f[c] = IF c = 0 THEN w ELSE Step(kind, f[c - 1], c, teamz)
    BY <2>1 DEF IsLoop
  <2>3. \A c \in 0 .. m + 1 : g[c] = IF c = 0 THEN w ELSE Step(kind, g[c - 1], c, teamz)
    <3> TAKE c \in 0 .. m + 1
    <3>1. CASE c = m + 1
      <4>1. c - 1 = m /\ m \in 0 .. m + 1 /\ m # m + 1 /\ c # 0
        BY <3>1
      <4>2. g[c - 1] = f[m] /\ g[c] = last
        BY <4>1, <3>1
      <4> QED
        BY <4>1, <4>2, <3>1
    <3>2. CASE c = 0
      <4>1. c \in 0 .. m /\ c # m + 1
        BY <3>2
      <4> QED
        BY <4>1, <2>2, <3>2
    <3>3. CASE c \in 1 .. m
      <4>1. /\ c \in 0 .. m /\ c - 1 \in 0 .. m + 1
            /\ c # m + 1 /\ c - 1 # m + 1 /\ c # 0
        BY <3>3
      <4>2. g[c] = f[c] /\ g[c - 1] = f[c - 1]
        BY <4>1
      <4> HIDE DEF g
      <4> QED
        BY <4>1, <4>2, <2>2
    <3> QED
      BY <3>1, <3>2, <3>3
  <2>4. DOMAIN g = 0 .. m + 1 /\ g = [c \in 0 .. m + 1 |-> g[c]]
    OBVIOUS
  <2> HIDE DEF g
  <2>5. IsLoop(g, kind, w, teamz, m + 1)
    BY <2>3, <2>4 DEF IsLoop
  <2> QED
    BY <2>5
<1> HIDE DEF T
<1>3. T = Nat
  <2>1. T \in SUBSET Nat
    BY DEF T
  <2> QED
    BY <1>1, <1>2, <2>1, Induct
<1> QED
  BY <1>3 DEF T

(* What a loop that has come to client n has done: each of those in use    *)
(* has been changed as its own step changes it.                            *)
Looped(kind, w, v, teamz, n) ==
  /\ Ours(v) /\ v.server = w.server /\ v.level = w.level /\ v.base = w.base
  /\ v.dropped = w.dropped /\ v.vote = w.vote
  /\ \A c \in Slots :
       IF c <= n /\ c \in InUse(w) THEN StepOK(kind, w, w.client[c], v.client[c], teamz)
       ELSE v.client[c] = w.client[c]

(* After the loop each client is changed as its own step changes it.       *)
LEMMA LoopIs ==
  ASSUME NEW kind \in {"restart", "rejoin"}, NEW w, Ours(w), NEW teamz \in BOOLEAN,
         NEW f, IsLoop(f, kind, w, teamz, server.slots)
  PROVE  Looped(kind, w, f[server.slots], teamz, server.slots)
<1> DEFINE n == server.slots
           T == {m \in Nat : m <= n => Looped(kind, w, f[m], teamz, m)}
<1>1. n \in Nat /\ Slots = 1 .. n
  BY DEF Ours, Worlds, ServerType, Slots
<1>2. \A c \in 0 .. n : f[c] = IF c = 0 THEN w ELSE Step(kind, f[c - 1], c, teamz)
  BY DEF IsLoop
<1>3. 0 \in T
  <2>1. f[0] = w
    BY <1>1, <1>2
  <2>2. \A c \in Slots : ~(c <= 0)
    BY <1>1
  <2> QED
    BY <2>1, <2>2 DEF Looped
<1>4. ASSUME NEW m \in Nat, m \in T, m + 1 <= n
      PROVE  Looped(kind, w, f[m + 1], teamz, m + 1)
  <2> DEFINE c == m + 1
             u == f[m]
             v == f[c]
  <2>1. Looped(kind, w, u, teamz, m)
    BY <1>1, <1>4
  <2>2. c \in Slots /\ c \in 0 .. n /\ c # 0 /\ c - 1 = m /\ ~(c <= m)
    BY <1>1, <1>4
  <2>3. v = Step(kind, u, c, teamz)
    BY <1>2, <2>2
  <2>4. \A d \in Slots : d \in Int
    BY <1>1
  <2>5. \A d \in Slots \ {c} : d <= c <=> d <= m
    BY <2>4
  <2> HIDE DEF u, v, c
  <2>6. u.client[c] = w.client[c] /\ Ours(u)
    BY <2>1, <2>2 DEF Looped
  <2>7. c \in InUse(u) <=> c \in InUse(w)
    BY <2>6 DEF InUse
  <2>8. CASE c \notin InUse(w)
    <3>1. v = u
      BY <2>3, <2>7, <2>8 DEF Step
    <3>2. Looped(kind, w, v, teamz, c)
      BY <2>1, <2>2, <2>5, <2>8, <3>1 DEF Looped
    <3> QED
      BY <3>2 DEF v, c
  <2>9. CASE c \in InUse(w)
    <3>1. Alike(u, v, c) /\ StepOK(kind, u, u.client[c], v.client[c], teamz)
      BY <2>2, <2>3, <2>6, <2>7, <2>9, RestartClientIs, RejoinIs DEF Step
    <3>2. u.level = w.level /\ u.server = w.server
      BY <2>1 DEF Looped
    <3>3. StepOK(kind, w, w.client[c], v.client[c], teamz)
      BY <2>6, <3>1, <3>2 DEF StepOK, ClientOK, Quiet, Strict, OneContest, Allowed
    <3>4. c <= c
      BY <2>2, <2>4
    <3>5. Looped(kind, w, v, teamz, c)
      BY <2>1, <2>2, <2>5, <2>9, <3>1, <3>3, <3>4 DEF Looped, Alike
    <3> QED
      BY <3>5 DEF v, c
  <2> QED
    BY <2>8, <2>9
<1> HIDE DEF n
<1>5. \A m \in Nat : m \in T => m + 1 \in T
  BY <1>1, <1>4
<1> HIDE DEF T
<1>6. T \in SUBSET Nat
  BY DEF T
<1>7. n \in T
  BY <1>1, <1>3, <1>5, <1>6, Induct
<1> QED
  BY <1>1, <1>7 DEF T, n

-----------------------------------------------------------------------------
(* G_RestartGame: whatever becomes of matches and teams, everything is     *)
(* back in its place.                                                      *)

(* What of LevelOK a toggle of a rule keeps.                               *)
RulesOK(w) ==
  LET l == w.level IN
  /\ \A name \in Names : l[name] => Allowed(w, name)
  /\ l.warmup => l.match \/ l.rounds
  /\ l.start_match => Allowed(w, "match")
  /\ l.start_round => Allowed(w, "rounds")

(* When the game may be restarted: teamz as the caller has it.             *)
RestartOK(w, teamz) ==
  /\ Ours(w) /\ RulesOK(w) /\ VoteOK(w)
  /\ \A c \in InUse(w) : NumOK(w.level, w.client[c])
  /\ Strict(w) /\ MatchRunning(w.level) =>
       \/ w.level.match
       \/ ~w.level.rounds /\ ~teamz /\ \A c \in InUse(w) : TeamOK(w.level, w.client[c])

(* G_RestartGame keeps the invariant, takes all flags home and stops both  *)
(* contests.                                                               *)
LEMMA RestartKeeps ==
  ASSUME NEW w, NEW teamz \in BOOLEAN, RestartOK(w, teamz)
  PROVE  LET v == RestartGame(w, teamz) IN
         /\ Ours(v) /\ Inv(v) /\ v.server = w.server /\ v.vote = w.vote
         /\ v.level.match_time = Unset /\ v.level.round_time = Unset
         /\ InUse(v) = InUse(w)
<1> DEFINE l == w.level
           m == IF l.match_time # Unset THEN l.match_num + 1 ELSE l.match_num
           r == IF l.round_time # Unset THEN l.round_num + 1 ELSE l.round_num
           up == [l EXCEPT !.match_num = m, !.round_num = r]
           counted == [w EXCEPT !.level = up]
           n == server.slots
           first == [w EXCEPT !.level.match_num = IF w.level.match_time # Unset THEN @ + 1 ELSE @,
                              !.level.round_num = IF w.level.round_time # Unset THEN @ + 1 ELSE @]
           f == CHOOSE f : f = [c \in 0 .. n |->
                  IF c = 0 THEN first
                  ELSE IF c \in InUse(f[c - 1]) THEN RestartClient(f[c - 1], c, teamz)
                  ELSE f[c - 1]]
           u == f[n]
           shown == [t \in Teams |-> u.level.ctf]
           none == [t \in Teams |-> {}]
           ended == [up EXCEPT !.match_time = Unset, !.round_time = Unset]
           x == [ResetItems(u) EXCEPT !.level.match_time = Unset, !.level.round_time = Unset]
           v == RestartGame(w, teamz)
<1>1. Ours(w) /\ l \in Levels
  BY OursIs DEF RestartOK
<1> HIDE DEF m, r
<1>2. m \in Nat /\ r \in Nat /\ l.match_num <= m /\ l.round_num <= r
  BY <1>1 DEF Levels, m, r
<1>3. MatchRunning(l) => m = l.match_num + 1
  BY <1>1 DEF MatchRunning, Unset, m
<1>4. /\ up \in Levels /\ up.match_num = m /\ up.round_num = r
      /\ up.match_time = l.match_time /\ up.round_time = l.round_time
      /\ up.ctf = l.ctf /\ up.teams = l.teams /\ up.match = l.match /\ up.rounds = l.rounds
      /\ up.warmup = l.warmup /\ up.start_match = l.start_match /\ up.start_round = l.start_round
      /\ m \in Nat /\ r \in Nat /\ l.match_num <= m /\ l.round_num <= r
      /\ MatchRunning(l) => m = l.match_num + 1
      /\ l.match_num \in Nat /\ l.round_num \in Nat
  BY <1>1, <1>2, <1>3 DEF Levels
<1> HIDE DEF up
<1>5. /\ ended \in Levels /\ ended.match_time = Unset /\ ended.round_time = Unset
      /\ ended.match_num = m /\ ended.round_num = r
      /\ ended.ctf = l.ctf /\ ended.teams = l.teams
      /\ ended.match = l.match /\ ended.rounds = l.rounds
      /\ ended.warmup = l.warmup /\ ended.start_match = l.start_match
      /\ ended.start_round = l.start_round
  <2>1. Unset \in Times
    BY DEF Times
  <2> QED
    BY <1>4, <2>1 DEF Levels
<1>6. n \in Nat
  BY <1>1 DEF Ours, Worlds, ServerType
<1>7. v = x
  BY DEF RestartGame
<1>8. first = counted
  BY <1>1 DEF Ours, Worlds, Levels, up, m, r
<1> HIDE DEF ended, first
<1>9. /\ Ours(counted) /\ counted.level = up /\ counted.client = w.client
      /\ counted.server = w.server /\ counted.vote = w.vote /\ InUse(counted) = InUse(w)
  BY <1>1, <1>4 DEF Ours, Worlds, InUse
<1> HIDE DEF counted
<1>10. IsLoop(f, "restart", counted, teamz, n)
  <2>1. PICK g : IsLoop(g, "restart", counted, teamz, n)
    BY <1>6, LoopExists
  <2>2. g = [c \in 0 .. n |-> IF c = 0 THEN first
                              ELSE IF c \in InUse(g[c - 1]) THEN RestartClient(g[c - 1], c, teamz)
                              ELSE g[c - 1]]
    BY <1>8, <2>1 DEF IsLoop, Step
  <2>3. f = [c \in 0 .. n |-> IF c = 0 THEN first
                              ELSE IF c \in InUse(f[c - 1]) THEN RestartClient(f[c - 1], c, teamz)
                              ELSE f[c - 1]]
    BY <2>2
  <2> HIDE DEF f
  <2> QED
    BY <1>8, <2>3 DEF IsLoop, Step
<1> HIDE DEF f
<1>11. Looped("restart", counted, u, teamz, n)
  BY <1>9, <1>10, LoopIs
<1> HIDE DEF u
<1>12. /\ Ours(u) /\ u.level = up /\ u.server = w.server /\ u.vote = w.vote
       /\ \A c \in InUse(w) : StepOK("restart", counted, w.client[c], u.client[c], teamz)
       /\ \A c \in Slots \ InUse(w) : u.client[c] = w.client[c]
  <2>1. \A c \in Slots : c <= n
    BY <1>6 DEF Slots
  <2> QED
    BY <1>9, <1>11, <2>1 DEF Looped, InUse
<1>13. shown \in Bases /\ none \in Drops
  BY <1>4, <1>12 DEF Bases, Drops, Levels
<1>14. /\ Ours(x) /\ x.level = ended /\ x.base = shown /\ x.dropped = none
       /\ x.client = u.client /\ x.server = w.server /\ x.vote = w.vote
  <2> DEFINE y == [u EXCEPT !.base = shown, !.dropped = none]
  <2>1. ResetItems(u) = y
    BY DEF ResetItems
  <2>2. Ours(y) /\ y.base = shown /\ y.dropped = none /\ y.level = up
        /\ y.client = u.client /\ y.server = w.server /\ y.vote = w.vote
    <3> HIDE DEF shown, none
    <3>1. /\ Ours(y) /\ y.base = shown /\ y.dropped = none
          /\ y.server = u.server /\ y.level = u.level
          /\ y.client = u.client /\ y.vote = u.vote
      BY <1>12, <1>13 DEF Ours, Worlds
    <3> QED
      BY <1>12, <3>1
  <2> HIDE DEF y, shown, none
  <2>3. x = [y EXCEPT !.level = ended]
    BY <2>1, <2>2 DEF ended
  <2> HIDE DEF x
  <2> QED
    BY <1>5, <2>2, <2>3 DEF Ours, Worlds
<1> HIDE DEF x
<1>15. \A c \in Slots : SameSeat(w.client[c], x.client[c])
  BY <1>12, <1>14 DEF StepOK, SameSeat
<1>16. VoteOK(x) /\ InUse(x) = InUse(w)
  BY <1>14, <1>15, SameVotes DEF RestartOK, SameVote
<1>17. Allowed(x, "match") = Allowed(w, "match") /\ \A name \in Names : Allowed(x, name) = Allowed(w, name)
  BY <1>14 DEF Allowed
<1>18. LevelOK(x)
  BY <1>5, <1>14, <1>17 DEF RestartOK, RulesOK, LevelOK, Names, Allowed
<1>19. ASSUME NEW c \in InUse(w)
       PROVE  ClientOK(x, x.client[c]) /\ x.client[c].flags = {}
  <2>1. w.client[c] \in Clients
    BY <1>1, OursIs
  <2>2. w.client[c].match_num \in Nat /\ w.client[c].round_num \in Nat /\ NumOK(l, w.client[c])
    BY <2>1 DEF Clients, RestartOK
  <2>3. NumOK(counted.level, w.client[c])
    BY <1>4, <1>9, <2>2 DEF NumOK
  <2>4. Strict(w) => Fit(counted.level, w.client[c], teamz)
    BY <1>4, <1>9, <2>2 DEF Fit, RestartOK, NumOK, MatchRunning, TeamOK, TeamGame
  <2>5. ClientOK(counted, x.client[c]) /\ x.client[c].flags = {}
    BY <1>9, <1>12, <1>14, <2>3, <2>4 DEF StepOK, Strict, OneContest, Allowed
  <2>6. ClientOK(x, x.client[c])
    BY <1>4, <1>5, <1>9, <1>14, <2>5
    DEF ClientOK, FlagOK, NumOK, TeamOK, TeamGame, Quiet, Strict, OneContest, Allowed
  <2> QED
    BY <2>5, <2>6
<1>20. EachOK(x) /\ \A c \in InUse(x) : x.client[c].flags = {}
  BY <1>16, <1>19 DEF EachOK
<1>21. \A t \in Teams : x.base[t] = x.level.ctf /\ x.dropped[t] = {}
  BY <1>4, <1>5, <1>12, <1>14
<1>22. OnePlace(x) /\ Somewhere(x)
  BY <1>20, <1>21 DEF OnePlace, Somewhere
<1> QED
  BY <1>5, <1>7, <1>14, <1>16, <1>18, <1>20, <1>22 DEF Inv

-----------------------------------------------------------------------------
(* The parts of a frame: each keeps the invariant, and lets nobody into a  *)
(* match or round that runs, unless both can.                              *)

Enters(w, v) ==
  /\ MatchRunning(v.level) => MatchRunning(w.level) /\ Players(v) \subseteq Players(w)
  /\ RoundRunning(v.level) => RoundRunning(w.level) /\ Players(v) \subseteq Players(w)

SameAllowed(w, v) == \A name \in Names : Allowed(v, name) = Allowed(w, name)

Keeps(w, v) ==
  /\ Ours(v) /\ Inv(v) /\ SameAllowed(w, v)
  /\ v.vote.age <= w.vote.age
  /\ OneContest(w) => Enters(w, v)

(* A part of the frame that does nothing.                                  *)
LEMMA KeepsSelf ==
  ASSUME NEW w, Ours(w), Inv(w)
  PROVE  Keeps(w, w)
<1>1. w.vote.age \in Nat
  BY DEF Ours, Worlds, Votes
<1> QED
  BY <1>1 DEF Keeps, SameAllowed, Enters

(* One part of the frame after another.                                    *)
LEMMA KeepsOn ==
  ASSUME NEW w, Ours(w), NEW u, NEW v, Keeps(w, u), Keeps(u, v)
  PROVE  Keeps(w, v)
<1>1. OneContest(u) = OneContest(w) /\ SameAllowed(w, v)
  BY DEF Keeps, SameAllowed, OneContest, Names
<1>2. w.vote.age \in Nat /\ u.vote.age \in Nat /\ v.vote.age \in Nat
  BY DEF Keeps, Ours, Worlds, Votes
<1> QED
  BY <1>1, <1>2 DEF Keeps, Enters

SameRules(l, m) ==
  /\ m.ctf = l.ctf /\ m.teams = l.teams
  /\ m.match_num = l.match_num /\ m.round_num = l.round_num

(* Some players respawn, and of the level nothing changes that the         *)
(* invariant asks of them.                                                 *)
LEMMA RespawnCalm ==
  ASSUME NEW w, Ours(w), Inv(w), NEW S \in SUBSET InUse(w),
         NEW v, Ours(v), v.server = w.server, v.base = w.base, v.dropped = w.dropped,
         SameVote(w, v), SameRules(w.level, v.level), LevelOK(v),
         \A c \in S : Reborn(w.client[c], v.client[c], w.level),
         \A c \in Slots \ S : v.client[c] = w.client[c],
         Quiet(w) => \A c \in S : w.client[c].flags = {}
  PROVE  /\ Inv(v) /\ InUse(v) = InUse(w) /\ Players(v) = Players(w)
         /\ SameAllowed(w, v)
<1>1. SameAllowed(w, v) /\ Quiet(v) = Quiet(w) /\ Strict(v) = Strict(w)
  BY DEF SameAllowed, Quiet, Strict, OneContest, Allowed
<1>2. \A c \in InUse(w) : w.client[c] \in Clients /\ ClientOK(w, w.client[c])
  BY OursIs DEF Inv, EachOK
<1>3. \A p : ClientOK(w, p) => ClientOK(v, p)
  BY <1>1 DEF ClientOK, FlagOK, NumOK, TeamOK, TeamGame, SameRules
<1>4. \A c \in S : ClientOK(w, v.client[c])
  <2> TAKE c \in S
  <2> DEFINE p == w.client[c]
             q == v.client[c]
  <2>1. Reborn(p, q, w.level) /\ ClientOK(w, p) /\ p \in Clients
    BY <1>2
  <2>2. NumOK(w.level, p) /\ (Strict(w) /\ ~p.spectator /\ TeamGame(w.level) => p.team # NoTeam)
    BY <2>1 DEF ClientOK, TeamOK
  <2> HIDE DEF p, q
  <2>3. ClientOK(w, q)
    BY <2>1, <2>2, RebornOK
  <2> QED
    BY <2>3 DEF q
<1>5. \A c \in S : /\ SameSeat(w.client[c], v.client[c])
                   /\ v.client[c].spectator = w.client[c].spectator
                   /\ v.client[c].flags = {}
  BY DEF Reborn
<1>6. \A c \in Slots : /\ SameSeat(w.client[c], v.client[c])
                       /\ v.client[c].spectator = w.client[c].spectator
                       /\ v.client[c].flags \subseteq w.client[c].flags
                       /\ Quiet(w) => v.client[c].flags = w.client[c].flags
  BY <1>5 DEF SameSeat
<1>7. Calm(w, v)
  BY <1>2, <1>3, <1>4, <1>6 DEF Calm, SameRules, InUse
<1>8. Inv(v) /\ InUse(v) = InUse(w)
  BY <1>7, CalmKeeps
<1>9. Players(v) = Players(w)
  BY <1>6, <1>8, OursIs DEF Players
<1> QED
  BY <1>1, <1>8, <1>9

(* Only the level changes.                                                 *)
LEMMA LevelCalm ==
  ASSUME NEW w, Ours(w), Inv(w), NEW l \in Levels, SameRules(w.level, l),
         LevelOK([w EXCEPT !.level = l])
  PROVE  LET v == [w EXCEPT !.level = l] IN
         /\ Ours(v) /\ Inv(v) /\ v.level = l /\ v.vote = w.vote /\ v.server = w.server
         /\ v.client = w.client
         /\ InUse(v) = InUse(w) /\ Players(v) = Players(w) /\ SameAllowed(w, v)
<1> DEFINE v == [w EXCEPT !.level = l]
<1>1. /\ Ours(v) /\ v.level = l /\ v.vote = w.vote /\ v.server = w.server
      /\ v.client = w.client /\ v.base = w.base /\ v.dropped = w.dropped
  BY DEF Ours, Worlds
<1> HIDE DEF v
<1>2. LevelOK(v) /\ SameVote(w, v)
  BY <1>1 DEF v, SameVote
<1>3. Inv(v) /\ InUse(v) = InUse(w) /\ Players(v) = Players(w) /\ SameAllowed(w, v)
  BY <1>1, <1>2, RespawnCalm, {} \in SUBSET InUse(w)
<1> QED
  BY <1>1, <1>3 DEF v

(* G_BeginIntermission.                                                    *)
LEMMA IntermissionKeeps ==
  ASSUME NEW w, Ours(w), Inv(w)
  PROVE  LET v == BeginIntermission(w) IN
         Keeps(w, v) /\ v.vote = w.vote /\ v.server = w.server
<1> DEFINE S == {c \in InUse(w) : w.client[c].dead}
           u == RespawnAll(w, S)
           l == [w.level EXCEPT !.intermission = TRUE]
           x == [u EXCEPT !.level = l]
           v == BeginIntermission(w)
<1>1. CASE w.level.intermission
  <2>1. v = w
    BY <1>1 DEF BeginIntermission
  <2> QED
    BY <2>1, KeepsSelf
<1>2. CASE ~w.level.intermission
  <2>1. S \in SUBSET InUse(w) /\ S \in SUBSET Slots
    BY OursIs
  <2> HIDE DEF S
  <2>2. /\ Ours(u)
        /\ \A c \in S : Reborn(w.client[c], u.client[c], w.level)
        /\ \A c \in Slots \ S : u.client[c] = w.client[c]
        /\ u.server = w.server /\ u.level = w.level /\ u.base = w.base
        /\ u.dropped = w.dropped /\ u.vote = w.vote
    BY <2>1, RespawnMany
  <2>3. v = x
    BY <1>2, <2>2 DEF BeginIntermission, S
  <2>4. /\ l \in Levels /\ SameRules(w.level, l)
        /\ l.match_time = w.level.match_time /\ l.round_time = w.level.round_time
        /\ l.match = w.level.match /\ l.rounds = w.level.rounds /\ l.warmup = w.level.warmup
        /\ l.start_match = w.level.start_match /\ l.start_round = w.level.start_round
        /\ \A name \in Names : l[name] = w.level[name]
    BY OursIs DEF Levels, SameRules, Names
  <2> HIDE DEF u, l
  <2>5. /\ Ours(x) /\ x.level = l /\ x.client = u.client
        /\ x.server = w.server /\ x.base = w.base /\ x.dropped = w.dropped /\ x.vote = w.vote
    BY <2>2, <2>4 DEF Ours, Worlds
  <2> HIDE DEF x
  <2>6. LevelOK(x) /\ SameVote(w, x)
    BY <2>4, <2>5 DEF Inv, LevelOK, Allowed, SameVote
  <2>7. Quiet(w) => \A c \in S : w.client[c].flags = {}
    BY DEF S, Inv, EachOK, ClientOK
  <2>8. /\ Inv(x) /\ InUse(x) = InUse(w) /\ Players(x) = Players(w) /\ SameAllowed(w, x)
    BY <2>1, <2>2, <2>4, <2>5, <2>6, <2>7, RespawnCalm
  <2>9. Enters(w, x)
    BY <2>4, <2>5, <2>8 DEF Enters, MatchRunning, RoundRunning
  <2>10. x.vote.age <= w.vote.age
    BY <2>5 DEF Ours, Worlds, Votes
  <2> QED
    BY <2>3, <2>5, <2>8, <2>9, <2>10 DEF Keeps
<1> QED
  BY <1>1, <1>2

(* A restart by a vote or by a change of gameplay, where the world is in   *)
(* order.                                                                  *)
LEMMA RestartFull ==
  ASSUME NEW w, Ours(w), Inv(w), NEW teamz \in BOOLEAN
  PROVE  LET v == RestartGame(w, teamz) IN
         Keeps(w, v) /\ v.vote = w.vote /\ v.server = w.server
<1> DEFINE v == RestartGame(w, teamz)
<1>1. RestartOK(w, teamz)
  BY DEF RestartOK, Inv, RulesOK, LevelOK, EachOK, ClientOK, MatchRunning, Unset
<1>2. /\ Ours(v) /\ Inv(v) /\ v.server = w.server /\ v.vote = w.vote
      /\ v.level.match_time = Unset /\ v.level.round_time = Unset
  BY <1>1, RestartKeeps
<1> HIDE DEF v
<1>3. Enters(w, v)
  BY <1>2 DEF Enters, MatchRunning, RoundRunning, Unset
<1>4. v.vote.age <= w.vote.age /\ SameAllowed(w, v)
  BY <1>2 DEF Ours, Worlds, Votes, SameAllowed, Allowed
<1> QED
  BY <1>2, <1>3, <1>4 DEF Keeps, v

(* G_ResetVote.                                                            *)
LEMMA ResetVoteKeeps ==
  ASSUME NEW w, Ours(w), Inv(w)
  PROVE  LET v == ResetVote(w) IN Keeps(w, v) /\ v.vote.age = 0 /\ v.server = w.server
<1> DEFINE f == [c \in Slots |-> IF c \in InUse(w) THEN [w.client[c] EXCEPT !.vote = "none"]
                                 ELSE w.client[c]]
           n == [NoVote EXCEPT !.stale = w.vote.stale \ InUse(w)]
           x == [w EXCEPT !.client = f, !.vote = n]
           v == ResetVote(w)
<1>1. v = x
  BY DEF ResetVote
<1>2. \A c \in Slots : f[c] \in Clients
  BY OursIs DEF Clients
<1>3. f \in [Slots -> Clients]
  BY <1>2
<1>4. /\ n \in Votes /\ n.cmd = "none" /\ n.age = 0
      /\ n.count = NoVote.count /\ n.gone = NoVote.gone
      /\ n.stale = w.vote.stale \ InUse(w)
  <2>1. w.vote.stale \in SUBSET Slots
    BY OursIs DEF Votes
  <2>2. NoVote.count \in Tallies /\ NoVote.gone \in Tallies
    BY DEF NoVote, Tallies
  <2> QED
    BY <2>1, <2>2 DEF NoVote, Votes
<1>5. \A c \in Slots : /\ f[c].slot = w.client[c].slot
                       /\ f[c].flags = w.client[c].flags
                       /\ f[c].spectator = w.client[c].spectator
                       /\ f[c].vote = IF c \in InUse(w) THEN "none" ELSE w.client[c].vote
  BY OursIs DEF Clients
<1>6. \A c \in InUse(w) : ClientOK(w, f[c])
  <2> TAKE c \in InUse(w)
  <2>1. w.client[c] \in Clients /\ ClientOK(w, w.client[c]) /\ c \in Slots
    BY OursIs DEF Inv, EachOK
  <2> QED
    BY <2>1 DEF ClientOK, FlagOK, NumOK, TeamOK, Clients
<1> HIDE DEF f, n, v
<1>7. /\ Ours(x) /\ x.client = f /\ x.vote = n /\ x.level = w.level
      /\ x.server = w.server /\ x.base = w.base /\ x.dropped = w.dropped
  BY <1>3, <1>4 DEF Ours, Worlds
<1> HIDE DEF x
<1>8. InUse(x) = InUse(w) /\ Players(x) = Players(w)
  BY <1>5, <1>7 DEF InUse, Players
<1>9. SameAllowed(w, x) /\ Quiet(x) = Quiet(w) /\ Strict(x) = Strict(w)
  BY <1>7 DEF SameAllowed, Quiet, Strict, OneContest, Allowed
<1>10. EachOK(x)
  BY <1>6, <1>7, <1>8, <1>9 DEF EachOK, ClientOK
<1>11. \A c \in InUse(w) : x.client[c].flags = w.client[c].flags
  BY <1>5, <1>7, OursIs
<1>12. OnePlace(x) /\ Somewhere(x)
  BY <1>7, <1>8, <1>9, <1>11 DEF Inv, OnePlace, Somewhere
<1>13. LevelOK(x)
  BY <1>7 DEF Inv, LevelOK, Allowed
<1>14. VoteOK(x)
  <2>1. \A c \in InUse(x) : x.client[c].vote = "none"
    BY <1>5, <1>7, <1>8, OursIs
  <2>2. Cast(x, "yes") = {} /\ Cast(x, "no") = {}
    BY <2>1 DEF Cast
  <2>3. \A c \in Slots : LET p == x.client[c] IN
          IF c \in x.vote.stale THEN p.slot # "free" /\ p.vote # "none"
          ELSE p.slot # "in_use" => p.vote = "none"
    BY <1>4, <1>5, <1>7 DEF Inv, VoteOK, InUse
  <2> QED
    BY <1>4, <1>7, <2>2, <2>3 DEF VoteOK
<1>15. x.vote.age = 0 /\ x.vote.age <= w.vote.age
  BY <1>4, <1>7 DEF Ours, Worlds, Votes
<1>16. Enters(w, x)
  BY <1>7, <1>8 DEF Enters
<1> QED
  BY <1>1, <1>7, <1>9, <1>10, <1>12, <1>13, <1>14, <1>15, <1>16 DEF Keeps, Inv, v

(* G_CheckVote: a vote that is too old is over.                            *)
LEMMA CheckVoteKeeps ==
  ASSUME NEW w, Ours(w), Inv(w), w.vote.cmd = "none" => w.vote.age = 0
  PROVE  LET v == CheckVote(w) IN Keeps(w, v) /\ v.vote.age <= VoteTime
<1> DEFINE v == CheckVote(w)
           passed == CASE w.vote.cmd = "map"     -> BeginIntermission(w)
                       [] w.vote.cmd = "restart" -> RestartGame(w, FALSE)
                       [] OTHER                  -> w
<1>1. VoteTime \in Nat /\ w.vote.age \in Nat
  BY BoundsAssumption DEF Ours, Worlds, Votes
<1>2. Keeps(w, w)
  BY KeepsSelf
<1>3. Keeps(w, passed)
  <2>1. Keeps(w, BeginIntermission(w))
    BY IntermissionKeeps
  <2>2. Keeps(w, RestartGame(w, FALSE))
    BY RestartFull
  <2>3. passed = w \/ passed = BeginIntermission(w) \/ passed = RestartGame(w, FALSE)
    OBVIOUS
  <2> HIDE DEF passed
  <2> QED
    BY <1>2, <2>1, <2>2, <2>3
<1>4. \/ v = ResetVote(passed) \/ v = ResetVote(w)
      \/ v = w /\ (~server.voting \/ w.vote.cmd = "none" \/ ~Expired(w))
  <2> DEFINE present == Cardinality(InUse(w))
             Majority(x) == 100 * w.vote.count[x] >= 51 * present
  <2>1. v = IF ~server.voting \/ w.vote.cmd = "none" THEN w
            ELSE IF Expired(w) THEN ResetVote(w)
            ELSE IF Majority("yes") THEN ResetVote(passed)
            ELSE IF Majority("no") THEN ResetVote(w)
            ELSE w
    BY DEF CheckVote
  <2> HIDE DEF passed, v, Majority
  <2>2. CASE ~server.voting \/ w.vote.cmd = "none"
    BY <2>1, <2>2
  <2>3. CASE ~(~server.voting \/ w.vote.cmd = "none") /\ Expired(w)
    BY <2>1, <2>3
  <2>4. CASE ~(~server.voting \/ w.vote.cmd = "none") /\ ~Expired(w)
    <3>1. v \in {ResetVote(passed), ResetVote(w), w}
      BY <2>1, <2>4 DEF Expired
    <3> QED
      BY <2>4, <3>1 DEF Expired
  <2> QED
    BY <2>2, <2>3, <2>4
<1> HIDE DEF passed, v
<1>5. \A u : Keeps(w, u) => Keeps(w, ResetVote(u)) /\ ResetVote(u).vote.age = 0
  <2> TAKE u
  <2> HAVE Keeps(w, u)
  <2>1. Keeps(u, ResetVote(u)) /\ ResetVote(u).vote.age = 0
    BY ResetVoteKeeps DEF Keeps
  <2> QED
    BY <2>1, KeepsOn
<1>6. CASE v = w /\ (~server.voting \/ w.vote.cmd = "none" \/ ~Expired(w))
  <2>1. ~server.voting => w.vote.cmd = "none"
    BY DEF Inv, VoteOK, Ours
  <2>2. w.vote.age <= VoteTime
    BY <1>1, <1>6, <2>1 DEF Expired
  <2> QED
    BY <1>2, <1>6, <2>2 DEF v
<1>7. CASE v = ResetVote(passed) \/ v = ResetVote(w)
  <2>1. Keeps(w, v) /\ v.vote.age = 0
    BY <1>2, <1>3, <1>5, <1>7
  <2> QED
    BY <1>1, <2>1 DEF v
<1> QED
  BY <1>4, <1>6, <1>7

(* The time of the level advances.                                         *)
LEMMA AdvanceKeeps ==
  ASSUME NEW w, Ours(w), Inv(w)
  PROVE  LET v == Advance(w) IN
         /\ Ours(v) /\ Inv(v) /\ SameAllowed(w, v) /\ Players(v) = Players(w)
         /\ v.vote.cmd = "none" => v.vote.age = 0
<1> DEFINE Less(t) == IF t > 0 THEN t - 1 ELSE t
           m == Less(w.level.match_time)
           r == Less(w.level.round_time)
           a == IF w.vote.cmd = "none" THEN 0 ELSE w.vote.age + 1
           l == [w.level EXCEPT !.match_time = m, !.round_time = r]
           n == [w.vote EXCEPT !.age = a]
           x == [w EXCEPT !.level = l, !.vote = n]
           v == Advance(w)
<1>1. \A t \in Times : Less(t) \in Times /\ (t = Unset <=> Less(t) = Unset)
  BY BoundsAssumption DEF Times, Unset
<1>2. w.level \in Levels /\ w.level.match_time \in Times /\ w.level.round_time \in Times
  BY OursIs DEF Levels
<1>3. /\ m \in Times /\ (m = Unset <=> w.level.match_time = Unset)
      /\ r \in Times /\ (r = Unset <=> w.level.round_time = Unset)
  BY <1>1, <1>2
<1>4. a \in Nat /\ w.vote \in Votes
  BY OursIs DEF Votes
<1>5. v = x
  <2>1. v = [w EXCEPT !.level.match_time = m, !.level.round_time = r, !.vote.age = a]
    BY DEF Advance
  <2> HIDE DEF m, r, a
  <2> QED
    BY <1>4, <2>1 DEF Ours, Worlds, Levels, Votes
<1> HIDE DEF Less, m, r, v
<1>6. /\ l \in Levels /\ SameRules(w.level, l) /\ l.match_time = m /\ l.round_time = r
      /\ l.match = w.level.match /\ l.rounds = w.level.rounds /\ l.warmup = w.level.warmup
      /\ l.start_match = w.level.start_match /\ l.start_round = w.level.start_round
      /\ \A name \in Names : l[name] = w.level[name]
  BY <1>2, <1>3 DEF Levels, SameRules, Names
<1>7. /\ n \in Votes /\ n.cmd = w.vote.cmd /\ n.count = w.vote.count /\ n.gone = w.vote.gone
      /\ n.stale = w.vote.stale /\ n.age = a
  <2> HIDE DEF a
  <2> QED
    BY <1>4 DEF Votes
<1> HIDE DEF l, n
<1>8. /\ Ours(x) /\ x.level = l /\ x.vote = n
      /\ x.server = w.server /\ x.client = w.client /\ x.base = w.base /\ x.dropped = w.dropped
  BY <1>6, <1>7 DEF Ours, Worlds
<1> HIDE DEF x
<1>9. LevelOK(x) /\ SameVote(w, x)
  BY <1>3, <1>6, <1>7, <1>8 DEF Inv, LevelOK, Allowed, SameVote
<1>10. Inv(x) /\ Players(x) = Players(w) /\ SameAllowed(w, x)
  <2> DEFINE S == {}
  <2>1. S \in SUBSET InUse(w) /\ SameRules(w.level, x.level) /\ x.client = w.client
    BY <1>6, <1>8
  <2>2. \A c \in S : Reborn(w.client[c], x.client[c], w.level) /\ w.client[c].flags = {}
    OBVIOUS
  <2> HIDE DEF S
  <2> QED
    BY <1>8, <1>9, <2>1, <2>2, RespawnCalm
<1> QED
  BY <1>5, <1>7, <1>8, <1>10 DEF v, a

(* G_ClientBeginFrame of the dead.                                         *)
LEMMA BeginFrameKeeps ==
  ASSUME NEW w, Ours(w), Inv(w), NEW clicks
  PROVE  LET v == BeginFrame(w, clicks) IN
         Keeps(w, v) /\ v.vote = w.vote
<1> DEFINE dead == {c \in InUse(w) : w.client[c].dead}
           f == [c \in Slots |-> IF c \in dead THEN [w.client[c] EXCEPT !.spectator = TRUE]
                                 ELSE w.client[c]]
           u == [w EXCEPT !.client = f]
           x == RespawnAll(u, dead)
           y == RespawnAll(w, dead \cap clicks)
           v == BeginFrame(w, clicks)
<1>1. dead \subseteq InUse(w) /\ dead \in SUBSET Slots /\ dead \cap clicks \in SUBSET Slots
  BY OursIs
<1>2. v = IF w.level.intermission THEN w
          ELSE IF w.level.rounds /\ RoundRunning(w.level) THEN x ELSE y
  BY DEF BeginFrame
<1>3. Quiet(w) => \A c \in dead : w.client[c].flags = {}
  BY DEF Inv, EachOK, ClientOK
<1>4. w.vote.age \in Nat
  BY DEF Ours, Worlds, Votes
<1>5. CASE w.level.rounds /\ RoundRunning(w.level)
  <2>1. \A p \in Clients : LET q == [p EXCEPT !.spectator = TRUE] IN
          /\ q \in Clients /\ SameSeat(p, q) /\ q.spectator
          /\ q.match_num = p.match_num /\ q.round_num = p.round_num
    BY DEF Clients, SameSeat
  <2> HIDE DEF dead
  <2>2. /\ f \in [Slots -> Clients]
        /\ \A c \in dead : /\ SameSeat(w.client[c], f[c]) /\ f[c].spectator /\ f[c] \in Clients
                           /\ f[c].match_num = w.client[c].match_num
                           /\ f[c].round_num = w.client[c].round_num
        /\ \A c \in Slots \ dead : f[c] = w.client[c]
    BY <1>1, <2>1, OursIs
  <2> HIDE DEF f
  <2>3. /\ Ours(u) /\ u.client = f
        /\ u.server = w.server /\ u.level = w.level /\ u.base = w.base
        /\ u.dropped = w.dropped /\ u.vote = w.vote
    BY <2>2, SetClients
  <2> HIDE DEF u
  <2>4. /\ Ours(x)
        /\ \A c \in dead : Reborn(f[c], x.client[c], u.level)
        /\ \A c \in Slots \ dead : x.client[c] = f[c]
        /\ x.server = u.server /\ x.level = u.level /\ x.base = u.base
        /\ x.dropped = u.dropped /\ x.vote = u.vote
    BY <1>1, <2>3, RespawnMany
  <2> HIDE DEF x
  <2>5. Allowed(w, "rounds") /\ ~Quiet(w)
    BY <1>5 DEF Inv, LevelOK, Names, Quiet
  <2>6. \A c \in dead : ClientOK(x, x.client[c])
    <3> TAKE c \in dead
    <3>1. NumOK(w.level, w.client[c])
      BY <1>1 DEF Inv, EachOK, ClientOK
    <3>2. NumOK(x.level, f[c]) /\ Reborn(f[c], x.client[c], x.level)
      BY <2>2, <2>3, <2>4, <3>1 DEF NumOK
    <3> QED
      BY <2>2, <2>4, <3>2, RebornOK
  <2>7. \A c \in InUse(w) \ dead : ClientOK(x, x.client[c])
    BY <1>1, <2>2, <2>3, <2>4, OursIs
    DEF Inv, EachOK, ClientOK, Quiet, Strict, OneContest, Allowed
  <2>8. \A c \in Slots : /\ SameSeat(w.client[c], x.client[c])
                         /\ x.client[c].flags \subseteq w.client[c].flags
    BY <2>2, <2>4 DEF Reborn, SameSeat
  <2>9. LevelOK(x) /\ SameVote(w, x)
    BY <2>3, <2>4 DEF Inv, LevelOK, Allowed, SameVote
  <2>10. Calm(w, x)
    BY <2>3, <2>4, <2>5, <2>6, <2>7, <2>8, <2>9 DEF Calm, InUse
  <2>11. Inv(x) /\ InUse(x) = InUse(w)
    BY <2>10, CalmKeeps
  <2>12. Players(x) \subseteq Players(w)
    BY <1>1, <2>2, <2>4, <2>11, OursIs DEF Players, Reborn
  <2>13. Enters(w, x) /\ SameAllowed(w, x)
    BY <2>3, <2>4, <2>12 DEF Enters, SameAllowed, Allowed
  <2>14. Keeps(w, x) /\ x.vote = w.vote
    BY <1>4, <2>3, <2>4, <2>11, <2>13 DEF Keeps
  <2> QED
    BY <1>2, <1>5, <2>14, KeepsSelf
<1>6. CASE ~(w.level.rounds /\ RoundRunning(w.level))
  <2> DEFINE S == dead \cap clicks
  <2>1. S \in SUBSET InUse(w) /\ (Quiet(w) => \A c \in S : w.client[c].flags = {})
    BY <1>1, <1>3
  <2> HIDE DEF S
  <2>2. /\ Ours(y)
        /\ \A c \in S : Reborn(w.client[c], y.client[c], w.level)
        /\ \A c \in Slots \ S : y.client[c] = w.client[c]
        /\ y.server = w.server /\ y.level = w.level /\ y.base = w.base
        /\ y.dropped = w.dropped /\ y.vote = w.vote
    BY <1>1, RespawnMany DEF S
  <2> HIDE DEF y
  <2>3. LevelOK(y) /\ SameVote(w, y) /\ SameRules(w.level, y.level)
    BY <2>2 DEF Inv, LevelOK, Allowed, SameVote, SameRules
  <2>4. Inv(y) /\ Players(y) = Players(w) /\ SameAllowed(w, y)
    BY <2>1, <2>2, <2>3, RespawnCalm
  <2>5. Keeps(w, y) /\ y.vote = w.vote
    BY <1>4, <2>2, <2>4 DEF Keeps, Enters
  <2> QED
    BY <1>2, <1>6, <2>5, KeepsSelf
<1> QED
  BY <1>5, <1>6

(* A toggled rule is in force when the game is restarted.                  *)
LEMMA ToggledOK ==
  ASSUME NEW w, Ours(w), Inv(w), NEW name \in Names, name \in w.server.toggles,
         NEW x, Ours(x), x.server = [w.server EXCEPT ![name] = ~w.server[name]],
         x.client = w.client, x.vote = w.vote,
         \A other \in Names \ {name} : x.level[other] = w.level[other],
         x.level.match_time = w.level.match_time,
         x.level.match_num = w.level.match_num, x.level.round_num = w.level.round_num,
         x.level.start_match = w.level.start_match, x.level.start_round = w.level.start_round,
         x.level.warmup => x.level.match \/ x.level.rounds
  PROVE  /\ \A z \in BOOLEAN : (z => name \in {"teams", "ctf"}) => RestartOK(x, z)
         /\ SameAllowed(w, x) /\ OneContest(x) = OneContest(w)
<1>1. w.server \in ServerType
  BY OursIs
<1>2. /\ x.server.toggles = w.server.toggles /\ x.server.voting = w.server.voting
      /\ \A other \in Names \ {name} : x.server[other] = w.server[other]
  BY <1>1 DEF ServerType, Names
<1>3. \A other \in Names : Allowed(x, other) = Allowed(w, other)
  BY <1>2 DEF Allowed
<1>4. /\ SameAllowed(w, x) /\ OneContest(x) = OneContest(w) /\ Strict(x) = Strict(w)
  BY <1>3 DEF SameAllowed, OneContest, Strict, Names
<1>5. RulesOK(x)
  <2>1. \A other \in Names : x.level[other] => Allowed(x, other)
    <3> TAKE other \in Names
    <3>1. CASE other = name
      BY <1>2, <3>1 DEF Allowed
    <3>2. CASE other # name
      BY <1>3, <3>2 DEF Inv, LevelOK
    <3> QED
      BY <3>1, <3>2
  <2>2. /\ x.level.start_match => Allowed(x, "match")
        /\ x.level.start_round => Allowed(x, "rounds")
    BY <1>3 DEF Inv, LevelOK, Names
  <2> QED
    BY <2>1, <2>2 DEF RulesOK
<1>6. SameVote(w, x) /\ \A c \in Slots : SameSeat(w.client[c], x.client[c])
  BY DEF SameVote, SameSeat
<1>7. VoteOK(x) /\ InUse(x) = InUse(w)
  BY <1>2, <1>6, SameVotes DEF Inv
<1>8. \A c \in InUse(x) : NumOK(x.level, x.client[c])
  BY <1>7 DEF Inv, EachOK, ClientOK, NumOK
<1>9. ASSUME Strict(w), MatchRunning(x.level), ~x.level.match
      PROVE  /\ ~x.level.rounds /\ name \notin {"teams", "ctf"}
             /\ \A c \in InUse(x) : TeamOK(x.level, x.client[c])
  <2>1. w.level.match /\ Allowed(w, "match")
    BY <1>9 DEF Inv, LevelOK, MatchRunning, Unset, Names
  <2>2. name = "match"
    BY <1>9, <2>1 DEF Names
  <2>3. x.level.rounds = w.level.rounds /\ x.level.ctf = w.level.ctf /\ x.level.teams = w.level.teams
    BY <2>2 DEF Names
  <2>4. ~w.level.rounds
    BY <1>9, <2>1 DEF Inv, LevelOK, Names, Strict, OneContest
  <2>5. \A c \in InUse(x) : TeamOK(w.level, x.client[c])
    BY <1>7, <1>9 DEF Inv, EachOK, ClientOK
  <2> QED
    BY <2>2, <2>3, <2>4, <2>5 DEF TeamOK, TeamGame
<1> QED
  BY <1>4, <1>5, <1>7, <1>8, <1>9 DEF RestartOK

(* G_CheckRules restarts the game when a rule has changed.                 *)
LEMMA ToggleKeeps ==
  ASSUME NEW w, Ours(w), Inv(w), NEW name \in Names \cup {"gameplay"}, name \in w.server.toggles
  PROVE  LET v == Toggle(w, name) IN
         /\ Keeps(w, v) /\ v.server.toggles = w.server.toggles
<1> DEFINE on == ~w.server[name]
           s == [w.server EXCEPT ![name] = on]
           teamz == name \in {"teams", "ctf"}
           l == [w.level EXCEPT ![name] = on]
           m == [l EXCEPT !.warmup = on]
           k == IF teamz THEN l ELSE m
           x == [w EXCEPT !.server = s, !.level = k]
           v == Toggle(w, name)
<1>1. CASE name = "gameplay"
  <2>1. v = RestartGame(w, FALSE)
    BY <1>1 DEF Toggle
  <2> HIDE DEF v
  <2> QED
    BY <2>1, RestartFull DEF v
<1>2. CASE name # "gameplay"
  <2>1. name \in Names /\ w.server \in ServerType /\ w.level \in Levels
    BY <1>2, OursIs
  <2>2. /\ s \in ServerType /\ s.toggles = w.server.toggles /\ s.voting = w.server.voting
        /\ s.slots = w.server.slots /\ s.auto_join = w.server.auto_join
        /\ on \in BOOLEAN
    BY <2>1 DEF ServerType, Names
  <2>3. /\ l \in Levels /\ l[name] = on
        /\ \A other \in Names \ {name} : l[other] = w.level[other]
        /\ l.match_time = w.level.match_time /\ l.warmup = w.level.warmup
        /\ l.match_num = w.level.match_num /\ l.round_num = w.level.round_num
        /\ l.start_match = w.level.start_match /\ l.start_round = w.level.start_round
    BY <2>1, <2>2 DEF Levels, Names
  <2>4. \E z \in BOOLEAN : v = RestartGame(x, z) /\ (z => teamz)
    <3>1. CASE teamz
      <4>1. [w EXCEPT !.server[name] = on, !.level[name] = on] = [w EXCEPT !.server = s, !.level = l]
        BY DEF Ours, Worlds
      <4> QED
        BY <1>2, <3>1, <4>1 DEF Toggle
    <3>2. CASE ~teamz
      <4> DEFINE y == [w EXCEPT !.server = s, !.level = m]
      <4>1. y = x
        BY <3>2
      <4> DEFINE changed == [w EXCEPT !.server[name] = on, !.level[name] = on]
      <4>2. changed = [w EXCEPT !.server = s, !.level = l]
        BY DEF Ours, Worlds
      <4>3. [changed EXCEPT !.level.warmup = on] = [w EXCEPT !.server = s, !.level = m]
        <5> HIDE DEF on, s, l, changed
        <5> QED
          BY <4>2 DEF Ours, Worlds
      <4>4. v = RestartGame([changed EXCEPT !.level.warmup = on], FALSE)
        BY <1>2, <3>2 DEF Toggle
      <4>5. v = RestartGame(y, FALSE)
        BY <4>3, <4>4
      <4> QED
        BY <4>5, <4>1
    <3> QED
      BY <3>1, <3>2
  <2> HIDE DEF l, s, v, on
  <2>5. /\ m \in Levels /\ \A other \in Names : m[other] = l[other]
        /\ m.match_time = l.match_time /\ m.warmup = on
        /\ m.match_num = l.match_num /\ m.round_num = l.round_num
        /\ m.start_match = l.start_match /\ m.start_round = l.start_round
    BY <2>2, <2>3 DEF Levels, Names
  <2> HIDE DEF m
  <2>6. /\ k \in Levels /\ k[name] = on
        /\ \A other \in Names \ {name} : k[other] = w.level[other]
        /\ k.match_time = w.level.match_time
        /\ k.match_num = w.level.match_num /\ k.round_num = w.level.round_num
        /\ k.start_match = w.level.start_match /\ k.start_round = w.level.start_round
        /\ k.warmup = IF teamz THEN w.level.warmup ELSE on
    BY <2>1, <2>3, <2>5
  <2> HIDE DEF k
  <2>7. k.warmup => k.match \/ k.rounds
    <3>1. CASE teamz
      BY <2>6, <3>1 DEF Inv, LevelOK, Names
    <3>2. CASE ~teamz
      <4>1. name = "match" \/ name = "rounds"
        BY <2>1, <3>2 DEF Names
      <4> QED
        BY <2>6, <3>2, <4>1
    <3> QED
      BY <3>1, <3>2
  <2>8. /\ Ours(x) /\ x.server = s /\ x.level = k
        /\ x.client = w.client /\ x.vote = w.vote
    BY <2>2, <2>6 DEF Ours, Worlds
  <2> HIDE DEF x
  <2>9. /\ \A z \in BOOLEAN : (z => teamz) => RestartOK(x, z)
        /\ SameAllowed(w, x) /\ OneContest(x) = OneContest(w)
    BY <2>1, <2>6, <2>7, <2>8, ToggledOK DEF s, on
  <2>10. /\ Ours(v) /\ Inv(v) /\ v.server = x.server /\ v.vote = x.vote
         /\ v.level.match_time = Unset /\ v.level.round_time = Unset
    BY <2>4, <2>9, RestartKeeps
  <2>11. SameAllowed(w, v) /\ v.vote.age <= w.vote.age /\ Enters(w, v)
    BY <2>8, <2>9, <2>10 DEF SameAllowed, Allowed, Enters, MatchRunning, RoundRunning, Unset, Ours, Worlds, Votes
  <2> QED
    BY <2>2, <2>8, <2>10, <2>11 DEF Keeps, v
<1> QED
  BY <1>1, <1>2

(* Any rules, in the order in which G_CheckRules looks at them.            *)
LEMMA ToggledKeeps ==
  ASSUME NEW w, Ours(w), Inv(w), NEW names, names \subseteq w.server.toggles
  PROVE  Keeps(w, Toggled(w, names))
<1> DEFINE Fine(u) == Keeps(w, u) /\ u.server.toggles = w.server.toggles
           gameplay == Changed(w, names, "gameplay")
           teams    == Changed(gameplay, names, "teams")
           ctf      == Changed(teams, names, "ctf")
           match    == Changed(ctf, names, "match")
<1>1. ASSUME NEW u, Fine(u), NEW name \in Names \cup {"gameplay"}
      PROVE  Fine(Changed(u, names, name))
  <2>1. CASE name \notin names
    BY <1>1, <2>1 DEF Changed
  <2>2. CASE name \in names
    <3>1. Ours(u) /\ Inv(u) /\ name \in u.server.toggles
      BY <1>1, <2>2 DEF Keeps
    <3>2. Keeps(u, Toggle(u, name)) /\ Toggle(u, name).server.toggles = u.server.toggles
      BY <3>1, ToggleKeeps
    <3>3. Keeps(w, Toggle(u, name))
      BY <1>1, <3>2, KeepsOn
    <3> QED
      BY <1>1, <2>2, <3>2, <3>3 DEF Changed
  <2> QED
    BY <2>1, <2>2
<1>2. Fine(w)
  BY KeepsSelf
<1>3. Toggled(w, names) = Changed(match, names, "rounds")
  BY DEF Toggled
<1> HIDE DEF Fine
<1>4. {"gameplay", "teams", "ctf", "match", "rounds"} \subseteq Names \cup {"gameplay"}
  BY DEF Names
<1>5. Fine(gameplay)
  BY <1>1, <1>2, <1>4
<1> HIDE DEF gameplay
<1>6. Fine(teams)
  BY <1>1, <1>4, <1>5
<1> HIDE DEF teams
<1>7. Fine(ctf)
  BY <1>1, <1>4, <1>6
<1> HIDE DEF ctf
<1>8. Fine(match)
  BY <1>1, <1>4, <1>7
<1> HIDE DEF match
<1>9. Fine(Changed(match, names, "rounds"))
  BY <1>1, <1>4, <1>8
<1> QED
  BY <1>3, <1>9 DEF Fine

(* Only the level changes, and not so that a match or round would run.     *)
LEMMA LevelKeeps ==
  ASSUME NEW w, Ours(w), Inv(w), NEW l \in Levels, SameRules(w.level, l),
         LevelOK([w EXCEPT !.level = l]),
         MatchRunning(l) => MatchRunning(w.level), RoundRunning(l) => RoundRunning(w.level)
  PROVE  Keeps(w, [w EXCEPT !.level = l])
<1> DEFINE v == [w EXCEPT !.level = l]
<1>1. /\ Ours(v) /\ Inv(v) /\ v.level = l /\ v.vote = w.vote
      /\ Players(v) = Players(w) /\ SameAllowed(w, v)
  BY LevelCalm
<1> HIDE DEF v
<1>2. v.vote.age <= w.vote.age /\ Enters(w, v)
  BY <1>1 DEF Enters, Ours, Worlds, Votes
<1> QED
  BY <1>1, <1>2 DEF Keeps, v

(* G_CheckRules finds warmup from the times.                               *)
LEMMA WarmupKeeps ==
  ASSUME NEW w, Ours(w), Inv(w)
  PROVE  Keeps(w, FindWarmup(w))
<1> DEFINE on == \/ w.level.match /\ ~MatchRunning(w.level)
                 \/ w.level.rounds /\ ~RoundRunning(w.level)
           l == [w.level EXCEPT !.warmup = on]
           x == [w EXCEPT !.level = l]
<1>1. on \in BOOLEAN /\ (on => w.level.match \/ w.level.rounds)
  BY DEF MatchRunning, RoundRunning
<1>2. FindWarmup(w) = x
  BY DEF FindWarmup
<1> HIDE DEF on
<1>3. /\ l \in Levels /\ SameRules(w.level, l) /\ l.warmup = on
      /\ l.match_time = w.level.match_time /\ l.round_time = w.level.round_time
      /\ l.start_match = w.level.start_match /\ l.start_round = w.level.start_round
      /\ \A name \in Names : l[name] = w.level[name]
  BY <1>1, OursIs DEF Levels, SameRules, Names
<1> HIDE DEF l
<1>4. x.level = l /\ x.server = w.server
  BY DEF Ours, Worlds
<1>5. LevelOK(x)
  BY <1>1, <1>3, <1>4 DEF Inv, LevelOK, Allowed, Names
<1> QED
  BY <1>2, <1>3, <1>5, LevelKeeps DEF MatchRunning, RoundRunning

(* A start that was armed takes place: everybody respawns.                 *)
LEMMA StartKeeps ==
  ASSUME NEW w, Ours(w), Inv(w), NEW l \in Levels, SameRules(w.level, l),
         LevelOK([w EXCEPT !.level = l]),
         l.match_time = w.level.match_time, l.round_time = w.level.round_time,
         ~Quiet(w)
  PROVE  Keeps(w, RespawnAll([w EXCEPT !.level = l], InUse(w)))
<1> DEFINE u == [w EXCEPT !.level = l]
           S == InUse(w)
           v == RespawnAll(u, S)
<1>1. /\ Ours(u) /\ u.level = l /\ u.client = w.client /\ u.server = w.server
      /\ u.base = w.base /\ u.dropped = w.dropped /\ u.vote = w.vote
  BY DEF Ours, Worlds
<1>2. S \in SUBSET Slots /\ S \in SUBSET InUse(w)
  BY OursIs
<1>3. LevelOK(u)
  OBVIOUS
<1> HIDE DEF u, S
<1>4. /\ Ours(v)
      /\ \A c \in S : Reborn(u.client[c], v.client[c], u.level)
      /\ \A c \in Slots \ S : v.client[c] = u.client[c]
      /\ v.server = u.server /\ v.level = u.level /\ v.base = u.base
      /\ v.dropped = u.dropped /\ v.vote = u.vote
  BY <1>1, <1>2, RespawnMany
<1> HIDE DEF v
<1>5. \A c \in S : Reborn(w.client[c], v.client[c], w.level)
  BY <1>1, <1>4 DEF Reborn, SameRules
<1>6. LevelOK(v) /\ SameVote(w, v)
  BY <1>1, <1>3, <1>4 DEF LevelOK, Allowed, SameVote
<1>7. Inv(v) /\ Players(v) = Players(w) /\ SameAllowed(w, v)
  BY <1>1, <1>2, <1>4, <1>5, <1>6, RespawnCalm
<1>8. v.vote.age <= w.vote.age /\ Enters(w, v)
  BY <1>1, <1>4, <1>7 DEF Enters, MatchRunning, RoundRunning, Ours, Worlds, Votes
<1> QED
  BY <1>4, <1>7, <1>8 DEF Keeps, v, u, S

(* A match or a round starts: everybody is respawned.                      *)
LEMMA StartMatchKeeps ==
  ASSUME NEW w, Ours(w), Inv(w)
  PROVE  Keeps(w, StartMatch(w)) /\ Keeps(w, StartRound(w))
<1> DEFINE m == [w.level EXCEPT !.start_match = FALSE, !.warmup = FALSE]
           r == [w.level EXCEPT !.start_round = FALSE, !.warmup = FALSE]
<1>1. /\ m \in Levels /\ SameRules(w.level, m) /\ ~m.warmup
      /\ m.match_time = w.level.match_time /\ m.round_time = w.level.round_time
      /\ ~m.start_match /\ m.start_round = w.level.start_round
      /\ \A name \in Names : m[name] = w.level[name]
  BY OursIs DEF Levels, SameRules, Names
<1>2. /\ r \in Levels /\ SameRules(w.level, r) /\ ~r.warmup
      /\ r.match_time = w.level.match_time /\ r.round_time = w.level.round_time
      /\ ~r.start_round /\ r.start_match = w.level.start_match
      /\ \A name \in Names : r[name] = w.level[name]
  BY OursIs DEF Levels, SameRules, Names
<1>3. /\ [w EXCEPT !.level.start_match = FALSE, !.level.warmup = FALSE] = [w EXCEPT !.level = m]
      /\ [w EXCEPT !.level.start_round = FALSE, !.level.warmup = FALSE] = [w EXCEPT !.level = r]
  BY DEF Ours, Worlds, Levels
<1>4. StartMatch(w) = IF w.level.start_match /\ w.level.match_time <= 0
                      THEN RespawnAll([w EXCEPT !.level = m], InUse(w)) ELSE w
  BY <1>3 DEF StartMatch
<1>5. StartRound(w) = IF w.level.start_round /\ w.level.round_time <= 0
                      THEN RespawnAll([w EXCEPT !.level = r], InUse(w)) ELSE w
  BY <1>3 DEF StartRound
<1> HIDE DEF m, r
<1>6. /\ [w EXCEPT !.level = m].level = m /\ [w EXCEPT !.level = m].server = w.server
      /\ [w EXCEPT !.level = r].level = r /\ [w EXCEPT !.level = r].server = w.server
  BY DEF Ours, Worlds
<1>7. LevelOK([w EXCEPT !.level = m]) /\ LevelOK([w EXCEPT !.level = r])
  BY <1>1, <1>2, <1>6 DEF Inv, LevelOK, Allowed, Names
<1>8. /\ w.level.start_match => ~Quiet(w)
      /\ w.level.start_round => ~Quiet(w)
  BY DEF Inv, LevelOK, Quiet
<1>9. Keeps(w, StartMatch(w))
  BY <1>1, <1>4, <1>7, <1>8, KeepsSelf, StartKeeps
<1>10. Keeps(w, StartRound(w))
  BY <1>2, <1>5, <1>7, <1>8, KeepsSelf, StartKeeps
<1> QED
  BY <1>9, <1>10

(* G_CheckRules.                                                           *)
LEMMA CheckRulesKeeps ==
  ASSUME NEW w, Ours(w), Inv(w), NEW limit \in BOOLEAN,
         NEW names, names \subseteq w.server.toggles
  PROVE  Keeps(w, CheckRules(w, limit, names))
<1> DEFINE a == FindWarmup(w)
           b == StartMatch(a)
           u == StartRound(b)
           v == CheckRules(w, limit, names)
<1>1. v = IF w.level.intermission THEN w ELSE IF limit THEN BeginIntermission(u) ELSE Toggled(u, names)
  BY DEF CheckRules
<1>2. Keeps(w, a)
  BY WarmupKeeps
<1> HIDE DEF a
<1>3. Keeps(w, b)
  BY <1>2, StartMatchKeeps, KeepsOn DEF Keeps
<1> HIDE DEF b
<1>4. Keeps(w, u)
  BY <1>3, StartMatchKeeps, KeepsOn DEF Keeps
<1> HIDE DEF u, v
<1>5. Ours(u) /\ Inv(u) /\ names \subseteq u.server.toggles
  BY <1>4 DEF Keeps, Ours
<1>6. Keeps(u, BeginIntermission(u)) /\ Keeps(u, Toggled(u, names))
  BY <1>5, IntermissionKeeps, ToggledKeeps
<1>7. Keeps(w, BeginIntermission(u)) /\ Keeps(w, Toggled(u, names))
  BY <1>4, <1>6, KeepsOn
<1> QED
  BY <1>1, <1>7, KeepsSelf DEF v

(* G_CheckMatchEnd.                                                        *)
LEMMA MatchEndKeeps ==
  ASSUME NEW w, Ours(w), Inv(w)
  PROVE  Keeps(w, CheckMatchEnd(w))
<1> DEFINE l == [w.level EXCEPT !.match_time = Unset]
           x == [w EXCEPT !.level = l]
<1>1. CheckMatchEnd(w) = w \/ CheckMatchEnd(w) = x
  BY DEF CheckMatchEnd
<1>2. /\ l \in Levels /\ SameRules(w.level, l) /\ l.warmup = w.level.warmup
      /\ l.match_time = Unset /\ l.round_time = w.level.round_time
      /\ l.start_match = w.level.start_match /\ l.start_round = w.level.start_round
      /\ \A name \in Names : l[name] = w.level[name]
  <2>1. Unset \in Times
    BY DEF Times
  <2> QED
    BY <2>1, OursIs DEF Levels, SameRules, Names
<1> HIDE DEF l
<1>3. x.level = l /\ x.server = w.server
  BY DEF Ours, Worlds
<1>4. LevelOK(x)
  BY <1>2, <1>3 DEF Inv, LevelOK, Allowed, Names
<1>5. Keeps(w, x)
  BY <1>2, <1>4, LevelKeeps DEF MatchRunning, RoundRunning, Unset
<1> QED
  BY <1>1, <1>5, KeepsSelf

(* G_CheckRoundStart.                                                      *)
LEMMA RoundStartKeeps ==
  ASSUME NEW w, Ours(w), Inv(w)
  PROVE  Keeps(w, CheckRoundStart(w))
<1> DEFINE l == [w.level EXCEPT !.round_time = CountDown, !.start_round = TRUE]
           x == [w EXCEPT !.level = l]
<1>1. CheckRoundStart(w) = w \/ (w.level.rounds /\ CheckRoundStart(w) = x)
  <2>1. [w EXCEPT !.level.round_time = CountDown, !.level.start_round = TRUE] = x
    BY DEF Ours, Worlds, Levels
  <2> DEFINE due == w.level.rounds /\ w.level.round_time = Unset /\ EnoughToStart(w, w.level.teams)
  <2>2. CheckRoundStart(w) = IF due THEN x ELSE w
    BY <2>1 DEF CheckRoundStart
  <2>3. due => w.level.rounds
    OBVIOUS
  <2> HIDE DEF x
  <2>4. CASE due
    BY <2>2, <2>3, <2>4
  <2>5. CASE ~due
    BY <2>2, <2>5
  <2> QED
    BY <2>4, <2>5
<1>2. /\ l \in Levels /\ SameRules(w.level, l) /\ l.warmup = w.level.warmup
      /\ l.match_time = w.level.match_time /\ l.round_time = CountDown
      /\ l.start_match = w.level.start_match
      /\ \A name \in Names : l[name] = w.level[name]
  <2>1. CountDown \in Times
    BY BoundsAssumption DEF Times
  <2> QED
    BY <2>1, OursIs DEF Levels, SameRules, Names
<1> HIDE DEF l
<1>3. x.level = l /\ x.server = w.server
  BY DEF Ours, Worlds
<1>4. ASSUME w.level.rounds
      PROVE  Keeps(w, x)
  <2>1. LevelOK(x)
    BY <1>2, <1>3, <1>4 DEF Inv, LevelOK, Allowed, Names
  <2>2. ~RoundRunning(l) /\ (MatchRunning(l) => MatchRunning(w.level))
    BY <1>2, BoundsAssumption DEF RoundRunning, MatchRunning
  <2> QED
    BY <1>2, <2>1, <2>2, LevelKeeps
<1> QED
  BY <1>1, <1>4, KeepsSelf

(* G_CheckRoundLimit: those who played are put back, which nobody is       *)
(* barred from.                                                            *)
LEMMA RoundLimitKeeps ==
  ASSUME NEW w, Ours(w), Inv(w), NEW over \in BOOLEAN,
         w.level.rounds, w.level.round_time = Unset
  PROVE  Keeps(w, CheckRoundLimit(w, over))
<1> DEFINE n == server.slots
           f == CHOOSE f : f = [c \in 0 .. n |->
                  IF c = 0 THEN w
                  ELSE IF c \in InUse(f[c - 1]) THEN Rejoin(f[c - 1], c)
                  ELSE f[c - 1]]
           u == f[n]
           v == CheckRoundLimit(w, over)
<1>1. v = IF over THEN BeginIntermission(w) ELSE u
  BY DEF CheckRoundLimit
<1>2. n \in Nat
  BY DEF Ours, Worlds, ServerType
<1>3. IsLoop(f, "rejoin", w, FALSE, n)
  <2>1. PICK g : IsLoop(g, "rejoin", w, FALSE, n)
    BY <1>2, LoopExists
  <2>2. g = [c \in 0 .. n |-> IF c = 0 THEN w
                              ELSE IF c \in InUse(g[c - 1]) THEN Rejoin(g[c - 1], c)
                              ELSE g[c - 1]]
    BY <2>1 DEF IsLoop, Step
  <2>3. f = [c \in 0 .. n |-> IF c = 0 THEN w
                              ELSE IF c \in InUse(f[c - 1]) THEN Rejoin(f[c - 1], c)
                              ELSE f[c - 1]]
    BY <2>2
  <2> HIDE DEF f
  <2> QED
    BY <2>3 DEF IsLoop, Step
<1> HIDE DEF f, v
<1>4. Looped("rejoin", w, u, FALSE, n)
  BY <1>3, LoopIs
<1> HIDE DEF u
<1>5. /\ Ours(u) /\ u.server = w.server /\ u.level = w.level /\ u.base = w.base
      /\ u.dropped = w.dropped /\ u.vote = w.vote
      /\ \A c \in InUse(w) : StepOK("rejoin", w, w.client[c], u.client[c], FALSE)
      /\ \A c \in Slots \ InUse(w) : u.client[c] = w.client[c]
  <2>1. \A c \in Slots : c <= n
    BY <1>2 DEF Slots
  <2> QED
    BY <1>4, <2>1 DEF Looped, InUse
<1>6. ~Quiet(w) /\ (OneContest(w) => ~MatchRunning(w.level))
  BY DEF Inv, LevelOK, Names, Quiet, OneContest, MatchRunning, Unset
<1>7. \A c \in InUse(w) : ClientOK(w, u.client[c])
  BY <1>5, <1>6 DEF StepOK, Inv, EachOK, Strict
<1>8. \A c \in InUse(w) : ClientOK(u, u.client[c])
  BY <1>5, <1>7 DEF ClientOK, Quiet, Strict, OneContest, Allowed
<1>9. \A c \in Slots : /\ SameSeat(w.client[c], u.client[c])
                       /\ u.client[c].flags \subseteq w.client[c].flags
  BY <1>5 DEF StepOK, SameSeat
<1>10. LevelOK(u) /\ SameVote(w, u) /\ SameAllowed(w, u)
  BY <1>5 DEF Inv, LevelOK, Allowed, SameVote, SameAllowed
<1>11. Calm(w, u)
  BY <1>5, <1>6, <1>8, <1>9, <1>10 DEF Calm, InUse
<1>12. Inv(u)
  BY <1>11, CalmKeeps
<1>13. u.vote.age <= w.vote.age /\ (OneContest(w) => Enters(w, u))
  BY <1>5, <1>6 DEF Enters, MatchRunning, RoundRunning, Unset, Ours, Worlds, Votes
<1>14. Keeps(w, u)
  BY <1>5, <1>10, <1>12, <1>13 DEF Keeps
<1> QED
  BY <1>1, <1>14, IntermissionKeeps DEF v

(* G_CheckRoundEnd.                                                        *)
LEMMA RoundEndKeeps ==
  ASSUME NEW w, Ours(w), Inv(w), NEW flying \in BOOLEAN, NEW over \in BOOLEAN
  PROVE  Keeps(w, CheckRoundEnd(w, flying, over))
<1> DEFINE l == [w.level EXCEPT !.round_time = Unset]
           x == [w EXCEPT !.level = l]
           v == CheckRoundEnd(w, flying, over)
<1>1. v = w \/ (w.level.rounds /\ v = CheckRoundLimit(x, over))
  <2> DEFINE due == w.level.rounds /\ RoundRunning(w.level) /\ RoundDecided(w, flying)
  <2>1. v = IF due THEN CheckRoundLimit(x, over) ELSE w
    BY DEF CheckRoundEnd
  <2>2. due => w.level.rounds
    OBVIOUS
  <2>3. CASE due
    BY <2>1, <2>2, <2>3
  <2>4. CASE ~due
    BY <2>1, <2>4
  <2> QED
    BY <2>3, <2>4
<1>2. /\ l \in Levels /\ SameRules(w.level, l) /\ l.warmup = w.level.warmup
      /\ l.round_time = Unset /\ l.match_time = w.level.match_time
      /\ l.start_match = w.level.start_match /\ l.start_round = w.level.start_round
      /\ \A name \in Names : l[name] = w.level[name]
  <2>1. Unset \in Times
    BY DEF Times
  <2> QED
    BY <2>1, OursIs DEF Levels, SameRules, Names
<1> HIDE DEF l
<1>3. x.level = l /\ x.server = w.server
  BY DEF Ours, Worlds
<1>4. LevelOK(x)
  BY <1>2, <1>3 DEF Inv, LevelOK, Allowed, Names
<1>5. Keeps(w, x)
  BY <1>2, <1>4, LevelKeeps DEF MatchRunning, RoundRunning, Unset
<1> HIDE DEF x
<1>6. ASSUME w.level.rounds
      PROVE  Keeps(w, CheckRoundLimit(x, over))
  <2>1. x.level.rounds /\ x.level.round_time = Unset
    BY <1>2, <1>3, <1>6 DEF Names
  <2>2. Keeps(x, CheckRoundLimit(x, over))
    BY <1>5, <2>1, RoundLimitKeeps DEF Keeps
  <2> QED
    BY <1>5, <2>2, KeepsOn
<1> HIDE DEF v
<1> QED
  BY <1>1, <1>6, KeepsSelf DEF v

-----------------------------------------------------------------------------
(* Steps of the game.                                                      *)

GInv == Ours(world) /\ Inv(world) /\ vote.age <= VoteTime

(* Nobody enters a match or round that goes on from w to v.                *)
Entry(w, v) ==
  /\ w.level.match /\ MatchRunning(w.level) /\ MatchRunning(v.level) => Players(v) \subseteq Players(w)
  /\ w.level.rounds /\ RoundRunning(w.level) /\ RoundRunning(v.level) => Players(v) \subseteq Players(w)

Fine(w, v) ==
  /\ Ours(v) /\ Inv(v) /\ v.vote.age <= VoteTime
  /\ SameAllowed(w, v)
  /\ OneContest(w) => Entry(w, v)

Moves == \E v : Becomes(v) /\ Fine(world, v)

(* What is said of a world holds of the variables after a step to it.      *)
LEMMA Arrived ==
  ASSUME NEW v, Becomes(v), Ours(v)
  PROVE  world' = v /\ Slots' = Slots
<1>1. v = [server |-> v.server, level |-> v.level, client |-> v.client, base |-> v.base,
           dropped |-> v.dropped, vote |-> v.vote]
  BY DEF Ours, Worlds
<1>2. world' = v
  BY <1>1 DEF Becomes, world
<1> QED
  BY <1>2 DEF Becomes, Ours, Slots

(* A step to a fine world is a step that keeps the invariant.              *)
LEMMA MovesKeep ==
  ASSUME Moves
  PROVE  /\ GInv'
         /\ \A name \in Names : Allowed(world, name)' = Allowed(world, name)
         /\ OneContest(world) => Entry(world, world')
         /\ Players(world') = {c \in Slots' : client'[c].slot = "in_use" /\ ~client'[c].spectator}
<1>1. PICK v : Becomes(v) /\ Fine(world, v)
  BY DEF Moves
<1>2. world' = v /\ Slots' = Slots /\ server' = v.server /\ vote' = v.vote /\ client' = v.client
  BY <1>1, Arrived DEF Fine, Becomes
<1>3. (InUse(world))' = InUse(v)
  BY <1>2 DEF InUse
<1>4. (Ours(world))'
  BY <1>1, <1>2 DEF Fine, Ours, Worlds, Drops, Votes
<1>5. Inv(v)
  BY <1>1 DEF Fine
<1>6. /\ Quiet(world)' = Quiet(v) /\ Strict(world)' = Strict(v)
      /\ \A name \in Names : Allowed(world, name)' = Allowed(v, name)
  BY <1>2 DEF Quiet, Strict, OneContest, Allowed
<1>7. (EachOK(world))'
  BY <1>2, <1>3, <1>5, <1>6 DEF Inv, EachOK, ClientOK
<1>8. (OnePlace(world))' /\ (Somewhere(world))'
  BY <1>2, <1>3, <1>5, <1>6 DEF Inv, OnePlace, Somewhere
<1>9. (LevelOK(world))'
  BY <1>2, <1>5 DEF Inv, LevelOK, Allowed
<1>10. (VoteOK(world))'
  BY <1>2, <1>3, <1>5 DEF Inv, VoteOK, Cast
<1>11. (Inv(world))'
  BY <1>7, <1>8, <1>9, <1>10 DEF Inv
<1>12. (vote.age <= VoteTime)'
  BY <1>1, <1>2 DEF Fine
<1>13. Players(v) = {c \in Slots' : client'[c].slot = "in_use" /\ ~client'[c].spectator}
  BY <1>2 DEF Players, InUse
<1> QED
  BY <1>1, <1>2, <1>4, <1>6, <1>11, <1>12, <1>13 DEF GInv, Fine, SameAllowed

(* The world is what the variables are.                                    *)
LEMMA WorldIs ==
  /\ world.server = server /\ world.level = level /\ world.client = client
  /\ world.base = base /\ world.dropped = dropped /\ world.vote = vote
BY DEF world

(* A frame is the composition of its parts.                                *)
LEMMA FrameMoves ==
  ASSUME GInv, NEW clicks, NEW limit \in BOOLEAN, NEW names, names \subseteq server.toggles,
         NEW flying \in BOOLEAN, NEW over \in BOOLEAN,
         GFrame(clicks, limit, names, flying, over)
  PROVE  Moves
<1> DEFINE a == Advance(world)
           b == BeginFrame(a, clicks)
           voted == CheckVote(b)
           ruled == CheckRules(voted, limit, names)
           ended == CheckMatchEnd(ruled)
           started == CheckRoundStart(ended)
           v == CheckRoundEnd(started, flying, over)
<1>1. Becomes(v)
  BY DEF GFrame
<1>2. Ours(world) /\ Inv(world)
  BY DEF GInv
<1>3. /\ Ours(a) /\ Inv(a) /\ SameAllowed(world, a) /\ Players(a) = Players(world)
      /\ a.vote.cmd = "none" => a.vote.age = 0
  BY <1>2, AdvanceKeeps
<1> HIDE DEF a
<1>4. Keeps(a, b) /\ b.vote = a.vote
  BY <1>3, BeginFrameKeeps
<1> HIDE DEF b
<1>5. Keeps(b, voted) /\ voted.vote.age <= VoteTime
  BY <1>3, <1>4, CheckVoteKeeps DEF Keeps
<1> HIDE DEF voted
<1>6. Keeps(voted, ruled)
  BY <1>5, CheckRulesKeeps DEF Keeps, Ours
<1> HIDE DEF ruled
<1>7. Keeps(voted, ended)
  BY <1>5, <1>6, MatchEndKeeps, KeepsOn DEF Keeps
<1> HIDE DEF ended
<1>8. Keeps(voted, started)
  BY <1>5, <1>7, RoundStartKeeps, KeepsOn DEF Keeps
<1> HIDE DEF started
<1>9. Keeps(voted, v)
  BY <1>5, <1>8, RoundEndKeeps, KeepsOn DEF Keeps
<1> HIDE DEF v
<1>10. Ours(b) /\ Keeps(b, v)
  BY <1>4, <1>5, <1>9, KeepsOn DEF Keeps
<1>11. Keeps(a, v)
  BY <1>3, <1>4, <1>10, KeepsOn
<1>12. v.vote.age <= VoteTime
  <2>1. v.vote.age \in Nat /\ voted.vote.age \in Nat /\ VoteTime \in Nat
    BY <1>5, <1>9, BoundsAssumption DEF Keeps, Ours, Worlds, Votes
  <2> QED
    BY <1>5, <1>9, <2>1 DEF Keeps
<1>13. SameAllowed(world, v) /\ OneContest(a) = OneContest(world)
  BY <1>3, <1>11 DEF Keeps, SameAllowed, OneContest, Names
<1>14. OneContest(world) => Entry(world, v)
  BY <1>3, <1>11, <1>13 DEF Keeps, Enters, Entry
<1>15. Fine(world, v)
  BY <1>11, <1>12, <1>13, <1>14 DEF Keeps, Fine
<1> QED
  BY <1>1, <1>15 DEF Moves, v

(* One client in the game is changed.                                      *)
LEMMA PutKeeps ==
  ASSUME NEW w, Ours(w), Inv(w), NEW c \in InUse(w), NEW v, Alike(w, v, c),
         SameSeat(w.client[c], v.client[c]),
         v.client[c].flags \subseteq w.client[c].flags,
         Quiet(w) => v.client[c].flags = w.client[c].flags,
         ClientOK(w, v.client[c])
  PROVE  /\ Ours(v) /\ Inv(v) /\ InUse(v) = InUse(w) /\ SameAllowed(w, v)
         /\ Players(v) \subseteq Players(w) \cup {c}
         /\ (v.client[c].spectator \/ ~w.client[c].spectator) => Players(v) \subseteq Players(w)
<1>1. SameAllowed(w, v) /\ Quiet(v) = Quiet(w) /\ Strict(v) = Strict(w)
  BY DEF SameAllowed, Quiet, Strict, OneContest, Allowed, Alike
<1>2. \A p : ClientOK(w, p) => ClientOK(v, p)
  BY <1>1 DEF ClientOK, Alike
<1>3. \A d \in InUse(w) : ClientOK(w, v.client[d])
  BY OursIs DEF Alike, Inv, EachOK
<1>4. LevelOK(v) /\ SameVote(w, v)
  BY DEF Inv, LevelOK, Allowed, SameVote, Alike
<1>5. \A d \in Slots : /\ SameSeat(w.client[d], v.client[d])
                       /\ v.client[d].flags \subseteq w.client[d].flags
                       /\ Quiet(w) => v.client[d].flags = w.client[d].flags
  BY DEF Alike, SameSeat
<1>6. Calm(w, v)
  BY <1>2, <1>3, <1>4, <1>5 DEF Calm, Alike, InUse
<1>7. Inv(v) /\ InUse(v) = InUse(w)
  BY <1>6, CalmKeeps
<1>8. \A d \in InUse(w) \ {c} : v.client[d] = w.client[d]
  BY OursIs DEF Alike
<1> QED
  BY <1>1, <1>7, <1>8 DEF Players, Alike

(* What a client commands or suffers while it stays in the game.           *)
LEMMA Settled ==
  ASSUME GInv, NEW v, Becomes(v), Ours(v), Inv(v), SameAllowed(world, v),
         v.vote = vote,
         OneContest(world) => Entry(world, v)
  PROVE  Moves
BY WorldIs DEF GInv, Moves, Fine

(* Tossing, seen from the clients. *)
LEMMA TossIs ==
  ASSUME NEW w, Ours(w), Inv(w), NEW c \in InUse(w), NEW stuck \in BOOLEAN
  PROVE  LET v == TossFlag(w, c, stuck)
             p == w.client[c]
             q == v.client[c]
         IN
         /\ Ours(v) /\ Inv(v) /\ InUse(v) = InUse(w) /\ Players(v) = Players(w)
         /\ v.server = w.server /\ v.level = w.level /\ v.vote = w.vote
         /\ \A d \in Slots \ {c} : v.client[d] = w.client[d]
         /\ q \in Clients /\ ClientOK(v, q) /\ SameSeat(p, q) /\ q.flags = {}
         /\ q.spectator = p.spectator /\ q.team = p.team /\ q.dead = p.dead
<1> DEFINE v == TossFlag(w, c, stuck)
           p == w.client[c]
           q == v.client[c]
<1>1. /\ Ours(v) /\ Inv(v) /\ InUse(v) = InUse(w)
      /\ v.server = w.server /\ v.level = w.level /\ v.vote = w.vote
      /\ v.client = [w.client EXCEPT ![c] = [w.client[c] EXCEPT !.flags = {}]]
  BY TossKeeps
<1> HIDE DEF v
<1>2. p \in Clients /\ c \in Slots /\ w.client \in [Slots -> Clients]
  BY OursIs
<1>3. q = [p EXCEPT !.flags = {}] /\ \A d \in Slots \ {c} : v.client[d] = w.client[d]
  BY <1>1, <1>2
<1>4. /\ q \in Clients /\ SameSeat(p, q) /\ q.flags = {}
      /\ q.spectator = p.spectator /\ q.team = p.team /\ q.dead = p.dead
  BY <1>2, <1>3 DEF Clients, SameSeat
<1>5. ClientOK(v, q)
  BY <1>1 DEF Inv, EachOK
<1>6. Players(v) = Players(w)
  BY <1>1, <1>3, <1>4, OursIs DEF Players
<1> QED
  BY <1>1, <1>3, <1>4, <1>5, <1>6 DEF v

(* A player is killed; in warmup it keeps the flag, which a quiet server   *)
(* never is in.                                                            *)
LEMMA DieMoves ==
  ASSUME GInv, NEW c \in Slots, NEW stuck \in BOOLEAN, ClientDie(c, stuck)
  PROVE  Moves
<1> DEFINE w == IF level.warmup THEN world ELSE TossFlag(world, c, stuck)
           p == w.client[c]
           q == [p EXCEPT !.dead = TRUE]
           v == [w EXCEPT !.client[c] = q]
<1>1. /\ c \in Players(world) /\ c \in InUse(world) /\ Ours(world) /\ Inv(world)
      /\ Becomes([w EXCEPT !.client[c].dead = TRUE])
  BY DEF ClientDie, Players, GInv
<1>2. [w EXCEPT !.client[c].dead = TRUE] = v
  OBVIOUS
<1>3. /\ Ours(w) /\ Inv(w) /\ InUse(w) = InUse(world) /\ Players(w) = Players(world)
      /\ w.server = world.server /\ w.level = world.level /\ w.vote = world.vote
      /\ p.spectator = world.client[c].spectator
      /\ ~level.warmup => p.flags = {}
  BY <1>1, TossIs
<1>4. ~p.spectator
  BY <1>1, <1>3 DEF Players
<1>5. Quiet(w) => p.flags = {}
  BY <1>3, WorldIs DEF Inv, LevelOK, Quiet, Names
<1> HIDE DEF w
<1>6. p \in Clients /\ ClientOK(w, p) /\ c \in InUse(w)
  BY <1>1, <1>3, OursIs DEF Inv, EachOK
<1>7. /\ q \in Clients /\ SameSeat(p, q) /\ q.flags = p.flags /\ q.spectator = p.spectator
      /\ q.team = p.team /\ q.match_num = p.match_num /\ q.round_num = p.round_num
  BY <1>6 DEF Clients, SameSeat
<1> HIDE DEF q
<1>8. ClientOK(w, q)
  BY <1>4, <1>5, <1>6, <1>7 DEF ClientOK, FlagOK, NumOK, TeamOK
<1>9. Alike(w, v, c) /\ v.client[c] = q
  BY <1>3, <1>7, AlikePut
<1> HIDE DEF v
<1>10. Ours(v) /\ Inv(v) /\ Players(v) \subseteq Players(w) /\ SameAllowed(w, v)
  BY <1>3, <1>4, <1>6, <1>7, <1>8, <1>9, PutKeeps
<1>11. Entry(world, v) /\ SameAllowed(world, v) /\ v.vote = vote
  BY <1>3, <1>9, <1>10, WorldIs DEF Entry, SameAllowed, Allowed, Alike
<1> QED
  BY <1>1, <1>2, <1>10, <1>11, Settled

(* A carrier drops the flag.                                               *)
LEMMA DropMoves ==
  ASSUME GInv, NEW c \in Slots, NEW stuck \in BOOLEAN, DropFlag(c, stuck)
  PROVE  Moves
<1> DEFINE v == TossFlag(world, c, stuck)
<1>1. c \in InUse(world) /\ Becomes(v) /\ Ours(world) /\ Inv(world)
  BY DEF DropFlag, MayCommand, GInv
<1>2. /\ Ours(v) /\ Inv(v) /\ Players(v) = Players(world)
      /\ v.server = world.server /\ v.vote = world.vote
  BY <1>1, TossIs
<1> HIDE DEF v
<1>3. Entry(world, v) /\ SameAllowed(world, v) /\ v.vote = vote
  BY <1>2, WorldIs DEF Entry, SameAllowed, Allowed
<1> QED
  BY <1>1, <1>2, <1>3, Settled

(* A client that carries nothing gets another seat, r, and respawns.       *)
LEMMA ReseatMoves ==
  ASSUME GInv, NEW u, Ours(u), Inv(u), u.server = server, u.level = level, u.vote = vote,
         Players(u) = Players(world), NEW c \in InUse(u), u.client[c].flags = {},
         NEW r \in Clients, SameSeat(u.client[c], r),
         r.spectator => NumOK(level, r),
         Strict(u) /\ ~r.spectator /\ TeamGame(level) => r.team # NoTeam,
         r.spectator \/ (OneContest(world) => ~(level.match /\ MatchRunning(level)) /\ ~(level.rounds /\ RoundRunning(level))),
         Becomes(ClientRespawn([u EXCEPT !.client[c] = r], c, TRUE))
  PROVE  Moves
<1> DEFINE x == [u EXCEPT !.client[c] = r]
           v == ClientRespawn(x, c, TRUE)
           q == v.client[c]
<1>1. c \in Slots
  BY OursIs
<1>2. Alike(u, x, c) /\ x.client[c] = r
  BY <1>1, AlikePut
<1> HIDE DEF x
<1>3. Alike(u, v, c) /\ Reborn(r, q, u.level)
  BY <1>1, <1>2, AlikeRespawn
<1>4. Becomes(v)
  BY DEF x
<1> HIDE DEF v
<1>5. ClientOK(u, q)
  BY <1>3, RebornOK
<1>6. SameSeat(u.client[c], q) /\ q.flags = {} /\ q.spectator = r.spectator
  BY <1>3 DEF Reborn, SameSeat
<1>7. /\ Ours(v) /\ Inv(v) /\ SameAllowed(u, v)
      /\ q.spectator => Players(v) \subseteq Players(u)
  BY <1>3, <1>5, <1>6, PutKeeps
<1>8. SameAllowed(world, v) /\ v.vote = vote
  BY <1>3, <1>7, WorldIs DEF SameAllowed, Allowed, Alike
<1>9. OneContest(world) => Entry(world, v)
  BY <1>6, <1>7, WorldIs DEF Entry
<1> QED
  BY <1>4, <1>7, <1>8, <1>9, Settled

(* G_AddClientToTeam and the respawn after it.                             *)
LEMMA JoinMoves ==
  ASSUME GInv, NEW c \in InUse(world), NEW t \in Teams, NEW stuck \in BOOLEAN,
         MayJoin(world, c, t), ~(level.rounds /\ RoundRunning(level)),
         Becomes(ClientRespawn(AddClientToTeam(world, c, t, stuck), c, TRUE))
  PROVE  Moves
<1> DEFINE u == IF client[c].spectator THEN world ELSE TossFlag(world, c, stuck)
           r == Joined(u.client[c], t)
           x == [u EXCEPT !.client[c] = r]
<1>1. AddClientToTeam(world, c, t, stuck) = x
  BY WorldIs DEF AddClientToTeam, Joined
<1>2. /\ Ours(world) /\ Inv(world) /\ c \in Slots
      /\ world.client[c] \in Clients /\ ClientOK(world, world.client[c])
  BY OursIs DEF GInv, Inv, EachOK
<1>3. client[c].spectator => client[c].flags = {}
  BY <1>2, WorldIs DEF ClientOK, FlagOK
<1>4. /\ Ours(u) /\ Inv(u) /\ InUse(u) = InUse(world) /\ Players(u) = Players(world)
      /\ u.server = server /\ u.level = level /\ u.vote = vote
      /\ u.client[c] \in Clients /\ u.client[c].flags = {}
  BY <1>2, <1>3, TossIs, WorldIs
<1> HIDE DEF u
<1>5. r \in Clients /\ SameSeat(u.client[c], r) /\ r.team = t /\ ~r.spectator
  BY <1>4, JoinedIs
<1> HIDE DEF r
<1>6. ~MatchRunning(level)
  BY WorldIs DEF MayJoin
<1>7. Becomes(ClientRespawn([u EXCEPT !.client[c] = r], c, TRUE))
  BY <1>1
<1> QED
  BY <1>4, <1>5, <1>6, <1>7, ReseatMoves, Sides

(* "team": joins a team, or the rounds.                                    *)
LEMMA TeamMoves ==
  ASSUME GInv, NEW c \in Slots, NEW t \in Teams, NEW stuck \in BOOLEAN, Team_f(c, t, stuck)
  PROVE  Moves
<1>1. c \in InUse(world) /\ Ours(world) /\ Inv(world)
  BY DEF Team_f, MayCommand, GInv
<1>2. CASE ~level.rounds
  BY <1>1, <1>2, JoinMoves DEF Team_f
<1>3. CASE level.rounds /\ level.teams
  BY <1>1, <1>3, JoinMoves DEF Team_f, AddClientToRound
<1>4. CASE level.rounds /\ ~level.teams
  <2> DEFINE p == client[c]
             r == [p EXCEPT !.spectator = FALSE]
  <2>1. /\ ~RoundRunning(level) /\ client[c].spectator
        /\ Becomes(ClientRespawn([world EXCEPT !.client[c].spectator = FALSE], c, TRUE))
    BY <1>4 DEF Team_f, AddClientToRound
  <2>2. p \in Clients /\ ClientOK(world, p)
    BY <1>1, WorldIs, OursIs DEF Inv, EachOK
  <2>3. p.flags = {}
    BY <2>1, <2>2 DEF ClientOK, FlagOK
  <2>4. r \in Clients /\ SameSeat(p, r) /\ ~r.spectator
    BY <2>2 DEF Clients, SameSeat
  <2>5. [world EXCEPT !.client[c].spectator = FALSE] = [world EXCEPT !.client[c] = r]
    BY WorldIs
  <2>6. Strict(world) => ~TeamGame(level)
    BY <1>1, <1>4, WorldIs DEF Inv, LevelOK, Names, Strict, TeamGame
  <2>7. OneContest(world) => ~(level.match /\ MatchRunning(level))
    BY <1>1, <1>4, WorldIs DEF Inv, LevelOK, Names, OneContest
  <2> HIDE DEF r
  <2> QED
    BY <1>1, <2>1, <2>3, <2>4, <2>5, <2>6, <2>7, ReseatMoves, WorldIs
<1> QED
  BY <1>2, <1>3, <1>4

(* "spectate": leaves the game, or joins it while no contest is under way. *)
LEMMA SpectateMoves ==
  ASSUME GInv, NEW c \in Slots, NEW stuck \in BOOLEAN, Spectate_f(c, stuck)
  PROVE  Moves
<1> DEFINE p == client[c]
           t == SmallestTeam(world)
           w == IF ~p.spectator THEN TossFlag(world, c, stuck)
                ELSE IF TeamGame(level) THEN AddClientToTeam(world, c, t, stuck)
                ELSE world
           s == ~p.spectator
<1>1. c \in InUse(world) /\ Ours(world) /\ Inv(world)
  BY DEF Spectate_f, MayCommand, GInv
<1>2. p \in Clients /\ ClientOK(world, p) /\ p.spectator \in BOOLEAN
  <2>1. p \in Clients /\ ClientOK(world, p)
    BY <1>1, WorldIs, OursIs DEF Inv, EachOK
  <2> QED
    BY <2>1 DEF Clients
<1>3. Becomes(ClientRespawn([w EXCEPT !.client[c].spectator = s], c, TRUE))
  BY DEF Spectate_f
<1>4. CASE ~p.spectator
  <2> DEFINE u == TossFlag(world, c, stuck)
             r == [u.client[c] EXCEPT !.spectator = s]
  <2>1. /\ Ours(u) /\ Inv(u) /\ InUse(u) = InUse(world) /\ Players(u) = Players(world)
        /\ u.server = server /\ u.level = level /\ u.vote = vote
        /\ u.client[c] \in Clients /\ ClientOK(u, u.client[c]) /\ u.client[c].flags = {}
    BY <1>1, TossIs, WorldIs
  <2>2. w = u
    BY <1>4
  <2> HIDE DEF u, w
  <2>3. /\ r \in Clients /\ SameSeat(u.client[c], r) /\ r.spectator
        /\ r.match_num = u.client[c].match_num /\ r.round_num = u.client[c].round_num
    BY <1>4, <2>1 DEF Clients, SameSeat
  <2>4. NumOK(level, r)
    BY <2>1, <2>3 DEF ClientOK, NumOK
  <2>5. Becomes(ClientRespawn([u EXCEPT !.client[c] = r], c, TRUE))
    BY <1>3, <2>2
  <2> HIDE DEF r
  <2> QED
    BY <1>1, <2>1, <2>3, <2>4, <2>5, ReseatMoves
<1>5. CASE p.spectator
  <2> DEFINE q == IF TeamGame(level) /\ MayJoin(world, c, t) THEN Joined(p, t) ELSE p
             r == [q EXCEPT !.spectator = FALSE]
  <2>1. t \in Teams
    BY Smallest
  <2>2. level.match_time = Unset /\ level.round_time = Unset
    BY <1>5 DEF Spectate_f, Underway
  <2>3. w = IF TeamGame(level) /\ MayJoin(world, c, t) THEN [world EXCEPT !.client[c] = Joined(p, t)]
            ELSE world
    BY <1>1, <1>5, WorldIs DEF AddClientToTeam, Joined
  <2>4. /\ q \in Clients /\ SameSeat(p, q)
        /\ TeamGame(level) => q.team \in Teams
    <3>1. TeamGame(level) /\ ~MayJoin(world, c, t) => p.team = t
      BY <2>2, WorldIs DEF MayJoin, MatchRunning, Unset
    <3>2. LET j == Joined(p, t) IN j \in Clients /\ SameSeat(p, j) /\ j.team = t
      BY <1>2, <2>1, JoinedIs
    <3> QED
      BY <1>2, <2>1, <3>1, <3>2 DEF SameSeat
  <2>5. /\ r \in Clients /\ SameSeat(p, r) /\ ~r.spectator /\ r.team = q.team
    BY <2>4 DEF Clients, SameSeat
  <2>6. [w EXCEPT !.client[c].spectator = s] = [world EXCEPT !.client[c] = r]
    <3>1. CASE TeamGame(level) /\ MayJoin(world, c, t)
      <4> DEFINE j == Joined(p, t)
                 y == [world EXCEPT !.client[c] = j]
      <4>1. w = y /\ q = j
        BY <2>3, <3>1
      <4>2. /\ y.client = [world.client EXCEPT ![c] = j] /\ y.client[c] = j
            /\ y.server = world.server /\ y.level = world.level /\ y.base = world.base
            /\ y.dropped = world.dropped /\ y.vote = world.vote /\ Ours(y)
        <5>1. j \in Clients
          BY <2>4, <4>1
        <5> HIDE DEF j
        <5> QED
          BY <1>1, <5>1, SetClient
      <4> HIDE DEF j, y, w, q
      <4>3. [w EXCEPT !.client[c].spectator = s] = [y EXCEPT !.client[c] = r]
        BY <1>5, <4>1, <4>2
      <4>4. [y EXCEPT !.client[c] = r] = [world EXCEPT !.client[c] = r]
        BY <1>1, <4>2 DEF Ours, Worlds
      <4> QED
        BY <4>3, <4>4
    <3>2. CASE ~(TeamGame(level) /\ MayJoin(world, c, t))
      <4>1. w = world /\ q = p
        BY <2>3, <3>2
      <4> HIDE DEF w, q
      <4> QED
        BY <1>5, <4>1, WorldIs
    <3> QED
      BY <3>1, <3>2
  <2>7. p.flags = {}
    BY <1>2, <1>5 DEF ClientOK, FlagOK
  <2>8. Becomes(ClientRespawn([world EXCEPT !.client[c] = r], c, TRUE))
    BY <1>3, <2>6
  <2>9. ~MatchRunning(level) /\ ~RoundRunning(level)
    BY <2>2 DEF MatchRunning, RoundRunning, Unset
  <2> HIDE DEF r, q
  <2> QED
    BY <1>1, <2>4, <2>5, <2>7, <2>8, <2>9, ReseatMoves, WorldIs, Sides
<1> QED
  BY <1>2, <1>4, <1>5

(* Ready: a match that is armed has yet to be counted down.                *)
LEMMA ReadyMoves ==
  ASSUME GInv, NEW c \in Slots, NEW on \in BOOLEAN, NEW l \in Levels,
         c \in InUse(world), ~client[c].spectator,
         SameRules(level, l), LevelOK([world EXCEPT !.level = l]),
         MatchRunning(l) => MatchRunning(level), RoundRunning(l) => RoundRunning(level),
         LET w == [world EXCEPT !.client[c].ready = on] IN
         Becomes([w EXCEPT !.level = l])
  PROVE  Moves
<1> DEFINE p == client[c]
           q == [p EXCEPT !.ready = on]
           w == [world EXCEPT !.client[c] = q]
           v == [w EXCEPT !.level = l]
<1>1. Ours(world) /\ Inv(world)
  BY DEF GInv
<1>2. p \in Clients /\ ClientOK(world, p)
  BY <1>1, WorldIs, OursIs DEF Inv, EachOK
<1>3. Becomes(v)
  BY WorldIs
<1>4. /\ q \in Clients /\ SameSeat(p, q) /\ q.flags = p.flags /\ ~q.spectator
      /\ q.dead = p.dead /\ q.team = p.team
      /\ q.match_num = p.match_num /\ q.round_num = p.round_num
  BY <1>2 DEF Clients, SameSeat
<1> HIDE DEF q
<1>5. ClientOK(world, q)
  BY <1>2, <1>4 DEF ClientOK, FlagOK, NumOK, TeamOK
<1>6. Alike(world, w, c) /\ w.client[c] = q
  BY <1>1, <1>4, AlikePut
<1> HIDE DEF w
<1>7. Ours(w) /\ Inv(w) /\ Players(w) \subseteq Players(world) /\ SameAllowed(world, w)
  BY <1>1, <1>4, <1>5, <1>6, PutKeeps, WorldIs
<1>8. w.server = server /\ w.level = level /\ w.vote = vote
  BY <1>6, WorldIs DEF Alike
<1>9. LevelOK(v)
  <2>1. v.level = l /\ v.server = server
    BY <1>7, <1>8 DEF Ours, Worlds
  <2>2. [world EXCEPT !.level = l].level = l /\ [world EXCEPT !.level = l].server = server
    BY <1>1, WorldIs DEF Ours, Worlds
  <2> HIDE DEF v
  <2> QED
    BY <2>1, <2>2 DEF LevelOK, Allowed
<1>10. /\ Ours(v) /\ Inv(v) /\ v.level = l /\ v.vote = w.vote /\ v.server = w.server
       /\ Players(v) = Players(w)
  BY <1>7, <1>8, <1>9, LevelCalm
<1> HIDE DEF v
<1>11. Entry(world, v) /\ SameAllowed(world, v)
  BY <1>7, <1>8, <1>10, WorldIs DEF Entry, SameAllowed, Allowed
<1> QED
  BY <1>3, <1>8, <1>10, <1>11, Settled

(* "ready" and "unready".                                                  *)
LEMMA ReadyingMoves ==
  ASSUME GInv, NEW c \in Slots, Ready_f(c) \/ Unready_f(c)
  PROVE  Moves
<1> DEFINE armed == [level EXCEPT !.match_time = CountDown, !.start_match = TRUE]
           disarmed == [level EXCEPT !.start_match = FALSE]
<1>1. Ours(world) /\ Inv(world) /\ level \in Levels
  BY OursIs, WorldIs DEF GInv
<1>2. c \in InUse(world) /\ ~client[c].spectator /\ level.match
  BY DEF Ready_f, Unready_f, MayCommand
<1>3. /\ armed \in Levels /\ SameRules(level, armed) /\ armed.warmup = level.warmup
      /\ armed.match_time = CountDown /\ armed.round_time = level.round_time
      /\ armed.start_round = level.start_round
      /\ \A name \in Names : armed[name] = level[name]
  <2>1. CountDown \in Times
    BY BoundsAssumption DEF Times
  <2> QED
    BY <1>1, <2>1 DEF Levels, SameRules, Names
<1>4. /\ disarmed \in Levels /\ SameRules(level, disarmed) /\ disarmed.warmup = level.warmup
      /\ disarmed.match_time = level.match_time /\ disarmed.round_time = level.round_time
      /\ ~disarmed.start_match /\ disarmed.start_round = level.start_round
      /\ \A name \in Names : disarmed[name] = level[name]
  BY <1>1 DEF Levels, SameRules, Names
<1>5. LET w == [world EXCEPT !.client[c].ready = TRUE]
          x == [world EXCEPT !.client[c].ready = FALSE]
      IN \/ Becomes([w EXCEPT !.level = armed])
         \/ Becomes([w EXCEPT !.level = level])
         \/ Becomes([x EXCEPT !.level = disarmed])
  <2> DEFINE w == [world EXCEPT !.client[c].ready = TRUE]
             x == [world EXCEPT !.client[c].ready = FALSE]
  <2>1. w \in [server: {server}, level: {level}, client: {w.client}, base: {base}, dropped: {dropped}, vote: {vote}]
    BY DEF world
  <2>2. [w EXCEPT !.level.match_time = CountDown, !.level.start_match = TRUE] = [w EXCEPT !.level = armed]
    BY <2>1
  <2>3. w = [w EXCEPT !.level = level]
    BY <2>1
  <2>4. [world EXCEPT !.client[c].ready = FALSE, !.level.start_match = FALSE] = [x EXCEPT !.level = disarmed]
    BY DEF world
  <2> QED
    BY <2>2, <2>3, <2>4 DEF Ready_f, Unready_f
<1> HIDE DEF armed, disarmed
<1>6. \A l : [world EXCEPT !.level = l].level = l /\ [world EXCEPT !.level = l].server = server
  BY DEF world
<1>7. /\ LevelOK([world EXCEPT !.level = armed]) /\ LevelOK([world EXCEPT !.level = disarmed])
      /\ LevelOK([world EXCEPT !.level = level])
  BY <1>1, <1>2, <1>3, <1>4, <1>6, WorldIs DEF Inv, LevelOK, Allowed, Names
<1>8. ~MatchRunning(armed) /\ (RoundRunning(armed) => RoundRunning(level))
  BY <1>3, BoundsAssumption DEF MatchRunning, RoundRunning
<1>9. /\ MatchRunning(disarmed) => MatchRunning(level)
      /\ RoundRunning(disarmed) => RoundRunning(level)
  BY <1>4 DEF MatchRunning, RoundRunning
<1>10. SameRules(level, level)
  BY DEF SameRules
<1> QED
  BY <1>1, <1>2, <1>3, <1>4, <1>5, <1>7, <1>8, <1>9, <1>10, ReadyMoves

-----------------------------------------------------------------------------
(* Flags that are touched, land and return.                                *)

(* Only the flag of team t is moved, and it is somewhere afterwards.       *)
LEMMA FlagMoves ==
  ASSUME GInv, level.ctf, NEW v, Becomes(v), Ours(v),
         v.server = server, v.level = level, v.vote = vote,
         \A c \in Slots : /\ SameSeat(client[c], v.client[c])
                          /\ v.client[c].spectator = client[c].spectator,
         \A c \in InUse(world) : ClientOK(world, v.client[c]),
         NEW t \in Teams,
         \A u \in Teams \ {t} :
           /\ v.base[u] = base[u] /\ v.dropped[u] = dropped[u]
           /\ \A c \in InUse(world) : u \in v.client[c].flags <=> u \in client[c].flags,
         AtBase(v, t) \/ OnGround(v, t) \/ \E c : Carried(v, t, c)
  PROVE  Moves
<1>1. Ours(world) /\ Inv(world)
  BY DEF GInv
<1>2. SameVote(world, v)
  BY WorldIs DEF SameVote
<1>3. VoteOK(v) /\ InUse(v) = InUse(world)
  BY <1>1, <1>2, SameVotes, WorldIs DEF Inv
<1>4. /\ SameAllowed(world, v) /\ Quiet(v) = Quiet(world) /\ Strict(v) = Strict(world)
  BY WorldIs DEF SameAllowed, Quiet, Strict, OneContest, Allowed
<1>5. EachOK(v)
  BY <1>3, <1>4, WorldIs DEF EachOK, ClientOK
<1>6. OnePlace(v) /\ Somewhere(v)
  BY <1>1, <1>3, Moved, WorldIs DEF Inv
<1>7. LevelOK(v)
  BY <1>1, WorldIs DEF Inv, LevelOK, Allowed
<1>8. Players(v) = Players(world)
  BY <1>3, OursIs, <1>1, WorldIs DEF Players
<1>9. Entry(world, v)
  BY <1>8 DEF Entry
<1> QED
  BY <1>3, <1>4, <1>5, <1>6, <1>7, <1>9, Settled DEF Inv

(* The world with other clients and flags.                                 *)
Arranged(f, b, d) ==
  [server |-> server, level |-> level, client |-> f, base |-> b, dropped |-> d, vote |-> vote]

(* Other clients and flags, and nothing else.                              *)
LEMMA ArrangedIs ==
  ASSUME Ours(world), NEW f \in [Slots -> Clients], NEW b \in Bases, NEW d \in Drops
  PROVE  LET v == Arranged(f, b, d) IN
         /\ Ours(v) /\ v.client = f /\ v.base = b /\ v.dropped = d
         /\ v.server = server /\ v.level = level /\ v.vote = vote
BY WorldIs DEF Ours, Worlds, Arranged

(* A carrier, and one who has the flag of team t only.                     *)
WithFlags(p, flags) == [p EXCEPT !.flags = flags]

(* Other flags, and nothing else.                                          *)
LEMMA WithFlagsIs ==
  ASSUME NEW p \in Clients, NEW flags \in SUBSET Teams
  PROVE  LET q == WithFlags(p, flags) IN
         /\ q \in Clients /\ q.flags = flags
         /\ SameSeat(p, q) /\ q.spectator = p.spectator /\ q.team = p.team
         /\ q.dead = p.dead /\ q.ready = p.ready
         /\ q.match_num = p.match_num /\ q.round_num = p.round_num
BY DEF WithFlags, Clients, SameSeat

(* Client c touches the flag of team t: it gets flags; the flag is at its  *)
(* base (back) or has been taken by c.                                     *)
LEMMA TakeMoves ==
  ASSUME GInv, level.ctf, NEW t \in Teams, NEW c \in Players(world), ~client[c].dead,
         NEW back \in BOOLEAN, NEW flags,
         NEW d \in Drops, d[t] = {}, \A u \in Teams \ {t} : d[u] = dropped[u],
         \A e \in InUse(world) \ {c} : t \notin client[e].flags,
         back => flags = client[c].flags \ {t},
         ~back => client[c].team # NoTeam /\ client[c].team # t /\ flags = client[c].flags \cup {t},
         client' = [client EXCEPT ![c] = WithFlags(client[c], flags)],
         base' = [base EXCEPT ![t] = back],
         dropped' = d, UNCHANGED <<server, level, vote>>
  PROVE  Moves
<1> DEFINE p == client[c]
           q == WithFlags(p, flags)
           f == [client EXCEPT ![c] = q]
           b == [base EXCEPT ![t] = back]
           v == Arranged(f, b, d)
<1>1. /\ Ours(world) /\ Inv(world) /\ c \in InUse(world) /\ c \in Slots /\ ~p.spectator
      /\ client \in [Slots -> Clients] /\ base \in Bases /\ p \in Clients
  BY OursIs, WorldIs DEF GInv, Players
<1>2. ClientOK(world, p) /\ FlagOK(level, p)
  BY <1>1, WorldIs DEF Inv, EachOK, ClientOK
<1>3. p.team \in Teams \cup {NoTeam} /\ p.flags \in SUBSET Teams
  BY <1>1 DEF Clients
<1>4. ~back => p.team \in Teams /\ t = Other[p.team] /\ flags = {t}
  BY <1>2, <1>3, Sides DEF FlagOK
<1>5. flags \in SUBSET Teams
  BY <1>3
<1>6. /\ q \in Clients /\ q.flags = flags
      /\ SameSeat(p, q) /\ q.spectator = p.spectator /\ q.team = p.team
      /\ q.dead = p.dead /\ q.ready = p.ready
      /\ q.match_num = p.match_num /\ q.round_num = p.round_num
  BY <1>1, <1>5, WithFlagsIs
<1> HIDE DEF q
<1>7. ClientOK(world, q)
  <2>1. FlagOK(level, q)
    BY <1>1, <1>2, <1>4, <1>6 DEF FlagOK
  <2> QED
    BY <1>2, <1>6, <2>1, WorldIs DEF ClientOK, NumOK, TeamOK
<1>8. /\ f \in [Slots -> Clients] /\ f[c] = q /\ \A e \in Slots \ {c} : f[e] = client[e]
      /\ b \in Bases /\ b[t] = back /\ \A u \in Teams \ {t} : b[u] = base[u]
  BY <1>1, <1>6 DEF Bases
<1> HIDE DEF f, b
<1>9. /\ Ours(v) /\ v.client = f /\ v.base = b /\ v.dropped = d
      /\ v.server = server /\ v.level = level /\ v.vote = vote
  BY <1>1, <1>8, ArrangedIs
<1> HIDE DEF v
<1>10. Becomes(v)
  BY <1>9 DEF Becomes, f, b, q
<1>11. \A e \in Slots : /\ SameSeat(client[e], v.client[e])
                        /\ v.client[e].spectator = client[e].spectator
  BY <1>6, <1>8, <1>9 DEF SameSeat
<1>12. \A e \in InUse(world) : ClientOK(world, v.client[e])
  BY <1>1, <1>7, <1>8, <1>9, OursIs, WorldIs DEF Inv, EachOK
<1>13. InUse(v) = InUse(world)
  BY <1>11, WorldIs DEF InUse, SameSeat
<1>14. \A u \in Teams \ {t} :
         /\ v.base[u] = base[u] /\ v.dropped[u] = dropped[u]
         /\ \A e \in InUse(world) : u \in v.client[e].flags <=> u \in client[e].flags
  <2>1. \A u \in Teams \ {t} : u \in flags <=> u \in p.flags
    OBVIOUS
  <2> QED
    BY <1>1, <1>6, <1>8, <1>9, <2>1, OursIs
<1>15. AtBase(v, t) \/ OnGround(v, t) \/ \E e : Carried(v, t, e)
  <2>1. \A e \in InUse(v) \ {c} : t \notin v.client[e].flags
    BY <1>1, <1>8, <1>9, <1>13, OursIs
  <2>2. v.client[c].flags = flags
    BY <1>6, <1>8, <1>9
  <2>3. CASE back
    <3>1. t \notin flags
      BY <2>3
    <3> QED
      BY <1>8, <1>9, <2>1, <2>2, <2>3, <3>1 DEF AtBase
  <2>4. CASE ~back
    <3>1. t \in flags
      BY <2>4
    <3>2. Carried(v, t, c)
      BY <1>1, <1>8, <1>9, <1>13, <2>1, <2>2, <2>4, <3>1 DEF Carried
    <3> QED
      BY <3>2
  <2> QED
    BY <2>3, <2>4
<1> QED
  BY <1>9, <1>10, <1>11, <1>12, <1>14, <1>15, FlagMoves

(* A capture or a theft.                                                   *)
LEMMA TouchBaseMoves ==
  ASSUME GInv, NEW c \in Slots, NEW t \in Teams, TouchBase(c, t)
  PROVE  Moves
<1>1. /\ c \in Players(world) /\ ~client[c].dead /\ level.ctf /\ client[c].team # NoTeam
      /\ UNCHANGED <<server, level, dropped, vote>>
  BY DEF TouchBase, MayTouch
<1>2. /\ Ours(world) /\ Inv(world) /\ c \in InUse(world)
      /\ dropped \in Drops /\ OnePlace(world)
  BY <1>1, OursIs, WorldIs DEF GInv, Players, Inv
<1>3. CASE /\ client[c].team = t /\ Other[t] \in client[c].flags
           /\ client' = [client EXCEPT ![c] = WithFlags(client[c], client[c].flags \ {Other[t]})]
           /\ base' = [base EXCEPT ![Other[t]] = TRUE]
  <2> DEFINE o == Other[t]
  <2>1. o \in Teams
    BY Sides
  <2>2. dropped[o] = {} /\ \A e \in InUse(world) \ {c} : o \notin client[e].flags
    BY <1>2, <1>3, <2>1, WorldIs DEF OnePlace
  <2> HIDE DEF o
  <2>3. client' = [client EXCEPT ![c] = WithFlags(client[c], client[c].flags \ {o})]
        /\ base' = [base EXCEPT ![o] = TRUE]
    BY <1>3 DEF o
  <2> QED
    BY <1>1, <1>2, <2>1, <2>2, <2>3, TakeMoves
<1>4. CASE /\ client[c].team # t /\ base[t]
           /\ client' = [client EXCEPT ![c] = WithFlags(client[c], client[c].flags \cup {t})]
           /\ base' = [base EXCEPT ![t] = FALSE]
  <2>1. dropped[t] = {} /\ \A e \in InUse(world) \ {c} : t \notin client[e].flags
    BY <1>2, <1>4, WorldIs DEF OnePlace
  <2> QED
    BY <1>1, <1>2, <1>4, <2>1, TakeMoves
<1> QED
  BY <1>3, <1>4 DEF TouchBase, Hidden, WithFlags

(* A dropped flag is returned or taken.                                    *)
LEMMA TouchDroppedMoves ==
  ASSUME GInv, NEW c \in Slots, NEW t \in Teams, NEW x \in dropped[t], TouchDropped(c, t, x)
  PROVE  Moves
<1> DEFINE d == [dropped EXCEPT ![t] = dropped[t] \ {x}]
<1>1. /\ c \in Players(world) /\ ~client[c].dead /\ level.ctf /\ client[c].team # NoTeam
      /\ dropped' = d /\ UNCHANGED <<server, level, vote>>
  BY DEF TouchDropped, MayTouch
<1>2. /\ Ours(world) /\ Inv(world) /\ c \in InUse(world) /\ c \in Slots
      /\ dropped \in Drops /\ base \in Bases /\ client \in [Slots -> Clients] /\ OnePlace(world)
  BY <1>1, OursIs, WorldIs DEF GInv, Players, Inv
<1>3. /\ dropped[t] \ {x} = {} /\ ~base[t]
      /\ \A e \in InUse(world) : t \notin client[e].flags
  BY <1>2, WorldIs DEF OnePlace
<1>4. d \in Drops /\ d[t] = {} /\ \A u \in Teams \ {t} : d[u] = dropped[u]
  BY <1>2, <1>3 DEF Drops
<1>5. CASE client[c].team = t
  <2>1. base' = [base EXCEPT ![t] = TRUE] /\ client' = client
    BY <1>5 DEF TouchDropped
  <2>2. client[c].flags \ {t} = client[c].flags
    BY <1>2, <1>3
  <2>3. client = [client EXCEPT ![c] = WithFlags(client[c], client[c].flags \ {t})]
    BY <1>2, <2>2 DEF WithFlags, Clients
  <2>4. client' = [client EXCEPT ![c] = WithFlags(client[c], client[c].flags \ {t})]
    BY <2>1, <2>3
  <2>5. \A e \in InUse(world) \ {c} : t \notin client[e].flags
    BY <1>3
  <2> DEFINE flags == client[c].flags \ {t}
  <2>6. client' = [client EXCEPT ![c] = WithFlags(client[c], flags)] /\ flags = client[c].flags \ {t}
    BY <2>4
  <2>7. /\ c \in Players(world) /\ ~client[c].dead /\ level.ctf
        /\ dropped' = d /\ UNCHANGED <<server, level, vote>>
    BY <1>1
  <2>8. d \in Drops /\ d[t] = {} /\ \A u \in Teams \ {t} : d[u] = dropped[u]
    BY <1>4
  <2>9. base' = [base EXCEPT ![t] = TRUE]
    BY <2>1
  <2> HIDE DEF flags, d
  <2>10. \A back \in BOOLEAN : back = TRUE => Moves
    <3> SUFFICES ASSUME NEW back \in BOOLEAN, back = TRUE PROVE Moves
      OBVIOUS
    <3>1. base' = [base EXCEPT ![t] = back]
      BY <2>9
    <3>2. (back => flags = client[c].flags \ {t}) /\ back
      BY <2>6
    <3> QED
      BY <2>5, <2>6, <2>7, <2>8, <3>1, <3>2, TakeMoves
  <2> QED
    BY <2>10
<1>6. CASE client[c].team # t
  <2>1. client' = [client EXCEPT ![c] = WithFlags(client[c], client[c].flags \cup {t})] /\ base' = base
    BY <1>6 DEF TouchDropped, WithFlags
  <2>2. base = [base EXCEPT ![t] = FALSE]
    BY <1>2, <1>3 DEF Bases
  <2> QED
    BY <1>1, <1>3, <1>4, <1>6, <2>1, <2>2, TakeMoves
<1> QED
  BY <1>5, <1>6

(* A flag in the world lands or returns: the clients have no part in it.   *)
LEMMA LieMoves ==
  ASSUME GInv, NEW t \in Teams, NEW x \in dropped[t], DropItemThink(t, x) \/ ReturnFlag(t, x)
  PROVE  Moves
<1> DEFINE landed == [x EXCEPT !.landed = TRUE]
           lying == [dropped EXCEPT ![t] = (dropped[t] \ {x}) \cup {landed}]
           returned == [dropped EXCEPT ![t] = dropped[t] \ {x}]
           back == [base EXCEPT ![t] = TRUE]
           a == Arranged(client, base, lying)
           r == Arranged(client, back, returned)
<1>1. /\ Ours(world) /\ Inv(world)
      /\ dropped \in Drops /\ base \in Bases /\ client \in [Slots -> Clients] /\ OnePlace(world)
  BY OursIs, WorldIs DEF GInv, Inv
<1>2. level.ctf
  BY <1>1, WorldIs DEF OnePlace
<1>3. /\ dropped[t] \ {x} = {} /\ ~base[t]
      /\ \A e \in InUse(world) : t \notin client[e].flags
  BY <1>1, WorldIs DEF OnePlace
<1>4. landed \in [owner: Slots, landed: BOOLEAN]
  <2>1. x \in [owner: Slots, landed: BOOLEAN]
    BY <1>1 DEF Drops
  <2> QED
    BY <2>1
<1> HIDE DEF landed
<1>5. /\ lying \in Drops /\ lying[t] = {landed} /\ \A u \in Teams \ {t} : lying[u] = dropped[u]
      /\ returned \in Drops /\ returned[t] = {} /\ \A u \in Teams \ {t} : returned[u] = dropped[u]
      /\ back \in Bases /\ back[t] /\ \A u \in Teams \ {t} : back[u] = base[u]
  BY <1>1, <1>3, <1>4 DEF Drops, Bases
<1>6. /\ DropItemThink(t, x) => Becomes(a)
      /\ ReturnFlag(t, x) => Becomes(r)
  <2>1. DropItemThink(t, x) => Becomes(a)
    BY DEF DropItemThink, Becomes, Arranged, landed
  <2> DEFINE u == ResetFlag(world, t)
  <2>2. u = [world EXCEPT !.base[t] = TRUE]
    BY <1>2, WorldIs DEF ResetFlag
  <2>3. u = [server |-> server, level |-> level, client |-> client, base |-> back,
             dropped |-> dropped, vote |-> vote]
    BY <2>2 DEF world
  <2> HIDE DEF u, back
  <2>4. [u EXCEPT !.dropped[t] = u.dropped[t] \ {x}] = r
    BY <2>3 DEF Arranged
  <2> QED
    BY <2>1, <2>4 DEF ReturnFlag, u
<1> HIDE DEF lying, returned, back
<1>7. /\ Ours(a) /\ a.client = client /\ a.base = base /\ a.dropped = lying
      /\ a.server = server /\ a.level = level /\ a.vote = vote
      /\ Ours(r) /\ r.client = client /\ r.base = back /\ r.dropped = returned
      /\ r.server = server /\ r.level = level /\ r.vote = vote
  BY <1>1, <1>5, ArrangedIs
<1> HIDE DEF a, r
<1>8. InUse(a) = InUse(world) /\ InUse(r) = InUse(world)
  BY <1>7, WorldIs DEF InUse
<1>9. OnGround(a, t) /\ AtBase(r, t)
  BY <1>3, <1>5, <1>7, <1>8 DEF OnGround, AtBase
<1>10. \A e \in InUse(world) : ClientOK(world, client[e])
  BY <1>1, WorldIs DEF Inv, EachOK
<1>11. \A e \in Slots : SameSeat(client[e], client[e])
  BY DEF SameSeat
<1>12. CASE Becomes(a)
  BY <1>2, <1>5, <1>7, <1>9, <1>10, <1>11, <1>12, FlagMoves
<1>13. CASE Becomes(r)
  BY <1>2, <1>5, <1>7, <1>9, <1>10, <1>11, <1>13, FlagMoves
<1> QED
  BY <1>6, <1>12, <1>13

-----------------------------------------------------------------------------
(* Votes, and clients that come and go.                                    *)

(* There are finitely many clients.                                        *)
LEMMA SlotsFinite ==
  ASSUME Ours(world)
  PROVE  IsFiniteSet(Slots) /\ \A S : S \subseteq Slots => IsFiniteSet(S) /\ Cardinality(S) \in Nat
<1>1. server.slots \in Nat
  BY WorldIs, OursIs DEF ServerType
<1>2. IsFiniteSet(Slots)
  BY <1>1, FS_Interval DEF Slots
<1>3. \A S : S \subseteq Slots => IsFiniteSet(S) /\ Cardinality(S) \in Nat
  BY <1>2, FS_Subset, FS_CardinalityType
<1> QED
  BY <1>2, <1>3

(* The world with another level, clients and so on, on the same server.    *)
Made(l, f, b, d, y) ==
  [server |-> server, level |-> l, client |-> f, base |-> b, dropped |-> d, vote |-> y]

(* What is in such a world.                                                *)
LEMMA MadeIs ==
  ASSUME Ours(world), NEW l \in Levels, NEW f \in [Slots -> Clients], NEW b \in Bases,
         NEW d \in Drops, NEW y \in Votes
  PROVE  LET v == Made(l, f, b, d, y) IN
         /\ Ours(v) /\ v.server = server /\ v.level = l /\ v.client = f /\ v.base = b
         /\ v.dropped = d /\ v.vote = y
BY WorldIs DEF Ours, Worlds, Made

(* One client, in the game or not, becomes another, carrying nothing.      *)
LEMMA SwapKeeps ==
  ASSUME NEW w, Ours(w), Inv(w), NEW c \in Slots, NEW v, Ours(v),
         \A d \in Slots \ {c} : v.client[d] = w.client[d],
         v.server = w.server, v.level = w.level, v.base = w.base, v.dropped = w.dropped,
         c \in InUse(w) => w.client[c].flags = {},
         c \in InUse(v) => v.client[c].flags = {} /\ ClientOK(v, v.client[c]),
         VoteOK(v)
  PROVE  /\ Inv(v) /\ SameAllowed(w, v)
         /\ \A d \in Slots \ {c} : d \in InUse(v) <=> d \in InUse(w)
         /\ Players(v) \subseteq Players(w) \cup {c}
<1>1. \A d \in Slots \ {c} : d \in InUse(v) <=> d \in InUse(w)
  BY DEF InUse
<1>2. InUse(w) \subseteq Slots /\ InUse(v) \subseteq Slots
  BY DEF InUse
<1>3. SameAllowed(w, v) /\ Quiet(v) = Quiet(w) /\ Strict(v) = Strict(w)
  BY DEF SameAllowed, Quiet, Strict, OneContest, Allowed
<1>4. EachOK(v)
  <2> SUFFICES ASSUME NEW d \in InUse(v), d # c PROVE ClientOK(v, v.client[d])
    BY DEF EachOK
  <2>1. d \in InUse(w) /\ v.client[d] = w.client[d]
    BY <1>1, <1>2
  <2> QED
    BY <1>3, <2>1 DEF Inv, EachOK, ClientOK
<1>5. \A t : /\ \A d \in InUse(v) : t \in v.client[d].flags =>
                  d # c /\ d \in InUse(w) /\ t \in w.client[d].flags
             /\ \A d \in InUse(w) : t \in w.client[d].flags =>
                  d # c /\ d \in InUse(v) /\ t \in v.client[d].flags
  BY <1>1, <1>2
<1>6. OnePlace(v)
  <2> SUFFICES ASSUME NEW t \in Teams
               PROVE  /\ \A d, e \in InUse(v) : t \in v.client[d].flags /\ t \in v.client[e].flags => d = e
                      /\ \A d \in InUse(v) : t \in v.client[d].flags => ~v.base[t] /\ v.dropped[t] = {}
                      /\ v.base[t] => v.dropped[t] = {}
                      /\ \A x, y \in v.dropped[t] : x = y
                      /\ ~v.level.ctf => ~v.base[t] /\ v.dropped[t] = {}
    BY DEF OnePlace
  <2>1. OnePlace(w)
    BY DEF Inv
  <2>2. /\ \A d \in InUse(v) : t \in v.client[d].flags => ~w.base[t] /\ w.dropped[t] = {}
        /\ \A d, e \in InUse(v) : t \in v.client[d].flags /\ t \in v.client[e].flags => d = e
    BY <1>5, <2>1 DEF OnePlace
  <2>3. /\ w.base[t] => w.dropped[t] = {}
        /\ \A x, y \in w.dropped[t] : x = y
        /\ ~w.level.ctf => ~w.base[t] /\ w.dropped[t] = {}
    BY <2>1 DEF OnePlace
  <2> QED
    BY <2>2, <2>3
<1>7. Somewhere(v)
  BY <1>3, <1>5 DEF Inv, Somewhere
<1>8. LevelOK(v)
  BY DEF Inv, LevelOK, Allowed
<1>9. Players(v) \subseteq Players(w) \cup {c}
  BY <1>1, <1>2 DEF Players
<1> QED
  BY <1>1, <1>3, <1>4, <1>6, <1>7, <1>8, <1>9 DEF Inv

(* A client votes x.                                                       *)
LEMMA VotedMoves ==
  ASSUME GInv, NEW c \in InUse(world), NEW x \in {"yes", "no"}, NEW y \in Votes,
         y.age = vote.age,
         LET f == [client EXCEPT ![c].vote = x]
         IN /\ client' = f /\ vote' = y /\ UNCHANGED <<server, level, base, dropped>>
            /\ VoteOK(Made(level, f, base, dropped, y))
  PROVE  Moves
<1> DEFINE f == [client EXCEPT ![c].vote = x]
           v == Made(level, f, base, dropped, y)
           q == [client[c] EXCEPT !.vote = x]
<1>1. Ours(world) /\ Inv(world) /\ c \in Slots /\ client \in [Slots -> Clients]
      /\ level \in Levels /\ base \in Bases /\ dropped \in Drops
  BY WorldIs, OursIs DEF GInv
<1>2. f = [client EXCEPT ![c] = q] /\ client[c] \in Clients
  BY <1>1
<1>3. /\ q \in Clients /\ q.slot = client[c].slot /\ q.flags = client[c].flags
      /\ q.spectator = client[c].spectator /\ q.team = client[c].team
      /\ q.ready = client[c].ready /\ q.dead = client[c].dead
      /\ q.match_num = client[c].match_num /\ q.round_num = client[c].round_num
  BY <1>2 DEF Clients
<1>4. client' = f /\ vote' = y /\ UNCHANGED <<server, level, base, dropped>> /\ VoteOK(v)
  OBVIOUS
<1> HIDE DEF q
<1>5. /\ f \in [Slots -> Clients] /\ f[c] = q /\ \A d \in Slots \ {c} : f[d] = client[d]
  BY <1>1, <1>2, <1>3
<1> HIDE DEF f
<1>6. Becomes(v)
  BY <1>4 DEF Becomes, Made
<1>7. /\ Ours(v) /\ v.server = server /\ v.level = level /\ v.client = f /\ v.base = base
      /\ v.dropped = dropped /\ v.vote = y
  BY <1>1, <1>5, MadeIs
<1> HIDE DEF v
<1>8. /\ \A d \in Slots : /\ v.client[d].slot = client[d].slot
                          /\ v.client[d].flags = client[d].flags
                          /\ v.client[d].spectator = client[d].spectator
  BY <1>3, <1>5, <1>7
<1>9. InUse(v) = InUse(world) /\ Players(v) = Players(world)
  BY <1>8, WorldIs DEF InUse, Players
<1>10. SameAllowed(world, v) /\ Quiet(v) = Quiet(world) /\ Strict(v) = Strict(world)
  BY <1>7, WorldIs DEF SameAllowed, Quiet, Strict, OneContest, Allowed
<1>11. EachOK(v)
  <2> SUFFICES ASSUME NEW d \in InUse(world) PROVE ClientOK(v, v.client[d])
    BY <1>9 DEF EachOK
  <2>1. ClientOK(world, client[d]) /\ d \in Slots
    BY <1>1, WorldIs DEF Inv, EachOK, InUse
  <2>2. CASE d = c
    BY <1>3, <1>5, <1>7, <1>10, <2>1, <2>2, WorldIs DEF ClientOK, FlagOK, NumOK, TeamOK
  <2>3. CASE d # c
    BY <1>5, <1>7, <1>10, <2>1, <2>3, WorldIs DEF ClientOK
  <2> QED
    BY <2>2, <2>3
<1>12. OnePlace(v) /\ Somewhere(v)
  <2>1. \A d \in InUse(world) : v.client[d].flags = client[d].flags
    BY <1>1, <1>8, OursIs
  <2> QED
    BY <1>1, <1>7, <1>9, <1>10, <2>1, WorldIs DEF Inv, OnePlace, Somewhere
<1>13. LevelOK(v)
  BY <1>1, <1>7, WorldIs DEF Inv, LevelOK, Allowed
<1>14. Entry(world, v)
  BY <1>9 DEF Entry
<1>15. v.vote.age <= VoteTime
  BY <1>7 DEF GInv
<1> QED
  BY <1>4, <1>6, <1>7, <1>10, <1>11, <1>12, <1>13, <1>14, <1>15 DEF Moves, Fine, Inv, v

(* The vote begins with the voice of the caller.                           *)
LEMMA CallVoteMoves ==
  ASSUME GInv, NEW c \in Slots, NEW cmd \in {"map", "restart"}, CallVote(c, cmd)
  PROVE  Moves
<1> DEFINE f == [client EXCEPT ![c].vote = "yes"]
           y == [vote EXCEPT !.cmd = cmd, !.count.yes = 1, !.stale = vote.stale \ {c}]
           v == Made(level, f, base, dropped, y)
<1>1. /\ Ours(world) /\ Inv(world) /\ c \in InUse(world) /\ server.voting /\ vote.cmd = "none"
      /\ client' = f /\ vote' = y /\ UNCHANGED <<server, level, base, dropped>>
  BY DEF CallVote, MayCommand, GInv
<1>2. /\ client \in [Slots -> Clients] /\ vote \in Votes
  BY <1>1, WorldIs, OursIs
<1>3. VoteOK(world)
  BY <1>1 DEF Inv
<1>4. vote.count = [yes |-> 0, no |-> 0] /\ vote.gone = [yes |-> 0, no |-> 0]
  BY <1>1, <1>3, WorldIs DEF VoteOK, NoVote
<1>5. /\ y \in Votes /\ y.age = vote.age /\ y.cmd = cmd /\ y.stale = vote.stale \ {c}
      /\ y.count.yes = 1 /\ y.count.no = 0 /\ y.gone.yes = 0 /\ y.gone.no = 0
  <2> DEFINE t == [yes |-> 1, no |-> 0]
  <2>1. t \in Tallies /\ t.yes = 1 /\ t.no = 0
    BY DEF Tallies
  <2>2. [vote.count EXCEPT !.yes = 1] = t
    BY <1>4
  <2>3. y = [vote EXCEPT !.cmd = cmd, !.count = t, !.stale = vote.stale \ {c}]
    BY <2>2
  <2> HIDE DEF t, y
  <2>4. /\ y \in Votes /\ y.age = vote.age /\ y.cmd = cmd /\ y.stale = vote.stale \ {c}
        /\ y.count = t /\ y.gone = vote.gone
    BY <1>2, <2>1, <2>3 DEF Votes
  <2> QED
    BY <1>4, <2>1, <2>4
<1>6. /\ \A d \in Slots : f[d].slot = client[d].slot /\ (d # c => f[d] = client[d])
      /\ f[c].vote = "yes"
  BY <1>2 DEF Clients
<1> HIDE DEF f, y
<1>7. /\ v.server = server /\ v.client = f /\ v.vote = y
  BY DEF Made
<1> HIDE DEF v
<1>8. InUse(v) = InUse(world)
  BY <1>6, <1>7, WorldIs DEF InUse
<1>9. \A x \in {"yes", "no"} : \A d \in InUse(world) \ vote.stale : client[d].vote # x
  BY <1>1, <1>3, WorldIs DEF VoteOK, Cast
<1>10. Cast(v, "yes") = {c} /\ Cast(v, "no") = {}
  <2>1. \A d \in InUse(v) \ y.stale : d = c \/ (d \in InUse(world) \ vote.stale /\ f[d] = client[d])
    BY <1>5, <1>6, <1>8 DEF InUse
  <2>2. c \in InUse(v) \ y.stale
    BY <1>1, <1>5, <1>8
  <2> QED
    BY <1>6, <1>7, <1>9, <2>1, <2>2 DEF Cast
<1>11. VoteOK(v)
  <2>1. \A x \in {"yes", "no"} : v.vote.count[x] = Cardinality(Cast(v, x)) + v.vote.gone[x]
    <3>1. Cardinality(Cast(v, "yes")) = 1 /\ Cardinality(Cast(v, "no")) = 0
      BY <1>10, FS_Singleton, FS_EmptySet
    <3> QED
      BY <1>5, <1>7, <3>1
  <2>2. \A d \in Slots :
          IF d \in v.vote.stale THEN v.client[d].slot # "free" /\ v.client[d].vote # "none"
          ELSE v.client[d].slot # "in_use" => v.client[d].vote = "none"
    <3> TAKE d \in Slots
    <3>1. CASE d = c
      BY <1>1, <1>5, <1>6, <1>7, <3>1, WorldIs DEF InUse
    <3>2. CASE d # c
      BY <1>3, <1>5, <1>6, <1>7, <3>2, WorldIs DEF VoteOK
    <3> QED
      BY <3>1, <3>2
  <2> QED
    BY <1>1, <1>5, <1>7, <2>1, <2>2 DEF VoteOK
<1> QED
  BY <1>1, <1>5, <1>11, VotedMoves DEF f, v

(* One more voice.                                                         *)
LEMMA CastVoteMoves ==
  ASSUME GInv, NEW c \in Slots, NEW x \in {"yes", "no"}, CastVote(c, x)
  PROVE  Moves
<1> DEFINE f == [client EXCEPT ![c].vote = x]
           y == [vote EXCEPT !.count[x] = vote.count[x] + 1]
           v == Made(level, f, base, dropped, y)
<1>1. /\ Ours(world) /\ Inv(world) /\ c \in InUse(world) /\ server.voting /\ vote.cmd # "none"
      /\ client[c].vote = "none"
      /\ client' = f /\ vote' = y /\ UNCHANGED <<server, level, base, dropped>>
  BY DEF CastVote, MayCommand, HasVoted, GInv
<1>2. /\ client \in [Slots -> Clients] /\ vote \in Votes
  BY <1>1, WorldIs, OursIs
<1>3. VoteOK(world) /\ c \notin vote.stale
  BY <1>1, WorldIs DEF Inv, VoteOK
<1>4. /\ y \in Votes /\ y.age = vote.age /\ y.cmd = vote.cmd /\ y.stale = vote.stale
      /\ y.gone = vote.gone /\ y.count[x] = vote.count[x] + 1
      /\ \A z \in {"yes", "no"} : z # x => y.count[z] = vote.count[z]
  <2>1. vote.count \in Tallies /\ vote.count.yes \in Nat /\ vote.count.no \in Nat
    BY <1>2 DEF Votes, Tallies
  <2> DEFINE t == [vote.count EXCEPT ![x] = vote.count[x] + 1]
  <2>2. /\ t \in Tallies /\ t[x] = vote.count[x] + 1
        /\ \A z \in {"yes", "no"} : z # x => t[z] = vote.count[z]
    <3>1. CASE x = "yes"
      BY <2>1, <3>1 DEF Tallies
    <3>2. CASE x = "no"
      BY <2>1, <3>2 DEF Tallies
    <3> QED
      BY <3>1, <3>2
  <2>3. y = [vote EXCEPT !.count = t]
    OBVIOUS
  <2> HIDE DEF t, y
  <2> QED
    BY <1>2, <2>2, <2>3 DEF Votes
<1>5. /\ \A d \in Slots : f[d].slot = client[d].slot /\ (d # c => f[d] = client[d])
      /\ f[c].vote = x
  BY <1>2 DEF Clients
<1> HIDE DEF f, y
<1>6. /\ v.server = server /\ v.client = f /\ v.vote = y
  BY DEF Made
<1> HIDE DEF v
<1>7. InUse(v) = InUse(world)
  BY <1>5, <1>6, WorldIs DEF InUse
<1>8. /\ Cast(v, x) = Cast(world, x) \cup {c} /\ c \notin Cast(world, x)
      /\ \A z \in {"yes", "no"} : z # x => Cast(v, z) = Cast(world, z)
  <2>1. InUse(v) \ y.stale = InUse(world) \ vote.stale /\ c \in InUse(world) \ vote.stale
    BY <1>1, <1>3, <1>4, <1>7
  <2>2. \A d \in InUse(world) : d # c => f[d].vote = client[d].vote
    BY <1>5 DEF InUse
  <2> QED
    BY <1>1, <1>5, <1>6, <2>1, <2>2, WorldIs DEF Cast
<1>9. VoteOK(v)
  <2>1. \A z \in {"yes", "no"} : v.vote.count[z] = Cardinality(Cast(v, z)) + v.vote.gone[z]
    <3> TAKE z \in {"yes", "no"}
    <3>1. vote.count[z] = Cardinality(Cast(world, z)) + vote.gone[z]
      BY <1>1, <1>3, WorldIs DEF VoteOK
    <3>2. CASE z = x
      <4>1. IsFiniteSet(Cast(world, x)) /\ Cardinality(Cast(world, x)) \in Nat
        BY <1>1, SlotsFinite DEF Cast, InUse
      <4>2. Cardinality(Cast(v, x)) = Cardinality(Cast(world, x)) + 1
        BY <1>8, <4>1, FS_AddElement
      <4>3. vote.gone[x] \in Nat
        BY <1>2 DEF Votes, Tallies
      <4> QED
        BY <1>4, <1>6, <3>1, <3>2, <4>1, <4>2, <4>3
    <3>3. CASE z # x
      BY <1>4, <1>6, <1>8, <3>1, <3>3
    <3> QED
      BY <3>2, <3>3
  <2>2. \A d \in Slots :
          IF d \in v.vote.stale THEN v.client[d].slot # "free" /\ v.client[d].vote # "none"
          ELSE v.client[d].slot # "in_use" => v.client[d].vote = "none"
    <3> TAKE d \in Slots
    <3>1. CASE d = c
      BY <1>1, <1>3, <1>4, <1>5, <1>6, <3>1, WorldIs DEF InUse
    <3>2. CASE d # c
      BY <1>3, <1>4, <1>5, <1>6, <3>2, WorldIs DEF VoteOK
    <3> QED
      BY <3>1, <3>2
  <2> QED
    BY <1>1, <1>4, <1>6, <2>1, <2>2 DEF VoteOK
<1> QED
  BY <1>1, <1>4, <1>9, VotedMoves DEF f, v

(* A slot that nobody plays in is taken, or is left before the client has  *)
(* begun.                                                                  *)
LEMMA OffMoves ==
  ASSUME GInv, NEW c \in Slots \ InUse(world), NEW q \in Clients,
         q.slot # "in_use", q.vote = "none",
         client' = [client EXCEPT ![c] = q],
         vote' = [vote EXCEPT !.stale = vote.stale \ {c}],
         UNCHANGED <<server, level, base, dropped>>
  PROVE  Moves
<1> DEFINE f == [client EXCEPT ![c] = q]
           y == [vote EXCEPT !.stale = vote.stale \ {c}]
           v == Made(level, f, base, dropped, y)
<1>1. /\ Ours(world) /\ Inv(world) /\ client \in [Slots -> Clients] /\ vote \in Votes
      /\ level \in Levels /\ base \in Bases /\ dropped \in Drops
  BY WorldIs, OursIs DEF GInv
<1>2. Becomes(v)
  BY DEF Becomes, Made
<1>3. /\ f \in [Slots -> Clients] /\ f[c] = q /\ \A d \in Slots \ {c} : f[d] = client[d]
      /\ y \in Votes /\ y.stale = vote.stale \ {c} /\ y.cmd = vote.cmd
      /\ y.count = vote.count /\ y.gone = vote.gone /\ y.age = vote.age
  BY <1>1 DEF Votes
<1> HIDE DEF f, y
<1>4. /\ Ours(v) /\ v.server = server /\ v.level = level /\ v.client = f /\ v.base = base
      /\ v.dropped = dropped /\ v.vote = y
  BY <1>1, <1>3, MadeIs
<1> HIDE DEF v
<1>5. InUse(v) = InUse(world)
  BY <1>3, <1>4, WorldIs DEF InUse
<1>6. VoteOK(v)
  <2>1. \A d \in InUse(world) : f[d] = client[d] /\ (d \in y.stale <=> d \in vote.stale)
    BY <1>3 DEF InUse
  <2>2. \A z : Cast(v, z) = Cast(world, z)
    BY <1>4, <1>5, <2>1, WorldIs DEF Cast
  <2>3. \A d \in Slots :
          IF d \in v.vote.stale THEN v.client[d].slot # "free" /\ v.client[d].vote # "none"
          ELSE v.client[d].slot # "in_use" => v.client[d].vote = "none"
    BY <1>1, <1>3, <1>4, WorldIs DEF Inv, VoteOK
  <2> QED
    BY <1>1, <1>3, <1>4, <2>2, <2>3, WorldIs DEF Inv, VoteOK
<1>7. Inv(v) /\ SameAllowed(world, v)
  <2>1. \A d \in Slots \ {c} : v.client[d] = world.client[d]
    BY <1>3, <1>4, WorldIs
  <2> QED
    BY <1>1, <1>4, <1>5, <1>6, <2>1, SwapKeeps, WorldIs
<1>8. Players(v) = Players(world)
  <2>1. \A d \in InUse(world) : f[d] = client[d]
    BY <1>3 DEF InUse
  <2> QED
    BY <1>4, <1>5, <2>1, WorldIs DEF Players
<1> QED
  BY <1>2, <1>3, <1>4, <1>7, <1>8 DEF Moves, Fine, Entry, GInv

(* G_ClientConnect.                                                        *)
LEMMA ConnectMoves ==
  ASSUME GInv, NEW c \in Slots, ClientConnect(c)
  PROVE  Moves
<1> DEFINE q == [client[c] EXCEPT !.slot = "connecting", !.team = NoTeam, !.vote = "none", !.spectator = FALSE]
<1>1. /\ client[c].slot = "free" /\ client' = [client EXCEPT ![c] = q]
      /\ UNCHANGED <<server, level, base, dropped, vote>>
  BY DEF ClientConnect
<1>2. client[c] \in Clients /\ vote \in Votes /\ VoteOK(world)
  BY WorldIs, OursIs DEF GInv, Inv
<1>3. q \in Clients /\ q.slot # "in_use" /\ q.vote = "none"
  BY <1>2 DEF Clients
<1> HIDE DEF q
<1>4. c \notin vote.stale /\ c \notin InUse(world)
  BY <1>1, <1>2, WorldIs DEF VoteOK, InUse
<1>5. vote = [vote EXCEPT !.stale = vote.stale \ {c}]
  <2>1. vote.stale \ {c} = vote.stale
    BY <1>4
  <2> QED
    BY <1>2, <2>1 DEF Votes
<1>6. vote' = [vote EXCEPT !.stale = vote.stale \ {c}]
  BY <1>1, <1>5
<1> QED
  BY <1>1, <1>3, <1>4, <1>6, OffMoves

(* What an empty slot is left with.                                        *)
LEMMA NewcomerIs == Newcomer \in Clients /\ Newcomer.slot = "free" /\ Newcomer.vote = "none"
BY DEF Newcomer, Clients

(* G_ClientDisconnect: the flag is tossed, and the vote is counted as      *)
(* gone.                                                                   *)
LEMMA DisconnectMoves ==
  ASSUME GInv, NEW c \in Slots, NEW stuck \in BOOLEAN, ClientDisconnect(c, stuck)
  PROVE  Moves
<1>1. CASE /\ client[c].slot = "connecting"
           /\ client' = [client EXCEPT ![c] = Newcomer]
           /\ vote' = [vote EXCEPT !.stale = vote.stale \ {c}]
           /\ UNCHANGED <<server, level, base, dropped>>
  <2>1. c \notin InUse(world)
    BY <1>1, WorldIs DEF InUse
  <2>2. Newcomer \in Clients /\ Newcomer.slot # "in_use" /\ Newcomer.vote = "none"
    BY NewcomerIs
  <2> QED
    BY <1>1, <2>1, <2>2, OffMoves
<1>2. CASE client[c].slot = "in_use"
  <2> DEFINE w == TossFlag(world, c, stuck)
             x == client[c].vote
             counted == vote.cmd # "none" /\ x # "none" /\ c \notin vote.stale
             left == [w EXCEPT !.client[c] = Newcomer, !.vote.stale = w.vote.stale \ {c}]
             f == [w.client EXCEPT ![c] = Newcomer]
             y == [vote EXCEPT !.stale = vote.stale \ {c}]
             z == IF counted THEN [y EXCEPT !.gone[x] = y.gone[x] + 1] ELSE y
             v == Made(level, f, w.base, w.dropped, z)
  <2>1. Becomes(IF counted THEN [left EXCEPT !.vote.gone[x] = left.vote.gone[x] + 1] ELSE left)
    BY <1>2 DEF ClientDisconnect
  <2>2. Ours(world) /\ Inv(world) /\ c \in InUse(world) /\ vote \in Votes /\ client[c] \in Clients
    BY <1>2, WorldIs, OursIs DEF GInv, InUse
  <2>3. /\ Ours(w) /\ Inv(w) /\ InUse(w) = InUse(world) /\ Players(w) = Players(world)
        /\ w.server = server /\ w.level = level /\ w.vote = vote
        /\ \A d \in Slots \ {c} : w.client[d] = client[d]
        /\ w.client[c].flags = {} /\ SameSeat(client[c], w.client[c])
    BY <2>2, TossIs, WorldIs
  <2> HIDE DEF w
  <2>4. /\ w.client \in [Slots -> Clients] /\ w.base \in Bases /\ w.dropped \in Drops /\ level \in Levels
        /\ w = [server |-> server, level |-> level, client |-> w.client, base |-> w.base,
                dropped |-> w.dropped, vote |-> vote]
    BY <2>3, OursIs DEF Ours, Worlds
  <2>5. /\ f \in [Slots -> Clients] /\ f[c] = Newcomer
        /\ \A d \in Slots \ {c} : f[d] = w.client[d]
    BY <2>4, NewcomerIs
  <2>6. left = Made(level, f, w.base, w.dropped, y)
    <3> DEFINE a == [w EXCEPT !.client = f]
    <3>1. [w EXCEPT !.client[c] = Newcomer] = a
      OBVIOUS
    <3>2. /\ Ours(a) /\ a.client = f /\ a.server = server /\ a.level = level
          /\ a.base = w.base /\ a.dropped = w.dropped /\ a.vote = vote
      <4>1. Ours(w) /\ f \in [Slots -> Clients]
        BY <2>3, <2>5
      <4>2. /\ Ours(a) /\ a.client = f /\ a.server = w.server /\ a.level = w.level
            /\ a.base = w.base /\ a.dropped = w.dropped /\ a.vote = w.vote
        BY <4>1, SetClients
      <4> QED
        BY <2>3, <4>2
    <3>3. left = [a EXCEPT !.vote.stale = vote.stale \ {c}]
      BY <2>3, <3>1
    <3> HIDE DEF a, f, left
    <3>4. a = [server |-> a.server, level |-> a.level, client |-> a.client, base |-> a.base,
               dropped |-> a.dropped, vote |-> a.vote]
      BY <3>2 DEF Ours, Worlds
    <3>5. a = Made(level, f, w.base, w.dropped, vote)
      BY <3>2, <3>4 DEF Made
    <3> QED
      BY <3>3, <3>5 DEF Made
  <2> HIDE DEF left, f
  <2>7. left.vote = y
    BY <2>6 DEF Made
  <2>8. (IF counted THEN [left EXCEPT !.vote.gone[x] = left.vote.gone[x] + 1] ELSE left) = v
    <3>1. CASE counted
      BY <2>6, <2>7, <3>1 DEF Made
    <3>2. CASE ~counted
      BY <2>6, <3>2
    <3> QED
      BY <3>1, <3>2
  <2>9. /\ z \in Votes /\ z.stale = vote.stale \ {c} /\ z.cmd = vote.cmd /\ z.age = vote.age
        /\ z.count = vote.count
        /\ \A r \in {"yes", "no"} :
             z.gone[r] = IF counted /\ r = x THEN vote.gone[r] + 1 ELSE vote.gone[r]
        /\ ~counted => z.gone = vote.gone
    <3>1. /\ y \in Votes /\ y.stale = vote.stale \ {c} /\ y.cmd = vote.cmd /\ y.age = vote.age
          /\ y.count = vote.count /\ y.gone = vote.gone
      BY <2>2 DEF Votes
    <3>2. CASE ~counted
      <4>1. z = y
        BY <3>2
      <4> HIDE DEF z, y
      <4> QED
        BY <3>1, <3>2, <4>1
    <3>3. CASE counted
      <4> DEFINE t == [y.gone EXCEPT ![x] = y.gone[x] + 1]
      <4>1. x \in {"yes", "no"}
        BY <2>2, <3>3 DEF Clients
      <4>2. vote.gone \in Tallies /\ vote.gone.yes \in Nat /\ vote.gone.no \in Nat
        BY <2>2 DEF Votes, Tallies
      <4>3. /\ t \in Tallies
            /\ \A r \in {"yes", "no"} : t[r] = IF r = x THEN vote.gone[r] + 1 ELSE vote.gone[r]
        <5>1. CASE x = "yes"
          BY <3>1, <4>2, <5>1 DEF Tallies
        <5>2. CASE x = "no"
          BY <3>1, <4>2, <5>2 DEF Tallies
        <5> QED
          BY <4>1, <5>1, <5>2
      <4>4. z = [y EXCEPT !.gone = t]
        BY <3>3
      <4> HIDE DEF z, y, t
      <4> QED
        BY <3>1, <3>3, <4>3, <4>4 DEF Votes
    <3> QED
      BY <3>2, <3>3
  <2> HIDE DEF y, z
  <2>10. Becomes(v)
    BY <2>1, <2>8
  <2>11. /\ Ours(v) /\ v.server = server /\ v.level = level /\ v.client = f /\ v.base = w.base
         /\ v.dropped = w.dropped /\ v.vote = z
    BY <2>2, <2>4, <2>5, <2>9, MadeIs
  <2> HIDE DEF v
  <2>12. InUse(v) = InUse(world) \ {c}
    BY <2>2, <2>3, <2>5, <2>11, NewcomerIs, WorldIs DEF InUse
  <2>13. \A r : Cast(v, r) = Cast(world, r) \ {c}
    <3>1. \A d \in InUse(world) \ {c} : f[d].vote = client[d].vote
      BY <2>3, <2>5 DEF InUse
    <3> QED
      BY <2>9, <2>11, <2>12, <3>1, WorldIs DEF Cast
  <2>14. VoteOK(v)
    <3>1. VoteOK(world)
      BY <2>2 DEF Inv
    <3>2. ASSUME vote.cmd # "none", NEW r \in {"yes", "no"}
          PROVE  v.vote.count[r] = Cardinality(Cast(v, r)) + v.vote.gone[r]
      <4>1. vote.count[r] = Cardinality(Cast(world, r)) + vote.gone[r]
        BY <3>1, <3>2, WorldIs DEF VoteOK
      <4>2. IsFiniteSet(Cast(world, r)) /\ Cardinality(Cast(world, r)) \in Nat /\ vote.gone[r] \in Nat
        BY <2>2, SlotsFinite DEF Cast, InUse, Votes, Tallies
      <4>3. c \in Cast(world, r) <=> counted /\ r = x
        BY <2>2, <3>2, WorldIs DEF Cast
      <4>4. CASE counted /\ r = x
        <5>1. Cardinality(Cast(v, r)) = Cardinality(Cast(world, r)) - 1
          BY <2>13, <4>2, <4>3, <4>4, FS_RemoveElement
        <5>2. v.vote.gone[r] = vote.gone[r] + 1 /\ v.vote.count[r] = vote.count[r]
          BY <2>9, <2>11, <4>4
        <5> HIDE DEF counted
        <5> QED
          BY <4>1, <4>2, <5>1, <5>2
      <4>5. CASE ~(counted /\ r = x)
        <5>1. Cast(v, r) = Cast(world, r)
          BY <2>13, <4>3, <4>5
        <5> HIDE DEF counted
        <5> QED
          BY <2>9, <2>11, <4>1, <4>5, <5>1
      <4> QED
        BY <4>4, <4>5
    <3>3. vote.cmd = "none" => /\ Cast(v, "yes") = {} /\ Cast(v, "no") = {}
                               /\ v.vote.count = NoVote.count /\ v.vote.gone = NoVote.gone
      BY <2>9, <2>11, <2>13, <3>1, WorldIs DEF VoteOK
    <3>4. \A d \in Slots :
            IF d \in v.vote.stale THEN v.client[d].slot # "free" /\ v.client[d].vote # "none"
            ELSE v.client[d].slot # "in_use" => v.client[d].vote = "none"
      BY <2>3, <2>5, <2>9, <2>11, <3>1, NewcomerIs, WorldIs DEF VoteOK
    <3> QED
      BY <2>9, <2>11, <3>1, <3>2, <3>3, <3>4, WorldIs DEF VoteOK
  <2>15. Inv(v) /\ SameAllowed(w, v) /\ Players(v) \subseteq Players(w) \cup {c}
    <3>1. c \notin InUse(v)
      BY <2>12
    <3> QED
      BY <2>3, <2>5, <2>11, <2>14, <3>1, SwapKeeps
  <2>16. Players(v) \subseteq Players(world)
    BY <2>3, <2>12, <2>15 DEF Players
  <2>17. SameAllowed(world, v)
    BY <2>11, WorldIs DEF SameAllowed, Allowed
  <2> QED
    BY <2>9, <2>10, <2>11, <2>15, <2>16, <2>17 DEF Moves, Fine, Entry, GInv
<1> QED
  BY <1>1, <1>2 DEF ClientDisconnect

(* A client that has loaded the level is in the game, as a player or not.  *)
LEMMA BeginMoves ==
  ASSUME GInv, NEW c \in Slots, ClientBegin(c)
  PROVE  Moves
<1> DEFINE p == client[c]
           q == [InitClientPersistent(p) EXCEPT !.slot = "in_use"]
           w == [world EXCEPT !.client[c] = q]
           t == SmallestTeam(w)
           seated == IF level.match \/ level.rounds THEN SetAside(w, c)
                     ELSE IF ~TeamGame(level) THEN w
                     ELSE IF server.auto_join THEN AddClientToTeam(w, c, t, FALSE)
                     ELSE SetAside(w, c)
           r == seated.client[c]
           v == ClientRespawn(seated, c, TRUE)
           s == v.client[c]
<1>1. p.slot = "connecting" /\ Becomes(v)
  BY DEF ClientBegin
<1>2. Ours(world) /\ Inv(world) /\ p \in Clients /\ level \in Levels /\ c \notin InUse(world)
  BY <1>1, WorldIs, OursIs DEF GInv, InUse
<1>3. /\ q \in Clients /\ q.slot = "in_use" /\ q.vote = p.vote /\ q.flags = {} /\ q.team = p.team
  BY <1>2 DEF InitClientPersistent, Clients
<1> HIDE DEF q
<1>4. Alike(world, w, c) /\ w.client[c] = q
  BY <1>2, <1>3, AlikePut
<1> HIDE DEF w
<1>5. t \in Teams
  BY Smallest
<1> HIDE DEF t
<1>6. Ours(w) /\ w.level = level /\ ~Carries(w, c)
  BY <1>3, <1>4, WorldIs DEF Alike, Carries
<1> DEFINE aside == [q EXCEPT !.spectator = TRUE]
<1>7. /\ aside \in Clients /\ SameSeat(q, aside) /\ aside.spectator /\ aside.flags = {}
      /\ SetAside(w, c) = [w EXCEPT !.client[c] = aside]
  BY <1>3, <1>4 DEF Clients, SameSeat, SetAside
<1> HIDE DEF aside
<1>8. /\ Alike(w, seated, c) /\ r \in Clients /\ SameSeat(q, r)
      /\ level.match \/ level.rounds => r.spectator
      /\ Strict(world) /\ ~r.spectator /\ TeamGame(level) => r.team # NoTeam
  <2>1. CASE level.match \/ level.rounds \/ (TeamGame(level) /\ ~server.auto_join)
    <3>1. seated = [w EXCEPT !.client[c] = aside]
      BY <1>7, <2>1
    <3> HIDE DEF seated
    <3>2. Alike(w, seated, c) /\ r = aside
      BY <1>6, <1>7, <3>1, AlikePut
    <3> QED
      BY <1>7, <3>2
  <2>2. CASE ~(level.match \/ level.rounds) /\ ~TeamGame(level)
    <3>1. seated = w
      BY <2>2
    <3> HIDE DEF seated
    <3> QED
      BY <1>3, <1>4, <1>6, <2>2, <3>1 DEF Alike, SameSeat
  <2>3. CASE ~(level.match \/ level.rounds) /\ TeamGame(level) /\ server.auto_join
    <3>1. seated = AddClientToTeam(w, c, t, FALSE)
      BY <2>3
    <3>2. seated = IF MayJoin(w, c, t) THEN [w EXCEPT !.client[c] = Joined(q, t)] ELSE w
      BY <1>4, <1>5, <1>6, <3>1, JoinIsPut
    <3>3. ~MatchRunning(level)
      BY <1>2, <2>3, WorldIs DEF Inv, LevelOK, MatchRunning, Unset
    <3> HIDE DEF seated
    <3>4. CASE MayJoin(w, c, t)
      <4>1. Joined(q, t) \in Clients /\ SameSeat(q, Joined(q, t)) /\ Joined(q, t).team = t
        BY <1>3, <1>5, JoinedIs
      <4>2. seated = [w EXCEPT !.client[c] = Joined(q, t)]
        BY <3>2, <3>4
      <4>3. Alike(w, seated, c) /\ r = Joined(q, t)
        BY <1>6, <4>1, <4>2, AlikePut
      <4> QED
        BY <1>5, <2>3, <4>1, <4>3, Sides
    <3>5. CASE ~MayJoin(w, c, t)
      <4>1. seated = w /\ q.team = t
        BY <1>4, <1>6, <3>2, <3>3, <3>5 DEF MayJoin
      <4> QED
        BY <1>3, <1>4, <1>5, <1>6, <2>3, <4>1, Sides DEF Alike, SameSeat
    <3> QED
      BY <3>4, <3>5
  <2> QED
    BY <2>1, <2>2, <2>3
<1> HIDE DEF seated
<1>9. Alike(world, seated, c)
  BY <1>4, <1>8 DEF Alike
<1>10. Alike(world, v, c) /\ Reborn(r, s, level)
  BY <1>9, AlikeRespawn, WorldIs
<1>11. s = Respawned(r, level, TRUE)
  <2>1. seated.client \in [Slots -> Clients] /\ seated.level = level /\ Ours(seated)
    BY <1>9, OursIs, WorldIs DEF Alike
  <2> DEFINE z == Respawned(r, level, TRUE)
  <2>2. z \in Clients
    BY <1>2, <1>8, RespawnedIs DEF Reborn
  <2>3. v = [seated EXCEPT !.client[c] = z]
    BY <2>1 DEF ClientRespawn
  <2> HIDE DEF z, v
  <2>4. s = z
    BY <2>1, <2>2, <2>3, AlikePut
  <2> QED
    BY <2>4 DEF z
<1> HIDE DEF v
<1>12. NumOK(level, s)
  <2>1. level.match_num \in Nat /\ level.round_num \in Nat
    BY <1>2 DEF Levels
  <2>2. /\ r.spectator => s.match_num = 0 /\ s.round_num = 0
        /\ ~r.spectator => s.match_num = level.match_num /\ s.round_num = level.round_num
    BY <1>8, <1>11 DEF Respawned, InitClientPersistent, Clients
  <2> QED
    BY <2>1, <2>2 DEF NumOK
<1>13. /\ s.spectator = r.spectator /\ s.flags = {} /\ ~s.dead
       /\ s.spectator => s.team = NoTeam /\ ~s.ready
       /\ ~s.spectator => s.team = r.team
       /\ s.slot = "in_use" /\ s.vote = p.vote
  BY <1>3, <1>8, <1>10 DEF Reborn, SameSeat
<1>14. /\ Ours(v) /\ v.server = server /\ v.level = level /\ v.base = base
       /\ v.dropped = dropped /\ v.vote = vote
       /\ \A d \in Slots \ {c} : v.client[d] = client[d]
  BY <1>10, WorldIs DEF Alike
<1>15. ClientOK(v, s)
  <2>1. Strict(v) = Strict(world)
    BY <1>14, WorldIs DEF Strict, OneContest, Allowed
  <2>2. Strict(v) => TeamOK(level, s)
    BY <1>8, <1>13, <2>1 DEF TeamOK
  <2> QED
    BY <1>12, <1>13, <1>14, <2>2 DEF ClientOK, FlagOK
<1>16. InUse(v) = InUse(world) \cup {c}
  BY <1>13, <1>14, WorldIs DEF InUse
<1>17. VoteOK(v)
  <2>1. VoteOK(world)
    BY <1>2 DEF Inv
  <2>2. c \notin vote.stale => p.vote = "none"
    BY <1>1, <2>1, WorldIs DEF VoteOK
  <2>3. \A z \in {"yes", "no"} : Cast(v, z) = Cast(world, z)
    <3>1. \A d \in InUse(world) : v.client[d] = client[d]
      BY <1>2, <1>14 DEF InUse
    <3> QED
      BY <1>13, <1>14, <1>16, <2>2, <3>1, WorldIs DEF Cast
  <2>4. \A d \in Slots :
          IF d \in v.vote.stale THEN v.client[d].slot # "free" /\ v.client[d].vote # "none"
          ELSE v.client[d].slot # "in_use" => v.client[d].vote = "none"
    <3> TAKE d \in Slots
    <3>1. CASE d = c
      BY <1>13, <1>14, <2>1, <3>1, WorldIs DEF VoteOK
    <3>2. CASE d # c
      BY <1>14, <2>1, <3>2, WorldIs DEF VoteOK
    <3> QED
      BY <3>1, <3>2
  <2> QED
    BY <1>14, <2>1, <2>3, <2>4, WorldIs DEF VoteOK
<1>18. Inv(v) /\ SameAllowed(world, v) /\ Players(v) \subseteq Players(world) \cup {c}
  BY <1>2, <1>13, <1>14, <1>15, <1>17, SwapKeeps, WorldIs
<1>19. Entry(world, v)
  <2>1. level.match \/ level.rounds => c \notin Players(v)
    BY <1>8, <1>13 DEF Players
  <2> QED
    BY <1>18, <2>1, WorldIs DEF Entry
<1> QED
  BY <1>1, <1>14, <1>18, <1>19, Settled DEF v

(* The next level: nobody is in it yet, and cut votes are stale.           *)
LEMMA ExitMoves ==
  ASSUME GInv, ExitLevel
  PROVE  Moves
<1> DEFINE l == FreshLevel(server)
           f == [c \in Slots |-> [client[c] EXCEPT !.slot = IF client[c].slot = "free" THEN "free" ELSE "connecting",
                                                   !.dead = FALSE]]
           b == [t \in Teams |-> l.ctf]
           d == [t \in Teams |-> {}]
           y == [NoVote EXCEPT !.stale = {c \in Slots : client[c].vote # "none"}]
           v == Made(l, f, b, d, y)
<1>1. Ours(world) /\ Inv(world) /\ client \in [Slots -> Clients] /\ server \in ServerType
  BY WorldIs, OursIs DEF GInv
<1>2. Becomes(v)
  BY DEF ExitLevel, Becomes, Made
<1>3. /\ l \in Levels /\ l.match_time = Unset /\ l.round_time = Unset /\ ~l.warmup
      /\ ~l.start_match /\ ~l.start_round
      /\ (l.ctf => server.ctf) /\ (l.teams => server.teams)
      /\ (l.match => server.match) /\ (l.rounds => server.rounds)
  BY <1>1 DEF FreshLevel, ServerType, Levels, Times
<1> HIDE DEF l
<1>4. b \in Bases /\ d \in Drops /\ \A t \in Teams : b[t] = l.ctf /\ d[t] = {}
  BY <1>3 DEF Bases, Drops, Levels
<1>5. /\ f \in [Slots -> Clients]
      /\ \A c \in Slots : /\ f[c].slot = IF client[c].slot = "free" THEN "free" ELSE "connecting"
                          /\ f[c].vote = client[c].vote
  <2>1. \A c \in Slots :
          LET q == [client[c] EXCEPT !.slot = IF client[c].slot = "free" THEN "free" ELSE "connecting",
                                     !.dead = FALSE]
          IN q \in Clients /\ q.slot = (IF client[c].slot = "free" THEN "free" ELSE "connecting")
             /\ q.vote = client[c].vote
    BY <1>1 DEF Clients
  <2> QED
    BY <2>1
<1>6. /\ y \in Votes /\ y.cmd = "none" /\ y.age = 0 /\ y.count = NoVote.count /\ y.gone = NoVote.gone
      /\ y.stale = {c \in Slots : client[c].vote # "none"}
  BY DEF NoVote, Votes, Tallies
<1> HIDE DEF b, d, f, y
<1>7. /\ Ours(v) /\ v.server = server /\ v.level = l /\ v.client = f /\ v.base = b
      /\ v.dropped = d /\ v.vote = y
  BY <1>1, <1>3, <1>4, <1>5, <1>6, MadeIs
<1> HIDE DEF v
<1>8. InUse(v) = {}
  BY <1>5, <1>7 DEF InUse
<1>9. EachOK(v)
  BY <1>8 DEF EachOK
<1>10. OnePlace(v) /\ Somewhere(v)
  BY <1>4, <1>7, <1>8 DEF OnePlace, Somewhere
<1>11. LevelOK(v)
  BY <1>3, <1>7 DEF LevelOK, Allowed, Names
<1>12. VoteOK(v)
  <2>1. \A z : Cast(v, z) = {}
    BY <1>8 DEF Cast
  <2>2. \A c \in Slots :
          IF c \in v.vote.stale THEN v.client[c].slot # "free" /\ v.client[c].vote # "none"
          ELSE v.client[c].slot # "in_use" => v.client[c].vote = "none"
    BY <1>1, <1>5, <1>6, <1>7, WorldIs DEF Inv, VoteOK
  <2> QED
    BY <1>6, <1>7, <2>1, <2>2 DEF VoteOK
<1>13. SameAllowed(world, v)
  BY <1>7, WorldIs DEF SameAllowed, Allowed
<1>14. Entry(world, v)
  BY <1>8 DEF Entry, Players
<1>15. v.vote.age <= VoteTime
  BY <1>6, <1>7, BoundsAssumption
<1> QED
  BY <1>2, <1>7, <1>9, <1>10, <1>11, <1>12, <1>13, <1>14, <1>15 DEF Moves, Fine, Inv, v

-----------------------------------------------------------------------------
(* The game.                                                               *)

(* The game begins with no clients and the flags at home.                  *)
LEMMA InitInv ==
  ASSUME Init
  PROVE  GInv
<1>1. server \in ServerType /\ level = FreshLevel(server) /\ client = [c \in Slots |-> Newcomer]
      /\ base = [t \in Teams |-> level.ctf] /\ dropped = [t \in Teams |-> {}] /\ vote = NoVote
  BY ServersAssumption DEF Init, Slots
<1>2. /\ level \in Levels /\ level.match_time = Unset /\ level.round_time = Unset /\ ~level.warmup
      /\ ~level.start_match /\ ~level.start_round
      /\ (level.ctf => server.ctf) /\ (level.teams => server.teams)
      /\ (level.match => server.match) /\ (level.rounds => server.rounds)
  BY <1>1 DEF FreshLevel, ServerType, Levels, Times
<1>3. client \in [Slots -> Clients] /\ \A c \in Slots : client[c].slot = "free" /\ client[c].vote = "none"
  BY <1>1, NewcomerIs
<1>4. base \in Bases /\ dropped \in Drops /\ \A t \in Teams : base[t] = level.ctf /\ dropped[t] = {}
  BY <1>1, <1>2 DEF Bases, Drops, Levels
<1>5. /\ vote \in Votes /\ vote.cmd = "none" /\ vote.age = 0 /\ vote.stale = {}
      /\ vote.count = NoVote.count /\ vote.gone = NoVote.gone
  BY <1>1 DEF NoVote, Votes, Tallies
<1>6. Ours(world)
  BY <1>1, <1>2, <1>3, <1>4, <1>5 DEF Ours, Worlds, world
<1>7. InUse(world) = {}
  BY <1>3, WorldIs DEF InUse
<1>8. OnePlace(world) /\ Somewhere(world)
  BY <1>4, <1>7, WorldIs DEF OnePlace, Somewhere
<1>9. LevelOK(world)
  BY <1>2, WorldIs DEF LevelOK, Allowed, Names
<1>10. VoteOK(world)
  <2>1. \A z : Cast(world, z) = {}
    BY <1>7 DEF Cast
  <2> QED
    BY <1>3, <1>5, <2>1, WorldIs DEF VoteOK
<1>11. EachOK(world)
  BY <1>7 DEF EachOK
<1>12. vote.age <= VoteTime
  BY <1>5, BoundsAssumption
<1> QED
  BY <1>6, <1>8, <1>9, <1>10, <1>11, <1>12 DEF GInv, Inv

(* Every step of the game moves to a fine world.                           *)
LEMMA NextMoves ==
  ASSUME GInv, [Next]_gameVars
  PROVE  Moves
<1>1. \A c \in Slots : Stuck(c) \subseteq BOOLEAN
  BY DEF Stuck
<1>2. CASE Frame
  <2>1. PICK clicks \in SUBSET {c \in Slots : client[c].dead}, limit \in BOOLEAN, names \in Changes,
             flying, over \in IF level.rounds THEN BOOLEAN ELSE {FALSE} :
               GFrame(clicks, limit, names, flying, over)
    BY <1>2 DEF Frame
  <2>2. names \subseteq server.toggles /\ flying \in BOOLEAN /\ over \in BOOLEAN
    BY DEF Changes
  <2> QED
    BY <2>1, <2>2, FrameMoves
<1>3. CASE Coming
  BY <1>3, ConnectMoves, BeginMoves DEF Coming
<1>4. CASE Leaving
  BY <1>1, <1>4, DisconnectMoves DEF Leaving
<1>5. CASE Killing
  BY <1>1, <1>5, DieMoves DEF Killing
<1>6. CASE Joining
  BY <1>1, <1>6, SpectateMoves, TeamMoves DEF Joining
<1>7. CASE Readying
  BY <1>7, ReadyingMoves DEF Readying
<1>8. CASE Voting
  BY <1>8, CastVoteMoves, CallVoteMoves DEF Voting
<1>9. CASE Carrying
  BY <1>1, <1>9, TouchBaseMoves, TouchDroppedMoves, DropMoves DEF Carrying
<1>10. CASE Landing
  BY <1>10, LieMoves DEF Landing
<1>11. CASE Returning
  BY <1>11, LieMoves DEF Returning
<1>12. CASE ExitLevel
  BY <1>12, ExitMoves
<1>13. CASE UNCHANGED gameVars
  <2>1. Becomes(world)
    BY <1>13, WorldIs DEF gameVars, Becomes
  <2>2. Fine(world, world)
    BY WorldIs DEF GInv, Fine, SameAllowed, Entry
  <2> QED
    BY <2>1, <2>2 DEF Moves
<1> QED
  BY <1>2, <1>3, <1>4, <1>5, <1>6, <1>7, <1>8, <1>9, <1>10, <1>11, <1>12, <1>13 DEF Next

(* The invariant holds in every state of the game. *)
THEOREM GameInv == Spec => []GInv
<1>1. Init => GInv
  BY InitInv
<1>2. GInv /\ [Next]_gameVars => GInv'
  BY NextMoves, MovesKeep
<1> QED
  BY <1>1, <1>2, PTL DEF Spec

(* May, said of the world. *)
LEMMA MayIs ==
  ASSUME NEW name
  PROVE  May(name) = Allowed(world, name)
BY WorldIs DEF May, Allowed

(* Every variable of the game stays in its domain: a change of g_level or   *)
(* of a client by any handler or frame included.                            *)
THEOREM GameTypes == Spec => []TypeOK
<1>1. GInv => TypeOK
  <2> SUFFICES ASSUME GInv PROVE TypeOK
    OBVIOUS
  <2>1. /\ server \in ServerType /\ level \in Levels /\ client \in [Slots -> Clients]
        /\ base \in Bases /\ dropped \in Drops /\ vote \in Votes /\ vote.age <= VoteTime
    BY OursIs, WorldIs DEF GInv
  <2>2. vote.age \in 0 .. VoteTime
    BY <2>1, BoundsAssumption DEF Votes
  <2>3. vote \in [cmd: {"none", "map", "restart"}, age: 0 .. VoteTime,
                  count: Tallies, gone: Tallies, stale: SUBSET Slots]
    BY <2>1, <2>2 DEF Votes
  <2> QED
    BY <2>1, <2>3 DEF TypeOK, Levels, Clients, Bases, Drops
<1> QED
  BY <1>1, GameInv, PTL

(* Whoever carries a flag plays for the other team: G_TossFlag, which looks *)
(* for the flag of the opposite team only, always finds it.                 *)
THEOREM GameCarriers == Spec => []CarriedByEnemy
<1>1. GInv => CarriedByEnemy
  <2> SUFFICES ASSUME GInv, NEW c \in InUse(world), NEW t \in client[c].flags
               PROVE  ~client[c].spectator /\ client[c].team = Other[t]
    BY DEF CarriedByEnemy
  <2>1. FlagOK(level, client[c])
    BY WorldIs DEF GInv, Inv, EachOK, ClientOK
  <2>2. client[c].team \in Teams /\ t = Other[client[c].team] /\ ~client[c].spectator
    BY <2>1 DEF FlagOK
  <2>3. \A u \in Teams : Other[Other[u]] = u
    BY DEF Teams, Other
  <2> QED
    BY <2>2, <2>3
<1> QED
  BY <1>1, GameInv, PTL

(* A flag is never in two places, and never lost while no match and no      *)
(* rounds may be played: through thefts, captures, drops, deaths, changes   *)
(* of team, disconnects, votes, and restarts by the administrator.          *)
THEOREM GameFlags == Spec => []FlagsInOnePlace
<1>1. GInv => FlagsInOnePlace
  <2> SUFFICES ASSUME GInv, NEW t \in Teams
               PROVE  /\ Places(t) <= 1
                      /\ level.ctf /\ ~May("match") /\ ~May("rounds") => Places(t) = 1
                      /\ ~level.ctf => Places(t) = 0
    BY DEF FlagsInOnePlace
  <2>1. /\ OnePlace(world) /\ Somewhere(world)
        /\ \A c \in InUse(world) : FlagOK(level, client[c])
    BY WorldIs DEF GInv, Inv, EachOK, ClientOK
  <2>2. Quiet(world) <=> ~May("match") /\ ~May("rounds")
    BY MayIs DEF Quiet
  <2>3. base[t] \in BOOLEAN
    BY OursIs, WorldIs DEF GInv, Bases
  <2>4. ~level.ctf => ~base[t] /\ dropped[t] = {} /\ Carriers(t) = {}
    BY <2>1, WorldIs DEF OnePlace, FlagOK, Carriers
  <2>5. Quiet(world) /\ level.ctf => base[t] \/ dropped[t] # {} \/ Carriers(t) # {}
    BY <2>1, WorldIs DEF Somewhere, Carriers
  <2>6. /\ base[t] => dropped[t] = {} /\ Carriers(t) = {}
        /\ dropped[t] # {} => Carriers(t) = {}
        /\ dropped[t] = {} \/ \E x : dropped[t] = {x}
        /\ Carriers(t) = {} \/ \E c : Carriers(t) = {c}
    <3>1. /\ \A c, d \in Carriers(t) : c = d
          /\ \A c \in Carriers(t) : ~base[t] /\ dropped[t] = {}
          /\ base[t] => dropped[t] = {}
          /\ \A x, y \in dropped[t] : x = y
      BY <2>1, WorldIs DEF OnePlace, Carriers
    <3>2. dropped[t] # {} => \E x : dropped[t] = {x}
      BY <3>1
    <3>3. Carriers(t) # {} => \E c : Carriers(t) = {c}
      BY <3>1
    <3> QED
      BY <3>1, <3>2, <3>3
  <2>7. /\ Cardinality(dropped[t]) = IF dropped[t] = {} THEN 0 ELSE 1
        /\ Cardinality(Carriers(t)) = IF Carriers(t) = {} THEN 0 ELSE 1
    BY <2>6, FS_EmptySet, FS_Singleton
  <2> QED
    BY <2>2, <2>3, <2>4, <2>5, <2>6, <2>7 DEF Places
<1> QED
  BY <1>1, GameInv, PTL

(* The counters of a vote are the votes of those present and of those who   *)
(* have left since, and between votes nobody has one.                       *)
THEOREM GameVotes == Spec => []VotesCounted
<1>1. GInv => VotesCounted
  <2> SUFFICES ASSUME GInv PROVE VotesCounted
    OBVIOUS
  <2>1. VoteOK(world)
    BY DEF GInv, Inv
  <2>2. \A v : Cast(world, v) = {c \in InUse(world) \ vote.stale : client[c].vote = v}
    BY WorldIs DEF Cast
  <2> QED
    BY <2>1, <2>2, WorldIs DEF VoteOK, VotesCounted
<1> QED
  BY <1>1, GameInv, PTL

(* In a team game every player has a team and no spectator has one, if the  *)
(* server may not be set to both match and rounds, nor to both ctf and      *)
(* rounds: of those it asks one team game where it means another.           *)
THEOREM GameTeams ==
  Spec => [](~(May("match") /\ May("rounds")) /\ ~(May("ctf") /\ May("rounds")) => PlayersHaveTeams)
<1>1. GInv => (~(May("match") /\ May("rounds")) /\ ~(May("ctf") /\ May("rounds")) => PlayersHaveTeams)
  <2> SUFFICES ASSUME GInv, ~(May("match") /\ May("rounds")), ~(May("ctf") /\ May("rounds")),
                      NEW c \in InUse(world)
               PROVE  IF client[c].spectator
                      THEN client[c].team = NoTeam /\ ~client[c].ready /\ ~client[c].dead
                      ELSE TeamGame(level) => client[c].team # NoTeam
    BY DEF PlayersHaveTeams
  <2>1. Strict(world)
    BY MayIs DEF Strict, OneContest
  <2> QED
    BY <2>1, WorldIs DEF GInv, Inv, EachOK, ClientOK, TeamOK
<1> QED
  BY <1>1, GameInv, PTL

(* Nobody enters a match or round that is running, by whatever command,     *)
(* death, respawn, arrival or change of the rules, if the server may not be *)
(* set to both match and rounds.                                            *)
THEOREM GameEntry == Spec /\ ~(May("match") /\ May("rounds")) => NoLateEntry
<1> DEFINE One == ~(May("match") /\ May("rounds"))
           In == {c \in Slots' : client'[c].slot = "in_use" /\ ~client'[c].spectator}
           Goes == \/ level.match /\ MatchRunning(level) /\ MatchRunning(level')
                   \/ level.rounds /\ RoundRunning(level) /\ RoundRunning(level')
<1>1. One <=> OneContest(world)
  BY MayIs DEF OneContest
<1>2. GInv /\ One /\ [Next]_gameVars => One'
  <2> SUFFICES ASSUME GInv, [Next]_gameVars
               PROVE  One' = One
    OBVIOUS
  <2>1. Allowed(world, "match")' = Allowed(world, "match") /\ Allowed(world, "rounds")' = Allowed(world, "rounds")
    BY NextMoves, MovesKeep DEF Names
  <2> QED
    BY <2>1 DEF May, Allowed, world
<1>3. GInv /\ One /\ [Next]_gameVars => [Goes => In \subseteq Players(world)]_gameVars
  <2> SUFFICES ASSUME GInv, One, [Next]_gameVars, Goes
               PROVE  In \subseteq Players(world)
    OBVIOUS
  <2>1. Entry(world, world') /\ Players(world') = In
    BY <1>1, NextMoves, MovesKeep
  <2>2. (world').level = level'
    BY DEF world
  <2> QED
    BY <2>1, <2>2, WorldIs DEF Entry
<1>4. Spec /\ One => [][Goes => In \subseteq Players(world)]_gameVars
  <2> HIDE DEF One, Goes, In
  <2> QED
    BY <1>2, <1>3, GameInv, PTL DEF Spec
<1> QED
  BY <1>4, PTL DEF NoLateEntry
=============================================================================
