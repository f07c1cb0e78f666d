----------------------------- MODULE GamePlayers -----------------------------
(****************************************************************************)
(* The players of the game module (src/src/game/default): the slots of      *)
(* clients with what persists in them across respawns, their teams, the     *)
(* flags they carry, and the flags themselves.  The handlers of the game    *)
(* change several of these in a row; they are operators from worlds to      *)
(* worlds, and the steps of the modules that extend this one are built of   *)
(* them.                                                                    *)
(****************************************************************************)
EXTENDS Integers, FiniteSets

CONSTANTS
  Servers,    \* the settings a server may be started with (see ServerType)
  CountDown,  \* frames between "starting in 10 seconds" and the start
  VoteTime,   \* frames a vote may last (MAX_VOTE_TIME)
  MaxNum,     \* bound: restarts during a match or round that are explored
  MaxVotes    \* bound: votes cast in one vote, of those who left and came back too

ASSUME BoundsAssumption ==
  /\ CountDown \in Nat \ {0}
  /\ VoteTime \in Nat \ {0}
  /\ MaxNum \in Nat
  /\ MaxVotes \in Nat \ {0}

Teams   == {"good", "evil"}
NoTeam  == "none"
Other   == [t \in Teams |-> IF t = "good" THEN "evil" ELSE "good"]
Unset   == -1   \* match_time, round_time or vote_time is zero

(* slots is sv_max_clients; ctf, teams, match and rounds are the variables  *)
(* read by G_worldspawn (0 or 1: no balanced teams), and toggles are those  *)
(* an administrator changes while the level is running.  Of gameplay only   *)
(* that a change of it restarts the game is modelled.                       *)
ServerType ==
  [slots: Nat \ {0}, auto_join: BOOLEAN, voting: BOOLEAN, ctf: BOOLEAN, teams: BOOLEAN,
   match: BOOLEAN, rounds: BOOLEAN, toggles: SUBSET {"gameplay", "ctf", "teams", "match", "rounds"}]

ASSUME ServersAssumption == Servers \subseteq ServerType

VARIABLES
  server,   \* the settings
  level,    \* g_level: rules in force, match and round; times count the frames left
  client,   \* slot -> what G_ClientRespawn keeps or resets
  base,     \* team -> whether its static flag is visible (no SVF_NO_CLIENT)
  dropped,  \* team -> dropped flags of that team in the world
  vote      \* the vote in progress; gone counts the votes of those who left since,
            \* stale are the clients whose vote is one the end of a level cut short

gameVars == <<server, level, client, base, dropped, vote>>

world == [server |-> server, level |-> level, client |-> client, base |-> base,
          dropped |-> dropped, vote |-> vote]

Becomes(w) ==
  /\ level' = w.level
  /\ client' = w.client
  /\ base' = w.base
  /\ dropped' = w.dropped
  /\ vote' = w.vote
  /\ server' = w.server

Slots == 1 .. server.slots

(* A slot is free, connecting (between G_ClientConnect, or a change of      *)
(* level, and G_ClientBegin) or in_use.                                     *)
InUse(w)   == {c \in Slots : w.client[c].slot = "in_use"}
Players(w) == {c \in InUse(w) : ~w.client[c].spectator}

(* Who is not in the good team is counted as one of the evil team. *)
TeamOf(w, t) == {c \in Players(w) : (w.client[c].team = "good") <=> (t = "good")}

TeamGame(l) == l.teams \/ l.ctf

(* match_time and round_time compared with the time of the level. *)
MatchRunning(l) == l.match_time = 0
RoundRunning(l) == l.round_time = 0

Newcomer == [slot |-> "free", team |-> NoTeam, spectator |-> FALSE, ready |-> FALSE,
             dead |-> FALSE, match_num |-> 0, round_num |-> 0, vote |-> "none", flags |-> {}]

(* ctf overrides teams, and rounds override match. *)
FreshLevel(s) ==
  [ctf |-> s.ctf, teams |-> s.teams /\ ~s.ctf, match |-> s.match /\ ~s.rounds, rounds |-> s.rounds,
   warmup |-> FALSE, intermission |-> FALSE,
   match_time |-> Unset, start_match |-> FALSE, match_num |-> 0,
   round_time |-> Unset, start_round |-> FALSE, round_num |-> 0]

NoVote == [cmd |-> "none", age |-> 0, count |-> [yes |-> 0, no |-> 0],
           gone |-> [yes |-> 0, no |-> 0], stale |-> {}]

Init ==
  /\ server \in Servers
  /\ level = FreshLevel(server)
  /\ client = [c \in 1 .. server.slots |-> Newcomer]
  /\ base = [t \in Teams |-> level.ctf]
  /\ dropped = [t \in Teams |-> {}]
  /\ vote = NoVote

-----------------------------------------------------------------------------
(* Mutant of InitClientPersistent: nothing is taken away. *)
InitClientPersistentNot(p) == p

(* Of what a client has only the flags are modelled. *)
InitClientPersistent(p) == [p EXCEPT !.flags = {}]

(* A spectator loses team, readiness and inventory; a player loses the      *)
(* inventory and is counted to the current match and round l.  G_KillBox    *)
(* may kill who stands on the spot, which Die of that player covers.        *)
Respawned(p, l, voluntary) ==
  IF p.spectator
  THEN [InitClientPersistent(p) EXCEPT !.dead = FALSE, !.team = NoTeam, !.ready = FALSE,
                                       !.match_num = IF voluntary THEN 0 ELSE p.match_num,
                                       !.round_num = IF voluntary THEN 0 ELSE p.round_num]
  ELSE [InitClientPersistent(p) EXCEPT !.dead = FALSE, !.match_num = l.match_num,
                                       !.round_num = l.round_num]

ClientRespawn(w, c, voluntary) ==
  [w EXCEPT !.client[c] = Respawned(w.client[c], w.level, voluntary)]

(* Respawn everybody of a set, none of which looks at the others. *)
RespawnAll(w, S) ==
  [w EXCEPT !.client = [c \in Slots |-> IF c \in S THEN Respawned(w.client[c], w.level, FALSE)
                                                   ELSE w.client[c]]]

(* The flag goes back to its base: the static one is shown again. *)
ResetFlag(w, t) == IF w.level.ctf THEN [w EXCEPT !.base[t] = TRUE] ELSE w

(* What the player carries of the other team's is dropped: a new entity the *)
(* dropper may not touch before it has landed, or, if there is no room for  *)
(* it, the flag returns at once.                                            *)
Carries(w, c) ==
  /\ w.level.ctf
  /\ w.client[c].team # NoTeam
  /\ Other[w.client[c].team] \in w.client[c].flags

TossFlag(w, c, stuck) ==
  IF ~Carries(w, c) THEN w
  ELSE LET t == Other[w.client[c].team]
           tossed == [w EXCEPT !.client[c].flags = @ \ {t}]
       IN IF stuck THEN ResetFlag(tossed, t)
          ELSE [tossed EXCEPT !.dropped[t] = @ \cup {[owner |-> c, landed |-> FALSE]}]

(* Whether the team of a client would be changed by G_AddClientToTeam. *)
MayJoin(w, c, t) == ~MatchRunning(w.level) /\ w.client[c].team # t

AddClientToTeam(w, c, t, stuck) ==
  IF ~MayJoin(w, c, t) THEN w
  ELSE LET tossed == IF w.client[c].spectator THEN w ELSE TossFlag(w, c, stuck) IN
       [tossed EXCEPT !.client[c] = [tossed.client[c] EXCEPT !.team = t, !.spectator = FALSE, !.ready = FALSE]]

SmallestTeam(w) ==
  LET Count(t) == Cardinality({c \in InUse(w) : w.client[c].team = t}) IN
  IF Count("good") < Count("evil") THEN "good" ELSE "evil"

(* Mutant of SetAside: the client stays as it is. *)
SetAsideNot(w, c) == w

(* The client is made to spectate. *)
SetAside(w, c) == [w EXCEPT !.client[c].spectator = TRUE]

-----------------------------------------------------------------------------
ClientConnect(c) ==
  /\ client[c].slot = "free"
  /\ client' = [client EXCEPT ![c] =
       [client[c] EXCEPT !.slot = "connecting", !.team = NoTeam, !.vote = "none", !.spectator = FALSE]]
  /\ UNCHANGED <<server, level, base, dropped, vote>>

(* A client has finished loading the level. *)
ClientBegin(c) ==
  /\ client[c].slot = "connecting"
  /\ LET w == [world EXCEPT !.client[c] = [InitClientPersistent(client[c]) EXCEPT !.slot = "in_use"]]
         seated == IF level.match \/ level.rounds THEN SetAside(w, c)
                   ELSE IF ~TeamGame(level) THEN w
                   ELSE IF server.auto_join THEN AddClientToTeam(w, c, SmallestTeam(w), FALSE)
                   ELSE SetAside(w, c)
     IN Becomes(ClientRespawn(seated, c, TRUE))

(* Before it has begun the game module is not told of a disconnect.  What    *)
(* is left in the slot is not read before the next client of it connects    *)
(* and begins, which sets it.                                               *)
ClientDisconnect(c, stuck) ==
  \/ /\ client[c].slot = "connecting"
     /\ client' = [client EXCEPT ![c] = Newcomer]
     /\ vote' = [vote EXCEPT !.stale = @ \ {c}]
     /\ UNCHANGED <<server, level, base, dropped>>
  \/ /\ client[c].slot = "in_use"
     /\ LET w == TossFlag(world, c, stuck)
            v == client[c].vote
            counted == vote.cmd # "none" /\ v # "none" /\ c \notin vote.stale
            left == [w EXCEPT !.client[c] = Newcomer, !.vote.stale = @ \ {c}]
        IN Becomes(IF counted THEN [left EXCEPT !.vote.gone[v] = @ + 1] ELSE left)

(* Somebody is killed, or the client has asked for it. *)
ClientDie(c, stuck) ==
  /\ c \in Players(world) /\ ~client[c].dead /\ ~level.intermission
  /\ LET w == IF level.warmup THEN world ELSE TossFlag(world, c, stuck)
     IN Becomes([w EXCEPT !.client[c].dead = TRUE])

(* The commands of a client, which it may give unless the level is over. *)
MayCommand(c) == c \in InUse(world) /\ ~level.intermission

(* With rounds the team game decides who asks G_AddClientToTeam: not ctf. *)
AddClientToRound(c, t, stuck) ==
  /\ ~RoundRunning(level)
  /\ IF level.teams
     THEN /\ MayJoin(world, c, t)
          /\ Becomes(ClientRespawn(AddClientToTeam(world, c, t, stuck), c, TRUE))
     ELSE /\ client[c].spectator
          /\ Becomes(ClientRespawn([world EXCEPT !.client[c].spectator = FALSE], c, TRUE))

Team_f(c, t, stuck) ==
  /\ MayCommand(c)
  /\ IF level.rounds
     THEN AddClientToRound(c, t, stuck)
     ELSE /\ TeamGame(level)
          /\ MayJoin(world, c, t)
          /\ Becomes(ClientRespawn(AddClientToTeam(world, c, t, stuck), c, TRUE))

(* Mutant of Underway: matches are overlooked. *)
UnderwayRound == level.round_time # Unset

(* Spectators may not join then. *)
Underway == level.match_time # Unset \/ level.round_time # Unset

Spectate_f(c, stuck) ==
  /\ MayCommand(c)
  /\ client[c].spectator => ~Underway
  /\ client[c].spectator /\ TeamGame(level) => server.auto_join
  /\ LET w == IF ~client[c].spectator THEN TossFlag(world, c, stuck)
              ELSE IF TeamGame(level) THEN AddClientToTeam(world, c, SmallestTeam(world), stuck)
              ELSE world
     IN Becomes(ClientRespawn([w EXCEPT !.client[c].spectator = ~client[c].spectator], c, TRUE))

DropFlag(c, stuck) ==
  /\ MayCommand(c) /\ ~client[c].dead
  /\ Carries(world, c)
  /\ Becomes(TossFlag(world, c, stuck))

-----------------------------------------------------------------------------
(* Who may pick up anything: a live player, not in warmup (G_TouchItem).    *)
MayTouch(c) ==
  c \in Players(world) /\ ~client[c].dead /\ ~level.warmup /\ ~level.intermission

(* Mutant of Hidden: never. *)
HiddenNever(t) == FALSE

(* The static flag has been taken, or is carried or dropped. *)
Hidden(t) == ~base[t]

(* A player at the base of team t.  Its own flag: a capture if the other    *)
(* one is carried; the static flag is solid even while it is not shown.     *)
TouchBase(c, t) ==
  /\ MayTouch(c) /\ level.ctf /\ client[c].team # NoTeam
  /\ \/ /\ client[c].team = t
        /\ Other[t] \in client[c].flags
        /\ client' = [client EXCEPT ![c].flags = @ \ {Other[t]}]
        /\ base' = [base EXCEPT ![Other[t]] = TRUE]
     \/ /\ client[c].team # t
        /\ ~Hidden(t)
        /\ client' = [client EXCEPT ![c].flags = @ \cup {t}]
        /\ base' = [base EXCEPT ![t] = FALSE]
  /\ UNCHANGED <<server, level, dropped, vote>>

(* A player at a dropped flag: its own returns, the enemy's is taken. *)
TouchDropped(c, t, d) ==
  /\ MayTouch(c) /\ level.ctf /\ client[c].team # NoTeam
  /\ d.landed \/ d.owner # c
  /\ dropped' = [dropped EXCEPT ![t] = @ \ {d}]
  /\ IF client[c].team = t
     THEN /\ base' = [base EXCEPT ![t] = TRUE]
          /\ UNCHANGED client
     ELSE /\ client' = [client EXCEPT ![c].flags = @ \cup {t}]
          /\ UNCHANGED base
  /\ UNCHANGED <<server, level, vote>>

(* G_DropItem_Think finds the flag on the ground. *)
DropItemThink(t, d) ==
  /\ ~d.landed
  /\ dropped' = [dropped EXCEPT ![t] = (@ \ {d}) \cup {[d EXCEPT !.landed = TRUE]}]
  /\ UNCHANGED <<server, level, client, base, vote>>

(* It has lain there for 30 seconds, or fell on a trigger_hurt. *)
ReturnFlag(t, d) ==
  /\ level.ctf
  /\ Becomes([ResetFlag(world, t) EXCEPT !.dropped[t] = @ \ {d}])
=============================================================================
