-------------------------------- MODULE Game ---------------------------------
(****************************************************************************)
(* The game module as the server drives it: clients come and go, give       *)
(* commands, move, are killed, and frames are run, in any order; and what   *)
(* must hold of players, flags, matches, rounds and votes throughout.       *)
(****************************************************************************)
EXTENDS GameRules

(* MaxNum bounds the restarts of a match or a round that are explored. *)
MayRestart == level.match_num + level.round_num < MaxNum

Changes == IF MayRestart THEN {{}} \cup {{name} : name \in server.toggles} ELSE {{}}

Frame ==
  \E clicks \in SUBSET {c \in Slots : client[c].dead}, limit \in BOOLEAN, names \in Changes,
     flying, over \in IF level.rounds THEN BOOLEAN ELSE {FALSE} :
       GFrame(clicks, limit, names, flying, over)

(* Only what is dropped can be in a bad spot. *)
Stuck(c) == IF Carries(world, c) THEN BOOLEAN ELSE {FALSE}

Coming == \E c \in Slots : ClientConnect(c) \/ ClientBegin(c)

Leaving == \E c \in Slots : \E stuck \in Stuck(c) : ClientDisconnect(c, stuck)

Killing == \E c \in Slots : \E stuck \in Stuck(c) : ClientDie(c, stuck)

Joining ==
  \E c \in Slots : \E stuck \in Stuck(c) : Spectate_f(c, stuck) \/ \E t \in Teams : Team_f(c, t, stuck)

Readying == \E c \in Slots : Ready_f(c) \/ Unready_f(c)

Voting ==
  \E c \in Slots :
    \/ \E v \in {"yes", "no"} : CastVote(c, v)
    \/ \E cmd \in {"map"} : CallVote(c, cmd)
    \/ MayRestart /\ CallVote(c, "restart")

Carrying ==
  \/ \E c \in Slots, t \in Teams : TouchBase(c, t) \/ \E d \in dropped[t] : TouchDropped(c, t, d)
  \/ \E c \in Slots : \E stuck \in Stuck(c) : DropFlag(c, stuck)

Landing   == \E t \in Teams : \E d \in dropped[t] : DropItemThink(t, d)
Returning == \E t \in Teams : \E d \in dropped[t] : ReturnFlag(t, d)

Next ==
  \/ Frame \/ Coming \/ Leaving \/ Killing \/ Joining \/ Readying
  \/ Voting \/ Carrying \/ Landing \/ Returning \/ ExitLevel

Spec == Init /\ [][Next]_gameVars

-----------------------------------------------------------------------------
Times == {Unset} \cup 0 .. CountDown
Tallies == [yes: Nat, no: Nat]

(* Every variable of the game stays in its domain. *)
TypeOK ==
  /\ server \in ServerType
  /\ level \in [ctf: BOOLEAN, teams: BOOLEAN, match: BOOLEAN, rounds: BOOLEAN, warmup: BOOLEAN,
                intermission: BOOLEAN, match_time: Times, start_match: BOOLEAN, match_num: Nat,
                round_time: Times, start_round: BOOLEAN, round_num: Nat]
  /\ client \in [Slots -> [slot: {"free", "connecting", "in_use"}, team: Teams \cup {NoTeam},
                           spectator: BOOLEAN, ready: BOOLEAN, dead: BOOLEAN, match_num: Nat,
                           round_num: Nat, vote: {"none", "yes", "no"}, flags: SUBSET Teams]]
  /\ base \in [Teams -> BOOLEAN]
  /\ dropped \in [Teams -> SUBSET [owner: Slots, landed: BOOLEAN]]
  /\ vote \in [cmd: {"none", "map", "restart"}, age: 0 .. VoteTime,
               count: Tallies, gone: Tallies, stale: SUBSET Slots]

(* Whoever carries a flag plays for the other team.  The flag is tossed     *)
(* only as the one of the team opposite to the carrier's, so a carrier who  *)
(* had changed sides, or had none, could never lose it.                     *)
CarriedByEnemy ==
  \A c \in InUse(world) : \A t \in client[c].flags :
    ~client[c].spectator /\ client[c].team = Other[t]

Carriers(t) == {c \in InUse(world) : t \in client[c].flags}

Places(t) == (IF base[t] THEN 1 ELSE 0) + Cardinality(dropped[t]) + Cardinality(Carriers(t))

(* Which of the variables ctf, teams, match and rounds may be set, now or    *)
(* after changes by the administrator.                                      *)
May(name) == server[name] \/ name \in server.toggles

(* However it is stolen, dropped, returned, captured, or lost by a player   *)
(* who dies, leaves or changes teams, a flag is never in two places, and on *)
(* a server without matches and rounds it is always in one while the game   *)
(* is ctf.  With a match or rounds it may be lost until the next restart:   *)
(* who dies in warmup keeps the flag and loses it by respawning, and so     *)
(* does who carries it when a match or round starts, even when match has    *)
(* been unset during the countdown, which leaves the start of it armed.     *)
FlagsInOnePlace ==
  \A t \in Teams :
    /\ Places(t) <= 1
    /\ level.ctf /\ ~May("match") /\ ~May("rounds") => Places(t) = 1
    /\ ~level.ctf => Places(t) = 0

(* In a team game every player has a team, which the end of a round and     *)
(* the count of the ready rely on, and spectators have none.                *)
PlayersHaveTeams ==
  \A c \in InUse(world) :
    IF client[c].spectator
    THEN client[c].team = NoTeam /\ ~client[c].ready /\ ~client[c].dead
    ELSE TeamGame(level) => client[c].team # NoTeam

(* While a match or a round is running nobody enters it: not by connecting, *)
(* joining, changing teams, being respawned or having been killed.          *)
NoLateEntry ==
  [][ (\/ level.match /\ MatchRunning(level) /\ MatchRunning(level')
       \/ level.rounds /\ RoundRunning(level) /\ RoundRunning(level'))
      => {c \in Slots' : client'[c].slot = "in_use" /\ ~client'[c].spectator} \subseteq Players(world)
    ]_gameVars

(* The counters of a vote are the votes of those present, and of those who  *)
(* have left since; between votes nobody has one.  The exception are those  *)
(* whose vote the end of a level cut short: they cannot vote until a vote   *)
(* somebody else calls is over.                                             *)
VotesCounted ==
  LET Cast(v) == {c \in InUse(world) \ vote.stale : client[c].vote = v} IN
  IF vote.cmd = "none"
  THEN Cast("yes") = {} /\ Cast("no") = {}
  ELSE \A v \in {"yes", "no"} : vote.count[v] = Cardinality(Cast(v)) + vote.gone[v]
==============================================================================
