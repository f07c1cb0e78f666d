------------------------------ MODULE GameRules ------------------------------
(****************************************************************************)
(* Matches, rounds and votes of the game module, and its frame: G_Frame     *)
(* lets the players respawn and then looks at the vote, the rules, the end  *)
(* of a match, and the start and the end of a round, in this order.  Each   *)
(* of these is an operator from worlds to worlds; GFrame composes them.     *)
(****************************************************************************)
EXTENDS GamePlayers

-----------------------------------------------------------------------------
(* "ready" and "unready".  The match is armed when everybody who plays is   *)
(* ready and the teams are filled; the count stops at the first who is not. *)
EveryoneReady(w) == \A c \in Players(w) : w.client[c].ready

EnoughToStart(w, teamGame) ==
  /\ Cardinality(Players(w)) >= 2
  /\ teamGame => \A t \in Teams : TeamOf(w, t) # {}

Ready_f(c) ==
  /\ MayCommand(c)
  /\ level.match /\ ~client[c].spectator /\ ~client[c].ready
  /\ LET w == [world EXCEPT !.client[c].ready = TRUE] IN
     IF EveryoneReady(w) /\ EnoughToStart(w, TeamGame(level))
     THEN Becomes([w EXCEPT !.level.match_time = CountDown, !.level.start_match = TRUE])
     ELSE Becomes(w)

Unready_f(c) ==
  /\ MayCommand(c)
  /\ level.match /\ ~client[c].spectator /\ level.match_time = Unset /\ client[c].ready
  /\ Becomes([world EXCEPT !.client[c].ready = FALSE, !.level.start_match = FALSE])

(* A vote is called, or cast while one is in progress. *)
CallVote(c, cmd) ==
  /\ MayCommand(c) /\ server.voting
  /\ vote.cmd = "none"
  /\ client' = [client EXCEPT ![c].vote = "yes"]
  /\ vote' = [vote EXCEPT !.cmd = cmd, !.count.yes = 1, !.stale = @ \ {c}]
  /\ UNCHANGED <<server, level, base, dropped>>

(* Mutant of HasVoted: never. *)
HasVotedNever(c) == FALSE

HasVoted(c) == client[c].vote # "none"

CastVote(c, v) ==
  /\ MayCommand(c) /\ server.voting
  /\ vote.cmd # "none"
  /\ ~HasVoted(c)
  /\ vote.count.yes + vote.count.no < MaxVotes
  /\ client' = [client EXCEPT ![c].vote = v]
  /\ vote' = [vote EXCEPT !.count[v] = @ + 1]
  /\ UNCHANGED <<server, level, base, dropped>>

-----------------------------------------------------------------------------
(* Those who are not in the game keep what they voted. *)
ResetVote(w) ==
  [w EXCEPT !.client = [c \in Slots |-> IF c \in InUse(w) THEN [w.client[c] EXCEPT !.vote = "none"]
                                           ELSE w.client[c]],
            !.vote = [NoVote EXCEPT !.stale = w.vote.stale \ InUse(w)]]

(* Dropped items are freed; the flags are shown if the game is ctf. *)
ResetItems(w) ==
  [w EXCEPT !.base = [t \in Teams |-> w.level.ctf], !.dropped = [t \in Teams |-> {}]]

(* One client of G_RestartGame: whether it plays is decided by the number   *)
(* of the match or round it last played in, and then by its team.           *)
RestartClient(w, c, teamz) ==
  LET p == w.client[c]
      l == w.level
      aside == IF l.match THEN p.match_num # l.match_num
               ELSE IF l.rounds THEN p.round_num # l.round_num
               ELSE p.spectator
      reset == [w EXCEPT !.client[c] = [p EXCEPT !.ready = FALSE, !.spectator = aside,
                                                 !.team = IF teamz THEN NoTeam ELSE p.team]]
      seated == IF ~TeamGame(l) \/ reset.client[c].team # NoTeam THEN reset
                ELSE IF server.auto_join THEN AddClientToTeam(reset, c, SmallestTeam(reset), FALSE)
                ELSE SetAside(reset, c)
  IN ClientRespawn(seated, c, FALSE)

RestartGame(w, teamz) ==
  LET counted == [w EXCEPT !.level.match_num = IF w.level.match_time # Unset THEN @ + 1 ELSE @,
                           !.level.round_num = IF w.level.round_time # Unset THEN @ + 1 ELSE @]
      Restarted(v, c) == IF c \in InUse(v) THEN RestartClient(v, c, teamz) ELSE v
      After[c \in 0 .. server.slots] == IF c = 0 THEN counted ELSE Restarted(After[c - 1], c)
  IN [ResetItems(After[server.slots]) EXCEPT !.level.match_time = Unset, !.level.round_time = Unset]

(* The dead are respawned, and everybody is taken out of the world. *)
BeginIntermission(w) ==
  IF w.level.intermission THEN w
  ELSE [RespawnAll(w, {c \in InUse(w) : w.client[c].dead}) EXCEPT !.level.intermission = TRUE]

(* Mutant of Expired: a frame late. *)
ExpiredLate(w) == w.vote.age > VoteTime + 1

Expired(w) == w.vote.age > VoteTime

CheckVote(w) ==
  LET present == Cardinality(InUse(w))
      passed == CASE w.vote.cmd = "map"     -> BeginIntermission(w)
                  [] w.vote.cmd = "restart" -> RestartGame(w, FALSE)
                  [] OTHER                  -> w
      Majority(v) == 100 * w.vote.count[v] >= 51 * present
  IN IF ~server.voting \/ w.vote.cmd = "none" THEN w
     ELSE IF Expired(w) THEN ResetVote(w)
     ELSE IF Majority("yes") THEN ResetVote(passed)
     ELSE IF Majority("no") THEN ResetVote(w)
     ELSE w

-----------------------------------------------------------------------------
(* The variables of the rules, in the order G_CheckRules looks at them. *)
Toggle(w, name) ==
  IF name = "gameplay" THEN RestartGame(w, FALSE)
  ELSE LET on == ~w.server[name]
           changed == [w EXCEPT !.server[name] = on, !.level[name] = on]
       IN IF name \in {"teams", "ctf"} THEN RestartGame(changed, TRUE)
          ELSE RestartGame([changed EXCEPT !.level.warmup = on], FALSE)

Changed(w, names, name) == IF name \in names THEN Toggle(w, name) ELSE w

Toggled(w, names) ==
  LET gameplay == Changed(w, names, "gameplay")
      teams    == Changed(gameplay, names, "teams")
      ctf      == Changed(teams, names, "ctf")
      match    == Changed(ctf, names, "match")
  IN  Changed(match, names, "rounds")

(* warmup is found from the times, and a start that is due overrides it for *)
(* the rest of this frame.                                                  *)
FindWarmup(w) ==
  [w EXCEPT !.level.warmup = \/ w.level.match /\ ~MatchRunning(w.level)
                             \/ w.level.rounds /\ ~RoundRunning(w.level)]

StartMatch(w) ==
  IF w.level.start_match /\ w.level.match_time <= 0
  THEN RespawnAll([w EXCEPT !.level.start_match = FALSE, !.level.warmup = FALSE], InUse(w))
  ELSE w

StartRound(w) ==
  IF w.level.start_round /\ w.level.round_time <= 0
  THEN RespawnAll([w EXCEPT !.level.start_round = FALSE, !.level.warmup = FALSE], InUse(w))
  ELSE w

(* limit stands for the limits of time, frags and captures. *)
CheckRules(w, limit, names) ==
  IF w.level.intermission THEN w
  ELSE LET started == StartRound(StartMatch(FindWarmup(w))) IN
       IF limit THEN BeginIntermission(started) ELSE Toggled(started, names)

CheckMatchEnd(w) ==
  IF /\ w.level.match /\ MatchRunning(w.level)
     /\ \/ Players(w) = {}
        \/ TeamGame(w.level) /\ \E t \in Teams : TeamOf(w, t) = {}
  THEN [w EXCEPT !.level.match_time = Unset]
  ELSE w

CheckRoundStart(w) ==
  IF w.level.rounds /\ w.level.round_time = Unset /\ EnoughToStart(w, w.level.teams)
  THEN [w EXCEPT !.level.round_time = CountDown, !.level.start_round = TRUE]
  ELSE w

(* round_num is not counted up at the end of a round, so everybody who has  *)
(* played since the last restart is put back into the game; over stands for *)
(* a round_limit that is zero or that restarts have reached.                *)
Rejoin(w, c) ==
  IF w.client[c].round_num # w.level.round_num THEN w
  ELSE LET p == w.client[c]
           joined == IF ~TeamGame(w.level) THEN [w EXCEPT !.client[c].spectator = FALSE]
                     ELSE AddClientToTeam(w, c, IF p.team # NoTeam THEN p.team ELSE SmallestTeam(w), FALSE)
       IN ClientRespawn(joined, c, FALSE)

CheckRoundLimit(w, over) ==
  IF over THEN BeginIntermission(w)
  ELSE LET Rejoined(v, c) == IF c \in InUse(v) THEN Rejoin(v, c) ELSE v
           After[c \in 0 .. server.slots] == IF c = 0 THEN w ELSE Rejoined(After[c - 1], c)
       IN  After[server.slots]

(* The players are counted by team only if teams is set; flying is whether  *)
(* a projectile of somebody other than the winner is under way.             *)
RoundDecided(w, flying) ==
  LET Count(t) == IF w.level.teams THEN Cardinality(TeamOf(w, t)) ELSE 0
      undecided == IF TeamGame(w.level) THEN Count("good") > 0 /\ Count("evil") > 0
                   ELSE Cardinality(Players(w)) > 1
  IN \/ Players(w) = {}
     \/ ~undecided /\ ~flying

CheckRoundEnd(w, flying, over) ==
  IF w.level.rounds /\ RoundRunning(w.level) /\ RoundDecided(w, flying)
  THEN CheckRoundLimit([w EXCEPT !.level.round_time = Unset], over)
  ELSE w

-----------------------------------------------------------------------------
(* The time of the level advances by one frame. *)
Advance(w) ==
  LET Less(t) == IF t > 0 THEN t - 1 ELSE t IN
  [w EXCEPT !.level.match_time = Less(@), !.level.round_time = Less(@),
            !.vote.age = IF w.vote.cmd = "none" THEN 0 ELSE @ + 1]

(* G_ClientBeginFrame of the dead: in a running round they are made to      *)
(* spectate, else those respawn who ask for it.                             *)
BeginFrame(w, clicks) ==
  LET dead == {c \in InUse(w) : w.client[c].dead} IN
  IF w.level.intermission THEN w
  ELSE IF w.level.rounds /\ RoundRunning(w.level)
  THEN RespawnAll([w EXCEPT !.client = [c \in Slots |-> IF c \in dead
                                         THEN [w.client[c] EXCEPT !.spectator = TRUE]
                                         ELSE w.client[c]]], dead)
  ELSE RespawnAll(w, dead \cap clicks)

(* What the world decides in a frame: who asks to respawn, whether a limit  *)
(* is reached, which rules the administrator has changed, projectiles.      *)
GFrame(clicks, limit, names, flying, over) ==
  LET begun == CheckVote(BeginFrame(Advance(world), clicks))
      ruled == CheckMatchEnd(CheckRules(begun, limit, names))
  IN Becomes(CheckRoundEnd(CheckRoundStart(ruled), flying, over))

(* After the intermission: everybody has to begin again.  What the clients  *)
(* have voted is not reset, since none of them is in use at that moment.    *)
ExitLevel ==
  /\ level.intermission
  /\ level' = FreshLevel(server)
  /\ client' = [c \in Slots |->
       [client[c] EXCEPT !.slot = IF client[c].slot = "free" THEN "free" ELSE "connecting", !.dead = FALSE]]
  /\ base' = [t \in Teams |-> level'.ctf]
  /\ dropped' = [t \in Teams |-> {}]
  /\ vote' = [NoVote EXCEPT !.stale = {c \in Slots : client[c].vote # "none"}]
  /\ UNCHANGED server
=============================================================================
