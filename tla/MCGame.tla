------------------------------- MODULE MCGame --------------------------------
(* The games that are checked: how a server may be set up, and what its      *)
(* administrator may change.                                                 *)
EXTENDS Game

Plain == [slots |-> 2, auto_join |-> FALSE, voting |-> FALSE, ctf |-> FALSE, teams |-> FALSE,
          match |-> FALSE, rounds |-> FALSE, toggles |-> {}]

CaptureTheFlag == [Plain EXCEPT !.ctf = TRUE, !.slots = 3]
FlagsAutoJoin  == [Plain EXCEPT !.ctf = TRUE, !.auto_join = TRUE, !.toggles = {"ctf"}]
FlagsInMatch   == [Plain EXCEPT !.ctf = TRUE, !.match = TRUE, !.toggles = {"match"}]
MatchOfTeams   == [Plain EXCEPT !.teams = TRUE, !.match = TRUE, !.auto_join = TRUE, !.slots = 3,
                                !.toggles = {"gameplay"}]
MatchForAll    == [Plain EXCEPT !.match = TRUE, !.voting = TRUE]
FreeForAll     == [Plain EXCEPT !.slots = 3, !.voting = TRUE]
Arena          == [Plain EXCEPT !.slots = 3, !.rounds = TRUE]
TeamArena      == [Plain EXCEPT !.teams = TRUE, !.rounds = TRUE, !.auto_join = TRUE, !.slots = 3,
                                !.toggles = {"gameplay", "teams"}]

Games == {CaptureTheFlag, FlagsAutoJoin, FlagsInMatch, MatchOfTeams, MatchForAll,
          FreeForAll, Arena, TeamArena}
=============================================================================
