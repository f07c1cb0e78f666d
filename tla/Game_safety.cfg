\* Flags, matches, rounds and votes in eight kinds of games.
SPECIFICATION Spec
CONSTANTS
  Servers <- Games
  CountDown = 2
  VoteTime = 1
  MaxNum = 1
  MaxVotes = 4
INVARIANTS TypeOK CarriedByEnemy FlagsInOnePlace PlayersHaveTeams VotesCounted
PROPERTIES NoLateEntry
