\* Two servers that come and go, one of them behind a firewall.
SPECIFICATION FairSpec
CONSTANTS
  Servers = {"open", "walled"}
  Reachable = {"open"}
  Interval = 2
  Silence = 1
  PingGap = 1
  MaxQueuedPings = 1
  MaxChanges = 3
INVARIANTS TypeOK ListedAnswered
PROPERTIES DroppedOnlyUnheard GoneForgotten AliveListed
