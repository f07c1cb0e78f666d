\* Any datagram lost, repeated or overtaken, in both directions.
SPECIFICATION Spec
CONSTANTS
  c1 = c1
  c2 = c2
  Commands <- MCCommands
  MessageCapacity = 2
  MaxSequence <- SafetySequence
  MaxWrites <- SafetyWrites
  MaxLead = 5
  MaxInTransit = 5
  MaxLost = 0
  Repair = 0
  Repeats = TRUE
INVARIANTS TypeOK ParitySound StreamIntact OneCopyAcceptable
PROPERTIES ReleasedOnceAccepted UpstreamReliable DownstreamReliable
CHECK_DEADLOCK FALSE
