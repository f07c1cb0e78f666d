\* One client of two, rings that wrap, any datagram lost or overtaken; at times
\* more entities in sight, and more new ones, than the rings are meant for.
SPECIFICATION Spec
CONSTANTS
  Worlds <- Courses
  PacketBackup = 6
  PacketEntities = 7
  MaxClients = 2
  MaxEdicts = 29
  MaxFrames = 7
INVARIANTS TypeOK FrameFaithful EveryFrameUsable DroppedOnlyWhenCrowded BaseIntact
CHECK_DEADLOCK FALSE
