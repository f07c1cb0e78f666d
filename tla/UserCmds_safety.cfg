\* Bursts of lost commands up to the point where the server gives up.
SPECIFICATION Spec
CONSTANTS
  CmdBackup = 4
  MaxReplay = 4
  MaxSequence = 7
  MaxFrames = 4
INVARIANTS TypeOK RunAsSent NeverRunAgain PredictionSound
CHECK_DEADLOCK FALSE
