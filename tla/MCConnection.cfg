SPECIFICATION FairSpec
CONSTANTS
  Roles = {"connect", "accept"}
  Tries = 1
  HbCount = 2
  SizeMax = 3
  Loads <- MCLoads
  MaxBreaks = 1
  MaxPosted = 1
INVARIANT SentInOrderOnce
INVARIANT ReadsWhatWasSent
INVARIANT QuietWhenFreed
PROPERTY SilenceIsNoticed
PROPERTY ConnectAnsweredStopEnds
CHECK_DEADLOCK FALSE
