SPECIFICATION FairSpec
CONSTANTS
  CacheQueueSize = 2
  MaxPacks = 3
INVARIANT NoUseAfterFree
INVARIANT PopFrontInDeque
PROPERTY InOrderOnce
PROPERTY EveryPackHandled
CHECK_DEADLOCK FALSE
