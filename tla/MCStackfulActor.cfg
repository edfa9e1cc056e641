SPECIFICATION FairSpec
CONSTANTS
  t1 = t1
  exit = exit
  Aids = {a}
  Types = {t1}
  Exit = exit
  ReqIds = {1, 2}
  MatchLists <- MCMatchLists
  MaxCalls = 3
  MaxUnread = 1
  MaxSpawns = 2
INVARIANT ResumesTheSuspended
INVARIANT NothingMissed
INVARIANT ReturnsWhatWasAsked
INVARIANT NothingLeftBehind
PROPERTY TimedCallsReturn
PROPERTY ReturnedIsFreed
CHECK_DEADLOCK FALSE
