SPECIFICATION FairSpec
CONSTANTS
  t1 = t1
  exit = exit
  Aids = {a}
  Types = {t1}
  Exit = exit
  ReqIds = {1, 2}
  MatchLists <- MCMatchLists
  MaxCalls = 3
  MaxUnread = 1
INVARIANT PromiseAlive
INVARIANT NothingMissed
INVARIANT ReturnsWhatWasAsked
PROPERTY TimedCallsReturn
CHECK_DEADLOCK FALSE
