SPECIFICATION Spec
CONSTANTS
  t1 = t1
  exit = exit
  Aids = {a}
  Types = {t1}
  Exit = exit
  ReqIds = {1}
  MatchLists <- MCMatchLists
  MaxCalls = 3
  MaxUnread = 1
  MaxSpawns = 2
  MaxLate = 1
INVARIANT ReadyInPool
CHECK_DEADLOCK FALSE
