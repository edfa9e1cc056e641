SPECIFICATION Spec
CONSTANTS
  a1 = a1
  a2 = a2
  t1 = t1
  exit = exit
  r1 = r1
  r2 = r2
  NilAid = NilAid
  Aids = {a1, a2}
  Types = {t1, exit}
  Exit = exit
  CachedTypes = {t1}
  ReqIds = {r1, r2}
  MatchLists <- MCMatchLists
  MaxArrivals = 3
VIEW MCView
SYMMETRY MCSymmetry
INVARIANT MatchQueuesExact
INVARIANT ExitListExact
PROPERTY KeepsPromise
CHECK_DEADLOCK FALSE
