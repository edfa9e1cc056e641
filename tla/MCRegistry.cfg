SPECIFICATION FairSpec
CONSTANTS
  p1 = "p1"
  p2 = "p2"
  a1 = "a1"
  a2 = "a2"
  Pools = {"p1", "p2"}
  Sockets = {1, 2}
  Ctxs = {1, 2}
  Types = {"comm", "router"}
  Actors = {"a1", "a2"}
  Home <- MCHome
  Dials <- MCDials
  Accepted <- MCAccepted
  MaxCalls = 3
INVARIANT SocketsTakeTurns
INVARIANT PoolsAgree
PROPERTY StopEnds
CHECK_DEADLOCK FALSE
