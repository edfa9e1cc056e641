SPECIFICATION FairSpec
CONSTANTS
  Objects = {"a", "n", "m", "d"}
  Mortal = {"a", "m", "d"}
  Trapping = {"a"}
  MayLink <- MCMayLink
  Alone <- MCAlone
  Connectors = {"l1", "m1", "d1"}
  Acceptors = {"r1", "r2", "l2"}
  Peer <- MCPeer
  Routing = {"r1", "r2"}
  Ctx <- MCCtx
  Route <- MCRoute
  Router <- MCRouter
  MaxLinks = 2
  MaxBreaks = 1
  Reused = {"d"}
INVARIANT ToldTheTruth
INVARIANT OwnLinksOnly
INVARIANT RouterKnowsLinks
PROPERTY LinkersAreTold
CHECK_DEADLOCK FALSE
