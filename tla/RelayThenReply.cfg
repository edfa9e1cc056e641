SPECIFICATION Spec
CONSTANTS
  Actors = {a, b, c}
  Askers = {a}
  Repliers = {b, c}
  Relayers = {b}
  Mortal = {}
  Threaded = {}
  MaxRequests = 2
  MaxSends = 0
INVARIANT AnsweredByHandler
CHECK_DEADLOCK FALSE
