SPECIFICATION FairSpec
CONSTANTS
  Actors = {a, b, c, d}
  Askers = {a}
  Repliers = {c, d}
  Relayers = {b}
  Mortal = {d}
  Threaded = {}
  MaxRequests = 2
  MaxSends = 2
INVARIANT NeverTwice
INVARIANT AnsweredByHandler
INVARIANT SeenAsTheAskers
PROPERTY RequestsAreAnswered
CHECK_DEADLOCK FALSE
