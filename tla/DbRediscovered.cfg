\* An endpoint is found again once lost.  No deadlock check: a database
\* that was stopped, or that nobody pushes to, stands still.
CONSTANTS
  p1 = p1
  p2 = p2
  g1 = g1
  g2 = g2
  Participants = {p1, p2}
  Guids = {g1, g2}
  Sees <- SeenOnce
  Rediscovers = TRUE
  Erasable = {}
  Restarts = FALSE
  MaxPushes = 3
SPECIFICATION DatabaseSpec
INVARIANT ToldDiscovered
CHECK_DEADLOCK FALSE
