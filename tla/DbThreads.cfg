\* Fair threads; endpoints seen by one participant each, lost and found again.  No deadlock check: a database
\* that was stopped, or that nobody pushes to, stands still.
CONSTANTS
  p1 = p1
  p2 = p2
  g1 = g1
  g2 = g2
  Participants = {p1, p2}
  Guids = {g1, g2}
  Sees <- SeenOnce
  Rediscovers = TRUE
  Erasable = {g1, g2}
  Restarts = FALSE
  MaxPushes = 4
SPECIFICATION FairDatabaseSpec
INVARIANTS DatabaseTypeOK MirrorsNetwork ToldEverything NoCallbackWhileDestroyed
PROPERTIES PushedIsProcessed StopReturns
CHECK_DEADLOCK FALSE
