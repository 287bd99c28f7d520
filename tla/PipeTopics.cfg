\* Topics come, are allowed and blocked while the pipe is enabled, disabled and destroyed.  No deadlock check: a pipe that nobody calls,
\* and whose participants discover nothing, stands still.
CONSTANTS
  p1 = p1
  p2 = p2
  g1 = g1
  g2 = g2
  g3 = g3
  g4 = g4
  g5 = g5
  t1 = t1
  t2 = t2
  s1 = s1
  Participants = {p1, p2}
  Guids = {g1, g2}
  Sees <- MCSees
  Rediscovers = TRUE
  Erasable = {g1}
  Restarts = FALSE
  MaxPushes = 3
  Topics = {t1, t2}
  Services = {}
  TopicOf <- MCTopicOf
  Triggers <- MCTriggers
  Servers <- MCServers
  Builtin = {t2}
  NoParticipant = NoParticipant
  RemoveUnused = TRUE
  Filters = {"t1", "all", "requests"}
  Matches <- MCMatches
  FirstList <- NoList
  Reloads <- TopicReloads
  InitEnabled = FALSE
  Ops = {"enable", "disable", "reload", "destroy"}
  MaxFailures = 1
SPECIFICATION Spec
INVARIANTS TypeOK ForwardsOnlyAllowed AllowedIsForwarded
CHECK_DEADLOCK FALSE
