\* remove_unused_entities in a pipe that is enabled from the start, and reloads that allow or
\* block the service.  No deadlock check: a pipe that nobody calls,
\* and whose participants discover nothing, stands still.
CONSTANTS
  p1 = p1
  p2 = p2
  g1 = g1
  g2 = g2
  g3 = g3
  g4 = g4
  g5 = g5
  t1 = t1
  t2 = t2
  s1 = s1
  Participants = {p1, p2}
  Guids = {g1, g2, g3, g4}
  Sees <- MCSees
  Rediscovers = FALSE
  Erasable = {g4}
  Restarts = FALSE
  MaxPushes = 4
  Topics = {t1}
  Services = {s1}
  TopicOf <- MCTopicOf
  Triggers <- MCTriggers
  Servers <- MCServers
  Builtin = {}
  NoParticipant = NoParticipant
  RemoveUnused = TRUE
  Filters = {"t1", "all", "requests"}
  Matches <- MCMatches
  FirstList <- NoList
  Reloads <- ServiceReloads
  InitEnabled = TRUE
  Ops = {"reload"}
  MaxFailures = 0
SPECIFICATION FairSpec
INVARIANTS WritersWhereReaders ServicesObeyReload
PROPERTY DiscoveryLeadsToForwarding
CHECK_DEADLOCK FALSE
