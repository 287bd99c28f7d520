\* Fair threads: the bridge, with a route and a repeater, is enabled and disabled while writers
\* are created and removed; a reader cannot always be created.
CONSTANTS
  p1 = p1
  p2 = p2
  p3 = p3
  Participants = {p1, p2, p3}
  Repeaters = {p2}
  Routes <- RouteOfP3
  FirstWriters = {p1}
  Ops = {"enable", "disable", "create", "remove"}
  MaxMade = 1
  MaxFailures = 1
SPECIFICATION FairSpec
INVARIANTS TypeOK TracksMatchRoutes AllFollowBridge OnlyDisableSilences
PROPERTY CallsReturn
