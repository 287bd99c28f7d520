\* A reader, the discovery of types, and two Monitors one after the other.
CONSTANTS
  r1 = r1
  r2 = r2
  d1 = d1
  Readers = {r1}
  Discoverers = {d1}
  MaxMonitors = 2
  MaxCounts = 2
SPECIFICATION Spec
INVARIANTS TypeOK EachCountReportedOnce LittleIsLeft
PROPERTY GatheredIsReported
CHECK_DEADLOCK FALSE
