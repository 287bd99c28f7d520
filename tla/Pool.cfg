\* The three pools, three threads, a change of another pool.
CONSTANTS
  t1 = t1
  t2 = t2
  t3 = t3
  r1 = r1
  r2 = r2
  f1 = f1
  d1 = d1
  d2 = d2
  w1 = w1
  w2 = w2
  Kinds = {"fast", "map", "copy"}
  Threads = {t1, t2, t3}
  Received = {r1, f1}
  Foreign = {f1}
  Data = {d1, d2}
  Sent = {w1, w2}
  MaxBlocks = 3
SPECIFICATION FairSpec
INVARIANTS TypeOK CleanWhenEmpty
PROPERTIES LastOneFrees KeepsPromise
CHECK_DEADLOCK FALSE
