\* Two threads release the payload of a fast pool.
CONSTANTS
  t1 = t1
  t2 = t2
  t3 = t3
  r1 = r1
  r2 = r2
  f1 = f1
  d1 = d1
  d2 = d2
  w1 = w1
  w2 = w2
  Kinds = {"fast"}
  Threads = {t1, t2}
  Received = {r1}
  Foreign = {}
  Data = {d1}
  Sent = {w1}
  MaxBlocks = 1
SPECIFICATION Spec
INVARIANT OneIsLast
CHECK_DEADLOCK FALSE
