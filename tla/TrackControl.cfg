\* An RTPS reader of a best-effort topic, and two controllers: writers of one participant come
\* and go, one sample is corrupt, and the Track is destroyed.  No deadlock check: once the
\* Track is gone there may be nothing left to do.
CONSTANTS
  c1 = c1
  c2 = c2
  s1 = s1
  s2 = s2
  k1 = k1
  k2 = k2
  w1 = w1
  w2 = w2
  w3 = w3
  p1 = p1
  p2 = p2
  WriterParticipant <- MCWriterParticipant
  Controllers = {c1, c2}
  Sources = {s1}
  Pool = {k1, k2}
  Writers = {w1, w2}
  InitWriters = {w1}
  Ops = {"enable", "disable", "add", "remove", "destroy"}
  ReaderKind = "rtps"
  Reliable = FALSE
  Corrupt = {2}
  StatusModulus = 1024
  MaxReceived = 2
  MaxTasks = 1
SPECIFICATION Spec
INVARIANTS WritersReadyWhenUsed QuietWhenDisabled DiscardsWhileDisabled
CHECK_DEADLOCK FALSE
