\* An InternalReader (blank or echo participant), which keeps what it receives though the
\* topic is best-effort: two sources, two pool threads.
CONSTANTS
  c1 = c1
  c2 = c2
  s1 = s1
  s2 = s2
  k1 = k1
  k2 = k2
  w1 = w1
  w2 = w2
  w3 = w3
  p1 = p1
  p2 = p2
  WriterParticipant <- MCWriterParticipant
  Controllers = {c1}
  Sources = {s1, s2}
  Pool = {k1, k2}
  Writers = {w1, w3}
  InitWriters = {w1, w3}
  Ops = {"enable", "disable"}
  ReaderKind = "internal"
  Reliable = FALSE
  Corrupt = {}
  StatusModulus = 1024
  MaxReceived = 3
  MaxTasks = 1
SPECIFICATION Spec
INVARIANTS TypeOK NoLostWakeup ForwardedInOrder
