\* A DDS reader of a reliable topic and fair threads, against the abstract specification.
CONSTANTS
  c1 = c1
  c2 = c2
  s1 = s1
  s2 = s2
  k1 = k1
  k2 = k2
  w1 = w1
  w2 = w2
  w3 = w3
  p1 = p1
  p2 = p2
  WriterParticipant <- MCWriterParticipant
  Controllers = {c1}
  Sources = {s1}
  Pool = {k1, k2}
  Writers = {w1, w3}
  InitWriters = {w1, w3}
  Ops = {"enable", "disable"}
  ReaderKind = "dds"
  Reliable = TRUE
  Corrupt = {}
  StatusModulus = 1024
  MaxReceived = 2
  MaxTasks = 1
SPECIFICATION FairSpec
PROPERTIES WaitingIsTaken CallsReturn ImplementsRelay
