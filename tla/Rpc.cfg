\* Two clients, a repeater, a participant with a max_tx_rate, a server two participants reach, a second server, and a discoverer
\* without proxies.
CONSTANTS
  s1 = s1
  s2 = s2
  q1 = q1
  q2 = q2
  t1 = t1
  t2 = t2
  Participants = {1, 2, 3}
  Rtps = {1, 2}
  Repeaters = {1}
  Limited = {2}
  Servers = {s1, s2}
  Contacts <- MCContacts
  Requests = {q1, q2}
  ClientAt <- MCClientAt
  IllFormed = {}
  Corrupt = {}
  Pool = {t1, t2}
  MaxEntries = 2
  MaxCalls = 3
  MaxReplies = 3
  MaxFailures = 1
SPECIFICATION Spec
INVARIANTS TypeOK FlagMatchesTask EachClientItsReply RepliesFindTheirRequest QuietWhenOff WaitingHasTask
SYMMETRY Threads
CHECK_DEADLOCK FALSE
