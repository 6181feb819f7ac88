SPECIFICATION FairSpec
CONSTANTS
  Clients = {c1}
  c1 = c1
  Entries = {a, b, u}
  a = a
  b = b
  u = u
  Wanted = {a, b}
  BufferSize = 3
  ReplayLimit = 1
  SubscriberBuffer = 1
  MaxSeq = 4
  MaxBreaks = 1
  MaxRestarts = 1
INVARIANTS CursorCovers ClosedOnce
PROPERTY CatchesUp
CHECK_DEADLOCK FALSE
