\* Two entries fill a batch, a third the channel: Write meets a full one.
SPECIFICATION FairSpec
CONSTANTS
  Entries = {e1, e2, e3}
  BufferSize = 1
  BatchFlushThreshold = 2
INVARIANTS SnapshotsArePending
PROPERTIES AcceptedOnce Settles
CHECK_DEADLOCK FALSE
