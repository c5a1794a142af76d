\* Two partitions, live traffic and retention on one, gaps in the other.
CONSTANTS
  p1 = p1
  p2 = p2
  Partitions = {p1, p2}
  MaxOffset = 3
  Gaps <- GapInFirst
  Live = {p2}
  Busy = {p2}
  BatchSize = 2
  MaxEmptyPolls = 2
  Retries = 0
  Faults = {"slow", "source", "target"}
  MaxRuns = 1
SPECIFICATION Spec
INVARIANTS
  SentOnceInOrder
  CompletedMeansCopied
PROPERTIES
  ImplementsSnapshotCopy
CHECK_DEADLOCK FALSE
