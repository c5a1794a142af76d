\* Two partitions, a responsive source, a target that loses requests and refuses
\* records but no answers.
CONSTANTS
  p1 = p1
  p2 = p2
  Partitions = {p1, p2}
  MaxOffset = 3
  Gaps <- GapInFirst
  Live = {p2}
  Busy = {}
  BatchSize = 2
  MaxEmptyPolls = 2
  Retries = 1
  Faults = {"send", "request", "reject"}
  MaxRuns = 1
SPECIFICATION FairSpec
INVARIANTS
  DuplicatesNeedLostAcks
PROPERTIES
  ResponsiveRunSucceeds
CHECK_DEADLOCK FALSE
