\* One partition with retention and a gap: lost requests and answers, refusals,
\* slow polls, kills and a second run.
CONSTANTS
  p1 = p1
  p2 = p2
  Partitions = {p1}
  MaxOffset = 4
  Gaps <- OneGap
  Live = {p1}
  Busy = {}
  BatchSize = 2
  MaxEmptyPolls = 2
  Retries = 1
  Faults = {"slow", "send", "request", "ack", "reject", "crash"}
  MaxRuns = 2
SPECIFICATION FairSpec
INVARIANTS
  IInv
  ClosedWindowsSettled
  FirstCopiesInOrder
  ExitZeroAccountsForAll
PROPERTIES
  RunEnds
CHECK_DEADLOCK FALSE
