\* A failed send leaves the exit code at 0.
CONSTANTS
  p1 = p1
  p2 = p2
  Partitions = {p1}
  MaxOffset = 3
  Gaps <- NoGaps
  Live = {}
  Busy = {}
  BatchSize = 2
  MaxEmptyPolls = 2
  Retries = 0
  Faults = {"request"}
  MaxRuns = 1
SPECIFICATION Spec
INVARIANTS
  ExitZeroMeansWritten
CHECK_DEADLOCK FALSE
