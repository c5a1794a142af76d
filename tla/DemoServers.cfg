CONSTANTS
  N = 3
  Pids = {1, 2, 3, 4, 5}
  Shapes = {2, 5}
  Interval = 1
  MaxPoll = 1
  Timeout = 2
  MemberCounts = {2, 3, 4}
  MaxOthers = 1
  MaxCommands = 2
SPECIFICATION FairSpec
INVARIANTS
  IInv
  EveryServerRecorded
  GivesUpInTime
PROPERTIES
  ReadyMeansServed
  CleanStartComesUp
CHECK_DEADLOCK FALSE
