\* Two topics and an internal one, refusals, lost answers, changes by others and a second run.
CONSTANTS
  Topics = {t1, t2, t3}
  Matching = {t1, t2, t3}
  Internal = {t3}
  IncludeInternal = FALSE
  MaxParts = 2
  MaxChanges = 1
  MaxSetups = 2
  MayRefuse = TRUE
SPECIFICATION SetupSpec
INVARIANTS
  SetupIInv
  CopyFindsTopics
PROPERTIES
  AddsOnlyMissingTopics
CHECK_DEADLOCK FALSE
