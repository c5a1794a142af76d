\* Up to nine brokers, every factor, core and DR lists of several shapes, colliding draws.
CONSTANTS
  MaxServers = 9
  Bare = Bare
  Words = {"SRV", "DRSRV", "ANN", "BOB", "EVE"}
  CoreLists <- MCCoreLists
  DRLists <- MCDRLists
  Draws <- MCDraws
SPECIFICATION Spec
INVARIANTS
  IInv
  ShardsPartitionPservers
  ServersApart
CHECK_DEADLOCK FALSE
