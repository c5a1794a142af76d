\* Three files with every mix of missing, negative, clashing and high ids, or three
\* addresses of a cluster of up to three brokers, one advertised by none among them.
CONSTANTS
  N = 3
  MaxId = 3
  Absent = Absent
  LiveIds = {0, 1, 2}
SPECIFICATION FairFetchSpec
INVARIANTS
  IInv
  AssignedIdsDistinct
  AddressedKeepIdentity
PROPERTIES
  FetchTerminates
CHECK_DEADLOCK FALSE
