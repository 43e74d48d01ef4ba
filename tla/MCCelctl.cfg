\* celctl: two processes on the controller's files or on the tenant store's.
CONSTANTS
  ClusterLen = 2
  TableLen = 2
  ChunkRatio = 2
  BootLen = 4
  CrcChunk = 3
  Proc = {1, 2}
  MaxVms = 2
  Plans <- MCPlans
  Clerk = {1, 2}
  User = {"u"}
  Quota = 1
  TenantPlans <- MCTenantPlans
  Missing = Missing
  Empty = Empty
  Torn = Torn
SPECIFICATION Spec
CHECK_DEADLOCK FALSE
INVARIANTS KernelGetsGuestPage  HistoryNotPoisoned
PROPERTIES OnlyStaleSavesForget
