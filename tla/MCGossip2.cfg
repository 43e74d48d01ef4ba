\* Two nodes, restarts, loss and duplication; detection of a stopped node.
CONSTANTS
  a = a
  b = b
  c = c
  Node = {a, b}
  Seeds <- StarSeeds
  Joins <- AnyJoin
  Publishers = {a, b}
  Mortals = {a, b}
  TimeoutSuspect = 1
  TimeoutDead = 2
  MaxHlc = 2
  MaxEpoch = 2
  MaxInFlight = 1
  MaxCopies = 2
SPECIFICATION FairSpec
CHECK_DEADLOCK FALSE
INVARIANTS
  TypeOK
  VersionsAreIssued
PROPERTIES
  StoppedNodeIsDetected
