\* Three nodes: two survivors relay each other's row of a stopped node.
CONSTANTS
  a = a
  b = b
  c = c
  Node = {a, b, c}
  Seeds <- StarSeeds
  Joins = {}
  Publishers = {}
  Mortals = {b}
  TimeoutSuspect = 1
  TimeoutDead = 2
  MaxHlc = 1
  MaxEpoch = 1
  MaxInFlight = 1
  MaxCopies = 1
SPECIFICATION FairSpec
PROPERTIES
  StoppedNodeIsDetected
