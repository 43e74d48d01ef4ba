\* Three nodes: rows and verdicts relayed by a third node.
CONSTANTS
  a = a
  b = b
  c = c
  Node = {a, b, c}
  Seeds <- StarSeeds
  Joins = {}
  Publishers = {}
  Mortals = {b}
  TimeoutSuspect = 1
  TimeoutDead = 1
  MaxHlc = 2
  MaxEpoch = 1
  MaxInFlight = 1
  MaxCopies = 1
SPECIFICATION Spec
INVARIANTS
  SelfRowAuthoritative
PROPERTIES
  VersionsNeverRegress
  VerdictIsFinal
