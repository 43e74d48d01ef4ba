\* Two nodes; the rows a node publishes against the VMs of its host.
CONSTANTS
  web = web
  long = long
  Node = {1, 2}
  Slot = {0, 1}
  Label = {web, long}
  LongLabel = {long}
  Volume = {}
  Task = {"receiver"}
  MaxOps = 3
  MaxEpoch = 1
  Mortals = {2}
  Supervisors = {1}
SPECIFICATION Spec
INVARIANTS
  RepublishedAfterOp
