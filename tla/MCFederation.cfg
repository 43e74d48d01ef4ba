\* Two nodes: node 2 owns VMs, node 1 recovers them.
CONSTANTS
  web = web
  long = long
  Node = {1, 2}
  Slot = {0, 1}
  Label = {web}
  LongLabel = {}
  Volume = {"v"}
  Task = {"receiver"}
  MaxOps = 3
  MaxEpoch = 2
  Mortals = {2}
  Supervisors = {1}
SPECIFICATION FairSpec
INVARIANTS
  TypeOK
  StampsIdentifyRows
PROPERTIES
  RowsNeverRegress
  
  PeersConverge
  OrphansAreRecreated
