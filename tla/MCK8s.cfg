\* One or two callers and the receiver, two or three VMs.
CONSTANTS
  Task = {t1, t2}
  Receiver = rx
  MAX_SLOTS = 2
  NicVm = {0, 1}
  VmCost = {1}
  Size = {1}
  Prefixes = {2, 4}
  Request = {0, 1, 4}
  Quota <- Ceilings
  Mixes <- Workloads
  Grants <- CapSets
  MaxVolumes = 2
  MaxSnaps = 2
  MAX_VOLUME_BYTES = 1
  AddrBits = 4
  MaxNetworks = 2
  MaxNics = 3
  MaxSgs = 2
  MaxLbs = 1
  MAX_NICS_PER_NETWORK = 2
  Workers = 1
  K8sPrefixes = {1, 2}
  MaxNet = 2
SPECIFICATION Spec
INVARIANTS TypeOK AddressesSound SnapshotsSound UsageIsDue  NothingLeft
PROPERTIES AttachmentsNeverAlias AnswersOwnRequest
SYMMETRY Callers
