\* Charges and releases in a hierarchy of three tenants, two quota dimensions.
CONSTANTS
  x = x
  y = y
  z = z
  r = r
  w = w
  k1 = k1
  k2 = k2
  vcpus = vcpus
  memory = memory
  Name = {x, y, z}
  Cap = {}
  Token = {}
  Dim = {vcpus, memory}
  Limit = 3
  Ceiling = {1, 2}
  Amount = {0, 1, 2}
  Unmatched = {}
  MaxDepth = 2
  MaxTenants = 3
  MaxUsers = 0
  MaxPasswords = 0
SPECIFICATION Spec
SYMMETRY Symmetry
INVARIANTS
  TypeOK
  HierarchySound
  NameIndex
  UsageWithinQuota
  UsageIsSum
PROPERTIES
  NoOrphanedCharges
