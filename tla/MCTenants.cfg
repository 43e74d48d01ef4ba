\* Capabilities, users and sessions of two tenants.
CONSTANTS
  x = x
  y = y
  z = z
  r = r
  w = w
  k1 = k1
  k2 = k2
  vcpus = vcpus
  memory = memory
  Name = {x, y}
  Cap = {r, w}
  Token = {k1, k2}
  Dim = {vcpus}
  Limit = 1
  Ceiling = {1}
  Amount = {}
  Unmatched = {}
  MaxDepth = 1
  MaxTenants = 2
  MaxUsers = 2
  MaxPasswords = 1
SPECIFICATION Spec
SYMMETRY Symmetry
INVARIANTS
  AuthorityIsAttenuated
PROPERTIES
  CapsOnlyShrink
