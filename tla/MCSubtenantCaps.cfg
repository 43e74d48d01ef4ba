\* Is a subtenant kept within its parent's root caps?
CONSTANTS
  x = x
  y = y
  z = z
  r = r
  w = w
  k1 = k1
  k2 = k2
  vcpus = vcpus
  memory = memory
  Name = {x, y}
  Cap = {r}
  Token = {k1}
  Dim = {vcpus}
  Limit = 1
  Ceiling = {1}
  Amount = {}
  Unmatched = {}
  MaxDepth = 1
  MaxTenants = 2
  MaxUsers = 1
  MaxPasswords = 1
SPECIFICATION Spec
SYMMETRY Symmetry
INVARIANTS
  SubtenantCapsWithinParent
