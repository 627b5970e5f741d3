SPECIFICATION Spec
CONSTANTS
  Calls = {c1, c2}
  Clients = {i}
  Macs = {m}
  Admins = {x}
  Profiles = {p, q}
  Default = p
  Nothing = Nothing
  MaxRecent = 0
  Batch = 1
SYMMETRY CallSymmetry
INVARIANTS TypeOK RegisteredRowsVerify
PROPERTIES RetentionSparesPending TrailRefined
