SPECIFICATION FairSpec
CONSTANTS
  Callers = {c}
  Loop = loop
  Macs = {m1, m2}
  Profiles = {guests, kids}
  Default = guests
  Absent = Absent
  Free = Free
  Enabled = TRUE
INVARIANT OkMeansListed
PROPERTIES AssignmentStays LockComesBack SignalEnds
