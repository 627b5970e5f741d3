SPECIFICATION Spec
CONSTANTS
  IPs = {a, b}
  Cap = 1
  SlowPosts = 1
  MaxMinutes = 2
  MaxFail = 1
  MaxAmbiguous = 1
SYMMETRY ClientSymmetry
INVARIANTS Conservation SettledIsRecorded OvercountIsAmbiguous
PROPERTIES MeterRefined
