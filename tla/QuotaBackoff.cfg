SPECIFICATION MonitoredFairSpec
CONSTANTS
  IPs = {a}
  Cap = 2
  SlowPosts = 1
  MaxMinutes = 3
  MaxFail = 30
  MaxAmbiguous = 1
INVARIANT LeftAlone
PROPERTY EventuallyReported
