SPECIFICATION Spec
CONSTANTS
  Workers = {w1}
  Ips = {i1, i2}
  Limit = 2
  Window = 3
  PruneInterval = 4
  Lag = 1
  MaxTime = 7
INVARIANTS RecentRemembered OnlyRecentTracked IpLimitHolds
PROPERTY ImplementsSlidingWindow
