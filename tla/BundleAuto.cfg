SPECIFICATION FairSpec
CONSTANTS
  MaxHour = 5
  MaxScans = 1
  MaxFaults = 1
  MaxManuals = 0
  Horizon = 2
  BuildCap = 2
  AttemptCap = 3
  Breaker = 2
  GiveUpAge = 1
  GiveUpRetries = 2
  FastRetries = 1
  SlowRetries = 2
  ShortDelay = 1
  LongDelay = 2
  ScanRetention = 4
  BundleRetention = 2
  StallHours = 2
  Transports = {TRUE}
  MayUnmount = FALSE
INVARIANTS
    NothingLost
PROPERTIES
    ImplementsHourDelivery
    NothingWasted
    HourSettles
CHECK_DEADLOCK FALSE
