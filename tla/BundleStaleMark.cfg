SPECIFICATION Spec
CONSTANTS
  MaxHour = 3
  MaxScans = 2
  MaxFaults = 0
  MaxManuals = 1
  Horizon = 2
  BuildCap = 2
  AttemptCap = 3
  Breaker = 2
  GiveUpAge = 2
  GiveUpRetries = 3
  FastRetries = 1
  SlowRetries = 2
  ShortDelay = 1
  LongDelay = 2
  ScanRetention = 3
  BundleRetention = 2
  StallHours = 2
  Transports = {TRUE}
  MayUnmount = FALSE
CHECK_DEADLOCK FALSE
INVARIANTS UploadedIsCurrent
