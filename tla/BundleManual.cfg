SPECIFICATION Spec
CONSTANTS
  MaxHour = 2
  MaxScans = 2
  MaxFaults = 1
  MaxManuals = 1
  Horizon = 2
  BuildCap = 2
  AttemptCap = 3
  Breaker = 2
  GiveUpAge = 2
  GiveUpRetries = 3
  FastRetries = 1
  SlowRetries = 2
  ShortDelay = 1
  LongDelay = 2
  ScanRetention = 0
  BundleRetention = 2
  StallHours = 2
  Transports = {TRUE, FALSE}
  MayUnmount = TRUE
INVARIANTS
    UploadedWasShipped
    NothingInvented
PROPERTIES
    ZipNeverOlder
CHECK_DEADLOCK FALSE
