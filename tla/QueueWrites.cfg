SPECIFICATION Spec
CONSTANTS
  MaxReq = 2
  MaxTime = 2
  MaxKills = 2
  MaxUpdates = 0
  MaxWriteFaults = 1
  Kinds = {"vlan", "rebuild"}
  RetrySafe = {"vlan"}
  Reboots = {}
  MaxAttempts = 2
  LongLimit = 0
  ShortLimit = 0
  MayOperate = TRUE
  MayUnlock = TRUE
INVARIANTS
    StartsBounded
CHECK_DEADLOCK FALSE
