SPECIFICATION Spec
CONSTANTS
  MaxReq = 2
  MaxTime = 2
  MaxKills = 2
  MaxUpdates = 1
  MaxWriteFaults = 0
  Kinds = {"vlan", "reboot"}
  RetrySafe = {"vlan"}
  Reboots = {"reboot"}
  MaxAttempts = 2
  LongLimit = 0
  ShortLimit = 0
  MayOperate = TRUE
  MayUnlock = FALSE
PROPERTIES
    StartsInOrder
    NoStaleDisruption
    
CHECK_DEADLOCK FALSE
