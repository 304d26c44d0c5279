SPECIFICATION CheckinSpec
CONSTANTS
    Generations <- MCGenerations
    CaptureInterval = 2
    MaxVersion = 2
    MaxConfFaults = 1
    MaxConfKills = 1
    ClearThreshold = 3
    EnrollBackoff = 2
    MaxMeddles = 1
    MaxBlips = 3
    MaxEnrolKills = 1
    SpoolMax = 2
    DrainFiles = 2
    DrainPayloads = 2
    Refused = {}
    MaxItems = 4
    MaxOutages = 1
    MaxSpoolFaults = 1
    Sids = {"s"}
    MaxSessions = 2
    LiveOps = {"run-scan", "upload-now", "collect-logs"}
    MaxOps = 2
    MaxDrainKills = 1
    MaxReq = 2
    MaxTime = 1
    MaxKills = 2
    MaxUpdates = 1
    MaxWriteFaults = 0
    Kinds = {"vlan", "reboot"}
    RetrySafe = {"vlan"}
    Reboots = {"reboot"}
    MaxAttempts = 2
    LongLimit = 2
    ShortLimit = 2
    MayOperate = FALSE
    MayUnlock = FALSE
INVARIANTS
    ConfigSound
    SpoolSound
    ConsoleSound
PROPERTIES
    
    ConfigSettles
    Repaired
    SpoolDrains
    RequestsAccounted
    ShellReaped
CHECK_DEADLOCK FALSE
