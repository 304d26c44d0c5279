SPECIFICATION MonitorsSpec
CONSTANTS
    Slots = {1}
    DayLength = 5
    Grace = 1
    Interval = 2
    Cooldown = 3
    MaxNow = 6
    MaxSlotFaults = 1
    DailyCap = 2
    MinGap = 2
    BaselineEvery = 3
    PerRun = 2
    CaptureMax = 2
    MaxPathTicks = 4
    DayTicks = 4
    MaxCaptures = 3
    MaxChildren = 2
    MaxPathFaults = 1
    Dests = {"d1", "d2"}
    Routers = {"r"}
    MaxHops = 3
    MinShortfall = 2
    MaxLadders = 3
    Keys = {"a", "b"}
    Lists <- MCLists
    DownAfterFails = 2
    BlindProbes = 2
    MaxPending = 1
    MaxSeq = 2
    MaxWatchKills = 1
    Nets = {"n", "m"}
    Rescan = 3
    CapturePass = 2
    ScanCooldown = 1
    BulkInterval = 3
    HeavyRetention = 3
    MaxScanTime = 4
    MaxScans = 3
    MaxForced = 1
    MaxScanKills = 1
INVARIANTS
    ProbesPaced
    
    BreakIsReal
    DownEarned
    EdgesDelivered
    ScansPaced
    TickLeavesFresh
CHECK_DEADLOCK FALSE
