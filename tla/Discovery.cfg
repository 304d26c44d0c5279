SPECIFICATION DiscoverySpec
CONSTANTS
    Targets = 5
    Icx = {3}
    MaxWorkers = 3
    Threshold = 2
    LineLength = 4
    MaxSpans = 2
    Addresses = 4
    Resolvers = 2
    Workers = {"w1", "w2"}
    Strikes = 2
    Ips = {1, 2}
    Macs = {1}
    MaxHeard = 2
    MaxScans = 2
    MaxDbFaults = 1
    Switches = 4
    Gateway = 4
    Seeds <- MCSeeds
    MaxDepth = 1
    MaxNodes = 5
    FanoutCap = 2
    MaxLinks = 3
    Boxes = {1, 2}
    Addrs = {1, 2}
    SysNames = {"x", "y"}
    NamesOf <- MCNames
INVARIANTS
    NoLockout
    RedactionExact
    DeadCostBounded
    InventoryExact
    CrawlExact
    FoldSafe
PROPERTIES
    InventoryRemembers
CHECK_DEADLOCK FALSE
