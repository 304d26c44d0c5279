SPECIFICATION SnmpSpec
CONSTANTS
    Ips = {1, 2, 3}
    Gateway = 1
    Announced = {}
    Guessed = {2, 3}
    Communities <- MCCommunities
    Answerable = {"b", "x"}
    PollCap = 3
    PollBudget = 3
    Slow = {2}
    MaxFails = 2
    Backoff = 3
    MaxRekeys = 1
    MaxPushes = 1
INVARIANTS
    OperatorDecides
PROPERTIES
    PolledAgain
CHECK_DEADLOCK FALSE
