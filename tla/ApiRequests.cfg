\* Three requests, two API keys, two addresses.
CONSTANTS
    r1 = r1
    r2 = r2
    r3 = r3
    k1 = k1
    k2 = k2
    i1 = i1
    i2 = i2
    Requests = {r1, r2, r3}
    Asks <- AsksOfThree
    Callers = {k1, k2}
    NoKey = NoKey
    NoEntry = NoEntry
    Proxies = {p1, p2}
    MaxRunning = 2
    MaxActive = 1
    MaxRecords = 1
    RecordTtl = 0
    LeaseTtl = 1
    MaxClock = 1
SPECIFICATION LiveSpec
INVARIANTS
    LeaseExclusive
PROPERTIES
    AppliedOnce
    RequestsAnswered
\* Every request has been answered.
CHECK_DEADLOCK FALSE
