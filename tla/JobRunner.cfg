\* Two runners share the lock; users control, processes die.
CONSTANTS
    j1 = j1
    j2 = j2
    Jobs = {j1, j2}
    Items = {i1}
    Keys = {}
    Clients = {c1}
    NoJob = NoJob
    NoKey = NoKey
    Runners = {r1, r2}
    Scanners = {}
    Checkers = {}
    NoProc = NoProc
    Kind <- Checks2
    Controls = {"pause", "resume", "cancel", "retry"}
    Sleeps = FALSE
    SleepSeen = FALSE
    MaxFaults = 2
SPECIFICATION LiveRSpec
INVARIANTS
    OneMeasurer
    
PROPERTIES
    OrphanRecovered
    QueuedServed
