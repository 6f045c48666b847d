\* A runner, a check command and an API thread that takes no lock; the machine sleeps.
CONSTANTS
    j1 = j1
    j2 = j2
    Jobs = {j1, j2}
    Items = {i1}
    Keys = {}
    Clients = {s1, t1}
    NoJob = NoJob
    NoKey = NoKey
    Runners = {r1}
    Scanners = {s1}
    Checkers = {t1}
    NoProc = NoProc
    Kind <- CheckAndRecheck
    Controls = {"pause", "resume", "cancel", "retry", "recover"}
    Sleeps = TRUE
    SleepSeen = TRUE
    MaxFaults = 1
SPECIFICATION RSpec
INVARIANT LeftoverIsDead
PROPERTIES
    
    ImplementsContract
