\* One endpoint, two threads, and three starts and pauses.
CONSTANTS
    N = 1
    Refillers = {w1, w2, m1}
    Callers = {}
    Targets = {0, 1}
    Created <- OneServed
    Budget = 1
    MaxMembers = 0
    Verified = TRUE
    MaxCalls = 0
    Watchers = {w1, w2}
    Managers = {m1}
    NoThread = NoThread
    MaxAsks = 3
\* Starts and pauses come to an end at the bound.
CHECK_DEADLOCK FALSE
SPECIFICATION LiveWatchSpec
INVARIANT WatcherRegistered
PROPERTIES
    StoppedEnds
    
