\* Three ports of one host, two workers, in both configurations; every
\* way to stop, and a second run of the same Pipeline.
CONSTANTS
    Items = {a, b, c}
    host = host
    Hosts = {host}
    HostOf <- OneHost
    Fresh = {c}
    Workers = {w1, w2}
    MaxQueue = 1
    MaxPerHost = 1
    Spacings = {TRUE, FALSE}
    Stops = {"paused", "deadline_exceeded", "budget_exhausted", "want_reached"}
    Rounds = 2
SPECIFICATION LivePSpec
INVARIANTS
    HostSlots
    RecordedOnce
    ParkedComesBack
    NothingLost
    
PROPERTY
    WorkersLeave
