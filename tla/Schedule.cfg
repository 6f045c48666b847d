\* Two intervals, one command or wake or change of quiet, and two errors or deaths.
CONSTANTS
    Users = {u1}
    CatchUps = {TRUE, FALSE}
    MaxCatchUp = 2
    MaxUnits = 2
    MaxStamps = 4
    MaxCalls = 1
    MaxFaults = 2
\* Time and commands come to an end at the bounds.
CHECK_DEADLOCK FALSE
SPECIFICATION LiveSchedSpec
INVARIANTS
    RunOnce
    NoExtraRuns
PROPERTIES
    NoOldAfterNewer
    RequestsDecided
