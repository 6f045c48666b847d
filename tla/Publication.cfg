\* A publisher beside an API thread that exports selections; diagnostics alone.
CONSTANTS
    Publisher = runner
    Others = {api}
    KindSets = {{"published", "selection"}, {"diagnostic"}}
    Threads = {t1, t2}
    Keep = 2
    MaxGens = 3
    MaxFaults = 2
\* Exports come to an end at the bound.
CHECK_DEADLOCK FALSE
SPECIFICATION LivePubSpec

    
    
PROPERTY
    ReaderCatchesUp
