\* Two jobs over one item: every interleaving of submit, control and worker calls,
\* and of the repeated keyed control calls of one job.
CONSTANTS
    Jobs = {j1, j2}
    Items = {i1}
    Keys = {k1}
    Clients = {c1, c2}
    NoJob = NoJob
    NoKey = NoKey
SPECIFICATION CSpec
SYMMETRY Symmetry
CONSTRAINT OneJobAnswered
INVARIANTS
    OneJobPerKey
    
    AnsweredCancelHolds
PROPERTIES HistoryKept
CHECK_DEADLOCK FALSE
