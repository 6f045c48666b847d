\* Two workers, three requests and two bytes, and a target of two requests.
CONSTANTS
    Workers = {w1, w2}
    Targets = {t1}
    NoTarget = NoTarget
    MaxInflight = 2
    MaxRequests = 3
    MaxBytes = 2
    BodyCap = 2
    TargetInflight = 1
    TargetRequests = 2
    MaxTries = 2
    MaxItems = 2
SPECIFICATION LiveSpec
INVARIANTS
    
    BooksBalance
PROPERTY
    WorkersLeave
\* A run ends when every worker has left.
CHECK_DEADLOCK FALSE
