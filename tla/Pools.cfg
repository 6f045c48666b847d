\* Two endpoints, one refill at a time beside two calls of others; one member is
\* allowed by policy.max_members, which the reserve may exceed.
CONSTANTS
    N = 2
    Refillers = {w1}
    Callers = {c1}
    Targets = {0, 1}
    Created <- OneServedOneReserve
    Budget = 2
    MaxMembers = 1
    Verified = TRUE
    MaxCalls = 2
\* The calls come to an end at the bound.
CHECK_DEADLOCK FALSE
SPECIFICATION PoolSpec
PROPERTY RefillSettles
