\* The two limiters of a login over three windows: late scripts, an outage or no free connection, a lost reply.
SPECIFICATION Spec
CONSTANTS
    Requests = {r1, r2}
    Ips = {ip1}
    Emails = {e1}
    NoEmail = NoEmail
    Chain <- LoginChain
    Window = 2
    Timeout = 1
    MaxClock = 4
    MaxFaults = 1
    MaxLost = 1
SYMMETRY RequestSymmetry
INVARIANTS TypeOK WindowBound NothingForgotten RefusedOnlyAtLimit RefusalEnds
    LastRemainingIsTrue
\* The clock stops at its bound, and nothing else does.
CHECK_DEADLOCK FALSE
