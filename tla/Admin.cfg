\* The admin operations and the threads they run in.
SPECIFICATION Spec
CONSTANTS
    TicksPerSecond = 2
    AccessLifetime = 2
    RefreshLifetime = 4
    Users = {u1}
    Requests = {r1, r2}
    Idle = Idle
    MaxClock = 4
    MaxTokens = 2
    MaxPw = 1
    MaxFaults = 0
    Endpoints = {"google", "role", "disable", "force", "change"}
SYMMETRY RequestSymmetry
PROPERTIES OutdatedStaysOutdated ChangeEndsSessions
\* The bounds end every behaviour; and a coroutine that waits for a row lock
\* held across another one's await stops the process.
CHECK_DEADLOCK FALSE
