\* A session that outlives a password change.
SPECIFICATION Spec
CONSTANTS
    TicksPerSecond = 2
    AccessLifetime = 2
    RefreshLifetime = 4
    Users = {u1}
    Requests = {r1, r2}
    Idle = Idle
    MaxClock = 5
    MaxTokens = 4
    MaxPw = 1
    MaxFaults = 0
    Endpoints = {"login", "refresh", "change"}
SYMMETRY RequestSymmetry
INVARIANTS SessionsEndWithPassword
\* The bounds end every behaviour; and a coroutine that waits for a row lock
\* held across another one's await stops the process.
CHECK_DEADLOCK FALSE
