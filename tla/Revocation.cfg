\* Tokens blacklisted by logout and account deletion; Redis may fail.
SPECIFICATION Spec
CONSTANTS
    TicksPerSecond = 2
    AccessLifetime = 2
    RefreshLifetime = 4
    Users = {u1}
    Requests = {r1, r2}
    Idle = Idle
    MaxClock = 4
    MaxTokens = 2
    MaxPw = 0
    MaxFaults = 1
    Endpoints = {"login", "logout", "delete"}
SYMMETRY RequestSymmetry
INVARIANTS TypeOK RevokedUntilLastSecond Inv
\* The bounds end every behaviour; and a coroutine that waits for a row lock
\* held across another one's await stops the process.
CHECK_DEADLOCK FALSE
