\* Refresh tokens, their rotation, and logins against password changes; Redis may fail.
SPECIFICATION Spec
CONSTANTS
    TicksPerSecond = 2
    AccessLifetime = 2
    RefreshLifetime = 4
    Users = {u1}
    Requests = {r1, r2}
    Idle = Idle
    MaxClock = 3
    MaxTokens = 4
    MaxPw = 1
    MaxFaults = 1
    Endpoints = {"login", "refresh", "change"}
SYMMETRY RequestSymmetry
INVARIANTS RotatedOnce RevokedUntilLastSecond LoginMatchesPassword
PROPERTIES ChangeEndsSessions GatedRefresh
\* The bounds end every behaviour; and a coroutine that waits for a row lock
\* held across another one's await stops the process.
CHECK_DEADLOCK FALSE
