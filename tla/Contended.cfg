\* Handlers that lock the same rows in either order, on the loop and in threads.
SPECIFICATION FairSpec
CONSTANTS
    r1 = r1
    r2 = r2
    Nobody = Nobody
    Requests = {r1, r2}
    Served = {"forceReset", "validateReset", "change", "updateMe", "forgot", "google"}
    PoolSize = 2
    Program <- Programs
PROPERTY AnsweredUnlessHung
\* The loop may wait for a row for ever.
CHECK_DEADLOCK FALSE
