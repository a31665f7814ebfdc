\* Three requests for two connections, and row locks in either order.
SPECIFICATION Spec
CONSTANTS
    r1 = r1
    r2 = r2
    r3 = r3
    Nobody = Nobody
    Requests = {r1, r2, r3}
    Served = {"login", "change", "validateReset", "forgot"}
    PoolSize = 2
    Program <- Programs
SYMMETRY RequestSymmetry
INVARIANTS TypeOK LocksAreHeld LocksNeedNoLoop OnlyRowsStop OnlyCarelessStop OnlyLoopAndRowsKeep
\* The loop may wait for a row for ever.
CHECK_DEADLOCK FALSE
