SPECIFICATION Spec
CONSTANTS
    r1 = r1
    r2 = r2
    r3 = r3
    Nobody = Nobody
    Requests = {r1, r2, r3}
    Served = {"health", "forceReset"}
    PoolSize = 2
    Program <- Programs
INVARIANTS
    HealthAnswers
SYMMETRY RequestSymmetry
CHECK_DEADLOCK FALSE
