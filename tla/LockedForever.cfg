\* A restart between INCR and EXPIRE.
SPECIFICATION FairSpec
CONSTANTS
    Requests = {r1, r2}
    e1 = e1
    Spellings = {e1}
    Emails = {e1}
    Normal <- OneAddress
    Max = 2
    MaxCount = 3
    MaxFaults = 0
    MaxLost = 0
    MaxRestarts = 1
PROPERTY LockoutAlwaysEnds
