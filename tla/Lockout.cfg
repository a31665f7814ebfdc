\* Concurrent logins to one account, its address spelled in two ways, with an outage, a lost reply and a restart.
SPECIFICATION FairSpec
CONSTANTS
    Requests = {r1, r2, r3}
    e1 = e1
    Spellings = {e1, odd}
    Emails = {e1}
    Normal <- OneAddress
    Max = 2
    MaxCount = 3
    MaxFaults = 1
    MaxLost = 1
    MaxRestarts = 1
INVARIANTS TypeOK AttemptsBounded TtlOnItsWay
PROPERTY LockoutEnds
