\* Tickets redeemed by code or token, with outages and a restart.
SPECIFICATION Spec
CONSTANTS
    Requests = {r1, r2}
    Nobody = Nobody
    Accounts = {"password", "oauth", "unverified", "invited"}
    Ways = {"code", "token"}
    MaxTickets = 2
    MaxRestarts = 1
SYMMETRY RequestSymmetry
INVARIANTS TypeOK PairTogether OnlyFreshTickets
PROPERTIES MailIsCurrent OneCodeAtATime
CHECK_DEADLOCK FALSE
