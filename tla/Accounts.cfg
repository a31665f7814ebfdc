\* Sign-up, verification, invitation and Google sign-in interleaved.
SPECIFICATION Spec
CONSTANTS
    Requests = {r1, r2}
    Subs = {g1}
    MaxUsers = 2
    MaxCodes = 2
    MaxRestarts = 1
SYMMETRY RequestSymmetry
INVARIANTS TypeOK RowsHaveUser OAuthHasLink LinkedIsVerified MailsOfThisAccount
PROPERTIES VerificationCodes Invitations
CHECK_DEADLOCK FALSE
