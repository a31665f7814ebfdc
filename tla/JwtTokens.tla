------------------------------ MODULE JwtTokens ------------------------------
(***************************************************************************)
(* The session tokens of app/utils/tokens.py and the arithmetic that the   *)
(* rest of the service does on them.                                       *)
(*                                                                         *)
(* Time is a number of ticks, TicksPerSecond to the second.  The service   *)
(* reads the clock with sub-second precision and PostgreSQL keeps it, but  *)
(* a JWT does not: PyJWT writes "iat" and "exp" as whole seconds, and the  *)
(* blacklist keeps a key for a whole number of seconds.                    *)
(***************************************************************************)
EXTENDS Integers

CONSTANTS
    TicksPerSecond,   \* clock readings that fall in one second
    AccessLifetime,   \* ACCESS_TOKEN_EXPIRE_MINUTES, in ticks
    RefreshLifetime   \* refresh_token_expiry_days, in ticks

ASSUME TicksAssumption == TicksPerSecond \in Nat \ {0}
ASSUME LifetimeAssumption == AccessLifetime \in Nat /\ RefreshLifetime \in Nat

TokenTypes == {"access", "refresh"}

\* A column that holds NULL: no token is issued before it.
Never == -1

\* A datetime as PyJWT encodes it: the fraction of a second is dropped.
NumericDate(t) == t - (t % TicksPerSecond)

Lifetime(type) == IF type = "access" THEN AccessLifetime ELSE RefreshLifetime

\* A slip the runs must notice: type and role claims in each other's place.
SwappedClaims(type, sub, role, now, origin) ==
    [type |-> role, sub |-> sub, role |-> type,
     iat |-> NumericDate(now), exp |-> NumericDate(now + Lifetime(type)),
     origin |-> origin]

\* JWTUtility._create_token.  `origin` is no claim: it is the model's memory
\* of when and how the token was made (see AuthState).
CreateToken(type, sub, role, now, origin) ==
    [type |-> type, sub |-> sub, role |-> role,
     iat |-> NumericDate(now), exp |-> NumericDate(now + Lifetime(type)),
     origin |-> origin]

\* JWTUtility.decode_access_token and decode_refresh_token: the signature is
\* good for every token of the model, so what is left is expiry and type.
Decodes(token, type, now) == token.type = type /\ now < token.exp

\* datetime.fromtimestamp(iat) < stamp, for a stamp that may be NULL.
IssuedBefore(token, stamp) == token.iat < stamp

\* A slip: every blacklist key is kept for the life of an access token.
AccessLifetimeTtl(token, now) == IF now < token.exp THEN AccessLifetime ELSE 0

\* int((expires_at - now).total_seconds()), in ticks; 0 when nothing is kept.
BlacklistTtl(token, now) ==
    IF now < token.exp THEN NumericDate(token.exp - now) ELSE 0
=============================================================================
