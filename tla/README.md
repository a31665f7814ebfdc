# A verification project for the FastAPI authentication server

TLA+ specifications of the service under `src/app`, the TLC configurations that
check them on small instances, and theorems checked by TLAPS.  This page lists
the system's parts, says which module models which part, what each run shows,
what is proved and how, and what is left out.

## 1. The system

One uvicorn process serves everything.  `async def` handlers run on its single
event loop; the SQL in them is synchronous (psycopg2), so a handler keeps the
loop from one `await` that really waits to the next, and in this code those are
Redis commands.  `def` handlers and dependencies run in a thread pool and
interleave with everything at every statement.  State lives in PostgreSQL (users,
pending actions, OAuth accounts), in Redis (token blacklist, rate counters,
lockout counters), in signed tokens held by clients, and, in development, in a
ring buffer of codes in memory.

| Component | State | Operations | What makes it correct |
|---|---|---|---|
| Session tokens (`utils/tokens.py`) | none (claims in the token) | create, decode | dates in whole seconds never let a token outlive a comparison it should fail |
| Session endpoints (`services/auth_services.py`) | tokens handed out | login, refresh, logout | a refresh token is used once; a logged-out token is refused |
| Token blacklist (`repositories/token_blacklist_repository.py`, `core/redis.py`) | Redis keys with a TTL; the client, or none | SETEX, EXISTS | a key lives as long as its token; fail-open only when Redis is out of reach |
| Authentication (`api/dependencies/auth_dependency.py`) | none | get_current_user, require_role | nobody in with a revoked, outdated or expired token |
| Password change, account deletion | users row | change_password, delete_own_account | earlier sessions end |
| Administration (`services/admin_services.py`) | users row | role, disable, enable, force reset, invite, list | earlier sessions end, in whatever order threads commit |
| Password reset (`services/password_service.py`) | two pending_actions rows, reset JWTs | request, force, validate, redeem by code or token, cleanup at start | a code works once, and only the newest one |
| E-mail verification, invitations (their services) | pending_actions rows, users | sign up, resend, verify, invite, accept | the same, and no account without an owner |
| Google sign-in (`services/oauth_service.py`) | oauth_accounts, users | callback: sign in, link, register | one account per Google identity, complete or absent |
| Rate limiter (`api/dependencies/rate_limiter.py`) | two counters per key | Lua script | never more than the limit in a window |
| Account lockout (same file) | one counter per e-mail | check, record, clear | locked after N failures, released after the timeout |
| Event loop, worker threads, connections, row locks | who runs, who holds or waits for what | — | every request is answered |
| Health check (`api/routes/health_routes.py`) | none | probe the database and Redis | answers, and truly |
| Mail (`utils/email.py`) | none | one blocking HTTP call | what is mailed works |
| Development codes (`utils/dev_codes.py`) | ring buffer of 50 | record, snapshot, clear | newest codes are kept |

Handlers call services, services call repositories; the only communication
between requests is through shared state.  Login resets the lockout counter;
force reset and change password delete pending reset codes; a password change, a
role change and a disabling reach the session tokens only through the
timestamps `password_changed_at` and `role_changed_at`, which are compared with
the token's `iat`.  Deleting or logging out reaches them through the blacklist.

The behaviours that make this hard: the loop is released between a check and the
write that depends on it; rows read before an await are used after it;
timestamps are taken before the lock that orders the commits; claims are in
whole seconds and columns are not; Redis may be gone, may fail, may carry out a
command whose reply is lost; a mail may fail between two commits; a coroutine can
hold a row lock across an await while another blocks the loop on that row.
`PROJECT.json` lists each hazard at its line with the properties that cover it.

## 2. The modules

| Module | Models |
|---|---|
| `JwtTokens` | the access and refresh tokens and the arithmetic on their dates |
| `AuthState` | the state the session modules share, the constants and their assumptions, and the steps all handlers are made of: asking the blacklist, adding to it, minting a pair |
| `AuthServices` | login, refresh, logout, Google sign-in of a linked account |
| `AccountServices` | get_current_user, change_password, delete_own_account, change_user_role, disable_user, enable_user, force_password_reset, as far as sessions go |
| `RefreshGate` | abstract: what a refresh promises with its checks cut apart by awaits |
| `TokenSessions` | their composition: clock, Redis, outages, restarts, the next-state relation and the properties; implements `RefreshGate` |
| `RateLimiter` | the limiters of one endpoint, one after the other, their Lua script and its keys, and the middleware's headers |
| `AccountLockout` | the failure counter of an address, the keys it is read and written under, and the login route that keeps it |
| `OneTimeCode` | abstract: what a pending action promises |
| `PasswordReset` | reset requests, forced resets, redemption by code and by token, password changes, verification, an accepted invitation and deletion on one account, the two pending_actions rows, mails; implements `OneTimeCode` |
| `AccountLifecycle` | sign-up, verification, invitation, Google sign-in, deletion of the accounts of one address; implements `OneTimeCode` twice |
| `EventLoop` | the scheduler: loop, worker threads, database connections, row locks; a handler is a sequence of steps |
| `Endpoints` | those sequences for every route of `app/api/routes` but the development ones |
| `*_proofs` | the inductive invariants and the theorems |
| `MC*` | symmetry, the chain of limiters and the programs for TLC |

The modules cut the system three ways and share no variables.  `TokenSessions`,
`PasswordReset` and `AccountLifecycle` each follow some data through every
handler that touches it, at the statements and awaits where that handler can be
interrupted; `RateLimiter` and `AccountLockout` do the same for Redis counters.
`EventLoop` with `Endpoints` follows every handler through the scheduler and
forgets the data.  Where one of the data models has a coroutine wait for a row
lock that another coroutine holds, it stops there (`hung`, or a held `loop`), and
`EventLoop` is where that is looked into.

### Sessions

`users` holds the columns of `models/user.py` that sessions depend
on; `pw` numbers a user's successive passwords in place of the hash.  `tokens`
maps each jti to its claims; jtis are `1 .. issued`, and a pair takes two.
`blacklist[j]` is when the key `blacklist:<j>` expires.  `redis` is `"up"`,
`"failing"` (commands raise `RedisError`) or `"none"` (`get_redis()` is `None`).
`loop` is the coroutine that holds the event loop, `rowLock[u]` the transaction
that holds user u's row, `req[r]` a request in flight: which of its steps comes
next, the row it read, the timestamp it took, its Redis command.  Four things
are history and guard nothing: a token's `origin`, a request's `began`,
`revoked` and `degraded`.

A coroutine is cut at each await that waits for Redis and, since
threads and the clock do not stop for it, where it reads a row, takes the time
and commits.  `loop' = r` keeps the loop for the next slice, `loop' = Idle`
releases it.  A thread needs no loop.  A Redis command is a step of its own
(`RedisExists`, `RedisSetex`, `RedisOther`) at any time between the slice that
sent it and the one that resumes, so replies come in any order.  `RedisSetex`
while `"failing"` may or may not have taken effect.  `Restart` drops all
requests and locks and pings Redis once, as `init_redis` does.  A request
refused at its first step changes nothing and is left out; later refusals are
actions (`RefreshRefused`, `AuthRefused`).

Abstractions: the users of this model are verified and have a password.
Deleted users stay deleted.  Admin operations start once `require_role` let the
admin in.  The two tokens of a pair are made at the same instant.  A forced reset
finds an earlier reset to blacklist, or none, nondeterministically (which it is
decides `PasswordReset`).  `Enable` is
one step, and `disable_user` takes lock and time in one: between lock and commit
nobody else can write the row.  Redis keeps its keys over a restart of the
service.  Rate limits and lockout may refuse a request before it starts, which
is a request that is not made.

### Rate limiter and lockout

A limiter samples the clock and sends its script (`Send`); the script runs later
(`Admit`, `Refuse`), within `Timeout` seconds, and by then the window it names may
be over.  Counters are `count` and `expires` per limiter, window and client.  The
script's fraction is multiplied by `Window`, so the arithmetic stays in the
integers.  `LoseReply` is a script that was carried out and is sent again, as
`retry_on_timeout` has it.  `PoolExhausted` is a limiter that gets no connection to
Redis: the pool is shared by every command of the service, so it may be empty
however few requests are modelled.  `req[r].state` is `request.state`, which the middleware
turns into headers.  The admissions in `log` are history.

The lockout is five commands of concurrent logins: GET before the password is
verified, INCR and perhaps EXPIRE, or DEL, after.  The GET is of the key spelled
like the e-mail in the body (`req[r].email`), the others are of the key of the
address that `EmailStr` makes of it (`Address(r)`, by the constant `Normal`): the
domain in lower case, no blanks around it.  `own` is history.  A key with a TTL
disappears at some time.  How long the TTL is makes no difference to any of its properties.

### Password reset

A ticket is what one request produces: a code in one row, the jti of a JWT in the
other.  `account` says what the users row is, `holder` who holds it FOR UPDATE.  All
handlers of a reset are coroutines, so one slice is one action; sending a mail keeps
the loop (`LoopFree`) because `requests.post` does not await.  Accepting an invitation
and verifying an address may happen in threads and need the row only (`AcceptInvite`,
`Verify`).

The code's row expires at an instant with microseconds, the token and its row at a
whole second, and less than a second lies between the two.  `LastSecond` is when less than a second is left,
and the whole-second TTL of `add_to_blacklist` comes to 0: it sends nothing then, and
its caller does not await (`TooLate`).  From there on the code (`Lapse`) and the token
(`Expire`) end in either order, and keys on the blacklist may be gone.  Tickets grow
old in any order, Redis comes and goes, a restart drops what is in flight and deletes
each row whose own time is up.  `log`, `voided` and `mail` are history.

### Account lifecycle

One address, hence at most one users row at a time, numbered by `user.id` through
deletions and new registrations.  All handlers run in threads, so each statement
that another one's commit can come before is an action of its own: the SELECT and
the INSERT of `upsert_action`, the lookups and the two commits of
`google_callback`, the mail before or after its row.  A unique constraint or foreign
key that fails ends the request, and so may any error at any statement (`Fail`): a
connection that does not come in time or one that breaks.  `torn`, the accounts whose
sign-in broke off between its two commits, is history, as are `accepted`, `told`.

### Scheduler

A request is `idle`, `ready` for the loop, on the `loop`, `awaiting` Redis or a worker
thread, in a `thread`, or its answer is `ending` (it needs the loop once more) and its
session `closing` (in a thread, where `get_db` rolls back).  A synchronous call that
waits, for a row, a connection or an HTTP answer, waits where the request is: on
the loop, everyone waits with it.  `PoolTimeout` is the 30 seconds of SQLAlchemy's
`QueuePool`, `Deadlock` is Postgres failing one transaction of a cycle.

Abstractions: the rows are those of one account and exist.  Several awaits with
nothing in between are one, as are several checks.  Every `check` may end the
request.  Row locks are exclusive: the share locks that foreign keys take are left
out.  HTTP calls end at some time although `utils/email.py` sets no timeout; if
one never did, nothing would be answered again, which needs no model.  The 40
worker threads of Starlette are not counted.  That a session is closed after the
answer, and in a thread, is how the FastAPI of `requirements.txt` runs a generator
dependency.

## 3. The runs

Every property of a passing run has a mutant: an operator commented "A slip", which is what
a plausible bug would make of a definition of the code, and under which TLC finds
that property violated.

| Run (cfg) | Bounds | Shows |
|---|---|---|
| `Rotation` | 2 requests, 4 tokens, 1 password change, 1 outage or restart, clock to 3 | `RotatedOnce`: two pairs from one refresh token, made or granted, only by overlapping requests, or in the token's last second. `GatedRefresh` (implements `RefreshGate`): a pair is made only for a refresh token whose session was good when the request came in and that, as far as Redis could tell, was neither revoked nor exchanged at some instant since. `RevokedUntilLastSecond` for rotated tokens. `LoginMatchesPassword`: nobody gets in on an old password by a login. `ChangeEndsSessions`: a change that commits leaves every token its request found behind the new stamp. |
| `Revocation` | 2 requests, 2 tokens, 1 outage or restart, clock to 4 | `RevokedUntilLastSecond` under logout, deletion, lost replies; `TypeOK`; `Inv`, the invariant of the proofs. |
| `Admin` | 2 requests, 2 tokens, 1 password change, clock to 4 | `OutdatedStaysOutdated`: what a change, a forced reset or a disabling outdated is not current again, whatever threads interleave, unless a password change commits a stamp that was overtaken meanwhile; `ChangeEndsSessions` for forced resets, disablings and role changes, too. |
| `Limiter` | 2 requests, the chain of the login route with limits of 1 and 2, window 2, clock to 4, 1 outage or request without a Redis connection, 1 lost reply | `WindowBound`: no window of a client is granted more than the limit. `NothingForgotten`: no counter expires that may still be weighed. `RefusedOnlyAtLimit`, `RefusalEnds`: a refusal has its reason, and one window after the announced reset nothing is held against a client but what it was granted since. `LastRemainingIsTrue`: a client that is alone and is told that requests remain is let in by the limiter that said so, which is the last. |
| `Lockout` | 3 requests, 1 address in 2 spellings, limit 2, up to 3 failures counted when the odd spelling comes in, 1 outage, 1 lost reply, 1 restart | `AttemptsBounded`: logins that spell the address as it is counted and pass the check together overshoot the limit by no more than there are at once, less one, whatever is counted for the other spelling. `TtlOnItsWay`: a counter without a TTL has its EXPIRE on the way. `LockoutEnds`: every lockout ends. All three while nothing comes between the service and Redis. |
| `Tickets` | 2 requests, 2 tickets, every kind of account, 1 restart, any outages | `PairTogether` (code and token on record are of one ticket; one is there alone only where a clean-up came between their two expiries), `OnlyFreshTickets` (no ticket opens an account whose password was reset or changed since, above all none twice), `MailIsCurrent` (no mail brings a code that is not on record), `OneCodeAtATime` (implements `OneTimeCode`). |
| `Accounts` | 2 requests, 2 rows, 2 codes, 1 Google account, 1 restart | `RowsHaveUser`, `OAuthHasLink`, `LinkedIsVerified` (but for a sign-in that broke off between its two commits), `MailsOfThisAccount` (a code that redeems was not mailed for an earlier account of the address), and `VerificationCodes` and `Invitations` (each implements `OneTimeCode`). |
| `Stops` | 3 requests, 2 connections; login, change, forgot, the reset-code check | `LocksAreHeld`, `LocksNeedNoLoop`. `OnlyLoopAndRowsKeep`: nothing else keeps a request from its next step, neither the connection pool nor Redis nor a cycle of row locks. `OnlyRowsStop`: so the server comes to a stop only when a coroutine on the loop waits for a row. `OnlyCarelessStop`: and only where a handler that is not `Careful` keeps a row while it needs the loop. |
| `Contended` | 2 requests, 2 connections; six handlers that lock the same rows in either order | `AnsweredUnlessHung`: every request is answered, unless the loop waits for a row whose holder waits for the loop. |

Three runs refute what the README of the repository promises; `PROJECT.json`
"findings" quotes the lines:

| Run (cfg) | Refutes |
|---|---|
| `SessionsEndWithPassword` | a password change ends all sessions: a refresh in flight read the row before it (`auth_services.py:74`) |
| `LockedForever` | a lockout ends: a restart between INCR and EXPIRE (`rate_limiter.py:227`) leaves a counter that never expires |
| `AwaitHoldsRow` | `/health` tells: `force_password_reset` awaits with the users row locked (`admin_services.py:92`), a second one waits for that row on the loop, and nothing is answered any more |

**Why the bounds are enough.**  Two requests are what the races of sessions, codes
and limiters need; where a third party matters (who takes the connection, who counts
a failure while two others pass the check) there are three.  The second of two
spellings of an e-mail needs nothing of the first but its counter, which `MaxCount` bounds.  Requests on different users share
only the loop, which a request of the same user can hold as well.  In the session
runs a second has two ticks, an access token lives one second and a refresh token
two: that gives every instant and its truncation, and a clock to 3 or 4 lets both
kinds expire or come into their last second.  Two pairs of tokens are a login and
a refresh; a second refresh of the same token gets as far as its grant, which is what
`RotatedOnce` and the gate are about; two tickets or codes are one and its successor.
The limiter's clock covers three windows: the one where a limit is reached, the one
it is weighed in, and the first where it is not.  Each bound is a guard of the step
it limits.

**Deadlock** is checked in `Lockout` and `LockedForever`.  Elsewhere a behaviour
may end: the bounds on clock, tokens, tickets and codes end it, and where row
locks are modelled the server may really hang, which is what `OnlyRowsStop` and
`AwaitHoldsRow` are about.

**Fairness.**  `AccountLockout` assumes weak fairness of each request that has begun
(asyncio runs what is ready) and of a key's expiry; nobody need log in and no
outage need end.  `EventLoop` assumes strong fairness of each request's next step:
loop and locks are taken by others in between, but the loop's ready queue, the
pool's waiters and the lock queues of Postgres are served in order, so a request
that can go on again and again is not passed over for ever.  New requests need not
come.  All other runs check safety only.

### Divergences

These properties are in the modules, too, under the heading "promise, and ... does
not keep".  They have no standing run; each is refuted by TLC with the `cfg` given,
changed as noted, and the property in place of the others.

| Property | Promise | What the code does | To reproduce |
|---|---|---|---|
| `OneSuccessor` | "refresh-token rotation" (README:3), "core rotation guarantee" (`test_token_refresh.py:111`) | two overlapping refreshes both pass the check (`auth_services.py:79`, `:92`) | `Rotation`, `MaxTokens = 6`, `MaxFaults = 0` |
| `RevocationIsFinal` | "JWTs blacklisted in Redis on logout" (README:112) | the truncated TTL lets the key go up to a second early (`token_blacklist_repository.py:19`) | `Revocation`, `MaxClock = 5`, `MaxFaults = 0`, `{"login", "logout"}` |
| `RoleClaimIsCurrent` | "all existing tokens for that user are invalidated" (README:224) | a token minted between the role's timestamp and its commit survives (`user_repository.py:60`) | `Rotation`, `MaxClock = 5`, `{"login", "refresh", "role"}` |
| `InvalidatedForGood` | the same, and "password and role changes invalidate all in-flight tokens" (README:112) | stamps are committed against their order: two role changes (`admin_services.py:26`), a password change that waits for a disabling (`user_repository.py:43`) | `Revocation`, `MaxClock = 5`, `{"login", "role"}`, or `MaxPw = 1` and `{"login", "change", "disable"}` |
| `SlidingWindow` | "Sliding-window rate limiting" (README:111) | the script weighs the window before as if its requests were spread evenly (`rate_limiter.py:30`) | `Limiter`, `OneLimiter`, `Window = 3`, `MaxClock = 7`, `MaxFaults = 0`, `MaxLost = 0` |
| `ResetAdmits` | "When the rate limit window resets" (`main.py:123`) | at the reset the full count weighs in as the previous window's (`rate_limiter.py:33`) | as above |
| `RemainingIsTrue` | "How many requests the client has left" (`main.py:121`) | the last limiter overwrites what an earlier one left (`rate_limiter.py:168`) | `Limiter`, 1 request |
| `RefusedOnlyAtLimit` without `lost = 0` | "5/hr per IP+email" (README:71) | a script sent again counts twice (`core/redis.py:26`) | `Limiter`, `OneLimiter` |
| `OpenOnlyIfUnreachable` | "If Redis is unreachable, the limiters fail open" (README:255) | an exhausted pool is taken for an outage (`core/redis.py:22`) | `Limiter` |
| `LockedAfterMax` | "Account lockout after N failed logins" (README:110) | the counter is read before the password is verified and incremented after (`rate_limiter.py:207`, `:227`) | `Lockout` |
| `BoundedInAnySpelling` | "Account lockout after N failed logins" (README:110) | the check reads the key of the e-mail as the body spells it (`rate_limiter.py:198`, `:207`), failures are counted under the `EmailStr` (`auth_routes.py:60`) | `Lockout` |
| `LockoutAlwaysEnds` | "configurable cooldown" (README:110) | the first INCR sent again answers 2, and no EXPIRE follows (`core/redis.py:26`) | `LockedForever`, `MaxLost = 1`, `MaxRestarts = 0` |
| `SupersededIsDead` | "Second forgot-password request invalidates the first code and token" (`test_forgot_password.py:54`) | a request during the await of a redemption supersedes the token, which is redeemed all the same (`password_service.py:105`) | `Tickets` |
| `InviteVoidsTickets` | a new password ends what was pending of a reset (`password_service.py:107`, `:123`, `:146`) | `accept_invite` sets a password and deletes the invitation only (`invite_service.py:41`): a reset forced earlier still redeems | `Tickets` |
| `OAuthCanReset` | "they must run password reset to set one" (README:242) | the request returns silently (`password_service.py:47`) | `Tickets` |
| `AcceptedIsTrue` | "Invite has already been accepted" (`invite_service.py:30`) | an invited address that Google sign-in verified is told so, too | `Accounts` |
| `LinkedElsewhereIsTrue` | "already linked to another user" (`oauth_account_repository.py:46`) | the second of two overlapping sign-ins is told so of its own link | `Accounts` |
| `SignedInIsVerified` | "unverified user becomes verified via OAuth" (`test_google_oauth.py:195`) | link and `is_verified` are two commits, and a connection may fail in between (`oauth_service.py:112`, `oauth_account_repository.py:39`); later sign-ins do not look (`oauth_service.py:95`) | `Accounts`, `MaxRestarts = 0` |
| `VerificationMailWorks` | "Click the link below to verify your email address." (`email.py:71`) | mailed before it is stored (`email_verification_service.py:29`) | `Accounts`, `MaxUsers = 1`, `MaxCodes = 3` |
| `InviteMailWorks` | "Click the link below to set up your account." (`email.py:99`) | a second invitation is stored over the first and its mail fails, or leaves before the first one's (`admin_services.py:80`) | `Accounts`, `MaxUsers = 1`, `MaxCodes = 3` |
| `HealthAnswers` without an await | "`/health` endpoint with per-dependency up/down status" (README:117) | `validate_reset_code` answers with its rows locked, a forgot-password waits for one on the loop (`password_service.py:129`) | `AwaitHoldsRow`, `{"health", "validateReset", "forgot"}` |
| `HealthIsTrue` | the same | with every connection in use the probe times out: "down" (`health_routes.py:25`) | `AwaitHoldsRow`, `{"health", "login"}`, 2 requests, `PoolSize = 1` |

The session properties leave out the tie in which a token and a change carry the
very same instant, except where the tie plays no part; the counterexamples are real
overlaps.

## 4. The proofs

Each theorem holds for every value of the constants that the `ASSUME`s of its
module allow: any number of requests, users, tickets, tokens, any lifetimes and
limits, any programs.

| Module | Theorem | States |
|---|---|---|
| `TokenSessions_proofs` | `Invariance`, `TypeCorrect` | `Spec => []Inv`, `Spec => []TypeOK` |
| | `RevocationHolds` | `Spec => []RevokedUntilLastSecond` |
| | `ChangesEndSessions` | `Spec => ChangeEndsSessions` |
| `SessionOrder_proofs` | `OrderKept` | `Spec => [](Inv /\ Order)`, the invariant of the next two |
| | `LoginsMatchPassword` | `Spec => []LoginMatchesPassword` |
| | `OutdatedForGood` | `Spec => OutdatedStaysOutdated` |
| `Rotation_proofs` | `RotatesOnce` | `Spec => []RotatedOnce` |
| | `RefreshesAreGated` | `Spec => GatedRefresh`: the refinement |
| `RateLimiter_proofs` | `TypeCorrect` | `Spec => []TypeOK` |
| | `WindowsAreBounded` | `Spec => []WindowBound` |
| | `NothingIsForgotten` | `Spec => []NothingForgotten` |
| | `RefusalsAreJustified` | `Spec => []RefusedOnlyAtLimit` |
| | `RefusalsEnd` | `Spec => []RefusalEnds` |
| | `LastRemainderIsTrue` | `Spec => []LastRemainingIsTrue` |
| `AccountLockout_proofs` | `TypeCorrect` | `Spec => []TypeOK` |
| | `AttemptsAreBounded` | `Spec => []AttemptsBounded` |
| | `TtlIsOnItsWay` | `Spec => []TtlOnItsWay` |
| `PasswordReset_proofs` | `TypeCorrect` | `Spec => []TypeOK` |
| | `PairsStayTogether` | `Spec => []PairTogether` |
| | `OnlyFreshTicketsRedeemed` | `Spec => []OnlyFreshTickets` |
| | `MailsAreCurrent` | `Spec => MailIsCurrent` |
| | `ImplementsOneTimeCode` | `Spec => OneCodeAtATime`: the refinement |
| `AccountLifecycle_proofs` | `TypeCorrect` | `Spec => []TypeOK` |
| | `RowsAlwaysHaveUser`, `OAuthAlwaysHasLink` | `Spec => []RowsHaveUser`, `Spec => []OAuthHasLink` |
| | `LinkedAccountsAreVerified` | `Spec => []LinkedIsVerified` |
| | `MailsAreOfThisAccount` | `Spec => []MailsOfThisAccount` |
| | `VerificationImplementsOneTimeCode` | `Spec => VerificationCodes`: the refinement |
| | `InvitationsImplementOneTimeCode` | `Spec => Invitations`: the refinement |
| `EventLoop_proofs` | `TypeCorrect` | `Spec => []TypeOK` |
| | `NothingStaysLocked` | `Spec => []LocksAreHeld` |
| | `CarefulHandlersDoNotHang` | `Spec => []LocksNeedNoLoop` |
| | `RowsAloneStop` | `Spec => []OnlyRowsStop` |
| | `CarelessAloneStop` | `Spec => []OnlyCarelessStop` |

None of the safety properties is inductive as it stands; what each `Inv` adds:

**Sessions.**  `RevokedUntilLastSecond` says nothing of a SETEX that has not
arrived.  `Inv` adds that a SETEX in flight carries a TTL that reaches into
the last second of its token *whenever* it arrives (the clock only moves on, and
the key counts from arrival), that a key in Redis does the same, that requests
work on tokens that exist, that `iat` is the truncation of when the token was
made, which is not in the future, and that a stamp about to be committed is not
older than any token that was out when its request came in.  A lemma per kind of
step (begin, go on, call Redis, skip, mint, finish) shows what it does to a
sound request; the proofs of the actions cite them.  `CommitsOf` shows that only
its own commit ends a request that is about to commit, which `ChangesEndSessions`
needs.

**Who holds what.**  `LoginMatchesPassword` and `OutdatedStaysOutdated` rest on the
loop and on the row lock, so `Order` says which of a request's steps hold which: from
`LoopSteps` on it keeps the loop, from `LockSteps` on the row, and therefore what it
read there (the password of the row, the time it took) still stands when it commits.
`Frame` is what a step of one request leaves to the others.  A login's token under an
old password is then no younger than the change (`LoginsMatch`), and truncating `iat`
to the second can only make it look older.  `OutdatedForGood`
says that rows move only forward (`Forward`): whoever writes `password_changed_at`
under the row lock took the time when it had the lock, so nothing later is there to be
overwritten.  `change_password` takes the time before it has the row; `ChangeForward`
shows that it moves the row back only when it was `Overtaken`, which is the divergence
above and no more than that.

**Rotation.**  `RotatedOnce` compares two pairs that exist (`PairedOnce`), and one that
exists with one that will (`GrantedOnce`); `Rotating` is what the second request knows
on the way.  It asks Redis about its own token; when Redis says
the token is good, no pair was made from it before the request came in, except in the
token's last second, because whatever a pair was made from is `Spent`: its key is in
the blacklist until that second, or that second has begun.

**The gate.**  `RefreshGate` has no awaits, no claims and no keys: a request with a
refresh token is `waiting`, then `vetted`, then has its pair.  The mapping reads
`waiting` off a request that has asked Redis about a token that is not outdated by
the row it read, and `vetted` off one whose answer lets it pass or that mints next;
`revoked` are the acknowledged revocations, `exchanged` the tokens pairs were made
from.  `Clean` is where the fail-open goes: a revoked token passes only while Redis is
out of reach, an exchanged one only if it ever was (the SETEX may have been lost), any
in its last second.  What is shown of `EXISTS` is that "no such key" means
`Clean` at the instant it was asked: by `Inv` for revoked tokens and by the `Spent` of
the rotation for exchanged ones.  `Askers` adds that a request
at its check holds a refresh token and asks Redis about that very one.  `SlotMoves` says once what the move of one request does to
the two sets; every step is then a step of the gate or a stutter.

**Rate limiter.**  `Slots` gives each admission of a window a number of its own, none
above the counter; with `BelowMax`, no counter above its limit, that bounds the
admissions.  It is an invariant only because a counter outlives the two windows it is
weighed in (`Outlives`) and no script is so late that its counter may have gone
(`InTime`: a script in flight was sent no more than `Timeout` ago).
`TimeoutAssumption`, `Timeout <= Window`, is what the argument hangs on: the socket
timeout of `core/redis.py` against windows of an hour.

Refusals are judged from the other side: what the script weighs must have been let in.
While no script is sent twice, every count is backed by as many admissions (`Filled`),
each of them made in the window its counter is for (`Dated`).  A refused request keeps
what it was refused on (`Justified`): admissions do not go away, so the reason stands
although the counters expire.  For `RefusalEnds` a client that was let in nowhere since
the reset has no admission in either window that would be weighed now, hence, by
`Filled`, no count.

`LastRemainingIsTrue` is about `request.state`, which every limiter of the chain
overwrites.  `LastInv` says that whoever is past the chain stands at its last limiter,
and that this one would let in another request as long as nobody else came and the
clock stands still.  `RoomLeft` is the arithmetic: the script rounds the weighted
count up, so a positive remainder after the request was counted leaves room for one
more before rounding, too.

**Lockout.**  `OutageCounted` makes the absence of faults, retries and restarts
visible in the state, which is the premise of both properties.  `AttemptsBounded`
counts those who have passed the check and have not reported yet; the proof is
about the cardinality of that set as requests enter and leave it.  Logins of another
spelling are checked against nothing and counted all the same: `OwnCounted` says that
what an address has in its own spelling is no more than its counter, so the check of
the counter bounds the former however far the others drive the latter.

**Password reset.**  A token is checked before its await and redeemed after it.
`Holding` says that whoever redeems holds the users row meanwhile and works on a
ticket newer than the last password change, `RowsFresh` that the rows themselves
are, each for itself since the clean-up may take one and leave the other, `Targets` that requests name tickets that exist.  `MailsOnRecord` says that the
ticket somebody is about to mail is on record: between the commit of the rows and the
mail its coroutine keeps the loop, and no restart or cleanup takes the rows without
taking the mail.  From `Inv` each step is a
step of `OneTimeCode` or leaves its variables alone.

**Account lifecycle.**  `Aims` says that a request works on a row that was there,
`CodesApart` that a code not stored yet belongs to one request and was never stored
before, `IssuedBefore` that codes on record and lapsed ones come from those that were
generated.  With these, storing a code is a step of `OneTimeCode` however the
threads interleave; `Simulation` is proved once for both kinds of code.

For `LinkedIsVerified` a link to an unverified account has a request at its second
commit that works on that account; however that request ends, by an error or a restart,
the account is in `torn` from then on.

`MailsOfThisAccount` needs more than the rows.  A request in flight, a mail and a row
each tie a code to an account (`Ties`); `OneAccount` says that no two of them tie the
same code to different ones, and that no tie is to a code not generated yet.  A step
either moves ties about (`TiesKept`) or adds one to a fresh code (`TiesFresh`).  That a
row is tied to the account there is rests on the foreign key: an INSERT for a user
who is gone fails, an UPDATE finds no row.

**Scheduler.**  A handler is `Careful` when nothing in it that comes back to the
loop (an await, a mail from a thread) happens with a row locked.  `LocksAreSteps`
ties a lock to the step of the program that took it, by `Held`, the rows a handler
has locked before step `i`; `HeldGrows` is about programs
alone.  `CarefulAssumption` in `Endpoints` says, and TLC evaluates, which of this service's
handlers are careful.  The others (codes, tokens and invitations that are
redeemed or validated, deletion, disabling, the forced reset) come back to the
loop with a row locked: those are the ones that can stop the server.

What can stop it at all is a matter of who waits for whom.  If nobody goes on and the
loop is free, everyone in flight waits for somebody's row, and whoever is waited for is
in flight.  Requests are finitely many, so a smallest set of requests that wait
for one of their own exists (`WaitsInCycle`, by the well-foundedness of strict
inclusion), and in a smallest one everybody is waited for: a cycle, which Postgres
breaks.  So a coroutine on the loop that waits for a row is the only way to a stop
(`RowsAloneStop`).  If the holder of such a row runs in a thread, it goes on or waits
for somebody in turn, and all of them waiting for one another would be a cycle again.
So at the end there is one that holds a row and does not run; it needs the loop, and a
careful handler never does with a row locked (`HolderStuck`).  `CarelessAloneStop` says
it of any mixture of handlers, this service's included: what stops the server is always
one of those outside `CarefulHandlers`, and they are the ones to change.  "Goes on" is `GoesOn`,
a condition on the state; that it is what is enabled is `OnlyLoopAndRowsKeep`, which
TLC checks.

Only model-checked: `LockoutEnds` and `AnsweredUnlessHung`, which are liveness under
fairness, and `OnlyLoopAndRowsKeep`, which says what is `ENABLED`.  TLAPS proves neither.

## 5. Not modelled

- **Development codes** (`utils/dev_codes.py`): a bounded deque under one lock; each
  call is one atomic step, and it is off in production.  A model would restate it.
- **Password hashing, schemas, error responses, list queries**: no state.  The
  models number passwords and leave out requests that validation refuses.
- **Logging, configuration**: the settings are the constants of the models.
- **The mail texts and Google's side of OAuth**: a mail is a call that may deliver
  and may fail; Google is a sign-in with some account.
- **`verify_email_token`**: no code of the service creates the JWT it takes, so it is
  a handler of `Endpoints` and nothing else; it shares rows and locks with the code.
- **Migrations, `scripts/`, `dev_client/`**: run by hand or outside of the service.
- **Several processes.**  The service is started as one; the limiter, the lockout and
  the blacklist would be shared by several, the event loop would not.
- **Expiry of Redis keys by eviction, a Redis that is restarted and loses its keys.**
  Nothing in the code handles either.

What is left to do: the share locks of foreign keys in `EventLoop`.
