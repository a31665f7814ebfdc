------------------------------ MODULE AuthState ------------------------------
(***************************************************************************)
(* What the request handlers of the service share: the users table in      *)
(* PostgreSQL, the tokens handed out, the token blacklist in Redis, the    *)
(* one event loop of the single uvicorn process, and the requests in       *)
(* flight.                                                                 *)
(*                                                                         *)
(* An `async def` handler runs on the event loop and lets go of it only at *)
(* an await that really waits, which in this code is a Redis command; its  *)
(* SQL is synchronous and keeps the loop.  A `def` handler runs in the     *)
(* thread pool and interleaves with everything at every SQL statement.     *)
(***************************************************************************)
EXTENDS JwtTokens

CONSTANTS
    Users,      \* rows of the users table
    Requests,   \* slots for requests in flight
    Idle,       \* "no request": the loop is free, or a row is not locked
    MaxClock,   \* bound: the clock stops here
    MaxTokens,  \* bound: jtis that may be handed out
    MaxPw,      \* bound: passwords a user may go through
    MaxFaults   \* bound: Redis outages and process restarts

ASSUME BoundsAssumption ==
    {MaxClock, MaxTokens, MaxPw, MaxFaults} \subseteq Nat
ASSUME RequestsAssumption == Users # {} /\ Idle \notin Requests

VARIABLES
    clock,      \* now, in ticks
    users,      \* the users table
    issued,     \* how many tokens were handed out; their jtis are 1 .. issued
    tokens,     \* the claims of each jti
    blacklist,  \* Redis: when the key blacklist:<jti> expires
    redis,      \* "up"; "failing": every command errors; "none": no client
    faults,     \* outages and restarts so far
    degraded,   \* has Redis ever been out of reach?  (history)
    revoked,    \* the jtis whose SETEX Redis acknowledged  (history)
    loop,       \* the coroutine that holds the event loop
    rowLock,    \* the transaction that holds the user's row FOR UPDATE
    req         \* the requests in flight

vars == <<clock, users, issued, tokens, blacklist, redis, faults, degraded,
          revoked, loop, rowLock, req>>

Roles == {"user", "admin"}
Jti == 1 .. MaxTokens
Stamp == Nat \union {Never}

\* A row of app/models/user.py.  `pw` numbers the successive passwords; the
\* users of this model are verified and have a password of their own.
Row == [exists : BOOLEAN, is_disabled : BOOLEAN, pw : Nat, role : Roles,
        password_changed_at : Stamp, role_changed_at : Stamp]

NewRow == [exists |-> TRUE, is_disabled |-> FALSE, pw |-> 0, role |-> "user",
           password_changed_at |-> Never, role_changed_at |-> Never]

\* How a token came to be: by which endpoint, at what time, under which
\* password, from which refresh token (0: none) and in answer to a request
\* that began when `began` tokens were out.
Origin == [via : {"login", "refresh", "google"}, at : Nat, pw : Nat,
           parent : Nat, began : Nat]

Token == [type : TokenTypes, sub : Users, role : Roles, iat : Int, exp : Int,
          origin : Origin]

\* What an unused jti and an unused request slot hold.
SomeUser == CHOOSE u \in Users : TRUE

NoToken == CreateToken("access", SomeUser, "user", 0,
               [via |-> "login", at |-> 0, pw |-> 0, parent |-> 0, began |-> 0])

\* Where a handler stands between two of its steps.
Steps == {"idle", "login_mint", "refresh_check", "refresh_mint",
          "logout_cookie", "logout_done", "google_mint", "change_auth",
          "change_stamp", "change_commit", "delete_auth", "delete_lock", "delete_cookie",
          "delete_commit", "role_stamp", "role_commit", "disable_commit", "force_lock",
          "force_stamp", "force_commit"}

\* A request: where its handler is, the user and the tokens it is about, the
\* row it read, the timestamp it took, and its Redis command in flight.
Request == [pc : Steps, user : Users, jti : Nat, cookie : Nat, row : Row,
            stamp : Stamp, role : Roles, began : Nat,
            call : {"none", "exists", "setex", "other", "answered"},
            target : Nat, ttl : Int, answer : BOOLEAN]

NoRequest == [pc |-> "idle", user |-> SomeUser, jti |-> 0,
              cookie |-> 0, row |-> NewRow, stamp |-> Never, role |-> "user",
              began |-> 0, call |-> "none", target |-> 0, ttl |-> 0,
              answer |-> FALSE]

-----------------------------------------------------------------------------
Minted == 1 .. issued

\* r's coroutine may run: the loop is free, or r never let go of it.
OnLoop(r) == loop \in {Idle, r}

\* No other transaction holds u's row.
RowFree(r, u) == rowLock[u] \in {Idle, r}

\* What a client sends as its refresh_token cookie: a refresh token, or none.
Cookies == {0} \union {j \in Minted : tokens[j].type = "refresh"}

\* The key blacklist:<j> answers EXISTS.
Blacklisted(j) == redis = "up" /\ clock < blacklist[j]

\* The comparisons with password_changed_at and role_changed_at that
\* get_current_user and refresh_access_token both make.
Stale(token, row) == \/ IssuedBefore(token, row.password_changed_at)
                     \/ IssuedBefore(token, row.role_changed_at)

\* A new request in slot r, and a request's answer to its client.
Begin(r, pc, u) ==
    [NoRequest EXCEPT !.pc = pc, !.user = u, !.began = issued]
Goes(r, request) == req' = [req EXCEPT ![r] = request]
Finish(r) == Goes(r, NoRequest)

\* The request with a Redis command about jti j on its way.
Calls(request, call, j, ttl) ==
    [request EXCEPT !.call = call, !.target = j, !.ttl = ttl]

\* The coroutine goes on with no Redis command: it keeps the loop.
Skip(r, request) ==
    Goes(r, [request EXCEPT !.call = "answered"]) /\ loop' = r

\* await is_blacklisted(j), in the coroutine that goes on as `request`.
AskBlacklist(r, request, j) ==
    IF redis = "none"
    THEN Skip(r, request)
    ELSE Goes(r, Calls(request, "exists", j, 0)) /\ loop' = Idle

\* await add_to_blacklist(j, exp): there is nothing to wait for without a
\* client, nor for a token in its last second.
AddToBlacklist(r, request, j) ==
    LET ttl == BlacklistTtl(tokens[j], clock)
    IN  IF redis = "none" \/ ttl = 0
        THEN Skip(r, request)
        ELSE Goes(r, Calls(request, "setex", j, ttl)) /\ loop' = Idle

Answered(r, pc) == req[r].pc = pc /\ req[r].call = "answered" /\ OnLoop(r)

\* create_access_token and create_refresh_token for a row the handler read.
MintPair(r, via, row, parent) ==
    LET q == req[r]
        origin == [via |-> via, at |-> clock, pw |-> row.pw,
                   parent |-> parent, began |-> q.began]
    IN  /\ issued + 2 <= MaxTokens
        /\ issued' = issued + 2
        /\ tokens' = [tokens EXCEPT
             ![issued + 1] = CreateToken("access", q.user, row.role, clock, origin),
             ![issued + 2] = CreateToken("refresh", q.user, row.role, clock, origin)]

\* What every handler leaves alone: only the environment changes it.
environment == <<clock, redis, faults, degraded>>
store == <<blacklist, revoked>>
ledger == <<issued, tokens>>
=============================================================================
