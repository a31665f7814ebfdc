----------------------------- MODULE TokenSessions -----------------------------
(***************************************************************************)
(* The sessions of the service: the session endpoints, the account         *)
(* operations that end sessions, Redis with its outages, the passing of    *)
(* time and the restart of the process, composed.                          *)
(***************************************************************************)
EXTENDS AuthServices, AccountServices

CONSTANT Endpoints    \* which endpoints clients call, to size an instance

Init ==
    /\ clock = 0
    /\ users = [u \in Users |-> NewRow]
    /\ issued = 0
    /\ tokens = [j \in Jti |-> NoToken]
    /\ blacklist = [j \in Jti |-> 0]
    /\ \/ redis = "up" /\ faults = 0
       \/ redis = "none" /\ faults = 1 /\ MaxFaults > 0
    /\ degraded = (redis = "none")
    /\ revoked = {}
    /\ loop = Idle
    /\ rowLock = [u \in Users |-> Idle]
    /\ req = [r \in Requests |-> NoRequest]

-----------------------------------------------------------------------------
(* The environment. *)

Tick == /\ clock < MaxClock
        /\ clock' = clock + 1
        /\ UNCHANGED <<users, ledger, store, redis, faults, degraded, loop,
                       rowLock, req>>

\* Redis takes a command some time before its coroutine runs again.  One that
\* fails may have been carried out, the answer being what was lost.
RedisExists(r) ==
    /\ req[r].call = "exists"
    /\ Goes(r, [req[r] EXCEPT !.call = "answered", !.target = 0,
                              !.answer = Blacklisted(req[r].target)])
    /\ UNCHANGED <<environment, store, ledger, users, loop, rowLock>>

RedisSetex(r) ==
    LET j   == req[r].target
        set == [blacklist EXCEPT ![j] = clock + req[r].ttl]
    IN  /\ req[r].call = "setex"
        /\ \/ redis = "up" /\ blacklist' = set /\ revoked' = revoked \union {j}
           \/ redis = "failing" /\ blacklist' = set /\ UNCHANGED revoked
           \/ redis = "failing" /\ UNCHANGED store
        /\ Goes(r, [req[r] EXCEPT !.call = "answered", !.target = 0, !.ttl = 0])
        /\ UNCHANGED <<environment, ledger, users, loop, rowLock>>

RedisOther(r) ==
    /\ req[r].call = "other"
    /\ Goes(r, [req[r] EXCEPT !.call = "answered"])
    /\ UNCHANGED <<environment, store, ledger, users, loop, rowLock>>

RedisFails == /\ redis = "up" /\ faults < MaxFaults
              /\ redis' = "failing" /\ faults' = faults + 1 /\ degraded' = TRUE
              /\ UNCHANGED <<clock, users, ledger, store, loop, rowLock, req>>

RedisRecovers == /\ redis = "failing"
                 /\ redis' = "up"
                 /\ UNCHANGED <<clock, users, ledger, store, faults, degraded,
                                loop, rowLock, req>>

\* The process dies with its requests and its locks; init_redis pings once
\* when it starts again, and leaves no client when that fails.
Restart == /\ faults < MaxFaults
           /\ faults' = faults + 1
           /\ redis' \in {"up", "none"}
           /\ degraded' = (degraded \/ redis' = "none")
           /\ loop' = Idle
           /\ rowLock' = [u \in Users |-> Idle]
           /\ req' = [r \in Requests |-> NoRequest]
           /\ UNCHANGED <<clock, users, ledger, store>>

-----------------------------------------------------------------------------
AuthStep(r) ==
    \/ /\ "login" \in Endpoints
       /\ \E u \in Users : LoginRead(r, u)
    \/ LoginMint(r)
    \/ /\ "refresh" \in Endpoints
       /\ \E j \in Minted : RefreshRead(r, j)
    \/ RefreshCheck(r) \/ RefreshRefused(r) \/ RefreshMint(r)
    \/ /\ "logout" \in Endpoints
       /\ \E j \in Minted, cookie \in Cookies : Logout(r, j, cookie)
    \/ LogoutCookie(r) \/ LogoutDone(r)
    \/ /\ "google" \in Endpoints
       /\ \E u \in Users : GoogleRead(r, u)
    \/ GoogleMint(r)

AccountStep(r) ==
    \/ /\ "change" \in Endpoints
       /\ \E j \in Minted : Authenticate(r, j, 0, "change_auth")
    \/ ChangeStart(r) \/ ChangeStamp(r) \/ ChangeCommit(r)
    \/ /\ "delete" \in Endpoints
       /\ \E j \in Minted, cookie \in Cookies :
             Authenticate(r, j, cookie, "delete_auth")
    \/ AuthRefused(r)
    \/ DeleteStart(r) \/ DeleteLock(r) \/ DeleteCookie(r) \/ DeleteCommit(r)

AdminStep(r) ==
    \/ /\ "role" \in Endpoints
       /\ \E u \in Users, new \in Roles : RoleRead(r, u, new)
    \/ RoleStamp(r) \/ RoleCommit(r)
    \/ /\ "disable" \in Endpoints
       /\ \E u \in Users : DisableLock(r, u) \/ Enable(r, u)
    \/ DisableCommit(r)
    \/ /\ "force" \in Endpoints
       /\ \E u \in Users : ForceStart(r, u)
    \/ ForceLock(r) \/ ForceStamp(r) \/ ForceCommit(r)

RedisStep(r) == RedisExists(r) \/ RedisSetex(r) \/ RedisOther(r)

Environment == Tick \/ RedisFails \/ RedisRecovers \/ Restart

Next == \/ Environment
        \/ \E r \in Requests :
              AuthStep(r) \/ AccountStep(r) \/ AdminStep(r) \/ RedisStep(r)

Spec == Init /\ [][Next]_vars

-----------------------------------------------------------------------------
\* Types: every variable keeps its shape, the clock and the ledger of tokens
\* stay in their bounds.
TypeOK ==
    /\ clock \in 0 .. MaxClock
    /\ users \in [Users -> Row]
    /\ issued \in 0 .. MaxTokens
    /\ tokens \in [Jti -> Token]
    /\ blacklist \in [Jti -> Int]
    /\ redis \in {"up", "failing", "none"}
    /\ faults \in 0 .. MaxFaults
    /\ degraded \in BOOLEAN
    /\ revoked \subseteq Minted
    /\ loop \in Requests \union {Idle}
    /\ rowLock \in [Users -> Requests \union {Idle}]
    /\ req \in [Requests -> Request]

\* Would get_current_user let the bearer of token j in, now?
Accepted(j) ==
    LET row == users[tokens[j].sub]
    IN  /\ j \in Minted
        /\ Decodes(tokens[j], "access", clock) /\ ~Blacklisted(j)
        /\ row.exists /\ ~row.is_disabled
        /\ ~Stale(tokens[j], row)

\* Would refresh_access_token turn token j into a new pair, now?
Refreshable(j) ==
    LET row == users[tokens[j].sub]
    IN  /\ j \in Minted
        /\ Decodes(tokens[j], "refresh", clock) /\ ~Blacklisted(j)
        /\ row.exists
        /\ ~Stale(tokens[j], row)

Usable(j) == Accepted(j) \/ Refreshable(j)

\* A revoked token (logout, rotation, account deletion) whose SETEX Redis
\* acknowledged is refused while Redis answers, save in the last second of
\* its life: the truncated TTL of add_to_blacklist lets the key go early, but
\* never by a whole second, whatever order calls and answers come in.
RevokedUntilLastSecond ==
    \A j \in revoked :
        redis = "up" /\ Usable(j) => tokens[j].exp - clock < TicksPerSecond

\* Nobody gets in on an old password: a token that a login made, unless at
\* the very instant of the change, is accepted only while the password that
\* opened it is the account's.  user_login and change_password both read and
\* write in one slice of the loop.
LoginMatchesPassword ==
    \A j \in Minted :
        LET row == users[tokens[j].sub]
            o   == tokens[j].origin
        IN  Usable(j) /\ o.via = "login" /\ o.at # row.password_changed_at
                => o.pw = row.pw

\* Requests that will be given a pair.
Granted == {r \in Requests : \/ req[r].pc = "refresh_mint"
                             \/ /\ req[r].pc = "refresh_check"
                                /\ req[r].call = "answered" /\ MayRefresh(r)}

PairedOnce ==
    ~degraded =>
        \A i, j \in Minted :
            LET p == tokens[i].origin.parent
            IN  /\ i < j /\ tokens[i].type = "refresh" /\ tokens[j].type = "refresh"
                /\ p \in Minted /\ tokens[j].origin.parent = p
                => \/ tokens[j].origin.began < i
                   \/ tokens[p].exp - tokens[j].origin.at < TicksPerSecond

GrantedOnce ==
    ~degraded =>
        \A r \in Granted, i \in Minted :
            LET p == req[r].jti
            IN  /\ tokens[i].type = "refresh" /\ tokens[i].origin.parent = p
                => req[r].began < i \/ tokens[p].exp - clock < TicksPerSecond

\* A refresh token is rotated once, except by requests that overlap: two
\* pairs made from the same refresh token, the second made, or granted, in answer
\* to a request that came after the first pair was made, only in its last second.
RotatedOnce == PairedOnce /\ GrantedOnce

\* Where a change has taken its time and is about to commit.
CommitSteps == {"change_commit", "disable_commit", "force_commit", "role_commit"}

\* A change ends the sessions there are: when change_password, disable_user,
\* force_password_reset or change_user_role commits, every token of the user that
\* was out when its request came in is older than the new stamp, in whole seconds
\* as get_current_user compares them, unless made at that very instant, or the
\* user is gone.
ChangeEndsSessions ==
    [][\A r \in Requests, j \in Minted :
         LET row == users'[req[r].user]
         IN  /\ req[r].pc \in CommitSteps
             /\ req'[r].pc = "idle" /\ faults' = faults
             /\ j <= req[r].began /\ tokens[j].sub = req[r].user
             => \/ ~row.exists
                \/ IssuedBefore(tokens[j], IF req[r].pc = "role_commit"
                                           THEN row.role_changed_at
                                           ELSE row.password_changed_at)
                \/ tokens[j].origin.at = req[r].stamp]_vars

\* A token refused because of a password change, a forced reset, a disabling or a
\* deletion stays refused for it: but for change_password they stamp the row under
\* its lock, so neither of them, nor enabling the account or changing its role,
\* moves password_changed_at back behind the token.  change_password takes its
\* time before it has the row, and does so (see InvalidatedForGood), but only when
\* a later stamp was committed in between.
Outdated(j) ==
    LET row == users[tokens[j].sub]
    IN  ~row.exists \/ IssuedBefore(tokens[j], row.password_changed_at)

Overtaken(r) ==
    /\ req[r].pc = "change_commit"
    /\ req[r].stamp < users[req[r].user].password_changed_at

OutdatedStaysOutdated ==
    [][\A j \in Minted :
         Outdated(j) => \/ Outdated(j)'
                        \/ \E r \in Requests : /\ Overtaken(r) /\ req'[r].pc = "idle"
                                               /\ req[r].user = tokens[j].sub]_vars

-----------------------------------------------------------------------------
(* What a refresh promises: RefreshGate, and this is one.                  *)

RefreshTokens == {j \in Minted : tokens[j].type = "refresh"}

\* Is the session of refresh token p over, whatever the blacklist says?
SessionEnded(p) ==
    LET row == users[tokens[p].sub]
    IN  ~Decodes(tokens[p], "refresh", clock) \/ ~row.exists \/ Stale(tokens[p], row)

\* Requests asked about their token: one with an outdated token, which is
\* refused whatever Redis says, has been turned away already.
OfToday(r) == ~Stale(tokens[req[r].jti], req[r].row)
Asked == {r \in Requests : req[r].pc = "refresh_check" /\ req[r].call = "exists"
                           /\ OfToday(r)}

Ended == {p \in RefreshTokens : SessionEnded(p)}
Lapsing == {p \in RefreshTokens : tokens[p].exp - clock < TicksPerSecond}
Revoked == revoked \intersect RefreshTokens
Exchanged == {tokens[i].origin.parent : i \in RefreshTokens} \ {0}
Waiting == {<<r, req[r].jti>> : r \in Asked}
Vetted == {<<r, req[r].jti>> : r \in Granted}

Gate == INSTANCE RefreshGate WITH
    out <- RefreshTokens, ended <- Ended, lapsing <- Lapsing, revoked <- Revoked,
    exchanged <- Exchanged, down <- redis # "up", waiting <- Waiting, vetted <- Vetted

\* Every pair that refresh_access_token makes is in exchange for a refresh token
\* that was good for its session when the request came in and that was, at some
\* instant since, neither acknowledged as revoked nor exchanged: whatever the
\* two awaits of the handler let happen in between.
GatedRefresh == Gate!Spec

-----------------------------------------------------------------------------
(* The inductive invariant behind them.                                    *)

TokenSteps == {"refresh_check", "refresh_mint", "logout_cookie", "change_auth",
               "delete_auth", "delete_lock"}

\* A request in flight works on tokens that exist; a SETEX on its way carries
\* a TTL that will do whenever it arrives; and the timestamp a change is about
\* to commit is no older than any token that was out when it came in.
Sound(q) ==
    /\ q \in Request
    /\ q.began <= issued
    /\ q.pc \in TokenSteps => q.jti \in Minted
    /\ q.call \in {"exists", "setex"} => q.target \in Minted
    /\ q.call = "setex" => tokens[q.target].exp < clock + q.ttl + TicksPerSecond
    /\ q.pc \in CommitSteps =>
         \A j \in Minted : j <= q.began => tokens[j].origin.at <= q.stamp

RequestsSound == \A r \in Requests : Sound(req[r])

\* A blacklist key goes less than a second before its token expires.
RevokedSound ==
    \A j \in revoked : tokens[j].exp < blacklist[j] + TicksPerSecond

\* No token comes from the future, and "iat" is when it was made.
TokensSound ==
    \A j \in Minted : /\ tokens[j].origin.at <= clock
                      /\ tokens[j].iat = NumericDate(tokens[j].origin.at)

Inv == TypeOK /\ RequestsSound /\ RevokedSound /\ TokensSound

-----------------------------------------------------------------------------
(* What the documents and the tests of the repository promise, and the     *)
(* code does not keep: README.md, "Divergences".                           *)

\* The promise of rotation: a refresh token is exchanged for one new pair.
OneSuccessor ==
    \A i, j \in Minted :
        /\ tokens[i].type = "refresh" /\ tokens[j].type = "refresh"
        /\ tokens[i].origin.parent = tokens[j].origin.parent
        /\ tokens[i].origin.parent \in Minted
        => i = j

\* The promise of revocation: while Redis has always answered, a token that
\* was blacklisted is never let in again.
RevocationIsFinal == ~degraded => \A j \in revoked : ~Usable(j)

\* The promise of password changes: no token that descends from a refresh
\* token older than the change is of any use after it (unless made at the very
\* instant of the change).
SessionsEndWithPassword ==
    \A j \in Minted :
        LET p       == tokens[j].origin.parent
            changed == users[tokens[j].sub].password_changed_at
        IN  Usable(j) /\ p \in Minted /\ tokens[j].origin.at # changed
            => ~(tokens[p].origin.at < changed)

\* The promise of role changes: a token that is let in carries the user's
\* role, the tokens with another one having been invalidated (again but for
\* the very instant of the change).
RoleClaimIsCurrent ==
    \A j \in Minted :
        LET row == users[tokens[j].sub]
        IN  Accepted(j) /\ tokens[j].origin.at # row.role_changed_at
            => tokens[j].role = row.role

\* The promise of both: a token that a change invalidated stays invalid.
InvalidatedForGood ==
    [][\A j \in Minted :
         LET u == tokens[j].sub
         IN  Stale(tokens[j], users[u]) => Stale(tokens[j], users[u])']_vars
=============================================================================
