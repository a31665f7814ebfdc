----------------------------- MODULE RateLimiter -----------------------------
(***************************************************************************)
(* The rate limiters of app/api/dependencies/rate_limiter.py: the limiters *)
(* that guard one endpoint, in the order of its dependencies, and the      *)
(* middleware of app/main.py that turns their findings into headers.       *)
(*                                                                         *)
(* A limiter reads the clock, then sends its Lua script to Redis; the      *)
(* script runs at once but arrives late, so it judges by a time that may   *)
(* have passed.  Counters are Redis keys with a TTL, one per fixed window; *)
(* the count of the window before is weighed by how much of it a sliding   *)
(* window would still cover.                                               *)
(***************************************************************************)
EXTENDS Integers, FiniteSets, Sequences

CONSTANTS
    Requests,   \* slots for requests in flight
    Ips,        \* client addresses
    Emails,     \* what a body may carry in "email"; NoEmail if it does not parse
    NoEmail,    \* no e-mail, or one that is not looked at
    Chain,      \* the endpoint's limiters, as [max, by_email]
    Window,     \* WINDOW_SECONDS
    Timeout,    \* how long a command may be under way (REDIS_SOCKET_TIMEOUT)
    MaxClock,   \* bound: the clock stops here
    MaxFaults,  \* bound: Redis outages, and times that no connection was free
    MaxLost     \* bound: replies that get lost

ASSUME WindowAssumption == Window \in Nat \ {0}
ASSUME TimeoutAssumption == Timeout \in 0 .. Window
ASSUME ChainAssumption ==
    Chain \in Seq([max : Nat \ {0}, by_email : BOOLEAN]) /\ Len(Chain) > 0
ASSUME LimiterBounds ==
    Ips # {} /\ {MaxClock, MaxFaults, MaxLost} \subseteq Nat

VARIABLES
    clock,      \* now, in seconds
    count,      \* Redis: the value of each counter
    expires,    \* Redis: when each counter expires; 0 if it was never set
    redis,      \* "up"; "failing": every command errors; "none": no client
    req,        \* the requests in flight, and the answers that just left
    faults,     \* outages so far
    full,       \* times so far that no connection was free
    lost,       \* replies lost so far
    log         \* the admissions  (history)

vars == <<clock, count, expires, redis, req, faults, full, lost, log>>

Limiters == 1 .. Len(Chain)
WindowId(t) == t \div Window
Clients == Ips \X (Emails \union {NoEmail})
Keys == [limiter : Limiters, id : -1 .. WindowId(MaxClock), client : Clients]

\* A request: where it stands, who sent it, the limiter it is at, the time
\* that limiter sampled, whether the script was already sent once in vain,
\* whether a limiter let it through unjudged, and request.state.
NoState == [limit |-> 0, remaining |-> 0, reset |-> 0]

NoRequest == [pc |-> "idle", ip |-> CHOOSE i \in Ips : TRUE, email |-> NoEmail,
              stage |-> 1, now |-> 0, again |-> FALSE, open |-> FALSE,
              state |-> NoState]

Request ==
    [pc : {"idle", "limiter", "sent", "handler", "handled", "refused"},
     ip : Ips, email : Emails \union {NoEmail}, stage : Limiters,
     now : 0 .. MaxClock, again : BOOLEAN, open : BOOLEAN,
     state : [limit : Nat, remaining : Nat, reset : Nat]]

Init ==
    /\ clock = 0
    /\ count = [k \in Keys |-> 0]
    /\ expires = [k \in Keys |-> 0]
    /\ redis \in IF MaxFaults = 0 THEN {"up"} ELSE {"up", "none"}
    /\ req = [r \in Requests |-> NoRequest]
    /\ faults = 0 /\ full = 0 /\ lost = 0
    /\ log = {}

-----------------------------------------------------------------------------
\* _build_client_key and _redis_keys.
ClientKey(l, q) ==
    IF Chain[l].by_email THEN <<q.ip, q.email>> ELSE <<q.ip, NoEmail>>

Key(l, id, client) == [limiter |-> l, id |-> id, client |-> client]

\* GET of a counter: '0' when the key is gone.
CountOf(k) == IF clock < expires[k] THEN count[k] ELSE 0

\* The script's `weighted`, times Window to stay among the integers.
Weighted(l, client, now) ==
    LET id == WindowId(now)
        elapsed == now - id * Window
    IN  CountOf(Key(l, id - 1, client)) * (Window - elapsed)
            + CountOf(Key(l, id, client)) * Window

\* A slip: one more than the limit is let in.
AllowedOneMore(l, client, now) == Weighted(l, client, now) <= Chain[l].max * Window

Allowed(l, client, now) == Weighted(l, client, now) < Chain[l].max * Window

Ceiling(weighted) == (weighted + Window - 1) \div Window

\* A slip: the counter lives as long as its window.
IncrOneWindow(k) ==
    /\ count' = [count EXCEPT ![k] = CountOf(k) + 1]
    /\ expires' = [expires EXCEPT ![k] = clock + Window]

\* INCR and EXPIRE, inside the script.
Incr(k) ==
    /\ count' = [count EXCEPT ![k] = CountOf(k) + 1]
    /\ expires' = [expires EXCEPT ![k] = clock + 2 * Window]

\* A slip: the headers say what was left before the request was let in.
StateOfBefore(l, client, now, allowed) ==
    LET used == Ceiling(Weighted(l, client, now))
    IN  [limit |-> Chain[l].max,
         remaining |-> IF used < Chain[l].max THEN Chain[l].max - used ELSE 0,
         reset |-> (WindowId(now) + 1) * Window]

\* max(0, self.max_requests - count) and what else the limiter leaves for the
\* middleware; the script counts the request it lets in.
StateOf(l, client, now, allowed) ==
    LET used == Ceiling(Weighted(l, client, now)) + (IF allowed THEN 1 ELSE 0)
    IN  [limit |-> Chain[l].max,
         remaining |-> IF used < Chain[l].max THEN Chain[l].max - used ELSE 0,
         reset |-> (WindowId(now) + 1) * Window]

-----------------------------------------------------------------------------
\* A slip: what follows the last limiter is taken for one more.
PassOn(q) == [q EXCEPT !.pc = "limiter", !.again = FALSE, !.stage = @ + 1]

\* The next dependency, or the route handler after the last.
Pass(q) == IF q.stage = Len(Chain)
           THEN [q EXCEPT !.pc = "handler", !.again = FALSE]
           ELSE [q EXCEPT !.pc = "limiter", !.again = FALSE, !.stage = @ + 1]

counters == <<count, expires>>
environment == <<clock, redis, faults, full>>

Arrive(r, ip, email) ==
    /\ req[r].pc \in {"idle", "handled", "refused"}
    /\ req' = [req EXCEPT ![r] = [NoRequest EXCEPT !.pc = "limiter",
                                     !.ip = ip, !.email = email]]
    /\ UNCHANGED <<environment, counters, lost, log>>

\* get_redis() gives a client and the pool a connection: the script is sent.
Send(r) ==
    /\ req[r].pc = "limiter" /\ redis # "none"
    /\ req' = [req EXCEPT ![r].pc = "sent", ![r].now = clock]
    /\ UNCHANGED <<environment, counters, lost, log>>

\* There is no client.
PassUnasked(r) ==
    /\ req[r].pc = "limiter" /\ redis = "none"
    /\ req' = [req EXCEPT ![r] = [Pass(@) EXCEPT !.open = TRUE]]
    /\ UNCHANGED <<environment, counters, lost, log>>

\* The requests of the whole service share REDIS_MAX_CONNECTIONS connections.
\* That none is free is a RedisError, too, though Redis be well.
PoolExhausted(r) ==
    /\ req[r].pc = "limiter" /\ redis # "none" /\ faults + full < MaxFaults
    /\ req' = [req EXCEPT ![r] = [Pass(@) EXCEPT !.open = TRUE]]
    /\ full' = full + 1
    /\ UNCHANGED <<clock, redis, faults, counters, lost, log>>

\* The script runs and lets the request in; its reply is in time.
Admit(r) ==
    LET q == req[r]
        l == q.stage
        client == ClientKey(l, q)
        k == Key(l, WindowId(q.now), client)
    IN  /\ q.pc = "sent" /\ redis = "up" /\ Allowed(l, client, q.now)
        /\ Incr(k)
        /\ log' = log \union {[key |-> k, at |-> q.now, slot |-> CountOf(k) + 1]}
        /\ req' = [req EXCEPT ![r] = [Pass(q) EXCEPT
                                        !.state = StateOf(l, client, q.now, TRUE)]]
        /\ UNCHANGED <<environment, lost>>

\* A slip: a request that is refused counts all the same.
RefuseCounting(r) ==
    LET q == req[r]
        l == q.stage
        client == ClientKey(l, q)
    IN  /\ q.pc = "sent" /\ redis = "up" /\ ~Allowed(l, client, q.now)
        /\ Incr(Key(l, WindowId(q.now), client))
        /\ req' = [req EXCEPT ![r].pc = "refused", ![r].again = FALSE,
                              ![r].state = StateOf(l, client, q.now, FALSE)]
        /\ UNCHANGED <<environment, lost, log>>

\* The script refuses: 429, with Retry-After until `reset`.
Refuse(r) ==
    LET q == req[r]
        l == q.stage
        client == ClientKey(l, q)
    IN  /\ q.pc = "sent" /\ redis = "up" /\ ~Allowed(l, client, q.now)
        /\ req' = [req EXCEPT ![r].pc = "refused", ![r].again = FALSE,
                              ![r].state = StateOf(l, client, q.now, FALSE)]
        /\ UNCHANGED <<environment, counters, lost, log>>

\* The script lets the request in but its reply does not get through in time:
\* with retry_on_timeout the client sends the same script once more.
LoseReply(r) ==
    LET q == req[r]
        client == ClientKey(q.stage, q)
    IN  /\ q.pc = "sent" /\ redis = "up" /\ ~q.again /\ lost < MaxLost
        /\ Allowed(q.stage, client, q.now)
        /\ Incr(Key(q.stage, WindowId(q.now), client))
        /\ req' = [req EXCEPT ![r].again = TRUE]
        /\ lost' = lost + 1
        /\ UNCHANGED <<environment, log>>

\* except RedisError: the limiter fails open.
FailOpen(r) ==
    /\ req[r].pc = "sent" /\ redis = "failing"
    /\ req' = [req EXCEPT ![r] = [Pass(@) EXCEPT !.open = TRUE]]
    /\ UNCHANGED <<environment, counters, lost, log>>

\* The handler answers, and rate_limit_headers_middleware sets the headers
\* from what the limiters left in request.state.
Handle(r) ==
    /\ req[r].pc = "handler"
    /\ req' = [req EXCEPT ![r].pc = "handled"]
    /\ UNCHANGED <<environment, counters, lost, log>>

-----------------------------------------------------------------------------
\* No command is under way for longer than the socket's timeout.
Tick ==
    /\ clock < MaxClock
    /\ \A r \in Requests : req[r].pc = "sent" => clock < req[r].now + Timeout
    /\ clock' = clock + 1
    /\ UNCHANGED <<counters, redis, req, faults, full, lost, log>>

RedisFails ==
    /\ redis = "up" /\ faults + full < MaxFaults
    /\ redis' = "failing" /\ faults' = faults + 1
    /\ UNCHANGED <<clock, counters, req, full, lost, log>>

RedisRecovers ==
    /\ redis = "failing"
    /\ redis' = "up"
    /\ UNCHANGED <<clock, counters, req, faults, full, lost, log>>

Next ==
    \/ \E r \in Requests :
          \/ \E ip \in Ips, email \in Emails : Arrive(r, ip, email)
          \/ Send(r) \/ PassUnasked(r) \/ PoolExhausted(r) \/ Admit(r) \/ Refuse(r)
          \/ LoseReply(r) \/ FailOpen(r) \/ Handle(r)
    \/ Tick \/ RedisFails \/ RedisRecovers

Spec == Init /\ [][Next]_vars

-----------------------------------------------------------------------------
Admitted(k) == {a \in log : a.key = k}

\* The state is well typed: counters and TTLs are numbers, requests stand at
\* a limiter of the chain, and no sample is from the future.
TypeOK ==
    /\ clock \in 0 .. MaxClock
    /\ count \in [Keys -> Nat]
    /\ expires \in [Keys -> Nat]
    /\ redis \in {"up", "failing", "none"}
    /\ log \subseteq [key : Keys, at : 0 .. MaxClock, slot : Nat]
    /\ req \in [Requests -> Request]
    /\ \A r \in Requests : req[r].now <= clock
    /\ faults \in Nat /\ full \in Nat /\ lost \in Nat

\* No window of a client is granted more than its limiter's maximum, however
\* many requests are judged at once, late, or after the window has ended
\* (the script and its keys).
WindowBound ==
    \A k \in Keys : Cardinality(Admitted(k)) <= Chain[k.limiter].max

\* No admission that a limiter would have to weigh now has been forgotten:
\* the counters of this window and the one before outlive their use (EXPIRE
\* of twice the window).
NothingForgotten ==
    \A k \in Keys :
        k.id \in {WindowId(clock) - 1, WindowId(clock)}
            => CountOf(k) >= Cardinality(Admitted(k))

\* A client is refused only if it was let in as often as the limiter allows, in
\* this window and the one before together (README, "5/hr per IP+email"); but a
\* script that is sent again, its reply lost, counts one request twice.
RefusedOnlyAtLimit ==
    lost = 0 => \A r \in Requests : LET q == req[r]
                            here == Key(q.stage, WindowId(q.now), ClientKey(q.stage, q))
        IN  q.pc = "refused"
            => Cardinality(Admitted(here)
                   \union Admitted([here EXCEPT !.id = @ - 1])) >= Chain[q.stage].max

\* A client that stays away is let in again: one window after the announced
\* reset nothing is held against it but what it was granted since, however
\* often it was refused (and again only while no script was sent twice).
RefusalEnds ==
    lost = 0 => \A r \in Requests : LET q == req[r]
                                        client == ClientKey(q.stage, q)
        IN  /\ q.pc = "refused" /\ clock >= q.state.reset + Window
            /\ \A a \in log : a.key.limiter = q.stage /\ a.key.client = client
                                 => a.at < q.state.reset
            => Allowed(q.stage, client, clock)

\* X-RateLimit-Remaining is true of the limiter that wrote request.state last:
\* a client told that requests remain is let in by it at once, if it is alone
\* and no limiter was skipped.  (Of the limiters before it the header says
\* nothing: RemainingIsTrue, below, is what does not hold.)
LastRemainingIsTrue ==
    \A r \in Requests : LET q == req[r]
        IN  /\ q.pc = "handled" /\ ~q.open /\ q.state.remaining > 0
            /\ clock = q.now
            /\ \A s \in Requests \ {r} : req[s].pc = "idle"
            => Allowed(Len(Chain), ClientKey(Len(Chain), q), clock)

-----------------------------------------------------------------------------
(* What the documents, messages and tests of the repository promise, and   *)
(* the code does not keep: README.md, "Divergences".                       *)

\* Whatever span of Window seconds one looks at, a client was let in no more
\* than the limit ("10/hr", "sliding-window rate limiting").
SlidingWindow ==
    \A l \in Limiters, client \in Clients, from \in 0 .. MaxClock :
        Cardinality({a \in log : /\ a.key.limiter = l /\ a.key.client = client
                                 /\ a.at \in from .. from + Window - 1})
            <= Chain[l].max

\* A request gets past a limiter without a verdict only if Redis has been out
\* of reach (README, "If Redis is unreachable, the limiters fail open").
OpenOnlyIfUnreachable ==
    \A r \in Requests : req[r].open => redis = "none" \/ faults > 0

\* Once the announced reset has come, a client that was let in nowhere since
\* is let in (main.py, "When the rate limit window resets").
ResetAdmits ==
    \A r \in Requests : LET q == req[r]
                            client == ClientKey(q.stage, q)
        IN  /\ q.pc = "refused" /\ clock >= q.state.reset
            /\ \A a \in log : a.key.client = client => a.at < q.state.reset
            => Allowed(q.stage, client, clock)

\* A client told that requests remain can make one at once, if it is alone
\* (main.py, "How many requests the client has left").
RemainingIsTrue ==
    \A r \in Requests : LET q == req[r]
        IN  /\ q.pc = "handled" /\ q.state.remaining > 0 /\ clock = q.now
            /\ \A s \in Requests \ {r} : req[s].pc = "idle"
            => \A l \in Limiters : Allowed(l, ClientKey(l, q), clock)
=============================================================================
