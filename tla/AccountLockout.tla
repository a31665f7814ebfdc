---------------------------- MODULE AccountLockout ----------------------------
(***************************************************************************)
(* The lockout counter of app/api/dependencies/rate_limiter.py and the     *)
(* login route that keeps it: one Redis key per e-mail address, read       *)
(* before the password is looked at and written after, each time with a    *)
(* command of its own.                                                     *)
(*                                                                         *)
(* The key that is read is named after the e-mail as the client spelled    *)
(* it in the body, the key that is written after the address it validates  *)
(* to, which is what the account is looked up by, too.                     *)
(*                                                                         *)
(* A key with a TTL disappears at some time: how long LOCKOUT_TIME_SECONDS *)
(* is makes no difference here, that the key has a TTL at all does.        *)
(***************************************************************************)
EXTENDS Integers, FiniteSets

CONSTANTS
    Requests,    \* slots for login requests in flight
    Spellings,   \* the e-mails that clients log in with, as they spell them
    Emails,      \* those spelled as EmailStr leaves them
    Normal,      \* what EmailStr makes of each: domain in lower case, no blanks
    Max,         \* MAX_ATTEMPTS_UNTILL_LOCKOUT
    MaxCount,    \* bound: failures counted when an odd spelling comes in
    MaxFaults,   \* bound: Redis outages
    MaxLost,     \* bound: replies that get lost
    MaxRestarts  \* bound: restarts of the process

ASSUME LockoutAssumption == /\ Max \in Nat \ {0}
                            /\ IsFiniteSet(Requests)
                            /\ Emails \subseteq Spellings /\ Emails # {}
                            /\ Normal \in [Spellings -> Emails]
                            /\ \A e \in Emails : Normal[e] = e
                            /\ {MaxCount, MaxFaults, MaxLost, MaxRestarts} \subseteq Nat

VARIABLES
    count,     \* Redis: lockout:<e-mail>; 0 when there is no such key
    volatile,  \* Redis: has that key a TTL?
    redis,     \* "up"; "failing": every command errors; "none": no client
    req,       \* the login requests in flight
    faults, lost, restarts,  \* outages, lost replies and restarts so far
    own        \* of the failures of an address, those in this spelling  (history)

vars == <<count, volatile, redis, req, faults, lost, restarts, own>>

\* Where a login stands: its GET is out, its password is to be verified, its
\* INCR, EXPIRE or DEL is out.  `again`: its INCR was already sent in vain.
Steps == {"idle", "get", "verify", "incr", "expire", "del"}
NoLogin == [pc |-> "idle", email |-> CHOOSE e \in Emails : TRUE, again |-> FALSE]

Init ==
    /\ count = [e \in Spellings |-> 0]
    /\ volatile = [e \in Spellings |-> FALSE]
    /\ redis \in IF MaxFaults = 0 THEN {"up"} ELSE {"up", "none"}
    /\ req = [r \in Requests |-> NoLogin]
    /\ faults = 0 /\ lost = 0 /\ restarts = 0
    /\ own = [e \in Spellings |-> 0]

\* Nothing has come between a client and its Redis so far.
Untroubled == redis = "up" /\ faults = 0 /\ lost = 0 /\ restarts = 0

keys == <<count, volatile, own>>
environment == <<redis, faults, lost, restarts>>

At(r, pc) == req[r].pc = pc
Goes(r, pc) == req' = [req EXCEPT ![r].pc = pc, ![r].again = FALSE]

\* login_data.email: what user_login, record_failure and clear are given.
Address(r) == Normal[req[r].email]

\* The key of an address goes, and with it all that was counted for it.
Forget(e) ==
    /\ count' = [count EXCEPT ![e] = 0]
    /\ volatile' = [volatile EXCEPT ![e] = FALSE]
    /\ own' = [s \in Spellings |-> IF Normal[s] = e THEN 0 ELSE own[s]]

-----------------------------------------------------------------------------
\* AccountLockout.__call__: without a client there is nothing to ask.
Begin(r, e) ==
    /\ At(r, "idle") /\ (e \in Emails \/ count[Normal[e]] < MaxCount)
    /\ req' = [req EXCEPT ![r] =
          [NoLogin EXCEPT !.email = e,
                          !.pc = IF redis = "none" THEN "verify" ELSE "get"]]
    /\ UNCHANGED <<keys, environment>>

\* A slip: one attempt more than the limit.
CheckOneMore(r) ==
    /\ At(r, "get") /\ redis = "up"
    /\ Goes(r, IF count[req[r].email] > Max THEN "idle" ELSE "verify")
    /\ UNCHANGED <<keys, environment>>

\* The GET of the key spelled like the request answers: 429, or on to the handler.
Check(r) ==
    /\ At(r, "get") /\ redis = "up"
    /\ Goes(r, IF count[req[r].email] >= Max THEN "idle" ELSE "verify")
    /\ UNCHANGED <<keys, environment>>

\* user_login says 401: record_failure.
WrongPassword(r) ==
    /\ At(r, "verify")
    /\ Goes(r, IF redis = "none" THEN "idle" ELSE "incr")
    /\ UNCHANGED <<keys, environment>>

\* The login succeeds: clear.
RightPassword(r) ==
    /\ At(r, "verify")
    /\ Goes(r, IF redis = "none" THEN "idle" ELSE "del")
    /\ UNCHANGED <<keys, environment>>

\* The password is right but the account is disabled or unverified: a 403 is
\* neither a failure nor a success for the counter.
Forbidden(r) ==
    /\ At(r, "verify")
    /\ Goes(r, "idle")
    /\ UNCHANGED <<keys, environment>>

\* A slip: the TTL is given when the limit is reached.
IncrExpireAtMax(r) ==
    LET e == Address(r)
    IN  /\ At(r, "incr") /\ redis = "up"
        /\ count' = [count EXCEPT ![e] = @ + 1]
        /\ own' = [own EXCEPT ![req[r].email] = @ + 1]
        /\ Goes(r, IF count[e] + 1 = Max + 1 THEN "expire" ELSE "idle")
        /\ UNCHANGED <<volatile, environment>>

\* The INCR answers; the first failure goes on to set the TTL.
Incr(r) ==
    LET e == Address(r)
    IN  /\ At(r, "incr") /\ redis = "up"
        /\ count' = [count EXCEPT ![e] = @ + 1]
        /\ own' = [own EXCEPT ![req[r].email] = @ + 1]
        /\ Goes(r, IF count[e] + 1 = 1 THEN "expire" ELSE "idle")
        /\ UNCHANGED <<volatile, environment>>

\* The INCR is carried out but its reply does not get through in time: with
\* retry_on_timeout the client sends it once more.
IncrLost(r) ==
    LET e == Address(r)
    IN  /\ At(r, "incr") /\ redis = "up" /\ ~req[r].again /\ lost < MaxLost
        /\ count' = [count EXCEPT ![e] = @ + 1]
        /\ req' = [req EXCEPT ![r].again = TRUE]
        /\ lost' = lost + 1
        /\ UNCHANGED <<volatile, own, redis, faults, restarts>>

\* EXPIRE of a key that is gone does nothing.
Expire(r) ==
    LET e == Address(r)
    IN  /\ At(r, "expire") /\ redis = "up"
        /\ volatile' = [volatile EXCEPT ![e] = count[e] > 0]
        /\ Goes(r, "idle")
        /\ UNCHANGED <<count, own, environment>>

\* A slip: a success takes one failure back.
DelOne(r) ==
    LET e == Address(r)
    IN  /\ At(r, "del") /\ redis = "up"
        /\ count' = [count EXCEPT ![e] = @ - 1]
        /\ Goes(r, "idle")
        /\ UNCHANGED <<volatile, own, environment>>

\* clear, after a success.
Del(r) ==
    /\ At(r, "del") /\ redis = "up"
    /\ Forget(Address(r)) /\ Goes(r, "idle")
    /\ UNCHANGED environment

\* except RedisError: the check fails open, the writes are given up.
RedisError(r) ==
    /\ redis = "failing" /\ req[r].pc \in {"get", "incr", "expire", "del"}
    /\ Goes(r, IF At(r, "get") THEN "verify" ELSE "idle")
    /\ UNCHANGED <<keys, environment>>

-----------------------------------------------------------------------------
KeyExpires(e) ==
    /\ volatile[e] /\ Forget(e)
    /\ UNCHANGED <<req, environment>>

RedisFails ==
    /\ redis = "up" /\ faults < MaxFaults
    /\ redis' = "failing" /\ faults' = faults + 1
    /\ UNCHANGED <<keys, req, lost, restarts>>

RedisRecovers ==
    /\ redis = "failing"
    /\ redis' = "up"
    /\ UNCHANGED <<keys, req, faults, lost, restarts>>

\* The process starts again: requests are gone, Redis kept its keys, and the
\* PING of init_redis decides whether there is a client.
Restart ==
    /\ restarts < MaxRestarts
    /\ restarts' = restarts + 1
    /\ req' = [r \in Requests |-> NoLogin]
    /\ redis' \in IF redis = "up" THEN {"up"} ELSE {"up", "none"}
    /\ UNCHANGED <<keys, faults, lost>>

\* What becomes of a request that has begun.
Serve(r) ==
    \/ Check(r) \/ WrongPassword(r) \/ RightPassword(r) \/ Forbidden(r)
    \/ Incr(r) \/ IncrLost(r) \/ Expire(r) \/ Del(r) \/ RedisError(r)

Next ==
    \/ \E r \in Requests : Serve(r) \/ \E e \in Spellings : Begin(r, e)
    \/ \E e \in Emails : KeyExpires(e)
    \/ RedisFails \/ RedisRecovers \/ Restart

\* The event loop serves every request that has begun, and Redis drops every
\* key whose time is up.  Nobody need log in, and no outage need end.
Fairness == /\ \A r \in Requests : WF_vars(Serve(r))
            /\ \A e \in Emails : WF_vars(KeyExpires(e))

Spec == Init /\ [][Next]_vars
FairSpec == Spec /\ Fairness

-----------------------------------------------------------------------------
\* Counters are numbers, only those of addresses exist, only a counter that
\* exists has a TTL, and requests stand where a login can stand.
TypeOK ==
    /\ count \in [Spellings -> Nat] /\ own \in [Spellings -> Nat]
    /\ volatile \in [Spellings -> BOOLEAN]
    /\ \A e \in Spellings : e \notin Emails => count[e] = 0
    /\ \A e \in Spellings : volatile[e] => count[e] > 0
    /\ redis \in {"up", "failing", "none"}
    /\ req \in [Requests -> [pc : Steps, email : Spellings, again : BOOLEAN]]
    /\ faults \in Nat /\ lost \in Nat /\ restarts \in Nat

\* Past the check and not yet counted.
Trying(e) == {r \in Requests : req[r].email = e /\ req[r].pc \in {"verify", "incr"}}

\* Requests that passed the check together may overshoot the limit, but by no
\* more than there are requests at once less one: of those that spell the
\* address as it is counted, the ones that failed since the counter began and
\* the ones whose password is still being tried never exceed that (GET before,
\* INCR after), whoever else counts meanwhile.
Bounded(e) == own[e] + Cardinality(Trying(e)) <= Max - 1 + Cardinality(Requests)

AttemptsBounded == Untroubled => \A e \in Emails : Bounded(e)

\* A counter without a TTL has its EXPIRE on the way (INCR, then EXPIRE if
\* the reply was 1).
TtlOnItsWay ==
    Untroubled => \A e \in Emails :
        count[e] > 0 /\ ~volatile[e]
            => \E r \in Requests : At(r, "expire") /\ Address(r) = e

\* As long as nothing comes between the service and Redis, a locked account is
\* unlocked in the end, however logins overtake each other.
LockoutEnds ==
    []Untroubled => \A e \in Emails : count[e] >= Max ~> count[e] < Max

-----------------------------------------------------------------------------
(* What the documents, messages and tests of the repository promise, and   *)
(* the code does not keep: README.md, "Divergences".                       *)

\* A locked account is unlocked in the end, come what may (README,
\* "configurable cooldown").
LockoutAlwaysEnds == \A e \in Emails : count[e] >= Max ~> count[e] < Max

\* Once N failures are counted no further password is tried (README,
\* "Account lockout after N failed logins").
LockedAfterMax ==
    \A r \in Requests : At(r, "verify") => count[Address(r)] < Max

\* The same, with the overshoot allowed, however the address is spelled.
BoundedInAnySpelling == Untroubled => \A e \in Spellings : Bounded(e)
=============================================================================
