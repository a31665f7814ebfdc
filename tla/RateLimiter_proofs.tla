-------------------------- MODULE RateLimiter_proofs --------------------------
(***************************************************************************)
(* Theorems about RateLimiter, for any chain of limiters, any window, any  *)
(* clients and any number of requests at once.                             *)
(***************************************************************************)
EXTENDS RateLimiter, FiniteSetTheorems, TLAPS

-----------------------------------------------------------------------------
\* Arithmetic of windows.
LEMMA WindowTyped ==
  ASSUME NEW t \in Nat
  PROVE  /\ WindowId(t) \in Nat
         /\ WindowId(t) * Window <= t
         /\ t < WindowId(t) * Window + Window
<1>1. Window \in Nat \ {0}
  BY WindowAssumption
<1>2. t \div Window \in Int
  BY <1>1, SMT
<1>3. (t \div Window) * Window <= t
  BY <1>1, <1>2, SMT
<1>4. t < (t \div Window) * Window + Window
  BY <1>1, <1>2, SMT
<1>5. t \div Window >= 0
  BY <1>1, <1>2, SMT
<1> QED
  BY <1>2, <1>3, <1>4, <1>5 DEF WindowId

LEMMA LessByProduct ==
  ASSUME NEW a \in Int, NEW b \in Int, NEW w \in Nat \ {0}, a * w < b * w
  PROVE  a < b
BY SMT

LEMMA AtMostByProduct ==
  ASSUME NEW a \in Int, NEW b \in Int, NEW w \in Nat, a <= b
  PROVE  a * w <= b * w
BY SMT

LEMMA ProductTyped ==
  ASSUME NEW a \in Nat, NEW b \in Nat
  PROVE  a * b \in Nat
BY SMT

LEMMA WindowsInOrder ==
  ASSUME NEW s \in Nat, NEW t \in Nat, s <= t
  PROVE  WindowId(s) <= WindowId(t)
<1>1. WindowId(s) \in Nat /\ WindowId(t) \in Nat
  BY WindowTyped
<1>2. WindowId(s) * Window < (WindowId(t) + 1) * Window
  BY <1>1, WindowTyped, WindowAssumption, SMT
<1>3. WindowId(s) < WindowId(t) + 1
  BY <1>1, <1>2, LessByProduct, WindowAssumption
<1> QED
  BY <1>1, <1>3

\* Keys that requests use are keys there are.
LEMMA KeyTyped ==
  ASSUME NEW l \in Limiters, NEW t \in 0 .. MaxClock, NEW client \in Clients
  PROVE  /\ Key(l, WindowId(t), client) \in Keys
         /\ Key(l, WindowId(t) - 1, client) \in Keys
<1>1. t \in Nat /\ MaxClock \in Nat /\ t <= MaxClock
  BY LimiterBounds
<1>2. WindowId(t) \in Nat /\ WindowId(MaxClock) \in Nat
      /\ WindowId(t) <= WindowId(MaxClock)
  BY <1>1, WindowTyped, WindowsInOrder
<1>3. WindowId(t) \in -1 .. WindowId(MaxClock)
      /\ WindowId(t) - 1 \in -1 .. WindowId(MaxClock)
  BY <1>2
<1> QED
  BY <1>3 DEF Key, Keys

LEMMA ChainTyped ==
  /\ Len(Chain) \in Nat /\ 1 \in Limiters
  /\ \A l \in Limiters : Chain[l].max \in Nat \ {0} /\ Chain[l].by_email \in BOOLEAN
<1> DEFINE Limiter == [max : Nat \ {0}, by_email : BOOLEAN]
<1>1. Chain \in Seq(Limiter) /\ Len(Chain) > 0
  BY ChainAssumption
<1> HIDE DEF Limiter
<1>2. Len(Chain) \in Nat /\ \A l \in 1 .. Len(Chain) : Chain[l] \in Limiter
  BY <1>1
<1>3. \A l \in Limiters : Chain[l] \in Limiter
  BY <1>2 DEF Limiters
<1>4. 1 \in Limiters
  BY <1>1, <1>2 DEF Limiters
<1> QED
  BY <1>2, <1>3, <1>4 DEF Limiter

LEMMA ClientTyped ==
  ASSUME NEW l \in Limiters, NEW q \in Request
  PROVE  ClientKey(l, q) \in Clients
BY DEF ClientKey, Clients, Request

LEMMA NoRequestTyped == NoRequest \in Request
<1>1. (CHOOSE i \in Ips : TRUE) \in Ips
  BY LimiterBounds
<1>2. NoState \in [limit : Nat, remaining : Nat, reset : Nat]
  BY DEF NoState
<1>3. 0 \in 0 .. MaxClock
  BY LimiterBounds
<1> QED
  BY <1>1, <1>2, <1>3, ChainTyped DEF NoRequest, Request

LEMMA PassTyped ==
  ASSUME NEW q \in Request
  PROVE  /\ Pass(q) \in Request /\ Pass(q).now = q.now /\ Pass(q).open = q.open
         /\ Pass(q).pc # "sent" /\ Pass(q).pc # "refused"
<1>1. CASE q.stage = Len(Chain)
  BY <1>1 DEF Pass, Request
<1>2. CASE q.stage # Len(Chain)
  <2>1. q.stage + 1 \in Limiters
    BY <1>2, ChainTyped DEF Request, Limiters
  <2> QED
    BY <1>2, <2>1 DEF Pass, Request
<1> QED
  BY <1>1, <1>2

\* What a GET returns is a number, and no more than was ever counted.
LEMMA CountTyped ==
  ASSUME TypeOK, NEW k \in Keys
  PROVE  CountOf(k) \in Nat /\ CountOf(k) <= count[k]
BY DEF TypeOK, CountOf

LEMMA WeightedTyped ==
  ASSUME TypeOK, NEW l \in Limiters, NEW client \in Clients, NEW t \in 0 .. MaxClock
  PROVE  /\ Weighted(l, client, t) \in Nat
         /\ CountOf(Key(l, WindowId(t), client)) * Window <= Weighted(l, client, t)
<1> DEFINE before == CountOf(Key(l, WindowId(t) - 1, client))
           current == CountOf(Key(l, WindowId(t), client))
           rest == Window - (t - WindowId(t) * Window)
<1>1. before \in Nat /\ current \in Nat
  BY KeyTyped, CountTyped
<1>2. Window \in Nat /\ t \in Nat
  BY WindowAssumption, LimiterBounds
<1>3. WindowId(t) \in Nat
  BY <1>2, WindowTyped
<1>4. WindowId(t) * Window \in Nat
  BY <1>2, <1>3, ProductTyped
<1>5. rest \in Nat
  BY <1>2, <1>4, WindowTyped
<1>6. before * rest \in Nat /\ current * Window \in Nat
  BY <1>1, <1>2, <1>5, ProductTyped
<1>7. Weighted(l, client, t) = before * rest + current * Window
  BY DEF Weighted
<1> QED
  BY <1>6, <1>7

LEMMA StateTyped ==
  ASSUME TypeOK, NEW l \in Limiters, NEW client \in Clients, NEW t \in 0 .. MaxClock,
         NEW allowed \in BOOLEAN
  PROVE  StateOf(l, client, t, allowed) \in [limit : Nat, remaining : Nat, reset : Nat]
<1> DEFINE w == Weighted(l, client, t)
           used == Ceiling(w) + (IF allowed THEN 1 ELSE 0)
<1>1. w \in Nat /\ Window \in Nat \ {0}
  BY WeightedTyped, WindowAssumption
<1>2. Ceiling(w) \in Int
  BY <1>1, SMT DEF Ceiling
<1>3. used \in Int
  BY <1>2
<1>4. Chain[l].max \in Nat
  BY ChainTyped
<1>5. (IF used < Chain[l].max THEN Chain[l].max - used ELSE 0) \in Int
  BY <1>3, <1>4
<1>6. w + Window - 1 \in Nat
  BY <1>1
<1>7. Ceiling(w) \in Nat
  BY <1>6, WindowTyped DEF Ceiling, WindowId
<1>8. (IF used < Chain[l].max THEN Chain[l].max - used ELSE 0) \in Nat
  BY <1>3, <1>4, <1>7
<1>9. t \in Nat /\ WindowId(t) + 1 \in Nat
  BY LimiterBounds, WindowTyped
<1>10. (WindowId(t) + 1) * Window \in Nat
  BY <1>1, <1>9, ProductTyped
<1> HIDE DEF w
<1> QED
  BY <1>4, <1>8, <1>10 DEF StateOf, w

-----------------------------------------------------------------------------
\* Type correctness.
LEMMA TypeInit == Init => TypeOK
<1> SUFFICES ASSUME Init PROVE TypeOK
  OBVIOUS
<1>1. req \in [Requests -> Request] /\ \A r \in Requests : req[r].now = 0
  BY NoRequestTyped DEF Init, NoRequest
<1>2. clock = 0 /\ 0 \in 0 .. MaxClock
  BY LimiterBounds DEF Init
<1> QED
  BY <1>1, <1>2 DEF Init, TypeOK

\* A step of one request that puts a well-typed record in its place.
LEMMA Replaced ==
  ASSUME TypeOK, NEW r \in Requests, NEW q \in Request, q.now <= clock,
         clock' = clock, req' = [req EXCEPT ![r] = q]
  PROVE  req' \in [Requests -> Request] /\ \A s \in Requests : req'[s].now <= clock'
BY DEF TypeOK

LEMMA IncrTyped ==
  ASSUME TypeOK, NEW k \in Keys, Incr(k)
  PROVE  /\ count' \in [Keys -> Nat] /\ expires' \in [Keys -> Nat]
         /\ CountOf(k) + 1 \in Nat
<1>1. CountOf(k) + 1 \in Nat /\ clock + 2 * Window \in Nat
  BY CountTyped, WindowAssumption, LimiterBounds DEF TypeOK
<1> QED
  BY <1>1 DEF Incr, TypeOK

\* The key a request's script counts in.
JudgedKey(q) == Key(q.stage, WindowId(q.now), ClientKey(q.stage, q))

LEMMA JudgedKeyTyped ==
  ASSUME TypeOK, NEW r \in Requests
  PROVE  /\ req[r] \in Request /\ req[r].stage \in Limiters
         /\ req[r].now \in 0 .. MaxClock /\ req[r].now \in Nat
         /\ ClientKey(req[r].stage, req[r]) \in Clients
         /\ JudgedKey(req[r]) \in Keys
<1>1. req[r] \in Request
  BY DEF TypeOK
<1>2. req[r].stage \in Limiters /\ req[r].now \in 0 .. MaxClock /\ req[r].now \in Nat
  BY <1>1, LimiterBounds DEF Request
<1>3. ClientKey(req[r].stage, req[r]) \in Clients
  BY <1>1, <1>2, ClientTyped
<1> QED
  BY <1>1, <1>2, <1>3, KeyTyped DEF JudgedKey

LEMMA TypeStep == TypeOK /\ [Next]_vars => TypeOK'
<1> SUFFICES ASSUME TypeOK, [Next]_vars PROVE TypeOK'
  OBVIOUS
<1>1. ASSUME NEW r \in Requests, NEW ip \in Ips, NEW email \in Emails,
             Arrive(r, ip, email)
      PROVE  TypeOK'
  <2> DEFINE q == [NoRequest EXCEPT !.pc = "limiter", !.ip = ip, !.email = email]
  <2>0. NoRequest.now = 0 /\ clock >= 0
    BY DEF NoRequest, TypeOK
  <2>1. q \in Request /\ q.now <= clock
    BY <2>0, NoRequestTyped DEF Request
  <2>2. req' = [req EXCEPT ![r] = q] /\ clock' = clock
    BY <1>1 DEF Arrive, environment
  <2> HIDE DEF q
  <2>3. req' \in [Requests -> Request] /\ \A s \in Requests : req'[s].now <= clock'
    BY <2>1, <2>2, Replaced
  <2> QED
    BY <1>1, <2>3 DEF Arrive, environment, counters, TypeOK
<1>2. ASSUME NEW r \in Requests, Send(r) PROVE TypeOK'
  <2> DEFINE q == [req[r] EXCEPT !.pc = "sent", !.now = clock]
  <2>0. clock \in 0 .. MaxClock /\ clock <= clock
    BY LimiterBounds DEF TypeOK
  <2>1. q \in Request /\ q.now <= clock
    BY <2>0, JudgedKeyTyped DEF Request
  <2>2. req' = [req EXCEPT ![r] = q] /\ clock' = clock
    BY <1>2 DEF Send, environment, TypeOK
  <2> HIDE DEF q
  <2>3. req' \in [Requests -> Request] /\ \A s \in Requests : req'[s].now <= clock'
    BY <2>1, <2>2, Replaced
  <2> QED
    BY <1>2, <2>3 DEF Send, environment, counters, TypeOK
<1>3. ASSUME NEW r \in Requests, PassUnasked(r) \/ PoolExhausted(r) \/ FailOpen(r)
      PROVE  TypeOK'
  <2> DEFINE q == [Pass(req[r]) EXCEPT !.open = TRUE]
  <2>1. Pass(req[r]) \in Request /\ Pass(req[r]).now = req[r].now
    BY JudgedKeyTyped, PassTyped
  <2>2. q \in Request /\ q.now <= clock
    BY <2>1 DEF Request, TypeOK
  <2>3. req' = [req EXCEPT ![r] = q] /\ clock' = clock
    BY <1>3 DEF PassUnasked, PoolExhausted, FailOpen, environment
  <2> HIDE DEF q
  <2>4. req' \in [Requests -> Request] /\ \A s \in Requests : req'[s].now <= clock'
    BY <2>2, <2>3, Replaced
  <2> QED
    BY <1>3, <2>4 DEF PassUnasked, PoolExhausted, FailOpen, environment, counters, TypeOK
<1>4. ASSUME NEW r \in Requests, Admit(r) PROVE TypeOK'
  <2> DEFINE k == JudgedKey(req[r])
             state == StateOf(req[r].stage, ClientKey(req[r].stage, req[r]),
                              req[r].now, TRUE)
             q == [Pass(req[r]) EXCEPT !.state = state]
  <2>1. k \in Keys /\ Incr(k) /\ req[r].now \in 0 .. MaxClock
        /\ log' = log \union {[key |-> k, at |-> req[r].now, slot |-> CountOf(k) + 1]}
    BY <1>4, JudgedKeyTyped DEF Admit, JudgedKey
  <2>2. Pass(req[r]) \in Request /\ Pass(req[r]).now = req[r].now
    BY JudgedKeyTyped, PassTyped
  <2>3. state \in [limit : Nat, remaining : Nat, reset : Nat]
    BY JudgedKeyTyped, StateTyped
  <2>4. req' = [req EXCEPT ![r] = q] /\ clock' = clock
    BY <1>4 DEF Admit, environment
  <2>5. count' \in [Keys -> Nat] /\ expires' \in [Keys -> Nat]
        /\ CountOf(k) + 1 \in Nat
    BY <2>1, IncrTyped
  <2>6. log' \subseteq [key : Keys, at : 0 .. MaxClock, slot : Nat]
    <3> HIDE DEF k
    <3> QED
      BY <2>1, <2>5 DEF TypeOK
  <2> HIDE DEF state, k
  <2>7. q \in Request /\ q.now <= clock
    BY <2>2, <2>3 DEF Request, TypeOK
  <2> HIDE DEF q
  <2>8. req' \in [Requests -> Request] /\ \A s \in Requests : req'[s].now <= clock'
    BY <2>7, <2>4, Replaced
  <2> QED
    BY <1>4, <2>5, <2>6, <2>8 DEF Admit, environment, TypeOK
<1>5. ASSUME NEW r \in Requests, Refuse(r) PROVE TypeOK'
  <2> DEFINE state == StateOf(req[r].stage, ClientKey(req[r].stage, req[r]),
                              req[r].now, FALSE)
             q == [req[r] EXCEPT !.pc = "refused", !.again = FALSE, !.state = state]
  <2>1. state \in [limit : Nat, remaining : Nat, reset : Nat]
    BY JudgedKeyTyped, StateTyped
  <2>2. req' = [req EXCEPT ![r] = q] /\ clock' = clock
    BY <1>5 DEF Refuse, environment, TypeOK
  <2> HIDE DEF state
  <2>3. q \in Request /\ q.now <= clock
    BY <2>1, JudgedKeyTyped DEF Request, TypeOK
  <2> HIDE DEF q
  <2>4. req' \in [Requests -> Request] /\ \A s \in Requests : req'[s].now <= clock'
    BY <2>2, <2>3, Replaced
  <2> QED
    BY <1>5, <2>4 DEF Refuse, environment, counters, TypeOK
<1>6. ASSUME NEW r \in Requests, LoseReply(r) PROVE TypeOK'
  <2> DEFINE k == JudgedKey(req[r])
             q == [req[r] EXCEPT !.again = TRUE]
  <2>1. k \in Keys /\ Incr(k)
    BY <1>6, JudgedKeyTyped DEF LoseReply, JudgedKey
  <2>2. count' \in [Keys -> Nat] /\ expires' \in [Keys -> Nat]
    BY <2>1, IncrTyped
  <2>3. q \in Request /\ q.now <= clock
    BY JudgedKeyTyped DEF Request, TypeOK
  <2>4. req' = [req EXCEPT ![r] = q] /\ clock' = clock
    BY <1>6 DEF LoseReply, environment, TypeOK
  <2> HIDE DEF q
  <2>5. req' \in [Requests -> Request] /\ \A s \in Requests : req'[s].now <= clock'
    BY <2>3, <2>4, Replaced
  <2> QED
    BY <1>6, <2>2, <2>5 DEF LoseReply, environment, TypeOK
<1>7. ASSUME NEW r \in Requests, Handle(r) PROVE TypeOK'
  <2> DEFINE q == [req[r] EXCEPT !.pc = "handled"]
  <2>1. q \in Request /\ q.now <= clock
    BY JudgedKeyTyped DEF Request, TypeOK
  <2>2. req' = [req EXCEPT ![r] = q] /\ clock' = clock
    BY <1>7 DEF Handle, environment, TypeOK
  <2> HIDE DEF q
  <2>3. req' \in [Requests -> Request] /\ \A s \in Requests : req'[s].now <= clock'
    BY <2>1, <2>2, Replaced
  <2> QED
    BY <1>7, <2>3 DEF Handle, environment, counters, TypeOK
<1>8. CASE Tick
  BY <1>8, LimiterBounds, JudgedKeyTyped DEF Tick, counters, TypeOK
<1>9. CASE RedisFails
  BY <1>9 DEF RedisFails, counters, TypeOK
<1>10. CASE RedisRecovers
  BY <1>10 DEF RedisRecovers, counters, TypeOK
<1>11. CASE UNCHANGED vars
  BY <1>11 DEF vars, TypeOK
<1> QED
  BY <1>1, <1>2, <1>3, <1>4, <1>5, <1>6, <1>7, <1>8, <1>9, <1>10, <1>11 DEF Next

\* The state of the limiters is well typed, whatever Redis does.
THEOREM TypeCorrect == Spec => []TypeOK
<1>1. Init => TypeOK
  BY TypeInit
<1>2. TypeOK /\ [Next]_vars => TypeOK'
  BY TypeStep
<1> QED
  BY <1>1, <1>2, PTL DEF Spec

-----------------------------------------------------------------------------
(***************************************************************************)
(* Neither bound is inductive.  What makes them so: admissions hold        *)
(* different slots of their counter, a counter never exceeds the limit     *)
(* and outlives the window after its own, and a script is never so late    *)
(* that the counter it asks for could have expired.                        *)
(***************************************************************************)
Slots ==
  /\ \A a \in log : 1 <= a.slot /\ a.slot <= count[a.key]
  /\ \A a \in log, b \in log : a.key = b.key /\ a.slot = b.slot => a = b

BelowMax == \A k \in Keys : count[k] <= Chain[k.limiter].max

Outlives == \A k \in Keys : count[k] > 0 => (k.id + 2) * Window <= expires[k]

InTime == \A r \in Requests :
  req[r].pc = "sent" => clock <= req[r].now + Timeout

Inv == TypeOK /\ Slots /\ BelowMax /\ Outlives /\ InTime

LEMMA InvInit == Init => Inv
<1> SUFFICES ASSUME Init PROVE Inv
  OBVIOUS
<1>1. TypeOK
  BY TypeInit
<1>2. Slots /\ InTime
  BY DEF Init, Slots, InTime, NoRequest
<1>3. \A k \in Keys : count[k] = 0 /\ Chain[k.limiter].max \in Nat
  BY ChainTyped DEF Init, Keys
<1>4. BelowMax /\ Outlives
  BY <1>3 DEF BelowMax, Outlives
<1> QED
  BY <1>1, <1>2, <1>4 DEF Inv

\* As long as a counter is in use, a GET returns what was counted.
LEMMA Remembered ==
  ASSUME TypeOK, Outlives, NEW k \in Keys, clock < (k.id + 2) * Window
  PROVE  CountOf(k) = count[k]
<1>1. k.id \in Int /\ Window \in Nat \ {0}
  BY WindowAssumption DEF Keys
<1>2. (k.id + 2) * Window \in Int
  BY <1>1
<1>3. count[k] \in Nat /\ expires[k] \in Nat /\ clock \in Int
  BY LimiterBounds DEF TypeOK
<1>4. count[k] > 0 => (k.id + 2) * Window <= expires[k]
  BY DEF Outlives
<1> DEFINE until == (k.id + 2) * Window
<1>5. until \in Int /\ clock < until /\ (count[k] > 0 => until <= expires[k])
  BY <1>2, <1>4
<1> HIDE DEF until
<1> QED
  BY <1>3, <1>5 DEF CountOf

\* The script that a request has sent is in time for its counter.
LEMMA Judged ==
  ASSUME TypeOK, Outlives, InTime, NEW r \in Requests, req[r].pc = "sent"
  PROVE  /\ CountOf(JudgedKey(req[r])) = count[JudgedKey(req[r])]
         /\ (JudgedKey(req[r]).id + 2) * Window <= clock + 2 * Window
<1> DEFINE id == WindowId(req[r].now)
           k == JudgedKey(req[r])
<1>1. req[r].now \in Nat /\ k \in Keys /\ k.id = id
  BY JudgedKeyTyped DEF JudgedKey, Key
<1>2. id \in Nat /\ id * Window <= req[r].now /\ req[r].now < id * Window + Window
  BY <1>1, WindowTyped
<1>3. Window \in Nat \ {0} /\ Timeout \in Nat /\ Timeout <= Window
  BY WindowAssumption, TimeoutAssumption
<1>4. clock \in Nat /\ req[r].now <= clock /\ clock <= req[r].now + Timeout
  BY LimiterBounds DEF TypeOK, InTime
<1> HIDE DEF id, k
<1>5. (id + 2) * Window = id * Window + 2 * Window /\ id * Window \in Nat
  BY <1>2, <1>3, ProductTyped, SMT
<1>6. clock < (id + 2) * Window /\ (id + 2) * Window <= clock + 2 * Window
  <2> DEFINE start == id * Window
  <2>1. start \in Nat /\ (id + 2) * Window = start + 2 * Window
        /\ start <= req[r].now /\ req[r].now < start + Window
    BY <1>2, <1>5
  <2> HIDE DEF start
  <2> QED
    BY <1>1, <1>3, <1>4, <2>1
<1>7. CountOf(k) = count[k]
  BY <1>1, <1>6, Remembered
<1> QED
  BY <1>1, <1>6, <1>7 DEF k

\* What a limiter allows leaves room below its maximum.
LEMMA AllowedBelowMax ==
  ASSUME TypeOK, NEW r \in Requests,
         Allowed(req[r].stage, ClientKey(req[r].stage, req[r]), req[r].now)
  PROVE  CountOf(JudgedKey(req[r])) < Chain[JudgedKey(req[r]).limiter].max
<1> DEFINE l == req[r].stage
           client == ClientKey(l, req[r])
           c == CountOf(JudgedKey(req[r]))
           w == Weighted(l, client, req[r].now)
<1>1. c \in Nat /\ w \in Nat /\ c * Window <= w
  BY JudgedKeyTyped, CountTyped, WeightedTyped DEF JudgedKey
<1>2. w < Chain[l].max * Window
  BY DEF Allowed
<1>3. Chain[l].max \in Nat /\ Window \in Nat \ {0}
  BY JudgedKeyTyped, ChainTyped, WindowAssumption
<1>4. JudgedKey(req[r]).limiter = l
  BY DEF JudgedKey, Key
<1> HIDE DEF l, c, w
<1>5. c * Window \in Nat /\ Chain[l].max * Window \in Nat
  BY <1>1, <1>3, ProductTyped
<1>6. c * Window < Chain[l].max * Window
  BY <1>1, <1>2, <1>5
<1>7. c < Chain[l].max
  BY <1>1, <1>3, <1>6, LessByProduct
<1> QED
  BY <1>4, <1>7 DEF c, l

\* Counting an admission keeps the counters in order.
LEMMA IncrKeeps ==
  ASSUME Inv, NEW r \in Requests, req[r].pc = "sent", Incr(JudgedKey(req[r])),
         Allowed(req[r].stage, ClientKey(req[r].stage, req[r]), req[r].now)
  PROVE  /\ BelowMax' /\ Outlives'
         /\ count' = [count EXCEPT ![JudgedKey(req[r])] = @ + 1]
         /\ CountOf(JudgedKey(req[r])) = count[JudgedKey(req[r])]
<1> DEFINE k == JudgedKey(req[r])
<1>1. k \in Keys /\ TypeOK
  BY JudgedKeyTyped DEF Inv
<1>2. CountOf(k) = count[k] /\ (k.id + 2) * Window <= clock + 2 * Window
  BY Judged DEF Inv
<1>3. count[k] < Chain[k.limiter].max
  BY <1>1, <1>2, AllowedBelowMax
<1>4. count' = [count EXCEPT ![k] = count[k] + 1]
      /\ expires' = [expires EXCEPT ![k] = clock + 2 * Window]
  BY <1>2 DEF Incr
<1> HIDE DEF k
<1>5. count \in [Keys -> Nat] /\ expires \in [Keys -> Nat]
  BY <1>1 DEF TypeOK
<1>6. \A j \in Keys : Chain[j.limiter].max \in Nat
  BY ChainTyped DEF Keys
<1>7. BelowMax'
  BY <1>1, <1>3, <1>4, <1>5, <1>6 DEF Inv, BelowMax
<1>8. Outlives'
  <2> SUFFICES ASSUME NEW j \in Keys, count'[j] > 0
               PROVE  (j.id + 2) * Window <= expires'[j]
    BY DEF Outlives
  <2>1. CASE j = k
    BY <1>1, <1>2, <1>4, <1>5, <2>1
  <2>2. CASE j # k
    BY <1>4, <1>5, <2>2 DEF Inv, Outlives
  <2> QED
    BY <2>1, <2>2
<1> QED
  BY <1>2, <1>4, <1>7, <1>8 DEF k

\* A step that sends nothing and leaves the clock alone keeps every script in
\* time; so does one whose request is not under way afterwards.
LEMMA InTimeKept ==
  ASSUME TypeOK, InTime, NEW r \in Requests, NEW q, clock' = clock,
         req' = [req EXCEPT ![r] = q],
         q.pc = "sent" => clock <= q.now + Timeout
  PROVE  InTime'
BY DEF TypeOK, InTime

LEMMA Idle ==
  ASSUME Inv, UNCHANGED <<count, expires, log>>
  PROVE  Slots' /\ BelowMax' /\ Outlives'
BY DEF Inv, Slots, BelowMax, Outlives

LEMMA InvStep == Inv /\ [Next]_vars => Inv'
<1> SUFFICES ASSUME Inv, [Next]_vars PROVE Inv'
  OBVIOUS
<1>a. TypeOK /\ InTime /\ TypeOK'
  BY TypeStep DEF Inv
<1>1. ASSUME NEW r \in Requests, NEW ip \in Ips, NEW email \in Emails,
             Arrive(r, ip, email)
      PROVE  Inv'
  <2> DEFINE q == [NoRequest EXCEPT !.pc = "limiter", !.ip = ip, !.email = email]
  <2>1. q.pc # "sent" /\ req' = [req EXCEPT ![r] = q] /\ clock' = clock
    BY <1>1 DEF Arrive, environment, NoRequest
  <2>2. InTime'
    BY <1>a, <2>1, InTimeKept
  <2> QED
    BY <1>a, <1>1, <2>2, Idle DEF Arrive, counters, Inv
<1>2. ASSUME NEW r \in Requests, Send(r) PROVE Inv'
  <2> DEFINE q == [req[r] EXCEPT !.pc = "sent", !.now = clock]
  <2>1. req[r] \in Request /\ clock \in Nat /\ Timeout \in Nat
    BY <1>a, TimeoutAssumption, LimiterBounds DEF TypeOK
  <2>2. q.now = clock
    BY <2>1 DEF Request
  <2>3. req' = [req EXCEPT ![r] = q] /\ clock' = clock
    BY <1>a, <1>2 DEF Send, environment, TypeOK
  <2> HIDE DEF q
  <2>4. clock <= q.now + Timeout
    BY <2>1, <2>2
  <2>5. InTime'
    BY <1>a, <2>3, <2>4, InTimeKept
  <2> QED
    BY <1>a, <1>2, <2>5, Idle DEF Send, counters, Inv
<1>3. ASSUME NEW r \in Requests, PassUnasked(r) \/ PoolExhausted(r) \/ FailOpen(r)
      PROVE  Inv'
  <2> DEFINE q == [Pass(req[r]) EXCEPT !.open = TRUE]
  <2>1. Pass(req[r]) \in Request /\ Pass(req[r]).pc # "sent"
    BY <1>a, JudgedKeyTyped, PassTyped
  <2>2. q.pc # "sent" /\ req' = [req EXCEPT ![r] = q] /\ clock' = clock
    BY <1>3, <2>1 DEF PassUnasked, PoolExhausted, FailOpen, environment, Request
  <2>3. InTime'
    BY <1>a, <2>2, InTimeKept
  <2> QED
    BY <1>a, <1>3, <2>3, Idle DEF PassUnasked, PoolExhausted, FailOpen, counters, Inv
<1>4. ASSUME NEW r \in Requests, Admit(r) PROVE Inv'
  <2> DEFINE k == JudgedKey(req[r])
             new == [key |-> k, at |-> req[r].now, slot |-> count[k] + 1]
             state == StateOf(req[r].stage, ClientKey(req[r].stage, req[r]),
                              req[r].now, TRUE)
             q == [Pass(req[r]) EXCEPT !.state = state]
  <2>1. BelowMax' /\ Outlives' /\ count' = [count EXCEPT ![k] = @ + 1]
        /\ CountOf(k) = count[k]
    BY <1>4, IncrKeeps DEF Admit, JudgedKey
  <2>2. log' = log \union {new}
    BY <1>4, <2>1 DEF Admit, JudgedKey
  <2>3. k \in Keys /\ count \in [Keys -> Nat]
        /\ \A a \in log : a.key \in Keys /\ a.slot \in Nat
    BY <1>a, JudgedKeyTyped DEF TypeOK
  <2>4. Slots'
    <3>1. \A a \in log : 1 <= a.slot /\ a.slot <= count[a.key]
      BY DEF Inv, Slots
    <3>2. \A a \in log : a.key = k => a.slot # count[k] + 1
      BY <2>3, <3>1
    <3>3. new.key = k /\ new.slot = count[k] + 1
      OBVIOUS
    <3> HIDE DEF new, k
    <3>4. \A a \in log' : 1 <= a.slot /\ a.slot <= count'[a.key]
      BY <2>1, <2>2, <2>3, <3>1, <3>3
    <3>5. \A a \in log', b \in log' : a.key = b.key /\ a.slot = b.slot => a = b
      BY <2>2, <3>2, <3>3 DEF Inv, Slots
    <3> QED
      BY <3>4, <3>5 DEF Slots
  <2>5. Pass(req[r]) \in Request /\ Pass(req[r]).pc # "sent"
    BY <1>a, JudgedKeyTyped, PassTyped
  <2>6. req' = [req EXCEPT ![r] = q] /\ clock' = clock
    BY <1>4 DEF Admit, environment
  <2> HIDE DEF state
  <2>7. q.pc # "sent"
    BY <2>5 DEF Request
  <2> HIDE DEF q
  <2>8. InTime'
    BY <1>a, <2>6, <2>7, InTimeKept
  <2> QED
    BY <1>a, <2>1, <2>4, <2>8 DEF Inv
<1>5. ASSUME NEW r \in Requests, Refuse(r) PROVE Inv'
  <2> DEFINE state == StateOf(req[r].stage, ClientKey(req[r].stage, req[r]),
                              req[r].now, FALSE)
             q == [req[r] EXCEPT !.pc = "refused", !.again = FALSE, !.state = state]
  <2>1. req' = [req EXCEPT ![r] = q] /\ clock' = clock /\ req[r] \in Request
    BY <1>5, <1>a DEF Refuse, environment, TypeOK
  <2> HIDE DEF state
  <2>2. q.pc # "sent"
    BY <2>1 DEF Request
  <2> HIDE DEF q
  <2>3. InTime'
    BY <1>a, <2>1, <2>2, InTimeKept
  <2> QED
    BY <1>a, <1>5, <2>3, Idle DEF Refuse, counters, Inv
<1>6. ASSUME NEW r \in Requests, LoseReply(r) PROVE Inv'
  <2> DEFINE k == JudgedKey(req[r])
             q == [req[r] EXCEPT !.again = TRUE]
  <2>1. BelowMax' /\ Outlives' /\ count' = [count EXCEPT ![k] = @ + 1]
    BY <1>6, IncrKeeps DEF LoseReply, JudgedKey
  <2>2. k \in Keys /\ count \in [Keys -> Nat]
        /\ \A a \in log : a.key \in Keys /\ a.slot \in Nat
    BY <1>a, JudgedKeyTyped DEF TypeOK
  <2>3. log' = log
    BY <1>6 DEF LoseReply
  <2>4. Slots'
    <3> HIDE DEF k
    <3>1. \A a \in log : a.slot <= count'[a.key]
      BY <2>1, <2>2 DEF Inv, Slots
    <3> QED
      BY <2>3, <3>1 DEF Inv, Slots
  <2>5. req' = [req EXCEPT ![r] = q] /\ clock' = clock /\ req[r] \in Request
    BY <1>6, <1>a DEF LoseReply, environment, TypeOK
  <2>6. q.pc = "sent" => clock <= q.now + Timeout
    BY <1>a, <2>5 DEF InTime, Request
  <2> HIDE DEF q
  <2>7. InTime'
    BY <1>a, <2>5, <2>6, InTimeKept
  <2> QED
    BY <1>a, <2>1, <2>4, <2>7 DEF Inv
<1>7. ASSUME NEW r \in Requests, Handle(r) PROVE Inv'
  <2> DEFINE q == [req[r] EXCEPT !.pc = "handled"]
  <2>1. req' = [req EXCEPT ![r] = q] /\ clock' = clock /\ req[r] \in Request
    BY <1>7, <1>a DEF Handle, environment, TypeOK
  <2>2. q.pc # "sent"
    BY <2>1 DEF Request
  <2> HIDE DEF q
  <2>3. InTime'
    BY <1>a, <2>1, <2>2, InTimeKept
  <2> QED
    BY <1>a, <1>7, <2>3, Idle DEF Handle, counters, Inv
<1>8. CASE Tick
  <2>1. \A r \in Requests : req[r].pc = "sent" => clock < req[r].now + Timeout
    BY <1>8 DEF Tick
  <2>2. \A r \in Requests : req[r].now \in Nat
    BY <1>a, JudgedKeyTyped
  <2>3. clock \in Nat /\ clock' = clock + 1 /\ req' = req /\ Timeout \in Nat
    BY <1>8, <1>a, LimiterBounds, TimeoutAssumption DEF Tick, TypeOK
  <2>4. InTime'
    BY <2>1, <2>2, <2>3 DEF InTime
  <2> QED
    BY <1>8, <1>a, <2>4, Idle DEF Tick, counters, Inv
<1>9. CASE RedisFails \/ RedisRecovers \/ UNCHANGED vars
  <2>1. InTime'
    BY <1>9, <1>a DEF RedisFails, RedisRecovers, vars, InTime
  <2> QED
    BY <1>9, <1>a, <2>1, Idle DEF RedisFails, RedisRecovers, vars, counters, Inv
<1> QED
  BY <1>1, <1>2, <1>3, <1>4, <1>5, <1>6, <1>7, <1>8, <1>9 DEF Next

LEMMA InvHolds == Spec => []Inv
BY InvInit, InvStep, PTL DEF Spec

-----------------------------------------------------------------------------
\* Admissions to a window hold different slots of its counter, so there are
\* no more of them than the counter says.
LEMMA AdmittedCounted ==
  ASSUME Inv, NEW k \in Keys
  PROVE  IsFiniteSet(Admitted(k)) /\ Cardinality(Admitted(k)) \in Nat
         /\ Cardinality(Admitted(k)) <= count[k]
<1> DEFINE S == Admitted(k)
           T == 1 .. count[k]
           f == [a \in S |-> a.slot]
<1>1. count[k] \in Nat /\ \A a \in log : a.slot \in Nat
  BY DEF Inv, TypeOK
<1>2. \A a \in S : f[a] \in T
  BY <1>1 DEF Inv, Slots, Admitted
<1>3. \A a \in S, b \in S : f[a] = f[b] => a = b
  BY DEF Inv, Slots, Admitted
<1>4. f \in [S -> T]
  BY <1>2
<1>5. f \in Injection(S, T)
  BY <1>3, <1>4 DEF Injection, IsInjective
<1>6. IsFiniteSet(T) /\ Cardinality(T) = count[k]
  BY <1>1, FS_Interval
<1>7. IsFiniteSet(S) /\ Cardinality(S) <= Cardinality(T)
  BY <1>5, <1>6, FS_Injection
<1> QED
  BY <1>6, <1>7, FS_CardinalityType

\* No window of a client is granted more than its limiter's maximum, for any
\* chain of limiters, delays up to a window, outages and lost replies.
THEOREM WindowsAreBounded == Spec => []WindowBound
<1>1. ASSUME Inv PROVE WindowBound
  <2> SUFFICES ASSUME NEW k \in Keys
               PROVE  Cardinality(Admitted(k)) <= Chain[k.limiter].max
    BY DEF WindowBound
  <2>1. Cardinality(Admitted(k)) \in Nat /\ Cardinality(Admitted(k)) <= count[k]
    BY <1>1, AdmittedCounted
  <2>2. count[k] \in Nat /\ Chain[k.limiter].max \in Nat
        /\ count[k] <= Chain[k.limiter].max
    BY <1>1, ChainTyped DEF Inv, TypeOK, BelowMax, Keys
  <2> QED
    BY <2>1, <2>2
<1> QED
  BY <1>1, InvHolds, PTL

\* The counters of this window and the one before never expire too early.
THEOREM NothingIsForgotten == Spec => []NothingForgotten
<1>1. ASSUME Inv PROVE NothingForgotten
  <2> SUFFICES ASSUME NEW k \in Keys,
                      k.id \in {WindowId(clock) - 1, WindowId(clock)}
               PROVE  CountOf(k) >= Cardinality(Admitted(k))
    BY DEF NothingForgotten
  <2> DEFINE id == WindowId(clock)
  <2>1. clock \in Nat /\ Window \in Nat \ {0} /\ id \in Nat
        /\ clock < id * Window + Window
    BY <1>1, LimiterBounds, WindowAssumption, WindowTyped DEF Inv, TypeOK
  <2>2. k.id \in Int /\ id + 1 <= k.id + 2
    BY <2>1 DEF Keys
  <2> HIDE DEF id
  <2>3. (id + 1) * Window <= (k.id + 2) * Window
    BY <2>1, <2>2, AtMostByProduct
  <2>4. clock < (id + 1) * Window
    BY <2>1, SMT
  <2>5. (id + 1) * Window \in Int /\ (k.id + 2) * Window \in Int
    BY <2>1, <2>2
  <2>6. clock < (k.id + 2) * Window
    BY <2>1, <2>3, <2>4, <2>5
  <2>7. CountOf(k) = count[k] /\ count[k] \in Nat
    BY <1>1, <2>6, Remembered DEF Inv, TypeOK
  <2> QED
    BY <1>1, <2>7, AdmittedCounted
<1> QED
  BY <1>1, InvHolds, PTL

-----------------------------------------------------------------------------
(***************************************************************************)
(* Why a client is refused, and for how long.  The script knows counters;  *)
(* the properties speak of admissions.  They agree as long as no script    *)
(* was carried out twice: then every slot below a counter has an admission *)
(* (Filled).  An admission is filed under the window it was sampled in     *)
(* (Dated), and a refusal records what the counters were (Justified),      *)
(* which never decrease.                                                   *)
(***************************************************************************)
Filled == lost = 0 =>
  \A k \in Keys : \A n \in 1 .. count[k] : \E a \in log : a.key = k /\ a.slot = n

Dated == \A a \in log : a.key.id = WindowId(a.at)

BeforeKey(q) == Key(q.stage, WindowId(q.now) - 1, ClientKey(q.stage, q))

Justified == \A r \in Requests : req[r].pc = "refused" =>
  /\ count[BeforeKey(req[r])] + count[JudgedKey(req[r])] >= Chain[req[r].stage].max
  /\ req[r].state.reset = (WindowId(req[r].now) + 1) * Window

RefusalInv == Inv /\ Filled /\ Dated /\ Justified

LEMMA BeforeKeyTyped ==
  ASSUME TypeOK, NEW r \in Requests
  PROVE  BeforeKey(req[r]) \in Keys
BY JudgedKeyTyped, KeyTyped DEF BeforeKey

\* What a limiter does not allow has used up its limit, in two windows.
LEMMA RefusedAboveMax ==
  ASSUME TypeOK, NEW r \in Requests,
         ~Allowed(req[r].stage, ClientKey(req[r].stage, req[r]), req[r].now)
  PROVE  count[BeforeKey(req[r])] + count[JudgedKey(req[r])] >= Chain[req[r].stage].max
<1> DEFINE l == req[r].stage
           t == req[r].now
           start == WindowId(t) * Window
           b == CountOf(BeforeKey(req[r]))
           c == CountOf(JudgedKey(req[r]))
           rest == Window - (t - start)
           max == Chain[l].max
<1>1. /\ b \in Nat /\ b <= count[BeforeKey(req[r])]
      /\ c \in Nat /\ c <= count[JudgedKey(req[r])]
      /\ count[BeforeKey(req[r])] \in Nat /\ count[JudgedKey(req[r])] \in Nat
  BY BeforeKeyTyped, JudgedKeyTyped, CountTyped DEF TypeOK
<1>2. t \in Nat /\ Window \in Nat /\ Window > 0 /\ max \in Nat
  BY JudgedKeyTyped, WindowAssumption, ChainTyped
<1>3. WindowId(t) \in Nat /\ start <= t /\ t < start + Window
  BY <1>2, WindowTyped
<1>4. start \in Nat
  BY <1>2, <1>3, ProductTyped
<1>5. ~(b * rest + c * Window < max * Window)
  BY DEF Allowed, Weighted, BeforeKey, JudgedKey
<1> HIDE DEF b, c, max, start
<1>6. rest \in Nat /\ rest <= Window
  BY <1>2, <1>3, <1>4
<1> HIDE DEF t, l, rest
<1>7. b * rest <= b * Window
  BY <1>1, <1>2, <1>6, SMT
<1>8. /\ b * rest \in Nat /\ b * Window \in Nat /\ c * Window \in Nat
      /\ max * Window \in Nat /\ (b + c) * Window = b * Window + c * Window
  BY <1>1, <1>2, <1>6, ProductTyped, SMT
<1>9. ~((b + c) * Window < max * Window)
  BY <1>5, <1>7, <1>8
<1>10. ~(b + c < max)
  <2> SUFFICES ASSUME b + c + 1 <= max PROVE FALSE
    BY <1>1, <1>2
  <2>1. (b + c + 1) * Window <= max * Window
    BY <1>1, <1>2, AtMostByProduct
  <2>2. (b + c + 1) * Window = (b + c) * Window + Window
    BY <1>1, <1>2, SMT
  <2>3. (b + c) * Window \in Nat
    BY <1>1, <1>2, ProductTyped
  <2> QED
    BY <1>2, <1>8, <1>9, <2>1, <2>2, <2>3
<1> QED
  BY <1>1, <1>2, <1>10 DEF l, max

LEMMA RefusalInit == Init => RefusalInv
<1> SUFFICES ASSUME Init PROVE RefusalInv
  OBVIOUS
<1>1. Inv
  BY InvInit
<1>2. \A k \in Keys : 1 .. count[k] = {}
  BY DEF Init
<1> QED
  BY <1>1, <1>2 DEF Init, RefusalInv, Filled, Dated, Justified, NoRequest

\* A step that counts nothing and refuses nobody.
LEMMA NothingCounted ==
  ASSUME RefusalInv, UNCHANGED <<count, log, lost>>,
         \A s \in Requests : req'[s].pc = "refused" => req'[s] = req[s]
  PROVE  Filled' /\ Dated' /\ Justified'
BY DEF RefusalInv, Filled, Dated, Justified, BeforeKey, JudgedKey, ClientKey

\* A request that is not refused takes the place of another.
LEMMA NotRefused ==
  ASSUME TypeOK, NEW r \in Requests, NEW q, req' = [req EXCEPT ![r] = q],
         q.pc # "refused"
  PROVE  \A s \in Requests : req'[s].pc = "refused" => req'[s] = req[s]
BY DEF TypeOK

\* Counters only grow, so what was justified stays so.
LEMMA StaysJustified ==
  ASSUME RefusalInv, NEW k \in Keys, count' = [count EXCEPT ![k] = @ + 1],
         \A s \in Requests : req'[s].pc = "refused" => req'[s] = req[s]
  PROVE  Justified'
<1> SUFFICES ASSUME NEW s \in Requests, req'[s].pc = "refused"
             PROVE  /\ count'[BeforeKey(req[s])] + count'[JudgedKey(req[s])]
                           >= Chain[req[s].stage].max
                    /\ req[s].state.reset = (WindowId(req[s].now) + 1) * Window
  BY DEF Justified, BeforeKey, JudgedKey, ClientKey
<1>1. TypeOK /\ req[s].pc = "refused"
  BY DEF RefusalInv, Inv
<1>2. /\ count[BeforeKey(req[s])] + count[JudgedKey(req[s])] >= Chain[req[s].stage].max
      /\ req[s].state.reset = (WindowId(req[s].now) + 1) * Window
  BY <1>1 DEF RefusalInv, Justified
<1>3. BeforeKey(req[s]) \in Keys /\ JudgedKey(req[s]) \in Keys
      /\ Chain[req[s].stage].max \in Nat
  BY <1>1, BeforeKeyTyped, JudgedKeyTyped, ChainTyped
<1>4. \A j \in Keys : count[j] \in Nat /\ count'[j] \in Nat /\ count[j] <= count'[j]
  BY <1>1 DEF TypeOK
<1> QED
  BY <1>2, <1>3, <1>4

LEMMA RefusalStep == RefusalInv /\ [Next]_vars => RefusalInv'
<1> SUFFICES ASSUME RefusalInv, [Next]_vars PROVE RefusalInv'
  OBVIOUS
<1>a. Inv /\ Inv' /\ TypeOK
  BY InvStep DEF RefusalInv, Inv
<1>1. ASSUME NEW r \in Requests, NEW ip \in Ips, NEW email \in Emails,
             Arrive(r, ip, email)
      PROVE  RefusalInv'
  <2> DEFINE q == [NoRequest EXCEPT !.pc = "limiter", !.ip = ip, !.email = email]
  <2>1. q.pc # "refused" /\ req' = [req EXCEPT ![r] = q]
    BY <1>1 DEF Arrive, NoRequest
  <2> HIDE DEF q
  <2> QED
    BY <1>a, <1>1, <2>1, NotRefused, NothingCounted DEF Arrive, counters, RefusalInv
<1>2. ASSUME NEW r \in Requests, Send(r) PROVE RefusalInv'
  <2> DEFINE q == [req[r] EXCEPT !.pc = "sent", !.now = clock]
  <2>1. q.pc # "refused" /\ req' = [req EXCEPT ![r] = q]
    BY <1>2, <1>a DEF Send, TypeOK, Request
  <2> HIDE DEF q
  <2> QED
    BY <1>a, <1>2, <2>1, NotRefused, NothingCounted DEF Send, counters, RefusalInv
<1>3. ASSUME NEW r \in Requests, PassUnasked(r) \/ PoolExhausted(r) \/ FailOpen(r)
      PROVE  RefusalInv'
  <2> DEFINE q == [Pass(req[r]) EXCEPT !.open = TRUE]
  <2>1. Pass(req[r]) \in Request /\ Pass(req[r]).pc # "refused"
    BY <1>a, JudgedKeyTyped, PassTyped
  <2>2. q.pc # "refused" /\ req' = [req EXCEPT ![r] = q]
    BY <1>3, <2>1 DEF PassUnasked, PoolExhausted, FailOpen, Request
  <2> HIDE DEF q
  <2> QED
    BY <1>a, <1>3, <2>2, NotRefused, NothingCounted
    DEF PassUnasked, PoolExhausted, FailOpen, counters, RefusalInv
<1>4. ASSUME NEW r \in Requests, Admit(r) PROVE RefusalInv'
  <2> DEFINE k == JudgedKey(req[r])
             new == [key |-> k, at |-> req[r].now, slot |-> count[k] + 1]
             state == StateOf(req[r].stage, ClientKey(req[r].stage, req[r]),
                              req[r].now, TRUE)
             q == [Pass(req[r]) EXCEPT !.state = state]
  <2>1. count' = [count EXCEPT ![k] = @ + 1] /\ CountOf(k) = count[k]
    BY <1>a, <1>4, IncrKeeps DEF Admit, JudgedKey
  <2>2. log' = log \union {new} /\ lost' = lost
    BY <1>4, <2>1 DEF Admit, JudgedKey
  <2>3. k \in Keys /\ k.id = WindowId(req[r].now) /\ count \in [Keys -> Nat]
    BY <1>a, JudgedKeyTyped DEF TypeOK, JudgedKey, Key
  <2>4. Pass(req[r]) \in Request /\ Pass(req[r]).pc # "refused"
    BY <1>a, JudgedKeyTyped, PassTyped
  <2>5. req' = [req EXCEPT ![r] = q]
    BY <1>4 DEF Admit
  <2>6. q.pc # "refused"
    BY <2>4 DEF Request
  <2>7. new.key = k /\ new.slot = count[k] + 1 /\ new.at = req[r].now
    OBVIOUS
  <2> HIDE DEF state, q, new, k
  <2>8. Justified'
    BY <1>a, <2>1, <2>3, <2>5, <2>6, NotRefused, StaysJustified
  <2>9. Dated'
    BY <2>2, <2>3, <2>7 DEF RefusalInv, Dated
  <2>10. Filled'
    <3> SUFFICES ASSUME lost = 0, NEW j \in Keys, NEW n \in 1 .. count'[j]
                 PROVE  \E a \in log' : a.key = j /\ a.slot = n
      BY <2>2 DEF Filled
    <3>1. CASE n \in 1 .. count[j]
      BY <2>2, <3>1 DEF RefusalInv, Filled
    <3>2. CASE n \notin 1 .. count[j]
      <4>1. j = k /\ n = count[k] + 1
        BY <2>1, <2>3, <3>2
      <4> QED
        BY <2>2, <2>7, <4>1
    <3> QED
      BY <3>1, <3>2
  <2> QED
    BY <1>a, <2>8, <2>9, <2>10 DEF RefusalInv
<1>5. ASSUME NEW r \in Requests, Refuse(r) PROVE RefusalInv'
  <2> DEFINE state == StateOf(req[r].stage, ClientKey(req[r].stage, req[r]),
                              req[r].now, FALSE)
             q == [req[r] EXCEPT !.pc = "refused", !.again = FALSE, !.state = state]
  <2>1. req' = [req EXCEPT ![r] = q] /\ req[r] \in Request
    BY <1>5, <1>a DEF Refuse, TypeOK
  <2>2. state.reset = (WindowId(req[r].now) + 1) * Window
    BY DEF StateOf
  <2> HIDE DEF state
  <2>3. q.stage = req[r].stage /\ q.now = req[r].now /\ q.ip = req[r].ip
        /\ q.email = req[r].email /\ q.state = state
    BY <2>1 DEF Request
  <2> HIDE DEF q
  <2>4. req'[r] = q /\ \A s \in Requests \ {r} : req'[s] = req[s]
    BY <1>a, <2>1 DEF TypeOK
  <2>5. count[BeforeKey(req[r])] + count[JudgedKey(req[r])] >= Chain[req[r].stage].max
    BY <1>5, <1>a, RefusedAboveMax DEF Refuse
  <2>6. UNCHANGED <<count, log, lost>>
    BY <1>5 DEF Refuse, counters
  <2>7. BeforeKey(q) = BeforeKey(req[r]) /\ JudgedKey(q) = JudgedKey(req[r])
    BY <2>3 DEF BeforeKey, JudgedKey, ClientKey
  <2>8. Justified'
    <3> SUFFICES ASSUME NEW s \in Requests, req'[s].pc = "refused"
                 PROVE  /\ count[BeforeKey(req'[s])] + count[JudgedKey(req'[s])]
                               >= Chain[req'[s].stage].max
                        /\ req'[s].state.reset = (WindowId(req'[s].now) + 1) * Window
      BY <2>6 DEF Justified, BeforeKey, JudgedKey, ClientKey
    <3>1. CASE s = r
      BY <2>2, <2>3, <2>4, <2>5, <2>7, <3>1
    <3>2. CASE s # r
      BY <2>4, <3>2 DEF RefusalInv, Justified
    <3> QED
      BY <3>1, <3>2
  <2>9. Filled' /\ Dated'
    BY <2>6 DEF RefusalInv, Filled, Dated
  <2> QED
    BY <1>a, <2>8, <2>9 DEF RefusalInv
<1>6. ASSUME NEW r \in Requests, LoseReply(r) PROVE RefusalInv'
  <2> DEFINE k == JudgedKey(req[r])
             q == [req[r] EXCEPT !.again = TRUE]
  <2>1. count' = [count EXCEPT ![k] = @ + 1] /\ k \in Keys
    BY <1>a, <1>6, IncrKeeps, JudgedKeyTyped DEF LoseReply, JudgedKey
  <2>2. q.pc # "refused" /\ req' = [req EXCEPT ![r] = q]
    BY <1>6, <1>a DEF LoseReply, TypeOK, Request
  <2> HIDE DEF q, k
  <2>3. Justified'
    BY <1>a, <2>1, <2>2, NotRefused, StaysJustified
  <2>4. log' = log /\ lost' # 0
    BY <1>6, <1>a DEF LoseReply, TypeOK
  <2> QED
    BY <1>a, <2>3, <2>4 DEF RefusalInv, Filled, Dated
<1>7. ASSUME NEW r \in Requests, Handle(r) PROVE RefusalInv'
  <2> DEFINE q == [req[r] EXCEPT !.pc = "handled"]
  <2>1. q.pc # "refused" /\ req' = [req EXCEPT ![r] = q]
    BY <1>7, <1>a DEF Handle, TypeOK, Request
  <2> HIDE DEF q
  <2> QED
    BY <1>a, <1>7, <2>1, NotRefused, NothingCounted DEF Handle, counters, RefusalInv
<1>8. CASE Tick \/ RedisFails \/ RedisRecovers \/ UNCHANGED vars
  BY <1>8, <1>a, NothingCounted
  DEF Tick, RedisFails, RedisRecovers, vars, counters, RefusalInv
<1> QED
  BY <1>1, <1>2, <1>3, <1>4, <1>5, <1>6, <1>7, <1>8 DEF Next

LEMMA RefusalInvHolds == Spec => []RefusalInv
BY RefusalInit, RefusalStep, PTL DEF Spec

\* Without lost replies a counter is the number of admissions.
LEMMA CountedAdmitted ==
  ASSUME RefusalInv, lost = 0, NEW k \in Keys
  PROVE  IsFiniteSet(Admitted(k)) /\ Cardinality(Admitted(k)) = count[k]
<1> DEFINE S == Admitted(k)
           T == 1 .. count[k]
           f == [a \in S |-> a.slot]
<1>1. count[k] \in Nat /\ \A a \in log : a.slot \in Nat
  BY DEF RefusalInv, Inv, TypeOK
<1>2. \A a \in S : f[a] \in T
  BY <1>1 DEF RefusalInv, Inv, Slots, Admitted
<1>3. \A n \in T : \E a \in S : f[a] = n
  BY DEF RefusalInv, Filled, Admitted
<1>4. f \in Surjection(S, T)
  BY <1>2, <1>3 DEF Surjection
<1>5. IsFiniteSet(S) /\ Cardinality(S) \in Nat /\ Cardinality(S) <= count[k]
  BY AdmittedCounted DEF RefusalInv
<1>6. Cardinality(T) = count[k] /\ Cardinality(T) <= Cardinality(S)
  BY <1>1, <1>4, <1>5, FS_Surjection, FS_Interval
<1> QED
  BY <1>1, <1>5, <1>6

\* A client is refused only if it was let in as often as the limiter allows, in
\* this window and the one before, unless a script was carried out twice.
THEOREM RefusalsAreJustified == Spec => []RefusedOnlyAtLimit
<1>1. ASSUME RefusalInv PROVE RefusedOnlyAtLimit
  <2> SUFFICES ASSUME lost = 0, NEW r \in Requests, req[r].pc = "refused"
               PROVE  Cardinality(Admitted(JudgedKey(req[r]))
                        \union Admitted([JudgedKey(req[r]) EXCEPT !.id = @ - 1]))
                          >= Chain[req[r].stage].max
    BY DEF RefusedOnlyAtLimit, JudgedKey
  <2> DEFINE here == JudgedKey(req[r])
             before == BeforeKey(req[r])
  <2>1. TypeOK /\ here \in Keys /\ before \in Keys
    BY <1>1, JudgedKeyTyped, BeforeKeyTyped DEF RefusalInv, Inv
  <2>2. before = [here EXCEPT !.id = @ - 1]
    BY <2>1 DEF BeforeKey, JudgedKey, Key
  <2>3. before.id # here.id
    <3>1. here.id \in Int /\ before.id = here.id - 1
      BY <2>1 DEF BeforeKey, JudgedKey, Key, Keys
    <3> QED
      BY <3>1
  <2>4. count[before] + count[here] >= Chain[req[r].stage].max
    BY <1>1 DEF RefusalInv, Justified
  <2>5. /\ IsFiniteSet(Admitted(here)) /\ Cardinality(Admitted(here)) = count[here]
        /\ IsFiniteSet(Admitted(before)) /\ Cardinality(Admitted(before)) = count[before]
    BY <1>1, <2>1, CountedAdmitted
  <2>6. count[here] \in Nat /\ count[before] \in Nat
    BY <2>1 DEF TypeOK
  <2> HIDE DEF here, before
  <2>7. Cardinality(Admitted(here) \union Admitted(before)) = count[here] + count[before]
    <3>1. before # here
      BY <2>3
    <3>2. Admitted(here) \cap Admitted(before) = {}
      BY <3>1 DEF Admitted
    <3>3. Cardinality(Admitted(here) \union Admitted(before))
            = Cardinality(Admitted(here)) + Cardinality(Admitted(before))
                - Cardinality(Admitted(here) \cap Admitted(before))
      BY <2>5, FS_Union
    <3>4. Cardinality(Admitted(here) \cap Admitted(before)) = 0
      BY <3>2, FS_EmptySet
    <3> QED
      BY <2>5, <2>6, <3>3, <3>4
  <2> QED
    BY <2>2, <2>4, <2>6, <2>7 DEF here
<1> QED
  BY <1>1, RefusalInvHolds, PTL

\* A refused request whose client stayed away until a window after the reset.
LeftAlone(q) ==
  /\ q.pc = "refused" /\ clock >= q.state.reset + Window
  /\ \A a \in log : a.key.limiter = q.stage /\ a.key.client = ClientKey(q.stage, q)
                       => a.at < q.state.reset

\* One window after the announced reset nothing is held against a client that
\* was let in nowhere since, unless a script was carried out twice.
THEOREM RefusalsEnd == Spec => []RefusalEnds
<1>1. ASSUME RefusalInv PROVE RefusalEnds
  <2> SUFFICES ASSUME lost = 0, NEW r \in Requests, LeftAlone(req[r])
               PROVE  Allowed(req[r].stage, ClientKey(req[r].stage, req[r]), clock)
    BY DEF RefusalEnds, LeftAlone
  <2>0. /\ req[r].pc = "refused" /\ clock >= req[r].state.reset + Window
        /\ \A a \in log : /\ a.key.limiter = req[r].stage
                         /\ a.key.client = ClientKey(req[r].stage, req[r])
                           => a.at < req[r].state.reset
    BY DEF LeftAlone
  <2> DEFINE l == req[r].stage
             client == ClientKey(l, req[r])
             judged == WindowId(req[r].now)
             id == WindowId(clock)
             max == Chain[l].max
  <2>1. /\ TypeOK /\ l \in Limiters /\ client \in Clients
        /\ clock \in 0 .. MaxClock /\ clock \in Nat
        /\ judged \in Nat /\ id \in Nat /\ Window \in Nat \ {0} /\ max \in Nat \ {0}
    <3>1. TypeOK
      BY <1>1 DEF RefusalInv, Inv
    <3>2. clock \in 0 .. MaxClock /\ clock \in Nat
      BY <3>1, LimiterBounds DEF TypeOK
    <3>3. l \in Limiters /\ client \in Clients /\ req[r].now \in Nat
      BY <3>1, JudgedKeyTyped
    <3>4. judged \in Nat /\ id \in Nat
      BY <3>2, <3>3, WindowTyped
    <3>5. Window \in Nat \ {0} /\ max \in Nat \ {0}
      BY <3>3, WindowAssumption, ChainTyped
    <3> QED
      BY <3>1, <3>2, <3>3, <3>4, <3>5
  <2>2. req[r].state.reset = (judged + 1) * Window
    BY <1>1, <2>0 DEF RefusalInv, Justified
  <2>3. judged + 1 <= id - 1
    <3>1. clock < (id + 1) * Window
      BY <2>1, WindowTyped, SMT
    <3>2. (judged + 1) * Window + Window = (judged + 2) * Window
      BY <2>1, SMT
    <3>3. (judged + 2) * Window \in Nat /\ (id + 1) * Window \in Nat
      BY <2>1, ProductTyped
    <3> HIDE DEF judged, id
    <3>4. (judged + 2) * Window < (id + 1) * Window
      BY <2>0, <2>1, <2>2, <3>1, <3>2, <3>3
    <3>5. judged + 2 < id + 1
      BY <2>1, <3>4, LessByProduct
    <3> QED
      BY <2>1, <3>5
  <2>4. \A a \in log : a.key.limiter = l /\ a.key.client = client
                         => a.key.id < judged + 1
    <3> SUFFICES ASSUME NEW a \in log, a.key.limiter = l, a.key.client = client
                 PROVE  a.key.id < judged + 1
      OBVIOUS
    <3>1. a.at \in Nat /\ a.at < (judged + 1) * Window
      BY <2>0, <2>1, <2>2, LimiterBounds DEF TypeOK
    <3>2. WindowId(a.at) \in Nat /\ WindowId(a.at) * Window <= a.at
      BY <3>1, WindowTyped
    <3>3. (judged + 1) * Window \in Nat /\ WindowId(a.at) * Window \in Nat
      BY <2>1, <3>2, ProductTyped
    <3> HIDE DEF judged
    <3>4. WindowId(a.at) * Window < (judged + 1) * Window
      BY <3>1, <3>2, <3>3
    <3>5. WindowId(a.at) < judged + 1
      BY <2>1, <3>2, <3>4, LessByProduct
    <3> QED
      BY <1>1, <3>5 DEF RefusalInv, Dated
  <2>5. ASSUME NEW i \in {id - 1, id} PROVE CountOf(Key(l, i, client)) = 0
    <3> DEFINE k == Key(l, i, client)
    <3>1. k \in Keys /\ k.limiter = l /\ k.client = client /\ k.id = i
      BY <2>1, KeyTyped DEF Key
    <3>2. count[k] \in Nat /\ CountOf(k) \in Nat /\ CountOf(k) <= count[k]
      BY <2>1, <3>1, CountTyped DEF TypeOK
    <3>3. ~(i < judged + 1)
      BY <2>1, <2>3
    <3> HIDE DEF k
    <3>4. count[k] = 0
      <4> SUFFICES ASSUME 1 \in 1 .. count[k] PROVE FALSE
        BY <3>2
      <4>1. PICK a \in log : a.key = k
        BY <1>1, <3>1 DEF RefusalInv, Filled
      <4> QED
        BY <2>4, <3>1, <3>3, <4>1
    <3> QED
      BY <3>2, <3>4 DEF k
  <2>6. Weighted(l, client, clock) = 0
    <3> DEFINE rest == Window - (clock - id * Window)
    <3>1. rest \in Int /\ 0 * rest = 0 /\ 0 * Window = 0
      BY <2>1, SMT
    <3> HIDE DEF rest
    <3>2. Weighted(l, client, clock) = 0 * rest + 0 * Window
      BY <2>5 DEF Weighted, rest
    <3> QED
      BY <3>1, <3>2
  <2>7. 0 < max * Window
    BY <2>1, SMT
  <2> QED
    BY <2>6, <2>7 DEF Allowed
<1> QED
  BY <1>1, RefusalInvHolds, PTL

-----------------------------------------------------------------------------
(***************************************************************************)
(* The header of the last limiter.  A request that has passed the chain    *)
(* stands at its last limiter; as nothing was counted since, what the      *)
(* script left of the limit is left still.                                 *)
(***************************************************************************)
Alone(r) == \A s \in Requests \ {r} : req[s].pc = "idle"

PastChain(q) == q.pc \in {"handler", "handled"}

LastInv ==
  /\ TypeOK
  /\ \A r \in Requests : PastChain(req[r]) => req[r].stage = Len(Chain)
  /\ \A r \in Requests :
       /\ PastChain(req[r]) /\ ~req[r].open /\ req[r].state.remaining > 0
       /\ clock = req[r].now /\ Alone(r)
       => Allowed(Len(Chain), ClientKey(Len(Chain), req[r]), clock)

\* A script that lets a request in and reports a remainder leaves room.
LEMMA RoomLeft ==
  ASSUME TypeOK, TypeOK', NEW l \in Limiters, NEW client \in Clients,
         NEW t \in 0 .. MaxClock, t = clock, clock' = clock,
         Incr(Key(l, WindowId(t), client)),
         StateOf(l, client, t, TRUE).remaining > 0
  PROVE  Allowed(l, client, t)'
<1> DEFINE here == Key(l, WindowId(t), client)
           before == Key(l, WindowId(t) - 1, client)
           b == CountOf(before)
           c == CountOf(here)
           rest == Window - (t - WindowId(t) * Window)
           w == Weighted(l, client, t)
           max == Chain[l].max
           up == Ceiling(w)
<1>1. /\ here \in Keys /\ before \in Keys /\ here # before
      /\ t \in Nat /\ Window \in Nat \ {0} /\ WindowId(t) \in Nat /\ max \in Nat \ {0}
  <2>1. t \in Nat /\ Window \in Nat \ {0} /\ max \in Nat \ {0}
    BY LimiterBounds, WindowAssumption, ChainTyped
  <2>2. WindowId(t) \in Nat
    BY <2>1, WindowTyped
  <2>3. WindowId(t) # WindowId(t) - 1
    BY <2>2
  <2> QED
    BY <2>1, <2>2, <2>3, KeyTyped DEF Key
<1>2. b \in Nat /\ c \in Nat /\ w \in Nat /\ w = b * rest + c * Window
  BY <1>1, CountTyped, WeightedTyped DEF Weighted
<1>3. CountOf(here)' = c + 1 /\ CountOf(before)' = b
  <2>1. here' = here /\ before' = before
    BY DEF Key, WindowId
  <2>2. clock < clock + 2 * Window /\ clock \in Nat
    BY <1>1
  <2>3. /\ count'[here] = c + 1 /\ expires'[here] = clock + 2 * Window
        /\ count'[before] = count[before] /\ expires'[before] = expires[before]
    <3> HIDE DEF here, before
    <3>1. Incr(here)
      BY DEF here
    <3> QED
      BY <1>1, <3>1 DEF Incr, TypeOK, c
  <2> HIDE DEF here, before
  <2> QED
    BY <1>1, <2>1, <2>2, <2>3 DEF CountOf, b
<1>4. Weighted(l, client, t)' = b * rest + (c + 1) * Window
  BY <1>3 DEF Weighted, Key, WindowId
<1>5. (c + 1) * Window = c * Window + Window /\ b * rest \in Int /\ c * Window \in Int
  <2>1. rest \in Int
    BY <1>1
  <2> HIDE DEF rest, b, c
  <2> QED
    BY <1>1, <1>2, <2>1, SMT
<1>6. up \in Nat /\ w <= up * Window
  <2>1. w + Window - 1 \in Nat
    BY <1>1, <1>2
  <2>2. WindowId(w + Window - 1) \in Nat
        /\ w + Window - 1 < WindowId(w + Window - 1) * Window + Window
    BY <2>1, WindowTyped
  <2>3. up = WindowId(w + Window - 1)
    BY DEF Ceiling, WindowId
  <2>4. up * Window \in Nat
    BY <1>1, <2>2, <2>3, ProductTyped
  <2> HIDE DEF w, up
  <2> QED
    BY <1>1, <1>2, <2>1, <2>2, <2>3, <2>4
<1>7. up + 1 < max
  <2>1. PICK n : n = StateOf(l, client, t, TRUE).remaining /\ n > 0
    OBVIOUS
  <2>2. n > 0
    BY <2>1
  <2>3. n = IF up + 1 < max THEN max - (up + 1) ELSE 0
    BY <2>1 DEF StateOf
  <2> HIDE DEF w, up, max
  <2>4. CASE ~(up + 1 < max)
    <3>1. n = 0
      BY <2>3, <2>4
    <3> QED
      BY <2>2, <3>1
  <2> QED
    BY <2>4
<1>8. (up + 1) * Window < max * Window
  <2> HIDE DEF up, max
  <2> QED
    BY <1>1, <1>6, <1>7, SMT
<1>9. (up + 1) * Window = up * Window + Window /\ up * Window \in Int
  <2> HIDE DEF up
  <2> QED
    BY <1>1, <1>6, SMT
<1>10. Weighted(l, client, t)' = w + Window
  <2> HIDE DEF b, c, rest, w
  <2> QED
    BY <1>1, <1>2, <1>4, <1>5
<1>11. max * Window \in Int
  BY <1>1, ProductTyped
<1>12. w + Window < max * Window
  <2> HIDE DEF w, up, max
  <2> QED
    BY <1>1, <1>2, <1>6, <1>8, <1>9, <1>11
<1> QED
  BY <1>10, <1>12 DEF Allowed

LEMMA LastInit == Init => LastInv
BY TypeInit DEF Init, LastInv, PastChain, NoRequest

\* A step of another request ends being alone.
LEMMA NotAlone ==
  ASSUME TypeOK, NEW r \in Requests, NEW s \in Requests, r # s,
         NEW q, q.pc # "idle", req' = [req EXCEPT ![s] = q]
  PROVE  ~Alone(r)' /\ req'[r] = req[r]
BY DEF TypeOK, Alone

\* A request that is not past the chain, or that a limiter let pass unjudged,
\* takes its place.
LEMMA LastPut ==
  ASSUME LastInv, TypeOK', NEW r \in Requests, NEW q, q.pc # "idle",
         req' = [req EXCEPT ![r] = q],
         PastChain(q) => q.stage = Len(Chain) /\ q.open
  PROVE  LastInv'
<1>1. req'[r] = q
  BY DEF LastInv, TypeOK
<1>2. \A s \in Requests : s # r => req'[s] = req[s] /\ ~Alone(s)'
  BY NotAlone DEF LastInv
<1>3. \A s \in Requests : PastChain(req'[s]) => req'[s].stage = Len(Chain)
  BY <1>1, <1>2 DEF LastInv
<1>4. \A s \in Requests :
        ~(PastChain(req'[s]) /\ ~req'[s].open /\ Alone(s)')
  BY <1>1, <1>2
<1> QED
  BY <1>3, <1>4 DEF LastInv, PastChain

LEMMA LastStep == LastInv /\ [Next]_vars => LastInv'
<1> SUFFICES ASSUME LastInv, [Next]_vars PROVE LastInv'
  OBVIOUS
<1>a. TypeOK /\ TypeOK'
  BY TypeStep DEF LastInv
<1>b. \A r \in Requests : req[r] \in Request
  BY <1>a DEF TypeOK
<1>1. ASSUME NEW r \in Requests, NEW ip \in Ips, NEW email \in Emails,
             Arrive(r, ip, email)
      PROVE  LastInv'
  <2> DEFINE q == [NoRequest EXCEPT !.pc = "limiter", !.ip = ip, !.email = email]
  <2>1. q.pc = "limiter" /\ req' = [req EXCEPT ![r] = q]
    BY <1>1 DEF Arrive, NoRequest
  <2> HIDE DEF q
  <2> QED
    BY <1>a, <2>1, LastPut DEF PastChain
<1>2. ASSUME NEW r \in Requests, Send(r) PROVE LastInv'
  <2> DEFINE q == [req[r] EXCEPT !.pc = "sent", !.now = clock]
  <2>1. q.pc = "sent" /\ req' = [req EXCEPT ![r] = q]
    BY <1>2, <1>a, <1>b DEF Send, TypeOK, Request
  <2> HIDE DEF q
  <2> QED
    BY <1>a, <2>1, LastPut DEF PastChain
<1>3. ASSUME NEW r \in Requests, PassUnasked(r) \/ PoolExhausted(r) \/ FailOpen(r)
      PROVE  LastInv'
  <2> DEFINE q == [Pass(req[r]) EXCEPT !.open = TRUE]
  <2>1. req' = [req EXCEPT ![r] = q]
    BY <1>3 DEF PassUnasked, PoolExhausted, FailOpen
  <2>2. q.open /\ q.pc # "idle" /\ (PastChain(q) => q.stage = Len(Chain))
    BY <1>b DEF Pass, PastChain, Request
  <2> HIDE DEF q
  <2> QED
    BY <1>a, <2>1, <2>2, LastPut
<1>4. ASSUME NEW r \in Requests, Admit(r) PROVE LastInv'
  <2>0. PICK l \in Limiters, t \in 0 .. MaxClock, client \in Clients :
          l = req[r].stage /\ t = req[r].now /\ client = ClientKey(l, req[r])
    BY <1>a, JudgedKeyTyped
  <2>1. PICK q : q = [Pass(req[r]) EXCEPT !.state = StateOf(l, client, t, TRUE)]
    OBVIOUS
  <2>2. req' = [req EXCEPT ![r] = q] /\ clock' = clock
        /\ Incr(Key(l, WindowId(t), client))
    BY <1>4, <2>0, <2>1 DEF Admit, environment
  <2>3. /\ q.pc # "idle" /\ (PastChain(q) => q.stage = Len(Chain))
        /\ q.now = t /\ q.ip = req[r].ip /\ q.email = req[r].email
        /\ q.state = StateOf(l, client, t, TRUE)
        /\ (PastChain(q) => l = Len(Chain))
    BY <1>b, <2>0, <2>1 DEF Pass, PastChain, Request
  <2>4. req'[r] = q
    BY <2>2, <1>a DEF TypeOK
  <2>5. \A s \in Requests : s # r => req'[s] = req[s] /\ ~Alone(s)'
    BY <2>2, <2>3, <1>a, NotAlone
  <2>6. \A s \in Requests : PastChain(req'[s]) => req'[s].stage = Len(Chain)
    BY <2>3, <2>4, <2>5 DEF LastInv
  <2>7. ASSUME PastChain(q), q.state.remaining > 0, clock' = q.now
        PROVE  Allowed(Len(Chain), ClientKey(Len(Chain), q), clock)'
    <3>1. StateOf(l, client, t, TRUE).remaining > 0 /\ t = clock
      BY <2>2, <2>3, <2>7
    <3>2. Allowed(l, client, t)'
      BY <1>a, <2>2, <3>1, RoomLeft
    <3>3. l = Len(Chain) /\ ClientKey(Len(Chain), q) = client
      BY <2>0, <2>3, <2>7 DEF ClientKey
    <3> QED
      BY <2>2, <3>1, <3>2, <3>3 DEF Allowed, Weighted, CountOf
  <2> QED
    BY <1>a, <2>4, <2>5, <2>6, <2>7 DEF LastInv
<1>5. ASSUME NEW r \in Requests, Refuse(r) PROVE LastInv'
  <2> DEFINE state == StateOf(req[r].stage, ClientKey(req[r].stage, req[r]),
                              req[r].now, FALSE)
             q == [req[r] EXCEPT !.pc = "refused", !.again = FALSE, !.state = state]
  <2>1. q.pc = "refused" /\ req' = [req EXCEPT ![r] = q]
    BY <1>5, <1>a, <1>b DEF Refuse, TypeOK, Request
  <2> HIDE DEF q
  <2> QED
    BY <1>a, <2>1, LastPut DEF PastChain
<1>6. ASSUME NEW r \in Requests, LoseReply(r) PROVE LastInv'
  <2> DEFINE q == [req[r] EXCEPT !.again = TRUE]
  <2>1. q.pc = "sent" /\ req' = [req EXCEPT ![r] = q]
    BY <1>6, <1>a, <1>b DEF LoseReply, TypeOK, Request
  <2> HIDE DEF q
  <2> QED
    BY <1>a, <2>1, LastPut DEF PastChain
<1>7. ASSUME NEW r \in Requests, Handle(r) PROVE LastInv'
  <2>0. PICK q : q = [req[r] EXCEPT !.pc = "handled"]
    OBVIOUS
  <2>1. /\ req[r].pc = "handler" /\ req' = [req EXCEPT ![r] = q]
        /\ UNCHANGED <<clock, count, expires>>
    BY <1>7, <1>a, <2>0 DEF Handle, TypeOK, environment, counters
  <2>2. /\ q.pc = "handled" /\ q.stage = req[r].stage /\ q.open = req[r].open
        /\ q.state = req[r].state /\ q.now = req[r].now
        /\ q.ip = req[r].ip /\ q.email = req[r].email
    BY <1>b, <2>0 DEF Request
  <2>3. req'[r] = q
    BY <2>1, <1>a DEF TypeOK
  <2>4. \A s \in Requests : s # r => req'[s] = req[s] /\ ~Alone(s)'
    BY <2>1, <2>2, <1>a, NotAlone
  <2>5. \A s \in Requests : PastChain(req'[s]) => req'[s].stage = Len(Chain)
    BY <2>1, <2>2, <2>3, <2>4 DEF LastInv, PastChain
  <2>6. Alone(r)' => Alone(r)
    BY <2>4 DEF Alone
  <2>7. ASSUME ~q.open, q.state.remaining > 0, clock' = q.now, Alone(r)'
        PROVE  Allowed(Len(Chain), ClientKey(Len(Chain), q), clock)'
    <3>1. Allowed(Len(Chain), ClientKey(Len(Chain), req[r]), clock)
      BY <2>1, <2>2, <2>6, <2>7 DEF LastInv, PastChain
    <3>2. ClientKey(Len(Chain), q) = ClientKey(Len(Chain), req[r])
      BY <2>2 DEF ClientKey
    <3> QED
      BY <2>1, <3>1, <3>2 DEF Allowed, Weighted, CountOf
  <2> QED
    BY <1>a, <2>3, <2>4, <2>5, <2>7 DEF LastInv
<1>8. CASE Tick
  <2>1. clock \in Nat /\ clock' = clock + 1 /\ req' = req
    BY <1>8, <1>a, LimiterBounds DEF Tick, TypeOK
  <2>2. \A r \in Requests : req[r].now \in Nat /\ req[r].now <= clock
    BY <1>a, JudgedKeyTyped DEF TypeOK
  <2>3. \A r \in Requests : clock' # req'[r].now
    BY <2>1, <2>2
  <2> QED
    BY <1>a, <2>1, <2>3 DEF LastInv
<1>9. CASE RedisFails \/ RedisRecovers \/ UNCHANGED vars
  <2>1. UNCHANGED <<clock, count, expires, req>>
    BY <1>9 DEF RedisFails, RedisRecovers, vars, counters
  <2> QED
    BY <1>a, <2>1
    DEF LastInv, PastChain, Alone, Allowed, Weighted, CountOf, ClientKey
<1> QED
  BY <1>1, <1>2, <1>3, <1>4, <1>5, <1>6, <1>7, <1>8, <1>9 DEF Next

\* Whoever is told that requests remain, and is alone, is let in once more by
\* the limiter that said so (X-RateLimit-Remaining).
THEOREM LastRemainderIsTrue == Spec => []LastRemainingIsTrue
<1>1. Init => LastInv
  BY LastInit
<1>2. LastInv /\ [Next]_vars => LastInv'
  BY LastStep
<1>3. LastInv => LastRemainingIsTrue
  BY DEF LastInv, LastRemainingIsTrue, PastChain, Alone
<1> QED
  BY <1>1, <1>2, <1>3, PTL DEF Spec
=============================================================================
