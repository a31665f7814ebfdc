------------------------ MODULE AccountLockout_proofs ------------------------
(***************************************************************************)
(* Theorems about AccountLockout, for any limit, any addresses however they   *)
(* are spelled, and any number of logins at once.                          *)
(***************************************************************************)
EXTENDS AccountLockout, FiniteSetTheorems, TLAPS

LEMMA NoLoginTyped == NoLogin \in [pc : Steps, email : Spellings, again : BOOLEAN]
<1>1. (CHOOSE e \in Emails : TRUE) \in Spellings
  BY LockoutAssumption
<1> QED
  BY <1>1 DEF NoLogin, Steps

\* Sets of requests are finite, and there are no more of them than requests.
LEMMA Counting ==
  ASSUME NEW S \in SUBSET Requests
  PROVE  /\ IsFiniteSet(S) /\ Cardinality(S) \in Nat
         /\ Cardinality(Requests) \in Nat
         /\ Cardinality(S) <= Cardinality(Requests)
BY LockoutAssumption, FS_Subset, FS_CardinalityType

LEMMA CountingMore ==
  ASSUME NEW S \in SUBSET Requests, NEW T \in SUBSET Requests, S \subseteq T
  PROVE  Cardinality(S) <= Cardinality(T)
BY LockoutAssumption, FS_Subset, FS_CardinalityType

LEMMA CountingOneLess ==
  ASSUME NEW S \in SUBSET Requests, NEW r \in S
  PROVE  Cardinality(S \ {r}) = Cardinality(S) - 1
BY Counting, FS_RemoveElement

Login == [pc : Steps, email : Spellings, again : BOOLEAN]

LEMMA GoesTyped ==
  ASSUME TypeOK, NEW r \in Requests, NEW pc \in Steps, Goes(r, pc)
  PROVE  req' \in [Requests -> Login]
BY DEF TypeOK, Goes, Login

LEMMA AddressTyped ==
  ASSUME TypeOK, NEW r \in Requests
  PROVE  /\ req[r].email \in Spellings /\ Address(r) \in Emails /\ Address(r) \in Spellings
         /\ req[r].email \in Emails => Address(r) = req[r].email
<1>1. req[r].email \in Spellings
  BY DEF TypeOK
<1> QED
  BY <1>1, LockoutAssumption DEF Address

\* Forgetting an address leaves nothing counted for it, and the rest as it is.
LEMMA ForgetTyped ==
  ASSUME TypeOK, NEW f \in Emails, Forget(f)
  PROVE  /\ count' \in [Spellings -> Nat] /\ own' \in [Spellings -> Nat]
         /\ volatile' \in [Spellings -> BOOLEAN]
         /\ count'[f] = 0 /\ own'[f] = 0 /\ ~volatile'[f]
         /\ \A e \in Emails : e # f => count'[e] = count[e] /\ own'[e] = own[e]
         /\ \A e \in Spellings : e # f => count'[e] = count[e] /\ volatile'[e] = volatile[e]
<1>1. f \in Spellings /\ Emails \subseteq Spellings /\ \A e \in Emails : Normal[e] = e
  BY LockoutAssumption
<1> QED
  BY <1>1 DEF Forget, TypeOK

LEMMA TypeInit == Init => TypeOK
BY NoLoginTyped, LockoutAssumption DEF Init, TypeOK

\* The state is well typed (all steps of a login, outages and restarts).
LEMMA TypeStep == TypeOK /\ [Next]_vars => TypeOK'
<1> SUFFICES ASSUME TypeOK, [Next]_vars PROVE TypeOK'
  OBVIOUS
<1>a. /\ count \in [Spellings -> Nat] /\ own \in [Spellings -> Nat]
      /\ volatile \in [Spellings -> BOOLEAN]
      /\ \A e \in Spellings : e \notin Emails => count[e] = 0
      /\ \A e \in Spellings : volatile[e] => count[e] > 0
      /\ redis \in {"up", "failing", "none"} /\ req \in [Requests -> Login]
      /\ faults \in Nat /\ lost \in Nat /\ restarts \in Nat
  BY DEF TypeOK, Login
<1>b. "idle" \in Steps /\ "verify" \in Steps /\ "incr" \in Steps
      /\ "expire" \in Steps /\ "del" \in Steps
  BY DEF Steps
<1>1. ASSUME NEW r \in Requests, NEW e \in Spellings, Begin(r, e) PROVE TypeOK'
  <2> DEFINE new == [NoLogin EXCEPT !.email = e,
                       !.pc = IF redis = "none" THEN "verify" ELSE "get"]
  <2>1. new \in Login
    BY NoLoginTyped DEF Steps, Login
  <2>2. req' = [req EXCEPT ![r] = new]
    BY <1>1 DEF Begin
  <2>3. req' \in [Requests -> Login]
    BY <2>1, <2>2, <1>a
  <2> QED
    BY <1>1, <2>3, <1>a DEF Begin, TypeOK, Login, keys, environment
<1>2. ASSUME NEW r \in Requests, Check(r) PROVE TypeOK'
  <2>1. req' \in [Requests -> Login]
    BY <1>2, <1>b, GoesTyped DEF Check
  <2>2. req[r].email \in Spellings /\ Address(r) \in Emails /\ Address(r) \in Spellings
    BY AddressTyped
  <2> QED
    BY <1>2, <2>1, <2>2, <1>a DEF Check, TypeOK, Login, keys, environment
<1>3. ASSUME NEW r \in Requests, WrongPassword(r) PROVE TypeOK'
  <2>1. req' \in [Requests -> Login]
    BY <1>3, <1>b, GoesTyped DEF WrongPassword
  <2>2. req[r].email \in Spellings /\ Address(r) \in Emails /\ Address(r) \in Spellings
    BY AddressTyped
  <2> QED
    BY <1>3, <2>1, <2>2, <1>a DEF WrongPassword, TypeOK, Login, keys, environment
<1>4. ASSUME NEW r \in Requests, RightPassword(r) PROVE TypeOK'
  <2>1. req' \in [Requests -> Login]
    BY <1>4, <1>b, GoesTyped DEF RightPassword
  <2>2. req[r].email \in Spellings /\ Address(r) \in Emails /\ Address(r) \in Spellings
    BY AddressTyped
  <2> QED
    BY <1>4, <2>1, <2>2, <1>a DEF RightPassword, TypeOK, Login, keys, environment
<1>5. ASSUME NEW r \in Requests, Forbidden(r) PROVE TypeOK'
  <2>1. req' \in [Requests -> Login]
    BY <1>5, <1>b, GoesTyped DEF Forbidden
  <2>2. req[r].email \in Spellings /\ Address(r) \in Emails /\ Address(r) \in Spellings
    BY AddressTyped
  <2> QED
    BY <1>5, <2>1, <2>2, <1>a DEF Forbidden, TypeOK, Login, keys, environment
<1>6. ASSUME NEW r \in Requests, Incr(r) PROVE TypeOK'
  <2>1. req' \in [Requests -> Login]
    BY <1>6, <1>b, GoesTyped DEF Incr
  <2>2. req[r].email \in Spellings /\ Address(r) \in Emails /\ Address(r) \in Spellings
    BY AddressTyped
  <2> QED
    BY <1>6, <2>1, <2>2, <1>a DEF Incr, TypeOK, Login, keys, environment
<1>7. ASSUME NEW r \in Requests, IncrLost(r) PROVE TypeOK'
  <2>1. req' \in [Requests -> Login]
    BY <1>7, <1>a DEF IncrLost, Login
  <2>2. req[r].email \in Spellings /\ Address(r) \in Emails /\ Address(r) \in Spellings
    BY AddressTyped
  <2> QED
    BY <1>7, <2>1, <2>2, <1>a DEF IncrLost, TypeOK, Login
<1>8. ASSUME NEW r \in Requests, Expire(r) PROVE TypeOK'
  <2>1. req' \in [Requests -> Login]
    BY <1>8, <1>b, GoesTyped DEF Expire
  <2>2. req[r].email \in Spellings /\ Address(r) \in Emails /\ Address(r) \in Spellings
    BY AddressTyped
  <2> QED
    BY <1>8, <2>1, <2>2, <1>a DEF Expire, TypeOK, Login, keys, environment
<1>9. ASSUME NEW r \in Requests, Del(r) PROVE TypeOK'
  <2>1. req' \in [Requests -> Login]
    BY <1>9, <1>b, GoesTyped DEF Del
  <2>2. req[r].email \in Spellings /\ Address(r) \in Emails /\ Address(r) \in Spellings
    BY AddressTyped
  <2> QED
    BY <1>9, <2>1, <2>2, <1>a, ForgetTyped DEF Del, TypeOK, Login, environment
<1>10. ASSUME NEW r \in Requests, RedisError(r) PROVE TypeOK'
  <2>1. req' \in [Requests -> Login]
    BY <1>10, <1>b, GoesTyped DEF RedisError
  <2>2. req[r].email \in Spellings /\ Address(r) \in Emails /\ Address(r) \in Spellings
    BY AddressTyped
  <2> QED
    BY <1>10, <2>1, <2>2, <1>a DEF RedisError, TypeOK, Login, keys, environment
<1>11. ASSUME NEW e \in Emails, KeyExpires(e) PROVE TypeOK'
  BY <1>11, <1>a, ForgetTyped DEF KeyExpires, TypeOK, Login, environment
<1>12. CASE RedisFails
  BY <1>12, <1>a DEF RedisFails, TypeOK, Login, keys
<1>13. CASE RedisRecovers
  BY <1>13, <1>a DEF RedisRecovers, TypeOK, Login, keys
<1>14. CASE Restart
  BY <1>14, <1>a, NoLoginTyped DEF Restart, TypeOK, Login, keys
<1>15. CASE UNCHANGED vars
  BY <1>15, <1>a DEF vars, TypeOK, Login
<1> QED
  BY <1>1, <1>2, <1>3, <1>4, <1>5, <1>6, <1>7, <1>8, <1>9, <1>10, <1>11,
     <1>12, <1>13, <1>14, <1>15 DEF Next, Serve

THEOREM TypeCorrect == Spec => []TypeOK
BY TypeInit, TypeStep, PTL DEF Spec

-----------------------------------------------------------------------------
\* An outage is counted, so no trouble is ever forgotten.
OutageCounted == redis = "failing" => faults > 0

\* Every failure in the counted spelling of an address is in its counter.
OwnCounted == \A e \in Emails : own[e] <= count[e]

Inv == TypeOK /\ OutageCounted /\ OwnCounted /\ AttemptsBounded /\ TtlOnItsWay

LEMMA InitInv == Init => Inv
<1> SUFFICES ASSUME Init PROVE Inv
  OBVIOUS
<1>1. TypeOK /\ OutageCounted
  BY TypeInit DEF Init, OutageCounted
<1>2. TtlOnItsWay
  BY LockoutAssumption DEF Init, TtlOnItsWay
<1>3. ASSUME NEW e \in Emails PROVE own[e] = 0 /\ count[e] = 0
  BY LockoutAssumption DEF Init
<1>4. ASSUME NEW e \in Emails PROVE Bounded(e)
  <2>1. Trying(e) \in SUBSET Requests
    BY DEF Trying
  <2> QED
    BY <1>3, <2>1, Counting, LockoutAssumption DEF Bounded
<1> QED
  BY <1>1, <1>2, <1>3, <1>4 DEF Inv, AttemptsBounded, OwnCounted

LEMMA TroubleLasts ==
  ASSUME TypeOK, OutageCounted, [Next]_vars
  PROVE  OutageCounted' /\ (Untroubled' => Untroubled)
<1> USE DEF TypeOK, OutageCounted, Untroubled
<1>1. ASSUME NEW r \in Requests, IncrLost(r)
      PROVE  OutageCounted' /\ (Untroubled' => Untroubled)
  BY <1>1 DEF IncrLost
<1>2. CASE RedisFails
  BY <1>2 DEF RedisFails
<1>3. CASE RedisRecovers
  BY <1>3 DEF RedisRecovers
<1>4. CASE Restart
  BY <1>4 DEF Restart
<1>5. CASE UNCHANGED <<redis, faults, lost, restarts>>
  BY <1>5
<1>6. ASSUME Next, ~RedisFails, ~RedisRecovers, ~Restart,
             ~\E r \in Requests : IncrLost(r)
      PROVE  UNCHANGED <<redis, faults, lost, restarts>>
  BY <1>6 DEF Next, Serve, Begin, Check, WrongPassword, RightPassword, Forbidden,
     Incr, Expire, Del, RedisError, KeyExpires, environment
<1> QED
  BY <1>1, <1>2, <1>3, <1>4, <1>5, <1>6 DEF vars

\* What a step does to the counter and to the failures of an address.
LEMMA OwnStep ==
  ASSUME TypeOK, OwnCounted, [Next]_vars
  PROVE  OwnCounted'
<1> SUFFICES ASSUME NEW e \in Emails PROVE own'[e] <= count'[e]
  BY DEF OwnCounted
<1>a. e \in Spellings
  BY LockoutAssumption
<1>b. own[e] \in Nat /\ count[e] \in Nat /\ own[e] <= count[e]
  BY <1>a DEF TypeOK, OwnCounted
<1>1. ASSUME NEW r \in Requests, Incr(r) PROVE own'[e] <= count'[e]
  <2>1. CASE req[r].email = e
    <3>1. Address(r) = e
      BY <2>1, AddressTyped
    <3> QED
      BY <1>1, <2>1, <3>1, <1>a, <1>b DEF Incr, TypeOK
  <2>2. CASE req[r].email # e
    <3>1. own'[e] = own[e]
      BY <1>1, <2>2, <1>a DEF Incr, TypeOK
    <3>2. count'[e] = count[e] \/ count'[e] = count[e] + 1
      BY <1>1, <1>a DEF Incr, TypeOK
    <3> QED
      BY <3>1, <3>2, <1>b
  <2> QED
    BY <2>1, <2>2
<1>2. ASSUME NEW r \in Requests, IncrLost(r) PROVE own'[e] <= count'[e]
  <2>1. own'[e] = own[e]
    BY <1>2 DEF IncrLost
  <2>2. count'[e] = count[e] \/ count'[e] = count[e] + 1
    BY <1>2, <1>a DEF IncrLost, TypeOK
  <2> QED
    BY <2>1, <2>2, <1>b
<1>3. ASSUME NEW f \in Emails, Forget(f) PROVE own'[e] <= count'[e]
  BY <1>3, <1>b, ForgetTyped
<1>4. CASE UNCHANGED <<count, own>>
  BY <1>4, <1>b
<1>5. ASSUME Next, ~\E r \in Requests : Incr(r) \/ IncrLost(r),
             ~\E f \in Emails : Forget(f)
      PROVE  UNCHANGED <<count, own>>
  <2>1. \A r \in Requests : ~Del(r)
    BY <1>5, AddressTyped DEF Del
  <2>2. \A f \in Emails : ~KeyExpires(f)
    BY <1>5 DEF KeyExpires
  <2> QED
    BY <1>5, <2>1, <2>2 DEF Next, Serve, Begin, Check, WrongPassword, RightPassword,
       Forbidden, Expire, RedisError, RedisFails, RedisRecovers, Restart, keys
<1> QED
  BY <1>1, <1>2, <1>3, <1>4, <1>5 DEF vars

\* The bound stays where no failure is added and nobody starts trying.
LEMMA NoMoreTrying ==
  ASSUME TypeOK, TypeOK', NEW e \in Emails,
         own'[e] <= own[e], Trying(e)' \subseteq Trying(e), Bounded(e)
  PROVE  Bounded(e)'
<1>1. Trying(e) \in SUBSET Requests /\ Trying(e)' \in SUBSET Requests
  BY DEF Trying
<1>2. Cardinality(Trying(e)') <= Cardinality(Trying(e))
  BY <1>1, CountingMore
<1>3. Cardinality(Trying(e)') \in Nat /\ Cardinality(Trying(e)) \in Nat
      /\ Cardinality(Requests) \in Nat
  BY <1>1, Counting
<1>4. own[e] \in Nat /\ own'[e] \in Nat
  BY LockoutAssumption DEF TypeOK
<1> QED
  BY <1>2, <1>3, <1>4, LockoutAssumption DEF Bounded

\* The bound on attempts, in a step that leaves Redis untroubled.
LEMMA AttemptsStep ==
  ASSUME Inv, TypeOK', [Next]_vars, Untroubled', Untroubled
  PROVE  AttemptsBounded'
<1> SUFFICES ASSUME NEW e \in Emails PROVE Bounded(e)'
  BY DEF AttemptsBounded
<1>a. e \in Spellings /\ Bounded(e) /\ TypeOK
  BY LockoutAssumption DEF Inv, AttemptsBounded
<1>b. /\ own[e] \in Nat /\ own'[e] \in Nat /\ count[e] \in Nat
      /\ Max \in Nat /\ own[e] <= count[e]
  BY <1>a, LockoutAssumption DEF Inv, TypeOK, OwnCounted
<1>c. Cardinality(Trying(e)') \in Nat /\ Cardinality(Trying(e)) \in Nat
      /\ Cardinality(Requests) \in Nat
      /\ Cardinality(Trying(e)') <= Cardinality(Requests)
  <2>1. Trying(e) \in SUBSET Requests /\ Trying(e)' \in SUBSET Requests
    BY DEF Trying
  <2> QED
    BY <2>1, Counting
<1>d. ASSUME own'[e] <= own[e], Trying(e)' \subseteq Trying(e)
      PROVE  Bounded(e)'
  BY <1>a, <1>d, NoMoreTrying
<1>1. ASSUME NEW r \in Requests, Check(r) PROVE Bounded(e)'
  <2>1. own'[e] = own[e]
    BY <1>1 DEF Check, keys
  <2>2. CASE req[r].email = e /\ count[e] < Max
    <3>1. own[e] < Max
      BY <2>2, <1>b
    <3> QED
      BY <2>1, <3>1, <1>b, <1>c DEF Bounded
  <2>3. CASE req[r].email # e \/ count[e] >= Max
    <3>1. Trying(e)' \subseteq Trying(e)
      BY <1>1, <2>3, <1>a DEF Check, Goes, Trying, TypeOK
    <3> QED
      BY <2>1, <3>1, <1>b, <1>d
  <2> QED
    BY <2>2, <2>3, <1>b
<1>2. ASSUME NEW r \in Requests, Incr(r) PROVE Bounded(e)'
  <2>1. CASE req[r].email = e
    <3>1. Trying(e)' = Trying(e) \ {r} /\ r \in Trying(e)
      BY <1>2, <2>1, <1>a DEF Incr, Goes, At, Trying, TypeOK
    <3>2. Trying(e) \in SUBSET Requests
      BY DEF Trying
    <3>3. Cardinality(Trying(e)') = Cardinality(Trying(e)) - 1
      BY <3>1, <3>2, CountingOneLess
    <3>4. own'[e] = own[e] + 1
      BY <1>2, <2>1, <1>a DEF Incr, TypeOK
    <3> QED
      BY <3>3, <3>4, <1>a, <1>b, <1>c DEF Bounded
  <2>2. CASE req[r].email # e
    <3>1. Trying(e)' \subseteq Trying(e)
      BY <1>2, <2>2, <1>a DEF Incr, Goes, Trying, TypeOK
    <3>2. own'[e] = own[e]
      BY <1>2, <2>2, <1>a DEF Incr, TypeOK
    <3> QED
      BY <3>1, <3>2, <1>b, <1>d
  <2> QED
    BY <2>1, <2>2
<1>3. ASSUME NEW r \in Requests, NEW f \in Spellings, Begin(r, f) PROVE Bounded(e)'
  <2>1. Trying(e)' \subseteq Trying(e)
    BY <1>3, <1>a DEF Begin, NoLogin, Trying, TypeOK, Untroubled
  <2>2. own'[e] = own[e]
    BY <1>3 DEF Begin, keys
  <2> QED
    BY <2>1, <2>2, <1>b, <1>d
<1>4. ASSUME NEW r \in Requests,
             \/ WrongPassword(r) \/ RightPassword(r) \/ Forbidden(r)
             \/ Expire(r) \/ RedisError(r)
      PROVE  Bounded(e)'
  <2>1. Trying(e)' \subseteq Trying(e)
    BY <1>4, <1>a DEF WrongPassword, RightPassword, Forbidden, Expire, RedisError,
       Goes, At, Trying, TypeOK, Untroubled
  <2>2. own'[e] = own[e]
    BY <1>4 DEF WrongPassword, RightPassword, Forbidden, Expire, RedisError, keys
  <2> QED
    BY <2>1, <2>2, <1>b, <1>d
<1>5. ASSUME NEW r \in Requests, Del(r) PROVE Bounded(e)'
  <2>1. Trying(e)' \subseteq Trying(e)
    BY <1>5, <1>a DEF Del, Goes, At, Trying, TypeOK
  <2>2. own'[e] <= own[e]
    BY <1>5, <1>a, <1>b, AddressTyped, ForgetTyped DEF Del
  <2> QED
    BY <2>1, <2>2, <1>d
<1>6. ASSUME NEW f \in Emails, KeyExpires(f) PROVE Bounded(e)'
  <2>1. Trying(e)' = Trying(e)
    BY <1>6 DEF KeyExpires, Trying
  <2>2. own'[e] <= own[e]
    BY <1>6, <1>a, <1>b, ForgetTyped DEF KeyExpires
  <2> QED
    BY <2>1, <2>2, <1>d
<1>7. ASSUME \/ \E r \in Requests : IncrLost(r)
             \/ RedisFails \/ RedisRecovers \/ Restart
      PROVE  FALSE
  BY <1>7 DEF IncrLost, RedisFails, RedisRecovers, Restart, Untroubled
<1>8. CASE UNCHANGED vars
  <2>1. Trying(e)' = Trying(e) /\ own'[e] = own[e]
    BY <1>8 DEF vars, Trying
  <2> QED
    BY <2>1, <1>b, <1>d
<1> QED
  BY <1>1, <1>2, <1>3, <1>4, <1>5, <1>6, <1>7, <1>8 DEF Next, Serve

\* A counter without a TTL keeps its EXPIRE on the way.
LEMMA TtlStep ==
  ASSUME Inv, TypeOK', [Next]_vars, Untroubled', Untroubled
  PROVE  TtlOnItsWay'
<1> DEFINE Coming(e) == \E r \in Requests : At(r, "expire") /\ Address(r) = e
<1> SUFFICES ASSUME NEW e \in Emails, count'[e] > 0, ~volatile'[e]
             PROVE  Coming(e)'
  BY DEF TtlOnItsWay
<1>a. count[e] > 0 /\ ~volatile[e] => Coming(e)
  BY DEF Inv, TtlOnItsWay
<1>b. TypeOK /\ e \in Spellings
  BY LockoutAssumption DEF Inv
<1>c. ASSUME count[e] > 0, ~volatile[e], NEW r \in Requests,
             \A s \in Requests : s # r => req'[s] = req[s], ~At(r, "expire")
      PROVE  Coming(e)'
  BY <1>a, <1>c DEF At, Address
<1>1. ASSUME NEW r \in Requests, Incr(r) PROVE Coming(e)'
  <2>1. CASE Address(r) = e /\ count[e] = 0
    BY <1>1, <2>1, <1>b DEF Incr, Goes, At, TypeOK, Login, Address
  <2>2. CASE ~(Address(r) = e /\ count[e] = 0)
    <3>1. count[e] > 0 /\ ~volatile[e]
      BY <1>1, <2>2, <1>b DEF Incr, TypeOK
    <3> QED
      BY <1>1, <3>1, <1>b, <1>c DEF Incr, Goes, At, TypeOK
  <2> QED
    BY <2>1, <2>2
<1>2. ASSUME NEW r \in Requests, Expire(r) PROVE Coming(e)'
  <2>1. Address(r) # e /\ count[e] > 0 /\ ~volatile[e]
    BY <1>2, <1>b DEF Expire, TypeOK
  <2> QED
    BY <1>2, <2>1, <1>a, <1>b DEF Expire, Goes, At, TypeOK, Address
<1>3. ASSUME NEW r \in Requests, Del(r) PROVE Coming(e)'
  <2>1. count[e] > 0 /\ ~volatile[e]
    BY <1>3, <1>b, AddressTyped, ForgetTyped DEF Del
  <2> QED
    BY <1>3, <2>1, <1>b, <1>c DEF Del, Goes, At, TypeOK
<1>4. ASSUME NEW r \in Requests, NEW f \in Spellings, Begin(r, f) PROVE Coming(e)'
  <2>1. count[e] > 0 /\ ~volatile[e]
    BY <1>4 DEF Begin, keys
  <2> QED
    BY <1>4, <2>1, <1>b, <1>c DEF Begin, At, TypeOK
<1>5. ASSUME NEW r \in Requests,
             Check(r) \/ WrongPassword(r) \/ RightPassword(r) \/ Forbidden(r)
      PROVE  Coming(e)'
  <2>1. count[e] > 0 /\ ~volatile[e]
    BY <1>5 DEF Check, WrongPassword, RightPassword, Forbidden, keys
  <2> QED
    BY <1>5, <2>1, <1>b, <1>c
       DEF Check, WrongPassword, RightPassword, Forbidden, Goes, At, TypeOK
<1>6. ASSUME NEW f \in Emails, KeyExpires(f) PROVE Coming(e)'
  <2>1. count[e] > 0 /\ ~volatile[e] /\ req' = req
    BY <1>6, <1>b, ForgetTyped DEF KeyExpires
  <2> QED
    BY <2>1, <1>a DEF At, Address
<1>7. ASSUME \/ \E r \in Requests : IncrLost(r) \/ RedisError(r)
             \/ RedisFails \/ RedisRecovers \/ Restart
      PROVE  FALSE
  BY <1>7 DEF IncrLost, RedisError, RedisFails, RedisRecovers, Restart, Untroubled
<1>8. CASE UNCHANGED vars
  BY <1>8, <1>a DEF vars, At, Address
<1> QED
  BY <1>1, <1>2, <1>3, <1>4, <1>5, <1>6, <1>7, <1>8 DEF Next, Serve

LEMMA InvStep == Inv /\ [Next]_vars => Inv'
<1> SUFFICES ASSUME Inv, [Next]_vars PROVE Inv'
  OBVIOUS
<1>1. TypeOK'
  BY TypeStep DEF Inv
<1>2. OutageCounted' /\ (Untroubled' => Untroubled)
  BY TroubleLasts DEF Inv
<1>3. OwnCounted'
  BY OwnStep DEF Inv
<1>4. AttemptsBounded' /\ TtlOnItsWay'
  <2>1. CASE Untroubled'
    BY <2>1, <1>1, <1>2, AttemptsStep, TtlStep
  <2>2. CASE ~Untroubled'
    BY <2>2 DEF AttemptsBounded, TtlOnItsWay
  <2> QED
    BY <2>1, <2>2
<1> QED
  BY <1>1, <1>2, <1>3, <1>4 DEF Inv

LEMMA Invariance == Spec => []Inv
BY InitInv, InvStep, PTL DEF Spec

\* Concurrent logins that spell the address as it is counted overshoot the
\* limit by less than there are requests at once, whatever logins in other
\* spellings count, as long as nothing comes between the service and Redis.
THEOREM AttemptsAreBounded == Spec => []AttemptsBounded
<1>1. Inv => AttemptsBounded
  BY DEF Inv
<1> QED
  BY <1>1, Invariance, PTL

\* Then, too, every failure counter that has no TTL is about to get one.
THEOREM TtlIsOnItsWay == Spec => []TtlOnItsWay
<1>1. Inv => TtlOnItsWay
  BY DEF Inv
<1> QED
  BY <1>1, Invariance, PTL
=============================================================================
