------------------------- MODULE TokenSessions_proofs -------------------------
(***************************************************************************)
(* Theorems about TokenSessions, for every value of its constants.         *)
(***************************************************************************)
EXTENDS TokenSessions, TLAPS

-----------------------------------------------------------------------------
(* The clock arithmetic of JwtTokens. *)

\* A whole-second date is at most a second behind the time it is made from.
LEMMA NumericDateBounds ==
    ASSUME NEW t \in Nat
    PROVE  /\ NumericDate(t) \in Nat
           /\ NumericDate(t) <= t
           /\ t < NumericDate(t) + TicksPerSecond
  BY TicksAssumption, SMT DEF NumericDate

\* So a TTL is never negative, and never a whole second short.
LEMMA BlacklistTtlBounds ==
    ASSUME NEW now \in Nat, NEW token \in Token
    PROVE  /\ BlacklistTtl(token, now) \in Nat
           /\ now < token.exp => token.exp < now + BlacklistTtl(token, now) + TicksPerSecond
  <1>1. CASE now < token.exp
    <2>1. token.exp - now \in Nat
      BY <1>1 DEF Token
    <2>2. QED
      BY <1>1, <2>1, NumericDateBounds, TicksAssumption DEF BlacklistTtl, Token
  <1>2. CASE ~(now < token.exp)
    BY <1>2 DEF BlacklistTtl
  <1>3. QED
    BY <1>1, <1>2

-----------------------------------------------------------------------------
(* Typing of the helpers of AuthState. *)

LEMMA ConstantTypes ==
    /\ MaxClock \in Nat /\ MaxTokens \in Nat /\ MaxPw \in Nat /\ MaxFaults \in Nat
    /\ NewRow \in Row /\ NoRequest \in Request /\ NoToken \in Token
    /\ NoRequest.pc = "idle" /\ NoRequest.call = "none" /\ NoRequest.began = 0
  <1>1. {MaxClock, MaxTokens, MaxPw, MaxFaults} \subseteq Nat
    BY BoundsAssumption
  <1>2. NewRow \in Row
    BY DEF NewRow, Row, Roles, Stamp
  <1>3. SomeUser \in Users
    BY RequestsAssumption DEF SomeUser
  <1>4. NoRequest \in Request
    <2>1. Never \in Stamp /\ "user" \in Roles /\ "idle" \in Steps
      BY DEF Stamp, Roles, Steps
    <2>2. QED
      BY <1>2, <1>3, <2>1 DEF NoRequest, Request
  <1>5. /\ NumericDate(0) \in Nat
        /\ NumericDate(0 + Lifetime("access")) \in Nat
    BY NumericDateBounds, LifetimeAssumption DEF Lifetime
  <1>6. NoToken \in Token
    BY <1>3, <1>5 DEF NoToken, CreateToken, Token, Origin, Roles, TokenTypes
  <1>7. QED
    BY <1>1, <1>2, <1>4, <1>6 DEF NoRequest

LEMMA CreateTokenType ==
    ASSUME NEW type \in TokenTypes, NEW sub \in Users, NEW role \in Roles,
           NEW now \in Nat, NEW origin \in Origin
    PROVE  CreateToken(type, sub, role, now, origin) \in Token
  <1>1. now + Lifetime(type) \in Nat
    BY LifetimeAssumption DEF Lifetime
  <1>2. NumericDate(now) \in Nat /\ NumericDate(now + Lifetime(type)) \in Nat
    BY <1>1, NumericDateBounds
  <1>3. QED
    BY <1>2 DEF CreateToken, Token

LEMMA InvFacts ==
    ASSUME Inv, NEW r \in Requests
    PROVE  /\ Sound(req[r]) /\ req[r] \in Request
           /\ req[r].user \in Users /\ req[r].row \in Row /\ req[r].jti \in Nat
           /\ req[r].cookie \in Nat /\ req[r].began \in Nat
           /\ req[r].stamp \in Stamp
           /\ users[req[r].user] \in Row
           /\ clock \in Nat /\ issued \in Nat /\ clock \in Stamp
           /\ req \in [Requests -> Request] /\ tokens \in [Jti -> Token]
           /\ loop \in Requests \union {Idle}
           /\ Minted \subseteq Jti /\ Minted \subseteq Nat
  <1>1. Sound(req[r]) /\ clock \in Nat /\ issued \in 0 .. MaxTokens
    BY ConstantTypes DEF Inv, TypeOK, RequestsSound
  <1>2. req[r] \in Request
    BY <1>1 DEF Sound
  <1>3. /\ req[r].user \in Users /\ req[r].row \in Row /\ req[r].jti \in Nat
        /\ req[r].cookie \in Nat /\ req[r].began \in Nat /\ req[r].stamp \in Stamp
    BY <1>2 DEF Request
  <1>4. QED
    BY <1>1, <1>2, <1>3, ConstantTypes DEF Inv, TypeOK, Minted, Jti, Stamp

LEMMA TokenFacts ==
    ASSUME Inv, NEW j \in Minted
    PROVE  /\ tokens[j] \in Token /\ j \in Nat /\ j \in Jti
           /\ tokens[j].sub \in Users /\ users[tokens[j].sub] \in Row
           /\ tokens[j].exp \in Int /\ tokens[j].origin.at \in Nat
           /\ tokens[j].origin.at <= clock
           /\ tokens[j].iat = NumericDate(tokens[j].origin.at)
  <1>1. j \in Jti /\ j \in Nat
    BY ConstantTypes DEF Inv, TypeOK, Minted, Jti
  <1>2. tokens[j] \in Token
    BY <1>1 DEF Inv, TypeOK
  <1>3. tokens[j].origin \in Origin
    BY <1>2 DEF Token
  <1>4. QED
    BY <1>1, <1>2, <1>3 DEF Token, Origin, Inv, TypeOK, TokensSound

-----------------------------------------------------------------------------
(* The helpers that move a request keep every request sound.               *)

LEMMA GoesSound ==
    ASSUME Inv, NEW r \in Requests, NEW request, Sound(request),
           Goes(r, request), UNCHANGED <<clock, issued, tokens>>
    PROVE  req' \in [Requests -> Request] /\ RequestsSound'
  <1>1. request \in Request /\ req \in [Requests -> Request]
    BY DEF Inv, TypeOK, Sound
  <1>2. req' \in [Requests -> Request]
    BY <1>1 DEF Goes
  <1>3. \A s \in Requests : Sound(req'[s])
    BY <1>1 DEF Goes, Inv, RequestsSound
  <1>4. \A s \in Requests : Sound(req[s])'
    BY <1>3 DEF Sound, Minted
  <1>5. QED
    BY <1>2, <1>4 DEF RequestsSound

LEMMA NoRequestSound ==
    ASSUME Inv
    PROVE  Sound(NoRequest)
  BY ConstantTypes DEF Sound, Inv, TypeOK, TokenSteps, CommitSteps

LEMMA FinishSound ==
    ASSUME Inv, NEW r \in Requests, Finish(r), UNCHANGED <<clock, issued, tokens>>
    PROVE  req' \in [Requests -> Request] /\ RequestsSound'
  BY NoRequestSound, GoesSound DEF Finish

LEMMA BeginSound ==
    ASSUME Inv, NEW r \in Requests, NEW u \in Users,
           NEW pc \in Steps \ (TokenSteps \union CommitSteps)
    PROVE  Sound(Begin(r, pc, u))
  <1>1. issued \in Nat
    BY InvFacts
  <1>2. Begin(r, pc, u) \in Request /\ Begin(r, pc, u).pc = pc
        /\ Begin(r, pc, u).began = issued /\ Begin(r, pc, u).call = "none"
    BY <1>1, ConstantTypes DEF Begin, Request
  <1>3. QED
    BY <1>1, <1>2 DEF Sound

\* A request with a Redis command differs from the request in just that.
LEMMA CallsFields ==
    ASSUME NEW request \in Request, NEW j \in Nat, NEW ttl \in Int,
           NEW call \in {"none", "exists", "setex", "other", "answered"}
    PROVE  /\ Calls(request, call, j, ttl) \in Request
           /\ Calls(request, call, j, ttl).pc = request.pc
           /\ Calls(request, call, j, ttl).jti = request.jti
           /\ Calls(request, call, j, ttl).stamp = request.stamp
           /\ Calls(request, call, j, ttl).began = request.began
           /\ Calls(request, call, j, ttl).call = call
           /\ Calls(request, call, j, ttl).target = j
           /\ Calls(request, call, j, ttl).ttl = ttl
  <1>1. Calls(request, call, j, ttl) \in Request
    BY DEF Request, Calls
  <1>2. QED
    BY <1>1 DEF Request, Calls

LEMMA CallsSound ==
    ASSUME NEW request, Sound(request), NEW j \in Minted, NEW ttl \in Int,
           NEW call \in {"exists", "setex"}, j \in Nat,
           call = "setex" => tokens[j].exp < clock + ttl + TicksPerSecond
    PROVE  Sound(Calls(request, call, j, ttl))
  <1> DEFINE q == Calls(request, call, j, ttl)
  <1>1. request \in Request
    BY DEF Sound
  <1>2. /\ q \in Request /\ q.pc = request.pc /\ q.jti = request.jti
        /\ q.stamp = request.stamp /\ q.began = request.began
        /\ q.call = call /\ q.target = j /\ q.ttl = ttl
    BY <1>1, CallsFields, Z3
  <1> HIDE DEF q
  <1>3. Sound(q)
    BY <1>2 DEF Sound
  <1>4. QED
    BY <1>3 DEF q

LEMMA OtherCallSound ==
    ASSUME NEW request, Sound(request)
    PROVE  Sound(Calls(request, "other", 0, 0))
  <1> DEFINE q == Calls(request, "other", 0, 0)
  <1>1. request \in Request
    BY DEF Sound
  <1>2. /\ q \in Request /\ q.pc = request.pc /\ q.jti = request.jti
        /\ q.stamp = request.stamp /\ q.began = request.began /\ q.call = "other"
    BY <1>1, CallsFields, Z3
  <1> HIDE DEF q
  <1>3. Sound(q)
    BY <1>2 DEF Sound
  <1>4. QED
    BY <1>3 DEF q

LEMMA AnswerSound ==
    ASSUME NEW request, Sound(request), NEW answer \in BOOLEAN, NEW q,
           q = [request EXCEPT !.call = "answered", !.target = 0, !.answer = answer]
    PROVE  Sound(q)
  <1>1. request \in Request
    BY DEF Sound
  <1>2. q \in Request
    <2>1. PICK n : n = [request EXCEPT !.call = "answered", !.target = 0]
      OBVIOUS
    <2>2. n \in Request
      BY <1>1, <2>1 DEF Request
    <2>3. q = [n EXCEPT !.answer = answer]
      BY <2>1
    <2>4. QED
      BY <2>2, <2>3 DEF Request
  <1>3. /\ q.pc = request.pc /\ q.jti = request.jti /\ q.stamp = request.stamp
        /\ q.began = request.began /\ q.call = "answered"
    BY <1>1 DEF Request
  <1>4. QED
    BY <1>2, <1>3 DEF Sound

LEMMA SetexAnswerSound ==
    ASSUME NEW request, Sound(request), NEW q,
           q = [request EXCEPT !.call = "answered", !.target = 0, !.ttl = 0]
    PROVE  Sound(q)
  <1>1. request \in Request
    BY DEF Sound
  <1>2. q \in Request
    <2>1. PICK n : n = [request EXCEPT !.call = "answered", !.target = 0]
      OBVIOUS
    <2>2. n \in Request
      BY <1>1, <2>1 DEF Request
    <2>3. q = [n EXCEPT !.ttl = 0]
      BY <2>1
    <2>4. QED
      BY <2>2, <2>3 DEF Request
  <1>3. /\ q.pc = request.pc /\ q.jti = request.jti /\ q.stamp = request.stamp
        /\ q.began = request.began /\ q.call = "answered"
    BY <1>1 DEF Request
  <1>4. QED
    BY <1>2, <1>3 DEF Sound

LEMMA SkipSound ==
    ASSUME Inv, NEW r \in Requests, NEW request, Sound(request),
           Skip(r, request), UNCHANGED <<clock, issued, tokens>>
    PROVE  /\ req' \in [Requests -> Request] /\ RequestsSound'
           /\ loop' \in Requests \union {Idle}
  <1>1. Sound([request EXCEPT !.call = "answered"])
    BY DEF Sound, Request
  <1>2. QED
    BY <1>1, GoesSound DEF Skip

LEMMA AskBlacklistSound ==
    ASSUME Inv, NEW r \in Requests, NEW request, Sound(request), NEW j \in Minted,
           AskBlacklist(r, request, j), UNCHANGED <<clock, issued, tokens>>
    PROVE  /\ req' \in [Requests -> Request] /\ RequestsSound'
           /\ loop' \in Requests \union {Idle}
  <1>1. Sound(Calls(request, "exists", j, 0))
    BY TokenFacts, CallsSound
  <1>2. QED
    BY <1>1, GoesSound, SkipSound DEF AskBlacklist

LEMMA AddToBlacklistSound ==
    ASSUME Inv, NEW r \in Requests, NEW request, Sound(request), NEW j \in Minted,
           AddToBlacklist(r, request, j), UNCHANGED <<clock, issued, tokens>>
    PROVE  /\ req' \in [Requests -> Request] /\ RequestsSound'
           /\ loop' \in Requests \union {Idle}
  <1> DEFINE ttl == BlacklistTtl(tokens[j], clock)
  <1>1. /\ tokens[j] \in Token /\ tokens[j].exp \in Int /\ j \in Nat
        /\ clock \in Nat /\ request \in Request
    BY TokenFacts, InvFacts DEF Sound
  <1>2. CASE redis = "none" \/ ttl = 0
    BY <1>2, SkipSound DEF AddToBlacklist
  <1>3. CASE ~(redis = "none" \/ ttl = 0)
    <2>1. ttl \in Nat /\ tokens[j].exp < clock + ttl + TicksPerSecond
      <3>1. clock < tokens[j].exp
        BY <1>3 DEF BlacklistTtl
      <3>2. QED
        BY <1>1, <3>1, BlacklistTtlBounds
    <2>2. Sound(Calls(request, "setex", j, ttl))
      <3>1. ttl \in Int
        BY <2>1
      <3> HIDE DEF ttl
      <3>2. QED
        BY <1>1, <2>1, <3>1, CallsSound
    <2>3. QED
      BY <1>3, <2>2, GoesSound DEF AddToBlacklist
  <1>4. QED
    BY <1>2, <1>3

\* Minting adds two tokens of this instant and leaves the others.
LEMMA MintPairSound ==
    ASSUME Inv, NEW r \in Requests, NEW via \in {"login", "refresh", "google"},
           NEW row \in Row, NEW parent \in Nat, MintPair(r, via, row, parent)
    PROVE  /\ issued' \in 0 .. MaxTokens /\ issued' = issued + 2
           /\ tokens' \in [Jti -> Token]
           /\ \A j \in Minted : tokens'[j] = tokens[j]
           /\ \A j \in 1 .. issued' : j \notin Minted =>
                 /\ tokens'[j].origin.at = clock
                 /\ tokens'[j].iat = NumericDate(clock)
  <1> DEFINE origin == [via |-> via, at |-> clock, pw |-> row.pw,
                        parent |-> parent, began |-> req[r].began]
             access == CreateToken("access", req[r].user, row.role, clock, origin)
             refresh == CreateToken("refresh", req[r].user, row.role, clock, origin)
  <1>1. /\ clock \in Nat /\ issued \in Nat /\ req[r].user \in Users
        /\ req[r].began \in Nat
    BY InvFacts
  <1>2. origin \in Origin /\ row.role \in Roles
    BY <1>1 DEF Origin, Row
  <1>3. origin.at = clock
    OBVIOUS
  <1>4. /\ issued' = issued + 2 /\ issued + 2 <= MaxTokens
        /\ tokens' = [tokens EXCEPT ![issued + 1] = access, ![issued + 2] = refresh]
    BY DEF MintPair
  <1> HIDE DEF origin
  <1>5. /\ access \in Token /\ access.origin.at = clock
        /\ access.iat = NumericDate(clock)
    BY <1>1, <1>2, <1>3, CreateTokenType DEF CreateToken, TokenTypes
  <1>6. /\ refresh \in Token /\ refresh.origin.at = clock
        /\ refresh.iat = NumericDate(clock)
    BY <1>1, <1>2, <1>3, CreateTokenType DEF CreateToken, TokenTypes
  <1> HIDE DEF access, refresh
  <1>7. issued + 1 \in Jti /\ issued + 2 \in Jti /\ tokens \in [Jti -> Token]
    BY <1>1, <1>4, ConstantTypes DEF Jti, Inv, TypeOK
  <1>8. /\ tokens' \in [Jti -> Token]
        /\ tokens'[issued + 1] = access /\ tokens'[issued + 2] = refresh
        /\ \A j \in Jti : j # issued + 1 /\ j # issued + 2 => tokens'[j] = tokens[j]
    BY <1>1, <1>4, <1>5, <1>6, <1>7
  <1>9. issued' \in 0 .. MaxTokens /\ Minted \subseteq Jti
    BY <1>1, <1>4, ConstantTypes, InvFacts
  <1>10. \A j \in Minted : j # issued + 1 /\ j # issued + 2
    BY <1>1 DEF Minted
  <1>11. \A j \in 1 .. issued' : j \notin Minted => j = issued + 1 \/ j = issued + 2
    BY <1>1, <1>4 DEF Minted
  <1>12. QED
    BY <1>4, <1>5, <1>6, <1>8, <1>9, <1>10, <1>11

LEMMA MintStepInv ==
    ASSUME Inv, NEW r \in Requests, NEW via \in {"login", "refresh", "google"},
           NEW row \in Row, NEW parent \in Nat, MintPair(r, via, row, parent),
           Finish(r), UNCHANGED <<environment, store, users, rowLock>>,
           loop' \in Requests \union {Idle}
    PROVE  Inv'
  <1>1. /\ issued' \in 0 .. MaxTokens /\ issued' = issued + 2
        /\ tokens' \in [Jti -> Token]
        /\ \A j \in Minted : tokens'[j] = tokens[j]
        /\ \A j \in 1 .. issued' : j \notin Minted =>
              tokens'[j].origin.at = clock /\ tokens'[j].iat = NumericDate(clock)
    BY MintPairSound
  <1>2. /\ clock \in Nat /\ issued \in Nat /\ Minted' = 1 .. issued'
        /\ Minted \subseteq Minted' /\ Minted \subseteq Nat
        /\ clock' = clock /\ blacklist' = blacklist /\ revoked' = revoked
    BY <1>1, InvFacts DEF environment, store, Minted
  <1>3. ASSUME NEW q, Sound(q)
        PROVE  Sound(q)'
    <2>1. q \in Request /\ q.began <= issued
      BY <1>3 DEF Sound
    <2>2. q.began \in Nat
      BY <2>1 DEF Request
    <2>3. \A j \in Minted' : j <= q.began => j \in Minted
      BY <1>1, <1>2, <2>1, <2>2 DEF Minted
    <2>4. q.began <= issued'
      BY <1>1, <1>2, <2>1, <2>2
    <2>5. /\ q.pc \in TokenSteps => q.jti \in Minted'
          /\ q.call \in {"exists", "setex"} => q.target \in Minted'
      BY <1>2, <1>3 DEF Sound
    <2>6. q.call = "setex" =>
            tokens'[q.target].exp < clock' + q.ttl + TicksPerSecond
      BY <1>1, <1>2, <1>3 DEF Sound
    <2>7. q.pc \in CommitSteps =>
            \A j \in Minted' : j <= q.began => tokens'[j].origin.at <= q.stamp
      BY <1>1, <1>3, <2>3 DEF Sound
    <2>8. QED
      BY <2>1, <2>4, <2>5, <2>6, <2>7 DEF Sound
  <1>4. req' \in [Requests -> Request] /\ RequestsSound'
    <2>1. req \in [Requests -> Request] /\ NoRequest \in Request
      BY ConstantTypes DEF Inv, TypeOK
    <2>2. req' = [req EXCEPT ![r] = NoRequest]
      BY DEF Finish, Goes
    <2>3. req' \in [Requests -> Request]
      BY <2>1, <2>2
    <2>4. ASSUME NEW s \in Requests
          PROVE  Sound(req[s])'
      <3>1. Sound(req'[s])
        BY <2>1, <2>2, NoRequestSound DEF Inv, RequestsSound
      <3>2. QED
        BY <1>3, <3>1 DEF Sound
    <2>5. QED
      BY <2>3, <2>4 DEF RequestsSound
  <1>5. TypeOK'
    BY <1>1, <1>2, <1>4 DEF Inv, TypeOK, environment, store
  <1>6. RevokedSound'
    BY <1>1, <1>2 DEF Inv, TypeOK, RevokedSound
  <1>7. TokensSound'
    BY <1>1, <1>2 DEF Inv, TokensSound
  <1>8. QED
    BY <1>4, <1>5, <1>6, <1>7 DEF Inv

-----------------------------------------------------------------------------
(* Every step keeps the invariant.                                         *)

\* Most steps move one request and the loop, and leave the rest.
LEMMA RequestStepInv ==
    ASSUME Inv, UNCHANGED <<environment, store, ledger, users, rowLock>>,
           req' \in [Requests -> Request], RequestsSound',
           loop' \in Requests \union {Idle}
    PROVE  Inv'
  BY DEF Inv, TypeOK, RevokedSound, TokensSound, environment, store, ledger, Minted

\* Some lock the row or release it, and commit a new version of it.
LEMMA RowStepInv ==
    ASSUME Inv, UNCHANGED <<environment, store, ledger>>,
           users' \in [Users -> Row],
           rowLock' \in [Users -> Requests \union {Idle}],
           req' \in [Requests -> Request], RequestsSound',
           loop' \in Requests \union {Idle}
    PROVE  Inv'
  BY DEF Inv, TypeOK, RevokedSound, TokensSound, environment, store, ledger, Minted

\* A request that begins on behalf of token j.
LEMMA BeginTokenSound ==
    ASSUME Inv, NEW r \in Requests, NEW j \in Minted, NEW cookie \in Nat,
           NEW pc \in Steps \ CommitSteps, NEW u \in Users, NEW b,
           b = [Begin(r, pc, u) EXCEPT !.jti = j, !.cookie = cookie]
    PROVE  Sound(b)
  <1>1. issued \in Nat /\ j \in Nat
    BY InvFacts, TokenFacts
  <1>2. b \in Request /\ b.pc = pc /\ b.jti = j /\ b.began = issued
        /\ b.call = "none"
    BY <1>1, ConstantTypes DEF Begin, Request
  <1>3. QED
    BY <1>1, <1>2 DEF Sound

LEMMA RefreshBeginSound ==
    ASSUME Inv, NEW r \in Requests, NEW j \in Minted, NEW row \in Row,
           NEW pc \in Steps \ CommitSteps, NEW u \in Users, NEW b,
           b = [Begin(r, pc, u) EXCEPT !.jti = j, !.row = row]
    PROVE  Sound(b)
  <1>1. issued \in Nat /\ j \in Nat
    BY InvFacts, TokenFacts
  <1>2. b \in Request /\ b.pc = pc /\ b.jti = j /\ b.began = issued
        /\ b.call = "none"
    BY <1>1, ConstantTypes DEF Begin, Request
  <1>3. QED
    BY <1>1, <1>2 DEF Sound

\* A request that goes on to a step other than a commit.
LEMMA NextStepSound ==
    ASSUME NEW q, Sound(q), NEW pc \in Steps \ CommitSteps,
           pc \in TokenSteps => q.jti \in Minted
    PROVE  Sound([q EXCEPT !.pc = pc])
  <1>1. q \in Request
    BY DEF Sound
  <1>2. PICK n : n = [q EXCEPT !.pc = pc]
    OBVIOUS
  <1>3. /\ n \in Request /\ n.pc = pc /\ n.jti = q.jti /\ n.began = q.began
        /\ n.call = q.call /\ n.target = q.target /\ n.ttl = q.ttl
    BY <1>1, <1>2 DEF Request
  <1>4. Sound(n)
    BY <1>3 DEF Sound
  <1>5. QED
    BY <1>2, <1>4

\* A request that takes the time and goes on to its commit: no token is
\* younger than now.
LEMMA StampSound ==
    ASSUME Inv, NEW q, Sound(q), NEW pc \in CommitSteps
    PROVE  Sound([q EXCEPT !.pc = pc, !.stamp = clock])
  <1>1. q \in Request /\ clock \in Stamp /\ pc \in Steps /\ pc \notin TokenSteps
    BY ConstantTypes DEF Sound, Inv, TypeOK, CommitSteps, TokenSteps, Steps, Stamp
  <1>2. PICK n : n = [q EXCEPT !.pc = pc, !.stamp = clock]
    OBVIOUS
  <1>3. /\ n \in Request /\ n.pc = pc /\ n.began = q.began
        /\ n.call = q.call /\ n.target = q.target /\ n.ttl = q.ttl /\ n.stamp = clock
    BY <1>1, <1>2 DEF Request
  <1>4. \A j \in Minted : tokens[j].origin.at <= clock
    BY TokenFacts
  <1>5. Sound(n)
    BY <1>1, <1>3, <1>4 DEF Sound
  <1>6. QED
    BY <1>2, <1>5

\* The other ways in which a request begins.
LEMMA BeginRowSound ==
    ASSUME Inv, NEW r \in Requests, NEW u \in Users, NEW row \in Row,
           NEW pc \in Steps \ (TokenSteps \union CommitSteps)
    PROVE  Sound([Begin(r, pc, u) EXCEPT !.row = row])
  <1>1. PICK b : b = [Begin(r, pc, u) EXCEPT !.row = row]
    OBVIOUS
  <1>2. issued \in Nat
    BY InvFacts
  <1>3. b \in Request /\ b.pc = pc /\ b.began = issued /\ b.call = "none"
    BY <1>1, <1>2, ConstantTypes DEF Begin, Request
  <1>4. Sound(b)
    BY <1>2, <1>3 DEF Sound
  <1>5. QED
    BY <1>1, <1>4

LEMMA BeginRoleSound ==
    ASSUME Inv, NEW r \in Requests, NEW u \in Users, NEW new \in Roles
    PROVE  Sound([Begin(r, "role_stamp", u) EXCEPT !.role = new])
  <1>1. PICK b : b = [Begin(r, "role_stamp", u) EXCEPT !.role = new]
    OBVIOUS
  <1>2. issued \in Nat /\ "role_stamp" \in Steps
    BY InvFacts DEF Steps
  <1>3. b \in Request /\ b.pc = "role_stamp" /\ b.began = issued /\ b.call = "none"
    BY <1>1, <1>2, ConstantTypes DEF Begin, Request
  <1>4. Sound(b)
    BY <1>2, <1>3 DEF Sound, TokenSteps, CommitSteps
  <1>5. QED
    BY <1>1, <1>4

LEMMA BeginDisableSound ==
    ASSUME Inv, NEW r \in Requests, NEW u \in Users
    PROVE  Sound([Begin(r, "disable_commit", u) EXCEPT !.stamp = clock])
  <1>1. PICK b : b = [Begin(r, "disable_commit", u) EXCEPT !.stamp = clock]
    OBVIOUS
  <1>2. issued \in Nat /\ clock \in Stamp /\ "disable_commit" \in Steps
    BY InvFacts DEF Steps
  <1>3. b \in Request /\ b.pc = "disable_commit" /\ b.began = issued
        /\ b.call = "none" /\ b.stamp = clock
    BY <1>1, <1>2, ConstantTypes DEF Begin, Request
  <1>4. \A j \in Minted : tokens[j].origin.at <= clock
    BY TokenFacts
  <1>5. Sound(b)
    BY <1>2, <1>3, <1>4 DEF Sound, TokenSteps
  <1>6. QED
    BY <1>1, <1>5

LEMMA AuthStepInv ==
    ASSUME Inv, NEW r \in Requests, AuthStep(r)
    PROVE  Inv'
  <1> USE InvFacts
  <1>1. CASE \E u \in Users : LoginRead(r, u)
    <2>1. PICK u \in Users : LoginRead(r, u)
      BY <1>1
    <2>2. users[u] \in Row /\ "login_mint" \in Steps \ (TokenSteps \union CommitSteps)
      BY DEF Inv, TypeOK, Steps, TokenSteps, CommitSteps
    <2>3. Sound([Begin(r, "login_mint", u) EXCEPT !.row = users[u]])
      BY <2>2, BeginRowSound
    <2>4. req' \in [Requests -> Request] /\ RequestsSound'
      BY <2>1, <2>3, GoesSound DEF LoginRead, environment, ledger
    <2>5. QED
      BY <2>1, <2>4, RequestStepInv DEF LoginRead
  <1>2. CASE LoginMint(r)
    BY <1>2, MintStepInv DEF LoginMint
  <1>3. CASE \E j \in Minted : RefreshRead(r, j)
    <2>1. PICK j \in Minted : RefreshRead(r, j)
      BY <1>3
    <2>2. /\ tokens[j].sub \in Users /\ users[tokens[j].sub] \in Row
          /\ "refresh_check" \in Steps \ CommitSteps
      BY TokenFacts DEF Steps, CommitSteps
    <2>3. PICK b : b = [Begin(r, "refresh_check", tokens[j].sub) EXCEPT
                           !.jti = j, !.row = users[tokens[j].sub]]
      OBVIOUS
    <2>4. Sound(b)
      BY <2>2, <2>3, RefreshBeginSound
    <2>5. req' \in [Requests -> Request] /\ RequestsSound'
          /\ loop' \in Requests \union {Idle}
      BY <2>1, <2>3, <2>4, AskBlacklistSound DEF RefreshRead, environment, ledger
    <2>6. QED
      BY <2>1, <2>5, RequestStepInv DEF RefreshRead
  <1>4. CASE RefreshCheck(r)
    <2>1. req[r].jti \in Minted
      BY <1>4 DEF RefreshCheck, Answered, Sound, TokenSteps
    <2>2. Sound([req[r] EXCEPT !.pc = "refresh_mint"])
      BY <2>1, NextStepSound DEF Steps, CommitSteps
    <2>3. req' \in [Requests -> Request] /\ RequestsSound'
          /\ loop' \in Requests \union {Idle}
      BY <1>4, <2>1, <2>2, AddToBlacklistSound DEF RefreshCheck, environment, ledger
    <2>4. QED
      BY <1>4, <2>3, RequestStepInv DEF RefreshCheck
  <1>5. CASE RefreshRefused(r)
    <2>1. req' \in [Requests -> Request] /\ RequestsSound'
      BY <1>5, FinishSound DEF RefreshRefused, environment, ledger
    <2>2. QED
      BY <1>5, <2>1, RequestStepInv DEF RefreshRefused
  <1>6. CASE RefreshMint(r)
    BY <1>6, MintStepInv DEF RefreshMint
  <1>7. CASE \E j \in Minted, cookie \in Cookies : Logout(r, j, cookie)
    <2>1. PICK j \in Minted, cookie \in Cookies : Logout(r, j, cookie)
      BY <1>7
    <2>2. /\ tokens[j].sub \in Users /\ cookie \in Nat
          /\ "logout_cookie" \in Steps \ CommitSteps
      BY <2>1, TokenFacts DEF Steps, CommitSteps, Cookies
    <2>3. PICK b : b = [Begin(r, "logout_cookie", tokens[j].sub) EXCEPT
                           !.jti = j, !.cookie = cookie]
      OBVIOUS
    <2>4. Sound(b)
      BY <2>2, <2>3, BeginTokenSound
    <2>5. req' \in [Requests -> Request] /\ RequestsSound'
          /\ loop' \in Requests \union {Idle}
      BY <2>1, <2>3, <2>4, AddToBlacklistSound DEF Logout, environment, ledger
    <2>6. QED
      BY <2>1, <2>5, RequestStepInv DEF Logout
  <1>8. CASE LogoutCookie(r)
    <2>1. CASE CookieDecodes(r) /\
               AddToBlacklist(r, [req[r] EXCEPT !.pc = "logout_done"], req[r].cookie)
      <3>1. req[r].cookie \in Minted
        BY <2>1 DEF CookieDecodes
      <3>2. Sound([req[r] EXCEPT !.pc = "logout_done"])
        BY NextStepSound DEF Steps, CommitSteps, TokenSteps
      <3>3. req' \in [Requests -> Request] /\ RequestsSound'
            /\ loop' \in Requests \union {Idle}
        BY <1>8, <2>1, <3>1, <3>2, AddToBlacklistSound
           DEF LogoutCookie, environment, ledger
      <3>4. QED
        BY <1>8, <3>3, RequestStepInv DEF LogoutCookie
    <2>2. CASE ~CookieDecodes(r) /\ Finish(r) /\ loop' = Idle
      <3>1. req' \in [Requests -> Request] /\ RequestsSound'
        BY <1>8, <2>2, FinishSound DEF LogoutCookie, environment, ledger
      <3>2. QED
        BY <1>8, <2>2, <3>1, RequestStepInv DEF LogoutCookie
    <2>3. QED
      BY <1>8, <2>1, <2>2 DEF LogoutCookie
  <1>9. CASE LogoutDone(r)
    <2>1. req' \in [Requests -> Request] /\ RequestsSound'
      BY <1>9, FinishSound DEF LogoutDone, environment, ledger
    <2>2. QED
      BY <1>9, <2>1, RequestStepInv DEF LogoutDone
  <1>10. CASE \E u \in Users : GoogleRead(r, u)
    <2>1. PICK u \in Users : GoogleRead(r, u)
      BY <1>10
    <2>2. users[u] \in Row /\ "google_mint" \in Steps \ (TokenSteps \union CommitSteps)
      BY DEF Inv, TypeOK, Steps, TokenSteps, CommitSteps
    <2>3. Sound([Begin(r, "google_mint", u) EXCEPT !.row = users[u]])
      BY <2>2, BeginRowSound
    <2>4. req' \in [Requests -> Request] /\ RequestsSound'
      BY <2>1, <2>3, GoesSound DEF GoogleRead, environment, ledger
    <2>5. QED
      BY <2>1, <2>4, RequestStepInv DEF GoogleRead
  <1>11. CASE GoogleMint(r)
    BY <1>11, MintStepInv DEF GoogleMint
  <1>12. QED
    BY <1>1, <1>2, <1>3, <1>4, <1>5, <1>6, <1>7, <1>8, <1>9, <1>10, <1>11 DEF AuthStep

\* What a commit writes to a row leaves it a row.
LEMMA RowChanges ==
    ASSUME NEW row \in Row, NEW stamp \in Stamp, NEW role \in Roles
    PROVE  /\ [row EXCEPT !.pw = @ + 1, !.password_changed_at = stamp] \in Row
           /\ [row EXCEPT !.exists = FALSE] \in Row
           /\ [row EXCEPT !.role = role, !.role_changed_at = stamp] \in Row
           /\ [row EXCEPT !.is_disabled = TRUE, !.password_changed_at = stamp] \in Row
           /\ [row EXCEPT !.is_disabled = FALSE] \in Row
           /\ [row EXCEPT !.password_changed_at = stamp] \in Row
  <1>1. [row EXCEPT !.pw = @ + 1, !.password_changed_at = stamp] \in Row
    <2>1. row.pw + 1 \in Nat
      BY DEF Row
    <2>2. \A n \in Nat : [row EXCEPT !.pw = n, !.password_changed_at = stamp] \in Row
      BY DEF Row
    <2>3. QED
      BY <2>1, <2>2
  <1>2. [row EXCEPT !.role = role, !.role_changed_at = stamp] \in Row
    BY DEF Row
  <1>3. [row EXCEPT !.is_disabled = TRUE, !.password_changed_at = stamp] \in Row
    BY DEF Row
  <1>4. /\ [row EXCEPT !.exists = FALSE] \in Row
        /\ [row EXCEPT !.is_disabled = FALSE] \in Row
        /\ [row EXCEPT !.password_changed_at = stamp] \in Row
    BY DEF Row
  <1>5. QED
    BY <1>1, <1>2, <1>3, <1>4

LEMMA AccountStepInv ==
    ASSUME Inv, NEW r \in Requests, AccountStep(r)
    PROVE  Inv'
  <1> USE InvFacts
  <1>0. users \in [Users -> Row] /\ rowLock \in [Users -> Requests \union {Idle}]
    BY DEF Inv, TypeOK
  <1>1. ASSUME NEW j \in Minted, NEW cookie \in Nat,
               NEW pc \in {"change_auth", "delete_auth"},
               Authenticate(r, j, cookie, pc)
        PROVE  Inv'
    <2>1. tokens[j].sub \in Users /\ pc \in Steps \ CommitSteps
      BY TokenFacts DEF Steps, CommitSteps
    <2>2. PICK b : b = [Begin(r, pc, tokens[j].sub) EXCEPT !.jti = j, !.cookie = cookie]
      OBVIOUS
    <2>3. Sound(b)
      BY <2>1, <2>2, BeginTokenSound
    <2>4. req' \in [Requests -> Request] /\ RequestsSound'
          /\ loop' \in Requests \union {Idle}
      BY <1>1, <2>2, <2>3, AskBlacklistSound DEF Authenticate, environment, ledger
    <2>5. QED
      BY <1>1, <2>4, RequestStepInv DEF Authenticate
  <1>2. CASE ChangeStart(r)
    <2>1. Sound([req[r] EXCEPT !.pc = "change_stamp"])
      BY NextStepSound DEF Steps, CommitSteps, TokenSteps
    <2>2. req' \in [Requests -> Request] /\ RequestsSound'
      BY <1>2, <2>1, GoesSound DEF ChangeStart, environment, ledger
    <2>3. QED
      BY <1>2, <2>2, RequestStepInv DEF ChangeStart
  <1>3. CASE ChangeStamp(r)
    <2>1. Sound([req[r] EXCEPT !.pc = "change_commit", !.stamp = clock])
      BY <1>3, StampSound DEF ChangeStamp, Answered, CommitSteps
    <2>2. req' \in [Requests -> Request] /\ RequestsSound'
      BY <1>3, <2>1, GoesSound DEF ChangeStamp, environment, ledger
    <2>3. QED
      BY <1>3, <2>2, RequestStepInv DEF ChangeStamp
  <1>4. CASE ChangeCommit(r)
    <2>1. req' \in [Requests -> Request] /\ RequestsSound'
      BY <1>4, FinishSound DEF ChangeCommit, environment, ledger
    <2>2. users' \in [Users -> Row]
      BY <1>0, <1>4, RowChanges DEF ChangeCommit, Roles
    <2>3. QED
      BY <1>0, <1>4, <2>1, <2>2, RowStepInv DEF ChangeCommit
  <1>5. CASE AuthRefused(r)
    <2>1. req' \in [Requests -> Request] /\ RequestsSound'
      BY <1>5, FinishSound DEF AuthRefused, environment, ledger
    <2>2. QED
      BY <1>5, <2>1, RequestStepInv DEF AuthRefused
  <1>6. CASE DeleteStart(r)
    <2>1. req[r].jti \in Minted
      BY <1>6 DEF DeleteStart, Answered, Sound, TokenSteps
    <2>2. Sound([req[r] EXCEPT !.pc = "delete_lock"])
      BY <2>1, NextStepSound DEF Steps, CommitSteps
    <2>3. req' \in [Requests -> Request] /\ RequestsSound'
      BY <1>6, <2>2, GoesSound DEF DeleteStart, environment, ledger
    <2>4. QED
      BY <1>6, <2>3, RequestStepInv DEF DeleteStart
  <1>7. CASE DeleteLock(r)
    <2> DEFINE next == [req[r] EXCEPT !.pc = "delete_cookie"]
    <2>1. req[r].jti \in Minted
      BY <1>7 DEF DeleteLock, Sound, TokenSteps
    <2>2. Sound(next)
      BY NextStepSound DEF Steps, CommitSteps, TokenSteps
    <2>3. UNCHANGED <<clock, issued, tokens>>
      BY <1>7 DEF DeleteLock, environment, ledger
    <2>4. AddToBlacklist(r, next, req[r].jti) \/ Skip(r, next)
      BY <1>7 DEF DeleteLock
    <2> HIDE DEF next
    <2>5. req' \in [Requests -> Request] /\ RequestsSound'
          /\ loop' \in Requests \union {Idle}
      BY <2>1, <2>2, <2>3, <2>4, AddToBlacklistSound, SkipSound
    <2>6. rowLock' \in [Users -> Requests \union {Idle}] /\ users' = users
      BY <1>0, <1>7 DEF DeleteLock
    <2>7. QED
      BY <1>0, <1>7, <2>5, <2>6, RowStepInv DEF DeleteLock
  <1>8. CASE DeleteCookie(r)
    <2> DEFINE next == [req[r] EXCEPT !.pc = "delete_commit"]
    <2>1. Sound(next)
      BY NextStepSound DEF Steps, CommitSteps, TokenSteps
    <2>2. UNCHANGED <<clock, issued, tokens>>
      BY <1>8 DEF DeleteCookie, environment, ledger
    <2>3. (req[r].cookie \in Minted /\ AddToBlacklist(r, next, req[r].cookie))
          \/ Skip(r, next)
      BY <1>8 DEF DeleteCookie
    <2> HIDE DEF next
    <2>4. req' \in [Requests -> Request] /\ RequestsSound'
          /\ loop' \in Requests \union {Idle}
      BY <2>1, <2>2, <2>3, AddToBlacklistSound, SkipSound
    <2>5. QED
      BY <1>8, <2>4, RequestStepInv DEF DeleteCookie
  <1>9. CASE DeleteCommit(r)
    <2>1. req' \in [Requests -> Request] /\ RequestsSound'
      BY <1>9, FinishSound DEF DeleteCommit, environment, ledger
    <2>2. users' \in [Users -> Row] /\ rowLock' \in [Users -> Requests \union {Idle}]
      BY <1>0, <1>9, RowChanges DEF DeleteCommit, Roles
    <2>3. QED
      BY <1>9, <2>1, <2>2, RowStepInv DEF DeleteCommit
  <1>10. QED
    <2>1. \A cookie \in Cookies : cookie \in Nat
      BY DEF Cookies
    <2>2. QED
      BY <1>1, <1>3, <1>4, <1>5, <1>6, <1>7, <1>8, <1>9, <1>2, <2>1 DEF AccountStep

LEMMA AdminStepInv ==
    ASSUME Inv, NEW r \in Requests, AdminStep(r)
    PROVE  Inv'
  <1> USE InvFacts
  <1>0. users \in [Users -> Row] /\ rowLock \in [Users -> Requests \union {Idle}]
    BY DEF Inv, TypeOK
  <1>1. CASE \E u \in Users, new \in Roles : RoleRead(r, u, new)
    <2>1. PICK u \in Users, new \in Roles : RoleRead(r, u, new)
      BY <1>1
    <2>2. req' \in [Requests -> Request] /\ RequestsSound'
      BY <2>1, BeginRoleSound, GoesSound DEF RoleRead, environment, ledger
    <2>3. QED
      BY <2>1, <2>2, RequestStepInv DEF RoleRead
  <1>2. CASE RoleStamp(r)
    <2>1. Sound([req[r] EXCEPT !.pc = "role_commit", !.stamp = clock])
      BY StampSound DEF CommitSteps
    <2>2. req' \in [Requests -> Request] /\ RequestsSound'
      BY <1>2, <2>1, GoesSound DEF RoleStamp, environment, ledger
    <2>3. QED
      BY <1>2, <2>2, RequestStepInv DEF RoleStamp
  <1>3. CASE RoleCommit(r)
    <2>1. req' \in [Requests -> Request] /\ RequestsSound'
      BY <1>3, FinishSound DEF RoleCommit, environment, ledger
    <2>2. req[r].role \in Roles
      BY DEF Request
    <2>3. users' \in [Users -> Row]
      BY <1>0, <1>3, <2>2, RowChanges DEF RoleCommit
    <2>4. QED
      BY <1>0, <1>3, <2>1, <2>3, RowStepInv DEF RoleCommit
  <1>4. CASE \E u \in Users : DisableLock(r, u)
    <2>1. PICK u \in Users : DisableLock(r, u)
      BY <1>4
    <2>2. req' \in [Requests -> Request] /\ RequestsSound'
      BY <2>1, BeginDisableSound, GoesSound DEF DisableLock, environment, ledger
    <2>3. rowLock' \in [Users -> Requests \union {Idle}]
      BY <1>0, <2>1 DEF DisableLock
    <2>4. QED
      BY <1>0, <2>1, <2>2, <2>3, RowStepInv DEF DisableLock
  <1>5. CASE \E u \in Users : Enable(r, u)
    <2>1. PICK u \in Users : Enable(r, u)
      BY <1>5
    <2>2. users' \in [Users -> Row]
      BY <1>0, <2>1, RowChanges DEF Enable, Roles
    <2>3. RequestsSound'
      BY <2>1 DEF Enable, Inv, RequestsSound, Sound, Minted, environment, ledger
    <2>4. QED
      BY <1>0, <2>1, <2>2, <2>3, RowStepInv DEF Enable
  <1>6. CASE DisableCommit(r)
    <2>1. req' \in [Requests -> Request] /\ RequestsSound'
      BY <1>6, FinishSound DEF DisableCommit, environment, ledger
    <2>2. users' \in [Users -> Row] /\ rowLock' \in [Users -> Requests \union {Idle}]
      BY <1>0, <1>6, RowChanges DEF DisableCommit, Roles
    <2>3. QED
      BY <1>6, <2>1, <2>2, RowStepInv DEF DisableCommit
  <1>7. CASE \E u \in Users : ForceStart(r, u)
    <2>1. PICK u \in Users : ForceStart(r, u)
      BY <1>7
    <2>2. "force_lock" \in Steps \ (TokenSteps \union CommitSteps)
      BY DEF Steps, TokenSteps, CommitSteps
    <2>3. req' \in [Requests -> Request] /\ RequestsSound'
      BY <2>1, <2>2, BeginSound, GoesSound DEF ForceStart, environment, ledger
    <2>4. QED
      BY <2>1, <2>3, RequestStepInv DEF ForceStart
  <1>8. CASE ForceLock(r)
    <2> DEFINE next == [req[r] EXCEPT !.pc = "force_stamp"]
    <2>1. Sound(next)
      BY NextStepSound DEF Steps, CommitSteps, TokenSteps
    <2>2. UNCHANGED <<clock, issued, tokens>>
      BY <1>8 DEF ForceLock, environment, ledger
    <2>3. (Goes(r, Calls(next, "other", 0, 0)) /\ loop' = Idle) \/ Skip(r, next)
      BY <1>8 DEF ForceLock
    <2> HIDE DEF next
    <2>4. Sound(Calls(next, "other", 0, 0))
      BY <2>1, OtherCallSound
    <2>5. req' \in [Requests -> Request] /\ RequestsSound'
          /\ loop' \in Requests \union {Idle}
      BY <2>1, <2>2, <2>3, <2>4, GoesSound, SkipSound
    <2>6. rowLock' \in [Users -> Requests \union {Idle}] /\ users' = users
      BY <1>0, <1>8 DEF ForceLock
    <2>7. QED
      BY <1>0, <1>8, <2>5, <2>6, RowStepInv DEF ForceLock
  <1>9. CASE ForceStamp(r)
    <2>1. Sound([req[r] EXCEPT !.pc = "force_commit", !.stamp = clock])
      BY <1>9, StampSound DEF ForceStamp, Answered, CommitSteps
    <2>2. req' \in [Requests -> Request] /\ RequestsSound'
      BY <1>9, <2>1, GoesSound DEF ForceStamp, environment, ledger
    <2>3. QED
      BY <1>9, <2>2, RequestStepInv DEF ForceStamp
  <1>10. CASE ForceCommit(r)
    <2>1. req' \in [Requests -> Request] /\ RequestsSound'
      BY <1>10, FinishSound DEF ForceCommit, environment, ledger
    <2>2. users' \in [Users -> Row] /\ rowLock' \in [Users -> Requests \union {Idle}]
      BY <1>0, <1>10, RowChanges DEF ForceCommit, Roles
    <2>3. QED
      BY <1>10, <2>1, <2>2, RowStepInv DEF ForceCommit
  <1>11. QED
    BY <1>1, <1>3, <1>4, <1>5, <1>6, <1>7, <1>8, <1>9, <1>10, <1>2 DEF AdminStep

LEMMA RedisStepInv ==
    ASSUME Inv, NEW r \in Requests, RedisStep(r)
    PROVE  Inv'
  <1> USE InvFacts
  <1>1. CASE RedisExists(r)
    <2>1. PICK q : q = [req[r] EXCEPT !.call = "answered", !.target = 0,
                                      !.answer = Blacklisted(req[r].target)]
      OBVIOUS
    <2>2. Blacklisted(req[r].target) \in BOOLEAN
      BY DEF Blacklisted
    <2>3. Sound(q)
      BY <2>1, <2>2, AnswerSound
    <2>4. req' \in [Requests -> Request] /\ RequestsSound'
      BY <1>1, <2>1, <2>3, GoesSound DEF RedisExists, environment, ledger
    <2>5. QED
      BY <1>1, <2>4, RequestStepInv DEF RedisExists
  <1>2. CASE RedisSetex(r)
    <2> DEFINE j == req[r].target
    <2>1. PICK q : q = [req[r] EXCEPT !.call = "answered", !.target = 0, !.ttl = 0]
      OBVIOUS
    <2>2. Sound(q)
      BY <2>1, SetexAnswerSound
    <2>3. req' \in [Requests -> Request] /\ RequestsSound'
      BY <1>2, <2>1, <2>2, GoesSound DEF RedisSetex, environment, ledger
    <2>4. CASE UNCHANGED store
      BY <1>2, <2>3, <2>4, RequestStepInv DEF RedisSetex
    <2>5. CASE /\ blacklist' = [blacklist EXCEPT ![j] = clock + req[r].ttl]
               /\ revoked' \in {revoked, revoked \union {j}}
      <3>1. /\ j \in Minted /\ req[r].ttl \in Int
            /\ tokens[j].exp < clock + req[r].ttl + TicksPerSecond
        BY <1>2 DEF RedisSetex, Sound, Request
      <3>2. UNCHANGED <<environment, ledger, users, loop, rowLock>>
        BY <1>2 DEF RedisSetex
      <3>3. blacklist \in [Jti -> Int] /\ revoked \subseteq Minted /\ j \in Jti
        BY <3>1 DEF Inv, TypeOK
      <3>4. blacklist' \in [Jti -> Int] /\ revoked' \subseteq Minted
        BY <2>5, <3>1, <3>3
      <3>5. TypeOK'
        BY <2>3, <3>2, <3>4 DEF Inv, TypeOK, environment, ledger, Minted
      <3>6. RevokedSound'
        BY <2>5, <3>1, <3>2, <3>3 DEF Inv, RevokedSound, ledger
      <3>7. TokensSound'
        BY <3>2 DEF Inv, TokensSound, environment, ledger, Minted
      <3>8. QED
        BY <2>3, <3>5, <3>6, <3>7 DEF Inv
    <2>6. QED
      BY <1>2, <2>4, <2>5 DEF RedisSetex
  <1>3. CASE RedisOther(r)
    <2>1. Sound([req[r] EXCEPT !.call = "answered"])
      BY DEF Sound, Request
    <2>2. req' \in [Requests -> Request] /\ RequestsSound'
      BY <1>3, <2>1, GoesSound DEF RedisOther, environment, ledger
    <2>3. QED
      BY <1>3, <2>2, RequestStepInv DEF RedisOther
  <1>4. QED
    BY <1>1, <1>2, <1>3 DEF RedisStep

LEMMA EnvironmentInv ==
    ASSUME Inv, Environment
    PROVE  Inv'
  <1>1. CASE Tick
    <2>1. clock \in Nat /\ clock' = clock + 1 /\ clock' \in 0 .. MaxClock
      BY <1>1, ConstantTypes DEF Tick, Inv, TypeOK
    <2>2. TypeOK'
      BY <1>1, <2>1 DEF Inv, TypeOK, Tick, ledger, store, Minted
    <2>3. RequestsSound'
      <3>1. ASSUME NEW r \in Requests
            PROVE  Sound(req[r])'
        <4>1. Sound(req[r]) /\ req' = req /\ issued' = issued /\ tokens' = tokens
              /\ Minted' = Minted
          BY <1>1 DEF Tick, ledger, Inv, RequestsSound, Minted
        <4>2. req[r].call = "setex" =>
                tokens[req[r].target].exp < clock' + req[r].ttl + TicksPerSecond
          <5>1. CASE req[r].call = "setex"
            <6>1. /\ req[r].target \in Minted /\ req[r].ttl \in Int
                  /\ tokens[req[r].target].exp < clock + req[r].ttl + TicksPerSecond
              BY <4>1, <5>1 DEF Sound, Request
            <6>2. tokens[req[r].target].exp \in Int
              BY <6>1, TokenFacts
            <6>3. QED
              BY <2>1, <6>1, <6>2, TicksAssumption
          <5>2. QED
            BY <5>1
        <4>3. QED
          BY <4>1, <4>2 DEF Sound
      <3>2. QED
        BY <3>1 DEF RequestsSound
    <2>4. RevokedSound'
      BY <1>1 DEF Inv, RevokedSound, Tick, ledger, store
    <2>5. TokensSound'
      <3>1. \A j \in Minted : tokens[j].origin.at \in Nat /\ tokens[j].origin.at <= clock
        BY TokenFacts
      <3>2. QED
        BY <1>1, <2>1, <3>1 DEF Inv, TokensSound, Tick, ledger, Minted
    <2>6. QED
      BY <2>2, <2>3, <2>4, <2>5 DEF Inv
  <1>2. CASE RedisFails \/ RedisRecovers
    <2>1. UNCHANGED <<clock, users, ledger, store, loop, rowLock, req>>
      BY <1>2 DEF RedisFails, RedisRecovers
    <2>2. /\ redis' \in {"up", "failing", "none"}
          /\ faults' \in 0 .. MaxFaults
      BY <1>2, ConstantTypes DEF RedisFails, RedisRecovers, Inv, TypeOK
    <2>3. degraded' \in BOOLEAN
      <3>1. degraded \in BOOLEAN
        BY DEF Inv, TypeOK
      <3>2. degraded' = TRUE \/ degraded' = degraded
        BY <1>2 DEF RedisFails, RedisRecovers
      <3>3. QED
        BY <3>1, <3>2
    <2>4. TypeOK'
      BY <2>1, <2>2, <2>3 DEF Inv, TypeOK, ledger, store, Minted
    <2>5. RequestsSound'
      BY <2>1 DEF Inv, RequestsSound, Sound, ledger, Minted
    <2>6. RevokedSound' /\ TokensSound'
      BY <2>1 DEF Inv, RevokedSound, TokensSound, ledger, store, Minted
    <2>7. QED
      BY <2>4, <2>5, <2>6 DEF Inv
  <1>3. CASE Restart
    <2>1. TypeOK'
      BY <1>3, ConstantTypes DEF Restart, Inv, TypeOK, ledger, store, Minted
    <2>2. RequestsSound'
      BY <1>3, NoRequestSound DEF Restart, RequestsSound, Sound, ledger, Minted
    <2>3. RevokedSound' /\ TokensSound'
      BY <1>3 DEF Restart, Inv, RevokedSound, TokensSound, ledger, store, Minted
    <2>4. QED
      BY <2>1, <2>2, <2>3 DEF Inv
  <1>4. QED
    BY <1>1, <1>2, <1>3 DEF Environment

-----------------------------------------------------------------------------
(* The theorems.                                                           *)

\* The inductive invariant: it holds at the start,
LEMMA InitInv == Init => Inv
  <1> SUFFICES ASSUME Init
               PROVE  Inv
    OBVIOUS
  <1>1. Minted = {}
    BY DEF Init, Minted
  <1>2. TypeOK
    BY <1>1, ConstantTypes DEF Init, TypeOK
  <1>3. RequestsSound
    BY ConstantTypes DEF Init, RequestsSound, Sound, TokenSteps, CommitSteps
  <1>4. RevokedSound /\ TokensSound
    BY <1>1 DEF Init, RevokedSound, TokensSound
  <1>5. QED
    BY <1>2, <1>3, <1>4 DEF Inv

\* every step keeps it,
LEMMA NextInv == Inv /\ [Next]_vars => Inv'
  <1> SUFFICES ASSUME Inv, [Next]_vars
               PROVE  Inv'
    OBVIOUS
  <1>1. CASE Environment
    BY <1>1, EnvironmentInv
  <1>2. ASSUME NEW r \in Requests,
               AuthStep(r) \/ AccountStep(r) \/ AdminStep(r) \/ RedisStep(r)
        PROVE  Inv'
    BY <1>2, AuthStepInv, AccountStepInv, AdminStepInv, RedisStepInv
  <1>3. CASE UNCHANGED vars
    BY <1>3 DEF vars, Inv, TypeOK, RequestsSound, Sound, RevokedSound,
                TokensSound, Minted
  <1>4. QED
    BY <1>1, <1>2, <1>3 DEF Next

\* and so it always holds: requests in flight work on tokens that exist, a
\* SETEX on its way and a key in Redis last until the last second of their
\* token, and no stamp to be committed is older than a token it must end.
THEOREM Invariance == Spec => []Inv
  BY InitInv, NextInv, PTL DEF Spec

\* Every variable keeps its shape: TypeOK, for every value of the constants.
THEOREM TypeCorrect == Spec => []TypeOK
  <1>1. Inv => TypeOK
    BY DEF Inv
  <1>2. QED
    BY <1>1, Invariance, PTL

\* A revoked token is refused while Redis answers, save in its last second.
THEOREM RevocationHolds == Spec => []RevokedUntilLastSecond
  <1>1. Inv => RevokedUntilLastSecond
    <2> SUFFICES ASSUME Inv, NEW j \in revoked, redis = "up", Usable(j)
                 PROVE  tokens[j].exp - clock < TicksPerSecond
      BY DEF RevokedUntilLastSecond
    <2>1. j \in Minted /\ clock \in Nat /\ tokens[j].exp \in Int /\ blacklist[j] \in Int
      BY TokenFacts, ConstantTypes DEF Inv, TypeOK
    <2>2. ~(clock < blacklist[j])
      BY DEF Usable, Accepted, Refreshable, Blacklisted
    <2>3. tokens[j].exp < blacklist[j] + TicksPerSecond
      BY DEF Inv, RevokedSound
    <2>4. QED
      BY <2>1, <2>2, <2>3, TicksAssumption
  <1>2. QED
    BY <1>1, Invariance, PTL

\* Between two restarts only its own commit ends a request that is about to
\* commit.
LEMMA CommitsOf ==
    ASSUME Inv, [Next]_vars, faults' = faults,
           NEW r \in Requests, req[r].pc \in CommitSteps, req'[r].pc = "idle"
    PROVE  ChangeCommit(r) \/ DisableCommit(r) \/ ForceCommit(r) \/ RoleCommit(r)
  <1>1. req \in [Requests -> Request] /\ req' # req
    BY DEF Inv, TypeOK, CommitSteps
  <1>2. ~Environment /\ ~(UNCHANGED vars)
    <2>1. faults + 1 # faults
      BY ConstantTypes DEF Inv, TypeOK
    <2>2. QED
      BY <1>1, <2>1 DEF Environment, Tick, RedisFails, RedisRecovers, Restart, vars
  <1>3. PICK s \in Requests :
          AuthStep(s) \/ AccountStep(s) \/ AdminStep(s) \/ RedisStep(s)
    BY <1>2 DEF Next
  <1>4. ~RedisStep(s)
    <2>1. ASSUME NEW q, q.pc = req[s].pc PROVE ~Goes(s, q)
      BY <1>1, <2>1 DEF Goes, CommitSteps
    <2>2. ASSUME NEW answer
          PROVE  [req[s] EXCEPT !.call = "answered", !.target = 0,
                                !.answer = answer].pc = req[s].pc
      BY <1>1 DEF Request
    <2>3. ~RedisExists(s)
      <3>1. PICK answer : answer = Blacklisted(req[s].target)
        OBVIOUS
      <3>2. ~Goes(s, [req[s] EXCEPT !.call = "answered", !.target = 0,
                                    !.answer = answer])
        BY <2>1, <2>2
      <3>3. QED
        BY <3>1, <3>2 DEF RedisExists
    <2>4. ~RedisSetex(s)
      <3>1. [req[s] EXCEPT !.call = "answered", !.target = 0, !.ttl = 0].pc = req[s].pc
        BY <1>1 DEF Request
      <3>2. ~Goes(s, [req[s] EXCEPT !.call = "answered", !.target = 0, !.ttl = 0])
        BY <2>1, <3>1
      <3>3. QED
        BY <3>2 DEF RedisSetex
    <2>5. ~RedisOther(s)
      <3>1. [req[s] EXCEPT !.call = "answered"].pc = req[s].pc
        BY <1>1 DEF Request
      <3>2. ~Goes(s, [req[s] EXCEPT !.call = "answered"])
        BY <2>1, <3>1
      <3>3. QED
        BY <3>2 DEF RedisOther
    <2>6. QED
      BY <2>3, <2>4, <2>5 DEF RedisStep
  <1>5. ~AuthStep(s)
    BY <1>1 DEF AuthStep, LoginRead, LoginMint, RefreshRead, RefreshCheck,
           RefreshRefused, RefreshMint, Logout, LogoutCookie, LogoutDone,
           GoogleRead, GoogleMint, AskBlacklist, AddToBlacklist, Skip, Answered,
           Finish, Goes, CommitSteps
  <1>6. AccountStep(s) => ChangeCommit(r)
    BY <1>1 DEF AccountStep, Authenticate, ChangeStart, ChangeStamp, ChangeCommit,
           AuthRefused, DeleteStart, DeleteLock, DeleteCookie, DeleteCommit,
           AskBlacklist, AddToBlacklist, Skip, Answered, Finish, Goes, CommitSteps
  <1>7. AdminStep(s) => DisableCommit(r) \/ ForceCommit(r) \/ RoleCommit(r)
    BY <1>1 DEF AdminStep, RoleRead, RoleStamp, RoleCommit, DisableLock, DisableCommit,
           Enable, ForceStart, ForceLock, ForceStamp, ForceCommit, Skip, Answered,
           Finish, Goes, CommitSteps
  <1>8. QED
    BY <1>3, <1>4, <1>5, <1>6, <1>7

\* A commit of change_password, disable_user, force_password_reset or
\* change_user_role leaves every token that was out when its request came in
\* behind the stamp it writes.
THEOREM ChangesEndSessions == Spec => ChangeEndsSessions
  <1> DEFINE Ends ==
        \A r \in Requests, j \in Minted :
          LET row == users'[req[r].user]
          IN  /\ req[r].pc \in CommitSteps
              /\ req'[r].pc = "idle" /\ faults' = faults
              /\ j <= req[r].began /\ tokens[j].sub = req[r].user
              => \/ ~row.exists
                 \/ IssuedBefore(tokens[j], IF req[r].pc = "role_commit"
                                            THEN row.role_changed_at
                                            ELSE row.password_changed_at)
                 \/ tokens[j].origin.at = req[r].stamp
  <1>1. Inv /\ [Next]_vars => [Ends]_vars
    <2> SUFFICES ASSUME Inv, [Next]_vars, NEW r \in Requests, NEW j \in Minted,
                        req[r].pc \in CommitSteps, req'[r].pc = "idle",
                        faults' = faults, j <= req[r].began,
                        users'[req[r].user].exists
                 PROVE  \/ IssuedBefore(tokens[j],
                                        IF req[r].pc = "role_commit"
                                        THEN users'[req[r].user].role_changed_at
                                        ELSE users'[req[r].user].password_changed_at)
                        \/ tokens[j].origin.at = req[r].stamp
      OBVIOUS
    <2>1. /\ req[r].user \in Users /\ req[r].stamp \in Stamp
          /\ users \in [Users -> Row] /\ req \in [Requests -> Request]
      BY InvFacts DEF Inv, TypeOK
    <2>2. ChangeCommit(r) \/ DisableCommit(r) \/ ForceCommit(r) \/ RoleCommit(r)
      BY CommitsOf
    <2>3. IF req[r].pc = "role_commit"
          THEN users'[req[r].user].role_changed_at = req[r].stamp
          ELSE users'[req[r].user].password_changed_at = req[r].stamp
      BY <2>1, <2>2 DEF ChangeCommit, DisableCommit, ForceCommit, RoleCommit, Row
    <2>4. tokens[j].origin.at <= req[r].stamp
      BY InvFacts DEF Sound
    <2>5. /\ tokens[j].origin.at \in Nat
          /\ tokens[j].iat = NumericDate(tokens[j].origin.at)
          /\ req[r].stamp \in Int
      BY <2>1, TokenFacts DEF Stamp, Never
    <2>6. tokens[j].iat \in Nat /\ tokens[j].iat <= tokens[j].origin.at
      BY <2>5, NumericDateBounds
    <2>7. QED
      BY <2>3, <2>4, <2>5, <2>6 DEF IssuedBefore
  <1>2. QED
    BY <1>1, Invariance, PTL DEF Spec, ChangeEndsSessions
=============================================================================
