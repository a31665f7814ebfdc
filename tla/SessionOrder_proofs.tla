------------------------- MODULE SessionOrder_proofs -------------------------
(***************************************************************************)
(* Theorems about TokenSessions that rest on who holds what: the loop      *)
(* keeps logins and password changes apart, the row lock keeps the stamps  *)
(* of disablings and forced resets in order.                               *)
(***************************************************************************)
EXTENDS TokenSessions_proofs

\* From these steps on a coroutine keeps the loop; from those on a transaction
\* keeps the row.
LoopSteps == {"login_mint", "change_stamp", "change_commit", "force_commit"}
LockSteps == {"delete_cookie", "delete_commit", "disable_commit", "force_stamp",
              "force_commit"}
Marked == LoopSteps \union LockSteps

\* The steps that are about to write password_changed_at.
PasswordCommits == CommitSteps \ {"role_commit"}

LoginTokens == {j \in Minted : tokens[j].origin.via = "login"}

\* What a request relies on between two of its steps.
Orderly(r) ==
    /\ req[r].pc \in LoopSteps => loop = r
    /\ req[r].pc \in LockSteps => rowLock[req[r].user] = r
    /\ req[r].pc = "login_mint" => req[r].row.pw = users[req[r].user].pw
    /\ req[r].pc \in PasswordCommits => req[r].stamp <= clock
    /\ req[r].pc \in {"disable_commit", "force_commit"} =>
          users[req[r].user].password_changed_at <= req[r].stamp
    /\ req[r].pc = "change_commit" =>
          \A j \in LoginTokens : tokens[j].origin.at <= req[r].stamp

\* No change is stamped in the future.
StampsPast == \A u \in Users : users[u].password_changed_at <= clock

\* A login's token that is under another password is no younger than the stamp.
LoginsMatch ==
    \A j \in LoginTokens :
        LET row == users[tokens[j].sub]
        IN  \/ tokens[j].origin.pw = row.pw
            \/ tokens[j].origin.at <= row.password_changed_at

Order == (\A r \in Requests : Orderly(r)) /\ StampsPast /\ LoginsMatch

-----------------------------------------------------------------------------
(* What a step of one request leaves to the others.                        *)

Frame(r) ==
    /\ clock' = clock
    /\ loop' = loop \/ loop \in {Idle, r}
    /\ \A u \in Users :
          /\ rowLock'[u] = rowLock[u] \/ rowLock[u] \in {Idle, r}
          /\ users'[u].pw = users[u].pw \/ loop \in {Idle, r}
          /\ \/ users'[u].password_changed_at = users[u].password_changed_at
             \/ rowLock[u] \in {Idle, r}
    /\ \A j \in LoginTokens' :
          \/ j \in LoginTokens /\ tokens'[j] = tokens[j]
          \/ loop \in {Idle, r}
    /\ \A s \in Requests : s # r => req'[s] = req[s]

LEMMA OrderFacts ==
    ASSUME Inv, NEW r \in Requests
    PROVE  /\ req[r] \in Request /\ req[r].user \in Users /\ req[r].row \in Row
           /\ req[r].stamp \in Int /\ req[r].jti \in Nat /\ req[r].began \in Nat
           /\ req[r].pc \in Steps /\ r # Idle
           /\ clock \in Nat /\ issued \in Nat
           /\ users \in [Users -> Row] /\ rowLock \in [Users -> Requests \union {Idle}]
           /\ \A u \in Users : users[u].password_changed_at \in Int
           /\ \A j \in Minted : tokens[j].origin.at \in Nat /\ tokens[j].sub \in Users
                                /\ tokens[j].origin.at <= clock
  <1>1. req[r] \in Request /\ users \in [Users -> Row]
    BY InvFacts DEF Inv, TypeOK
  <1>2. req[r].stamp \in Int /\ \A u \in Users : users[u].password_changed_at \in Int
    BY <1>1 DEF Request, Row, Stamp, Never
  <1>3. QED
    BY <1>1, <1>2, InvFacts, TokenFacts, RequestsAssumption DEF Inv, TypeOK, Request

LEMMA OthersOrderly ==
    ASSUME Inv, Order, NEW r \in Requests, Frame(r), NEW s \in Requests, s # r
    PROVE  Orderly(s)'
  <1>1. /\ Orderly(s) /\ req'[s] = req[s] /\ req[s].user \in Users /\ s # Idle
    BY OrderFacts DEF Order, Frame
  <1>2. req[s].pc \in LoopSteps =>
           /\ loop = s /\ loop' = s
           /\ users'[req[s].user].pw = users[req[s].user].pw
           /\ \A j \in LoginTokens' : j \in LoginTokens /\ tokens'[j] = tokens[j]
    BY <1>1 DEF Orderly, Frame
  <1>3. req[s].pc \in LockSteps =>
           /\ rowLock'[req[s].user] = s
           /\ users'[req[s].user].password_changed_at = users[req[s].user].password_changed_at
    BY <1>1 DEF Orderly, Frame
  <1>4. clock' = clock
    BY DEF Frame
  <1>5. QED
    BY <1>1, <1>2, <1>3, <1>4 DEF Orderly, LoopSteps, LockSteps

\* A request at a step of no mark relies on nothing.
LEMMA UnmarkedOrderly ==
    ASSUME NEW r \in Requests, req'[r].pc \notin Marked
    PROVE  Orderly(r)'
  BY DEF Orderly, Marked, LoopSteps, LockSteps, PasswordCommits, CommitSteps

\* The step of a request keeps the order if it keeps its own part of it.
LEMMA StepOrder ==
    ASSUME Inv, Order, NEW r \in Requests, Frame(r), Orderly(r)', StampsPast', LoginsMatch'
    PROVE  Order'
  BY OthersOrderly DEF Order

\* Steps that only move the request, and perhaps the loop and the blacklist.
LEMMA LocalOrder ==
    ASSUME Inv, Order, NEW r \in Requests, UNCHANGED <<clock, ledger, users, rowLock>>,
           loop' = loop \/ loop \in {Idle, r}, NEW q, Goes(r, q), Orderly(r)'
    PROVE  Order'
  <1>1. LoginTokens' = LoginTokens /\ tokens' = tokens
    BY DEF LoginTokens, Minted, ledger
  <1>2. \A s \in Requests : s # r => req'[s] = req[s]
    BY InvFacts DEF Goes
  <1>3. Frame(r)
    BY <1>1, <1>2 DEF Frame
  <1>4. StampsPast' /\ LoginsMatch'
    BY <1>1 DEF Order, StampsPast, LoginsMatch
  <1>5. QED
    BY <1>3, <1>4, StepOrder

LEMMA QuietOrder ==
    ASSUME Inv, Order, NEW r \in Requests, UNCHANGED <<clock, ledger, users, rowLock>>,
           loop' = loop \/ loop \in {Idle, r}, NEW q, Goes(r, q), q.pc \notin Marked
    PROVE  Order'
  <1>1. req'[r].pc \notin Marked
    BY InvFacts DEF Goes
  <1>2. QED
    BY <1>1, UnmarkedOrderly, LocalOrder

\* Steps that end the request.
LEMMA FinishOrder ==
    ASSUME Inv, Order, NEW r \in Requests, UNCHANGED <<clock, ledger, users, rowLock>>,
           loop' = loop \/ loop \in {Idle, r}, Finish(r)
    PROVE  Order'
  <1>1. NoRequest.pc \notin Marked
    BY ConstantTypes DEF Marked, LoopSteps, LockSteps
  <1>2. QED
    BY <1>1, QuietOrder DEF Finish

-----------------------------------------------------------------------------
(* What the helpers of AuthState leave of a request.                       *)

Alike(q, p) ==
    /\ q.pc = p.pc /\ q.user = p.user /\ q.row = p.row /\ q.stamp = p.stamp
    /\ q.jti = p.jti /\ q.began = p.began

LEMMA CallsAlike ==
    ASSUME NEW q \in Request, NEW call, NEW j, NEW ttl
    PROVE  Alike(Calls(q, call, j, ttl), q)
  BY DEF Alike, Calls, Request

LEMMA SkipAlike ==
    ASSUME NEW q \in Request
    PROVE  Alike([q EXCEPT !.call = "answered"], q)
  BY DEF Alike, Request

LEMMA AskAlike ==
    ASSUME NEW r \in Requests, NEW q \in Request, NEW j, AskBlacklist(r, q, j)
    PROVE  loop' \in {Idle, r} /\ \E p : Alike(p, q) /\ Goes(r, p)
  BY CallsAlike, SkipAlike DEF AskBlacklist, Skip

LEMMA AddAlike ==
    ASSUME NEW r \in Requests, NEW q \in Request, NEW j, AddToBlacklist(r, q, j)
    PROVE  loop' \in {Idle, r} /\ \E p : Alike(p, q) /\ Goes(r, p)
  BY CallsAlike, SkipAlike DEF AddToBlacklist, Skip

\* A request that goes on to another step.
LEMMA NextAlike ==
    ASSUME NEW q \in Request, NEW pc \in Steps, NEW p, p = [q EXCEPT !.pc = pc]
    PROVE  /\ p \in Request /\ p.pc = pc /\ p.user = q.user /\ p.row = q.row
           /\ p.stamp = q.stamp /\ p.jti = q.jti /\ p.began = q.began
  BY DEF Request

\* A request that begins at step pc, for user u and with token j.
Fresh(q, pc, u, j) == /\ q \in Request /\ q.pc = pc /\ q.user = u /\ q.jti = j
                      /\ q.began = issued

LEMMA BeginFresh ==
    ASSUME Inv, NEW r \in Requests, NEW pc \in Steps, NEW u \in Users
    PROVE  Fresh(Begin(r, pc, u), pc, u, 0)
  BY ConstantTypes, OrderFacts DEF Begin, Request, Fresh, NoRequest

LEMMA BeginTokenFresh ==
    ASSUME Inv, NEW r \in Requests, NEW pc \in Steps, NEW u \in Users, NEW j \in Nat,
           NEW cookie \in Nat
    PROVE  Fresh([Begin(r, pc, u) EXCEPT !.jti = j, !.cookie = cookie], pc, u, j)
  <1>1. PICK n : n = Begin(r, pc, u)
    OBVIOUS
  <1>2. Fresh(n, pc, u, 0)
    BY <1>1, BeginFresh
  <1>3. Fresh([n EXCEPT !.jti = j, !.cookie = cookie], pc, u, j)
    BY <1>2 DEF Fresh, Request
  <1>4. QED
    BY <1>1, <1>3

LEMMA BeginRowFresh ==
    ASSUME Inv, NEW r \in Requests, NEW pc \in Steps, NEW u \in Users, NEW row \in Row
    PROVE  /\ Fresh([Begin(r, pc, u) EXCEPT !.row = row], pc, u, 0)
           /\ [Begin(r, pc, u) EXCEPT !.row = row].row = row
  <1>1. PICK n : n = Begin(r, pc, u)
    OBVIOUS
  <1>2. Fresh(n, pc, u, 0)
    BY <1>1, BeginFresh
  <1>3. Fresh([n EXCEPT !.row = row], pc, u, 0) /\ [n EXCEPT !.row = row].row = row
    BY <1>2 DEF Fresh, Request
  <1>4. QED
    BY <1>1, <1>3

LEMMA BeginRefreshFresh ==
    ASSUME Inv, NEW r \in Requests, NEW pc \in Steps, NEW u \in Users, NEW j \in Nat,
           NEW row \in Row
    PROVE  Fresh([Begin(r, pc, u) EXCEPT !.jti = j, !.row = row], pc, u, j)
  <1>1. PICK n : n = Begin(r, pc, u)
    OBVIOUS
  <1>2. Fresh(n, pc, u, 0)
    BY <1>1, BeginFresh
  <1>3. Fresh([n EXCEPT !.jti = j, !.row = row], pc, u, j)
    BY <1>2 DEF Fresh, Request
  <1>4. QED
    BY <1>1, <1>3

\* Steps that end in a question to the blacklist, or an addition to it.
LEMMA AskOrder ==
    ASSUME Inv, Order, NEW r \in Requests, UNCHANGED <<clock, ledger, users, rowLock>>,
           loop \in {Idle, r}, NEW q \in Request, q.pc \notin Marked, NEW j,
           AskBlacklist(r, q, j)
    PROVE  Order'
  <1>1. PICK p : Alike(p, q) /\ Goes(r, p)
    BY AskAlike
  <1>2. p.pc \notin Marked /\ loop' \in {Idle, r}
    BY <1>1, AskAlike DEF Alike
  <1>3. loop' = loop \/ loop \in {Idle, r}
    OBVIOUS
  <1>4. QED
    BY <1>1, <1>2, <1>3, QuietOrder

LEMMA AddOrder ==
    ASSUME Inv, Order, NEW r \in Requests, UNCHANGED <<clock, ledger, users, rowLock>>,
           loop \in {Idle, r}, NEW q \in Request, q.pc \notin Marked, NEW j,
           AddToBlacklist(r, q, j)
    PROVE  Order'
  <1>1. PICK p : Alike(p, q) /\ Goes(r, p)
    BY AddAlike
  <1>2. p.pc \notin Marked
    BY <1>1 DEF Alike
  <1>3. loop' = loop \/ loop \in {Idle, r}
    OBVIOUS
  <1>4. QED
    BY <1>1, <1>2, <1>3, QuietOrder

-----------------------------------------------------------------------------
(* Every step keeps the order.                                             *)

\* The two tokens of a pair: whose they are, under which password.
LEMMA MintPairOrigin ==
    ASSUME Inv, NEW r \in Requests, NEW via \in {"login", "refresh", "google"},
           NEW row \in Row, NEW parent \in Nat, MintPair(r, via, row, parent)
    PROVE  \A j \in Minted' : j \notin Minted =>
              /\ j \in {issued + 1, issued + 2}
              /\ tokens'[j].sub = req[r].user
              /\ tokens'[j].origin.via = via /\ tokens'[j].origin.at = clock
              /\ tokens'[j].origin.pw = row.pw /\ tokens'[j].origin.parent = parent
              /\ tokens'[j].origin.began = req[r].began
              /\ tokens'[j].type = "refresh" => j = issued + 2
  <1> DEFINE origin == [via |-> via, at |-> clock, pw |-> row.pw,
                        parent |-> parent, began |-> req[r].began]
             access == CreateToken("access", req[r].user, row.role, clock, origin)
             refresh == CreateToken("refresh", req[r].user, row.role, clock, origin)
  <1>1. issued \in Nat /\ tokens \in [Jti -> Token]
    BY InvFacts
  <1>2. /\ issued' = issued + 2 /\ issued + 2 <= MaxTokens
        /\ tokens' = [tokens EXCEPT ![issued + 1] = access, ![issued + 2] = refresh]
    BY DEF MintPair
  <1>3. /\ access.sub = req[r].user /\ access.origin = origin /\ access.type = "access"
        /\ refresh.sub = req[r].user /\ refresh.origin = origin
    BY DEF CreateToken
  <1>a. /\ origin.via = via /\ origin.at = clock /\ origin.pw = row.pw
        /\ origin.parent = parent /\ origin.began = req[r].began
    OBVIOUS
  <1> HIDE DEF access, refresh, origin
  <1>4. issued + 1 \in Jti /\ issued + 2 \in Jti
    BY <1>1, <1>2, ConstantTypes DEF Jti
  <1>5. tokens'[issued + 1] = access /\ tokens'[issued + 2] = refresh
    BY <1>1, <1>2, <1>4
  <1>6. \A j \in Minted' : j \notin Minted => j \in {issued + 1, issued + 2}
    BY <1>1, <1>2 DEF Minted
  <1>7. QED
    BY <1>3, <1>a, <1>5, <1>6

\* A login's pair is under the password of now, whoever else is in flight.
LEMMA MintOrder ==
    ASSUME Inv, Order, NEW r \in Requests, NEW via \in {"login", "refresh", "google"},
           NEW row \in Row, NEW parent \in Nat, MintPair(r, via, row, parent),
           Finish(r), UNCHANGED <<environment, store, users, rowLock>>,
           loop' = loop \/ loop \in {Idle, r},
           via = "login" => loop = r /\ row.pw = users[req[r].user].pw
    PROVE  Order'
  <1>1. /\ issued' = issued + 2 /\ issued \in Nat
        /\ \A j \in Minted : tokens'[j] = tokens[j]
    BY MintPairSound, InvFacts
  <1>2. \A j \in Minted' : j \notin Minted =>
              /\ tokens'[j].sub = req[r].user
              /\ tokens'[j].origin.via = via /\ tokens'[j].origin.pw = row.pw
    BY MintPairOrigin
  <1>3. \A j \in LoginTokens' :
           \/ j \in LoginTokens /\ tokens'[j] = tokens[j]
           \/ /\ loop = r /\ tokens'[j].sub = req[r].user
              /\ tokens'[j].origin.pw = users[req[r].user].pw
    BY <1>1, <1>2 DEF LoginTokens
  <1>4. \A s \in Requests : s # r => req'[s] = req[s]
    BY InvFacts DEF Finish, Goes
  <1>5. Frame(r)
    BY <1>3, <1>4 DEF Frame, environment
  <1>6. req'[r].pc = "idle"
    BY InvFacts, ConstantTypes DEF Finish, Goes
  <1>7. Orderly(r)'
    BY <1>6, UnmarkedOrderly DEF Marked, LoopSteps, LockSteps
  <1>8. StampsPast'
    BY DEF Order, StampsPast, environment
  <1>9. LoginsMatch'
    BY <1>3 DEF Order, LoginsMatch
  <1>10. QED
    BY <1>5, <1>7, <1>8, <1>9, StepOrder

LEMMA AuthStepOrder ==
    ASSUME Inv, Order, NEW r \in Requests, AuthStep(r)
    PROVE  Order'
  <1>1. ASSUME NEW u \in Users, LoginRead(r, u) PROVE Order'
    <2>1. PICK b : b = [Begin(r, "login_mint", u) EXCEPT !.row = users[u]]
      OBVIOUS
    <2>2. "login_mint" \in Steps /\ users[u] \in Row
      BY OrderFacts DEF Steps
    <2>3. Fresh(b, "login_mint", u, 0) /\ b.row = users[u]
      BY <2>1, <2>2, BeginRowFresh
    <2>4. Goes(r, b) /\ loop' = r /\ users' = users /\ loop = Idle
      BY <1>1, <2>1 DEF LoginRead
    <2>5. req'[r] = b
      BY <2>4, InvFacts DEF Goes
    <2>6. Orderly(r)'
      BY <2>3, <2>4, <2>5 DEF Orderly, LoopSteps, LockSteps, PasswordCommits, CommitSteps, Fresh
    <2>7. UNCHANGED <<clock, ledger, users, rowLock>>
      BY <1>1 DEF LoginRead, environment
    <2>8. QED
      BY <2>4, <2>6, <2>7, LocalOrder
  <1>2. CASE LoginMint(r)
    BY <1>2, OrderFacts, MintOrder DEF LoginMint, Order, Orderly, LoopSteps
  <1>3. ASSUME NEW j \in Minted, RefreshRead(r, j) PROVE Order'
    <2>1. PICK b : b = [Begin(r, "refresh_check", tokens[j].sub) EXCEPT
                           !.jti = j, !.row = users[tokens[j].sub]]
      OBVIOUS
    <2>2. /\ "refresh_check" \in Steps /\ tokens[j].sub \in Users /\ j \in Nat
          /\ users[tokens[j].sub] \in Row
      BY TokenFacts DEF Steps
    <2>3. Fresh(b, "refresh_check", tokens[j].sub, j)
      BY <2>1, <2>2, BeginRefreshFresh
    <2>4. AskBlacklist(r, b, j) /\ loop = Idle
      BY <1>3, <2>1 DEF RefreshRead
    <2>5. b \in Request /\ b.pc \notin Marked
      BY <2>3 DEF Fresh, Marked, LoopSteps, LockSteps
    <2>6. UNCHANGED <<clock, ledger, users, rowLock>>
      BY <1>3 DEF RefreshRead, environment
    <2>7. QED
      BY <2>4, <2>5, <2>6, AskOrder
  <1>4. CASE RefreshCheck(r)
    <2>1. PICK b : b = [req[r] EXCEPT !.pc = "refresh_mint"]
      OBVIOUS
    <2>2. b \in Request /\ b.pc \notin Marked
      BY <2>1, OrderFacts, NextAlike DEF Steps, Marked, LoopSteps, LockSteps
    <2>3. AddToBlacklist(r, b, req[r].jti) /\ loop \in {Idle, r}
      BY <1>4, <2>1 DEF RefreshCheck, Answered, OnLoop
    <2>4. UNCHANGED <<clock, ledger, users, rowLock>>
      BY <1>4 DEF RefreshCheck, environment
    <2>5. QED
      BY <2>2, <2>3, <2>4, AddOrder
  <1>5. CASE RefreshRefused(r) \/ LogoutDone(r)
    BY <1>5, FinishOrder DEF RefreshRefused, LogoutDone, environment, Answered, OnLoop
  <1>6. CASE RefreshMint(r)
    BY <1>6, OrderFacts, MintOrder DEF RefreshMint, Answered, OnLoop
  <1>7. ASSUME NEW j \in Minted, NEW cookie \in Nat, Logout(r, j, cookie) PROVE Order'
    <2>1. PICK b : b = [Begin(r, "logout_cookie", tokens[j].sub) EXCEPT
                           !.jti = j, !.cookie = cookie]
      OBVIOUS
    <2>2. "logout_cookie" \in Steps /\ tokens[j].sub \in Users /\ j \in Nat
      BY TokenFacts DEF Steps
    <2>3. Fresh(b, "logout_cookie", tokens[j].sub, j)
      BY <2>1, <2>2, BeginTokenFresh
    <2>4. AddToBlacklist(r, b, j) /\ loop = Idle
      BY <1>7, <2>1 DEF Logout
    <2>5. b \in Request /\ b.pc \notin Marked
      BY <2>3 DEF Fresh, Marked, LoopSteps, LockSteps
    <2>6. UNCHANGED <<clock, ledger, users, rowLock>>
      BY <1>7 DEF Logout, environment
    <2>7. QED
      BY <2>4, <2>5, <2>6, AddOrder
  <1>8. CASE LogoutCookie(r)
    <2>1. PICK b : b = [req[r] EXCEPT !.pc = "logout_done"]
      OBVIOUS
    <2>2. b \in Request /\ b.pc \notin Marked
      BY <2>1, OrderFacts, NextAlike DEF Steps, Marked, LoopSteps, LockSteps
    <2>3. /\ AddToBlacklist(r, b, req[r].cookie) \/ (Finish(r) /\ loop' = Idle)
          /\ loop \in {Idle, r}
      BY <1>8, <2>1 DEF LogoutCookie, Answered, OnLoop
    <2>4. UNCHANGED <<clock, ledger, users, rowLock>>
      BY <1>8 DEF LogoutCookie, environment
    <2>5. QED
      BY <2>2, <2>3, <2>4, AddOrder, FinishOrder
  <1>9. ASSUME NEW u \in Users, GoogleRead(r, u) PROVE Order'
    <2>1. PICK b : b = [Begin(r, "google_mint", u) EXCEPT !.row = users[u]]
      OBVIOUS
    <2>2. "google_mint" \in Steps /\ "google_mint" \notin Marked /\ users[u] \in Row
      BY OrderFacts DEF Steps, Marked, LoopSteps, LockSteps
    <2>3. Fresh(b, "google_mint", u, 0)
      BY <2>1, <2>2, BeginRowFresh
    <2>4. Goes(r, b) /\ loop' = loop /\ UNCHANGED <<clock, ledger, users, rowLock>>
      BY <1>9, <2>1 DEF GoogleRead, environment
    <2>5. b.pc \notin Marked
      BY <2>2, <2>3 DEF Fresh
    <2>6. QED
      BY <2>4, <2>5, QuietOrder
  <1>10. CASE GoogleMint(r)
    BY <1>10, OrderFacts, MintOrder DEF GoogleMint
  <1>11. QED
    <2>1. \A cookie \in Cookies : cookie \in Nat
      BY OrderFacts DEF Cookies, Minted
    <2>2. QED
      BY <1>1, <1>2, <1>3, <1>4, <1>5, <1>6, <1>7, <1>8, <1>9, <1>10, <2>1 DEF AuthStep

\* Steps that write or lock one row, which no other transaction holds.
LEMMA RowOrder ==
    ASSUME Inv, Order, NEW r \in Requests, NEW u \in Users, UNCHANGED <<clock, ledger>>,
           loop' = loop \/ loop \in {Idle, r}, NEW q, Goes(r, q), Orderly(r)',
           rowLock[u] \in {Idle, r},
           \A v \in Users : v # u => users'[v] = users[v] /\ rowLock'[v] = rowLock[v],
           users'[u].password_changed_at \in Int, users'[u].password_changed_at <= clock,
           \/ /\ users'[u].pw = users[u].pw
              /\ users[u].password_changed_at <= users'[u].password_changed_at
           \/ /\ loop \in {Idle, r}
              /\ \A j \in LoginTokens :
                    tokens[j].sub = u => tokens[j].origin.at <= users'[u].password_changed_at
    PROVE  Order'
  <1>1. LoginTokens' = LoginTokens /\ tokens' = tokens
    BY DEF LoginTokens, Minted, ledger
  <1>2. \A s \in Requests : s # r => req'[s] = req[s]
    BY InvFacts DEF Goes
  <1>3. Frame(r)
    BY <1>1, <1>2 DEF Frame
  <1>4. StampsPast'
    BY DEF Order, StampsPast
  <1>5. LoginsMatch'
    <2> SUFFICES ASSUME NEW j \in LoginTokens
                 PROVE  \/ tokens[j].origin.pw = users'[tokens[j].sub].pw
                        \/ tokens[j].origin.at <= users'[tokens[j].sub].password_changed_at
      BY <1>1 DEF LoginsMatch
    <2>1. /\ tokens[j].sub \in Users /\ tokens[j].origin.at \in Nat
          /\ users[tokens[j].sub].password_changed_at \in Int
      BY OrderFacts DEF LoginTokens
    <2>2. \/ tokens[j].origin.pw = users[tokens[j].sub].pw
          \/ tokens[j].origin.at <= users[tokens[j].sub].password_changed_at
      BY DEF Order, LoginsMatch
    <2>3. QED
      BY <2>1, <2>2
  <1>6. QED
    BY <1>3, <1>4, <1>5, StepOrder

\* Steps that lock a row, and write nothing yet.
LEMMA LockOrder ==
    ASSUME Inv, Order, NEW r \in Requests, NEW u \in Users, UNCHANGED <<clock, ledger, users>>,
           loop' = loop \/ loop \in {Idle, r}, NEW q, Goes(r, q), Orderly(r)',
           rowLock[u] \in {Idle, r}, rowLock' = [rowLock EXCEPT ![u] = r]
    PROVE  Order'
  <1>1. \A v \in Users : v # u => users'[v] = users[v] /\ rowLock'[v] = rowLock[v]
    BY OrderFacts
  <1>2. /\ users'[u].password_changed_at \in Int /\ users'[u].password_changed_at <= clock
        /\ users[u].password_changed_at <= users'[u].password_changed_at
        /\ users'[u].pw = users[u].pw
    BY OrderFacts DEF Order, StampsPast
  <1>3. QED
    BY <1>1, <1>2, RowOrder

\* The idle request relies on nothing.
LEMMA FinishOrderly ==
    ASSUME Inv, NEW r \in Requests, Finish(r)
    PROVE  Orderly(r)'
  <1>1. req'[r].pc = "idle"
    BY InvFacts, ConstantTypes DEF Finish, Goes
  <1>2. QED
    BY <1>1, UnmarkedOrderly DEF Marked, LoopSteps, LockSteps

LEMMA AuthenticateOrder ==
    ASSUME Inv, Order, NEW r \in Requests, NEW j \in Minted, NEW cookie \in Nat,
           NEW pc \in Steps \ Marked, Authenticate(r, j, cookie, pc)
    PROVE  Order'
  <1>1. PICK b : b = [Begin(r, pc, tokens[j].sub) EXCEPT !.jti = j, !.cookie = cookie]
    OBVIOUS
  <1>2. tokens[j].sub \in Users /\ j \in Nat
    BY TokenFacts
  <1>3. Fresh(b, pc, tokens[j].sub, j)
    BY <1>1, <1>2, BeginTokenFresh
  <1>4. AskBlacklist(r, b, j) /\ loop = Idle
    BY <1>1 DEF Authenticate
  <1>5. b \in Request /\ b.pc \notin Marked
    BY <1>3 DEF Fresh
  <1>6. UNCHANGED <<clock, ledger, users, rowLock>>
    BY DEF Authenticate, environment
  <1>7. QED
    BY <1>4, <1>5, <1>6, AskOrder

\* A request that stamps the clock on its way to a commit.
Stamped(q, pc, u) == q.pc = pc /\ q.user = u /\ q.stamp = clock

LEMMA StampFields ==
    ASSUME Inv, NEW r \in Requests, NEW pc \in Steps
    PROVE  Stamped([req[r] EXCEPT !.pc = pc, !.stamp = clock], pc, req[r].user)
  BY OrderFacts DEF Request, Stamped

LEMMA AccountStepOrder ==
    ASSUME Inv, Order, NEW r \in Requests, AccountStep(r)
    PROVE  Order'
  <1>0. req[r] \in Request /\ req[r].user \in Users /\ Orderly(r)
    BY OrderFacts DEF Order
  <1>1. ASSUME NEW j \in Minted, NEW cookie \in Nat,
               Authenticate(r, j, cookie, "change_auth")
                  \/ Authenticate(r, j, cookie, "delete_auth")
        PROVE  Order'
    <2>1. {"change_auth", "delete_auth"} \subseteq Steps \ Marked
      BY DEF Steps, Marked, LoopSteps, LockSteps
    <2>2. QED
      BY <1>1, <2>1, AuthenticateOrder
  <1>2. CASE AuthRefused(r)
    BY <1>2, FinishOrder DEF AuthRefused, environment, Answered, OnLoop
  <1>3. CASE ChangeStart(r)
    <2>1. PICK b : b = [req[r] EXCEPT !.pc = "change_stamp"]
      OBVIOUS
    <2>2. b.pc = "change_stamp"
      BY <1>0, <2>1, NextAlike DEF Steps
    <2>3. Goes(r, b) /\ loop' = r /\ loop \in {Idle, r}
      BY <1>3, <2>1 DEF ChangeStart, Answered, OnLoop
    <2>4. req'[r] = b
      BY <2>3, InvFacts DEF Goes
    <2>5. Orderly(r)'
      BY <2>2, <2>3, <2>4 DEF Orderly, LoopSteps, LockSteps, PasswordCommits, CommitSteps
    <2>6. UNCHANGED <<clock, ledger, users, rowLock>>
      BY <1>3 DEF ChangeStart, environment
    <2>7. QED
      BY <2>3, <2>5, <2>6, LocalOrder
  <1>4. CASE ChangeStamp(r)
    <2>1. PICK b : b = [req[r] EXCEPT !.pc = "change_commit", !.stamp = clock]
      OBVIOUS
    <2>0. "change_commit" \in Steps
      BY DEF Steps
    <2>2. Stamped(b, "change_commit", req[r].user)
      BY <2>0, <2>1, StampFields
    <2>3. Goes(r, b) /\ loop' = loop /\ loop = r
      BY <1>0, <1>4, <2>1 DEF ChangeStamp, Answered, Orderly, LoopSteps
    <2>4. req'[r] = b
      BY <2>3, InvFacts DEF Goes
    <2>5. UNCHANGED <<clock, ledger, users, rowLock>>
      BY <1>4 DEF ChangeStamp, environment
    <2>6. LoginTokens' = LoginTokens /\ tokens' = tokens
      BY <2>5 DEF LoginTokens, Minted, ledger
    <2>7. \A j \in LoginTokens : tokens[j].origin.at <= clock
      BY OrderFacts DEF LoginTokens
    <2>8. clock' = clock /\ clock <= clock
      BY <2>5, OrderFacts
    <2>9. Orderly(r)'
      BY <2>2, <2>3, <2>4, <2>6, <2>7, <2>8
         DEF Stamped, Orderly, LoopSteps, LockSteps, PasswordCommits, CommitSteps
    <2>10. QED
      BY <2>3, <2>5, <2>9, LocalOrder
  <1>5. CASE ChangeCommit(r)
    <2> DEFINE u == req[r].user
    <2>1. /\ req[r].stamp \in Int /\ req[r].stamp <= clock
          /\ \A j \in LoginTokens : tokens[j].origin.at <= req[r].stamp
      BY <1>0, <1>5, OrderFacts DEF ChangeCommit, Orderly, PasswordCommits, CommitSteps
    <2>2. users'[u].password_changed_at = req[r].stamp
      BY <1>0, <1>5, OrderFacts DEF ChangeCommit, Row
    <2>3. \A v \in Users : v # u => users'[v] = users[v] /\ rowLock'[v] = rowLock[v]
      BY <1>0, <1>5, OrderFacts DEF ChangeCommit
    <2>4. /\ Finish(r) /\ loop \in {Idle, r} /\ rowLock[u] \in {Idle, r}
          /\ UNCHANGED <<clock, ledger>>
      BY <1>5 DEF ChangeCommit, OnLoop, RowFree, environment
    <2>5. Orderly(r)'
      BY <2>4, FinishOrderly
    <2>6. u \in Users /\ Goes(r, NoRequest)
      BY <1>0, <2>4 DEF Finish
    <2> HIDE DEF u
    <2>7. QED
      BY <2>1, <2>2, <2>3, <2>4, <2>5, <2>6, RowOrder
  <1>6. CASE DeleteStart(r)
    <2>1. PICK b : b = [req[r] EXCEPT !.pc = "delete_lock"]
      OBVIOUS
    <2>2. b.pc \notin Marked
      BY <1>0, <2>1, NextAlike DEF Steps, Marked, LoopSteps, LockSteps
    <2>3. Goes(r, b) /\ loop \in {Idle, r}
      BY <1>6, <2>1 DEF DeleteStart, Answered, OnLoop
    <2>4. UNCHANGED <<clock, ledger, users, rowLock>>
      BY <1>6 DEF DeleteStart, environment
    <2>5. loop' = loop \/ loop \in {Idle, r}
      BY <2>3
    <2>6. QED
      BY <2>2, <2>3, <2>4, <2>5, QuietOrder
  <1>7. CASE DeleteLock(r)
    <2>1. PICK b : b = [req[r] EXCEPT !.pc = "delete_cookie"]
      OBVIOUS
    <2>2. b \in Request /\ b.pc = "delete_cookie" /\ b.user = req[r].user
      BY <1>0, <2>1, NextAlike DEF Steps
    <2>3. AddToBlacklist(r, b, req[r].jti) \/ Skip(r, b)
      BY <1>7, <2>1 DEF DeleteLock
    <2>4. PICK p : Alike(p, b) /\ Goes(r, p)
      BY <2>2, <2>3, AddAlike, SkipAlike DEF Skip
    <2>5. /\ loop \in {Idle, r} /\ UNCHANGED <<clock, ledger, users>>
          /\ rowLock[req[r].user] \in {Idle, r}
          /\ rowLock' = [rowLock EXCEPT ![req[r].user] = r]
      BY <1>7 DEF DeleteLock, OnLoop, RowFree, environment
    <2>6. req'[r] = p /\ rowLock'[req[r].user] = r
      BY <1>0, <2>4, <2>5, InvFacts, OrderFacts DEF Goes
    <2>7. Orderly(r)'
      BY <2>2, <2>4, <2>6 DEF Alike, Orderly, LoopSteps, LockSteps, PasswordCommits, CommitSteps
    <2>8. loop' = loop \/ loop \in {Idle, r}
      BY <2>5
    <2>9. QED
      BY <1>0, <2>4, <2>5, <2>7, <2>8, LockOrder
  <1>8. CASE DeleteCookie(r)
    <2>1. PICK b : b = [req[r] EXCEPT !.pc = "delete_commit"]
      OBVIOUS
    <2>2. b \in Request /\ b.pc = "delete_commit" /\ b.user = req[r].user
      BY <1>0, <2>1, NextAlike DEF Steps
    <2>3. AddToBlacklist(r, b, req[r].cookie) \/ Skip(r, b)
      BY <1>8, <2>1 DEF DeleteCookie
    <2>4. PICK p : Alike(p, b) /\ Goes(r, p)
      BY <2>2, <2>3, AddAlike, SkipAlike DEF Skip
    <2>5. loop \in {Idle, r} /\ UNCHANGED <<clock, ledger, users, rowLock>>
      BY <1>8 DEF DeleteCookie, Answered, OnLoop, environment
    <2>6. req'[r] = p /\ rowLock[req[r].user] = r
      BY <1>0, <1>8, <2>4, InvFacts DEF Goes, Orderly, DeleteCookie, Answered, LockSteps
    <2>7. Orderly(r)'
      BY <2>2, <2>4, <2>5, <2>6 DEF Alike, Orderly, LoopSteps, LockSteps, PasswordCommits, CommitSteps
    <2>8. loop' = loop \/ loop \in {Idle, r}
      BY <2>5
    <2>9. QED
      BY <2>4, <2>5, <2>7, <2>8, LocalOrder
  <1>9. CASE DeleteCommit(r)
    <2> DEFINE u == req[r].user
    <2>1. /\ users'[u].password_changed_at = users[u].password_changed_at
          /\ users'[u].pw = users[u].pw
          /\ users[u].password_changed_at \in Int /\ users[u].password_changed_at <= clock
      BY <1>0, <1>9, OrderFacts DEF DeleteCommit, Row, Order, StampsPast
    <2>2. \A v \in Users : v # u => users'[v] = users[v] /\ rowLock'[v] = rowLock[v]
      BY <1>0, <1>9, OrderFacts DEF DeleteCommit
    <2>3. /\ Finish(r) /\ loop \in {Idle, r} /\ UNCHANGED <<clock, ledger>>
          /\ rowLock[u] = r
      BY <1>0, <1>9 DEF DeleteCommit, Answered, OnLoop, environment, Orderly, LockSteps
    <2>4. Orderly(r)'
      BY <2>3, FinishOrderly
    <2>5. u \in Users /\ Goes(r, NoRequest)
      BY <1>0, <2>3 DEF Finish
    <2> HIDE DEF u
    <2>6. users[u].password_changed_at <= users'[u].password_changed_at
      BY <2>1
    <2>7. QED
      BY <2>1, <2>2, <2>3, <2>4, <2>5, <2>6, RowOrder
  <1>10. QED
    <2>1. 0 \in Nat /\ \A cookie \in Cookies : cookie \in Nat
      BY OrderFacts DEF Cookies, Minted
    <2>2. QED
      BY <1>1, <1>2, <1>3, <1>4, <1>5, <1>6, <1>7, <1>8, <1>9, <2>1 DEF AccountStep

LEMMA BeginRoleFresh ==
    ASSUME Inv, NEW r \in Requests, NEW pc \in Steps, NEW u \in Users, NEW new \in Roles
    PROVE  Fresh([Begin(r, pc, u) EXCEPT !.role = new], pc, u, 0)
  <1>1. PICK n : n = Begin(r, pc, u)
    OBVIOUS
  <1>2. Fresh(n, pc, u, 0)
    BY <1>1, BeginFresh
  <1>3. Fresh([n EXCEPT !.role = new], pc, u, 0)
    BY <1>2 DEF Fresh, Request
  <1>4. QED
    BY <1>1, <1>3

LEMMA BeginStampFresh ==
    ASSUME Inv, NEW r \in Requests, NEW pc \in Steps, NEW u \in Users
    PROVE  /\ Fresh([Begin(r, pc, u) EXCEPT !.stamp = clock], pc, u, 0)
           /\ [Begin(r, pc, u) EXCEPT !.stamp = clock].stamp = clock
  <1>1. PICK n : n = Begin(r, pc, u)
    OBVIOUS
  <1>2. Fresh(n, pc, u, 0) /\ clock \in Stamp
    BY <1>1, BeginFresh, InvFacts
  <1>3. Fresh([n EXCEPT !.stamp = clock], pc, u, 0) /\ [n EXCEPT !.stamp = clock].stamp = clock
    BY <1>2 DEF Fresh, Request
  <1>4. QED
    BY <1>1, <1>3

\* What an admin's transaction writes besides the password leaves the order.
LEMMA WriteOrder ==
    ASSUME Inv, Order, NEW r \in Requests, NEW u \in Users, UNCHANGED <<clock, ledger>>,
           loop' = loop \/ loop \in {Idle, r}, NEW q, Goes(r, q), Orderly(r)',
           rowLock[u] \in {Idle, r},
           \A v \in Users : v # u => users'[v] = users[v] /\ rowLock'[v] = rowLock[v],
           users'[u].pw = users[u].pw,
           \/ users'[u].password_changed_at = users[u].password_changed_at
           \/ /\ users'[u].password_changed_at \in Int
              /\ users'[u].password_changed_at <= clock
              /\ users[u].password_changed_at <= users'[u].password_changed_at
    PROVE  Order'
  <1>1. users[u].password_changed_at \in Int /\ users[u].password_changed_at <= clock
    BY OrderFacts DEF Order, StampsPast
  <1>2. /\ users'[u].password_changed_at \in Int
        /\ users'[u].password_changed_at <= clock
        /\ users[u].password_changed_at <= users'[u].password_changed_at
    BY <1>1
  <1>3. QED
    BY <1>2, RowOrder

LEMMA AdminStepOrder ==
    ASSUME Inv, Order, NEW r \in Requests, AdminStep(r)
    PROVE  Order'
  <1>0. req[r] \in Request /\ req[r].user \in Users /\ Orderly(r)
    BY OrderFacts DEF Order
  <1>1. ASSUME NEW u \in Users, NEW new \in Roles, RoleRead(r, u, new) PROVE Order'
    <2>1. PICK b : b = [Begin(r, "role_stamp", u) EXCEPT !.role = new]
      OBVIOUS
    <2>2. "role_stamp" \in Steps /\ "role_stamp" \notin Marked
      BY DEF Steps, Marked, LoopSteps, LockSteps
    <2>3. Fresh(b, "role_stamp", u, 0)
      BY <2>1, <2>2, BeginRoleFresh
    <2>4. Goes(r, b) /\ loop' = loop /\ UNCHANGED <<clock, ledger, users, rowLock>>
      BY <1>1, <2>1 DEF RoleRead, environment
    <2>5. b.pc \notin Marked
      BY <2>2, <2>3 DEF Fresh
    <2>6. QED
      BY <2>4, <2>5, QuietOrder
  <1>2. CASE RoleStamp(r)
    <2>1. PICK b : b = [req[r] EXCEPT !.pc = "role_commit", !.stamp = clock]
      OBVIOUS
    <2>2. "role_commit" \in Steps /\ "role_commit" \notin Marked
      BY DEF Steps, Marked, LoopSteps, LockSteps
    <2>3. Stamped(b, "role_commit", req[r].user)
      BY <2>1, <2>2, StampFields
    <2>4. Goes(r, b) /\ loop' = loop /\ UNCHANGED <<clock, ledger, users, rowLock>>
      BY <1>2, <2>1 DEF RoleStamp, environment
    <2>5. b.pc \notin Marked
      BY <2>2, <2>3 DEF Stamped
    <2>6. QED
      BY <2>4, <2>5, QuietOrder
  <1>3. CASE RoleCommit(r)
    <2> DEFINE u == req[r].user
    <2>1. /\ users'[u].password_changed_at = users[u].password_changed_at
          /\ users'[u].pw = users[u].pw
      BY <1>0, <1>3, OrderFacts DEF RoleCommit, Row
    <2>2. \A v \in Users : v # u => users'[v] = users[v] /\ rowLock'[v] = rowLock[v]
      BY <1>0, <1>3, OrderFacts DEF RoleCommit
    <2>3. /\ Finish(r) /\ loop' = loop /\ UNCHANGED <<clock, ledger>>
          /\ rowLock[u] \in {Idle, r}
      BY <1>3 DEF RoleCommit, RowFree, environment
    <2>4. Orderly(r)'
      BY <2>3, FinishOrderly
    <2>5. u \in Users /\ Goes(r, NoRequest)
      BY <1>0, <2>3 DEF Finish
    <2> HIDE DEF u
    <2>6. QED
      BY <2>1, <2>2, <2>3, <2>4, <2>5, WriteOrder
  <1>4. ASSUME NEW u \in Users, DisableLock(r, u) PROVE Order'
    <2>1. PICK b : b = [Begin(r, "disable_commit", u) EXCEPT !.stamp = clock]
      OBVIOUS
    <2>2. "disable_commit" \in Steps
      BY DEF Steps
    <2>3. Fresh(b, "disable_commit", u, 0) /\ b.stamp = clock
      BY <2>1, <2>2, BeginStampFresh
    <2>4. /\ Goes(r, b) /\ loop' = loop /\ UNCHANGED <<clock, ledger, users>>
          /\ rowLock[u] \in {Idle, r} /\ rowLock' = [rowLock EXCEPT ![u] = r]
      BY <1>4, <2>1 DEF DisableLock, RowFree, environment
    <2>5. /\ req'[r] = b /\ rowLock'[u] = r /\ clock' <= clock
          /\ users[u].password_changed_at <= clock
      BY <2>4, InvFacts, OrderFacts DEF Goes, Order, StampsPast
    <2>6. Orderly(r)'
      BY <2>3, <2>4, <2>5 DEF Fresh, Orderly, LoopSteps, LockSteps, PasswordCommits, CommitSteps
    <2>7. QED
      BY <2>4, <2>6, LockOrder
  <1>5. CASE DisableCommit(r)
    <2> DEFINE u == req[r].user
    <2>1. /\ req[r].stamp \in Int /\ req[r].stamp <= clock /\ rowLock[u] = r
          /\ users[u].password_changed_at <= req[r].stamp
      BY <1>0, <1>5, OrderFacts DEF DisableCommit, Orderly, PasswordCommits, CommitSteps, LockSteps
    <2>2. /\ users'[u].password_changed_at = req[r].stamp
          /\ users'[u].pw = users[u].pw
      BY <1>0, <1>5, OrderFacts DEF DisableCommit, Row
    <2>3. \A v \in Users : v # u => users'[v] = users[v] /\ rowLock'[v] = rowLock[v]
      BY <1>0, <1>5, OrderFacts DEF DisableCommit
    <2>4. Finish(r) /\ loop' = loop /\ UNCHANGED <<clock, ledger>>
      BY <1>5 DEF DisableCommit, environment
    <2>5. Orderly(r)'
      BY <2>4, FinishOrderly
    <2>6. u \in Users /\ Goes(r, NoRequest)
      BY <1>0, <2>4 DEF Finish
    <2> HIDE DEF u
    <2>7. QED
      BY <2>1, <2>2, <2>3, <2>4, <2>5, <2>6, WriteOrder
  <1>6. ASSUME NEW u \in Users, Enable(r, u) PROVE Order'
    <2>1. /\ users'[u].password_changed_at = users[u].password_changed_at
          /\ users'[u].pw = users[u].pw
      BY <1>6, OrderFacts DEF Enable, Row
    <2>2. \A v \in Users : v # u => users'[v] = users[v] /\ rowLock'[v] = rowLock[v]
      BY <1>6, OrderFacts DEF Enable
    <2>3. /\ req' = req /\ req[r].pc = "idle" /\ loop' = loop
          /\ UNCHANGED <<clock, ledger>> /\ rowLock[u] \in {Idle, r}
      BY <1>6 DEF Enable, RowFree, environment
    <2>4. Goes(r, req[r])
      BY <2>3, InvFacts DEF Goes
    <2>5. Orderly(r)'
      BY <2>3, UnmarkedOrderly DEF Marked, LoopSteps, LockSteps
    <2>6. QED
      BY <2>1, <2>2, <2>3, <2>4, <2>5, WriteOrder
  <1>7. ASSUME NEW u \in Users, ForceStart(r, u) PROVE Order'
    <2>1. "force_lock" \in Steps /\ "force_lock" \notin Marked
      BY DEF Steps, Marked, LoopSteps, LockSteps
    <2>2. Begin(r, "force_lock", u).pc \notin Marked
      BY <2>1, BeginFresh DEF Fresh
    <2>3. /\ Goes(r, Begin(r, "force_lock", u)) /\ loop = Idle
          /\ UNCHANGED <<clock, ledger, users, rowLock>>
      BY <1>7 DEF ForceStart, environment
    <2>4. loop' = loop \/ loop \in {Idle, r}
      BY <2>3
    <2>5. QED
      BY <2>2, <2>3, <2>4, QuietOrder
  <1>8. CASE ForceLock(r)
    <2>1. PICK b : b = [req[r] EXCEPT !.pc = "force_stamp"]
      OBVIOUS
    <2>2. b \in Request /\ b.pc = "force_stamp" /\ b.user = req[r].user
      BY <1>0, <2>1, NextAlike DEF Steps
    <2>3. Goes(r, Calls(b, "other", 0, 0)) \/ Skip(r, b)
      BY <1>8, <2>1 DEF ForceLock
    <2>4. PICK p : Alike(p, b) /\ Goes(r, p)
      BY <2>2, <2>3, CallsAlike, SkipAlike DEF Skip
    <2>5. /\ loop \in {Idle, r} /\ UNCHANGED <<clock, ledger, users>>
          /\ rowLock[req[r].user] \in {Idle, r}
          /\ rowLock' = [rowLock EXCEPT ![req[r].user] = r]
      BY <1>8 DEF ForceLock, OnLoop, RowFree, environment
    <2>6. req'[r] = p /\ rowLock'[req[r].user] = r
      BY <1>0, <2>4, <2>5, InvFacts, OrderFacts DEF Goes
    <2>7. Orderly(r)'
      BY <2>2, <2>4, <2>6 DEF Alike, Orderly, LoopSteps, LockSteps, PasswordCommits, CommitSteps
    <2>8. loop' = loop \/ loop \in {Idle, r}
      BY <2>5
    <2>9. QED
      BY <1>0, <2>4, <2>5, <2>7, <2>8, LockOrder
  <1>9. CASE ForceStamp(r)
    <2>1. PICK b : b = [req[r] EXCEPT !.pc = "force_commit", !.stamp = clock]
      OBVIOUS
    <2>2. "force_commit" \in Steps
      BY DEF Steps
    <2>3. Stamped(b, "force_commit", req[r].user)
      BY <2>1, <2>2, StampFields
    <2>4. /\ Goes(r, b) /\ loop' = r /\ loop \in {Idle, r}
          /\ UNCHANGED <<clock, ledger, users, rowLock>>
      BY <1>9, <2>1 DEF ForceStamp, Answered, OnLoop, environment
    <2>5. rowLock[req[r].user] = r
      BY <1>0, <1>9 DEF ForceStamp, Answered, Orderly, LockSteps
    <2>6. clock <= clock /\ users[req[r].user].password_changed_at <= clock
      BY <1>0, OrderFacts DEF Order, StampsPast
    <2>7. req'[r] = b
      BY <2>4, InvFacts DEF Goes
    <2>8. Orderly(r)'
      BY <2>3, <2>4, <2>5, <2>6, <2>7 DEF Stamped, Orderly, LoopSteps, LockSteps, PasswordCommits, CommitSteps
    <2>9. loop' = loop \/ loop \in {Idle, r}
      BY <2>4
    <2>10. QED
      BY <2>4, <2>8, <2>9, LocalOrder
  <1>10. CASE ForceCommit(r)
    <2> DEFINE u == req[r].user
    <2>1. /\ req[r].stamp \in Int /\ req[r].stamp <= clock /\ rowLock[u] = r
          /\ users[u].password_changed_at <= req[r].stamp /\ loop = r
      BY <1>0, <1>10, OrderFacts DEF ForceCommit, Orderly, PasswordCommits, CommitSteps, LockSteps, LoopSteps
    <2>2. /\ users'[u].password_changed_at = req[r].stamp
          /\ users'[u].pw = users[u].pw
      BY <1>0, <1>10, OrderFacts DEF ForceCommit, Row
    <2>3. \A v \in Users : v # u => users'[v] = users[v] /\ rowLock'[v] = rowLock[v]
      BY <1>0, <1>10, OrderFacts DEF ForceCommit
    <2>4. Finish(r) /\ UNCHANGED <<clock, ledger>>
      BY <1>10 DEF ForceCommit, environment
    <2>5. Orderly(r)'
      BY <2>4, FinishOrderly
    <2>6. u \in Users /\ Goes(r, NoRequest)
      BY <1>0, <2>4 DEF Finish
    <2> HIDE DEF u
    <2>7. QED
      BY <2>1, <2>2, <2>3, <2>4, <2>5, <2>6, WriteOrder
  <1>11. QED
    BY <1>1, <1>2, <1>3, <1>4, <1>5, <1>6, <1>7, <1>8, <1>9, <1>10 DEF AdminStep

\* What a step of Redis leaves of the request that waits for it.
LEMMA RedisAlike ==
    ASSUME Inv, NEW r \in Requests, RedisStep(r)
    PROVE  \E p : Alike(p, req[r]) /\ Goes(r, p)
  <1>0. req[r] \in Request
    BY InvFacts
  <1>1. \A answer : Alike([req[r] EXCEPT !.call = "answered", !.target = 0,
                                         !.answer = answer], req[r])
    BY <1>0 DEF Alike, Request
  <1>2. Alike([req[r] EXCEPT !.call = "answered", !.target = 0, !.ttl = 0], req[r])
    BY <1>0 DEF Alike, Request
  <1>3. Alike([req[r] EXCEPT !.call = "answered"], req[r])
    BY <1>0, SkipAlike
  <1>4. CASE RedisExists(r)
    BY <1>1, <1>4 DEF RedisExists
  <1>5. CASE RedisSetex(r)
    BY <1>2, <1>5 DEF RedisSetex
  <1>6. CASE RedisOther(r)
    BY <1>3, <1>6 DEF RedisOther
  <1>7. QED
    BY <1>4, <1>5, <1>6 DEF RedisStep

LEMMA RedisStepOrder ==
    ASSUME Inv, Order, NEW r \in Requests, RedisStep(r)
    PROVE  Order'
  <1>1. PICK p : Alike(p, req[r]) /\ Goes(r, p)
    BY RedisAlike
  <1>2. UNCHANGED <<clock, ledger, users, rowLock, loop>>
    BY DEF RedisStep, RedisExists, RedisSetex, RedisOther, environment
  <1>3. req'[r] = p
    BY <1>1, InvFacts DEF Goes
  <1>4. LoginTokens' = LoginTokens /\ tokens' = tokens
    BY <1>2 DEF LoginTokens, Minted, ledger
  <1>5. Orderly(r)'
    BY <1>1, <1>2, <1>3, <1>4 DEF Alike, Order, Orderly
  <1>6. QED
    BY <1>1, <1>2, <1>5, LocalOrder

LEMMA EnvironmentOrder ==
    ASSUME Inv, Order, Environment
    PROVE  Order'
  <1>1. UNCHANGED <<users, ledger>> /\ LoginTokens' = LoginTokens /\ tokens' = tokens
    BY DEF Environment, Tick, RedisFails, RedisRecovers, Restart, ledger, LoginTokens, Minted
  <1>2. LoginsMatch'
    BY <1>1 DEF Order, LoginsMatch
  <1>3. clock \in Nat /\ (clock' = clock \/ clock' = clock + 1)
    BY DEF Environment, Tick, RedisFails, RedisRecovers, Restart, Inv, TypeOK
  <1>4. StampsPast'
    <2>1. users \in [Users -> Row]
      BY DEF Inv, TypeOK
    <2>2. \A u \in Users : users[u].password_changed_at \in Int
      BY <2>1 DEF Row, Stamp, Never
    <2>3. QED
      BY <1>1, <1>3, <2>2 DEF Order, StampsPast
  <1>5. ASSUME NEW r \in Requests PROVE Orderly(r)'
    <2>1. CASE Restart
      <3>1. req'[r].pc = "idle"
        BY <2>1, ConstantTypes DEF Restart
      <3>2. QED
        BY <3>1, UnmarkedOrderly DEF Marked, LoopSteps, LockSteps
    <2>2. CASE ~Restart
      <3>1. UNCHANGED <<loop, rowLock, req>>
        BY <2>2 DEF Environment, Tick, RedisFails, RedisRecovers
      <3>2. Orderly(r) /\ req[r].stamp \in Int
        BY OrderFacts DEF Order
      <3>3. req[r].stamp <= clock => req[r].stamp <= clock'
        BY <1>3, <3>2
      <3>4. QED
        BY <1>1, <3>1, <3>2, <3>3 DEF Orderly
    <2>3. QED
      BY <2>1, <2>2
  <1>6. QED
    BY <1>2, <1>4, <1>5 DEF Order

-----------------------------------------------------------------------------
(* The theorem.                                                            *)

LEMMA InitOrder == Init => Order
  <1> SUFFICES ASSUME Init PROVE Order
    OBVIOUS
  <1>1. LoginTokens = {}
    BY DEF Init, LoginTokens, Minted
  <1>2. \A r \in Requests : Orderly(r)
    BY ConstantTypes DEF Init, Orderly, LoopSteps, LockSteps, PasswordCommits, CommitSteps
  <1>3. StampsPast
    BY DEF Init, StampsPast, NewRow, Never
  <1>4. QED
    BY <1>1, <1>2, <1>3 DEF Order, LoginsMatch

LEMMA NextOrder == Inv /\ Order /\ [Next]_vars => Order'
  <1> SUFFICES ASSUME Inv, Order, [Next]_vars
               PROVE  Order'
    OBVIOUS
  <1>1. CASE Environment
    BY <1>1, EnvironmentOrder
  <1>2. ASSUME NEW r \in Requests,
               AuthStep(r) \/ AccountStep(r) \/ AdminStep(r) \/ RedisStep(r)
        PROVE  Order'
    BY <1>2, AuthStepOrder, AccountStepOrder, AdminStepOrder, RedisStepOrder
  <1>3. CASE UNCHANGED vars
    BY <1>3 DEF vars, Order, Orderly, StampsPast, LoginsMatch, LoginTokens, Minted
  <1>4. QED
    BY <1>1, <1>2, <1>3 DEF Next

\* What a request relies on between two of its steps holds until it takes the
\* next: the loop and the row it holds, the password and the stamps it read.
THEOREM OrderKept == Spec => [](Inv /\ Order)
  <1>1. Init => Inv /\ Order
    BY InitInv, InitOrder
  <1>2. Inv /\ Order /\ [Next]_vars => (Inv /\ Order)'
    BY NextInv, NextOrder
  <1>3. QED
    BY <1>1, <1>2, PTL DEF Spec

\* Nobody gets in on an old password: a token that a login made, unless at the
\* very instant of the change, is of use only under the account's password.
THEOREM LoginsMatchPassword == Spec => []LoginMatchesPassword
  <1>1. Inv /\ Order => LoginMatchesPassword
    <2> SUFFICES ASSUME Inv, Order, NEW j \in Minted, Usable(j),
                        tokens[j].origin.via = "login",
                        tokens[j].origin.at # users[tokens[j].sub].password_changed_at
                 PROVE  tokens[j].origin.pw = users[tokens[j].sub].pw
      BY DEF LoginMatchesPassword
    <2> DEFINE row == users[tokens[j].sub]
               at  == tokens[j].origin.at
    <2>1. at \in Nat /\ tokens[j].iat = NumericDate(at) /\ row \in Row
      BY TokenFacts
    <2>2. tokens[j].iat <= at /\ tokens[j].iat \in Nat
      BY <2>1, NumericDateBounds
    <2>3. ~(tokens[j].iat < row.password_changed_at)
      BY DEF Usable, Accepted, Refreshable, Stale, IssuedBefore
    <2>4. row.password_changed_at \in Int
      BY <2>1 DEF Row, Stamp, Never
    <2>5. ~(at <= row.password_changed_at)
      BY <2>1, <2>2, <2>3, <2>4
    <2>6. j \in LoginTokens
      BY DEF LoginTokens
    <2>7. QED
      BY <2>5, <2>6 DEF Order, LoginsMatch
  <1>2. QED
    BY <1>1, OrderKept, PTL

-----------------------------------------------------------------------------
(* Rows only move forward, but for a change_password whose stamp, taken    *)
(* before it had the row, was overtaken.                                   *)

\* No row comes back, no stamp is taken back.
Forward == \A u \in Users :
    /\ users'[u].exists => users[u].exists
    /\ users[u].password_changed_at <= users'[u].password_changed_at

LEMMA UnchangedForward ==
    ASSUME Inv, users' = users
    PROVE  Forward
  <1>1. users \in [Users -> Row]
    BY DEF Inv, TypeOK
  <1>2. QED
    BY <1>1 DEF Forward, Row, Stamp, Never

LEMMA WriteForward ==
    ASSUME Inv, NEW u \in Users, \A v \in Users : v # u => users'[v] = users[v],
           users'[u].exists => users[u].exists,
           users[u].password_changed_at <= users'[u].password_changed_at
    PROVE  Forward
  <1>1. users \in [Users -> Row]
    BY DEF Inv, TypeOK
  <1>2. QED
    BY <1>1 DEF Forward, Row, Stamp, Never

\* A password change that nobody overtook moves its row forward, too; one that
\* was overtaken writes no other row.
LEMMA ChangeForward ==
    ASSUME Inv, NEW r \in Requests, ChangeCommit(r)
    PROVE  \/ Forward
           \/ /\ Overtaken(r) /\ req'[r].pc = "idle"
              /\ \A v \in Users : v # req[r].user => users'[v] = users[v]
  <1> DEFINE u == req[r].user
  <1>1. /\ u \in Users /\ users \in [Users -> Row] /\ req \in [Requests -> Request]
        /\ req[r].stamp \in Int /\ users[u].password_changed_at \in Int
    BY OrderFacts DEF Inv, TypeOK
  <1>2. /\ users'[u].exists = users[u].exists
        /\ users'[u].password_changed_at = req[r].stamp
        /\ \A v \in Users : v # u => users'[v] = users[v]
    BY <1>1 DEF ChangeCommit, Row
  <1>3. req'[r].pc = "idle"
    BY <1>1, ConstantTypes DEF ChangeCommit, Finish, Goes
  <1>4. CASE users[u].password_changed_at <= req[r].stamp
    BY <1>1, <1>2, <1>4, WriteForward
  <1>5. CASE req[r].stamp < users[u].password_changed_at
    BY <1>2, <1>3, <1>5 DEF Overtaken, ChangeCommit
  <1>6. QED
    BY <1>1, <1>4, <1>5

LEMMA NextForward ==
    ASSUME Inv, Order, [Next]_vars
    PROVE  \/ Forward
           \/ \E r \in Requests :
                 /\ Overtaken(r) /\ req'[r].pc = "idle"
                 /\ \A v \in Users : v # req[r].user => users'[v] = users[v]
  <1>1. CASE Environment \/ UNCHANGED vars
    BY <1>1, UnchangedForward DEF Environment, Tick, RedisFails, RedisRecovers, Restart, vars
  <1>2. ASSUME NEW r \in Requests, AuthStep(r) \/ RedisStep(r) PROVE Forward
    <2>1. users' = users
      BY <1>2 DEF AuthStep, LoginRead, LoginMint, RefreshRead, RefreshCheck,
         RefreshRefused, RefreshMint, Logout, LogoutCookie, LogoutDone, GoogleRead,
         GoogleMint, RedisStep, RedisExists, RedisSetex, RedisOther
    <2>2. QED
      BY <2>1, UnchangedForward
  <1>3. ASSUME NEW r \in Requests, AccountStep(r), ~ChangeCommit(r) PROVE Forward
    <2>1. DeleteCommit(r) \/ users' = users
      BY <1>3 DEF AccountStep, Authenticate, AuthRefused, ChangeStart, ChangeStamp,
         DeleteStart, DeleteLock, DeleteCookie
    <2>2. ASSUME DeleteCommit(r) PROVE Forward
      <3> DEFINE u == req[r].user
      <3>1. /\ u \in Users /\ users'[u].exists = FALSE
            /\ users'[u].password_changed_at = users[u].password_changed_at
            /\ \A v \in Users : v # u => users'[v] = users[v]
        BY <2>2, OrderFacts DEF DeleteCommit, Row
      <3>2. users[u].password_changed_at <= users'[u].password_changed_at
        BY <3>1, OrderFacts
      <3>3. QED
        BY <3>1, <3>2, WriteForward
    <2>3. QED
      BY <2>1, <2>2, UnchangedForward
  <1>4. ASSUME NEW r \in Requests, AdminStep(r) PROVE Forward
    <2> DEFINE u == req[r].user
    <2>0. /\ u \in Users /\ Orderly(r) /\ users \in [Users -> Row]
          /\ \A v \in Users : users[v].password_changed_at <= users[v].password_changed_at
      BY OrderFacts DEF Order
    <2>1. CASE RoleCommit(r)
      <3>1. /\ users'[u].exists = users[u].exists
            /\ users'[u].password_changed_at = users[u].password_changed_at
            /\ \A v \in Users : v # u => users'[v] = users[v]
        BY <2>0, <2>1 DEF RoleCommit, Row
      <3>2. QED
        BY <2>0, <3>1, WriteForward
    <2>2. CASE DisableCommit(r) \/ ForceCommit(r)
      <3>1. /\ users'[u].exists = users[u].exists
            /\ users'[u].password_changed_at = req[r].stamp
            /\ \A v \in Users : v # u => users'[v] = users[v]
        BY <2>0, <2>2 DEF DisableCommit, ForceCommit, Row
      <3>2. users[u].password_changed_at <= req[r].stamp
        BY <2>0, <2>2 DEF DisableCommit, ForceCommit, Orderly
      <3>3. QED
        BY <2>0, <3>1, <3>2, WriteForward
    <2>3. ASSUME NEW v \in Users, Enable(r, v) PROVE Forward
      <3>1. /\ users'[v].exists = users[v].exists
            /\ users'[v].password_changed_at = users[v].password_changed_at
            /\ \A w \in Users : w # v => users'[w] = users[w]
        BY <2>0, <2>3 DEF Enable, Row
      <3>2. QED
        BY <2>0, <3>1, WriteForward
    <2>4. \/ RoleCommit(r) \/ DisableCommit(r) \/ ForceCommit(r)
          \/ (\E v \in Users : Enable(r, v)) \/ users' = users
      BY <1>4 DEF AdminStep, RoleRead, RoleStamp, DisableLock, ForceStart, ForceLock, ForceStamp
    <2>5. QED
      BY <2>1, <2>2, <2>3, <2>4, UnchangedForward
  <1>5. QED
    BY <1>1, <1>2, <1>3, <1>4, ChangeForward DEF Next, AccountStep

\* The tokens that are out stay as they are.
LEMMA TokensStay ==
    ASSUME Inv, [Next]_vars
    PROVE  Minted \subseteq Minted' /\ \A j \in Minted : tokens'[j] = tokens[j]
  <1>1. CASE UNCHANGED ledger
    BY <1>1 DEF ledger, Minted
  <1>2. ASSUME NEW r \in Requests, LoginMint(r) \/ RefreshMint(r) \/ GoogleMint(r)
        PROVE  Minted \subseteq Minted' /\ \A j \in Minted : tokens'[j] = tokens[j]
    <2>1. \E via \in {"login", "refresh", "google"}, row \in Row, parent \in Nat :
             MintPair(r, via, row, parent)
      BY <1>2, OrderFacts DEF LoginMint, RefreshMint, GoogleMint
    <2>2. issued' = issued + 2 /\ issued \in Nat /\ \A j \in Minted : tokens'[j] = tokens[j]
      BY <2>1, MintPairSound, InvFacts
    <2>3. QED
      BY <2>2 DEF Minted
  <1>3. CASE UNCHANGED vars
    BY <1>1, <1>3 DEF vars, ledger
  <1>4. CASE Environment
    BY <1>1, <1>4 DEF Environment, Tick, RedisFails, RedisRecovers, Restart
  <1>5. ASSUME NEW r \in Requests,
               AuthStep(r) \/ AccountStep(r) \/ AdminStep(r) \/ RedisStep(r)
        PROVE  UNCHANGED ledger \/ LoginMint(r) \/ RefreshMint(r) \/ GoogleMint(r)
    <2>1. CASE AuthStep(r)
      BY <2>1 DEF AuthStep, LoginRead, RefreshRead, RefreshCheck, RefreshRefused,
         Logout, LogoutCookie, LogoutDone, GoogleRead
    <2>2. CASE AccountStep(r)
      BY <2>2 DEF AccountStep, Authenticate, AuthRefused, ChangeStart, ChangeStamp,
         ChangeCommit, DeleteStart, DeleteLock, DeleteCookie, DeleteCommit
    <2>3. CASE AdminStep(r) \/ RedisStep(r)
      BY <2>3 DEF AdminStep, RoleRead, RoleStamp, RoleCommit, DisableLock, DisableCommit,
         Enable, ForceStart, ForceLock, ForceStamp, ForceCommit,
         RedisStep, RedisExists, RedisSetex, RedisOther
    <2>4. QED
      BY <1>5, <2>1, <2>2, <2>3
  <1>6. QED
    BY <1>1, <1>2, <1>3, <1>4, <1>5 DEF Next

\* A token refused because of a password change, a forced reset, a disabling or a
\* deletion stays refused for it, unless a password change commits a stamp that was
\* overtaken: the others stamp the row under its lock, with the time they got it.
THEOREM OutdatedForGood == Spec => OutdatedStaysOutdated
  <1> DEFINE Stays ==
        \A j \in Minted :
          Outdated(j) => \/ Outdated(j)'
                         \/ \E r \in Requests : /\ Overtaken(r) /\ req'[r].pc = "idle"
                                                /\ req[r].user = tokens[j].sub
  <1>1. Inv /\ Order /\ [Next]_vars => [Stays]_vars
    <2> SUFFICES ASSUME Inv, Order, [Next]_vars, NEW j \in Minted, Outdated(j),
                        \A r \in Requests : Overtaken(r) /\ req'[r].pc = "idle"
                                              => req[r].user # tokens[j].sub
                 PROVE  Outdated(j)'
      OBVIOUS
    <2> DEFINE u == tokens[j].sub
    <2>1. tokens'[j] = tokens[j] /\ u \in Users /\ tokens[j].iat \in Int
      <3>1. tokens[j] \in Token
        BY TokenFacts
      <3>2. QED
        BY <3>1, TokensStay DEF Token
    <2>2. /\ users[u].password_changed_at \in Int
          /\ users'[u].password_changed_at \in Int
      <3>1. users \in [Users -> Row] /\ users' \in [Users -> Row]
        BY NextInv DEF Inv, TypeOK
      <3>2. QED
        BY <2>1, <3>1 DEF Row, Stamp, Never
    <2>3. Forward \/ users'[u] = users[u]
      BY <2>1, NextForward
    <2>4. CASE Forward
      BY <2>1, <2>2, <2>4 DEF Outdated, IssuedBefore, Forward
    <2>5. CASE users'[u] = users[u]
      BY <2>1, <2>5 DEF Outdated, IssuedBefore
    <2>6. QED
      BY <2>3, <2>4, <2>5
  <1>2. QED
    BY <1>1, OrderKept, PTL DEF Spec, OutdatedStaysOutdated
=============================================================================
