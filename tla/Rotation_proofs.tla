--------------------------- MODULE Rotation_proofs ---------------------------
(***************************************************************************)
(* Theorems about TokenSessions: while Redis answers, a refresh token is   *)
(* rotated once, except by requests that overlap; and the service promises *)
(* what RefreshGate says of refresh tokens.                                *)
(***************************************************************************)
EXTENDS SessionOrder_proofs

-----------------------------------------------------------------------------
(* Where the steps of a request take it.                                   *)

Moves(r, S) == /\ req'[r].pc \in S
               /\ \A s \in Requests : s # r => req'[s] = req[s]

RefreshSteps == {"refresh_check", "refresh_mint"}
OtherAuthSteps == {"idle", "login_mint", "logout_cookie", "logout_done", "google_mint"}
AccountSteps == {"idle", "change_auth", "change_stamp", "change_commit", "delete_auth",
                 "delete_lock", "delete_cookie", "delete_commit"}
AdminSteps == {"idle", "role_stamp", "role_commit", "disable_commit", "force_lock",
               "force_stamp", "force_commit"}

LEMMA GoesMoves ==
    ASSUME Inv, NEW r \in Requests, NEW S, NEW q, Goes(r, q), q.pc \in S
    PROVE  Moves(r, S)
  BY InvFacts DEF Goes, Moves

LEMMA FinishMoves ==
    ASSUME Inv, NEW r \in Requests, NEW S, "idle" \in S, Finish(r)
    PROVE  Moves(r, S)
  BY GoesMoves, ConstantTypes DEF Finish

LEMMA AskMoves ==
    ASSUME Inv, NEW r \in Requests, NEW S, NEW q \in Request, q.pc \in S, NEW j,
           AskBlacklist(r, q, j) \/ AddToBlacklist(r, q, j) \/ Skip(r, q)
    PROVE  Moves(r, S)
  <1>1. PICK p : Alike(p, q) /\ Goes(r, p)
    BY AskAlike, AddAlike, SkipAlike DEF Skip
  <1>2. QED
    BY <1>1, GoesMoves DEF Alike

LEMMA NextStep ==
    ASSUME NEW q \in Request, NEW pc \in Steps
    PROVE  /\ [q EXCEPT !.pc = pc] \in Request /\ [q EXCEPT !.pc = pc].pc = pc
           /\ [q EXCEPT !.pc = pc, !.stamp = clock].pc = pc
  BY DEF Request

LEMMA AuthMoves ==
    ASSUME Inv, NEW r \in Requests, AuthStep(r)
    PROVE  \/ Moves(r, OtherAuthSteps)
           \/ /\ \/ \E j \in Minted : RefreshRead(r, j)
                 \/ RefreshCheck(r)
              /\ Moves(r, RefreshSteps)
  <1>0. OtherAuthSteps \subseteq Steps /\ RefreshSteps \subseteq Steps /\ req[r] \in Request
    BY InvFacts DEF Steps, OtherAuthSteps, RefreshSteps
  <1>1. ASSUME NEW u \in Users, LoginRead(r, u) PROVE Moves(r, OtherAuthSteps)
    <2>1. PICK b : b = [Begin(r, "login_mint", u) EXCEPT !.row = users[u]]
      OBVIOUS
    <2>2. Fresh(b, "login_mint", u, 0)
      BY <2>1, OrderFacts, BeginRowFresh, "login_mint" \in Steps DEF Steps
    <2>3. Goes(r, b) /\ b.pc \in OtherAuthSteps
      BY <1>1, <2>1, <2>2 DEF LoginRead, Fresh, OtherAuthSteps
    <2>4. QED
      BY <2>3, GoesMoves
  <1>2. CASE LoginMint(r) \/ RefreshMint(r) \/ GoogleMint(r) \/ RefreshRefused(r) \/ LogoutDone(r)
    BY <1>2, FinishMoves
       DEF LoginMint, RefreshMint, GoogleMint, RefreshRefused, LogoutDone, OtherAuthSteps
  <1>3. ASSUME NEW j \in Minted, RefreshRead(r, j) PROVE Moves(r, RefreshSteps)
    <2>1. PICK b : b = [Begin(r, "refresh_check", tokens[j].sub) EXCEPT
                           !.jti = j, !.row = users[tokens[j].sub]]
      OBVIOUS
    <2>2. "refresh_check" \in Steps
      BY DEF Steps
    <2>3. Fresh(b, "refresh_check", tokens[j].sub, j)
      BY <2>1, <2>2, TokenFacts, BeginRefreshFresh
    <2>4. AskBlacklist(r, b, j) /\ b \in Request /\ b.pc \in RefreshSteps
      BY <1>3, <2>1, <2>3 DEF RefreshRead, Fresh, RefreshSteps
    <2>5. QED
      BY <2>4, AskMoves
  <1>4. ASSUME RefreshCheck(r) PROVE Moves(r, RefreshSteps)
    <2>1. PICK b : b = [req[r] EXCEPT !.pc = "refresh_mint"]
      OBVIOUS
    <2>2. b \in Request /\ b.pc \in RefreshSteps
      BY <1>0, <2>1, NextStep DEF RefreshSteps
    <2>3. AddToBlacklist(r, b, req[r].jti)
      BY <1>4, <2>1 DEF RefreshCheck
    <2>4. QED
      BY <2>2, <2>3, AskMoves
  <1>5. ASSUME NEW j \in Minted, NEW cookie \in Nat, Logout(r, j, cookie)
        PROVE  Moves(r, OtherAuthSteps)
    <2>1. PICK b : b = [Begin(r, "logout_cookie", tokens[j].sub) EXCEPT
                           !.jti = j, !.cookie = cookie]
      OBVIOUS
    <2>2. "logout_cookie" \in Steps
      BY DEF Steps
    <2>3. Fresh(b, "logout_cookie", tokens[j].sub, j)
      BY <2>1, <2>2, TokenFacts, BeginTokenFresh
    <2>4. AddToBlacklist(r, b, j) /\ b \in Request /\ b.pc \in OtherAuthSteps
      BY <1>5, <2>1, <2>3 DEF Logout, Fresh, OtherAuthSteps
    <2>5. QED
      BY <2>4, AskMoves
  <1>6. CASE LogoutCookie(r)
    <2>1. PICK b : b = [req[r] EXCEPT !.pc = "logout_done"]
      OBVIOUS
    <2>2. b \in Request /\ b.pc \in OtherAuthSteps /\ "idle" \in OtherAuthSteps
      BY <1>0, <2>1, NextStep DEF OtherAuthSteps
    <2>3. AddToBlacklist(r, b, req[r].cookie) \/ Finish(r)
      BY <1>6, <2>1 DEF LogoutCookie
    <2>4. QED
      BY <2>2, <2>3, AskMoves, FinishMoves
  <1>7. ASSUME NEW u \in Users, GoogleRead(r, u) PROVE Moves(r, OtherAuthSteps)
    <2>1. PICK b : b = [Begin(r, "google_mint", u) EXCEPT !.row = users[u]]
      OBVIOUS
    <2>2. Fresh(b, "google_mint", u, 0)
      BY <2>1, OrderFacts, BeginRowFresh, "google_mint" \in Steps DEF Steps
    <2>3. Goes(r, b) /\ b.pc \in OtherAuthSteps
      BY <1>7, <2>1, <2>2 DEF GoogleRead, Fresh, OtherAuthSteps
    <2>4. QED
      BY <2>3, GoesMoves
  <1>8. QED
    <2>1. \A cookie \in Cookies : cookie \in Nat
      BY OrderFacts DEF Cookies, Minted
    <2>2. QED
      BY <1>1, <1>2, <1>3, <1>4, <1>5, <1>6, <1>7, <2>1 DEF AuthStep

LEMMA AccountMoves ==
    ASSUME Inv, NEW r \in Requests, AccountStep(r)
    PROVE  Moves(r, AccountSteps)
  <1> DEFINE S == AccountSteps
  <1>0. S \subseteq Steps /\ req[r] \in Request
    BY InvFacts DEF Steps, AccountSteps
  <1>1. ASSUME NEW j \in Minted, NEW cookie \in Nat, NEW pc \in Steps, pc \in S,
               Authenticate(r, j, cookie, pc)
        PROVE  Moves(r, S)
    <2>1. PICK b : b = [Begin(r, pc, tokens[j].sub) EXCEPT !.jti = j, !.cookie = cookie]
      OBVIOUS
    <2>2. Fresh(b, pc, tokens[j].sub, j)
      BY <2>1, TokenFacts, BeginTokenFresh
    <2>3. AskBlacklist(r, b, j) /\ b \in Request /\ b.pc \in S
      BY <1>1, <2>1, <2>2 DEF Authenticate, Fresh
    <2>4. QED
      BY <2>3, AskMoves
  <1>2. CASE AuthRefused(r) \/ DeleteCommit(r) \/ ChangeCommit(r)
    BY <1>2, FinishMoves DEF AuthRefused, DeleteCommit, ChangeCommit, AccountSteps
  <1>3. CASE DeleteStart(r)
    <2>1. PICK b : b = [req[r] EXCEPT !.pc = "delete_lock"]
      OBVIOUS
    <2>2. Goes(r, b) /\ b.pc \in S
      BY <1>0, <1>3, <2>1, NextStep DEF DeleteStart, AccountSteps
    <2>3. QED
      BY <2>2, GoesMoves
  <1>4. CASE DeleteLock(r) \/ DeleteCookie(r)
    <2>1. PICK b : b = [req[r] EXCEPT !.pc = "delete_cookie"]
      OBVIOUS
    <2>2. PICK c : c = [req[r] EXCEPT !.pc = "delete_commit"]
      OBVIOUS
    <2>3. b \in Request /\ b.pc \in S /\ c \in Request /\ c.pc \in S
      BY <1>0, <2>1, <2>2, NextStep DEF AccountSteps
    <2>4. \E q \in {b, c} : \E j : AddToBlacklist(r, q, j) \/ Skip(r, q)
      BY <1>4, <2>1, <2>2 DEF DeleteLock, DeleteCookie
    <2>5. QED
      BY <2>3, <2>4, AskMoves
  <1>5. CASE ChangeStart(r) \/ ChangeStamp(r)
    <2>1. PICK b : b = [req[r] EXCEPT !.pc = "change_stamp"]
      OBVIOUS
    <2>2. PICK c : c = [req[r] EXCEPT !.pc = "change_commit", !.stamp = clock]
      OBVIOUS
    <2>3. b.pc \in S /\ c.pc \in S
      BY <1>0, <2>1, <2>2, NextStep DEF AccountSteps
    <2>4. Goes(r, b) \/ Goes(r, c)
      BY <1>5, <2>1, <2>2 DEF ChangeStart, ChangeStamp
    <2>5. QED
      BY <2>3, <2>4, GoesMoves
  <1>6. QED
    <2>1. 0 \in Nat /\ \A cookie \in Cookies : cookie \in Nat
      BY OrderFacts DEF Cookies, Minted
    <2>2. "delete_auth" \in S /\ "change_auth" \in S
      BY DEF AccountSteps
    <2>3. "delete_auth" \in Steps /\ "change_auth" \in Steps
      BY DEF Steps
    <2>4. QED
      BY <1>1, <1>2, <1>3, <1>4, <1>5, <2>1, <2>2, <2>3 DEF AccountStep

LEMMA AdminMoves ==
    ASSUME Inv, NEW r \in Requests, AdminStep(r)
    PROVE  Moves(r, AdminSteps)
  <1>0. AdminSteps \subseteq Steps /\ req[r] \in Request
    BY InvFacts DEF Steps, AdminSteps
  <1>1. ASSUME NEW u \in Users, NEW new \in Roles, RoleRead(r, u, new)
        PROVE  Moves(r, AdminSteps)
    <2>1. PICK b : b = [Begin(r, "role_stamp", u) EXCEPT !.role = new]
      OBVIOUS
    <2>2. "role_stamp" \in Steps
      BY DEF Steps
    <2>3. Fresh(b, "role_stamp", u, 0)
      BY <2>1, <2>2, BeginRoleFresh
    <2>4. Goes(r, b) /\ b.pc \in AdminSteps
      BY <1>1, <2>1, <2>3 DEF RoleRead, Fresh, AdminSteps
    <2>5. QED
      BY <2>4, GoesMoves
  <1>2. ASSUME NEW u \in Users, DisableLock(r, u) PROVE Moves(r, AdminSteps)
    <2>1. PICK b : b = [Begin(r, "disable_commit", u) EXCEPT !.stamp = clock]
      OBVIOUS
    <2>2. "disable_commit" \in Steps
      BY DEF Steps
    <2>3. Fresh(b, "disable_commit", u, 0)
      BY <2>1, <2>2, BeginStampFresh
    <2>4. Goes(r, b) /\ b.pc \in AdminSteps
      BY <1>2, <2>1, <2>3 DEF DisableLock, Fresh, AdminSteps
    <2>5. QED
      BY <2>4, GoesMoves
  <1>3. ASSUME NEW u \in Users, ForceStart(r, u) PROVE Moves(r, AdminSteps)
    <2>1. "force_lock" \in Steps
      BY DEF Steps
    <2>2. Fresh(Begin(r, "force_lock", u), "force_lock", u, 0)
      BY <2>1, BeginFresh
    <2>3. Goes(r, Begin(r, "force_lock", u))
      BY <1>3 DEF ForceStart
    <2>4. Begin(r, "force_lock", u).pc \in AdminSteps
      BY <2>2 DEF Fresh, AdminSteps
    <2>5. QED
      BY <2>3, <2>4, GoesMoves
  <1>4. CASE RoleStamp(r) \/ ForceStamp(r)
    <2>1. PICK b : b = [req[r] EXCEPT !.pc = "role_commit", !.stamp = clock]
      OBVIOUS
    <2>2. PICK c : c = [req[r] EXCEPT !.pc = "force_commit", !.stamp = clock]
      OBVIOUS
    <2>3. b.pc \in AdminSteps /\ c.pc \in AdminSteps
      BY <1>0, <2>1, <2>2, NextStep DEF AdminSteps
    <2>4. Goes(r, b) \/ Goes(r, c)
      BY <1>4, <2>1, <2>2 DEF RoleStamp, ForceStamp
    <2>5. QED
      BY <2>3, <2>4, GoesMoves
  <1>5. ASSUME NEW u \in Users, Enable(r, u) PROVE Moves(r, AdminSteps)
    BY <1>5 DEF Enable, Moves, AdminSteps
  <1>6. CASE ForceLock(r)
    <2>1. PICK b : b = [req[r] EXCEPT !.pc = "force_stamp"]
      OBVIOUS
    <2>2. b \in Request /\ b.pc \in AdminSteps
      BY <1>0, <2>1, NextStep DEF AdminSteps
    <2>3. Goes(r, Calls(b, "other", 0, 0)) \/ Skip(r, b)
      BY <1>6, <2>1 DEF ForceLock
    <2>4. Calls(b, "other", 0, 0).pc = b.pc
      BY <2>2, CallsAlike DEF Alike
    <2>5. QED
      BY <2>2, <2>3, <2>4, AskMoves, GoesMoves
  <1>7. CASE RoleCommit(r) \/ DisableCommit(r) \/ ForceCommit(r)
    BY <1>7, FinishMoves DEF RoleCommit, DisableCommit, ForceCommit, AdminSteps
  <1>8. QED
    BY <1>1, <1>2, <1>3, <1>4, <1>5, <1>6, <1>7 DEF AdminStep

-----------------------------------------------------------------------------
(* What is known of a refresh token that was exchanged.                    *)

\* p is refused as a refresh token, but for less than its last second: its key
\* is in the blacklist that long, or it is in that second already.
Spent(p) == \/ tokens[p].exp < blacklist[p] + TicksPerSecond
            \/ tokens[p].exp < clock + TicksPerSecond

\* i is the refresh token of a pair made from p.
Successor(i, p) == i \in Minted /\ tokens[i].type = "refresh" /\ tokens[i].origin.parent = p

\* What refresh_access_token relies on between two of its steps: it asks Redis
\* about its own token; once it has been told that the token is good, no pair
\* was made from it before the request came in, save in its last second; and
\* when it mints, Redis has the key.
Rotating(q) ==
    /\ q.pc = "refresh_check" => q.call \in {"exists", "answered"}
    /\ q.pc = "refresh_mint" => q.call \in {"setex", "answered"}
    /\ q.pc \in RefreshSteps /\ q.call # "answered" => q.target = q.jti
    /\ q.pc = "refresh_mint" \/ (q.pc = "refresh_check" /\ q.call = "answered" /\ ~q.answer) =>
          \A i \in Minted : i <= q.began /\ Successor(i, q.jti)
                            => tokens[q.jti].exp < clock + TicksPerSecond
    /\ q.pc = "refresh_mint" /\ q.call = "answered" => Spent(q.jti)

\* What a pair was made from is a token that is out, or nothing;
ParentsMinted == \A i \in Minted : tokens[i].origin.parent \in Minted \union {0}

\* and it is spent.
ParentsSpent == \A i, p \in Minted : Successor(i, p) => Spent(p)

Rotation ==
    /\ ParentsMinted
    /\ ~degraded => /\ redis = "up"
                    /\ \A r \in Requests : Rotating(req[r])
                    /\ ParentsSpent
                    /\ PairedOnce

-----------------------------------------------------------------------------
(* What a step of one request leaves to the others.                        *)

\* Time goes on, tokens are added, and whoever is spent stays spent.
Advance ==
    /\ clock <= clock' /\ clock' \in Nat
    /\ Minted \subseteq Minted'
    /\ \A j \in Minted : tokens'[j] = tokens[j]
    /\ \A j \in Minted' : j \in Minted \/ (j > issued /\ j \in Nat)
    /\ \A p \in Minted : Spent(p) => Spent(p)'

LEMMA RotatingStays ==
    ASSUME Inv, Advance, NEW r \in Requests, Rotating(req[r]), req'[r] = req[r]
    PROVE  Rotating(req[r])'
  <1> DEFINE q == req[r]
  <1>1. q \in Request /\ q.began \in Nat /\ q.began <= issued /\ issued \in Nat
        /\ (q.pc \in RefreshSteps => q.jti \in Minted) /\ clock \in Nat
    BY InvFacts DEF Sound, RefreshSteps, TokenSteps
  <1>2. ASSUME q.jti \in Minted, NEW i \in Minted', i <= q.began, Successor(i, q.jti)'
        PROVE  i \in Minted /\ Successor(i, q.jti)
    <2>1. i \in Minted
      BY <1>1, <1>2 DEF Advance
    <2>2. QED
      BY <1>2, <2>1 DEF Advance, Successor
  <1>3. q.jti \in Minted =>
           /\ tokens'[q.jti] = tokens[q.jti] /\ tokens[q.jti].exp \in Int
           /\ Spent(q.jti) => Spent(q.jti)'
    BY TokenFacts DEF Advance
  <1>4. q.jti \in Minted /\ tokens[q.jti].exp < clock + TicksPerSecond
        => tokens'[q.jti].exp < clock' + TicksPerSecond
    BY <1>1, <1>3, TicksAssumption DEF Advance
  <1>5. q' = q
    OBVIOUS
  <1>6. /\ q.pc = "refresh_check" => q.call \in {"exists", "answered"}
        /\ q.pc = "refresh_mint" => q.call \in {"setex", "answered"}
        /\ q.pc \in RefreshSteps /\ q.call # "answered" => q.target = q.jti
        /\ q.pc = "refresh_mint" /\ q.call = "answered" => Spent(q.jti)'
    BY <1>1, <1>3 DEF Rotating, RefreshSteps
  <1>7. ASSUME q.pc = "refresh_mint" \/ (q.pc = "refresh_check" /\ q.call = "answered" /\ ~q.answer),
               NEW i \in Minted', i <= q.began, Successor(i, q.jti)'
        PROVE  tokens'[q.jti].exp < clock' + TicksPerSecond
    <2>1. q.jti \in Minted
      BY <1>1, <1>7 DEF RefreshSteps
    <2>2. i \in Minted /\ Successor(i, q.jti)
      BY <1>2, <1>7, <2>1
    <2>3. tokens[q.jti].exp < clock + TicksPerSecond
      BY <1>7, <2>2 DEF Rotating
    <2>4. QED
      BY <1>4, <2>1, <2>3
  <1>8. QED
    BY <1>5, <1>6, <1>7 DEF Rotating

\* Steps that leave the ledger and spend nobody anew.
LEMMA PlainRotation ==
    ASSUME Inv, Rotation, NEW r \in Requests, UNCHANGED <<environment, ledger, blacklist>>,
           \A s \in Requests : s # r => req'[s] = req[s],
           ~degraded => Rotating(req'[r])
    PROVE  Rotation'
  <1>1. /\ Minted' = Minted /\ tokens' = tokens /\ blacklist' = blacklist /\ clock' = clock
        /\ redis' = redis /\ degraded' = degraded
    BY DEF Minted, ledger, environment
  <1>2. ParentsMinted' /\ (ParentsSpent => ParentsSpent') /\ (PairedOnce => PairedOnce')
    BY <1>1 DEF Rotation, ParentsMinted, ParentsSpent, PairedOnce, Successor, Spent
  <1>3. ASSUME ~degraded, NEW s \in Requests PROVE Rotating(req[s])'
    <2>1. Rotating(req'[s])
      BY <1>3 DEF Rotation
    <2>2. PICK q : q = req'[s]
      OBVIOUS
    <2>3. Rotating(q)
      BY <2>1, <2>2
    <2>4. /\ q.pc = "refresh_check" => q.call \in {"exists", "answered"}
          /\ q.pc = "refresh_mint" => q.call \in {"setex", "answered"}
          /\ q.pc \in RefreshSteps /\ q.call # "answered" => q.target = q.jti
          /\ q.pc = "refresh_mint" /\ q.call = "answered" => Spent(q.jti)'
      BY <1>1, <2>3 DEF Rotating, Spent
    <2>5. q.pc = "refresh_mint" \/ (q.pc = "refresh_check" /\ q.call = "answered" /\ ~q.answer) =>
             \A i \in Minted' : i <= q.began /\ Successor(i, q.jti)'
                               => tokens'[q.jti].exp < clock' + TicksPerSecond
      BY <1>1, <2>3 DEF Rotating, Successor
    <2>6. QED
      BY <2>2, <2>4, <2>5 DEF Rotating
  <1>4. QED
    BY <1>1, <1>2, <1>3 DEF Rotation

\* A request at any other step relies on nothing.
LEMMA OtherRotating ==
    ASSUME NEW q, q.pc \notin RefreshSteps
    PROVE  Rotating(q)
  BY DEF Rotating, RefreshSteps

LEMMA MovesRotation ==
    ASSUME Inv, Rotation, NEW r \in Requests, UNCHANGED <<environment, ledger, store>>,
           NEW S, Moves(r, S), S \intersect RefreshSteps = {}
    PROVE  Rotation'
  <1>1. Rotating(req'[r])
    BY OtherRotating DEF Moves
  <1>2. QED
    BY <1>1, PlainRotation DEF Moves, store

-----------------------------------------------------------------------------
(* Every step keeps the rotation.                                          *)

\* A pair is made from nothing, or from a token that is spent and that no pair
\* was made from before the request came in.
LEMMA MintRotation ==
    ASSUME Inv, Rotation, NEW r \in Requests, NEW via \in {"login", "refresh", "google"},
           NEW row \in Row, NEW parent \in Nat, MintPair(r, via, row, parent),
           Finish(r), UNCHANGED <<environment, store>>,
           \/ parent = 0
           \/ req[r].pc = "refresh_mint" /\ req[r].call = "answered" /\ parent = req[r].jti
    PROVE  Rotation'
  <1>1. /\ issued' = issued + 2 /\ issued \in Nat /\ clock \in Nat
        /\ \A j \in Minted : tokens'[j] = tokens[j]
    BY MintPairSound, InvFacts
  <1>2. \A j \in Minted' : j \notin Minted =>
              /\ j \in {issued + 1, issued + 2}
              /\ tokens'[j].origin.at = clock /\ tokens'[j].origin.parent = parent
              /\ tokens'[j].origin.began = req[r].began
              /\ tokens'[j].type = "refresh" => j = issued + 2
    BY MintPairOrigin
  <1>3. Minted \subseteq Minted' /\ Minted \subseteq Nat /\ Minted' \subseteq Nat /\ 0 \notin Minted'
    BY <1>1 DEF Minted
  <1>4. parent \in Minted \union {0}
    BY InvFacts DEF Sound, TokenSteps
  <1>5. UNCHANGED <<clock, redis, degraded, blacklist>>
    BY DEF environment, store
  <1>6. Advance
    <2>1. \A p \in Minted : Spent(p) => Spent(p)'
      BY <1>1, <1>5 DEF Spent
    <2>2. QED
      BY <1>1, <1>2, <1>3, <1>5, <2>1 DEF Advance
  <1>7. ParentsMinted'
    BY <1>1, <1>2, <1>3, <1>4 DEF Rotation, ParentsMinted
  <1>8. ASSUME ~degraded
        PROVE  \A s \in Requests : Rotating(req[s])'
    <2>1. ASSUME NEW s \in Requests, s # r PROVE Rotating(req[s])'
      <3>1. req'[s] = req[s] /\ Rotating(req[s])
        BY <1>8, <2>1, InvFacts DEF Finish, Goes, Rotation
      <3>2. QED
        BY <1>6, <3>1, RotatingStays
    <2>2. Rotating(req[r])'
      <3>1. req'[r].pc = "idle"
        BY InvFacts, ConstantTypes DEF Finish, Goes
      <3>2. QED
        BY <3>1 DEF Rotating, RefreshSteps
    <2>3. QED
      BY <2>1, <2>2
  <1>9. ASSUME ~degraded, parent # 0
        PROVE  /\ parent \in Minted /\ Spent(parent) /\ tokens[parent].exp \in Int
               /\ \A i \in Minted : i <= req[r].began /\ Successor(i, parent)
                                    => tokens[parent].exp < clock + TicksPerSecond
    BY <1>4, <1>9, TokenFacts DEF Rotation, Rotating
  <1>10. ASSUME NEW i \in Minted', NEW p \in Minted', Successor(i, p)', i \in Minted
         PROVE  Successor(i, p) /\ p \in Minted
    BY <1>1, <1>3, <1>10 DEF Successor, Rotation, ParentsMinted
  <1>11. ASSUME ~degraded
         PROVE  ParentsSpent'
    <2> SUFFICES ASSUME NEW i \in Minted', NEW p \in Minted', Successor(i, p)'
                 PROVE  Spent(p)'
      BY DEF ParentsSpent
    <2>1. CASE i \in Minted
      BY <1>6, <1>10, <1>11, <2>1 DEF Rotation, ParentsSpent, Advance
    <2>2. CASE i \notin Minted
      <3>1. p = parent /\ parent # 0
        BY <1>2, <1>3, <2>2 DEF Successor
      <3>2. QED
        BY <1>6, <1>9, <1>11, <3>1 DEF Advance
    <2>3. QED
      BY <2>1, <2>2
  <1>12. ASSUME ~degraded
         PROVE  PairedOnce'
    <2> SUFFICES ASSUME NEW i \in Minted', NEW j \in Minted', NEW p \in Minted',
                        i < j, Successor(i, p)', Successor(j, p)'
                 PROVE  \/ tokens'[j].origin.began < i
                        \/ tokens'[p].exp - tokens'[j].origin.at < TicksPerSecond
      BY DEF PairedOnce, Successor
    <2>1. CASE j \in Minted
      <3>1. i \in Minted
        BY <1>1, <1>3, <2>1 DEF Minted
      <3>2. Successor(i, p) /\ Successor(j, p) /\ p \in Minted
        BY <1>10, <2>1, <3>1
      <3>3. \/ tokens[j].origin.began < i
            \/ tokens[p].exp - tokens[j].origin.at < TicksPerSecond
        BY <1>12, <2>1, <3>1, <3>2 DEF Rotation, PairedOnce, Successor
      <3>4. QED
        BY <1>1, <2>1, <3>2, <3>3
    <2>2. CASE j \notin Minted
      <3>1. /\ p = parent /\ parent # 0 /\ j = issued + 2
            /\ tokens'[j].origin.at = clock /\ tokens'[j].origin.began = req[r].began
        BY <1>2, <1>3, <2>2 DEF Successor
      <3>2. i \in Minted
        <4>1. i \notin Minted => i = issued + 2
          BY <1>2 DEF Successor
        <4>2. QED
          BY <1>1, <3>1, <4>1
      <3>3. Successor(i, p) /\ p \in Minted
        BY <1>10, <3>2
      <3>4. tokens'[p].exp = tokens[p].exp
        BY <1>1, <3>3
      <3>5. i <= req[r].began => tokens[p].exp < clock + TicksPerSecond
        BY <1>9, <1>12, <3>1, <3>2, <3>3
      <3>6. req[r].began \in Nat /\ i \in Nat /\ tokens[p].exp \in Int
        BY <1>3, <3>2, <3>3, InvFacts, TokenFacts
      <3>7. QED
        BY <1>1, <3>1, <3>4, <3>5, <3>6, TicksAssumption
    <2>3. QED
      BY <2>1, <2>2
  <1>13. QED
    BY <1>5, <1>7, <1>8, <1>11, <1>12 DEF Rotation

\* The request that asks Redis about its own token,
LEMMA AskRotating ==
    ASSUME NEW q \in Request, NEW j \in Nat, q.pc = "refresh_check", q.jti = j
    PROVE  Rotating(Calls(q, "exists", j, 0))
  <1> DEFINE c == Calls(q, "exists", j, 0)
  <1>1. c.pc = "refresh_check" /\ c.jti = j /\ c.call = "exists" /\ c.target = j
    BY DEF Calls, Request
  <1> HIDE DEF c
  <1>2. Rotating(c)
    BY <1>1 DEF Rotating, RefreshSteps
  <1>3. QED
    BY <1>2 DEF c

\* and the one that was told that it is good, and blacklists it.
LEMMA AddRotating ==
    ASSUME Inv, NEW q \in Request, q.pc = "refresh_mint", q.jti \in Minted,
           \A i \in Minted : i <= q.began /\ Successor(i, q.jti)
                             => tokens[q.jti].exp < clock + TicksPerSecond,
           NEW ttl, ttl = BlacklistTtl(tokens[q.jti], clock)
    PROVE  /\ Rotating(Calls(q, "setex", q.jti, ttl))
           /\ ttl = 0 => Rotating([q EXCEPT !.call = "answered"])
  <1>1. tokens[q.jti] \in Token /\ q.jti \in Nat /\ clock \in Nat /\ tokens[q.jti].exp \in Int
    BY TokenFacts DEF Inv, TypeOK
  <1>2. ttl \in Nat /\ (clock < tokens[q.jti].exp => tokens[q.jti].exp < clock + ttl + TicksPerSecond)
    BY <1>1, BlacklistTtlBounds
  <1>3. Rotating(Calls(q, "setex", q.jti, ttl))
    <2>1. PICK c : c = Calls(q, "setex", q.jti, ttl)
      OBVIOUS
    <2>2. /\ c.pc = q.pc /\ c.jti = q.jti /\ c.call = "setex" /\ c.target = q.jti
          /\ c.began = q.began
      BY <2>1 DEF Calls, Request
    <2>3. Rotating(c)
      BY <2>2 DEF Rotating, RefreshSteps
    <2>4. QED
      BY <2>1, <2>3
  <1>4. ASSUME ttl = 0 PROVE Rotating([q EXCEPT !.call = "answered"])
    <2>1. PICK c : c = [q EXCEPT !.call = "answered"]
      OBVIOUS
    <2>2. c.pc = q.pc /\ c.jti = q.jti /\ c.call = "answered" /\ c.began = q.began
      BY <2>1 DEF Request
    <2>3. tokens[q.jti].exp < clock + TicksPerSecond
      BY <1>1, <1>2, <1>4, TicksAssumption
    <2>4. Rotating(c)
      BY <2>2, <2>3 DEF Rotating, RefreshSteps, Spent
    <2>5. QED
      BY <2>1, <2>4
  <1>5. QED
    BY <1>3, <1>4

LEMMA RefreshReadRotation ==
    ASSUME Inv, Rotation, NEW r \in Requests, NEW j \in Minted, RefreshRead(r, j)
    PROVE  Rotation'
  <1>1. PICK b : b = [Begin(r, "refresh_check", tokens[j].sub) EXCEPT
                         !.jti = j, !.row = users[tokens[j].sub]]
    OBVIOUS
  <1>2. "refresh_check" \in Steps
    BY DEF Steps
  <1>3. Fresh(b, "refresh_check", tokens[j].sub, j)
    BY <1>1, <1>2, TokenFacts, BeginRefreshFresh
  <1>4. AskBlacklist(r, b, j) /\ UNCHANGED <<environment, store, ledger>>
    BY <1>1 DEF RefreshRead
  <1>5. \A s \in Requests : s # r => req'[s] = req[s]
    BY <1>3, <1>4, InvFacts DEF AskBlacklist, Skip, Goes
  <1>6. ASSUME ~degraded PROVE Rotating(req'[r])
    <2>1. redis = "up"
      BY <1>6 DEF Rotation
    <2>2. Goes(r, Calls(b, "exists", j, 0))
      BY <1>4, <2>1 DEF AskBlacklist
    <2>3. req'[r] = Calls(b, "exists", j, 0)
      BY <2>2, InvFacts DEF Goes
    <2>4. Rotating(Calls(b, "exists", j, 0))
      BY <1>3, TokenFacts, AskRotating DEF Fresh
    <2>5. QED
      BY <2>3, <2>4
  <1>7. QED
    BY <1>4, <1>5, <1>6, PlainRotation DEF store

LEMMA RefreshCheckRotation ==
    ASSUME Inv, Rotation, NEW r \in Requests, RefreshCheck(r)
    PROVE  Rotation'
  <1>1. PICK b : b = [req[r] EXCEPT !.pc = "refresh_mint"]
    OBVIOUS
  <1>2. req[r] \in Request /\ req[r].pc = "refresh_check" /\ req[r].call = "answered"
        /\ ~req[r].answer /\ req[r].jti \in Minted
    BY InvFacts DEF RefreshCheck, Answered, MayRefresh, Sound, TokenSteps
  <1>3. b \in Request /\ b.pc = "refresh_mint" /\ b.jti = req[r].jti /\ b.began = req[r].began
    BY <1>1, <1>2, NextAlike DEF Steps
  <1>4. AddToBlacklist(r, b, b.jti) /\ UNCHANGED <<environment, store, ledger>>
    BY <1>1, <1>3 DEF RefreshCheck
  <1>5. \A s \in Requests : s # r => req'[s] = req[s]
    BY <1>4, InvFacts DEF AddToBlacklist, Skip, Goes
  <1>6. ASSUME ~degraded PROVE Rotating(req'[r])
    <2>1. redis = "up" /\ Rotating(req[r])
      BY <1>6 DEF Rotation
    <2>2. PICK ttl : ttl = BlacklistTtl(tokens[b.jti], clock)
      OBVIOUS
    <2>3. \/ Goes(r, Calls(b, "setex", b.jti, ttl))
          \/ ttl = 0 /\ Goes(r, [b EXCEPT !.call = "answered"])
      BY <1>4, <2>1, <2>2 DEF AddToBlacklist, Skip
    <2>4. /\ Rotating(Calls(b, "setex", b.jti, ttl))
          /\ ttl = 0 => Rotating([b EXCEPT !.call = "answered"])
      <3>1. \A i \in Minted : i <= b.began /\ Successor(i, b.jti)
                             => tokens[b.jti].exp < clock + TicksPerSecond
        BY <1>2, <1>3, <2>1 DEF Rotating
      <3>2. QED
        BY <1>2, <1>3, <2>2, <3>1, AddRotating
    <2>5. \A q : Goes(r, q) => req'[r] = q
      BY InvFacts DEF Goes
    <2>6. QED
      BY <2>3, <2>4, <2>5
  <1>7. QED
    BY <1>4, <1>5, <1>6, PlainRotation DEF store

LEMMA AuthRotation ==
    ASSUME Inv, Rotation, NEW r \in Requests, AuthStep(r)
    PROVE  Rotation'
  <1>1. CASE (\E j \in Minted : RefreshRead(r, j)) \/ RefreshCheck(r)
    BY <1>1, RefreshReadRotation, RefreshCheckRotation
  <1>2. CASE LoginMint(r) \/ GoogleMint(r)
    <2>1. req[r].row \in Row /\ 0 \in Nat
      BY InvFacts
    <2>2. QED
      BY <1>2, <2>1, MintRotation DEF LoginMint, GoogleMint
  <1>3. CASE RefreshMint(r)
    <2>1. req[r].row \in Row /\ req[r].jti \in Nat
      BY InvFacts
    <2>2. QED
      BY <1>3, <2>1, MintRotation DEF RefreshMint, Answered
  <1>4. CASE ~((\E j \in Minted : RefreshRead(r, j)) \/ RefreshCheck(r)
               \/ LoginMint(r) \/ GoogleMint(r) \/ RefreshMint(r))
    <2>1. Moves(r, OtherAuthSteps)
      BY <1>4, AuthMoves
    <2>2. UNCHANGED <<environment, ledger, store>>
      BY <1>4 DEF AuthStep, LoginRead, RefreshRefused, Logout, LogoutCookie, LogoutDone,
         GoogleRead
    <2>3. OtherAuthSteps \intersect RefreshSteps = {}
      BY DEF OtherAuthSteps, RefreshSteps
    <2>4. QED
      BY <2>1, <2>2, <2>3, MovesRotation
  <1>5. QED
    BY <1>1, <1>2, <1>3, <1>4

LEMMA ServicesRotation ==
    ASSUME Inv, Rotation, NEW r \in Requests, AccountStep(r) \/ AdminStep(r)
    PROVE  Rotation'
  <1>1. UNCHANGED <<environment, ledger, store>>
    <2>1. CASE AccountStep(r)
      BY <2>1 DEF AccountStep, Authenticate, AuthRefused, ChangeStart, ChangeStamp,
         ChangeCommit, DeleteStart, DeleteLock, DeleteCookie, DeleteCommit
    <2>2. CASE AdminStep(r)
      BY <2>2 DEF AdminStep, RoleRead, RoleStamp, RoleCommit, DisableLock, DisableCommit,
         Enable, ForceStart, ForceLock, ForceStamp, ForceCommit
    <2>3. QED
      BY <2>1, <2>2
  <1>2. Moves(r, AccountSteps) \/ Moves(r, AdminSteps)
    BY AccountMoves, AdminMoves
  <1>3. /\ AccountSteps \intersect RefreshSteps = {}
        /\ AdminSteps \intersect RefreshSteps = {}
    BY DEF AccountSteps, AdminSteps, RefreshSteps
  <1>4. QED
    BY <1>1, <1>2, <1>3, MovesRotation

\* EXISTS tells of the key as it is, or was good for the last second;
LEMMA ExistsRotation ==
    ASSUME Inv, Rotation, NEW r \in Requests, RedisExists(r)
    PROVE  Rotation'
  <1>1. PICK b : b = [req[r] EXCEPT !.call = "answered", !.target = 0,
                                    !.answer = Blacklisted(req[r].target)]
    OBVIOUS
  <1>2. Goes(r, b) /\ req[r].call = "exists" /\ UNCHANGED <<environment, store, ledger>>
    BY <1>1 DEF RedisExists
  <1>3. /\ b.pc = req[r].pc /\ b.jti = req[r].jti /\ b.call = "answered"
        /\ b.answer = Blacklisted(req[r].target)
    BY <1>1, InvFacts DEF Request
  <1>4. ASSUME ~degraded PROVE Rotating(b)
    <2>1. redis = "up" /\ Rotating(req[r]) /\ ParentsSpent
      BY <1>4 DEF Rotation
    <2>2. b.pc # "refresh_mint"
      BY <1>2, <1>3, <2>1 DEF Rotating
    <2>3. ASSUME b.pc = "refresh_check", ~b.answer, NEW i \in Minted, Successor(i, b.jti)
          PROVE  tokens[b.jti].exp < clock + TicksPerSecond
      <3>1. req[r].target = b.jti /\ b.jti \in Minted
        BY <1>2, <1>3, <2>1, <2>3, InvFacts DEF Rotating, RefreshSteps, Sound
      <3>2. ~(clock < blacklist[b.jti]) /\ Spent(b.jti)
        BY <1>3, <2>1, <2>3, <3>1 DEF Blacklisted, ParentsSpent
      <3>3. blacklist[b.jti] \in Int /\ clock \in Nat /\ tokens[b.jti].exp \in Int
        BY <3>1, TokenFacts DEF Inv, TypeOK
      <3>4. QED
        BY <3>2, <3>3, TicksAssumption DEF Spent
    <2>4. QED
      BY <1>3, <2>2, <2>3 DEF Rotating
  <1>5. req'[r] = b /\ \A s \in Requests : s # r => req'[s] = req[s]
    BY <1>2, InvFacts DEF Goes
  <1>6. QED
    BY <1>2, <1>4, <1>5, PlainRotation DEF store

\* SETEX leaves a key that is good until the last second.
LEMMA SetexRotation ==
    ASSUME Inv, Rotation, NEW r \in Requests, RedisSetex(r)
    PROVE  Rotation'
  <1>0. PICK j : j = req[r].target
    OBVIOUS
  <1>1. PICK b : b = [req[r] EXCEPT !.call = "answered", !.target = 0, !.ttl = 0]
    OBVIOUS
  <1>2. /\ Goes(r, b) /\ req[r].call = "setex" /\ UNCHANGED <<environment, ledger>>
        /\ redis = "up" => blacklist' = [blacklist EXCEPT ![j] = clock + req[r].ttl]
    BY <1>0, <1>1 DEF RedisSetex
  <1>3. /\ b.pc = req[r].pc /\ b.jti = req[r].jti /\ b.call = "answered"
        /\ b.began = req[r].began /\ b.answer = req[r].answer
    BY <1>1, InvFacts DEF Request
  <1>4. /\ j \in Minted /\ tokens[j].exp < clock + req[r].ttl + TicksPerSecond
        /\ blacklist \in [Jti -> Int] /\ Minted \subseteq Jti
    BY <1>0, <1>2, InvFacts DEF Sound, Inv, TypeOK
  <1>5. /\ Minted' = Minted /\ tokens' = tokens /\ clock' = clock
        /\ redis' = redis /\ degraded' = degraded /\ issued' = issued
    BY <1>2 DEF Minted, ledger, environment
  <1>6. req'[r] = b /\ \A s \in Requests : s # r => req'[s] = req[s]
    BY <1>2, InvFacts DEF Goes
  <1>7. ParentsMinted' /\ (PairedOnce => PairedOnce')
    BY <1>5 DEF Rotation, ParentsMinted, PairedOnce
  <1>8. ASSUME ~degraded
        PROVE  /\ redis = "up" /\ ParentsSpent /\ Spent(j)'
               /\ \A p \in Minted : Spent(p) => Spent(p)'
    <2>1. redis = "up" /\ ParentsSpent
      BY <1>8 DEF Rotation
    <2>2. Spent(j)'
      BY <1>2, <1>4, <1>5, <2>1 DEF Spent
    <2>3. \A p \in Minted : p # j => blacklist'[p] = blacklist[p]
      BY <1>2, <1>4, <2>1
    <2>4. \A p \in Minted : p # j /\ Spent(p) => Spent(p)'
      BY <1>5, <2>3 DEF Spent
    <2>5. QED
      BY <2>1, <2>2, <2>4
  <1>9. ASSUME ~degraded PROVE ParentsSpent'
    BY <1>5, <1>8, <1>9 DEF ParentsSpent, Successor
  <1>10. ASSUME ~degraded PROVE \A s \in Requests : Rotating(req[s])'
    <2>1. Advance
      <3>1. clock \in Nat /\ clock <= clock
        BY InvFacts
      <3>2. QED
        BY <1>5, <1>8, <1>10, <3>1 DEF Advance
    <2>2. ASSUME NEW s \in Requests, s # r PROVE Rotating(req[s])'
      BY <1>6, <1>10, <2>1, <2>2, RotatingStays DEF Rotation
    <2>3. Rotating(b)'
      <3>1. Rotating(req[r])
        BY <1>10 DEF Rotation
      <3>2. b.pc # "refresh_check"
        BY <1>2, <1>3, <3>1 DEF Rotating
      <3>3. b.pc = "refresh_mint" => b.jti = j
        BY <1>0, <1>2, <1>3, <3>1 DEF Rotating, RefreshSteps
      <3>4. b.pc = "refresh_mint" =>
               \A i \in Minted' : i <= b.began /\ Successor(i, b.jti)'
                                  => tokens'[b.jti].exp < clock' + TicksPerSecond
        BY <1>3, <1>5, <3>1 DEF Rotating, Successor
      <3>5. b.pc = "refresh_mint" => Spent(b.jti)'
        BY <1>8, <1>10, <3>3
      <3>6. QED
        BY <1>3, <3>2, <3>4, <3>5 DEF Rotating
    <2>4. QED
      BY <1>6, <2>2, <2>3
  <1>11. QED
    BY <1>5, <1>7, <1>8, <1>9, <1>10 DEF Rotation

LEMMA OtherRotation ==
    ASSUME Inv, Rotation, NEW r \in Requests, RedisOther(r)
    PROVE  Rotation'
  <1>1. PICK b : b = [req[r] EXCEPT !.call = "answered"]
    OBVIOUS
  <1>2. Goes(r, b) /\ req[r].call = "other" /\ UNCHANGED <<environment, store, ledger>>
    BY <1>1 DEF RedisOther
  <1>3. b.pc = req[r].pc
    BY <1>1, InvFacts DEF Request
  <1>4. ASSUME ~degraded PROVE Rotating(b)
    <2>1. Rotating(req[r])
      BY <1>4 DEF Rotation
    <2>2. b.pc \notin RefreshSteps
      BY <1>2, <1>3, <2>1 DEF Rotating, RefreshSteps
    <2>3. QED
      BY <2>2, OtherRotating
  <1>5. req'[r] = b /\ \A s \in Requests : s # r => req'[s] = req[s]
    BY <1>2, InvFacts DEF Goes
  <1>6. QED
    BY <1>2, <1>4, <1>5, PlainRotation DEF store

LEMMA EnvironmentRotation ==
    ASSUME Inv, Rotation, Environment
    PROVE  Rotation'
  <1>1. UNCHANGED <<ledger, blacklist>> /\ Minted' = Minted /\ tokens' = tokens
    BY DEF Environment, Tick, RedisFails, RedisRecovers, Restart, ledger, store, Minted
  <1>2. /\ clock \in Nat /\ (clock' = clock \/ clock' = clock + 1)
        /\ ~degraded' => ~degraded /\ (redis = "up" => redis' = "up")
    <2>1. clock \in Nat /\ (clock' = clock \/ clock' = clock + 1)
      BY DEF Environment, Tick, RedisFails, RedisRecovers, Restart, Inv, TypeOK
    <2>2. CASE Tick \/ RedisRecovers
      BY <2>1, <2>2 DEF Tick, RedisRecovers
    <2>3. CASE RedisFails
      BY <2>1, <2>3 DEF RedisFails
    <2>4. CASE Restart
      <3>1. (degraded' <=> (degraded \/ redis' = "none")) /\ redis' \in {"up", "none"}
        BY <2>4 DEF Restart
      <3>2. QED
        BY <2>1, <3>1
    <2>5. QED
      BY <2>1, <2>2, <2>3, <2>4 DEF Environment
  <1>3. Advance
    <2>1. \A p \in Minted : Spent(p) => Spent(p)'
      <3>1. \A p \in Minted : tokens[p].exp \in Int
        BY TokenFacts
      <3>2. QED
        BY <1>1, <1>2, <3>1, TicksAssumption DEF Spent
    <2>2. QED
      BY <1>1, <1>2, <2>1 DEF Advance
  <1>4. ParentsMinted' /\ (PairedOnce /\ ~degraded => PairedOnce')
    BY <1>1 DEF Rotation, ParentsMinted, PairedOnce
  <1>5. ParentsSpent => ParentsSpent'
    BY <1>1, <1>3 DEF ParentsSpent, Advance, Successor
  <1>6. ASSUME ~degraded, NEW r \in Requests PROVE Rotating(req[r])'
    <2>1. CASE Restart
      <3>1. req'[r].pc = "idle"
        BY <2>1, ConstantTypes DEF Restart
      <3>2. QED
        BY <3>1 DEF Rotating, RefreshSteps
    <2>2. CASE ~Restart
      <3>1. req' = req
        BY <2>2 DEF Environment, Tick, RedisFails, RedisRecovers
      <3>2. QED
        BY <1>3, <1>6, <3>1, RotatingStays DEF Rotation
    <2>3. QED
      BY <2>1, <2>2
  <1>7. QED
    BY <1>2, <1>4, <1>5, <1>6 DEF Rotation

-----------------------------------------------------------------------------
(* The theorem.                                                            *)

LEMMA InitRotation == Init => Rotation
  <1> SUFFICES ASSUME Init PROVE Rotation
    OBVIOUS
  <1>1. Minted = {}
    BY DEF Init, Minted
  <1>2. \A r \in Requests : Rotating(req[r])
    BY ConstantTypes DEF Init, Rotating, RefreshSteps
  <1>3. ~degraded => redis = "up"
    BY DEF Init
  <1>4. QED
    BY <1>1, <1>2, <1>3 DEF Rotation, ParentsMinted, ParentsSpent, PairedOnce

LEMMA NextRotation == Inv /\ Rotation /\ [Next]_vars => Rotation'
  <1> SUFFICES ASSUME Inv, Rotation, [Next]_vars
               PROVE  Rotation'
    OBVIOUS
  <1>1. CASE Environment
    BY <1>1, EnvironmentRotation
  <1>2. ASSUME NEW r \in Requests,
               AuthStep(r) \/ AccountStep(r) \/ AdminStep(r) \/ RedisStep(r)
        PROVE  Rotation'
    BY <1>2, AuthRotation, ServicesRotation, ExistsRotation, SetexRotation, OtherRotation
       DEF RedisStep
  <1>3. CASE UNCHANGED vars
    BY <1>3 DEF vars, Rotation, Rotating, ParentsMinted, ParentsSpent, PairedOnce,
       Successor, Spent, Minted
  <1>4. QED
    BY <1>1, <1>2, <1>3 DEF Next

\* While Redis has always answered, two pairs are made from one refresh token
\* only by requests that overlap, or in its last second: the second request
\* came in before the first pair was made.
THEOREM RotatesOnce == Spec => []RotatedOnce
  <1>1. Init => Inv /\ Rotation
    BY InitInv, InitRotation
  <1>2. Inv /\ Rotation /\ [Next]_vars => (Inv /\ Rotation)'
    BY NextInv, NextRotation
  <1>3. Inv /\ Rotation => RotatedOnce
    <2> SUFFICES ASSUME Inv, Rotation, ~degraded, NEW r \in Granted, NEW i \in Minted,
                        tokens[i].type = "refresh", tokens[i].origin.parent = req[r].jti,
                        ~(req[r].began < i)
                 PROVE  tokens[req[r].jti].exp - clock < TicksPerSecond
      BY DEF Rotation, RotatedOnce, GrantedOnce, PairedOnce
    <2>1. /\ r \in Requests
          /\ req[r].pc \in RefreshSteps
          /\ \/ req[r].pc = "refresh_mint"
             \/ req[r].pc = "refresh_check" /\ req[r].call = "answered" /\ ~req[r].answer
      BY DEF Granted, MayRefresh, RefreshSteps
    <2>2. req[r].jti \in Minted /\ req[r].began \in Nat /\ i \in Nat
      BY <2>1, InvFacts DEF Sound, RefreshSteps, TokenSteps, Minted
    <2>3. i <= req[r].began /\ Successor(i, req[r].jti)
      BY <2>2 DEF Successor
    <2>4. tokens[req[r].jti].exp < clock + TicksPerSecond
      BY <2>1, <2>3 DEF Rotation, Rotating
    <2>5. tokens[req[r].jti].exp \in Int
      BY <2>2, TokenFacts
    <2>6. clock \in Nat /\ TicksPerSecond \in Nat
      BY <2>1, InvFacts, TicksAssumption
    <2>7. QED
      BY <2>4, <2>5, <2>6
  <1>4. QED
    BY <1>1, <1>2, <1>3, PTL DEF Spec

-----------------------------------------------------------------------------
(* TokenSessions implements RefreshGate.                                   *)

\* Whether or not Redis has failed: a request at the check of its token, a refresh
\* token, has asked about that token, and one at the mint added to the blacklist.
Asking(q) ==
    /\ q.pc = "refresh_check" => q.call \in {"exists", "answered"}
    /\ q.pc = "refresh_mint" => q.call \in {"setex", "answered"}
    /\ q.pc = "refresh_check" => tokens[q.jti].type = "refresh"
    /\ q.pc = "refresh_check" /\ q.call = "exists" => q.target = q.jti

Askers == \A r \in Requests : Asking(req[r])

LEMMA AskingStays ==
    ASSUME Inv, [Next]_vars, NEW s \in Requests, Asking(req[s]), req'[s] = req[s]
    PROVE  Asking(req[s])'
  <1>1. req[s].pc = "refresh_check" => req[s].jti \in Minted
    BY InvFacts DEF Sound, TokenSteps
  <1>2. QED
    BY <1>1, TokensStay DEF Asking

LEMMA GoesAsking ==
    ASSUME Inv, Askers, [Next]_vars, NEW r \in Requests, NEW q, Goes(r, q),
           \/ q.pc \notin RefreshSteps
           \/ Asking(q) /\ tokens' = tokens
    PROVE  Askers'
  <1>1. req'[r] = q /\ \A s \in Requests : s # r => req'[s] = req[s]
    BY InvFacts DEF Goes
  <1>2. Asking(req[r])'
    BY <1>1 DEF Asking, RefreshSteps
  <1>3. \A s \in Requests : s # r => Asking(req[s])'
    BY <1>1, AskingStays DEF Askers
  <1>4. QED
    BY <1>2, <1>3 DEF Askers

LEMMA AskAsking ==
    ASSUME Inv, NEW q \in Request, NEW r \in Requests, NEW j,
           \/ /\ q.pc = "refresh_check" /\ q.jti = j /\ tokens[j].type = "refresh"
              /\ AskBlacklist(r, q, j)
           \/ q.pc = "refresh_mint" /\ AddToBlacklist(r, q, j)
    PROVE  \E p : Goes(r, p) /\ Asking(p)
  <1>1. (q.pc = "refresh_check" => q.jti = j /\ tokens[j].type = "refresh")
        => Asking([q EXCEPT !.call = "answered"])
    BY DEF Asking, Request
  <1>2. q.pc = "refresh_check" /\ q.jti = j /\ tokens[j].type = "refresh"
        => Asking(Calls(q, "exists", j, 0))
    BY DEF Asking, Calls, Request
  <1>3. \A ttl : q.pc = "refresh_mint" => Asking(Calls(q, "setex", j, ttl))
    BY DEF Asking, Calls, Request
  <1>4. QED
    BY <1>1, <1>2, <1>3 DEF AskBlacklist, AddToBlacklist, Skip

LEMMA NextAskers == Inv /\ Askers /\ [Next]_vars => Askers'
  <1> SUFFICES ASSUME Inv, Askers, [Next]_vars
               PROVE  Askers'
    OBVIOUS
  <1>1. CASE Restart
    BY <1>1, ConstantTypes DEF Restart, Askers, Asking
  <1>2. CASE UNCHANGED req
    BY <1>2, AskingStays DEF Askers
  <1>3. ASSUME NEW r \in Requests, NEW S, Moves(r, S), S \intersect RefreshSteps = {}
        PROVE  Askers'
    <2>1. Asking(req[r])'
      BY <1>3 DEF Moves, Asking, RefreshSteps
    <2>2. \A s \in Requests : s # r => Asking(req[s])'
      BY <1>3, AskingStays DEF Moves, Askers
    <2>3. QED
      BY <2>1, <2>2 DEF Askers
  <1>4. ASSUME NEW r \in Requests, NEW j \in Minted, RefreshRead(r, j)
        PROVE  Askers'
    <2>1. PICK b : b = [Begin(r, "refresh_check", tokens[j].sub) EXCEPT
                           !.jti = j, !.row = users[tokens[j].sub]]
      OBVIOUS
    <2>2. Fresh(b, "refresh_check", tokens[j].sub, j)
      BY <2>1, TokenFacts, BeginRefreshFresh DEF Steps
    <2>3. AskBlacklist(r, b, j) /\ tokens[j].type = "refresh" /\ tokens' = tokens
      BY <1>4, <2>1 DEF RefreshRead, Decodes, ledger
    <2>4. PICK p : Goes(r, p) /\ Asking(p)
      BY <2>2, <2>3, AskAsking DEF Fresh
    <2>5. QED
      BY <2>3, <2>4, GoesAsking
  <1>5. ASSUME NEW r \in Requests, RefreshCheck(r)
        PROVE  Askers'
    <2>1. PICK b : b = [req[r] EXCEPT !.pc = "refresh_mint"]
      OBVIOUS
    <2>2. b \in Request /\ b.pc = "refresh_mint"
      BY <2>1, InvFacts, NextAlike DEF Steps
    <2>3. AddToBlacklist(r, b, req[r].jti) /\ tokens' = tokens
      BY <1>5, <2>1 DEF RefreshCheck, ledger
    <2>4. PICK p : Goes(r, p) /\ Asking(p)
      BY <2>2, <2>3, AskAsking
    <2>5. QED
      BY <2>3, <2>4, GoesAsking
  <1>6. ASSUME NEW r \in Requests, RedisStep(r)
        PROVE  Askers'
    <2>1. PICK p : Alike(p, req[r]) /\ Goes(r, p)
      BY <1>6, RedisAlike
    <2>2. p.call = "answered"
      <3>1. req[r] \in Request /\ \A q : Goes(r, q) => req'[r] = q
        BY InvFacts DEF Goes
      <3>2. \A answer : [req[r] EXCEPT !.call = "answered", !.target = 0,
                                      !.answer = answer].call = "answered"
        BY <3>1 DEF Request
      <3>3. [req[r] EXCEPT !.call = "answered", !.target = 0, !.ttl = 0].call = "answered"
        BY <3>1 DEF Request
      <3>4. [req[r] EXCEPT !.call = "answered"].call = "answered"
        BY <3>1 DEF Request
      <3>5. req'[r].call = "answered"
        BY <1>6, <3>1, <3>2, <3>3, <3>4 DEF RedisStep, RedisExists, RedisSetex, RedisOther
      <3>6. QED
        BY <2>1, <3>1, <3>5
    <2>3. Asking(p) /\ tokens' = tokens
      BY <1>6, <2>1, <2>2
         DEF Askers, Asking, Alike, RedisStep, RedisExists, RedisSetex, RedisOther, ledger
    <2>4. QED
      BY <2>1, <2>3, GoesAsking
  <1>7. /\ OtherAuthSteps \intersect RefreshSteps = {}
        /\ AccountSteps \intersect RefreshSteps = {}
        /\ AdminSteps \intersect RefreshSteps = {}
    BY DEF OtherAuthSteps, AccountSteps, AdminSteps, RefreshSteps
  <1>8. ASSUME NEW r \in Requests, AuthStep(r) \/ AccountStep(r) \/ AdminStep(r)
        PROVE  Askers'
    BY <1>3, <1>4, <1>5, <1>7, <1>8, AuthMoves, AccountMoves, AdminMoves
  <1>9. CASE Environment
    BY <1>1, <1>2, <1>9 DEF Environment, Tick, RedisFails, RedisRecovers
  <1>10. QED
    BY <1>2, <1>6, <1>8, <1>9 DEF Next, vars

-----------------------------------------------------------------------------
(* What a step of one request does to the gate.                            *)

\* W and V hold <<slot, token>> for the slots in A and in B, which differ in r.
LEMMA SlotSets ==
    ASSUME NEW S, NEW r \in S, NEW A \in SUBSET S, NEW B \in SUBSET S,
           NEW f, NEW g,
           \A s \in S : s # r => (s \in B <=> s \in A) /\ g[s] = f[s]
    PROVE  LET W == {<<s, f[s]>> : s \in A}
               V == {<<s, g[s]>> : s \in B}
           IN  /\ r \notin A /\ r \notin B => V = W
               /\ r \notin A /\ r \in B => V = W \union {<<r, g[r]>>}
               /\ r \in A /\ r \notin B => V = W \ {<<r, f[r]>>}
               /\ r \in A /\ r \in B /\ g[r] = f[r] => V = W
  OBVIOUS

LEMMA SlotMoves ==
    ASSUME Inv, NEW r \in Requests, \A s \in Requests : s # r => req'[s] = req[s],
           \A j \in Minted : tokens'[j] = tokens[j]
    PROVE  /\ r \notin Asked /\ r \notin Asked' => Waiting' = Waiting
           /\ r \notin Asked /\ r \in Asked' => Waiting' = Waiting \union {<<r, req'[r].jti>>}
           /\ r \in Asked /\ r \notin Asked' => Waiting' = Waiting \ {<<r, req[r].jti>>}
           /\ r \notin Granted /\ r \notin Granted' => Vetted' = Vetted
           /\ r \notin Granted /\ r \in Granted' => Vetted' = Vetted \union {<<r, req'[r].jti>>}
           /\ r \in Granted /\ r \notin Granted' => Vetted' = Vetted \ {<<r, req[r].jti>>}
           /\ r \in Granted /\ r \in Granted' /\ req'[r].jti = req[r].jti => Vetted' = Vetted
  <1>1. ASSUME NEW s \in Requests, s # r
        PROVE  /\ s \in Asked' <=> s \in Asked
               /\ s \in Granted' <=> s \in Granted
               /\ req'[s].jti = req[s].jti
    <2>1. req'[s] = req[s] /\ (req[s].pc \in RefreshSteps => req[s].jti \in Minted)
      BY <1>1, InvFacts DEF Sound, TokenSteps, RefreshSteps
    <2>2. req[s].pc \in RefreshSteps => OfToday(s)' = OfToday(s)
      BY <2>1 DEF OfToday, Stale, IssuedBefore
    <2>3. req[s].pc = "refresh_check" => MayRefresh(s)' = MayRefresh(s)
      BY <2>1 DEF MayRefresh, Stale, IssuedBefore, RefreshSteps
    <2>4. QED
      BY <2>1, <2>2, <2>3 DEF Asked, Granted, RefreshSteps
  <1>2. Asked \subseteq Requests /\ Granted \subseteq Requests
        /\ Asked' \subseteq Requests /\ Granted' \subseteq Requests
    BY DEF Asked, Granted
  <1> HIDE DEF Asked, Granted
  <1>3. PICK f : f = [s \in Requests |-> req[s].jti]
    OBVIOUS
  <1>4. PICK g : g = [s \in Requests |-> req'[s].jti]
    OBVIOUS
  <1>5. /\ \A s \in Requests : f[s] = req[s].jti /\ g[s] = req'[s].jti
        /\ \A s \in Requests : s # r => g[s] = f[s]
    BY <1>1, <1>3, <1>4
  <1>6. /\ Waiting = {<<s, f[s]>> : s \in Asked} /\ Waiting' = {<<s, g[s]>> : s \in Asked'}
        /\ Vetted = {<<s, f[s]>> : s \in Granted} /\ Vetted' = {<<s, g[s]>> : s \in Granted'}
    BY <1>2, <1>5 DEF Waiting, Vetted
  <1>7. QED
    <2>1. PICK A, B : A = Asked /\ B = Asked'
      OBVIOUS
    <2>2. PICK C, D : C = Granted /\ D = Granted'
      OBVIOUS
    <2>3. \A s \in Requests : s # r => /\ s \in B <=> s \in A
                                       /\ s \in D <=> s \in C
      BY <1>1, <2>1, <2>2
    <2>4. A \in SUBSET Requests /\ B \in SUBSET Requests
          /\ C \in SUBSET Requests /\ D \in SUBSET Requests
      BY <1>2, <2>1, <2>2
    <2>5. /\ r \notin A /\ r \notin B => Waiting' = Waiting
          /\ r \notin A /\ r \in B => Waiting' = Waiting \union {<<r, g[r]>>}
          /\ r \in A /\ r \notin B => Waiting' = Waiting \ {<<r, f[r]>>}
      BY <1>5, <1>6, <2>1, <2>3, <2>4, SlotSets
    <2>6. /\ r \notin C /\ r \notin D => Vetted' = Vetted
          /\ r \notin C /\ r \in D => Vetted' = Vetted \union {<<r, g[r]>>}
          /\ r \in C /\ r \notin D => Vetted' = Vetted \ {<<r, f[r]>>}
          /\ r \in C /\ r \in D /\ g[r] = f[r] => Vetted' = Vetted
      BY <1>5, <1>6, <2>2, <2>3, <2>4, SlotSets
    <2>7. QED
      BY <1>5, <2>1, <2>2, <2>5, <2>6

GateStep == [Gate!Next]_(Gate!vars)

LEMMA LedgerStays ==
    ASSUME UNCHANGED <<ledger>>
    PROVE  /\ RefreshTokens' = RefreshTokens /\ Exchanged' = Exchanged
           /\ Minted' = Minted /\ tokens' = tokens
           /\ revoked' = revoked => Revoked' = Revoked
           /\ clock' = clock => Lapsing' = Lapsing
           /\ clock' = clock /\ users' = users => Ended' = Ended
  <1>1. tokens' = tokens /\ Minted' = Minted
    BY DEF ledger, Minted
  <1>2. RefreshTokens' = RefreshTokens
    BY <1>1 DEF RefreshTokens
  <1>3. QED
    BY <1>1, <1>2 DEF Exchanged, Revoked, Lapsing, Ended, SessionEnded, Decodes, Stale,
       IssuedBefore

\* A step of a request that is not at the gate, or leaves it refused, is at most
\* the end of a session;
LEMMA QuietGate ==
    ASSUME Inv, NEW r \in Requests, UNCHANGED <<environment, store, ledger>>,
           \A s \in Requests : s # r => req'[s] = req[s],
           r \notin Asked \union Granted, r \notin Asked' \union Granted'
    PROVE  GateStep
  <1>1. /\ RefreshTokens' = RefreshTokens /\ Exchanged' = Exchanged /\ tokens' = tokens
        /\ Revoked' = Revoked /\ Lapsing' = Lapsing
    BY LedgerStays DEF environment, store
  <1>2. Waiting' = Waiting /\ Vetted' = Vetted
    BY <1>1, SlotMoves
  <1>3. Ended' \subseteq RefreshTokens
    BY <1>1 DEF Ended
  <1>4. Gate!Change
    BY <1>1, <1>2, <1>3 DEF Gate!Change, Gate!marks, Gate!outage, Gate!requests, environment
  <1>5. QED
    BY <1>4 DEF GateStep, Gate!Next

LEMMA MovesGate ==
    ASSUME Inv, NEW r \in Requests, UNCHANGED <<environment, store, ledger>>,
           NEW S, Moves(r, S), S \intersect RefreshSteps = {}, r \notin Asked \union Granted
    PROVE  GateStep
  <1>1. req'[r].pc \notin RefreshSteps
    BY DEF Moves
  <1>2. r \notin Asked' \union Granted'
    BY <1>1 DEF Asked, Granted, RefreshSteps
  <1>3. QED
    BY <1>2, QuietGate DEF Moves

\* a pair is made for whoever has no need of the gate, or was granted it;
LEMMA MintGate ==
    ASSUME Inv, NEW r \in Requests, NEW via \in {"login", "refresh", "google"},
           NEW row \in Row, NEW parent \in Nat, MintPair(r, via, row, parent),
           Finish(r), UNCHANGED <<environment, store, users>>,
           \/ parent = 0 /\ req[r].pc \notin RefreshSteps
           \/ req[r].pc = "refresh_mint" /\ parent = req[r].jti
    PROVE  GateStep
  <1> DEFINE n == issued + 2
  <1>1. /\ issued' = issued + 2 /\ issued \in Nat /\ n \notin Minted /\ n \in Minted'
        /\ \A j \in Minted : tokens'[j] = tokens[j] /\ j \in Minted'
    BY MintPairSound, InvFacts DEF Minted
  <1>2. \A j \in Minted' : j \notin Minted =>
              /\ tokens'[j].origin.parent = parent
              /\ tokens'[j].type = "refresh" => j = n
    BY MintPairOrigin
  <1>3. tokens'[n].type = "refresh"
    <2>1. n \in Jti /\ tokens \in [Jti -> Token]
      BY <1>1, InvFacts, ConstantTypes DEF MintPair, Jti
    <2>2. PICK access, refresh :
              /\ refresh.type = "refresh"
              /\ tokens' = [tokens EXCEPT ![issued + 1] = access, ![n] = refresh]
      BY DEF MintPair, CreateToken
    <2>3. QED
      BY <2>1, <2>2
  <1> HIDE DEF n
  <1>4. \A j : j \in RefreshTokens' <=> j \in RefreshTokens \/ j = n
    BY <1>1, <1>2, <1>3 DEF RefreshTokens
  <1>5. RefreshTokens' = RefreshTokens \union {n} /\ n \notin RefreshTokens
    BY <1>1, <1>4 DEF RefreshTokens
  <1>6. \A j \in RefreshTokens : tokens'[j] = tokens[j]
    BY <1>1 DEF RefreshTokens
  <1>7. Ended' \ {n} = Ended /\ Lapsing' \ {n} = Lapsing
    BY <1>5, <1>6 DEF Ended, Lapsing, SessionEnded, Decodes, Stale, IssuedBefore, environment
  <1>8. Gate!OneMore
    BY <1>5, <1>7 DEF Gate!OneMore
  <1>9. Exchanged' = Exchanged \union ({parent} \ {0})
    BY <1>1, <1>2, <1>3, <1>5, <1>6 DEF Exchanged
  <1>10. Revoked' = Revoked /\ redis' = redis /\ degraded' = degraded
    BY <1>1, <1>5 DEF Revoked, Inv, TypeOK, store, environment
  <1>11. /\ \A s \in Requests : s # r => req'[s] = req[s]
         /\ req'[r].pc = "idle"
    BY InvFacts, ConstantTypes DEF Finish, Goes
  <1>12. r \notin Asked' \union Granted' /\ r \notin Asked
    BY <1>11 DEF Asked, Granted, RefreshSteps
  <1>13. Waiting' = Waiting
    BY <1>1, <1>11, <1>12, SlotMoves
  <1>14. CASE parent = 0 /\ req[r].pc \notin RefreshSteps
    <2>1. r \notin Granted
      BY <1>14 DEF Granted, RefreshSteps
    <2>2. Vetted' = Vetted /\ Exchanged' = Exchanged
      BY <1>1, <1>9, <1>11, <1>12, <1>14, <2>1, SlotMoves
    <2>3. Gate!Issue
      BY <1>8, <1>10, <1>13, <2>2 DEF Gate!Issue, Gate!marks, Gate!outage, Gate!requests
    <2>4. QED
      BY <2>3 DEF GateStep, Gate!Next
  <1>15. CASE req[r].pc = "refresh_mint" /\ parent = req[r].jti
    <2>1. PICK a : a = <<r, parent>>
      OBVIOUS
    <2>2. r \in Granted
      BY <1>15 DEF Granted
    <2>3. a \in Vetted /\ a[2] = parent /\ parent # 0
      <3>1. parent \in Minted
        BY <1>15, InvFacts DEF Sound, TokenSteps
      <3>2. QED
        BY <1>1, <1>15, <2>1, <2>2, <3>1 DEF Vetted, Minted
    <2>4. Vetted' = Vetted \ {a} /\ Exchanged' = Exchanged \union {a[2]}
      BY <1>1, <1>9, <1>11, <1>12, <1>15, <2>1, <2>2, <2>3, SlotMoves
    <2>5. Gate!Exchange(a)
      BY <1>8, <1>10, <1>13, <2>3, <2>4 DEF Gate!Exchange, Gate!outage
    <2>6. QED
      BY <2>3, <2>5 DEF GateStep, Gate!Next
  <1>16. QED
    BY <1>14, <1>15

\* a refresh arrives, unless its session is over when it comes in;
LEMMA ReadGate ==
    ASSUME Inv, NEW r \in Requests, NEW j \in Minted, RefreshRead(r, j)
    PROVE  GateStep
  <1> DEFINE u == tokens[j].sub
  <1>1. PICK b : b = [Begin(r, "refresh_check", u) EXCEPT !.jti = j, !.row = users[u]]
    OBVIOUS
  <1>2. /\ b \in Request /\ b.pc = "refresh_check" /\ b.jti = j
        /\ b.row = users[u] /\ ~b.answer
    <2>1. PICK n : n = Begin(r, "refresh_check", u)
      OBVIOUS
    <2>2. Fresh(n, "refresh_check", u, 0) /\ ~n.answer
      BY <2>1, TokenFacts, BeginFresh, ConstantTypes DEF Begin, NoRequest, Steps, Request
    <2>3. users[u] \in Row /\ j \in Nat
      BY TokenFacts
    <2>4. QED
      BY <1>1, <2>1, <2>2, <2>3 DEF Fresh, Request
  <1>3. /\ req[r].pc = "idle" /\ Decodes(tokens[j], "refresh", clock) /\ users[u].exists
        /\ AskBlacklist(r, b, j) /\ UNCHANGED <<environment, store, ledger, users>>
    BY <1>1 DEF RefreshRead
  <1>4. PICK p : /\ Goes(r, p) /\ p.pc = "refresh_check" /\ p.jti = j
                 /\ p.row = users[u] /\ ~p.answer
                 /\ \/ p.call = "exists"
                    \/ p.call = "answered" /\ redis # "up"
    <2>1. PICK c : c = Calls(b, "exists", j, 0)
      OBVIOUS
    <2>2. /\ c.pc = b.pc /\ c.jti = b.jti /\ c.row = b.row /\ c.answer = b.answer
          /\ c.call = "exists"
      BY <1>2, <2>1 DEF Calls, Request
    <2>3. PICK d : d = [b EXCEPT !.call = "answered"]
      OBVIOUS
    <2>4. /\ d.pc = b.pc /\ d.jti = b.jti /\ d.row = b.row /\ d.answer = b.answer
          /\ d.call = "answered"
      BY <1>2, <2>3 DEF Request
    <2>5. Goes(r, c) \/ (Goes(r, d) /\ redis = "none")
      BY <1>3, <2>1, <2>3 DEF AskBlacklist, Skip
    <2>6. QED
      BY <1>2, <2>2, <2>4, <2>5
  <1>5. req'[r] = p /\ \A s \in Requests : s # r => req'[s] = req[s]
    BY <1>4, InvFacts DEF Goes
  <1>6. /\ RefreshTokens' = RefreshTokens /\ Exchanged' = Exchanged /\ tokens' = tokens
        /\ Revoked' = Revoked /\ Lapsing' = Lapsing /\ Ended' = Ended
    BY <1>3, LedgerStays DEF environment, store
  <1>7. r \notin Asked \union Granted
    BY <1>3 DEF Asked, Granted
  <1>8. CASE Stale(tokens[j], users[u])
    <2>1. ~OfToday(r)' /\ ~MayRefresh(r)' /\ req'[r].pc # "refresh_mint"
      BY <1>4, <1>5, <1>6, <1>8 DEF OfToday, MayRefresh, Stale, IssuedBefore
    <2>2. r \notin Asked' \union Granted'
      BY <2>1 DEF Asked, Granted
    <2>3. QED
      BY <1>3, <1>5, <1>7, <2>2, QuietGate
  <1>9. CASE ~Stale(tokens[j], users[u])
    <2>1. PICK a : a = <<r, j>>
      OBVIOUS
    <2>2. j \in RefreshTokens /\ j \notin Ended /\ a[2] = j
      BY <1>3, <1>9, <2>1 DEF RefreshTokens, Ended, SessionEnded, Decodes
    <2>3. OfToday(r)' /\ MayRefresh(r)'
      BY <1>4, <1>5, <1>6, <1>9 DEF OfToday, MayRefresh, Stale, IssuedBefore
    <2>4. a \notin Waiting \union Vetted
      BY <1>7, <2>1 DEF Waiting, Vetted, Asked, Granted
    <2>5. CASE p.call = "exists"
      <3>1. r \in Asked' /\ r \notin Granted'
        BY <1>4, <1>5, <2>3, <2>5 DEF Asked, Granted
      <3>2. Waiting' = Waiting \union {a} /\ Vetted' = Vetted
        BY <1>4, <1>5, <1>6, <1>7, <2>1, <3>1, SlotMoves
      <3>3. Gate!Arrive(a) /\ a \in Waiting'
        BY <1>3, <1>6, <2>2, <3>2
           DEF Gate!Arrive, Gate!tokens, Gate!marks, Gate!outage, environment
      <3>4. QED
        BY <2>4, <3>3 DEF GateStep, Gate!Next
    <2>6. CASE p.call = "answered" /\ redis # "up"
      <3>1. r \notin Asked' /\ r \in Granted'
        BY <1>4, <1>5, <2>3, <2>6 DEF Asked, Granted
      <3>2. Waiting' = Waiting /\ Vetted' = Vetted \union {a}
        BY <1>4, <1>5, <1>6, <1>7, <2>1, <3>1, SlotMoves
      <3>3. Gate!Arrive(a) /\ a \in Vetted'
        BY <1>3, <1>6, <2>2, <2>6, <3>2
           DEF Gate!Arrive, Gate!tokens, Gate!marks, Gate!outage, environment
      <3>4. QED
        BY <2>4, <3>3 DEF GateStep, Gate!Next
    <2>7. QED
      BY <1>4, <2>5, <2>6
  <1>10. QED
    BY <1>8, <1>9

\* whoever goes on from the check stays granted;
LEMMA GrantedGate ==
    ASSUME Inv, NEW r \in Requests, UNCHANGED <<environment, store, ledger, users>>,
           \A s \in Requests : s # r => req'[s] = req[s],
           r \in Granted, r \in Granted', r \notin Asked, r \notin Asked',
           req'[r].jti = req[r].jti
    PROVE  GateStep
  <1>1. /\ RefreshTokens' = RefreshTokens /\ Exchanged' = Exchanged /\ tokens' = tokens
        /\ Revoked' = Revoked /\ Lapsing' = Lapsing /\ Ended' = Ended
    BY LedgerStays DEF environment, store
  <1>2. Waiting' = Waiting /\ Vetted' = Vetted
    BY <1>1, SlotMoves
  <1>3. QED
    BY <1>1, <1>2
       DEF GateStep, Gate!vars, Gate!tokens, Gate!marks, Gate!outage, Gate!requests, environment

LEMMA CheckGate ==
    ASSUME Inv, NEW r \in Requests, RefreshCheck(r)
    PROVE  GateStep
  <1>1. PICK b : b = [req[r] EXCEPT !.pc = "refresh_mint"]
    OBVIOUS
  <1>2. b \in Request /\ b.pc = "refresh_mint" /\ b.jti = req[r].jti
    BY <1>1, InvFacts, NextAlike DEF Steps
  <1>3. AddToBlacklist(r, b, req[r].jti) /\ UNCHANGED <<environment, store, ledger, users>>
        /\ req[r].pc = "refresh_check" /\ req[r].call = "answered" /\ MayRefresh(r)
    BY <1>1 DEF RefreshCheck, Answered
  <1>4. PICK p : Alike(p, b) /\ Goes(r, p)
    BY <1>2, <1>3, AddAlike
  <1>5. /\ req'[r].pc = "refresh_mint" /\ req'[r].jti = req[r].jti
        /\ \A s \in Requests : s # r => req'[s] = req[s]
    BY <1>2, <1>4, InvFacts DEF Goes, Alike
  <1>6. r \in Granted /\ r \in Granted' /\ r \notin Asked /\ r \notin Asked'
    BY <1>3, <1>5 DEF Granted, Asked
  <1>7. QED
    BY <1>3, <1>5, <1>6, GrantedGate

LEMMA AuthGate ==
    ASSUME Inv, NEW r \in Requests, AuthStep(r)
    PROVE  GateStep
  <1>1. CASE (\E j \in Minted : RefreshRead(r, j)) \/ RefreshCheck(r)
    BY <1>1, ReadGate, CheckGate
  <1>2. CASE LoginMint(r) \/ GoogleMint(r)
    <2>1. req[r].row \in Row /\ 0 \in Nat /\ req[r].pc \notin RefreshSteps
      BY <1>2, InvFacts DEF LoginMint, GoogleMint, RefreshSteps
    <2>2. QED
      BY <1>2, <2>1, MintGate DEF LoginMint, GoogleMint
  <1>3. CASE RefreshMint(r)
    <2>1. req[r].row \in Row /\ req[r].jti \in Nat
      BY InvFacts
    <2>2. QED
      BY <1>3, <2>1, MintGate DEF RefreshMint, Answered
  <1>4. CASE ~((\E j \in Minted : RefreshRead(r, j)) \/ RefreshCheck(r)
               \/ LoginMint(r) \/ GoogleMint(r) \/ RefreshMint(r))
    <2>1. Moves(r, OtherAuthSteps)
      BY <1>4, AuthMoves
    <2>2. UNCHANGED <<environment, ledger, store>>
      BY <1>4 DEF AuthStep, LoginRead, RefreshRefused, Logout, LogoutCookie, LogoutDone,
         GoogleRead
    <2>3. \/ req[r].pc \notin RefreshSteps
          \/ req[r].pc = "refresh_check" /\ req[r].call = "answered" /\ ~MayRefresh(r)
      BY <1>4 DEF AuthStep, LoginRead, RefreshRefused, Logout, LogoutCookie, LogoutDone,
         GoogleRead, Answered, RefreshSteps
    <2>4. r \notin Asked \union Granted
      BY <2>3 DEF Asked, Granted, RefreshSteps
    <2>5. OtherAuthSteps \intersect RefreshSteps = {}
      BY DEF OtherAuthSteps, RefreshSteps
    <2>6. QED
      BY <2>1, <2>2, <2>4, <2>5, MovesGate
  <1>5. QED
    BY <1>1, <1>2, <1>3, <1>4

LEMMA ServicesGate ==
    ASSUME Inv, NEW r \in Requests, AccountStep(r) \/ AdminStep(r)
    PROVE  GateStep
  <1>1. UNCHANGED <<environment, ledger, store>> /\ req[r].pc \notin RefreshSteps
    <2>1. CASE AccountStep(r)
      BY <2>1 DEF AccountStep, Authenticate, AuthRefused, ChangeStart, ChangeStamp,
         ChangeCommit, DeleteStart, DeleteLock, DeleteCookie, DeleteCommit, Answered,
         RefreshSteps
    <2>2. CASE AdminStep(r)
      BY <2>2 DEF AdminStep, RoleRead, RoleStamp, RoleCommit, DisableLock, DisableCommit,
         Enable, ForceStart, ForceLock, ForceStamp, ForceCommit, Answered, RefreshSteps
    <2>3. QED
      BY <2>1, <2>2
  <1>2. r \notin Asked \union Granted
    BY <1>1 DEF Asked, Granted, RefreshSteps
  <1>3. Moves(r, AccountSteps) \/ Moves(r, AdminSteps)
    BY AccountMoves, AdminMoves
  <1>4. /\ AccountSteps \intersect RefreshSteps = {}
        /\ AdminSteps \intersect RefreshSteps = {}
    BY DEF AccountSteps, AdminSteps, RefreshSteps
  <1>5. QED
    BY <1>1, <1>2, <1>3, <1>4, MovesGate

\* EXISTS vets a token, or finds it revoked;
LEMMA ExistsGate ==
    ASSUME Inv, Rotation, Askers, NEW r \in Requests, RedisExists(r)
    PROVE  GateStep
  <1> DEFINE p == req[r].target
  <1>1. PICK b : b = [req[r] EXCEPT !.call = "answered", !.target = 0,
                                    !.answer = Blacklisted(p)]
    OBVIOUS
  <1>2. /\ Goes(r, b) /\ req[r].call = "exists"
        /\ UNCHANGED <<environment, store, ledger, users>>
    BY <1>1 DEF RedisExists
  <1>3. /\ b.pc = req[r].pc /\ b.jti = req[r].jti /\ b.row = req[r].row
        /\ b.call = "answered" /\ b.answer = Blacklisted(p)
    BY <1>1, InvFacts DEF Request
  <1>4. req'[r] = b /\ \A s \in Requests : s # r => req'[s] = req[s]
    BY <1>2, InvFacts DEF Goes
  <1>5. /\ RefreshTokens' = RefreshTokens /\ Exchanged' = Exchanged /\ tokens' = tokens
        /\ Revoked' = Revoked /\ Lapsing' = Lapsing /\ Ended' = Ended
    BY <1>2, LedgerStays DEF environment, store
  <1>6. Asking(req[r]) /\ r \notin Granted
    BY <1>2 DEF Askers, Asking, Granted
  <1>7. r \notin Asked'
    BY <1>3, <1>4 DEF Asked
  <1>8. CASE r \notin Asked
    <2>1. req[r].pc \notin RefreshSteps \/ (req[r].pc = "refresh_check" /\ ~OfToday(r))
      BY <1>2, <1>6, <1>8 DEF Asked, Asking, RefreshSteps
    <2>2. req[r].pc = "refresh_check" => OfToday(r)' = OfToday(r)
      BY <1>3, <1>4, <1>5 DEF OfToday, Stale, IssuedBefore
    <2>3. r \notin Granted'
      BY <1>3, <1>4, <2>1, <2>2 DEF Granted, MayRefresh, OfToday, RefreshSteps
    <2>4. QED
      BY <1>2, <1>4, <1>6, <1>7, <1>8, <2>3, QuietGate
  <1>9. CASE r \in Asked
    <2>1. PICK a : a = <<r, p>>
      OBVIOUS
    <2>2. p = req[r].jti /\ a \in Waiting /\ a[2] = p /\ p \in Minted
      BY <1>6, <1>9, <2>1, InvFacts DEF Waiting, Asked, Asking, Sound
    <2>3. Waiting' = Waiting \ {a}
      BY <1>4, <1>5, <1>7, <1>9, <2>1, <2>2, SlotMoves
    <2>4. r \in Granted' <=> ~Blacklisted(p)
      <3>1. OfToday(r)' = OfToday(r) /\ OfToday(r)
        BY <1>3, <1>4, <1>5, <1>9 DEF OfToday, Stale, IssuedBefore, Asked
      <3>2. QED
        BY <1>3, <1>4, <1>9, <3>1 DEF Granted, MayRefresh, OfToday, Asked
    <2>5. CASE Blacklisted(p)
      <3>1. Vetted' = Vetted
        BY <1>4, <1>5, <1>6, <2>4, <2>5, SlotMoves
      <3>2. Gate!TurnAway(a)
        BY <1>2, <1>5, <2>2, <2>3, <3>1
           DEF Gate!TurnAway, Gate!tokens, Gate!marks, Gate!outage, environment
      <3>3. QED
        BY <2>2, <3>2 DEF GateStep, Gate!Next
    <2>6. CASE ~Blacklisted(p)
      <3>1. Vetted' = Vetted \union {a}
        BY <1>3, <1>4, <1>5, <1>6, <2>1, <2>2, <2>4, <2>6, SlotMoves
      <3>2. /\ blacklist[p] \in Int /\ clock \in Nat /\ tokens[p].exp \in Int
            /\ redis = "up" => ~(clock < blacklist[p])
        BY <2>2, <2>6, TokenFacts DEF Inv, TypeOK, Blacklisted
      <3>3. ASSUME redis = "up", tokens[p].exp < blacklist[p] + TicksPerSecond
                                 \/ tokens[p].exp < clock + TicksPerSecond
            PROVE  tokens[p].exp - clock < TicksPerSecond
        BY <3>2, <3>3, TicksAssumption
      <3>4. ASSUME p \in Revoked, redis = "up" PROVE p \in Lapsing
        <4>1. p \in RefreshTokens /\ tokens[p].exp < blacklist[p] + TicksPerSecond
          BY <3>4 DEF Revoked, Inv, RevokedSound
        <4>2. QED
          BY <3>3, <3>4, <4>1 DEF Lapsing
      <3>5. ASSUME p \in Exchanged, ~degraded PROVE p \in RefreshTokens => p \in Lapsing
        <4>1. redis = "up" /\ ParentsSpent
          BY <3>5 DEF Rotation
        <4>2. \E i \in Minted : Successor(i, p)
          BY <3>5 DEF Exchanged, RefreshTokens, Successor
        <4>3. Spent(p)
          BY <2>2, <4>1, <4>2 DEF ParentsSpent
        <4>4. QED
          BY <3>3, <4>1, <4>3 DEF Spent, Lapsing
      <3>6. p \in RefreshTokens
        BY <1>6, <1>9, <2>2 DEF Asking, Asked, RefreshTokens
      <3>7. Gate!Clean(a[2])
        BY <2>2, <3>4, <3>5, <3>6 DEF Gate!Clean
      <3>8. Gate!Vet(a)
        BY <1>2, <1>5, <2>2, <2>3, <3>1, <3>7
           DEF Gate!Vet, Gate!tokens, Gate!marks, Gate!outage, environment
      <3>9. QED
        BY <2>2, <3>8 DEF GateStep, Gate!Next
    <2>7. QED
      BY <2>5, <2>6
  <1>10. QED
    BY <1>8, <1>9

\* SETEX revokes a token;
LEMMA SetexGate ==
    ASSUME Inv, Askers, NEW r \in Requests, RedisSetex(r)
    PROVE  GateStep
  <1>1. PICK b : Goes(r, b) /\ Alike(b, req[r])
    BY RedisAlike DEF RedisStep
  <1>2. /\ req'[r].pc = req[r].pc /\ req'[r].jti = req[r].jti
        /\ \A s \in Requests : s # r => req'[s] = req[s]
    BY <1>1, InvFacts DEF Goes, Alike
  <1>3. /\ req[r].call = "setex" /\ UNCHANGED <<environment, ledger, users>>
        /\ revoked' = revoked \/ revoked' = revoked \union {req[r].target}
    BY DEF RedisSetex, store
  <1>4. req[r].pc # "refresh_check"
    BY <1>3 DEF Askers, Asking
  <1>5. r \notin Asked /\ r \notin Asked' /\ (r \in Granted <=> r \in Granted')
    BY <1>2, <1>4 DEF Asked, Granted
  <1>6. /\ RefreshTokens' = RefreshTokens /\ Exchanged' = Exchanged /\ tokens' = tokens
        /\ Lapsing' = Lapsing /\ Ended' = Ended
    BY <1>3, LedgerStays DEF environment
  <1>7. Waiting' = Waiting /\ Vetted' = Vetted
    BY <1>2, <1>5, <1>6, SlotMoves
  <1>8. \/ Revoked' = Revoked
        \/ /\ req[r].target \in RefreshTokens
           /\ Revoked' = Revoked \union {req[r].target}
    BY <1>3, <1>6 DEF Revoked
  <1>9. UNCHANGED Gate!vars \/ \E p \in RefreshTokens : Gate!Revoke(p)
    BY <1>3, <1>6, <1>7, <1>8 DEF Gate!vars, Gate!Revoke, Gate!tokens, Gate!marks,
       Gate!outage, Gate!requests, environment
  <1>10. QED
    BY <1>9 DEF GateStep, Gate!Next

LEMMA OtherGate ==
    ASSUME Inv, Askers, NEW r \in Requests, RedisOther(r)
    PROVE  GateStep
  <1>1. PICK b : Goes(r, b) /\ Alike(b, req[r])
    BY RedisAlike DEF RedisStep
  <1>2. /\ req'[r].pc = req[r].pc
        /\ \A s \in Requests : s # r => req'[s] = req[s]
    BY <1>1, InvFacts DEF Goes, Alike
  <1>3. req[r].call = "other" /\ UNCHANGED <<environment, store, ledger>>
    BY DEF RedisOther
  <1>4. req[r].pc \notin RefreshSteps
    BY <1>3 DEF Askers, Asking, RefreshSteps
  <1>5. r \notin Asked \union Granted /\ r \notin Asked' \union Granted'
    BY <1>2, <1>4 DEF Asked, Granted, RefreshSteps
  <1>6. QED
    BY <1>2, <1>3, <1>5, QuietGate

\* time ends sessions, Redis goes and comes back, a restart forgets the requests.
LEMMA EnvironmentGate ==
    ASSUME Inv, Environment
    PROVE  GateStep
  <1>1. /\ RefreshTokens' = RefreshTokens /\ Exchanged' = Exchanged /\ tokens' = tokens
        /\ Revoked' = Revoked
        /\ clock' = clock => Lapsing' = Lapsing /\ Ended' = Ended
    <2>1. UNCHANGED <<ledger, store, users>>
      BY DEF Environment, Tick, RedisFails, RedisRecovers, Restart
    <2>2. QED
      BY <2>1, LedgerStays DEF store
  <1>2. ASSUME UNCHANGED req
        PROVE  Waiting' = Waiting /\ Vetted' = Vetted
    BY <1>1, <1>2 DEF Waiting, Vetted, Asked, Granted, OfToday, MayRefresh, Stale, IssuedBefore
  <1>3. CASE Tick
    <2>1. clock' = clock + 1 /\ clock \in Nat /\ UNCHANGED <<users, redis, degraded, req>>
      BY <1>3 DEF Tick, Inv, TypeOK
    <2>2. \A p \in RefreshTokens : tokens[p].exp \in Int
      BY TokenFacts DEF RefreshTokens
    <2>3. Ended \subseteq Ended' /\ Ended' \subseteq RefreshTokens
      BY <1>1, <2>1, <2>2 DEF Ended, SessionEnded, Decodes, Stale, IssuedBefore
    <2>4. Lapsing \subseteq Lapsing' /\ Lapsing' \subseteq RefreshTokens
      BY <1>1, <2>1, <2>2, TicksAssumption DEF Lapsing
    <2>5. Gate!Lapse
      BY <1>1, <1>2, <2>1, <2>3, <2>4 DEF Gate!Lapse, Gate!marks, Gate!outage, Gate!requests
    <2>6. QED
      BY <2>5 DEF GateStep, Gate!Next
  <1>4. CASE RedisFails \/ RedisRecovers
    <2>1. clock' = clock /\ req' = req /\ (degraded' <=> (degraded \/ redis' # "up"))
          /\ degraded \in BOOLEAN /\ degraded' \in BOOLEAN
      <3>1. degraded \in BOOLEAN
        BY DEF Inv, TypeOK
      <3>2. CASE RedisFails
        BY <3>1, <3>2 DEF RedisFails
      <3>3. CASE RedisRecovers
        BY <3>1, <3>3 DEF RedisRecovers
      <3>4. QED
        BY <1>4, <3>2, <3>3
    <2>2. Gate!Reach
      BY <1>1, <1>2, <2>1 DEF Gate!Reach, Gate!tokens, Gate!marks, Gate!requests
    <2>3. QED
      BY <2>2 DEF GateStep, Gate!Next
  <1>5. CASE Restart
    <2>1. clock' = clock /\ degraded \in BOOLEAN
          /\ (degraded' <=> (degraded \/ redis' # "up")) /\ degraded' \in BOOLEAN
      BY <1>5 DEF Restart, Inv, TypeOK
    <2>2. \A r \in Requests : req'[r].pc = "idle"
      BY <1>5, ConstantTypes DEF Restart
    <2>3. Asked' = {} /\ Granted' = {}
      BY <2>2 DEF Asked, Granted
    <2>4. Waiting' = {} /\ Vetted' = {}
      BY <2>3 DEF Waiting, Vetted
    <2>5. Gate!Reach
      BY <1>1, <2>1, <2>4 DEF Gate!Reach, Gate!tokens, Gate!marks
    <2>6. QED
      BY <2>5 DEF GateStep, Gate!Next
  <1>6. QED
    BY <1>3, <1>4, <1>5 DEF Environment

LEMMA NextGate ==
    ASSUME Inv, Rotation, Askers, [Next]_vars
    PROVE  GateStep
  <1>1. CASE Environment
    BY <1>1, EnvironmentGate
  <1>2. ASSUME NEW r \in Requests,
               AuthStep(r) \/ AccountStep(r) \/ AdminStep(r) \/ RedisStep(r)
        PROVE  GateStep
    BY <1>2, AuthGate, ServicesGate, ExistsGate, SetexGate, OtherGate DEF RedisStep
  <1>3. CASE UNCHANGED vars
    <2>1. /\ RefreshTokens' = RefreshTokens /\ Exchanged' = Exchanged /\ tokens' = tokens
          /\ Revoked' = Revoked /\ Lapsing' = Lapsing /\ Ended' = Ended
      BY <1>3, LedgerStays DEF vars, ledger
    <2>2. Waiting' = Waiting /\ Vetted' = Vetted
      BY <1>3 DEF vars, Waiting, Vetted, Asked, Granted, OfToday, MayRefresh, Stale, IssuedBefore
    <2>3. QED
      BY <1>3, <2>1, <2>2 DEF vars, GateStep, Gate!vars, Gate!tokens, Gate!marks, Gate!outage,
         Gate!requests
  <1>4. QED
    BY <1>1, <1>2, <1>3 DEF Next

LEMMA InitGate == Init => Askers /\ Gate!Init
  <1> SUFFICES ASSUME Init PROVE Askers /\ Gate!Init
    OBVIOUS
  <1>1. Minted = {} /\ revoked = {} /\ (degraded <=> redis # "up")
        /\ \A r \in Requests : req[r].pc = "idle"
    <2>1. Minted = {} /\ revoked = {} /\ \A r \in Requests : req[r].pc = "idle"
      BY ConstantTypes DEF Init, Minted
    <2>2. redis \in {"up", "none"} /\ degraded = (redis = "none")
      BY DEF Init
    <2>3. degraded <=> redis # "up"
      BY <2>2
    <2>4. QED
      BY <2>1, <2>3
  <1>2. RefreshTokens = {} /\ Asked = {} /\ Granted = {}
    BY <1>1 DEF RefreshTokens, Asked, Granted
  <1>3. /\ Ended = {} /\ Lapsing = {} /\ Revoked = {} /\ Exchanged = {}
        /\ Waiting = {} /\ Vetted = {}
    BY <1>2 DEF Ended, Lapsing, Revoked, Exchanged, Waiting, Vetted
  <1>4. degraded \in BOOLEAN
    BY DEF Init
  <1>5. Gate!Init
    BY <1>1, <1>2, <1>3, <1>4 DEF Gate!Init
  <1>6. QED
    BY <1>1, <1>5 DEF Askers, Asking

\* TokenSessions implements RefreshGate: every pair that refresh_access_token makes
\* is in exchange for a refresh token whose session was on when the request came in
\* and that at some instant since was neither revoked nor exchanged, as far as
\* Redis could tell.
THEOREM RefreshesAreGated == Spec => GatedRefresh
  <1>1. Init => Inv /\ Rotation /\ Askers /\ Gate!Init
    BY InitInv, InitRotation, InitGate
  <1>2. Inv /\ Rotation /\ Askers /\ [Next]_vars => (Inv /\ Rotation /\ Askers)'
    BY NextInv, NextRotation, NextAskers
  <1>3. Inv /\ Rotation /\ Askers /\ [Next]_vars => [Gate!Next]_(Gate!vars)
    BY NextGate DEF GateStep
  <1>4. QED
    BY <1>1, <1>2, <1>3, PTL DEF Spec, GatedRefresh, Gate!Spec
=============================================================================
