------------------------- MODULE PasswordReset_proofs -------------------------
(***************************************************************************)
(* Theorems about PasswordReset, for any number of requests at once and    *)
(* any number of tickets: no stale ticket opens an account, and the codes  *)
(* keep the promise of OneTimeCode.                                        *)
(***************************************************************************)
EXTENDS PasswordReset, TLAPS

(***************************************************************************)
(* That only fresh tickets are redeemed is not inductive.  A token is      *)
(* checked before its await and redeemed after it, so what counts is that  *)
(* meanwhile nobody else can change the password: whoever redeems a token  *)
(* holds the users row.                                                    *)
(***************************************************************************)
Bound == {"asking", "forcing", "mailing", "checking", "checked", "redeeming"}

\* Requests under way are about tickets that were issued.
Targets == \A r \in Requests : req[r].pc \in Bound => req[r].ticket \in 1 .. issued

\* What is on record was issued after update_password last ran.
RowsFresh == /\ jti = 0 \/ jti > voided
             /\ code = 0 \/ code > voided

Locking == {"forcing", "redeeming", "deleting"}

Holding == \A r \in Requests :
  /\ req[r].pc \in Locking => holder = r
  /\ At(r, "redeeming") => req[r].ticket > voided

Inv == TypeOK /\ PairTogether /\ Targets /\ RowsFresh /\ Holding /\ OnlyFreshTickets

LEMMA InvInit == Init => Inv
<1> SUFFICES ASSUME Init PROVE Inv
  OBVIOUS
<1>1. NoRequest \in [pc : Steps, ticket : 0 .. MaxTickets]
  BY ResetAssumption DEF NoRequest, Steps
<1>2. req \in [Requests -> [pc : Steps, ticket : 0 .. MaxTickets]]
  BY <1>1 DEF Init
<1>3. {jti, code, mail, voided} \subseteq 0 .. issued /\ issued \in 0 .. MaxTickets
      /\ restarts \in 0 .. MaxRestarts
  BY ResetAssumption DEF Init
<1>3a. TypeOK
  BY <1>2, <1>3, ResetAssumption DEF Init, TypeOK
<1>4. PairTogether /\ Targets /\ RowsFresh /\ Holding /\ OnlyFreshTickets
  BY DEF Init, PairTogether, Targets, RowsFresh, Holding, OnlyFreshTickets, NoRequest,
         Bound, Locking, At
<1> QED
  BY <1>3a, <1>4 DEF Inv

\* The ways a request's record changes.
LEMMA GoesTyped ==
  ASSUME TypeOK, NEW r \in Requests, NEW pc \in Steps, NEW n \in 0 .. MaxTickets,
         Goes(r, pc, n)
  PROVE  /\ req' \in [Requests -> [pc : Steps, ticket : 0 .. MaxTickets]]
         /\ req'[r] = [pc |-> pc, ticket |-> n]
         /\ \A s \in Requests \ {r} : req'[s] = req[s]
BY DEF TypeOK, Goes

LEMMA Numbers ==
  ASSUME TypeOK
  PROVE  /\ MaxTickets \in Nat /\ MaxRestarts \in Nat /\ issued \in Nat
         /\ jti \in Nat /\ code \in Nat /\ voided \in Nat /\ mail \in Nat
         /\ issued <= MaxTickets /\ jti <= issued /\ code <= issued
         /\ voided <= issued /\ mail <= issued
BY ResetAssumption DEF TypeOK

LEMMA HangKeeps == ASSUME Inv, Hang PROVE Inv'
BY DEF Hang, rows, environment, history, Inv, TypeOK, PairTogether, Targets, RowsFresh,
       Holding, OnlyFreshTickets, At

\* A step that only moves one request on, without redeeming anything.
LEMMA MoveKeeps ==
  ASSUME Inv, NEW r \in Requests, NEW pc \in Steps \ {"redeeming"}, NEW n \in 0 .. issued,
         Goes(r, pc, n), pc \in Bound => n # 0, pc \in Locking => holder' = r,
         holder' \in {holder, r, Nobody},
         holder' # holder => holder \in {Nobody, r},
         mail' \in 0 .. issued,
         UNCHANGED <<account, rows, environment, history, blacklisted, hung>>
  PROVE  Inv'
<1>0. /\ TypeOK /\ n \in 0 .. MaxTickets
  BY Numbers DEF Inv
<1>1. /\ req' \in [Requests -> [pc : Steps, ticket : 0 .. MaxTickets]]
      /\ req'[r] = [pc |-> pc, ticket |-> n]
      /\ \A s \in Requests \ {r} : req'[s] = req[s]
  BY <1>0, GoesTyped
<1>2. /\ issued' = issued /\ jti' = jti /\ code' = code /\ voided' = voided
      /\ log' = log /\ account' = account /\ redis' = redis
      /\ ending' = ending /\ expired' = expired /\ lapsed' = lapsed
      /\ restarts' = restarts /\ blacklisted' = blacklisted /\ hung' = hung
  BY DEF rows, environment, history
<1>3. TypeOK'
  <2>1. {jti', code', mail', voided'} \subseteq 0 .. issued'
    BY <1>0, <1>2 DEF TypeOK
  <2>2. holder' \in Requests \union {Nobody}
    BY <1>0 DEF TypeOK
  <2> QED
    BY <1>0, <1>1, <1>2, <2>1, <2>2 DEF TypeOK
<1>4. Targets'
  <2>1. pc \in Bound => n \in 1 .. issued
    BY Numbers, <1>0
  <2> QED
    BY <1>1, <1>2, <2>1 DEF Inv, Targets
<1>5. Holding'
  <2> SUFFICES ASSUME NEW s \in Requests, s # r, req'[s].pc \in Locking
               PROVE  /\ holder' = s
                      /\ req'[s].pc = "redeeming" => req'[s].ticket > voided'
    BY <1>1 DEF Holding, At, Locking
  <2>1. req'[s] = req[s] /\ holder = s
        /\ (req[s].pc = "redeeming" => req[s].ticket > voided)
    BY <1>1 DEF Inv, Holding, At
  <2>2. holder' = s
    BY <2>1, ResetAssumption
  <2> QED
    BY <1>2, <2>1, <2>2
<1> QED
  BY <1>2, <1>3, <1>4, <1>5 DEF Inv, PairTogether, RowsFresh, OnlyFreshTickets

\* A new ticket goes on record.
LEMMA StoreKeeps ==
  ASSUME Inv, NEW r \in Requests, ~At(r, "redeeming"), Store(r),
         holder' = holder \/ (holder = r /\ holder' = Nobody)
  PROVE  Inv'
<1>0. TypeOK /\ issued + 1 \in Nat /\ issued + 1 \in 0 .. MaxTickets
      /\ issued' = issued + 1 /\ jti' = issued + 1 /\ code' = issued + 1
      /\ Goes(r, "mailing", issued + 1) /\ "mailing" \in Steps
  BY Numbers DEF Inv, Store, Steps
<1>1. /\ req' \in [Requests -> [pc : Steps, ticket : 0 .. MaxTickets]]
      /\ req'[r] = [pc |-> "mailing", ticket |-> issued + 1]
      /\ \A s \in Requests \ {r} : req'[s] = req[s]
  BY <1>0, GoesTyped
<1>2. /\ voided' = voided /\ log' = log /\ account' = account
      /\ ending' = ending /\ expired' = expired /\ lapsed' = lapsed
      /\ redis' = redis /\ restarts' = restarts /\ blacklisted' = blacklisted
      /\ hung' = hung /\ mail' = mail
  BY DEF Store, environment, history
<1>3. TypeOK'
  <2>1. {jti', code', mail', voided'} \subseteq 0 .. issued'
    BY <1>0, <1>2, Numbers
  <2>2. holder' \in Requests \union {Nobody}
    BY <1>0 DEF TypeOK
  <2> QED
    BY <1>0, <1>1, <1>2, <2>1, <2>2 DEF TypeOK
<1>4. Targets'
  <2> SUFFICES ASSUME NEW s \in Requests, req'[s].pc \in Bound
               PROVE  req'[s].ticket \in 1 .. issued'
    BY DEF Targets
  <2>1. CASE s = r
    BY <1>0, <1>1, <2>1, Numbers
  <2>2. CASE s # r
    <3>1. req[s].ticket \in 1 .. issued
      BY <1>1, <2>2 DEF Inv, Targets
    <3> QED
      BY <1>0, <1>1, <2>2, <3>1, Numbers
  <2> QED
    BY <2>1, <2>2
<1>5. Holding'
  <2> SUFFICES ASSUME NEW s \in Requests, s # r, req'[s].pc \in Locking
               PROVE  /\ holder' = s
                      /\ req'[s].pc = "redeeming" => req'[s].ticket > voided'
    BY <1>1 DEF Holding, At, Locking
  <2>1. req'[s] = req[s] /\ holder = s
        /\ (req[s].pc = "redeeming" => req[s].ticket > voided)
    BY <1>1 DEF Inv, Holding, At
  <2> QED
    BY <1>2, <2>1
<1>6. RowsFresh'
  BY <1>0, <1>2, Numbers DEF RowsFresh
<1>7. PairTogether' /\ OnlyFreshTickets'
  BY <1>0, <1>2 DEF Inv, PairTogether, OnlyFreshTickets
<1> QED
  BY <1>3, <1>4, <1>5, <1>6, <1>7 DEF Inv

\* The password changes while nobody else holds the users row.
LEMMA NewPasswordKeeps ==
  ASSUME Inv, NewPassword, issued' = issued,
         req' \in [Requests -> [pc : Steps, ticket : 0 .. MaxTickets]],
         \A s \in Requests : req'[s] = req[s] \/ req'[s].pc = "idle",
         \A s \in Requests : req'[s].pc \notin Locking,
         holder' \in {holder, Nobody},
         log' \subseteq log \union Entries,
         \A e \in log' : e.ticket > e.voided
  PROVE  Inv'
<1>0. TypeOK
  BY DEF Inv
<1>1. /\ jti' = 0 /\ code' = 0 /\ voided' = issued /\ blacklisted' = blacklisted
      /\ ending' = ending /\ expired' = expired /\ lapsed' = lapsed
      /\ redis' = redis /\ restarts' = restarts /\ hung' = hung /\ mail' = mail
  BY DEF NewPassword, ForgetTickets, environment
<1>2. account' \in AccountStates
  BY <1>0 DEF NewPassword, TypeOK, AccountStates
<1>3. TypeOK'
  <2>1. {jti', code', mail', voided'} \subseteq 0 .. issued'
    BY <1>0, <1>1, Numbers
  <2>2. log' \subseteq Entries
    BY <1>0 DEF TypeOK
  <2>3. holder' \in Requests \union {Nobody}
    BY <1>0 DEF TypeOK
  <2> QED
    BY <1>0, <1>1, <1>2, <2>1, <2>2, <2>3 DEF TypeOK
<1>4. Targets'
  BY DEF Inv, Targets, Bound
<1>5. PairTogether' /\ RowsFresh' /\ Holding' /\ OnlyFreshTickets'
  BY <1>1 DEF PairTogether, RowsFresh, Holding, At, Locking, OnlyFreshTickets
<1> QED
  BY <1>3, <1>4, <1>5 DEF Inv

LEMMA Logged ==
  ASSUME Inv, NEW n \in 1 .. issued, n > voided,
         NEW way \in {"code", "token"}, Redeemed(n, way)
  PROVE  /\ log' \subseteq log \union Entries
         /\ \A e \in log' : e.ticket > e.voided
<1>1. /\ n \in Tickets /\ issued \in Tickets /\ voided \in 0 .. MaxTickets
  BY Numbers DEF Inv, Tickets
<1> QED
  BY <1>1 DEF Redeemed, Entries, Inv, OnlyFreshTickets

\* With the users row free no request is past its lock.
LEMMA NobodyHolds ==
  ASSUME Inv, holder = Nobody
  PROVE  \A s \in Requests : req[s].pc \notin Locking
BY ResetAssumption DEF Inv, Holding

-----------------------------------------------------------------------------
LEMMA InvStep == Inv /\ [Next]_vars => Inv'
<1> SUFFICES ASSUME Inv, [Next]_vars PROVE Inv'
  OBVIOUS
<1>0. TypeOK /\ PairTogether /\ Targets
  BY DEF Inv
<1>a. /\ 0 \in 0 .. issued /\ issued \in 0 .. issued
      /\ jti \in 0 .. issued /\ mail \in 0 .. issued
  BY <1>0, Numbers
<1>b. \A r \in Requests : req[r].pc \in Steps /\ req[r].ticket \in 0 .. MaxTickets
  BY <1>0 DEF TypeOK
<1>1. ASSUME NEW r \in Requests, Ask(r) PROVE Inv'
  <2>1. CASE jti # 0 /\ Goes(r, "asking", jti) /\ UNCHANGED <<account, rows,
                 environment, history, blacklisted, holder, hung, mail>>
    BY <1>a, <2>1, MoveKeeps DEF Steps, Locking
  <2>2. CASE Store(r) /\ UNCHANGED holder
    BY <1>1, <2>2, StoreKeeps DEF Ask, Idle, At
  <2> QED
    BY <1>1, <2>1, <2>2, HangKeeps DEF Ask
<1>2. ASSUME NEW r \in Requests, AskStore(r) PROVE Inv'
  <2>1. CASE Finish(r) /\ UNCHANGED <<account, rows, environment, history,
                 blacklisted, holder, hung, mail>>
    BY <1>a, <2>1, MoveKeeps DEF Finish, Steps, Bound, Locking
  <2>2. CASE Store(r) /\ UNCHANGED holder
    BY <1>2, <2>2, StoreKeeps DEF AskStore, At
  <2> QED
    BY <1>2, <2>1, <2>2, HangKeeps DEF AskStore
<1>3. ASSUME NEW r \in Requests, ForceReset(r) PROVE Inv'
  <2>1. CASE Store(r) /\ UNCHANGED holder
    BY <1>3, <2>1, StoreKeeps DEF ForceReset, Idle, At
  <2>2. CASE holder = Nobody /\ jti # 0 /\ Goes(r, "forcing", jti) /\ holder' = r
             /\ UNCHANGED <<account, rows, environment, history, blacklisted, hung, mail>>
    BY <1>a, <2>2, MoveKeeps DEF Steps
  <2> QED
    BY <1>3, <2>1, <2>2, HangKeeps DEF ForceReset
<1>4. ASSUME NEW r \in Requests, ForceStore(r) PROVE Inv'
  <2>1. holder = r
    BY <1>4 DEF ForceStore, At, Inv, Holding, Locking
  <2> QED
    BY <1>4, <2>1, StoreKeeps DEF ForceStore, At
<1>5. ASSUME NEW r \in Requests, Mail(r) PROVE Inv'
  <2>1. req[r].ticket \in 0 .. issued
    BY <1>5, <1>0, Numbers DEF Mail, At, Targets, Bound
  <2> QED
    BY <1>5, <1>a, <2>1, MoveKeeps DEF Mail, Finish, Steps, Bound, Locking
<1>6. ASSUME NEW r \in Requests, NEW n \in Tickets, RedeemCode(r, n) PROVE Inv'
  <2>1. CASE holder = Nobody /\ NewPassword /\ Redeemed(n, "code") /\ UNCHANGED <<holder, req>>
    <3>1. n \in 1 .. issued /\ n > voided
      BY <1>0, <1>6, Numbers DEF RedeemCode, Inv, RowsFresh
    <3>2. \A s \in Requests : req'[s].pc \notin Locking
      BY <2>1, NobodyHolds
    <3>3. issued' = issued /\ req' = req /\ holder' = holder
      BY <2>1 DEF NewPassword
    <3> QED
      BY <1>0, <2>1, <3>1, <3>2, <3>3, Logged, NewPasswordKeeps DEF TypeOK
  <2> QED
    BY <1>6, <2>1, HangKeeps DEF RedeemCode
<1>7. ASSUME NEW r \in Requests, NEW n \in Tickets, Present(r, n) PROVE Inv'
  <2>1. n \in 0 .. issued /\ n # 0
    BY <1>7, Numbers, <1>0 DEF Present
  <2> QED
    BY <1>7, <1>a, <2>1, MoveKeeps DEF Present, Steps, Locking
<1>8. ASSUME NEW r \in Requests, ExistsAnswers(r) PROVE Inv'
  <2>1. req[r].ticket \in 0 .. issued /\ req[r].ticket # 0
    BY <1>8, <1>0, Numbers DEF ExistsAnswers, At, Targets, Bound
  <2>2. CASE Finish(r)
    BY <1>8, <1>a, <2>2, MoveKeeps DEF ExistsAnswers, Finish, Steps, Bound, Locking
  <2>3. CASE Goes(r, "checked", req[r].ticket)
    BY <1>8, <1>a, <2>1, <2>3, MoveKeeps DEF ExistsAnswers, Steps, Locking
  <2> QED
    BY <1>8, <2>2, <2>3 DEF ExistsAnswers
<1>9. ASSUME NEW r \in Requests, TokenLock(r) PROVE Inv'
  <2>1. CASE Finish(r) /\ UNCHANGED <<account, rows, environment, history, blacklisted,
                 holder, hung, mail>>
    BY <1>a, <2>1, MoveKeeps DEF Finish, Steps, Bound, Locking
  <2>2. CASE /\ holder = Nobody /\ jti = req[r].ticket
             /\ Goes(r, "redeeming", req[r].ticket) /\ holder' = r
             /\ UNCHANGED <<account, rows, environment, history, blacklisted, hung, mail>>
    <3>1. req[r].ticket \in 1 .. issued /\ req[r].ticket > voided
      BY <1>0, <1>9, <2>2, Numbers
         DEF TokenLock, At, Targets, Bound, Inv, RowsFresh
    <3>2. /\ req' \in [Requests -> [pc : Steps, ticket : 0 .. MaxTickets]]
          /\ req'[r] = [pc |-> "redeeming", ticket |-> req[r].ticket]
          /\ \A s \in Requests \ {r} : req'[s] = req[s]
      BY <1>0, <1>b, <2>2, GoesTyped DEF Steps
    <3>3. /\ issued' = issued /\ jti' = jti /\ code' = code /\ voided' = voided
          /\ log' = log /\ account' = account /\ redis' = redis
          /\ ending' = ending /\ expired' = expired /\ lapsed' = lapsed
          /\ restarts' = restarts /\ blacklisted' = blacklisted /\ hung' = hung
          /\ mail' = mail /\ holder' = r
      BY <2>2 DEF rows, environment, history
    <3>4. TypeOK'
      BY <1>0, <3>2, <3>3 DEF TypeOK
    <3>5. Targets'
      BY <1>0, <3>1, <3>2, <3>3 DEF Targets
    <3>6. Holding'
      BY <2>2, <3>1, <3>2, <3>3, NobodyHolds DEF Holding, At, Locking
    <3> QED
      BY <3>3, <3>4, <3>5, <3>6 DEF Inv, PairTogether, RowsFresh, OnlyFreshTickets
  <2>3. CASE /\ holder = Nobody /\ jti = req[r].ticket /\ NewPassword
             /\ Redeemed(jti, "token") /\ Finish(r) /\ UNCHANGED holder
    <3>1. jti \in 1 .. issued /\ jti > voided
      BY <1>0, <1>9, <2>3, Numbers
         DEF TokenLock, At, Targets, Bound, Inv, RowsFresh
    <3>2. /\ req' \in [Requests -> [pc : Steps, ticket : 0 .. MaxTickets]]
          /\ req'[r] = [pc |-> "idle", ticket |-> 0]
          /\ \A s \in Requests \ {r} : req'[s] = req[s]
      BY <1>0, <2>3, Numbers, GoesTyped DEF Finish, Steps
    <3>3. \A s \in Requests : req'[s].pc \notin Locking
      BY <2>3, <3>2, NobodyHolds DEF Locking
    <3>4. issued' = issued /\ holder' = holder
      BY <2>3 DEF NewPassword
    <3> QED
      BY <2>3, <3>1, <3>2, <3>3, <3>4, Logged, NewPasswordKeeps
  <2> QED
    BY <1>9, <2>1, <2>2, <2>3, HangKeeps DEF TokenLock
<1>10. ASSUME NEW r \in Requests, RedeemToken(r) PROVE Inv'
  <2>1. /\ holder = r /\ req[r].ticket > voided /\ req[r].ticket \in 1 .. issued
    BY <1>10, <1>0 DEF RedeemToken, At, Inv, Holding, Locking, Targets, Bound
  <2>2. /\ req' \in [Requests -> [pc : Steps, ticket : 0 .. MaxTickets]]
        /\ req'[r] = [pc |-> "idle", ticket |-> 0]
        /\ \A s \in Requests \ {r} : req'[s] = req[s]
    BY <1>10, <1>0, Numbers, GoesTyped DEF RedeemToken, Finish, Steps
  <2>3. \A s \in Requests : req'[s].pc \notin Locking
    BY <2>1, <2>2 DEF Inv, Holding, Locking
  <2>4. issued' = issued /\ NewPassword /\ holder' = Nobody
        /\ Redeemed(req[r].ticket, "token")
    BY <1>10 DEF RedeemToken, NewPassword
  <2> QED
    BY <2>1, <2>2, <2>3, <2>4, Logged, NewPasswordKeeps
<1>11. ASSUME NEW r \in Requests, ChangePassword(r) PROVE Inv'
  <2>1. CASE holder = Nobody /\ NewPassword /\ UNCHANGED <<holder, req, log>>
    <3>1. \A s \in Requests : req'[s].pc \notin Locking
      BY <2>1, NobodyHolds
    <3>2. issued' = issued /\ req' = req /\ holder' = holder /\ log' = log
      BY <2>1 DEF NewPassword
    <3>3. \A e \in log' : e.ticket > e.voided
      BY <3>2 DEF Inv, OnlyFreshTickets
    <3> QED
      BY <1>0, <2>1, <3>1, <3>2, <3>3, NewPasswordKeeps DEF TypeOK
  <2> QED
    BY <1>11, <2>1, HangKeeps DEF ChangePassword
<1>12. ASSUME NEW r \in Requests, Delete(r) PROVE Inv'
  <2>1. CASE holder = Nobody /\ Goes(r, "deleting", 0) /\ holder' = r
             /\ UNCHANGED <<account, rows, environment, history, blacklisted, hung, mail>>
    BY <1>a, <2>1, MoveKeeps DEF Steps, Bound
  <2> QED
    BY <1>12, <2>1, HangKeeps DEF Delete
<1>13. ASSUME NEW r \in Requests, DeleteCommit(r) PROVE Inv'
  <2>1. holder = r
    BY <1>13 DEF DeleteCommit, At, Inv, Holding, Locking
  <2>2. /\ req' \in [Requests -> [pc : Steps, ticket : 0 .. MaxTickets]]
        /\ req'[r] = [pc |-> "idle", ticket |-> 0]
        /\ \A s \in Requests \ {r} : req'[s] = req[s]
    BY <1>13, <1>0, Numbers, GoesTyped DEF DeleteCommit, Finish, Steps
  <2>3. /\ account' = "gone" /\ jti' = 0 /\ code' = 0 /\ holder' = Nobody
        /\ issued' = issued /\ voided' = voided /\ log' = log
        /\ ending' = ending /\ expired' = expired /\ lapsed' = lapsed
        /\ redis' = redis /\ restarts' = restarts /\ blacklisted' = blacklisted
        /\ hung' = hung /\ mail' = mail
    BY <1>13 DEF DeleteCommit, ForgetTickets, environment, history
  <2>4. TypeOK'
    <3>1. {jti', code', mail', voided'} \subseteq 0 .. issued'
      BY <1>0, <2>3, Numbers
    <3> QED
      BY <1>0, <2>2, <2>3, <3>1 DEF TypeOK, AccountStates
  <2>5. Targets' /\ Holding'
    BY <1>0, <2>1, <2>2, <2>3 DEF Targets, Bound, Inv, Holding, Locking, At
  <2> QED
    BY <2>3, <2>4, <2>5 DEF Inv, PairTogether, RowsFresh, OnlyFreshTickets
<1>14. ASSUME NEW r \in Requests, SetexArrives(r) PROVE Inv'
  <2>1. req[r].ticket \in Tickets
    BY <1>0, <1>14, Numbers DEF SetexArrives, Targets, Bound, Tickets
  <2> QED
    BY <1>0, <1>14, <2>1 DEF SetexArrives, rows, environment, history, Inv, TypeOK,
         PairTogether, Targets, RowsFresh, Holding, At, OnlyFreshTickets
<1>15. CASE RedisChanges
  BY <1>15, <1>0 DEF RedisChanges, rows, clock, history, Inv, TypeOK, PairTogether, Targets,
       RowsFresh, Holding, At, OnlyFreshTickets
<1>16. ASSUME NEW n \in Tickets, LastSecond(n) \/ Expire(n) \/ Lapse(n) PROVE Inv'
  <2>1. /\ ending' \subseteq 1 .. issued /\ expired' \subseteq ending'
        /\ lapsed' \subseteq ending' /\ expired \subseteq expired'
        /\ lapsed \subseteq lapsed'
    BY <1>16, <1>0 DEF LastSecond, Expire, Lapse, TypeOK
  <2>2. UNCHANGED <<account, rows, redis, restarts, history, blacklisted, holder, hung,
                    req, mail>>
    BY <1>16 DEF LastSecond, Expire, Lapse
  <2> QED
    BY <1>0, <2>1, <2>2 DEF rows, history, Inv, TypeOK, PairTogether, Targets, RowsFresh,
         Holding, At, OnlyFreshTickets
<1>17. CASE Restart
  <2>1. /\ req' = [r \in Requests |-> NoRequest] /\ holder' = Nobody /\ hung' = FALSE
        /\ issued' = issued /\ voided' = voided /\ log' = log
        /\ ending' = ending /\ expired' = expired /\ lapsed' = lapsed
        /\ redis' = redis /\ blacklisted' = blacklisted /\ mail' = mail
        /\ account' = account /\ restarts < MaxRestarts /\ restarts' = restarts + 1
        /\ jti' = (IF jti \in expired THEN 0 ELSE jti)
        /\ code' = (IF code \in lapsed THEN 0 ELSE code)
    BY <1>17 DEF Restart, clock, history
  <2>2. NoRequest \in [pc : Steps, ticket : 0 .. MaxTickets]
        /\ NoRequest.pc \notin Bound /\ NoRequest.pc \notin Locking
    BY <1>0, Numbers DEF NoRequest, Steps, Bound, Locking
  <2>3. TypeOK'
    <3>1. {jti', code', mail', voided'} \subseteq 0 .. issued'
      BY <1>0, <2>1, Numbers
    <3>2. restarts' \in 0 .. MaxRestarts
      BY <1>0, <2>1, Numbers DEF TypeOK
    <3>3. req' \in [Requests -> [pc : Steps, ticket : 0 .. MaxTickets]]
      BY <2>1, <2>2
    <3> QED
      BY <1>0, <2>1, <3>1, <3>2, <3>3 DEF TypeOK
  <2>4. Targets' /\ Holding'
    BY <2>1, <2>2 DEF Targets, Holding, Locking, At
  <2> QED
    BY <2>1, <2>3, <2>4 DEF Inv, PairTogether, RowsFresh, OnlyFreshTickets
<1>18. CASE UNCHANGED vars
  BY <1>18, <1>0 DEF vars, Inv, TypeOK, PairTogether, Targets, RowsFresh, Holding, At,
       OnlyFreshTickets
<1>19. ASSUME AcceptInvite \/ Verify PROVE Inv'
  BY <1>19, <1>0 DEF AcceptInvite, Verify, AccountStates, rows, environment, history, Inv,
       TypeOK, PairTogether, Targets, RowsFresh, Holding, At, OnlyFreshTickets
<1> QED
  BY <1>1, <1>2, <1>3, <1>4, <1>5, <1>6, <1>7, <1>8, <1>9, <1>10, <1>11, <1>12, <1>13,
     <1>14, <1>15, <1>16, <1>17, <1>18, <1>19 DEF Next

LEMMA InvHolds == Spec => []Inv
BY InvInit, InvStep, PTL DEF Spec

\* The state is well typed, whatever Redis, the clock and restarts do.
THEOREM TypeCorrect == Spec => []TypeOK
BY InvHolds, PTL DEF Inv

\* The rows on record are of one ticket; one is there without the other only
\* after a clean-up between the ends of the two.
THEOREM PairsStayTogether == Spec => []PairTogether
BY InvHolds, PTL DEF Inv

\* No ticket opens an account whose password was reset or changed by its owner
\* since the ticket was issued; above all none is redeemed twice.
THEOREM OnlyFreshTicketsRedeemed == Spec => []OnlyFreshTickets
BY InvHolds, PTL DEF Inv

-----------------------------------------------------------------------------
(***************************************************************************)
(* Refinement: every step is one of OneTimeCode's or leaves its variables  *)
(* alone.  A token that is redeemed withdraws the code of its ticket.      *)
(***************************************************************************)
Still == UNCHANGED <<code, issued, lapsed, log>>

LEMMA Simulation ==
  ASSUME Inv, [Next]_vars
  PROVE  [Abstract!Next]_(Abstract!vars)
<1>0. TypeOK
  BY DEF Inv
<1>1. Still => UNCHANGED Abstract!vars
  BY DEF Still, Abstract!vars, RedeemedCodes
<1>2. ASSUME NEW r \in Requests, Store(r) PROVE Abstract!Issue
  <2>1. /\ issued \in Nat /\ issued' = issued + 1 /\ code' = issued'
        /\ lapsed' = lapsed /\ log' = log
    BY <1>0, <1>2, Numbers DEF Store, environment, history
  <2>2. /\ code' # 0 /\ code' \notin 1 .. issued
        /\ 1 .. issued' = (1 .. issued) \union {code'}
    BY <2>1
  <2> QED
    BY <2>1, <2>2 DEF Abstract!Issue, RedeemedCodes
<1>3. Hang => Still
  BY DEF Hang, rows, environment, history, Still
<1>4. ASSUME NEW r \in Requests, Ask(r) \/ AskStore(r) \/ ForceReset(r) \/ ForceStore(r)
      PROVE  Still \/ Abstract!Issue
  BY <1>2, <1>3, <1>4
     DEF Ask, AskStore, ForceReset, ForceStore, rows, environment, history, Still
<1>5. NewPassword /\ UNCHANGED RedeemedCodes => Abstract!Withdraw
  BY DEF NewPassword, ForgetTickets, environment, Abstract!Withdraw
<1>6. ASSUME NEW r \in Requests, NEW n \in Tickets, RedeemCode(r, n)
      PROVE  Still \/ Abstract!Redeem
  <2>1. CASE holder = Nobody /\ n \notin lapsed /\ NewPassword /\ Redeemed(n, "code")
    <3> DEFINE new == [ticket |-> n, way |-> "code", voided |-> voided]
    <3>0. log' = log \union {new} /\ new.ticket = code /\ new.way = "code"
      BY <1>6, <2>1 DEF RedeemCode, Redeemed
    <3> HIDE DEF new
    <3>1. RedeemedCodes' = RedeemedCodes \union {code}
      BY <3>0 DEF RedeemedCodes
    <3> QED
      BY <1>6, <2>1, <3>1
         DEF RedeemCode, NewPassword, ForgetTickets, environment, Abstract!Redeem
  <2> QED
    BY <1>3, <1>6, <2>1 DEF RedeemCode
<1>7. ASSUME NEW r \in Requests, ChangePassword(r) PROVE Still \/ Abstract!Withdraw
  BY <1>3, <1>5, <1>7 DEF ChangePassword, RedeemedCodes
<1>8. ASSUME NEW r \in Requests, DeleteCommit(r) PROVE Abstract!Withdraw
  BY <1>8 DEF DeleteCommit, ForgetTickets, environment, history, Abstract!Withdraw,
              RedeemedCodes
<1>9. ASSUME NEW r \in Requests,
             Mail(r) \/ Delete(r) \/ SetexArrives(r) \/ ExistsAnswers(r)
      PROVE  Still
  BY <1>3, <1>9
     DEF Mail, Delete, SetexArrives, ExistsAnswers, rows, environment, history, Still
<1>10. ASSUME NEW r \in Requests, NEW n \in Tickets, Present(r, n) PROVE Still
  BY <1>10 DEF Present, rows, environment, history, Still
\* A token that is redeemed is not a code that is.
<1>a. ASSUME NEW n, NewPassword, Redeemed(n, "token") PROVE Abstract!Withdraw
  <2> DEFINE new == [ticket |-> n, way |-> "token", voided |-> voided]
  <2>1. log' = log \union {new} /\ new.way # "code"
    BY <1>a DEF Redeemed
  <2> HIDE DEF new
  <2>2. UNCHANGED RedeemedCodes
    BY <2>1 DEF RedeemedCodes
  <2> QED
    BY <1>5, <1>a, <2>2
<1>11. ASSUME NEW r \in Requests, RedeemToken(r) PROVE Abstract!Withdraw
  BY <1>a, <1>11 DEF RedeemToken
<1>12. ASSUME NEW n \in Tickets, LastSecond(n) \/ Expire(n) \/ Lapse(n)
       PROVE  Still \/ Abstract!Lapse
  BY <1>0, <1>12 DEF LastSecond, Expire, Lapse, rows, history, Still, Abstract!Lapse,
       RedeemedCodes, TypeOK
<1>13. RedisChanges => Still
  BY DEF RedisChanges, rows, clock, history, Still
<1>14. Restart => Still \/ Abstract!Withdraw
  BY DEF Restart, clock, history, Still, Abstract!Withdraw, RedeemedCodes
<1>15. UNCHANGED vars => Still
  BY DEF vars, Still
<1>16. ASSUME NEW r \in Requests, TokenLock(r) PROVE Still \/ Abstract!Withdraw
  <2>1. CASE NewPassword /\ Redeemed(jti, "token")
    BY <1>a, <2>1
  <2> QED
    BY <1>3, <1>16, <2>1 DEF TokenLock, rows, environment, history, Still
<1>17. AcceptInvite \/ Verify => Still
  BY DEF AcceptInvite, Verify, rows, environment, history, Still
<1> QED
  BY <1>1, <1>4, <1>6, <1>7, <1>8, <1>9, <1>10, <1>11, <1>12, <1>13, <1>14, <1>15,
     <1>16, <1>17 DEF Next, Abstract!Next

\* PasswordReset implements OneTimeCode: of the codes of an account only the
\* one on record is redeemed, and once, whatever tokens are redeemed beside.
THEOREM ImplementsOneTimeCode == Spec => OneCodeAtATime
<1>1. Init => Abstract!Init
  BY DEF Init, Abstract!Init, RedeemedCodes
<1>2. Inv /\ [Next]_vars => [Abstract!Next]_(Abstract!vars)
  BY Simulation
<1> QED
  BY <1>1, <1>2, InvHolds, PTL DEF Spec, OneCodeAtATime, Abstract!Spec

-----------------------------------------------------------------------------
(***************************************************************************)
(* Mails.  A ticket is put on record in the slice that goes on to mail it, *)
(* and sending keeps the event loop: nothing that changes what is on       *)
(* record comes in between, although other requests wait in all places.    *)
(***************************************************************************)
NobodyMails == \A s \in Requests : ~At(s, "mailing")

MailsOnRecord == \A r \in Requests : At(r, "mailing") => req[r].ticket = code

MailInv == Inv /\ MailsOnRecord

\* Who may run and is not mailing runs while nobody is.
LEMMA LoopIsFree ==
  ASSUME NEW r \in Requests, LoopFree(r), ~At(r, "mailing")
  PROVE  NobodyMails
BY DEF LoopFree, NobodyMails

LEMMA StoreMails ==
  ASSUME TypeOK, NobodyMails, NEW r \in Requests, Store(r)
  PROVE  MailsOnRecord' /\ mail' = mail
<1>1. req' = [req EXCEPT ![r] = [pc |-> "mailing", ticket |-> issued']]
      /\ code' = issued' /\ mail' = mail
  BY DEF Store, Goes
<1> QED
  BY <1>1 DEF TypeOK, NobodyMails, MailsOnRecord, At

LEMMA MovesWithoutMail ==
  ASSUME TypeOK, NobodyMails, NEW r \in Requests, NEW pc, pc # "mailing", NEW n,
         Goes(r, pc, n)
  PROVE  MailsOnRecord'
BY DEF TypeOK, Goes, NobodyMails, MailsOnRecord, At

LEMMA StaysWithoutMail ==
  ASSUME NobodyMails, req' = req
  PROVE  MailsOnRecord'
BY DEF NobodyMails, MailsOnRecord, At

\* One step: mails stay on record, and what is delivered is.
LEMMA MailStep ==
  ASSUME MailInv, [Next]_vars
  PROVE  MailsOnRecord' /\ (mail' # mail => mail' = code)
<1>0. TypeOK /\ MailsOnRecord
  BY DEF MailInv, Inv
<1>a. NobodyMails /\ Hang => MailsOnRecord' /\ mail' = mail
  BY StaysWithoutMail DEF Hang
<1>1. ASSUME NEW r \in Requests, Ask(r) PROVE MailsOnRecord' /\ mail' = mail
  <2>1. NobodyMails
    BY <1>1, LoopIsFree DEF Ask, Idle, At
  <2>2. CASE Goes(r, "asking", jti) /\ mail' = mail
    BY <1>0, <2>1, <2>2, MovesWithoutMail
  <2> QED
    BY <1>0, <1>a, <1>1, <2>1, <2>2, StoreMails DEF Ask
<1>2. ASSUME NEW r \in Requests, AskStore(r) PROVE MailsOnRecord' /\ mail' = mail
  <2>1. NobodyMails
    BY <1>2, LoopIsFree DEF AskStore, At
  <2>2. CASE Finish(r) /\ mail' = mail
    BY <1>0, <2>1, <2>2, MovesWithoutMail DEF Finish
  <2> QED
    BY <1>0, <1>a, <1>2, <2>1, <2>2, StoreMails DEF AskStore
<1>3. ASSUME NEW r \in Requests, ForceReset(r) PROVE MailsOnRecord' /\ mail' = mail
  <2>1. NobodyMails
    BY <1>3, LoopIsFree DEF ForceReset, Idle, At
  <2>2. CASE Goes(r, "forcing", jti) /\ mail' = mail
    BY <1>0, <2>1, <2>2, MovesWithoutMail
  <2> QED
    BY <1>0, <1>a, <1>3, <2>1, <2>2, StoreMails DEF ForceReset
<1>4. ASSUME NEW r \in Requests, ForceStore(r) PROVE MailsOnRecord' /\ mail' = mail
  <2>1. NobodyMails
    BY <1>4, LoopIsFree DEF ForceStore, At
  <2> QED
    BY <1>0, <1>4, <2>1, StoreMails DEF ForceStore
\* The one step that delivers.
<1>5. ASSUME NEW r \in Requests, Mail(r)
      PROVE  MailsOnRecord' /\ (mail' # mail => mail' = code)
  <2>1. mail' \in {mail, req[r].ticket} /\ req[r].ticket = code
    BY <1>0, <1>5 DEF Mail, MailsOnRecord
  <2>2. \A s \in Requests \ {r} : ~At(s, "mailing")
    BY <1>5 DEF Mail, LoopFree
  <2>3. MailsOnRecord'
    BY <1>0, <1>5, <2>2 DEF Mail, Finish, Goes, TypeOK, MailsOnRecord, At
  <2> QED
    BY <2>1, <2>3
<1>6. ASSUME NEW r \in Requests, NEW n \in Tickets, RedeemCode(r, n)
      PROVE  MailsOnRecord' /\ mail' = mail
  <2>1. NobodyMails
    BY <1>6, LoopIsFree DEF RedeemCode, Idle, At
  <2>2. CASE NewPassword /\ req' = req
    BY <2>1, <2>2, StaysWithoutMail DEF NewPassword
  <2> QED
    BY <1>a, <1>6, <2>1, <2>2 DEF RedeemCode
<1>7. ASSUME NEW r \in Requests, NEW n \in Tickets, Present(r, n)
      PROVE  MailsOnRecord' /\ mail' = mail
  <2>1. NobodyMails
    BY <1>7, LoopIsFree DEF Present, Idle, At
  <2> QED
    BY <1>0, <1>7, <2>1, MovesWithoutMail DEF Present
\* Redis answers while somebody may be mailing, and changes nothing on record.
<1>8. ASSUME NEW r \in Requests, ExistsAnswers(r) PROVE MailsOnRecord' /\ mail' = mail
  <2>1. PICK pc \in {"idle", "checked"}, n \in {0, req[r].ticket} : Goes(r, pc, n)
    BY <1>8 DEF ExistsAnswers, Finish
  <2> QED
    BY <1>0, <1>8, <2>1 DEF ExistsAnswers, rows, Goes, TypeOK, MailsOnRecord, At
<1>9. ASSUME NEW r \in Requests, TokenLock(r) PROVE MailsOnRecord' /\ mail' = mail
  <2>1. NobodyMails
    BY <1>9, LoopIsFree DEF TokenLock, At
  <2>2. CASE Finish(r) /\ mail' = mail
    BY <1>0, <2>1, <2>2, MovesWithoutMail DEF Finish
  <2>3. CASE Goes(r, "redeeming", jti) /\ mail' = mail
    BY <1>0, <2>1, <2>3, MovesWithoutMail
  <2> QED
    BY <1>a, <1>9, <2>1, <2>2, <2>3 DEF TokenLock, NewPassword
<1>10. ASSUME NEW r \in Requests, RedeemToken(r) PROVE MailsOnRecord' /\ mail' = mail
  <2>1. NobodyMails
    BY <1>10, LoopIsFree DEF RedeemToken, At
  <2> QED
    BY <1>0, <1>10, <2>1, MovesWithoutMail DEF RedeemToken, Finish, NewPassword
<1>11. ASSUME NEW r \in Requests, ChangePassword(r) PROVE MailsOnRecord' /\ mail' = mail
  <2>1. NobodyMails
    BY <1>11, LoopIsFree DEF ChangePassword, Idle, At
  <2>2. CASE NewPassword /\ req' = req
    BY <2>1, <2>2, StaysWithoutMail DEF NewPassword
  <2> QED
    BY <1>a, <1>11, <2>1, <2>2 DEF ChangePassword
<1>12. ASSUME NEW r \in Requests, Delete(r) PROVE MailsOnRecord' /\ mail' = mail
  <2>1. NobodyMails
    BY <1>12, LoopIsFree DEF Delete, Idle, At
  <2>2. CASE Goes(r, "deleting", 0) /\ mail' = mail
    BY <1>0, <2>1, <2>2, MovesWithoutMail
  <2> QED
    BY <1>a, <1>12, <2>1, <2>2 DEF Delete
<1>13. ASSUME NEW r \in Requests, DeleteCommit(r) PROVE MailsOnRecord' /\ mail' = mail
  <2>1. NobodyMails
    BY <1>13, LoopIsFree DEF DeleteCommit, At
  <2> QED
    BY <1>0, <1>13, <2>1, MovesWithoutMail DEF DeleteCommit, Finish
<1>14. ASSUME UNCHANGED <<req, code, mail>> PROVE MailsOnRecord' /\ mail' = mail
  BY <1>0, <1>14 DEF MailsOnRecord, At
<1>15. ASSUME NEW r \in Requests, SetexArrives(r) PROVE MailsOnRecord' /\ mail' = mail
  BY <1>14, <1>15 DEF SetexArrives, rows
<1>16. CASE \/ RedisChanges \/ AcceptInvite \/ Verify
            \/ \E n \in Tickets : LastSecond(n) \/ Expire(n) \/ Lapse(n)
  BY <1>14, <1>16 DEF RedisChanges, AcceptInvite, Verify, LastSecond, Expire, Lapse, rows
<1>17. CASE Restart
  BY <1>17 DEF Restart, NoRequest, MailsOnRecord, At
<1>18. CASE UNCHANGED vars
  BY <1>14, <1>18 DEF vars
<1> QED
  BY <1>1, <1>2, <1>3, <1>4, <1>5, <1>6, <1>7, <1>8, <1>9, <1>10, <1>11, <1>12, <1>13,
     <1>15, <1>16, <1>17, <1>18 DEF Next

\* A mail that is delivered brings the code that is on record then, for any
\* number of requests, and with restarts, outages and failing mails.
THEOREM MailsAreCurrent == Spec => MailIsCurrent
<1>1. Init => MailInv
  BY InvInit DEF MailInv, Init, NoRequest, MailsOnRecord, At
<1>2. MailInv /\ [Next]_vars => MailInv'
  BY InvStep, MailStep DEF MailInv
<1>3. MailInv /\ [Next]_vars => [mail' # mail => mail' = code]_vars
  BY MailStep
<1> QED
  BY <1>1, <1>2, <1>3, PTL DEF Spec, MailIsCurrent
=============================================================================
