----------------------- MODULE AccountLifecycle_proofs -----------------------
(***************************************************************************)
(* Theorems about AccountLifecycle, for any number of requests, Google     *)
(* accounts, rows and codes.                                               *)
(***************************************************************************)
EXTENDS AccountLifecycle, TLAPS

Hashes == {"own", "!invited", "!oauth"}
UserRow(u) == [id : 0 .. u, hash : Hashes, verified : BOOLEAN, disabled : BOOLEAN]
Flight(u, c) == [pc : Steps, kind : Kinds, id : 0 .. u, code : 0 .. c, sub : Subs]
Link(u) == [sub : Subs, id : 1 .. u]

-----------------------------------------------------------------------------
\* Types grow with the counters of users and codes.
LEMMA TypesGrow ==
  ASSUME NEW u \in Nat, NEW v \in Nat, u <= v, NEW c \in Nat, NEW d \in Nat, c <= d
  PROVE  /\ UserRow(u) \subseteq UserRow(v)
         /\ Flight(u, c) \subseteq Flight(v, d)
         /\ Link(u) \subseteq Link(v)
<1>1. 0 .. u \subseteq 0 .. v /\ 1 .. u \subseteq 1 .. v /\ 0 .. c \subseteq 0 .. d
  OBVIOUS
<1> QED
  BY <1>1 DEF UserRow, Flight, Link

LEMMA NoRequestTyped ==
  ASSUME NEW u \in Nat, NEW c \in Nat
  PROVE  NoRequest \in Flight(u, c)
<1>1. (CHOOSE g \in Subs : TRUE) \in Subs
  BY LifecycleAssumption
<1>2. 0 \in 0 .. u /\ 0 \in 0 .. c
  OBVIOUS
<1> QED
  BY <1>1, <1>2 DEF NoRequest, Flight, Steps, Kinds

LEMMA CountersTyped ==
  ASSUME TypeOK
  PROVE  /\ users \in Nat /\ codes \in Nat
         /\ user \in UserRow(users) /\ links \subseteq Link(users)
         /\ req \in [Requests -> Flight(users, codes)]
<1>1. MaxUsers \in Nat /\ MaxCodes \in Nat
  BY LifecycleAssumption
<1> QED
  BY <1>1 DEF TypeOK, Ids, Numbers, UserRow, Hashes, Flight, Link

\* What a request becomes is well typed.
LEMMA GoesTyped ==
  ASSUME TypeOK, NEW r \in Requests, NEW u \in Nat, NEW c \in Nat,
         users <= u, codes <= c, NEW q \in Flight(u, c), Goes(r, q)
  PROVE  req' \in [Requests -> Flight(u, c)]
<1>1. req \in [Requests -> Flight(u, c)]
  BY CountersTyped, TypesGrow
<1> QED
  BY <1>1 DEF Goes

LEMMA FinishTyped ==
  ASSUME TypeOK, NEW r \in Requests, Finish(r)
  PROVE  req' \in [Requests -> Flight(users, codes)]
BY CountersTyped, NoRequestTyped, GoesTyped DEF Finish

\* A request that goes on to another step keeps its type.
LEMMA OnTyped ==
  ASSUME TypeOK, NEW r \in Requests, NEW pc \in Steps, NEW id \in 0 .. users,
         Goes(r, [req[r] EXCEPT !.pc = pc, !.id = id])
  PROVE  req' \in [Requests -> Flight(users, codes)]
<1>1. req[r] \in Flight(users, codes)
  BY CountersTyped
<1>2. [req[r] EXCEPT !.pc = pc, !.id = id] \in Flight(users, codes)
  BY <1>1 DEF Flight
<1> QED
  BY <1>2, CountersTyped, GoesTyped

LEMMA StepTyped ==
  ASSUME TypeOK, NEW r \in Requests, NEW pc \in Steps,
         Goes(r, [req[r] EXCEPT !.pc = pc])
  PROVE  req' \in [Requests -> Flight(users, codes)]
<1>1. req[r] \in Flight(users, codes)
  BY CountersTyped
<1>2. [req[r] EXCEPT !.pc = pc] \in Flight(users, codes)
  BY <1>1 DEF Flight
<1> QED
  BY <1>2, CountersTyped, GoesTyped

\* A fresh code is one more, and its request is well typed.
LEMMA FreshTyped ==
  ASSUME TypeOK, Fresh, NEW r \in Requests, NEW kind \in Kinds, NEW pc \in Steps,
         NEW u \in Nat, users <= u, NEW id \in 0 .. u, Goes(r, Sets(kind, id, pc))
  PROVE  /\ codes' = codes + 1 /\ codes' \in Numbers /\ codes' \in Nat
         /\ req' \in [Requests -> Flight(u, codes')]
<1>1. codes \in Nat /\ MaxCodes \in Nat /\ codes' = codes + 1 /\ codes' \in Numbers
  BY LifecycleAssumption, CountersTyped DEF Fresh, Numbers
<1>2. codes' \in Nat /\ codes <= codes' /\ codes + 1 \in 0 .. codes'
  BY <1>1
<1>3. Sets(kind, id, pc) \in Flight(u, codes')
  BY <1>2, NoRequestTyped DEF Sets, Flight
<1> QED
  BY <1>1, <1>2, <1>3, CountersTyped, GoesTyped

LEMMA NewUserTyped ==
  ASSUME TypeOK, NEW hash \in Hashes, NEW verified \in BOOLEAN, NewUser(hash, verified)
  PROVE  /\ users' = users + 1 /\ users' \in Ids /\ users' \in Nat
         /\ users <= users' /\ users' \in 0 .. users' /\ users' \in 1 .. users'
         /\ user' \in UserRow(users') /\ user'.id = users'
         /\ user'.hash = hash /\ user'.verified = verified
         /\ user.id = 0
<1>1. users \in Nat /\ MaxUsers \in Nat /\ users' = users + 1 /\ users' \in Ids
  BY LifecycleAssumption, CountersTyped DEF NewUser, Ids
<1>2. users' \in Nat /\ users <= users' /\ users' \in 0 .. users' /\ users' \in 1 .. users'
  BY <1>1
<1> QED
  BY <1>1, <1>2 DEF NewUser, UserRow

-----------------------------------------------------------------------------
LEMMA TypeInit == Init => TypeOK
<1> SUFFICES ASSUME Init PROVE TypeOK
  OBVIOUS
<1>1. users = 0 /\ codes = 0 /\ 0 \in Ids /\ 0 \in Numbers
  BY LifecycleAssumption DEF Init, Ids, Numbers
<1>2. req \in [Requests -> Flight(0, 0)]
  BY NoRequestTyped DEF Init
<1>3. user \in UserRow(0) /\ row \in [Kinds -> 0 .. 0]
  BY DEF Init, NoUser, UserRow, Hashes
<1>4. issued \in [Kinds -> SUBSET Numbers] /\ used \in [Kinds -> SUBSET Numbers]
  BY DEF Init
<1> QED
  BY <1>1, <1>2, <1>3, <1>4, LifecycleAssumption
     DEF Init, TypeOK, UserRow, Hashes, Flight

\* A request that works on an account knows which.  (Without this, TypeOK is
\* not inductive: a link is to a row that was there.)
Aims == \A r \in Requests :
  req[r].pc \in {"upsert", "insert", "send", "link", "verify"} => req[r].id # 0

\* The users row and its links, the codes on record, and what is history.
Accounts == /\ users \in Ids /\ user \in UserRow(users) /\ links \subseteq Link(users)
Records == /\ row \in [Kinds -> 0 .. codes]
           /\ issued \in [Kinds -> SUBSET Numbers] /\ used \in [Kinds -> SUBSET Numbers]
Past == /\ lapsed \subseteq Numbers /\ delivered \subseteq Numbers /\ accepted \subseteq Ids
        /\ torn \subseteq Ids /\ restarts \in 0 .. MaxRestarts

LEMMA Parts ==
  TypeOK <=> /\ Accounts /\ Records /\ Past
             /\ codes \in Numbers /\ req \in [Requests -> Flight(users, codes)]
BY DEF TypeOK, Accounts, Records, Past, UserRow, Hashes, Link, Flight

LEMMA AccountsStay ==
  ASSUME TypeOK, UNCHANGED <<users, links>>, user' \in UserRow(users)
  PROVE  Accounts'
BY DEF TypeOK, Accounts, Link

LEMMA RecordsStay ==
  ASSUME TypeOK, UNCHANGED actions, codes' \in Nat, codes <= codes'
  PROVE  Records'
<1>1. 0 .. codes \subseteq 0 .. codes'
  BY CountersTyped
<1> QED
  BY <1>1 DEF TypeOK, Records, actions

LEMMA UsedTyped ==
  ASSUME TypeOK, NEW k \in Kinds, row[k] # 0, Used(k), UNCHANGED codes
  PROVE  Records'
<1>1. row[k] \in Numbers /\ 0 \in 0 .. codes
  BY CountersTyped, LifecycleAssumption DEF TypeOK, Numbers
<1> QED
  BY <1>1 DEF TypeOK, Records, Used

LEMMA PutOnRecordTyped ==
  ASSUME TypeOK, NEW r \in Requests, PutOnRecord(r), UNCHANGED <<users, codes>>
  PROVE  Records' /\ req' \in [Requests -> Flight(users, codes)]
<1>1. req[r] \in Flight(users, codes)
  BY CountersTyped
<1>2. req[r].kind \in Kinds /\ req[r].code \in 0 .. codes /\ req[r].code \in Numbers
  BY <1>1, CountersTyped, LifecycleAssumption DEF Flight, TypeOK, Numbers
<1>3. Records'
  BY <1>2 DEF TypeOK, Records, PutOnRecord
<1> QED
  BY <1>3, FinishTyped, StepTyped DEF PutOnRecord, Stored, Steps

LEMMA HalfLinkedTyped ==
  ASSUME TypeOK, NEW R \in SUBSET Requests
  PROVE  HalfLinked(R) \subseteq Ids
<1>1. \A r \in Requests : req[r].id \in 0 .. users
  BY CountersTyped DEF Flight
<1>2. users \in Ids /\ 0 .. users \subseteq Ids
  BY LifecycleAssumption DEF TypeOK, Ids
<1> QED
  BY <1>1, <1>2 DEF HalfLinked

LEMMA TypeStep == TypeOK /\ Aims /\ Next => TypeOK'
<1> SUFFICES ASSUME TypeOK, Aims, Next PROVE TypeOK'
  OBVIOUS
<1> DEFINE Parts2 == /\ Accounts /\ Records /\ Past /\ codes \in Numbers
                     /\ req \in [Requests -> Flight(users, codes)]
<1>0. Parts2' => TypeOK'
  BY DEF TypeOK, Accounts, Records, Past, UserRow, Hashes, Link, Flight
<1>a. /\ users \in Nat /\ codes \in Nat /\ codes \in Numbers /\ codes <= codes
      /\ user \in UserRow(users) /\ Past /\ req \in [Requests -> Flight(users, codes)]
  BY CountersTyped DEF Past, TypeOK
<1>b. UNCHANGED <<lapsed, delivered, accepted, torn, restarts>> => Past'
  BY <1>a DEF Past
<1>c. UNCHANGED <<user, users, links>> => Accounts'
  BY <1>a, AccountsStay
<1>d. UNCHANGED <<actions, codes>> => Records'
  BY <1>a, RecordsStay
<1>1. ASSUME NEW r \in Requests, Signup(r) PROVE Parts2'
  <2>1. NewUser("own", FALSE) /\ Fresh /\ Goes(r, Sets("verification", users', "send"))
    BY <1>1 DEF Signup
  <2>2. users' \in Nat /\ users <= users' /\ users' \in Ids /\ users' \in 0 .. users'
        /\ user' \in UserRow(users')
    BY <2>1, NewUserTyped DEF Hashes
  <2>3. codes' \in Numbers /\ codes' \in Nat /\ codes <= codes'
        /\ req' \in [Requests -> Flight(users', codes')]
    BY <1>a, <2>1, <2>2, FreshTyped DEF Kinds, Steps
  <2>4. Accounts'
    BY <1>1, <1>a, <2>2, CountersTyped, TypesGrow DEF Accounts, Signup
  <2> QED
    BY <1>1, <1>b, <2>3, <2>4, RecordsStay DEF Signup, mails, history
<1>2. ASSUME NEW r \in Requests, Resend(r) PROVE Parts2'
  <2>1. user.id \in 0 .. users
    BY <1>a DEF UserRow
  <2>2. codes' \in Numbers /\ codes' \in Nat /\ codes <= codes'
        /\ req' \in [Requests -> Flight(users, codes')]
    BY <1>2, <1>a, <2>1, FreshTyped DEF Resend, Kinds, Steps
  <2> QED
    BY <1>2, <1>b, <1>c, <2>2, RecordsStay DEF Resend, mails, history
<1>3. ASSUME NEW r \in Requests, Invite(r) PROVE Parts2'
  <2>1. user.id \in 0 .. users
    BY <1>a DEF UserRow
  <2>2. CASE Goes(r, [NoRequest EXCEPT !.pc = "invite"]) /\ UNCHANGED codes
    <3>1. [NoRequest EXCEPT !.pc = "invite"] \in Flight(users, codes)
      BY <1>a, NoRequestTyped DEF Flight, Steps
    <3>2. req' \in [Requests -> Flight(users, codes)]
      BY <1>a, <2>2, <3>1, GoesTyped
    <3> QED
      BY <1>3, <1>a, <1>b, <1>c, <1>d, <2>2, <3>2 DEF Invite, mails, history
  <2>3. CASE Fresh /\ Goes(r, Sets("invite", user.id, "upsert"))
    <3>1. codes' \in Numbers /\ codes' \in Nat /\ codes <= codes'
          /\ req' \in [Requests -> Flight(users, codes')]
      BY <1>a, <2>1, <2>3, FreshTyped DEF Kinds, Steps
    <3> QED
      BY <1>3, <1>b, <1>c, <3>1, RecordsStay DEF Invite, mails, history
  <2> QED
    BY <1>3, <2>2, <2>3 DEF Invite
<1>4. ASSUME NEW r \in Requests, InviteInsert(r) PROVE Parts2'
  <2>1. CASE NewUser("!invited", FALSE) /\ Fresh /\ Goes(r, Sets("invite", users', "upsert"))
    <3>1. users' \in Nat /\ users <= users' /\ users' \in Ids /\ users' \in 0 .. users'
          /\ user' \in UserRow(users')
      BY <2>1, NewUserTyped DEF Hashes
    <3>2. codes' \in Numbers /\ codes' \in Nat /\ codes <= codes'
          /\ req' \in [Requests -> Flight(users', codes')]
      BY <1>a, <2>1, <3>1, FreshTyped DEF Kinds, Steps
    <3>3. Accounts'
      BY <1>4, <1>a, <3>1, CountersTyped, TypesGrow DEF Accounts, InviteInsert
    <3> QED
      BY <1>4, <1>b, <3>2, <3>3, RecordsStay DEF InviteInsert, mails, history
  <2>2. CASE Finish(r) /\ UNCHANGED <<user, users, codes>>
    BY <1>4, <1>a, <1>b, <1>c, <1>d, <2>2, FinishTyped DEF InviteInsert, mails, history
  <2> QED
    BY <1>4, <2>1, <2>2 DEF InviteInsert
<1>5. ASSUME NEW r \in Requests, Upsert(r) \/ Insert(r) PROVE Parts2'
  <2>1. CASE PutOnRecord(r)
    BY <1>5, <1>a, <1>b, <1>c, <2>1, PutOnRecordTyped DEF Upsert, Insert, mails, history
  <2>2. CASE UNCHANGED actions /\ (Finish(r) \/ Goes(r, [req[r] EXCEPT !.pc = "insert"]))
    <3>1. req' \in [Requests -> Flight(users, codes)]
      BY <2>2, FinishTyped, StepTyped DEF Steps
    <3> QED
      BY <1>5, <1>a, <1>b, <1>c, <1>d, <2>2, <3>1 DEF Upsert, Insert, mails, history
  <2> QED
    BY <1>5, <2>1, <2>2 DEF Upsert, Insert
<1>6. ASSUME NEW r \in Requests, Send(r) PROVE Parts2'
  <2>1. req' \in [Requests -> Flight(users, codes)]
    BY <1>6, FinishTyped, StepTyped DEF Send, Sent, Steps
  <2>2. req[r].code \in Numbers
    BY <1>a, LifecycleAssumption DEF Flight, Numbers
  <2>3. Past'
    BY <1>6, <1>a, <2>2 DEF Send, Past, mails, history
  <2> QED
    BY <1>6, <1>a, <1>c, <1>d, <2>1, <2>3 DEF Send
<1>7. ASSUME VerifyCode \/ AcceptInvite PROVE Parts2'
  <2>1. user' \in UserRow(users)
    BY <1>7, <1>a DEF VerifyCode, AcceptInvite, UserRow, Hashes
  <2>2. user.id \in Ids
    BY <1>a, LifecycleAssumption DEF TypeOK, UserRow, Ids
  <2>3. Past'
    BY <1>7, <1>a, <2>2 DEF VerifyCode, AcceptInvite, Past, mails, history
  <2>4. Records'
    BY <1>7, UsedTyped DEF VerifyCode, AcceptInvite, Presented, Kinds
  <2>5. Accounts'
    BY <1>7, <2>1, AccountsStay DEF VerifyCode, AcceptInvite
  <2> QED
    BY <1>7, <1>a, <2>3, <2>4, <2>5 DEF VerifyCode, AcceptInvite
<1>8. RefuseInvite => Parts2'
  BY <1>a, <1>b, <1>c, <1>d DEF RefuseInvite, mails
<1>9. ASSUME NEW r \in Requests, NEW g \in Subs, Google(r, g) PROVE Parts2'
  <2>1. [NoRequest EXCEPT !.pc = "find", !.sub = g] \in Flight(users, codes)
    BY <1>a, NoRequestTyped DEF Flight, Steps
  <2>2. req' \in [Requests -> Flight(users, codes)]
    BY <1>9, <1>a, <2>1, GoesTyped DEF Google
  <2> QED
    BY <1>9, <1>a, <1>b, <1>c, <1>d, <2>2 DEF Google, mails, history
<1>10. ASSUME NEW r \in Requests, GoogleFind(r) PROVE Parts2'
  <2>1. user.id \in 0 .. users
    BY <1>a DEF UserRow
  <2>2. req' \in [Requests -> Flight(users, codes)]
    BY <1>10, <2>1, FinishTyped, StepTyped, OnTyped DEF GoogleFind, Steps
  <2> QED
    BY <1>10, <1>a, <1>b, <1>c, <1>d, <2>2 DEF GoogleFind, mails, history
<1>11. ASSUME NEW r \in Requests, GoogleLink(r) PROVE Parts2'
  <2>1. req[r] \in Flight(users, codes) /\ req[r].id # 0
    BY <1>11, <1>a DEF Aims, GoogleLink, At
  <2>2. [sub |-> req[r].sub, id |-> req[r].id] \in Link(users)
    BY <2>1, <1>a DEF Flight, Link
  <2>3. links' \subseteq Link(users)
    BY <1>11, <1>a, <2>2, CountersTyped DEF GoogleLink
  <2>4. req' \in [Requests -> Flight(users, codes)]
    BY <1>11, FinishTyped, StepTyped DEF GoogleLink, Steps
  <2> QED
    BY <1>11, <1>a, <1>b, <1>d, <2>3, <2>4 DEF GoogleLink, Accounts, mails, TypeOK
<1>12. ASSUME NEW r \in Requests, GoogleVerify(r) PROVE Parts2'
  <2>1. user' \in UserRow(users)
    BY <1>12, <1>a DEF GoogleVerify, UserRow
  <2> QED
    BY <1>12, <1>a, <1>b, <1>d, <2>1, FinishTyped, AccountsStay
       DEF GoogleVerify, mails, history
<1>13. ASSUME NEW r \in Requests, GoogleNew(r) PROVE Parts2'
  <2>1. CASE NewUser("!oauth", TRUE)
             /\ links' = links \union {[sub |-> req[r].sub, id |-> users']}
    <3>1. users' \in Nat /\ users <= users' /\ users' \in Ids /\ users' \in 1 .. users'
          /\ user' \in UserRow(users')
      BY <2>1, NewUserTyped DEF Hashes
    <3>2. [sub |-> req[r].sub, id |-> users'] \in Link(users')
      BY <1>a, <3>1 DEF Flight, Link
    <3>3. links' \subseteq Link(users')
      BY <1>a, <2>1, <3>1, <3>2, CountersTyped, TypesGrow
    <3>4. req' \in [Requests -> Flight(users', codes)]
      BY <1>13, <1>a, <3>1, NoRequestTyped, GoesTyped DEF GoogleNew, Finish
    <3> QED
      BY <1>13, <1>a, <1>b, <1>d, <3>1, <3>3, <3>4 DEF GoogleNew, Accounts, mails, history
  <2>2. CASE UNCHANGED <<user, users, links>>
    BY <1>13, <1>a, <1>b, <1>c, <1>d, <2>2, FinishTyped DEF GoogleNew, mails, history
  <2> QED
    BY <1>13, <2>1, <2>2 DEF GoogleNew
<1>14. ASSUME ResetPassword \/ SetDisabled PROVE Parts2'
  <2>1. user' \in UserRow(users)
    BY <1>14, <1>a DEF ResetPassword, SetDisabled, UserRow, Hashes
  <2> QED
    BY <1>14, <1>a, <1>b, <1>d, <2>1, AccountsStay
       DEF ResetPassword, SetDisabled, mails, history
<1>15. ASSUME Delete PROVE Parts2'
  <2>1. user' \in UserRow(users)
    BY <1>15, <1>a DEF Delete, NoUser, UserRow, Hashes
  <2>2. Accounts' /\ Records'
    BY <1>15, <1>a, <2>1 DEF Delete, Accounts, Records, TypeOK
  <2> QED
    BY <1>15, <1>a, <1>b, <2>2 DEF Delete, mails, history
<1>16. ASSUME NEW n \in 1 .. codes, Lapse(n) PROVE Parts2'
  <2>1. lapsed' \subseteq Numbers
    BY <1>16, <1>a DEF Lapse, TypeOK
  <2> QED
    BY <1>16, <1>a, <1>c, <1>d, <2>1 DEF Lapse, Past, mails, history
<1>17. ASSUME Restart PROVE Parts2'
  <2>1. req' \in [Requests -> Flight(users, codes)]
    BY <1>17, <1>a, NoRequestTyped DEF Restart
  <2>2. Records'
    BY <1>17, <1>a DEF Restart, Records, TypeOK
  <2>3. Past'
    BY <1>17, <1>a, LifecycleAssumption, HalfLinkedTyped DEF Restart, Past, mails
  <2> QED
    BY <1>17, <1>a, <1>c, <2>1, <2>2, <2>3 DEF Restart
<1>18. ASSUME NEW r \in Requests, Fail(r) PROVE Parts2'
  <2>1. Past'
    BY <1>18, <1>a, HalfLinkedTyped DEF Fail, Past, mails
  <2> QED
    BY <1>18, <1>a, <1>c, <1>d, <2>1, FinishTyped DEF Fail
<1> HIDE DEF Parts2
<1> QED
  BY <1>0, <1>1, <1>2, <1>3, <1>4, <1>5, <1>6, <1>7, <1>8, <1>9, <1>10, <1>11, <1>12,
     <1>13, <1>14, <1>15, <1>16, <1>17, <1>18 DEF Next

-----------------------------------------------------------------------------
(***************************************************************************)
(* What the properties of accounts and codes need besides themselves: a    *)
(* request works on an account that was there, and every code that is not  *)
(* stored yet belongs to one request, and was never stored nor lapsed.     *)
(***************************************************************************)
Unstored(q) == \/ q.pc \in {"upsert", "insert"}
               \/ q.pc = "send" /\ q.kind = "verification"

IssuedBefore == /\ \A k \in Kinds : issued[k] \subseteq 1 .. codes
                /\ \A n \in lapsed : \E k \in Kinds : n \in issued[k]

CodesApart == \A r \in Requests : Unstored(req[r]) =>
  /\ req[r].code \in 1 .. codes
  /\ \A k \in Kinds : req[r].code \notin issued[k]
  /\ \A s \in Requests : s # r /\ Unstored(req[s]) => req[s].code # req[r].code

Inv == /\ TypeOK /\ Aims /\ IssuedBefore /\ CodesApart
       /\ RowsHaveUser /\ OAuthHasLink /\ LinkedIsVerified

LEMMA InvInit == Init => Inv
<1> SUFFICES ASSUME Init PROVE Inv
  OBVIOUS
<1>1. TypeOK
  BY TypeInit
<1>2. \A r \in Requests : req[r].pc = "idle"
  BY DEF Init, NoRequest
<1>3. Aims /\ CodesApart
  BY <1>2 DEF Aims, CodesApart, Unstored
<1> QED
  BY <1>1, <1>3
     DEF Init, Inv, IssuedBefore, RowsHaveUser, OAuthHasLink, LinkedIsVerified, NoUser

-----------------------------------------------------------------------------
LEMMA NoRequestIdle == NoRequest.pc = "idle" /\ ~Unstored(NoRequest)
BY DEF NoRequest, Unstored

LEMMA SetsFields ==
  ASSUME NEW kind, NEW id, NEW pc
  PROVE  /\ Sets(kind, id, pc).kind = kind /\ Sets(kind, id, pc).id = id
         /\ Sets(kind, id, pc).pc = pc /\ Sets(kind, id, pc).code = codes + 1
BY DEF Sets, NoRequest

LEMMA AimsNext == Inv /\ Next => Aims'
<1> SUFFICES ASSUME Inv, Next PROVE Aims'
  OBVIOUS
<1> DEFINE Aimed(q) == q.pc \in {"upsert", "insert", "send", "link", "verify"} => q.id # 0
<1>0. TypeOK /\ \A s \in Requests : Aimed(req[s])
  BY DEF Inv, Aims
<1>1. req \in [Requests -> Flight(users, codes)] /\ users \in Nat
  BY <1>0, CountersTyped
<1>2. ASSUME NEW r \in Requests, NEW q, Aimed(q), Goes(r, q)
      PROVE  \A s \in Requests : Aimed(req'[s])
  BY <1>0, <1>1, <1>2 DEF Goes
<1>3. Aimed(NoRequest)
  BY NoRequestIdle
<1>4. ASSUME NEW r \in Requests, Finish(r) PROVE \A s \in Requests : Aimed(req'[s])
  BY <1>2, <1>3, <1>4 DEF Finish
<1>5. ASSUME NEW r \in Requests, NEW kind, NEW id, NEW pc, id # 0,
             Goes(r, Sets(kind, id, pc))
      PROVE  \A s \in Requests : Aimed(req'[s])
  BY <1>2, <1>5, SetsFields
<1>6. ASSUME NEW hash \in Hashes, NEW verified \in BOOLEAN, NewUser(hash, verified)
      PROVE  users' # 0
  BY <1>0, <1>1, <1>6, NewUserTyped
<1>7. ASSUME NEW r \in Requests, NEW pc, Aimed(req[r]), req[r].id # 0,
             Goes(r, [req[r] EXCEPT !.pc = pc])
      PROVE  \A s \in Requests : Aimed(req'[s])
  <2>1. req[r] \in Flight(users, codes)
    BY <1>1
  <2>2. [req[r] EXCEPT !.pc = pc].id = req[r].id
    BY <2>1 DEF Flight
  <2> QED
    BY <1>2, <1>7, <2>2
<1>8. UNCHANGED req => \A s \in Requests : Aimed(req'[s])
  BY <1>0
<1>9. (\A s \in Requests : Aimed(req'[s])) => Aims'
  BY DEF Aims
<1>10. ASSUME NEW r \in Requests, Signup(r) \/ Resend(r) \/ Invite(r) \/ InviteInsert(r)
       PROVE  \A s \in Requests : Aimed(req'[s])
  <2>1. CASE Finish(r)
    BY <1>4, <2>1
  <2>2. CASE Goes(r, [NoRequest EXCEPT !.pc = "invite"])
    <3>1. [NoRequest EXCEPT !.pc = "invite"].pc = "invite"
      BY DEF NoRequest
    <3> QED
      BY <1>2, <2>2, <3>1
  <2>3. CASE user.id # 0 /\ \E kind \in Kinds, pc \in Steps : Goes(r, Sets(kind, user.id, pc))
    BY <1>5, <2>3
  <2>4. CASE \E hash \in Hashes, kind \in Kinds, pc \in Steps :
               NewUser(hash, FALSE) /\ Goes(r, Sets(kind, users', pc))
    BY <1>5, <1>6, <2>4
  <2> QED
    BY <1>10, <2>1, <2>2, <2>3, <2>4
       DEF Signup, Resend, Invite, InviteInsert, Kinds, Steps, Hashes
<1>11. ASSUME NEW r \in Requests, Upsert(r) \/ Insert(r) \/ Send(r)
       PROVE  \A s \in Requests : Aimed(req'[s])
  <2>1. Aimed(req[r]) /\ req[r].id # 0
    BY <1>0, <1>11 DEF Upsert, Insert, Send, At
  <2>2. Finish(r) \/ \E pc \in Steps : Goes(r, [req[r] EXCEPT !.pc = pc])
    BY <1>11 DEF Upsert, Insert, Send, PutOnRecord, Stored, Sent, Steps
  <2> QED
    BY <1>4, <1>7, <2>1, <2>2
<1>12. ASSUME NEW r \in Requests, NEW g \in Subs, Google(r, g)
       PROVE  \A s \in Requests : Aimed(req'[s])
  <2>1. [NoRequest EXCEPT !.pc = "find", !.sub = g].pc = "find"
    BY DEF NoRequest
  <2> QED
    BY <1>2, <1>12, <2>1 DEF Google
<1>13. ASSUME NEW r \in Requests, GoogleFind(r) PROVE \A s \in Requests : Aimed(req'[s])
  <2>1. req[r] \in Flight(users, codes)
    BY <1>1
  <2>2. [req[r] EXCEPT !.pc = "new"].pc = "new"
        /\ [req[r] EXCEPT !.pc = "link", !.id = user.id].id = user.id
    BY <2>1 DEF Flight
  <2> QED
    BY <1>2, <1>4, <1>13, <2>2 DEF GoogleFind
<1>14. ASSUME NEW r \in Requests, GoogleLink(r) PROVE \A s \in Requests : Aimed(req'[s])
  <2>1. Aimed(req[r]) /\ req[r].id # 0
    BY <1>0, <1>14 DEF GoogleLink, At
  <2> QED
    BY <1>4, <1>7, <1>14, <2>1 DEF GoogleLink
<1>15. ASSUME NEW r \in Requests, GoogleVerify(r) \/ GoogleNew(r) \/ Fail(r)
       PROVE  \A s \in Requests : Aimed(req'[s])
  BY <1>4, <1>15 DEF GoogleVerify, GoogleNew, Fail
<1>16. Restart => \A s \in Requests : Aimed(req'[s])
  BY <1>3 DEF Restart
<1>17. ASSUME NEW n \in 1 .. codes, Lapse(n) PROVE UNCHANGED req
  BY <1>17 DEF Lapse
<1>18. VerifyCode \/ AcceptInvite \/ RefuseInvite \/ ResetPassword \/ SetDisabled \/ Delete
       => UNCHANGED req
  BY DEF VerifyCode, AcceptInvite, RefuseInvite, ResetPassword, SetDisabled, Delete
<1> HIDE DEF Aimed
<1> QED
  BY <1>8, <1>9, <1>10, <1>11, <1>12, <1>13, <1>14, <1>15, <1>16, <1>17, <1>18 DEF Next

-----------------------------------------------------------------------------
\* Codes stay apart when one request goes on without a code to store, with the
\* code it has, or with a fresh one.
LEMMA CodesKept ==
  ASSUME Inv, NEW r \in Requests, NEW q, Goes(r, q), UNCHANGED <<issued, lapsed>>,
         codes' \in {codes, codes + 1},
         Unstored(q) => \/ Unstored(req[r]) /\ q.code = req[r].code
                        \/ codes' = codes + 1 /\ q.code = codes'
  PROVE  IssuedBefore' /\ CodesApart'
<1>1. codes \in Nat /\ req \in [Requests -> Flight(users, codes)]
  BY CountersTyped DEF Inv
<1>2. 1 .. codes \subseteq 1 .. codes' /\ codes + 1 \notin 1 .. codes
      /\ (codes' = codes + 1 => codes' \in 1 .. codes')
  BY <1>1
<1>3. IssuedBefore'
  BY <1>2 DEF Inv, IssuedBefore
<1>4. \A s \in Requests : s # r => req'[s] = req[s]
  BY <1>1 DEF Goes
<1>5. req'[r] = q
  BY <1>1 DEF Goes
<1>6. ASSUME NEW s \in Requests, Unstored(req'[s])
      PROVE  /\ req'[s].code \in 1 .. codes'
             /\ \A k \in Kinds : req'[s].code \notin issued[k]
  BY <1>2, <1>4, <1>5, <1>6 DEF Inv, CodesApart, IssuedBefore
<1>7. ASSUME NEW s \in Requests, NEW t \in Requests, s # t,
             Unstored(req'[s]), Unstored(req'[t])
      PROVE  req'[s].code # req'[t].code
  BY <1>2, <1>4, <1>5, <1>7 DEF Inv, CodesApart
<1> QED
  BY <1>3, <1>6, <1>7 DEF CodesApart, Unstored

\* A code that is put on record was not there before, and nobody else has it.
LEMMA StoredIsNew ==
  ASSUME Inv, NEW r \in Requests, Upsert(r) \/ Insert(r), PutOnRecord(r)
  PROVE  /\ Unstored(req[r]) /\ req[r].code \in 1 .. codes
         /\ req[r].kind \in Kinds /\ \A k \in Kinds : req[r].code \notin issued[k]
         /\ req[r].code \notin lapsed
<1>1. req[r] \in Flight(users, codes)
  BY CountersTyped DEF Inv
<1>2. Unstored(req[r])
  BY DEF Upsert, Insert, At, Unstored
<1> QED
  BY <1>1, <1>2 DEF Inv, CodesApart, IssuedBefore, Flight

LEMMA CodesStored ==
  ASSUME Inv, NEW r \in Requests, Upsert(r) \/ Insert(r), PutOnRecord(r)
  PROVE  IssuedBefore' /\ CodesApart'
<1>1. TypeOK /\ req \in [Requests -> Flight(users, codes)]
      /\ UNCHANGED <<codes, lapsed>> /\ issued \in [Kinds -> SUBSET Numbers]
  BY CountersTyped DEF Inv, Upsert, Insert, TypeOK
<1> DEFINE c == req[r].code
<1>2. /\ Unstored(req[r]) /\ c \in 1 .. codes /\ req[r].kind \in Kinds
      /\ \A k \in Kinds : c \notin issued[k]
  BY StoredIsNew
<1>3. issued' = [issued EXCEPT ![req[r].kind] = @ \union {c}]
  BY DEF PutOnRecord
<1>4. \A k \in Kinds : /\ issued[k] \subseteq issued'[k]
                       /\ issued'[k] \subseteq issued[k] \union {c}
  BY <1>1, <1>2, <1>3
<1>5. IssuedBefore'
  BY <1>1, <1>2, <1>4 DEF Inv, IssuedBefore
<1>6. /\ ~Unstored(req'[r])
      /\ \A s \in Requests : s # r => req'[s] = req[s]
  <2>1. CASE req[r].kind = "invite" /\ Goes(r, [req[r] EXCEPT !.pc = "send"])
    <3>1. req[r] \in Flight(users, codes)
      BY <1>1
    <3>2. [req[r] EXCEPT !.pc = "send"].pc = "send"
          /\ [req[r] EXCEPT !.pc = "send"].kind = "invite"
      BY <2>1, <3>1 DEF Flight
    <3>3. ~Unstored([req[r] EXCEPT !.pc = "send"])
      BY <3>2 DEF Unstored
    <3> QED
      BY <1>1, <2>1, <3>3 DEF Goes
  <2>2. CASE Finish(r)
    BY <1>1, <2>2, NoRequestIdle DEF Finish, Goes
  <2> QED
    BY <2>1, <2>2 DEF PutOnRecord, Stored
<1>7. ASSUME NEW s \in Requests, Unstored(req'[s])
      PROVE  /\ req'[s].code \in 1 .. codes'
             /\ \A k \in Kinds : req'[s].code \notin issued'[k]
             /\ \A t \in Requests : t # s /\ Unstored(req'[t]) => req'[t].code # req'[s].code
  <2>1. s # r /\ req'[s] = req[s]
    BY <1>6, <1>7
  <2>2. req[s].code # c
    BY <1>2, <1>7, <2>1 DEF Inv, CodesApart
  <2> QED
    BY <1>1, <1>4, <1>6, <1>7, <2>1, <2>2 DEF Inv, CodesApart
<1> QED
  BY <1>5, <1>7 DEF CodesApart, Unstored

LEMMA CodesNext == Inv /\ Next => IssuedBefore' /\ CodesApart'
<1> SUFFICES ASSUME Inv, Next PROVE IssuedBefore' /\ CodesApart'
  OBVIOUS
<1>1. codes \in Nat /\ req \in [Requests -> Flight(users, codes)]
  BY CountersTyped DEF Inv
<1>2. UNCHANGED <<req, codes, issued, lapsed>> => IssuedBefore' /\ CodesApart'
  BY DEF Inv, IssuedBefore, CodesApart, Unstored
<1>3. ASSUME NEW r \in Requests, UNCHANGED <<codes, issued, lapsed>>, Finish(r)
      PROVE  IssuedBefore' /\ CodesApart'
  BY <1>3, NoRequestIdle, CodesKept DEF Finish
<1>4. ASSUME NEW r \in Requests, UNCHANGED <<issued, lapsed>>, codes' = codes + 1,
             NEW kind, NEW id, NEW pc, Goes(r, Sets(kind, id, pc))
      PROVE  IssuedBefore' /\ CodesApart'
  <2>1. Sets(kind, id, pc).code = codes'
    BY <1>4, SetsFields
  <2> QED
    BY <1>4, <2>1, CodesKept
<1>5. ASSUME NEW r \in Requests, UNCHANGED <<codes, issued, lapsed>>, NEW q,
             Goes(r, q), q.pc \in {"invite", "find", "new", "link", "verify"}
      PROVE  IssuedBefore' /\ CodesApart'
  BY <1>5, CodesKept DEF Unstored
<1>6. ASSUME NEW r \in Requests, Signup(r) \/ Resend(r) \/ Invite(r) \/ InviteInsert(r)
      PROVE  IssuedBefore' /\ CodesApart'
  <2>0. [NoRequest EXCEPT !.pc = "invite"].pc = "invite"
    BY DEF NoRequest
  <2>1. UNCHANGED <<issued, lapsed>>
    BY <1>6 DEF Signup, Resend, Invite, InviteInsert, actions
  <2>2. \/ UNCHANGED codes /\ Finish(r)
        \/ UNCHANGED codes /\ Goes(r, [NoRequest EXCEPT !.pc = "invite"])
        \/ Fresh /\ \E kind \in Kinds, pc \in Steps :
             Goes(r, Sets(kind, user.id, pc)) \/ Goes(r, Sets(kind, users', pc))
    BY <1>6 DEF Signup, Resend, Invite, InviteInsert, Kinds, Steps
  <2> QED
    BY <1>3, <1>4, <1>5, <2>0, <2>1, <2>2 DEF Fresh
<1>7. ASSUME NEW r \in Requests, Upsert(r) \/ Insert(r) PROVE IssuedBefore' /\ CodesApart'
  <2>1. CASE PutOnRecord(r)
    BY <1>7, <2>1, CodesStored
  <2>2. CASE UNCHANGED actions /\ Finish(r)
    BY <1>3, <1>7, <2>2 DEF Upsert, Insert, actions
  <2>3. CASE UNCHANGED actions /\ Upsert(r) /\ Goes(r, [req[r] EXCEPT !.pc = "insert"])
    <3>1. req[r] \in Flight(users, codes)
      BY <1>1
    <3>2. Unstored(req[r]) /\ [req[r] EXCEPT !.pc = "insert"].code = req[r].code
      BY <2>3, <3>1 DEF Upsert, At, Unstored, Flight
    <3> QED
      BY <2>3, <3>2, CodesKept DEF Upsert, actions
  <2> QED
    BY <1>7, <2>1, <2>2, <2>3 DEF Upsert, Insert
<1>8. ASSUME NEW r \in Requests, Send(r) PROVE IssuedBefore' /\ CodesApart'
  <2>1. UNCHANGED <<codes, issued, lapsed>>
    BY <1>8 DEF Send, actions
  <2>2. CASE req[r].kind = "verification" /\ Goes(r, [req[r] EXCEPT !.pc = "upsert"])
    <3>1. req[r] \in Flight(users, codes)
      BY <1>1
    <3>2. Unstored(req[r]) /\ [req[r] EXCEPT !.pc = "upsert"].code = req[r].code
      BY <1>8, <2>2, <3>1 DEF Send, At, Unstored, Flight
    <3> QED
      BY <2>1, <2>2, <3>2, CodesKept
  <2> QED
    BY <1>3, <1>8, <2>1, <2>2 DEF Send, Sent
<1>9. ASSUME NEW r \in Requests, \E g \in Subs : Google(r, g)
      PROVE  IssuedBefore' /\ CodesApart'
  <2>1. PICK g \in Subs : Google(r, g)
    BY <1>9
  <2>2. [NoRequest EXCEPT !.pc = "find", !.sub = g].pc = "find"
    BY DEF NoRequest
  <2> QED
    BY <1>5, <2>1, <2>2 DEF Google, actions
<1>10. ASSUME NEW r \in Requests, GoogleFind(r) \/ GoogleLink(r)
       PROVE  IssuedBefore' /\ CodesApart'
  <2>1. req[r] \in Flight(users, codes)
    BY <1>1
  <2>2. /\ [req[r] EXCEPT !.pc = "new"].pc = "new"
        /\ [req[r] EXCEPT !.pc = "link", !.id = user.id].pc = "link"
        /\ [req[r] EXCEPT !.pc = "verify"].pc = "verify"
    BY <2>1 DEF Flight
  <2> QED
    BY <1>3, <1>5, <1>10, <2>2 DEF GoogleFind, GoogleLink, actions
<1>11. ASSUME NEW r \in Requests, GoogleVerify(r) \/ GoogleNew(r) \/ Fail(r)
       PROVE  IssuedBefore' /\ CodesApart'
  BY <1>3, <1>11 DEF GoogleVerify, GoogleNew, Fail, actions
<1>12. ASSUME NEW n \in 1 .. codes, Lapse(n) PROVE IssuedBefore' /\ CodesApart'
  BY <1>12 DEF Lapse, actions, Inv, IssuedBefore, CodesApart, Unstored
<1>13. Restart => IssuedBefore' /\ CodesApart'
  BY NoRequestIdle DEF Restart, Inv, IssuedBefore, CodesApart, Unstored
<1>14. VerifyCode \/ AcceptInvite \/ RefuseInvite \/ ResetPassword \/ SetDisabled \/ Delete
       => UNCHANGED <<req, codes, issued, lapsed>>
  BY DEF VerifyCode, AcceptInvite, RefuseInvite, ResetPassword, SetDisabled, Delete,
         Used, actions
<1> QED
  BY <1>2, <1>6, <1>7, <1>8, <1>9, <1>10, <1>11, <1>12, <1>13, <1>14 DEF Next

-----------------------------------------------------------------------------
\* Only a deletion takes the users row away, and it takes its codes along.
LEMMA RowsNext == Inv /\ Next => RowsHaveUser'
<1> SUFFICES ASSUME Inv, Next PROVE RowsHaveUser'
  OBVIOUS
<1>1. RowsHaveUser /\ users \in Nat /\ row \in [Kinds -> 0 .. codes]
  BY CountersTyped DEF Inv, TypeOK
<1>2. (user'.id = user.id \/ user'.id # 0) /\ UNCHANGED row => RowsHaveUser'
  BY <1>1 DEF RowsHaveUser
<1>3. ASSUME NEW r \in Requests, Signup(r) \/ InviteInsert(r) \/ GoogleNew(r)
      PROVE  RowsHaveUser'
  <2>1. CASE \E hash \in Hashes, verified \in BOOLEAN : NewUser(hash, verified)
    <3>1. user'.id = users + 1
      BY <2>1, NewUserTyped DEF Inv
    <3> QED
      BY <1>1, <1>3, <3>1 DEF RowsHaveUser
  <2>2. CASE UNCHANGED user
    BY <1>2, <1>3, <2>2 DEF Signup, InviteInsert, GoogleNew, actions
  <2> QED
    BY <1>3, <2>1, <2>2 DEF Signup, InviteInsert, GoogleNew, Hashes
<1>4. ASSUME NEW r \in Requests, Upsert(r) \/ Insert(r) PROVE RowsHaveUser'
  <2>1. CASE req[r].id = user.id
    <3>1. req[r].id # 0
      BY <1>4 DEF Inv, Aims, Upsert, Insert, At
    <3>2. user'.id # 0
      BY <1>4, <2>1, <3>1 DEF Upsert, Insert
    <3> QED
      BY <3>2 DEF RowsHaveUser
  <2>2. CASE req[r].id # user.id
    BY <1>2, <1>4, <2>2 DEF Upsert, Insert, actions
  <2> QED
    BY <2>1, <2>2
<1>5. ASSUME VerifyCode \/ AcceptInvite PROVE RowsHaveUser'
  <2>1. user.id # 0
    BY <1>1, <1>5 DEF VerifyCode, AcceptInvite, Presented, RowsHaveUser, Kinds
  <2>2. user'.id = user.id
    BY <1>5, CountersTyped DEF VerifyCode, AcceptInvite, UserRow, Inv
  <2> QED
    BY <2>1, <2>2 DEF RowsHaveUser
<1>6. Delete \/ Restart => RowsHaveUser'
  BY <1>1 DEF Delete, Restart, RowsHaveUser
<1>7. ASSUME \/ ResetPassword \/ SetDisabled \/ RefuseInvite
             \/ \E n \in 1 .. codes : Lapse(n)
             \/ \E r \in Requests : \/ Resend(r) \/ Invite(r) \/ Send(r)
                                    \/ \E g \in Subs : Google(r, g)
                                    \/ GoogleFind(r) \/ GoogleLink(r) \/ GoogleVerify(r)
                                    \/ Fail(r)
      PROVE  RowsHaveUser'
  <2>1. user'.id = user.id
    BY <1>7, CountersTyped
       DEF ResetPassword, SetDisabled, RefuseInvite, Lapse, Resend, Invite, Send, Google,
           GoogleFind, GoogleLink, GoogleVerify, Fail, UserRow, Inv
  <2>2. UNCHANGED row
    BY <1>7
       DEF ResetPassword, SetDisabled, RefuseInvite, Lapse, Resend, Invite, Send, Google,
           GoogleFind, GoogleLink, GoogleVerify, Fail, actions
  <2> QED
    BY <1>2, <2>1, <2>2
<1> QED
  BY <1>3, <1>4, <1>5, <1>6, <1>7 DEF Next

\* Whoever has no password has a link, made in one transaction with the row; no
\* link is to a row yet to come.
LEMMA OAuthNext == Inv /\ Next => OAuthHasLink'
<1> SUFFICES ASSUME Inv, Next PROVE OAuthHasLink'
  OBVIOUS
<1>1. OAuthHasLink /\ user \in UserRow(users)
  BY CountersTyped DEF Inv
<1>2. ((user'.id = user.id /\ user'.hash = user.hash) \/ user'.hash # "!oauth")
      /\ links \subseteq links' => OAuthHasLink'
  BY <1>1 DEF OAuthHasLink
<1>3. ASSUME NEW r \in Requests, Signup(r) \/ InviteInsert(r) PROVE OAuthHasLink'
  <2>1. NewUser("own", FALSE) \/ NewUser("!invited", FALSE) => user'.hash # "!oauth"
    BY DEF NewUser
  <2>2. UNCHANGED links
    BY <1>3 DEF Signup, InviteInsert
  <2> QED
    BY <1>2, <1>3, <2>1, <2>2 DEF Signup, InviteInsert
<1>4. ASSUME NEW r \in Requests, GoogleNew(r) PROVE OAuthHasLink'
  <2>1. CASE /\ NewUser("!oauth", TRUE)
             /\ links' = links \union {[sub |-> req[r].sub, id |-> users']}
    <3>1. user'.id = users'
      BY <2>1 DEF NewUser
    <3>2. [sub |-> req[r].sub, id |-> users'] \in links'
      BY <2>1
    <3>3. [sub |-> req[r].sub, id |-> users'].id = users'
      OBVIOUS
    <3> QED
      BY <3>1, <3>2, <3>3 DEF OAuthHasLink
  <2> QED
    BY <1>2, <1>4, <2>1 DEF GoogleNew
<1>5. VerifyCode \/ AcceptInvite \/ ResetPassword \/ SetDisabled => OAuthHasLink'
  BY <1>1, <1>2 DEF VerifyCode, AcceptInvite, ResetPassword, SetDisabled, UserRow
<1>6. ASSUME NEW r \in Requests, GoogleVerify(r) PROVE OAuthHasLink'
  BY <1>1, <1>2, <1>6 DEF GoogleVerify, UserRow
<1>7. Delete => OAuthHasLink'
  BY DEF Delete, NoUser, OAuthHasLink
<1>8. ASSUME NEW r \in Requests, GoogleLink(r) PROVE OAuthHasLink'
  BY <1>2, <1>8 DEF GoogleLink
<1>9. ASSUME \/ RefuseInvite \/ Restart \/ \E n \in 1 .. codes : Lapse(n)
             \/ \E r \in Requests : \/ Resend(r) \/ Invite(r) \/ Upsert(r) \/ Insert(r)
                                    \/ Send(r) \/ GoogleFind(r) \/ Fail(r)
                                    \/ \E g \in Subs : Google(r, g)
      PROVE  OAuthHasLink'
  <2>1. UNCHANGED <<user, links>>
    BY <1>9
       DEF RefuseInvite, Restart, Lapse, Resend, Invite, Upsert, Insert, Send, Google,
           GoogleFind, Fail
  <2> QED
    BY <1>2, <2>1
<1> QED
  BY <1>3, <1>4, <1>5, <1>6, <1>7, <1>8, <1>9 DEF Next

\* The request that linked an account is on its way to verify it, until it has or
\* breaks off.
LEMMA LinkedNext == Inv /\ Next => LinkedIsVerified'
<1> SUFFICES ASSUME Inv, Next PROVE LinkedIsVerified'
  OBVIOUS
<1> DEFINE Due(l) == \/ user.verified \/ user.id \in torn
                     \/ \E r \in Requests : At(r, "verify") /\ req[r].id = l.id
<1>1. /\ user \in UserRow(users) /\ links \subseteq Link(users) /\ users \in Nat
      /\ req \in [Requests -> Flight(users, codes)]
  BY CountersTyped DEF Inv
<1>2. \A l \in links : l.id = user.id => Due(l)
  BY DEF Inv, LinkedIsVerified
<1>3. (\A l \in links' : l.id = user'.id => Due(l)') => LinkedIsVerified'
  BY DEF LinkedIsVerified
<1>4. ASSUME NEW r \in Requests, NEW q, Goes(r, q), ~At(r, "verify")
      PROVE  \A s \in Requests : At(s, "verify") => At(s, "verify")' /\ req'[s].id = req[s].id
  BY <1>1, <1>4 DEF Goes, At
<1>5. ASSUME UNCHANGED <<links, torn>>, user'.id = user.id,
             user.verified => user'.verified,
             \A s \in Requests : At(s, "verify") => At(s, "verify")' /\ req'[s].id = req[s].id
      PROVE  LinkedIsVerified'
  BY <1>2, <1>3, <1>5
<1>6. ASSUME NEW r \in Requests, Signup(r) \/ InviteInsert(r), user' # user
      PROVE  LinkedIsVerified'
  <2>1. user'.id = users + 1 /\ UNCHANGED links
    BY <1>6 DEF Signup, InviteInsert, NewUser
  <2>2. \A l \in links : l.id # users + 1
    BY <1>1 DEF Link
  <2> QED
    BY <1>3, <2>1, <2>2
<1>7. ASSUME NEW r \in Requests, GoogleNew(r) PROVE LinkedIsVerified'
  <2>1. CASE NewUser("!oauth", TRUE)
    <3>1. user'.verified
      BY <2>1 DEF NewUser
    <3> QED
      BY <1>3, <3>1
  <2>2. CASE UNCHANGED <<user, users, links>>
    <3>1. ~At(r, "verify") /\ Goes(r, NoRequest) /\ UNCHANGED torn
      BY <1>7 DEF GoogleNew, At, Finish, history
    <3> QED
      BY <1>4, <1>5, <2>2, <3>1
  <2> QED
    BY <1>7, <2>1, <2>2 DEF GoogleNew
<1>8. ASSUME NEW r \in Requests, GoogleLink(r) PROVE LinkedIsVerified'
  <2>1. ~At(r, "verify") /\ UNCHANGED <<user, torn>>
    BY <1>8 DEF GoogleLink, At
  <2>2. CASE Finish(r) /\ UNCHANGED links
    BY <1>4, <1>5, <2>1, <2>2 DEF Finish
  <2>3. CASE /\ links' = links \union {[sub |-> req[r].sub, id |-> req[r].id]}
             /\ Goes(r, [req[r] EXCEPT !.pc = "verify"])
    <3>1. req[r] \in Flight(users, codes)
      BY <1>1
    <3>2. At(r, "verify")' /\ req'[r].id = req[r].id
      BY <1>1, <2>3, <3>1 DEF Goes, At, Flight
    <3>3. \A s \in Requests : At(s, "verify") => At(s, "verify")' /\ req'[s].id = req[s].id
      BY <1>4, <2>1, <2>3
    <3>4. ASSUME NEW l \in links', l.id = user'.id PROVE Due(l)'
      <4>1. CASE l \in links
        BY <1>2, <2>1, <3>3, <3>4, <4>1
      <4>2. CASE l.id = req[r].id
        BY <3>2, <4>2
      <4> QED
        BY <2>3, <4>1, <4>2
    <3> QED
      BY <1>3, <3>4
  <2> QED
    BY <1>8, <2>2, <2>3 DEF GoogleLink
<1>9. ASSUME NEW r \in Requests, GoogleVerify(r) PROVE LinkedIsVerified'
  <2>1. CASE req[r].id = user.id
    <3>1. user'.verified
      BY <1>1, <1>9, <2>1 DEF GoogleVerify, UserRow
    <3> QED
      BY <1>3, <3>1
  <2>2. CASE req[r].id # user.id
    <3>1. UNCHANGED <<user, links, torn>>
      BY <1>9, <2>2 DEF GoogleVerify, history
    <3>2. \A s \in Requests : s # r => req'[s] = req[s]
      BY <1>1, <1>9 DEF GoogleVerify, Finish, Goes
    <3>3. ASSUME NEW l \in links, l.id = user.id PROVE Due(l)'
      <4>1. CASE user.verified \/ user.id \in torn
        BY <3>1, <4>1
      <4>2. CASE \E s \in Requests : At(s, "verify") /\ req[s].id = l.id
        <5>1. PICK s \in Requests : At(s, "verify") /\ req[s].id = l.id
          BY <4>2
        <5>2. req'[s] = req[s]
          BY <2>2, <3>2, <3>3, <5>1
        <5> QED
          BY <5>1, <5>2 DEF At
      <4> QED
        BY <1>2, <3>1, <3>3, <4>1, <4>2
    <3> QED
      BY <1>3, <3>1, <3>3
  <2> QED
    BY <2>1, <2>2
<1>10. VerifyCode \/ AcceptInvite => LinkedIsVerified'
  <2>1. VerifyCode \/ AcceptInvite => user'.verified
    BY <1>1 DEF VerifyCode, AcceptInvite, UserRow
  <2> QED
    BY <1>3, <2>1
<1>11. Delete => LinkedIsVerified'
  BY <1>3 DEF Delete
<1>12. ASSUME RefuseInvite \/ ResetPassword \/ SetDisabled \/ \E n \in 1 .. codes : Lapse(n)
       PROVE  LinkedIsVerified'
  <2>1. UNCHANGED <<req, links, torn>> /\ user'.id = user.id
        /\ user'.verified = user.verified
    BY <1>1, <1>12 DEF RefuseInvite, ResetPassword, SetDisabled, Lapse, UserRow, history
  <2>2. \A s \in Requests : At(s, "verify") => At(s, "verify")' /\ req'[s].id = req[s].id
    BY <2>1 DEF At
  <2> QED
    BY <1>5, <2>1, <2>2
<1>13. ASSUME NEW r \in Requests, UNCHANGED user,
              \/ Signup(r) \/ InviteInsert(r) \/ Resend(r) \/ Invite(r) \/ Upsert(r)
              \/ Insert(r) \/ Send(r) \/ GoogleFind(r)
              \/ \E g \in Subs : Google(r, g)
       PROVE  LinkedIsVerified'
  <2>1. UNCHANGED <<links, torn>> /\ ~At(r, "verify")
    BY <1>13
       DEF Signup, InviteInsert, Resend, Invite, Upsert, Insert, Send, Google, GoogleFind,
           At, history
  <2>2. \E q : Goes(r, q)
    BY <1>13
       DEF Signup, InviteInsert, Resend, Invite, Upsert, Insert, Send, Google, GoogleFind,
           PutOnRecord, Stored, Sent, Finish
  <2> QED
    BY <1>4, <1>5, <1>13, <2>1, <2>2
<1>14. ASSUME Restart \/ \E r \in Requests : Fail(r) PROVE LinkedIsVerified'
  <2>1. UNCHANGED <<user, links>> /\ torn \subseteq torn'
    BY <1>14 DEF Restart, Fail
  <2>2. ASSUME NEW s \in Requests, At(s, "verify")
        PROVE  req[s].id \in torn' \/ (At(s, "verify")' /\ req'[s].id = req[s].id)
    <3>1. ASSUME NEW R \in SUBSET Requests, s \in R, torn' = torn \union HalfLinked(R)
          PROVE  req[s].id \in torn'
      BY <2>2, <3>1 DEF HalfLinked
    <3>2. CASE Restart
      BY <3>1, <3>2 DEF Restart
    <3>3. ASSUME NEW r \in Requests, Fail(r), r # s
          PROVE  At(s, "verify")' /\ req'[s].id = req[s].id
      BY <1>1, <2>2, <3>3 DEF Fail, Finish, Goes, At
    <3>4. Fail(s) => req[s].id \in torn'
      BY <3>1 DEF Fail
    <3> QED
      BY <1>14, <3>2, <3>3, <3>4
  <2>3. ASSUME NEW l \in links, l.id = user.id PROVE Due(l)'
    BY <1>2, <2>1, <2>2, <2>3
  <2> QED
    BY <1>3, <2>1, <2>3
<1>15. ASSUME NEW r \in Requests,
              \/ Resend(r) \/ Invite(r) \/ Upsert(r) \/ Insert(r) \/ Send(r)
              \/ GoogleFind(r) \/ \E g \in Subs : Google(r, g)
       PROVE  UNCHANGED user
  BY <1>15 DEF Resend, Invite, Upsert, Insert, Send, Google, GoogleFind
<1> QED
  BY <1>6, <1>7, <1>8, <1>9, <1>10, <1>11, <1>12, <1>13, <1>14, <1>15 DEF Next

-----------------------------------------------------------------------------
LEMMA InvNext == Inv /\ [Next]_vars => Inv'
<1>1. Inv /\ Next => Inv'
  BY TypeStep, AimsNext, CodesNext, RowsNext, OAuthNext, LinkedNext DEF Inv
<1>2. ASSUME Inv, UNCHANGED vars PROVE Inv'
  <2>1. TypeOK' /\ Aims' /\ IssuedBefore' /\ CodesApart'
    BY <1>2 DEF vars, Inv, TypeOK, Aims, IssuedBefore, CodesApart, Unstored
  <2>2. RowsHaveUser' /\ OAuthHasLink' /\ LinkedIsVerified'
    BY <1>2 DEF vars, Inv, RowsHaveUser, OAuthHasLink, LinkedIsVerified, At
  <2> QED
    BY <2>1, <2>2 DEF Inv
<1> QED
  BY <1>1, <1>2

THEOREM InvHolds == Spec => []Inv
BY InvInit, InvNext, PTL DEF Spec

\* The state is always well typed.
THEOREM TypeCorrect == Spec => []TypeOK
BY InvHolds, PTL DEF Inv

\* No handler that is late leaves a code behind for the address's next account.
THEOREM RowsAlwaysHaveUser == Spec => []RowsHaveUser
BY InvHolds, PTL DEF Inv

\* An account without a password always has a Google account.
THEOREM OAuthAlwaysHasLink == Spec => []OAuthHasLink
BY InvHolds, PTL DEF Inv

\* A linked account is verified, or about to be, unless the sign-in that linked
\* it broke off, whatever becomes of the address meanwhile.
THEOREM LinkedAccountsAreVerified == Spec => []LinkedIsVerified
BY InvHolds, PTL DEF Inv

-----------------------------------------------------------------------------
(***************************************************************************)
(* Refinement: for each kind of code, every step is one of OneTimeCode's   *)
(* or leaves its variables alone.                                          *)
(***************************************************************************)
Still(k) == UNCHANGED <<row[k], issued[k], used[k], lapsed \intersect issued[k]>>

Issues(k) == /\ row'[k] # 0 /\ row'[k] \notin issued[k]
             /\ issued'[k] = issued[k] \union {row'[k]}
             /\ UNCHANGED <<lapsed \intersect issued[k], used[k]>>

Withdraws(k) == row'[k] = 0 /\ UNCHANGED <<issued[k], lapsed \intersect issued[k], used[k]>>

Lapses(k) == /\ \E n \in issued[k] :
                   lapsed' \intersect issued'[k] = (lapsed \intersect issued[k]) \union {n}
             /\ UNCHANGED <<row[k], issued[k], used[k]>>

Redeems(k) == /\ row[k] # 0 /\ row[k] \notin lapsed \intersect issued[k]
              /\ used'[k] = used[k] \union {row[k]} /\ row'[k] = 0
              /\ UNCHANGED <<issued[k], lapsed \intersect issued[k]>>

LEMMA Simulation ==
  ASSUME Inv, [Next]_vars, NEW k \in Kinds
  PROVE  Still(k) \/ Issues(k) \/ Withdraws(k) \/ Lapses(k) \/ Redeems(k)
<1>0. /\ row \in [Kinds -> 0 .. codes] /\ codes \in Nat
      /\ issued \in [Kinds -> SUBSET Numbers] /\ used \in [Kinds -> SUBSET Numbers]
  BY CountersTyped DEF Inv, TypeOK
<1>1. UNCHANGED <<actions, lapsed>> => Still(k)
  BY DEF actions, Still
<1>2. ASSUME NEW r \in Requests, Upsert(r) \/ Insert(r) PROVE Still(k) \/ Issues(k)
  <2>1. CASE PutOnRecord(r)
    <3> DEFINE c == req[r].code
    <3>1. /\ c # 0 /\ c \notin issued[k] /\ c \notin lapsed /\ req[r].kind \in Kinds
      BY <1>0, <1>2, <2>1, StoredIsNew
    <3>2. /\ row' = [row EXCEPT ![req[r].kind] = c]
          /\ issued' = [issued EXCEPT ![req[r].kind] = @ \union {c}]
          /\ UNCHANGED <<used, lapsed>>
      BY <1>2, <2>1 DEF PutOnRecord, Upsert, Insert
    <3> HIDE DEF c
    <3>3. CASE req[r].kind = k
      BY <1>0, <3>1, <3>2, <3>3 DEF Issues
    <3>4. CASE req[r].kind # k
      BY <1>0, <3>1, <3>2, <3>4 DEF Still
    <3> QED
      BY <3>3, <3>4
  <2> QED
    BY <1>1, <1>2, <2>1 DEF Upsert, Insert
<1>3. ASSUME VerifyCode \/ AcceptInvite PROVE Still(k) \/ Redeems(k)
  <2>1. ASSUME NEW j \in Kinds, Presented(j), Used(j), UNCHANGED lapsed
        PROVE  Still(k) \/ Redeems(k)
    <3>1. CASE j = k
      BY <1>0, <2>1, <3>1 DEF Presented, Used, Redeems
    <3>2. CASE j # k
      BY <1>0, <2>1, <3>2 DEF Used, Still
    <3> QED
      BY <3>1, <3>2
  <2> QED
    BY <1>3, <2>1 DEF VerifyCode, AcceptInvite, Kinds
<1>4. Delete => Withdraws(k)
  BY DEF Delete, Withdraws
<1>5. Restart => Still(k) \/ Withdraws(k)
  BY <1>0 DEF Restart, Still, Withdraws
<1>6. ASSUME NEW n \in 1 .. codes, Lapse(n) PROVE Still(k) \/ Lapses(k)
  <2>1. lapsed' = lapsed \union {n} /\ UNCHANGED <<row, issued, used>>
    BY <1>6 DEF Lapse, actions
  <2>2. CASE n \in issued[k]
    BY <2>1, <2>2 DEF Lapses
  <2>3. CASE n \notin issued[k]
    BY <2>1, <2>3 DEF Still
  <2> QED
    BY <2>2, <2>3
<1>7. ASSUME \/ UNCHANGED vars \/ RefuseInvite \/ ResetPassword \/ SetDisabled
             \/ \E r \in Requests :
                  \/ Signup(r) \/ Resend(r) \/ Invite(r) \/ InviteInsert(r) \/ Send(r)
                  \/ \E g \in Subs : Google(r, g)
                  \/ GoogleFind(r) \/ GoogleLink(r) \/ GoogleVerify(r) \/ GoogleNew(r)
                  \/ Fail(r)
      PROVE  UNCHANGED <<actions, lapsed>>
  BY <1>7
     DEF vars, actions, RefuseInvite, ResetPassword, SetDisabled, Signup, Resend, Invite,
         InviteInsert, Send, Google, GoogleFind, GoogleLink, GoogleVerify, GoogleNew, Fail
<1> QED
  BY <1>1, <1>2, <1>3, <1>4, <1>5, <1>6, <1>7 DEF Next

\* The verification codes of an address keep the promise of OneTimeCode.
THEOREM VerificationImplementsOneTimeCode == Spec => VerificationCodes
<1>1. Init => Verification!Init
  BY DEF Init, Verification!Init, Kinds
<1>2. Inv /\ [Next]_vars => [Verification!Next]_(Verification!vars)
  <2> SUFFICES ASSUME Inv, [Next]_vars PROVE [Verification!Next]_(Verification!vars)
    OBVIOUS
  <2> DEFINE k == "verification"
  <2>1. Still(k) => UNCHANGED Verification!vars
    BY DEF Still, Verification!vars
  <2>2. Issues(k) \/ Withdraws(k) \/ Lapses(k) \/ Redeems(k) => Verification!Next
    BY DEF Issues, Withdraws, Lapses, Redeems, Verification!Next, Verification!Issue,
           Verification!Withdraw, Verification!Lapse, Verification!Redeem
  <2> QED
    BY <2>1, <2>2, Simulation DEF Kinds
<1> QED
  BY <1>1, <1>2, InvHolds, PTL DEF Spec, VerificationCodes, Verification!Spec

\* So do its invitations.
THEOREM InvitationsImplementOneTimeCode == Spec => Invitations
<1>1. Init => Invitation!Init
  BY DEF Init, Invitation!Init, Kinds
<1>2. Inv /\ [Next]_vars => [Invitation!Next]_(Invitation!vars)
  <2> SUFFICES ASSUME Inv, [Next]_vars PROVE [Invitation!Next]_(Invitation!vars)
    OBVIOUS
  <2> DEFINE k == "invite"
  <2>1. Still(k) => UNCHANGED Invitation!vars
    BY DEF Still, Invitation!vars
  <2>2. Issues(k) \/ Withdraws(k) \/ Lapses(k) \/ Redeems(k) => Invitation!Next
    BY DEF Issues, Withdraws, Lapses, Redeems, Invitation!Next, Invitation!Issue,
           Invitation!Withdraw, Invitation!Lapse, Invitation!Redeem
  <2> QED
    BY <2>1, <2>2, Simulation DEF Kinds
<1> QED
  BY <1>1, <1>2, InvHolds, PTL DEF Spec, Invitations, Invitation!Spec

-----------------------------------------------------------------------------
(***************************************************************************)
(* Mails and accounts.  A request in flight, a mail and a row each tie a   *)
(* code to an account; no two of them tie the same code to two.            *)
(***************************************************************************)
Carrying(q) == q.pc \in {"upsert", "insert", "send"}

InFlight == {<<req[r].code, req[r].id>> : r \in {s \in Requests : Carrying(req[s])}}
Mailed == {<<mail[k].code, mail[k].id>> : k \in {j \in Kinds : mail[j].code # 0}}
OnRecord == {<<row[k], user.id>> : k \in {j \in Kinds : row[j] # 0}}
Ties == InFlight \union Mailed \union OnRecord

MailTyped == mail \in [Kinds -> [code : Nat, id : Nat]]

OneAccount == /\ MailTyped
              /\ \A c \in Ties : c[1] \in 1 .. codes
              /\ \A c, d \in Ties : c[1] = d[1] => c[2] = d[2]

\* No step ties a code anew, unless the code is fresh.
LEMMA TiesKept ==
  ASSUME Inv, OneAccount, MailTyped', codes' = codes, Ties' \subseteq Ties
  PROVE  OneAccount'
BY DEF OneAccount

LEMMA TiesFresh ==
  ASSUME Inv, OneAccount, MailTyped', Fresh, NEW id,
         Ties' \subseteq Ties \union {<<codes + 1, id>>}
  PROVE  OneAccount'
<1>1. codes \in Nat /\ codes' = codes + 1
  BY CountersTyped DEF Inv, Fresh
<1>2. \A c \in Ties : c[1] \in 1 .. codes /\ c[1] # codes + 1
  BY <1>1 DEF OneAccount
<1>3. 1 .. codes \subseteq 1 .. codes' /\ codes + 1 \in 1 .. codes'
  BY <1>1
<1>4. \A c \in Ties' : c \in Ties \/ c = <<codes + 1, id>>
  OBVIOUS
<1>5. \A c \in Ties' : c[1] \in 1 .. codes'
  BY <1>2, <1>3, <1>4
<1>6. \A c, d \in Ties' : c[1] = d[1] => c[2] = d[2]
  BY <1>2, <1>4 DEF OneAccount
<1> QED
  BY <1>5, <1>6 DEF OneAccount

LEMMA GoesInFlight ==
  ASSUME Inv, NEW r \in Requests, NEW q, Goes(r, q), NEW X,
         Carrying(q) => <<q.code, q.id>> \in X
  PROVE  InFlight' \subseteq InFlight \union X
<1>1. req'[r] = q /\ \A s \in Requests : s # r => req'[s] = req[s]
  BY CountersTyped DEF Inv, Goes
<1> QED
  BY <1>1 DEF InFlight, Carrying

LEMMA NextTies == Inv /\ OneAccount /\ Next => OneAccount'
<1> SUFFICES ASSUME Inv, OneAccount, Next PROVE OneAccount'
  OBVIOUS
<1>0. req \in [Requests -> Flight(users, codes)] /\ MailTyped
      /\ row \in [Kinds -> 0 .. codes] /\ ~Carrying(NoRequest)
  BY CountersTyped DEF Inv, OneAccount, TypeOK, Carrying, NoRequest
\* what the parts of a step do to the ties;
<1>1. UNCHANGED mails => MailTyped' /\ Mailed' = Mailed
  BY <1>0 DEF mails, MailTyped, Mailed
<1>2. UNCHANGED <<row, user>> => OnRecord' = OnRecord
  BY DEF OnRecord
<1>3. UNCHANGED row /\ (user'.id = user.id \/ user.id = 0) => OnRecord' = OnRecord
  BY DEF OnRecord, Inv, RowsHaveUser
<1>4. ASSUME NEW r \in Requests, Finish(r) PROVE InFlight' \subseteq InFlight
  BY <1>0, <1>4, GoesInFlight DEF Finish
<1>5. ASSUME NEW r \in Requests, NEW q, Goes(r, q), ~Carrying(q)
      PROVE  InFlight' \subseteq InFlight
  <2>1. InFlight' \subseteq InFlight \union {}
    BY <1>5, GoesInFlight
  <2> QED
    BY <2>1
\* a code that is sent or stored is its request's;
<1>6. ASSUME NEW r \in Requests, Carrying(req[r]), NEW pc, Goes(r, [req[r] EXCEPT !.pc = pc])
      PROVE  InFlight' \subseteq InFlight
  <2>1. PICK q : q = [req[r] EXCEPT !.pc = pc]
    OBVIOUS
  <2>2. q.code = req[r].code /\ q.id = req[r].id
    BY <1>0, <2>1 DEF Flight
  <2>3. <<q.code, q.id>> \in InFlight
    BY <1>6, <2>2 DEF InFlight
  <2> QED
    BY <1>6, <2>1, <2>3, GoesInFlight
<1>7. ASSUME NEW r \in Requests, PutOnRecord(r), Carrying(req[r]), req[r].id = user.id,
             UNCHANGED <<user, codes, mails>>
      PROVE  OneAccount'
  <2>1. req[r] \in Flight(users, codes) /\ <<req[r].code, req[r].id>> \in InFlight
    BY <1>0, <1>7 DEF InFlight
  <2>2. InFlight' \subseteq InFlight
    BY <1>4, <1>6, <1>7 DEF PutOnRecord, Stored
  <2>3. row' = [row EXCEPT ![req[r].kind] = req[r].code] /\ req[r].kind \in Kinds
    BY <1>7, <2>1 DEF PutOnRecord, Flight
  <2>4. \A k \in Kinds : row'[k] = row[k] \/ row'[k] = req[r].code
    BY <1>0, <2>3
  <2>5. OnRecord' \subseteq OnRecord \union InFlight
    BY <1>7, <2>1, <2>4 DEF OnRecord
  <2> QED
    BY <1>1, <1>7, <2>2, <2>5, TiesKept DEF Ties
<1>8. ASSUME NEW r \in Requests, Upsert(r) \/ Insert(r) PROVE OneAccount'
  <2>1. UNCHANGED <<user, codes, mails>> /\ Carrying(req[r])
    BY <1>8 DEF Upsert, Insert, At, Carrying
  <2>2. CASE PutOnRecord(r) /\ req[r].id = user.id
    BY <1>7, <2>1, <2>2
  <2>3. CASE UNCHANGED actions /\ (Finish(r) \/ Goes(r, [req[r] EXCEPT !.pc = "insert"]))
    <3>1. InFlight' \subseteq InFlight
      BY <1>4, <1>6, <2>1, <2>3
    <3> QED
      BY <1>1, <1>2, <2>1, <2>3, <3>1, TiesKept DEF Ties, actions
  <2> QED
    BY <1>8, <2>2, <2>3 DEF Upsert, Insert
<1>9. ASSUME NEW r \in Requests, Send(r) PROVE OneAccount'
  <2>1. UNCHANGED <<user, codes, row>> /\ Carrying(req[r])
    BY <1>9 DEF Send, At, Carrying, actions
  <2>2. req[r] \in Flight(users, codes) /\ <<req[r].code, req[r].id>> \in InFlight
    BY <1>0, <2>1 DEF InFlight
  <2>3. InFlight' \subseteq InFlight
    BY <1>4, <1>6, <1>9, <2>1 DEF Send, Sent
  <2>4. CASE mail' = [mail EXCEPT ![req[r].kind] = [code |-> req[r].code, id |-> req[r].id]]
    <3>1. req[r].code \in Nat /\ req[r].id \in Nat /\ req[r].kind \in Kinds
      BY <2>2, CountersTyped DEF Inv, Flight
    <3>2. MailTyped'
      BY <1>0, <2>4, <3>1 DEF MailTyped
    <3>3. \A k \in Kinds : \/ mail'[k] = mail[k]
                           \/ mail'[k].code = req[r].code /\ mail'[k].id = req[r].id
      BY <1>0, <2>4, <3>1 DEF MailTyped
    <3>4. Mailed' \subseteq Mailed \union InFlight
      BY <2>2, <3>3 DEF Mailed
    <3> QED
      BY <1>2, <2>1, <2>3, <3>2, <3>4, TiesKept DEF Ties
  <2>5. CASE UNCHANGED mails
    BY <1>1, <1>2, <2>1, <2>3, <2>5, TiesKept DEF Ties
  <2> QED
    BY <1>9, <2>4, <2>5 DEF Send
\* a fresh code is tied to one account;
<1>10. ASSUME NEW r \in Requests, NEW kind, NEW id, NEW pc, Goes(r, Sets(kind, id, pc)),
              Fresh, UNCHANGED <<row, mails>>, user'.id = user.id \/ user.id = 0
       PROVE  OneAccount'
  <2>1. PICK q : q = Sets(kind, id, pc)
    OBVIOUS
  <2>2. <<q.code, q.id>> = <<codes + 1, id>>
    BY <2>1, SetsFields
  <2>3. InFlight' \subseteq InFlight \union {<<codes + 1, id>>}
    BY <1>10, <2>1, <2>2, GoesInFlight
  <2>4. Ties' \subseteq Ties \union {<<codes + 1, id>>}
    BY <1>1, <1>3, <1>10, <2>3 DEF Ties
  <2> QED
    BY <1>1, <1>10, <2>4, TiesFresh
<1>11. ASSUME NEW r \in Requests, Signup(r) \/ Resend(r) PROVE OneAccount'
  <2>1. UNCHANGED <<row, mails>> /\ Fresh /\ (user'.id = user.id \/ user.id = 0)
    BY <1>11 DEF Signup, Resend, NewUser, actions
  <2>2. \E id : Goes(r, Sets("verification", id, "send"))
    BY <1>11 DEF Signup, Resend
  <2> QED
    BY <1>10, <2>1, <2>2
<1>12. ASSUME UNCHANGED <<codes, row, mails>>, user'.id = user.id \/ user.id = 0,
              InFlight' \subseteq InFlight
       PROVE  OneAccount'
  BY <1>1, <1>3, <1>12, TiesKept DEF Ties
<1>13. ASSUME NEW r \in Requests, Invite(r) \/ InviteInsert(r) PROVE OneAccount'
  <2>1. UNCHANGED <<row, mails>> /\ (user'.id = user.id \/ user.id = 0)
    BY <1>13 DEF Invite, InviteInsert, NewUser, actions
  <2>2. ~Carrying([NoRequest EXCEPT !.pc = "invite"])
    BY DEF Carrying, NoRequest
  <2>3. \/ UNCHANGED codes /\ Finish(r)
        \/ UNCHANGED codes /\ Goes(r, [NoRequest EXCEPT !.pc = "invite"])
        \/ Fresh /\ \E id : Goes(r, Sets("invite", id, "upsert"))
    BY <1>13 DEF Invite, InviteInsert
  <2> QED
    BY <1>4, <1>5, <1>10, <1>12, <2>1, <2>2, <2>3
\* and the other steps tie none.
<1>14. ASSUME NEW r \in Requests, (\E g \in Subs : Google(r, g)) \/ GoogleFind(r)
                                  \/ GoogleLink(r) \/ GoogleVerify(r) \/ GoogleNew(r)
                                  \/ Fail(r)
       PROVE  OneAccount'
  <2>1. UNCHANGED <<codes, row, mails>> /\ (user'.id = user.id \/ user.id = 0)
    <3>1. CASE (\E g \in Subs : Google(r, g)) \/ GoogleFind(r) \/ GoogleLink(r) \/ GoogleNew(r)
               \/ Fail(r)
      BY <3>1 DEF Google, GoogleFind, GoogleLink, GoogleNew, Fail, NewUser, actions
    <3>2. CASE GoogleVerify(r)
      <4>1. user \in UserRow(users)
        BY CountersTyped DEF Inv
      <4> QED
        BY <3>2, <4>1 DEF GoogleVerify, UserRow, actions
    <3> QED
      BY <1>14, <3>1, <3>2
  <2>2. /\ \A g : ~Carrying([NoRequest EXCEPT !.pc = "find", !.sub = g])
        /\ ~Carrying([req[r] EXCEPT !.pc = "new"])
        /\ ~Carrying([req[r] EXCEPT !.pc = "link", !.id = user.id])
        /\ ~Carrying([req[r] EXCEPT !.pc = "verify"])
    BY <1>0 DEF Carrying, NoRequest, Flight
  <2>3. InFlight' \subseteq InFlight
    BY <1>4, <1>5, <1>14, <2>2
       DEF Google, GoogleFind, GoogleLink, GoogleVerify, GoogleNew, Fail
  <2> QED
    BY <1>12, <2>1, <2>3
<1>15. UNCHANGED req => InFlight' = InFlight
  BY DEF InFlight, Carrying
<1>16. CASE VerifyCode \/ AcceptInvite
  <2>1. UNCHANGED <<codes, mails, req>> /\ user'.id = user.id
        /\ \A k \in Kinds : row'[k] = row[k] \/ row'[k] = 0
    <3>1. user \in UserRow(users)
      BY CountersTyped DEF Inv
    <3> QED
      BY <1>0, <1>16, <3>1 DEF VerifyCode, AcceptInvite, Used, UserRow
  <2>2. OnRecord' \subseteq OnRecord
    BY <2>1 DEF OnRecord
  <2> QED
    BY <1>1, <1>15, <2>1, <2>2, TiesKept DEF Ties
<1>17. CASE RefuseInvite \/ ResetPassword \/ SetDisabled \/ \E n \in 1 .. codes : Lapse(n)
  <2>1. user \in UserRow(users)
    BY CountersTyped DEF Inv
  <2>2. UNCHANGED <<codes, row, mails, req>> /\ user'.id = user.id
    BY <1>17, <2>1 DEF RefuseInvite, ResetPassword, SetDisabled, Lapse, actions, UserRow
  <2> QED
    BY <1>12, <1>15, <2>2
<1>18. CASE Delete
  <2>1. UNCHANGED <<codes, mails, req>> /\ \A k \in Kinds : row'[k] = 0
    BY <1>18 DEF Delete
  <2>2. OnRecord' = {}
    BY <2>1 DEF OnRecord
  <2> QED
    BY <1>1, <1>15, <2>1, <2>2, TiesKept DEF Ties
<1>19. CASE Restart
  <2>1. UNCHANGED <<codes, mails, user>> /\ \A k \in Kinds : row'[k] = row[k] \/ row'[k] = 0
    BY <1>0, <1>19 DEF Restart
  <2>2. OnRecord' \subseteq OnRecord
    BY <2>1 DEF OnRecord
  <2>3. InFlight' = {}
    BY <1>0, <1>19 DEF Restart, InFlight
  <2> QED
    BY <1>1, <2>1, <2>2, <2>3, TiesKept DEF Ties
<1> QED
  BY <1>8, <1>9, <1>11, <1>13, <1>14, <1>16, <1>17, <1>18, <1>19 DEF Next

LEMMA InitTies == Init => OneAccount
<1> SUFFICES ASSUME Init PROVE OneAccount
  OBVIOUS
<1>1. InFlight = {}
  BY DEF Init, InFlight, Carrying, NoRequest
<1>2. MailTyped /\ Mailed = {} /\ OnRecord = {}
  BY DEF Init, MailTyped, Mailed, OnRecord
<1> QED
  BY <1>1, <1>2 DEF OneAccount, Ties

\* A code that redeems and was mailed last was mailed for the account there is,
\* whatever handlers of an earlier account of the address are still on their way.
THEOREM MailsAreOfThisAccount == Spec => []MailsOfThisAccount
<1>1. Init => Inv /\ OneAccount
  BY InvInit, InitTies
<1>2. Inv /\ OneAccount /\ [Next]_vars => (Inv /\ OneAccount)'
  <2>1. UNCHANGED vars /\ OneAccount => OneAccount'
    BY DEF vars, OneAccount, MailTyped, Ties, InFlight, Mailed, OnRecord, Carrying
  <2> QED
    BY <2>1, InvNext, NextTies
<1>3. OneAccount => MailsOfThisAccount
  <2> SUFFICES ASSUME OneAccount, NEW k \in Kinds, row[k] # 0, mail[k].code = row[k]
               PROVE  mail[k].id = user.id
    BY DEF MailsOfThisAccount
  <2>1. <<mail[k].code, mail[k].id>> \in Ties /\ <<row[k], user.id>> \in Ties
    BY DEF Ties, Mailed, OnRecord
  <2> QED
    BY <2>1 DEF OneAccount
<1> QED
  BY <1>1, <1>2, <1>3, PTL DEF Spec
=============================================================================
