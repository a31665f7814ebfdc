--------------------------- MODULE AccountLifecycle ---------------------------
(***************************************************************************)
(* How an e-mail address comes by an account: signing up and verifying the *)
(* address, being invited by an administrator, and signing in with Google. *)
(*                                                                         *)
(* One address is modelled: the users table holds at most one row for it.  *)
(* All of these handlers run in the thread pool, so they interleave at     *)
(* every statement, under READ COMMITTED; a statement that finds a row     *)
(* FOR UPDATE and the commit that ends its transaction are one step.       *)
(***************************************************************************)
EXTENDS Naturals, FiniteSets

CONSTANTS
    Requests,    \* slots for requests in flight
    Subs,        \* Google accounts with this address
    MaxUsers,    \* bound: rows the address may go through
    MaxCodes,    \* bound: codes generated
    MaxRestarts  \* bound: restarts of the process

ASSUME LifecycleAssumption ==
    {MaxUsers, MaxCodes, MaxRestarts} \subseteq Nat /\ Subs # {}

VARIABLES
    user,       \* the users row of the address; its id is 0 if there is none
    users,      \* rows there have been: ids are 1 .. users
    links,      \* oauth_accounts
    row,        \* pending_actions: the code per kind of action; 0 for no row
    codes,      \* codes generated so far
    lapsed,     \* the codes whose time is up
    req,        \* the requests in flight
    restarts,
    issued,     \* per kind, the codes that were ever in a row  (history)
    used,       \* per kind, the codes that were redeemed  (history)
    delivered,  \* the codes that reached the address by mail
    mail,       \* per kind, the last of them, and for which row
    accepted,   \* the rows whose invitation was accepted  (history)
    torn,       \* the rows whose linking broke off unverified  (history)
    told        \* what a client was told last, and of which row

vars == <<user, users, links, row, codes, lapsed, req, restarts, issued, used,
          delivered, mail, accepted, torn, told>>

Kinds == {"verification", "invite"}
NoUser == [id |-> 0, hash |-> "own", verified |-> FALSE, disabled |-> FALSE]
Steps == {"idle", "invite", "upsert", "insert", "send", "find", "link", "new", "verify"}
NoRequest == [pc |-> "idle", kind |-> "invite", id |-> 0, code |-> 0,
              sub |-> CHOOSE g \in Subs : TRUE]

Init ==
    /\ user = NoUser /\ users = 0
    /\ links = {} /\ row = [k \in Kinds |-> 0]
    /\ codes = 0 /\ lapsed = {}
    /\ req = [r \in Requests |-> NoRequest] /\ restarts = 0
    /\ issued = [k \in Kinds |-> {}] /\ used = [k \in Kinds |-> {}]
    /\ delivered = {} /\ mail = [k \in Kinds |-> [code |-> 0, id |-> 0]]
    /\ accepted = {} /\ torn = {} /\ told = [what |-> "nothing", id |-> 0]

-----------------------------------------------------------------------------
At(r, pc) == req[r].pc = pc
Goes(r, q) == req' = [req EXCEPT ![r] = q]
Finish(r) == Goes(r, NoRequest)

\* A request with a fresh code for the row `id`.
Sets(kind, id, pc) == [NoRequest EXCEPT !.pc = pc, !.kind = kind, !.id = id,
                                        !.code = codes + 1]
Fresh == codes < MaxCodes /\ codes' = codes + 1

\* INSERT of a users row: the address must be new.
NewUser(hash, verified) ==
    /\ user.id = 0 /\ users < MaxUsers
    /\ users' = users + 1
    /\ user' = [id |-> users', hash |-> hash, verified |-> verified, disabled |-> FALSE]

actions == <<row, issued, used>>
mails == <<delivered, mail>>
history == <<accepted, torn, told>>

-----------------------------------------------------------------------------
\* user_create: the account is committed; the code is generated and mailed.
Signup(r) ==
    /\ At(r, "idle") /\ NewUser("own", FALSE) /\ Fresh
    /\ Goes(r, Sets("verification", users', "send"))
    /\ UNCHANGED <<links, actions, lapsed, restarts, mails, history>>

\* resend_verification_email.
Resend(r) ==
    /\ At(r, "idle") /\ user.id # 0 /\ ~user.verified /\ Fresh
    /\ Goes(r, Sets("verification", user.id, "send"))
    /\ UNCHANGED <<user, users, links, actions, lapsed, restarts, mails, history>>

\* invite_user finds no row, or one whose invitation is pending; else: 409.
Invite(r) ==
    /\ At(r, "idle")
    /\ \/ /\ user.id = 0
          /\ Goes(r, [NoRequest EXCEPT !.pc = "invite"]) /\ UNCHANGED codes
       \/ /\ user.id # 0 /\ user.hash = "!invited" /\ ~user.verified /\ Fresh
          /\ Goes(r, Sets("invite", user.id, "upsert"))
    /\ UNCHANGED <<user, users, links, actions, lapsed, restarts, mails, history>>

\* create_invited_user, which may find that the address is taken by now.
InviteInsert(r) ==
    /\ At(r, "invite")
    /\ \/ /\ NewUser("!invited", FALSE) /\ Fresh
          /\ Goes(r, Sets("invite", users', "upsert"))
       \/ /\ user.id # 0
          /\ Finish(r) /\ UNCHANGED <<user, users, codes>>
    /\ UNCHANGED <<links, actions, lapsed, restarts, mails, history>>

\* A verification code is mailed and then stored, an invitation the other way.
Stored(r) == IF req[r].kind = "invite" THEN Goes(r, [req[r] EXCEPT !.pc = "send"])
             ELSE Finish(r)
Sent(r) == IF req[r].kind = "verification" THEN Goes(r, [req[r] EXCEPT !.pc = "upsert"])
           ELSE Finish(r)

PutOnRecord(r) ==
    LET q == req[r]
    IN  /\ row' = [row EXCEPT ![q.kind] = q.code]
        /\ issued' = [issued EXCEPT ![q.kind] = @ \union {q.code}]
        /\ Stored(r)
        /\ UNCHANGED used

\* upsert_action: SELECT FOR UPDATE finds the row and it is updated, or not.
Upsert(r) ==
    LET q == req[r]
    IN  /\ At(r, "upsert")
        /\ IF q.id = user.id /\ row[q.kind] # 0
           THEN PutOnRecord(r)
           ELSE Goes(r, [q EXCEPT !.pc = "insert"]) /\ UNCHANGED actions
        /\ UNCHANGED <<user, users, links, codes, lapsed, restarts, mails, history>>

\* A slip: no foreign key ties the row to its user.
InsertAnyway(r) ==
    /\ At(r, "insert")
    /\ IF row[req[r].kind] = 0 THEN PutOnRecord(r) ELSE Finish(r) /\ UNCHANGED actions
    /\ UNCHANGED <<user, users, links, codes, lapsed, restarts, mails, history>>

\* INSERT: the user must be there still and have no such row yet, or else the
\* request dies of an IntegrityError.
Insert(r) ==
    LET q == req[r]
    IN  /\ At(r, "insert")
        /\ IF q.id = user.id /\ row[q.kind] = 0
           THEN PutOnRecord(r)
           ELSE Finish(r) /\ UNCHANGED actions
        /\ UNCHANGED <<user, users, links, codes, lapsed, restarts, mails, history>>

\* requests.post to the mail service: the mail may be delivered or not, and
\* the call may succeed or raise even if it is.
Send(r) ==
    LET q == req[r]
    IN  /\ At(r, "send")
        /\ \/ delivered' = delivered \union {q.code}
              /\ mail' = [mail EXCEPT ![q.kind] = [code |-> q.code, id |-> q.id]]
              /\ (Sent(r) \/ Finish(r))
           \/ Finish(r) /\ UNCHANGED mails
        /\ UNCHANGED <<user, users, links, actions, codes, lapsed, restarts, history>>

-----------------------------------------------------------------------------
\* A slip: the row outlives its redemption.
UsedButKept(k) ==
    /\ used' = [used EXCEPT ![k] = @ \union {row[k]}]
    /\ UNCHANGED <<row, issued>>

\* delete_action of the code that is redeemed.
Used(k) ==
    /\ used' = [used EXCEPT ![k] = @ \union {row[k]}]
    /\ row' = [row EXCEPT ![k] = 0]
    /\ UNCHANGED issued

\* A code that was delivered and is on record still.
Presented(k) == row[k] # 0 /\ row[k] \in delivered /\ row[k] \notin lapsed

\* verify_email_code: row and user are locked, checked and committed at once.
VerifyCode ==
    /\ Presented("verification") /\ ~user.verified
    /\ user' = [user EXCEPT !.verified = TRUE]
    /\ Used("verification")
    /\ UNCHANGED <<users, links, codes, lapsed, req, restarts, mails, history>>

\* accept_invite.
AcceptInvite ==
    /\ Presented("invite") /\ ~user.verified
    /\ user' = [user EXCEPT !.hash = "own", !.verified = TRUE]
    /\ Used("invite")
    /\ accepted' = accepted \union {user.id}
    /\ UNCHANGED <<users, links, codes, lapsed, req, restarts, mails, torn, told>>

\* _get_valid_invite: "Invite has already been accepted".
RefuseInvite ==
    /\ Presented("invite") /\ user.verified
    /\ told' = [what |-> "accepted", id |-> user.id]
    /\ UNCHANGED <<user, users, links, actions, codes, lapsed, req, restarts, mails,
                   accepted, torn>>

-----------------------------------------------------------------------------
\* google_callback: this Google account is not linked yet.  (If it is, the
\* user of the link signs in, and nothing changes here.)
Google(r, g) ==
    /\ At(r, "idle") /\ \A l \in links : l.sub # g
    /\ Goes(r, [NoRequest EXCEPT !.pc = "find", !.sub = g])
    /\ UNCHANGED <<user, users, links, actions, codes, lapsed, restarts, mails, history>>

\* A slip: that nobody has the address is not noticed.
GoogleFindAnyway(r) ==
    /\ At(r, "find")
    /\ IF user.disabled THEN Finish(r)
       ELSE Goes(r, [req[r] EXCEPT !.pc = "link", !.id = user.id])
    /\ UNCHANGED <<user, users, links, actions, codes, lapsed, restarts, mails, history>>

\* find_user_by_email.
GoogleFind(r) ==
    /\ At(r, "find")
    /\ \/ user.id = 0 /\ Goes(r, [req[r] EXCEPT !.pc = "new"])
       \/ /\ user.id # 0 /\ ~user.disabled
          /\ Goes(r, [req[r] EXCEPT !.pc = "link", !.id = user.id])
       \/ user.id # 0 /\ user.disabled /\ Finish(r)
    /\ UNCHANGED <<user, users, links, actions, codes, lapsed, restarts, mails, history>>

\* A slip: to link the Google account is all.
GoogleLinkOnly(r) ==
    LET q == req[r]
    IN  /\ At(r, "link") /\ Finish(r)
        /\ IF q.id = user.id /\ \A l \in links : l.sub # q.sub
           THEN links' = links \union {[sub |-> q.sub, id |-> q.id]} /\ UNCHANGED told
           ELSE told' = [what |-> "linked", id |-> q.id] /\ UNCHANGED links
        /\ UNCHANGED <<user, users, actions, codes, lapsed, restarts, mails, accepted,
                       torn>>

\* create_oauth_account, committed; any IntegrityError is a duplicate: 409.
GoogleLink(r) ==
    LET q == req[r]
    IN  /\ At(r, "link")
        /\ IF q.id = user.id /\ \A l \in links : l.sub # q.sub
           THEN /\ links' = links \union {[sub |-> q.sub, id |-> q.id]}
                /\ Goes(r, [q EXCEPT !.pc = "verify"])
                /\ UNCHANGED told
           ELSE /\ told' = [what |-> "linked", id |-> q.id]
                /\ Finish(r) /\ UNCHANGED links
        /\ UNCHANGED <<user, users, actions, codes, lapsed, restarts, mails, accepted,
                       torn>>

\* user.is_verified = True, in a transaction of its own.
GoogleVerify(r) ==
    /\ At(r, "verify")
    /\ user' = IF req[r].id = user.id THEN [user EXCEPT !.verified = TRUE] ELSE user
    /\ Finish(r)
    /\ UNCHANGED <<users, links, actions, codes, lapsed, restarts, mails, history>>

\* A slip: the new user is committed before it is linked.
GoogleNewCommitted(r) ==
    /\ At(r, "new") /\ NewUser("!oauth", TRUE)
    /\ Goes(r, [req[r] EXCEPT !.pc = "link", !.id = users'])
    /\ UNCHANGED <<links, actions, codes, lapsed, restarts, mails, history>>

\* A new user and its link, in one transaction; or the address is taken.
GoogleNew(r) ==
    /\ At(r, "new")
    /\ \/ /\ NewUser("!oauth", TRUE)
          /\ links' = links \union {[sub |-> req[r].sub, id |-> users']}
       \/ user.id # 0 /\ UNCHANGED <<user, users, links>>
    /\ Finish(r)
    /\ UNCHANGED <<actions, codes, lapsed, restarts, mails, history>>

-----------------------------------------------------------------------------
\* A reset of the password, which an administrator can force on any account.
ResetPassword ==
    /\ user.id # 0
    /\ user' = [user EXCEPT !.hash = "own"]
    /\ UNCHANGED <<users, links, actions, codes, lapsed, req, restarts, mails, history>>

\* disable_user and enable_user.
SetDisabled ==
    /\ user.id # 0
    /\ user' = [user EXCEPT !.disabled = ~@]
    /\ UNCHANGED <<users, links, actions, codes, lapsed, req, restarts, mails, history>>

\* delete_user, by the account's owner: ON DELETE CASCADE does the rest.
Delete ==
    /\ user.id # 0 /\ user.hash = "own" /\ user.verified /\ ~user.disabled
    /\ user' = NoUser /\ links' = {} /\ row' = [k \in Kinds |-> 0]
    /\ UNCHANGED <<users, codes, lapsed, req, restarts, issued, used, mails, history>>

Lapse(n) ==
    /\ \E k \in Kinds : n \in issued[k] \ lapsed
    /\ lapsed' = lapsed \union {n}
    /\ UNCHANGED <<user, users, links, actions, codes, req, restarts, mails, history>>

\* Linked by one of these requests, and not marked verified yet.
HalfLinked(R) == {req[r].id : r \in {s \in R : At(s, "verify")}}

\* A handler dies of an error, a connection that does not come in time or one
\* that breaks, and what it committed stays; so, too, in the refresh and the
\* reload that come between the two commits of google_callback.
Fail(r) ==
    /\ ~At(r, "idle") /\ Finish(r)
    /\ torn' = torn \union HalfLinked({r})
    /\ UNCHANGED <<user, users, links, actions, codes, lapsed, restarts, mails, accepted, told>>

\* The process dies and starts again; cleanup_expired_actions.
Restart ==
    /\ restarts < MaxRestarts /\ restarts' = restarts + 1
    /\ torn' = torn \union HalfLinked(Requests)
    /\ req' = [r \in Requests |-> NoRequest]
    /\ row' = [k \in Kinds |-> IF row[k] \in lapsed THEN 0 ELSE row[k]]
    /\ UNCHANGED <<user, users, links, codes, lapsed, issued, used, mails, accepted, told>>

Next ==
    \/ \E r \in Requests :
          \/ Signup(r) \/ Resend(r) \/ Invite(r) \/ InviteInsert(r)
          \/ Upsert(r) \/ Insert(r) \/ Send(r)
          \/ \E g \in Subs : Google(r, g)
          \/ GoogleFind(r) \/ GoogleLink(r) \/ GoogleVerify(r) \/ GoogleNew(r)
          \/ Fail(r)
    \/ VerifyCode \/ AcceptInvite \/ RefuseInvite
    \/ ResetPassword \/ SetDisabled \/ Delete \/ Restart
    \/ \E n \in 1 .. codes : Lapse(n)

Spec == Init /\ [][Next]_vars

-----------------------------------------------------------------------------
Numbers == 0 .. MaxCodes
Ids == 0 .. MaxUsers

\* The state is well typed.
TypeOK ==
    /\ users \in Ids /\ codes \in Numbers /\ lapsed \subseteq Numbers
    /\ user \in [id : 0 .. users, hash : {"own", "!invited", "!oauth"},
                 verified : BOOLEAN, disabled : BOOLEAN]
    /\ links \subseteq [sub : Subs, id : 1 .. users]
    /\ row \in [Kinds -> 0 .. codes]
    /\ req \in [Requests -> [pc : Steps, kind : Kinds, id : 0 .. users,
                             code : 0 .. codes, sub : Subs]]
    /\ issued \in [Kinds -> SUBSET Numbers] /\ used \in [Kinds -> SUBSET Numbers]
    /\ delivered \subseteq Numbers /\ accepted \subseteq Ids /\ torn \subseteq Ids
    /\ restarts \in 0 .. MaxRestarts

\* A code is on record only for an account that exists: a handler that is
\* late cannot leave one behind for the address's next account.
RowsHaveUser == \A k \in Kinds : row[k] # 0 => user.id # 0

\* An account without a password can be entered: it has a Google account
\* (the user and the link are one transaction).
OAuthHasLink == user.hash = "!oauth" => \E l \in links : l.id = user.id

\* The code that redeems now was mailed for the account there is now: an
\* address that was deleted and signed up again, with handlers of its first
\* life still on their way, never has an earlier account's mail work.
MailsOfThisAccount ==
    \A k \in Kinds : row[k] # 0 /\ mail[k].code = row[k] => mail[k].id = user.id

\* Of the codes of a kind, only the one on record is redeemed, and once.
Verification == INSTANCE OneTimeCode WITH
    current <- row["verification"], issued <- issued["verification"],
    redeemed <- used["verification"], lapsed <- lapsed \intersect issued["verification"]
Invitation == INSTANCE OneTimeCode WITH
    current <- row["invite"], issued <- issued["invite"],
    redeemed <- used["invite"], lapsed <- lapsed \intersect issued["invite"]

VerificationCodes == Verification!Spec
Invitations == Invitation!Spec

\* An account that is linked to a Google account is verified once the sign-in
\* that linked it is over, whatever the address does meanwhile, unless that
\* sign-in broke off: link and is_verified are two commits, and later sign-ins
\* find the link and look no further.
LinkedIsVerified ==
    \A l \in links :
        l.id = user.id => \/ user.verified \/ user.id \in torn
                          \/ \E r \in Requests : At(r, "verify") /\ req[r].id = l.id

-----------------------------------------------------------------------------
(* What the documents, messages and tests of the repository promise, and   *)
(* the code does not keep: README.md, "Divergences".                       *)

\* Who is told that an invitation was accepted is told the truth
\* (invite_service.py, "Invite has already been accepted").
AcceptedIsTrue == told.what = "accepted" => told.id \in accepted

\* Who signs in with Google has a verified account (test_google_oauth.py,
\* "unverified user becomes verified via OAuth").
SignedInIsVerified ==
    \A l \in links :
        l.id = user.id => \/ user.verified
                          \/ \E r \in Requests : At(r, "verify") /\ req[r].id = l.id

\* Who is told that a Google account is linked to another user is told the
\* truth (oauth_account_repository.py, "already linked to another user").
LinkedElsewhereIsTrue ==
    told.what = "linked" => \E l \in links : l.id # told.id

\* When nothing is in flight, the last mail that was delivered works, as long
\* as its code has not lapsed and the account still needs it.
LastMailWorks(k) ==
    /\ \A r \in Requests : At(r, "idle")
    /\ mail[k].code # 0 /\ mail[k].code \notin lapsed
    /\ mail[k].id = user.id /\ ~user.verified
    => row[k] = mail[k].code

\* email.py, "Click the link below to verify your email address."
VerificationMailWorks == LastMailWorks("verification")

\* email.py, "Click the link below to set up your account."
InviteMailWorks == LastMailWorks("invite")
=============================================================================
