---------------------------- MODULE PasswordReset ----------------------------
(***************************************************************************)
(* Resetting a password: app/services/password_service.py, the forced      *)
(* reset of app/services/admin_services.py, and the rows both keep in      *)
(* pending_actions, for one account.                                       *)
(*                                                                         *)
(* A reset is a ticket: a code, which is mailed, and a JWT.  Tickets are   *)
(* numbered in the order they are put on record; ticket n has the code n   *)
(* and the jti n, in a row each.  Every handler here is a coroutine: it    *)
(* has the event loop to itself except where it awaits Redis, and a row    *)
(* lock it holds then stays held.  Only the handlers that verify an        *)
(* account or accept an invitation may run in threads.                     *)
(*                                                                         *)
(* The code's row carries an instant, the token's the whole second of the  *)
(* JWT: of the two either may be over first, within a second.  Redis is    *)
(* told the token's remaining seconds, rounded down.                       *)
(***************************************************************************)
EXTENDS Naturals, FiniteSets

CONSTANTS
    Requests,     \* slots for requests in flight
    Nobody,       \* no request
    Accounts,     \* what the account may be at first
    Ways,         \* how tickets are redeemed: by "code", by "token"
    MaxTickets,   \* bound: tickets issued
    MaxRestarts   \* bound: restarts of the process

AccountStates == {"password", "oauth", "unverified", "invited", "gone"}

ASSUME ResetAssumption ==
    /\ Nobody \notin Requests /\ Accounts \subseteq AccountStates
    /\ Ways \subseteq {"code", "token"}
    /\ MaxTickets \in Nat /\ MaxRestarts \in Nat

VARIABLES
    account,      \* the users row: verified with a password, with "!oauth"; signed up,
                  \* or invited, and not verified; gone
    jti, code,    \* the two pending_actions rows: a ticket, or 0 for no row
    issued,       \* tickets put on record so far
    ending,       \* tickets whose token has come into its last second
    expired,      \* tickets whose token, and its row, are over
    lapsed,       \* tickets whose code is over
    blacklisted,  \* jtis put on the blacklist
    redis,        \* "up" or "failing"
    holder,       \* the transaction that holds the users row FOR UPDATE
    hung,         \* a coroutine waits for a lock that another one holds: for good
    req,          \* the requests in flight
    restarts,
    mail,         \* the ticket of the last mail that was delivered
    voided,       \* tickets issued before update_password last ran  (history)
    log           \* the redemptions  (history)

vars == <<account, jti, code, issued, ending, expired, lapsed, blacklisted, redis,
          holder, hung, req, restarts, mail, voided, log>>

Tickets == 1 .. MaxTickets
Steps == {"idle", "asking", "forcing", "mailing", "checking", "checked",
          "redeeming", "deleting"}
NoRequest == [pc |-> "idle", ticket |-> 0]

Init ==
    /\ account \in Accounts
    /\ jti = 0 /\ code = 0 /\ issued = 0
    /\ ending = {} /\ expired = {} /\ lapsed = {}
    /\ blacklisted = {} /\ redis = "up"
    /\ holder = Nobody /\ hung = FALSE
    /\ req = [r \in Requests |-> NoRequest]
    /\ restarts = 0 /\ mail = 0 /\ voided = 0 /\ log = {}

-----------------------------------------------------------------------------
At(r, pc) == req[r].pc = pc
Idle(r) == At(r, "idle")
Goes(r, pc, n) == req' = [req EXCEPT ![r] = [pc |-> pc, ticket |-> n]]
Finish(r) == Goes(r, "idle", 0)

\* A slip: sending a mail awaits.
LoopFreeWhileMailing(r) == ~hung

\* r may run.  requests.post does not await: the loop is its caller's.
LoopFree(r) == ~hung /\ \A s \in Requests : At(s, "mailing") => s = r

\* add_to_blacklist does nothing, and does not await: not a second is left.
TooLate(n) == n \in ending

\* The await of add_to_blacklist is over: the key was set, or Redis failed.
Blacklisted(r) == req[r].ticket \in blacklisted \/ redis = "failing"

rows == <<jti, code, issued>>
clock == <<ending, expired, lapsed>>
environment == <<ending, expired, lapsed, redis, restarts>>
history == <<voided, log>>

\* The coroutine waits for the users row, and the loop with it.
Hang == /\ holder # Nobody /\ hung' = TRUE
        /\ UNCHANGED <<account, rows, environment, history, blacklisted, holder,
                       req, mail>>

\* A slip: the row of the token is left as it is.
StoreCodeOnly(r) ==
    /\ issued < MaxTickets
    /\ issued' = issued + 1
    /\ code' = issued' /\ jti' = IF jti = 0 THEN issued' ELSE jti
    /\ Goes(r, "mailing", issued')
    /\ UNCHANGED <<account, environment, history, blacklisted, hung, mail>>

\* upsert_reset_pair updates the rows that are there without a look at the
\* users row; to insert one it needs that row, and needs it free.
RowsThere == jti # 0 /\ code # 0

\* upsert_reset_pair and commit.
Store(r) ==
    /\ issued < MaxTickets
    /\ issued' = issued + 1
    /\ jti' = issued' /\ code' = issued'
    /\ Goes(r, "mailing", issued')
    /\ UNCHANGED <<account, environment, history, blacklisted, hung, mail>>

\* A slip: the rows are left to lapse.
ForgetTicketsNot == UNCHANGED <<jti, code>>

\* delete_actions_for_user, and ON DELETE CASCADE.
ForgetTickets == jti' = 0 /\ code' = 0

\* update_password: every ticket there is belongs to the past.  That an account
\* is not verified, or still invited, it does not change.
NewPassword ==
    /\ account' = IF account = "oauth" THEN "password" ELSE account
    /\ ForgetTickets
    /\ voided' = issued
    /\ UNCHANGED <<issued, environment, blacklisted, hung, mail>>

Redeemed(n, way) ==
    log' = log \union {[ticket |-> n, way |-> way, voided |-> voided]}

-----------------------------------------------------------------------------
\* A slip: there is always something to blacklist.
AskBlindly(r) ==
    /\ Idle(r) /\ LoopFree(r) /\ account = "password"
    /\ Goes(r, "asking", jti)
    /\ UNCHANGED <<account, rows, environment, history, blacklisted, holder, hung, mail>>

\* request_password_reset answers and does nothing.
Silent == account # "password"

\* request_password_reset: the ticket before is blacklisted, if there is one and
\* it is not too late.
Ask(r) ==
    /\ Idle(r) /\ LoopFree(r) /\ ~Silent
    /\ \/ /\ jti # 0 /\ ~TooLate(jti)
          /\ Goes(r, "asking", jti)
          /\ UNCHANGED <<account, rows, environment, history, blacklisted, holder,
                         hung, mail>>
       \/ /\ jti = 0 \/ TooLate(jti)
          /\ \/ ~RowsThere /\ Hang
             \/ (RowsThere \/ holder = Nobody) /\ Store(r) /\ UNCHANGED holder

\* Its await is over, and everything may have changed.
AskStore(r) ==
    /\ At(r, "asking") /\ LoopFree(r) /\ Blacklisted(r)
    /\ \/ /\ account = "gone"
          /\ Finish(r)
          /\ UNCHANGED <<account, rows, environment, history, blacklisted, holder,
                         hung, mail>>
       \/ ~RowsThere /\ account # "gone" /\ Hang
       \/ /\ account # "gone" /\ (RowsThere \/ holder = Nobody)
          /\ Store(r) /\ UNCHANGED holder

\* force_password_reset: locks the users row, then may await.
ForceReset(r) ==
    /\ Idle(r) /\ LoopFree(r) /\ account # "gone"
    /\ \/ Hang
       \/ /\ holder = Nobody /\ (jti = 0 \/ TooLate(jti))
          /\ Store(r) /\ UNCHANGED holder
       \/ /\ holder = Nobody /\ jti # 0 /\ ~TooLate(jti)
          /\ Goes(r, "forcing", jti) /\ holder' = r
          /\ UNCHANGED <<account, rows, environment, history, blacklisted, hung, mail>>

ForceStore(r) ==
    /\ At(r, "forcing") /\ LoopFree(r) /\ Blacklisted(r)
    /\ Store(r) /\ holder' = Nobody

\* send_password_reset_email, which may fail: 503.
Mail(r) ==
    /\ At(r, "mailing") /\ LoopFree(r)
    /\ mail' \in {mail, req[r].ticket}
    /\ Finish(r)
    /\ UNCHANGED <<account, rows, environment, history, blacklisted, holder, hung>>

-----------------------------------------------------------------------------
\* reset_password_via_code, one slice: the row is found, its users row locked.
RedeemCode(r, n) ==
    /\ "code" \in Ways /\ Idle(r) /\ LoopFree(r)
    /\ n = code /\ n # 0
    /\ \/ Hang
       \/ /\ holder = Nobody /\ n \notin lapsed
          /\ NewPassword /\ Redeemed(n, "code")
          /\ UNCHANGED <<holder, req>>

\* reset_password with a JWT: is it blacklisted?
Present(r, n) ==
    /\ "token" \in Ways /\ Idle(r) /\ LoopFree(r)
    /\ n \in 1 .. issued /\ n \notin expired
    /\ Goes(r, "checking", n)
    /\ UNCHANGED <<account, rows, environment, history, blacklisted, holder, hung, mail>>

\* Redis answers; a failing Redis counts as "no".  The key of a token may be
\* gone from the token's last second on.
ExistsAnswers(r) ==
    /\ At(r, "checking")
    /\ \/ /\ req[r].ticket \in blacklisted /\ redis = "up"
          /\ Finish(r)
       \/ /\ req[r].ticket \notin blacklisted \ ending \/ redis = "failing"
          /\ Goes(r, "checked", req[r].ticket)
    /\ UNCHANGED <<account, rows, environment, history, blacklisted, holder, hung, mail>>

\* A slip: the blacklist is all that tells tokens that were used.
TokenLockUnasked(r) ==
    /\ At(r, "checked") /\ LoopFree(r)
    /\ \/ Hang
       \/ /\ holder = Nobody /\ account # "gone"
          /\ Goes(r, "redeeming", req[r].ticket) /\ holder' = r
          /\ UNCHANGED <<account, rows, environment, history, blacklisted, hung, mail>>

\* The users row is locked; the jti must be the one on record.  If it is too
\* late to blacklist it the handler goes on to its end.
TokenLock(r) ==
    /\ At(r, "checked") /\ LoopFree(r)
    /\ \/ Hang
       \/ /\ holder = Nobody /\ (account = "gone" \/ jti # req[r].ticket)
          /\ Finish(r)
          /\ UNCHANGED <<account, rows, environment, history, blacklisted, holder,
                         hung, mail>>
       \/ /\ holder = Nobody /\ account # "gone" /\ jti = req[r].ticket
          /\ ~TooLate(jti)
          /\ Goes(r, "redeeming", jti) /\ holder' = r
          /\ UNCHANGED <<account, rows, environment, history, blacklisted, hung, mail>>
       \/ /\ holder = Nobody /\ account # "gone" /\ jti = req[r].ticket
          /\ TooLate(jti)
          /\ NewPassword /\ Redeemed(jti, "token")
          /\ Finish(r) /\ UNCHANGED holder

\* The jti is blacklisted; the password changes and the rows go.
RedeemToken(r) ==
    /\ At(r, "redeeming") /\ LoopFree(r) /\ Blacklisted(r)
    /\ NewPassword /\ Redeemed(req[r].ticket, "token")
    /\ Finish(r) /\ holder' = Nobody

\* change_password, by the account's owner.
ChangePassword(r) ==
    /\ Idle(r) /\ LoopFree(r) /\ account = "password"
    /\ \/ Hang
       \/ /\ holder = Nobody
          /\ NewPassword
          /\ UNCHANGED <<holder, req, log>>

\* delete_own_account: locks the users row, then awaits; the rows go with it.
Delete(r) ==
    /\ Idle(r) /\ LoopFree(r) /\ account = "password"
    /\ \/ Hang
       \/ /\ holder = Nobody
          /\ Goes(r, "deleting", 0) /\ holder' = r
          /\ UNCHANGED <<account, rows, environment, history, blacklisted, hung, mail>>

DeleteCommit(r) ==
    /\ At(r, "deleting") /\ LoopFree(r)
    /\ account' = "gone" /\ ForgetTickets
    /\ Finish(r) /\ holder' = Nobody
    /\ UNCHANGED <<issued, environment, history, blacklisted, hung, mail>>

\* accept_invite, in a thread: a password of its own; the invitation goes, the
\* rows of a reset stay.
AcceptInvite ==
    /\ account = "invited" /\ holder = Nobody
    /\ account' = "password"
    /\ UNCHANGED <<rows, environment, history, blacklisted, holder, hung, req, mail>>

\* The address is verified, by its code or by a Google sign-in.
Verify ==
    /\ account \in {"unverified", "invited"} /\ holder = Nobody
    /\ account' = "password"
    /\ UNCHANGED <<rows, environment, history, blacklisted, holder, hung, req, mail>>

-----------------------------------------------------------------------------
\* SETEX, some time between its dispatch and the end of the await.
SetexArrives(r) ==
    /\ redis = "up" /\ req[r].pc \in {"asking", "forcing", "redeeming"}
    /\ blacklisted' = blacklisted \union {req[r].ticket}
    /\ UNCHANGED <<account, rows, environment, history, holder, hung, req, mail>>

RedisChanges ==
    /\ redis' = IF redis = "up" THEN "failing" ELSE "up"
    /\ UNCHANGED <<account, rows, clock, restarts, history, blacklisted, holder,
                   hung, req, mail>>

\* Time passes for ticket n: its token's last second begins, and in the course
\* of it, in either order, token and code are over.
LastSecond(n) ==
    /\ n \in (1 .. issued) \ ending
    /\ ending' = ending \union {n}
    /\ UNCHANGED <<account, rows, expired, lapsed, redis, restarts, history,
                   blacklisted, holder, hung, req, mail>>

Expire(n) ==
    /\ n \in ending \ expired
    /\ expired' = expired \union {n}
    /\ UNCHANGED <<account, rows, ending, lapsed, redis, restarts, history,
                   blacklisted, holder, hung, req, mail>>

Lapse(n) ==
    /\ n \in ending \ lapsed
    /\ lapsed' = lapsed \union {n}
    /\ UNCHANGED <<account, rows, ending, expired, redis, restarts, history,
                   blacklisted, holder, hung, req, mail>>

\* The process dies and starts again: transactions are rolled back, and
\* cleanup_expired_actions deletes each row whose own time is up.
Restart ==
    /\ restarts < MaxRestarts /\ restarts' = restarts + 1
    /\ req' = [r \in Requests |-> NoRequest]
    /\ holder' = Nobody /\ hung' = FALSE
    /\ jti' = (IF jti \in expired THEN 0 ELSE jti)
    /\ code' = (IF code \in lapsed THEN 0 ELSE code)
    /\ UNCHANGED <<account, issued, clock, redis, history, blacklisted, mail>>

Next ==
    \/ \E r \in Requests :
          \/ Ask(r) \/ AskStore(r) \/ ForceReset(r) \/ ForceStore(r) \/ Mail(r)
          \/ \E n \in Tickets : RedeemCode(r, n) \/ Present(r, n)
          \/ ExistsAnswers(r) \/ TokenLock(r) \/ RedeemToken(r)
          \/ ChangePassword(r) \/ Delete(r) \/ DeleteCommit(r) \/ SetexArrives(r)
    \/ AcceptInvite \/ Verify \/ RedisChanges \/ Restart
    \/ \E n \in Tickets : LastSecond(n) \/ Expire(n) \/ Lapse(n)

Spec == Init /\ [][Next]_vars

-----------------------------------------------------------------------------
Entries == [ticket : Tickets, way : {"code", "token"}, voided : 0 .. MaxTickets]

\* The state is well typed.
TypeOK ==
    /\ account \in AccountStates
    /\ issued \in 0 .. MaxTickets
    /\ {jti, code, mail, voided} \subseteq 0 .. issued
    /\ ending \subseteq 1 .. issued /\ blacklisted \subseteq Tickets
    /\ expired \subseteq ending /\ lapsed \subseteq ending
    /\ redis \in {"up", "failing"}
    /\ holder \in Requests \union {Nobody} /\ hung \in BOOLEAN
    /\ req \in [Requests -> [pc : Steps, ticket : 0 .. MaxTickets]]
    /\ log \subseteq Entries
    /\ restarts \in 0 .. MaxRestarts

\* Code and token on record are of one ticket (upsert_reset_pair,
\* ALL_RESET_ACTIONS, the cascade); one is there without the other only where a
\* clean-up came when the other's time was up and its own was not.
PairTogether ==
    \/ jti = code
    \/ jti = 0 /\ code \in expired
    \/ code = 0 /\ jti \in lapsed

\* No ticket opens an account whose password was reset or changed since the
\* ticket was issued, by code, by token or by its owner: above all no ticket is
\* redeemed twice (password_service.py, "Reset link has already been used").
OnlyFreshTickets == \A e \in log : e.ticket > e.voided

\* A mail that is delivered brings the code that is on record then: mails
\* never overtake each other and none precedes its commit.
MailIsCurrent == [][mail' # mail => mail' = code]_vars

\* Of the codes issued, only the one on record is redeemed, and once; that the
\* token of its ticket is redeemed withdraws it.
RedeemedCodes == {e.ticket : e \in {f \in log : f.way = "code"}}

Abstract == INSTANCE OneTimeCode WITH
    current <- code, issued <- 1 .. issued, redeemed <- RedeemedCodes

OneCodeAtATime == Abstract!Spec

-----------------------------------------------------------------------------
(* What the documents, messages and tests of the repository promise, and   *)
(* the code does not keep: README.md, "Divergences".                       *)

\* A later ticket supersedes the earlier ones (tests/test_forgot_password.py,
\* "Second forgot-password request invalidates the first code and token").
SupersededIsDead == [][\A e \in log' \ log : e.ticket = issued]_vars

\* A password that comes with an accepted invitation ends resets, too, as every
\* other does (invite_service.py:41, password_service.py:107).
InviteVoidsTickets == [][AcceptInvite => ForgetTickets]_vars

\* An account made by Google sign-in gets a reset when it asks for one
\* (README, "they must run password reset to set one").
OAuthCanReset == account = "oauth" => ~Silent
=============================================================================
