------------------------------ MODULE Endpoints ------------------------------
(***************************************************************************)
(* What the handlers do, as the steps of EventLoop: app/api/routes with    *)
(* the dependencies of each route, the service it calls and the statements *)
(* of the repositories, in order.                                          *)
(*                                                                         *)
(* A "check" is where the code may answer and go no further; several of    *)
(* them with nothing in between are one.  Rows are locked by SELECT FOR    *)
(* UPDATE, or by the UPDATE or DELETE that is flushed or committed.  After *)
(* a commit the next attribute that is read is a query again.              *)
(***************************************************************************)
EXTENDS EventLoop

\* get_current_user: the blacklist, then the users row.
CurrentUser == <<"await", "check", "query", "check">>

\* require_role: a "def" dependency, which runs in a thread.
Admin == CurrentUser \o <<"await", "check">>

\* A rate limiter.
Limited == <<"await", "check">>

Health == <<"probe", "await">>

ValidateToken == CurrentUser

Me == CurrentUser \o <<"thread">>

\* Two limiters and the lockout; the attempt is recorded, or the count cleared.
Login == Limited \o <<"query", "check", "await">>

Refresh == Limited \o <<"query", "check", "await", "check", "await">>

Logout == <<"await", "await">>

\* The old jti is blacklisted; upsert_reset_pair; the mail needs the address.
Forgot == Limited \o <<"query", "check", "await", "jti", "code", "commit", "query", "http">>

ValidateResetCode == Limited \o <<"thread", "code", "user", "check">>

ResetByCode ==
    Limited \o <<"code", "user", "check", "jti", "code", "commit", "query">>

ResetByToken ==
    <<"await", "check", "await", "check", "user", "check", "query", "check", "await",
      "jti", "code", "commit", "query">>

ChangePassword ==
    Limited \o CurrentUser \o <<"user", "jti", "code", "commit", "query">>

ResendVerification ==
    Limited
    \o <<"thread", "query", "check", "http", "check", "verification", "commit", "query">>

VerifyByLink ==
    Limited \o <<"thread", "verification", "user", "check", "commit", "query">>

VerifyByToken ==
    Limited \o <<"await", "check", "user", "check", "await", "commit", "query">>

ValidateInvite == Limited \o <<"thread", "invite", "user", "check">>

AcceptInvite == Limited \o <<"thread", "invite", "user", "check", "commit", "query">>

\* The URL of Google is made, and sent as a redirect.
GoogleLogin == Limited \o <<"thread">>

\* Google is asked twice; then the link is found, or made, or the user is new.
GoogleCallback ==
    <<"thread", "http", "check", "http", "check", "query", "check", "query", "check",
      "user", "commit", "query", "user", "commit", "query">>

Signup ==
    Limited
    \o <<"thread", "query", "check", "commit", "query", "http", "check",
         "verification", "commit", "query">>

UpdateMe == CurrentUser \o <<"thread", "user", "commit", "query">>

\* Both tokens are blacklisted; ON DELETE CASCADE takes the other rows.
DeleteMe ==
    Limited \o CurrentUser
    \o <<"user", "check", "await", "await", "jti", "code", "verification", "invite", "commit">>

ChangeRole == Admin \o <<"thread", "query", "check", "user", "commit">>

ListUsers == Admin \o <<"thread", "query">>

ChangeStatus == Admin \o <<"thread", "user", "check", "commit">>

ForceReset ==
    Admin \o Limited
    \o <<"user", "check", "query", "await", "jti", "code", "commit", "query", "http">>

Invite ==
    Admin \o Limited
    \o <<"thread", "query", "check", "query", "commit", "query", "invite", "commit",
         "query", "http">>

\* The routes.
Programs ==
    [health |-> Health, validateToken |-> ValidateToken, me |-> Me,
     login |-> Login, refresh |-> Refresh, logout |-> Logout,
     forgot |-> Forgot, validateReset |-> ValidateResetCode,
     resetByCode |-> ResetByCode, resetByToken |-> ResetByToken,
     change |-> ChangePassword,
     resend |-> ResendVerification, verifyByLink |-> VerifyByLink,
     verifyByToken |-> VerifyByToken,
     validateInvite |-> ValidateInvite, acceptInvite |-> AcceptInvite,
     googleLogin |-> GoogleLogin, google |-> GoogleCallback,
     signup |-> Signup, updateMe |-> UpdateMe, deleteMe |-> DeleteMe,
     role |-> ChangeRole, list |-> ListUsers, status |-> ChangeStatus,
     forceReset |-> ForceReset, invite |-> Invite]

\* The handlers that are careful with their locks.
CarefulHandlers ==
    {"health", "validateToken", "me", "login", "refresh", "logout", "forgot", "change",
     "resend", "googleLogin", "google", "signup", "updateMe", "role", "list", "invite"}

ASSUME CarefulAssumption ==
    Program = Programs => CarefulHandlers = {h \in DOMAIN Programs : Careful(h)}
=============================================================================
