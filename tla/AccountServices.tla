---------------------------- MODULE AccountServices ----------------------------
(***************************************************************************)
(* The operations that end a user's sessions: change_password and          *)
(* delete_own_account, which first authenticate their own token, and the   *)
(* admin's change_user_role, disable_user, enable_user and                 *)
(* force_password_reset, taken from the point where require_role has let   *)
(* the admin in.                                                           *)
(***************************************************************************)
EXTENDS AuthState

\* get_current_user, up to its await.  `pc` is where the endpoint goes on.
Authenticate(r, j, cookie, pc) ==
    /\ req[r].pc = "idle" /\ loop = Idle
    /\ j \in Minted /\ Decodes(tokens[j], "access", clock)
    /\ AskBlacklist(r, [Begin(r, pc, tokens[j].sub) EXCEPT
                           !.jti = j, !.cookie = cookie], j)
    /\ UNCHANGED <<environment, store, ledger, users, rowLock>>

\* get_current_user, after its await: the row is read now.
Accepts(r) == LET row == users[req[r].user]
              IN  /\ ~req[r].answer
                  /\ row.exists /\ ~row.is_disabled
                  /\ ~Stale(tokens[req[r].jti], row)

AuthRefused(r) ==
    /\ \/ Answered(r, "change_auth") \/ Answered(r, "delete_auth")
    /\ ~Accepts(r)
    /\ Finish(r) /\ loop' = Idle
    /\ UNCHANGED <<environment, store, ledger, users, rowLock>>

\* A slip: the change is stamped in whole seconds, like the claims.
ChangeStampSeconds(r) ==
    /\ Answered(r, "change_stamp")
    /\ Goes(r, [req[r] EXCEPT !.pc = "change_commit",
                              !.stamp = NumericDate(clock)])
    /\ UNCHANGED <<environment, store, ledger, users, rowLock, loop>>

\* change_password: hash, take the time, then UPDATE and COMMIT, which wait
\* for the row.  All of it in one slice of the loop, threads in between.
ChangeStart(r) ==
    /\ Answered(r, "change_auth")
    /\ Accepts(r)
    /\ Goes(r, [req[r] EXCEPT !.pc = "change_stamp"])
    /\ loop' = r
    /\ UNCHANGED <<environment, store, ledger, users, rowLock>>

ChangeStamp(r) ==
    /\ Answered(r, "change_stamp")
    /\ Goes(r, [req[r] EXCEPT !.pc = "change_commit", !.stamp = clock])
    /\ UNCHANGED <<environment, store, ledger, users, rowLock, loop>>

ChangeCommit(r) ==
    LET u == req[r].user
    IN  /\ req[r].pc = "change_commit" /\ OnLoop(r) /\ RowFree(r, u)
        /\ users[u].pw < MaxPw
        /\ users' = [users EXCEPT ![u].pw = @ + 1,
                                  ![u].password_changed_at = req[r].stamp]
        /\ Finish(r) /\ loop' = Idle
        /\ UNCHANGED <<environment, store, ledger, rowLock>>

\* delete_own_account: SELECT ... FOR UPDATE, which blocks the loop until the
\* row is free, then the two tokens of the request, then the row.
DeleteStart(r) ==
    /\ Answered(r, "delete_auth")
    /\ Accepts(r)
    /\ Goes(r, [req[r] EXCEPT !.pc = "delete_lock"])
    /\ loop' = r
    /\ UNCHANGED <<environment, store, ledger, users, rowLock>>

DeleteLock(r) ==
    LET u    == req[r].user
        next == [req[r] EXCEPT !.pc = "delete_cookie"]
    IN  /\ req[r].pc = "delete_lock" /\ OnLoop(r) /\ RowFree(r, u)
        /\ users[u].exists
        /\ rowLock' = [rowLock EXCEPT ![u] = r]
        /\ \/ /\ Decodes(tokens[req[r].jti], "access", clock)
              /\ AddToBlacklist(r, next, req[r].jti)
           \/ /\ ~Decodes(tokens[req[r].jti], "access", clock)
              /\ Skip(r, next)
        /\ UNCHANGED <<environment, store, ledger, users>>

DeleteCookie(r) ==
    LET cookie  == req[r].cookie
        decodes == cookie \in Minted /\ Decodes(tokens[cookie], "refresh", clock)
        next    == [req[r] EXCEPT !.pc = "delete_commit"]
    IN  /\ Answered(r, "delete_cookie")
        /\ \/ decodes /\ AddToBlacklist(r, next, cookie)
           \/ ~decodes /\ Skip(r, next)
        /\ UNCHANGED <<environment, store, ledger, users, rowLock>>

DeleteCommit(r) ==
    LET u == req[r].user
    IN  /\ Answered(r, "delete_commit")
        /\ users' = [users EXCEPT ![u].exists = FALSE]
        /\ rowLock' = [rowLock EXCEPT ![u] = Idle]
        /\ Finish(r) /\ loop' = Idle
        /\ UNCHANGED <<environment, store, ledger>>

-----------------------------------------------------------------------------
\* change_user_role, in a thread: a plain SELECT, the time, then the UPDATE,
\* which waits for the row but does not look at it again.
RoleRead(r, u, new) ==
    /\ req[r].pc = "idle"
    /\ users[u].exists /\ users[u].role # new
    /\ Goes(r, [Begin(r, "role_stamp", u) EXCEPT !.role = new])
    /\ UNCHANGED <<environment, store, ledger, users, rowLock, loop>>

RoleStamp(r) ==
    /\ req[r].pc = "role_stamp"
    /\ Goes(r, [req[r] EXCEPT !.pc = "role_commit", !.stamp = clock])
    /\ UNCHANGED <<environment, store, ledger, users, rowLock, loop>>

RoleCommit(r) ==
    LET u == req[r].user
    IN  /\ req[r].pc = "role_commit" /\ RowFree(r, u)
        /\ users' = IF users[u].exists
                    THEN [users EXCEPT ![u].role = req[r].role,
                                       ![u].role_changed_at = req[r].stamp]
                    ELSE users
        /\ Finish(r)
        /\ UNCHANGED <<environment, store, ledger, rowLock, loop>>

\* A slip: disable_user reads the row without FOR UPDATE.
DisableReadOnly(r, u) ==
    /\ req[r].pc = "idle"
    /\ users[u].exists /\ ~users[u].is_disabled
    /\ Goes(r, [Begin(r, "disable_commit", u) EXCEPT !.stamp = clock])
    /\ UNCHANGED <<environment, store, ledger, users, loop, rowLock>>

\* disable_user, in a thread: it takes the time when it has the row.
DisableLock(r, u) ==
    /\ req[r].pc = "idle" /\ RowFree(r, u)
    /\ users[u].exists /\ ~users[u].is_disabled
    /\ rowLock' = [rowLock EXCEPT ![u] = r]
    /\ Goes(r, [Begin(r, "disable_commit", u) EXCEPT !.stamp = clock])
    /\ UNCHANGED <<environment, store, ledger, users, loop>>

DisableCommit(r) ==
    LET u == req[r].user
    IN  /\ req[r].pc = "disable_commit"
        /\ users' = [users EXCEPT ![u].is_disabled = TRUE,
                                  ![u].password_changed_at = req[r].stamp]
        /\ rowLock' = [rowLock EXCEPT ![u] = Idle]
        /\ Finish(r)
        /\ UNCHANGED <<environment, store, ledger, loop>>

\* enable_user: from its lock to its commit nothing else can touch the row,
\* and nothing it writes was read before.
Enable(r, u) ==
    /\ req[r].pc = "idle" /\ RowFree(r, u)
    /\ users[u].exists /\ users[u].is_disabled
    /\ users' = [users EXCEPT ![u].is_disabled = FALSE]
    /\ UNCHANGED <<environment, store, ledger, rowLock, loop, req>>

\* force_password_reset: FOR UPDATE on the loop; an await on the way when an
\* earlier reset is pending, with the row locked; then the time and COMMIT.
ForceStart(r, u) ==
    /\ req[r].pc = "idle" /\ loop = Idle
    /\ users[u].exists
    /\ Goes(r, Begin(r, "force_lock", u))
    /\ loop' = r
    /\ UNCHANGED <<environment, store, ledger, users, rowLock>>

ForceLock(r) ==
    LET u    == req[r].user
        next == [req[r] EXCEPT !.pc = "force_stamp"]
    IN  /\ req[r].pc = "force_lock" /\ OnLoop(r) /\ RowFree(r, u)
        /\ users[u].exists
        /\ rowLock' = [rowLock EXCEPT ![u] = r]
        /\ \/ /\ redis # "none"
              /\ Goes(r, Calls(next, "other", 0, 0))
              /\ loop' = Idle
           \/ Skip(r, next)
        /\ UNCHANGED <<environment, store, ledger, users>>

ForceStamp(r) ==
    /\ Answered(r, "force_stamp")
    /\ Goes(r, [req[r] EXCEPT !.pc = "force_commit", !.stamp = clock])
    /\ loop' = r
    /\ UNCHANGED <<environment, store, ledger, users, rowLock>>

\* A slip: the reset mail goes out, the sessions stay.
ForceCommitUnstamped(r) ==
    LET u == req[r].user
    IN  /\ req[r].pc = "force_commit"
        /\ rowLock' = [rowLock EXCEPT ![u] = Idle]
        /\ Finish(r) /\ loop' = Idle
        /\ UNCHANGED <<environment, store, ledger, users>>

ForceCommit(r) ==
    LET u == req[r].user
    IN  /\ req[r].pc = "force_commit"
        /\ users' = [users EXCEPT ![u].password_changed_at = req[r].stamp]
        /\ rowLock' = [rowLock EXCEPT ![u] = Idle]
        /\ Finish(r) /\ loop' = Idle
        /\ UNCHANGED <<environment, store, ledger>>
=============================================================================
