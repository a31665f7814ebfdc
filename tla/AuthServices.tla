----------------------------- MODULE AuthServices -----------------------------
(***************************************************************************)
(* The session endpoints of app/services/auth_services.py, and the Google  *)
(* sign-in of a linked account (app/services/oauth_service.py).  A request *)
(* refused at its first step has no effect and is left out.                *)
(***************************************************************************)
EXTENDS AuthState

\* A slip: the password is verified in a worker thread, awaited by the handler.
LoginReadAwaiting(r, u) ==
    /\ req[r].pc = "idle" /\ loop = Idle
    /\ users[u].exists /\ ~users[u].is_disabled
    /\ Goes(r, [Begin(r, "login_mint", u) EXCEPT !.row = users[u]])
    /\ UNCHANGED <<environment, store, ledger, users, rowLock, loop>>

\* user_login, up to the mint: the credentials are good for the row read.
\* The handler keeps the loop, no await comes before the tokens are made.
LoginRead(r, u) ==
    /\ req[r].pc = "idle" /\ loop = Idle
    /\ users[u].exists /\ ~users[u].is_disabled
    /\ Goes(r, [Begin(r, "login_mint", u) EXCEPT !.row = users[u]])
    /\ loop' = r
    /\ UNCHANGED <<environment, store, ledger, users, rowLock>>

LoginMint(r) ==
    /\ req[r].pc = "login_mint" /\ OnLoop(r)
    /\ MintPair(r, "login", req[r].row, 0)
    /\ Finish(r) /\ loop' = Idle
    /\ UNCHANGED <<environment, store, users, rowLock>>

\* refresh_access_token, first slice: decode, read the row, ask Redis.
RefreshRead(r, j) ==
    LET u == tokens[j].sub
    IN  /\ req[r].pc = "idle" /\ loop = Idle
        /\ j \in Minted /\ Decodes(tokens[j], "refresh", clock)
        /\ users[u].exists
        /\ AskBlacklist(r, [Begin(r, "refresh_check", u) EXCEPT
                               !.jti = j, !.row = users[u]], j)
        /\ UNCHANGED <<environment, store, ledger, users, rowLock>>

\* Second slice: the checks use the row that was read before the await.
MayRefresh(r) == ~req[r].answer /\ ~Stale(tokens[req[r].jti], req[r].row)

\* A slip: the old refresh token is not blacklisted.
RefreshCheckKeeping(r) ==
    /\ Answered(r, "refresh_check")
    /\ MayRefresh(r)
    /\ Skip(r, [req[r] EXCEPT !.pc = "refresh_mint"])
    /\ UNCHANGED <<environment, store, ledger, users, rowLock>>

RefreshCheck(r) ==
    /\ Answered(r, "refresh_check")
    /\ MayRefresh(r)
    /\ AddToBlacklist(r, [req[r] EXCEPT !.pc = "refresh_mint"], req[r].jti)
    /\ UNCHANGED <<environment, store, ledger, users, rowLock>>

RefreshRefused(r) ==
    /\ Answered(r, "refresh_check")
    /\ ~MayRefresh(r)
    /\ Finish(r) /\ loop' = Idle
    /\ UNCHANGED <<environment, store, ledger, users, rowLock>>

\* Third slice: the new pair, with the role of the row read at the start.
RefreshMint(r) ==
    /\ Answered(r, "refresh_mint")
    /\ MintPair(r, "refresh", req[r].row, req[r].jti)
    /\ Finish(r) /\ loop' = Idle
    /\ UNCHANGED <<environment, store, users, rowLock>>

\* logout: the access token of the header, then the cookie if there is one.
Logout(r, j, cookie) ==
    /\ req[r].pc = "idle" /\ loop = Idle
    /\ j \in Minted /\ Decodes(tokens[j], "access", clock)
    /\ AddToBlacklist(r, [Begin(r, "logout_cookie", tokens[j].sub) EXCEPT
                             !.jti = j, !.cookie = cookie], j)
    /\ UNCHANGED <<environment, store, ledger, users, rowLock>>

\* The cookie's token is decoded when the first await is over; one that does
\* not decode any more is passed over.
CookieDecodes(r) == /\ req[r].cookie \in Minted
                    /\ Decodes(tokens[req[r].cookie], "refresh", clock)

LogoutCookie(r) ==
    /\ Answered(r, "logout_cookie")
    /\ \/ /\ CookieDecodes(r)
          /\ AddToBlacklist(r, [req[r] EXCEPT !.pc = "logout_done"], req[r].cookie)
       \/ /\ ~CookieDecodes(r)
          /\ Finish(r) /\ loop' = Idle
    /\ UNCHANGED <<environment, store, ledger, users, rowLock>>

LogoutDone(r) ==
    /\ Answered(r, "logout_done")
    /\ Finish(r) /\ loop' = Idle
    /\ UNCHANGED <<environment, store, ledger, users, rowLock>>

\* google_callback for a linked account, in the thread pool.
GoogleRead(r, u) ==
    /\ req[r].pc = "idle"
    /\ users[u].exists /\ ~users[u].is_disabled
    /\ Goes(r, [Begin(r, "google_mint", u) EXCEPT !.row = users[u]])
    /\ UNCHANGED <<environment, store, ledger, users, rowLock, loop>>

GoogleMint(r) ==
    /\ req[r].pc = "google_mint"
    /\ MintPair(r, "google", req[r].row, 0)
    /\ Finish(r)
    /\ UNCHANGED <<environment, store, users, rowLock, loop>>
=============================================================================
