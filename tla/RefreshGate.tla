----------------------------- MODULE RefreshGate -----------------------------
(***************************************************************************)
(* What refresh_access_token (app/services/auth_services.py) promises with *)
(* its checks cut apart by an await: a pair is made in exchange for a      *)
(* refresh token that was good for its session when the request came in,   *)
(* and that at one instant since was neither revoked nor exchanged, as far *)
(* as Redis could tell: a revoked token passes only while Redis is out of  *)
(* reach, an exchanged one only if it ever was, any in its last second.    *)
(***************************************************************************)
VARIABLES
    out,        \* the refresh tokens there are
    ended,      \* those whose session is over: outdated, expired, user gone
    lapsing,    \* those in the last second of their life, or past it
    revoked,    \* those whose revocation Redis acknowledged
    exchanged,  \* those a pair was made from
    down,       \* is Redis out of reach?
    degraded,   \* was it ever?
    waiting,    \* requests <<slot, token>> let in, the token not yet vetted
    vetted      \* requests <<slot, token>> that will be given a pair

tokens == <<out, ended, lapsing>>
marks == <<revoked, exchanged>>
outage == <<down, degraded>>
requests == <<waiting, vetted>>
vars == <<tokens, marks, outage, requests>>

Init == /\ {out, ended, lapsing, revoked, exchanged, waiting, vetted} = {{}}
        /\ down \in BOOLEAN /\ degraded = down

\* One more token is out; the others are what they were.
OneMore == \E n \in out' \ out : /\ out' = out \union {n}
                                 /\ ended' \ {n} = ended
                                 /\ lapsing' \ {n} = lapsing

Issue == OneMore /\ UNCHANGED <<marks, outage, requests>>

\* A request that comes in with p, and is asked about p; without Redis there is
\* nobody to ask.
Arrive(a) ==
    /\ a[2] \in out \ ended
    /\ \/ waiting' = waiting \union {a} /\ UNCHANGED vetted
       \/ down /\ vetted' = vetted \union {a} /\ UNCHANGED waiting
    /\ UNCHANGED <<tokens, marks, outage>>

\* Is there nothing against p that Redis could know of?
Clean(p) == \/ p \in lapsing
            \/ (p \in revoked => down) /\ (p \in exchanged => degraded)

Vet(a) == /\ a \in waiting /\ Clean(a[2])
          /\ waiting' = waiting \ {a} /\ vetted' = vetted \union {a}
          /\ UNCHANGED <<tokens, marks, outage>>

TurnAway(a) == /\ a \in waiting
               /\ waiting' = waiting \ {a}
               /\ UNCHANGED <<tokens, marks, outage, vetted>>

Exchange(a) == /\ a \in vetted
               /\ OneMore
               /\ exchanged' = exchanged \union {a[2]}
               /\ vetted' = vetted \ {a}
               /\ UNCHANGED <<revoked, outage, waiting>>

Revoke(p) == /\ p \in out
             /\ revoked' = revoked \union {p}
             /\ UNCHANGED <<tokens, exchanged, outage, requests>>

\* Sessions end, by a change of the account or of the clock.
Change == /\ ended' \subseteq out
          /\ UNCHANGED <<out, lapsing, marks, outage, requests>>

Lapse == /\ ended \subseteq ended' /\ ended' \subseteq out
         /\ lapsing \subseteq lapsing' /\ lapsing' \subseteq out
         /\ UNCHANGED <<out, marks, outage, requests>>

\* Redis goes or comes back; a restart of the process forgets the requests.
Reach == /\ down' \in BOOLEAN /\ degraded' = (degraded \/ down')
         /\ \/ UNCHANGED requests
            \/ waiting' = {} /\ vetted' = {}
         /\ UNCHANGED <<tokens, marks>>

Next ==
    \/ Issue \/ Change \/ Lapse \/ Reach
    \/ \E a \in (waiting' \union vetted') \ (waiting \union vetted) : Arrive(a)
    \/ \E a \in waiting : Vet(a) \/ TurnAway(a)
    \/ \E a \in vetted : Exchange(a)
    \/ \E p \in out : Revoke(p)

Spec == Init /\ [][Next]_vars
=============================================================================
