----------------------------- MODULE OneTimeCode -----------------------------
(***************************************************************************)
(* What the pending actions of app/models/pending_action.py promise: of    *)
(* the codes issued to an account for one purpose only the latest can be   *)
(* redeemed, until it is redeemed, is withdrawn or lapses; and none twice. *)
(***************************************************************************)
EXTENDS Naturals

VARIABLES
    current,   \* the code on record; 0 if there is none
    issued,    \* the codes that were ever put on record
    lapsed,    \* the codes whose time is up
    redeemed   \* the codes that were redeemed

vars == <<current, issued, lapsed, redeemed>>

Init == current = 0 /\ issued = {} /\ lapsed = {} /\ redeemed = {}

Issue ==
    /\ current' # 0 /\ current' \notin issued
    /\ issued' = issued \union {current'}
    /\ UNCHANGED <<lapsed, redeemed>>

Withdraw ==
    /\ current' = 0
    /\ UNCHANGED <<issued, lapsed, redeemed>>

Lapse ==
    /\ \E n \in issued : lapsed' = lapsed \union {n}
    /\ UNCHANGED <<current, issued, redeemed>>

Redeem ==
    /\ current # 0 /\ current \notin lapsed
    /\ redeemed' = redeemed \union {current}
    /\ current' = 0
    /\ UNCHANGED <<issued, lapsed>>

Next == Issue \/ Withdraw \/ Lapse \/ Redeem

Spec == Init /\ [][Next]_vars
=============================================================================
