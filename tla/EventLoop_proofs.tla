--------------------------- MODULE EventLoop_proofs ---------------------------
(***************************************************************************)
(* The theorems of EventLoop, for any programs: what is locked has a       *)
(* transaction, only rows stop the server, and careful handlers never do.  *)
(***************************************************************************)
EXTENDS EventLoop, FiniteSetTheorems, TLAPS

\* Between two requests a slot has no connection.
IdleHasNone == \A r \in Requests : req[r].at = "idle" => r \notin conns

\* A careful handler that has locked a row is in its middle, and has come past
\* the step that locked it.
LocksAreSteps ==
    \A x \in Rows : lock[x] # Nobody /\ Careful(req[lock[x]].h) =>
        Runs(lock[x]) /\ x \in Held(req[lock[x]].h, req[lock[x]].pc)

Inv == TypeOK /\ LocksAreHeld /\ IdleHasNone /\ LocksAreSteps

-----------------------------------------------------------------------------
\* The steps of a handler are steps.
LEMMA ProgramType ==
  ASSUME NEW h \in Served
  PROVE  /\ Len(Program[h]) \in Nat
         /\ \A i \in 1 .. Len(Program[h]) : Program[h][i] \in Steps
BY LoopAssumption

\* A step other than a commit keeps what is locked, and a row is locked by its
\* step.
LEMMA HeldGrows ==
  ASSUME NEW h \in Served, NEW i \in Nat \ {0}, i <= Len(Program[h]),
         Program[h][i] # "commit"
  PROVE  /\ Held(h, i) \subseteq Held(h, i + 1)
         /\ Program[h][i] \in Rows => Program[h][i] \in Held(h, i + 1)
<1>1. Held(h, i) \subseteq Held(h, i + 1)
  <2> SUFFICES ASSUME NEW x \in Held(h, i) PROVE x \in Held(h, i + 1)
    OBVIOUS
  <2>1. PICK j \in 1 .. i - 1 :
          Program[h][j] = x /\ \A k \in j .. i - 1 : Program[h][k] # "commit"
    BY DEF Held
  <2>2. \A k \in j .. (i + 1) - 1 : k \in j .. i - 1 \/ k = i
    BY <2>1
  <2>3. j \in 1 .. (i + 1) - 1
    BY <2>1
  <2> QED BY <2>1, <2>2, <2>3 DEF Held
<1>2. ASSUME Program[h][i] \in Rows PROVE Program[h][i] \in Held(h, i + 1)
  <2>1. \A k \in i .. (i + 1) - 1 : k = i
    OBVIOUS
  <2>2. i \in 1 .. (i + 1) - 1
    OBVIOUS
  <2> QED BY <1>2, <2>1, <2>2 DEF Held
<1> QED BY <1>1, <1>2

-----------------------------------------------------------------------------
LEMMA InitType == Init => Inv
<1> SUFFICES ASSUME Init PROVE Inv
  OBVIOUS
<1>1. PICK h \in Served : req = [r \in Requests |-> [h |-> h, pc |-> 1, at |-> "idle"]]
  BY DEF Init
<1>2. 1 <= Len(Program[h]) + 1
  BY ProgramType
<1>3. Nobody \notin Requests
  BY LoopAssumption
<1>4. TypeOK
  BY <1>1, <1>2, <1>3 DEF Init, TypeOK, Places, Size
<1> QED BY <1>4 DEF Init, Inv, LocksAreHeld, IdleHasNone, LocksAreSteps

LEMMA NextType == TypeOK /\ [Next]_vars => TypeOK'
<1> SUFFICES ASSUME TypeOK, [Next]_vars PROVE TypeOK'
  OBVIOUS
<1>0. CASE UNCHANGED vars
  BY <1>0 DEF vars, TypeOK, Size
<1>1. ASSUME NEW r \in Requests, Begin(r) PROVE TypeOK'
  <2>1. PICK h \in Served : req' = [req EXCEPT ![r] = [h |-> h, pc |-> 1, at |-> "ready"]]
    BY <1>1 DEF Begin
  <2>2. 1 <= Len(Program[h]) + 1
    BY ProgramType
  <2> QED BY <1>1, <2>1, <2>2 DEF Begin, TypeOK, Places, Size
<1>2. ASSUME NEW r \in Requests, Serve(r) PROVE TypeOK'
  <2>a. Nobody \notin Requests /\ Size(r) \in Nat
    BY LoopAssumption, ProgramType DEF Size, TypeOK
  <2>1. CASE Turn(r)
    BY <2>1, <2>a DEF Turn, Goes, TypeOK, Places, Size
  <2>2. CASE Await(r)
    BY <2>2, <2>a DEF Await, Does, Runs, StepsTo, YieldLoop, TypeOK, Places, Size
  <2>3. CASE Resume(r)
    BY <2>3, <2>a DEF Resume, Goes, TypeOK, Places, Size
  <2>4. CASE Thread(r)
    <3>1. /\ req[r].pc <= Size(r) /\ StepsTo(r, "thread") /\ YieldLoop(r)
          /\ UNCHANGED <<conns, lock, says>>
      BY <2>4 DEF Thread, Does
    <3>2. /\ req' \in [Requests -> [h : Served, pc : Nat \ {0}, at : Places]]
          /\ \A s \in Requests : req'[s].pc <= Size(s)' + 1
      <4>1. req' = [req EXCEPT ![r] = [h |-> req[r].h, pc |-> req[r].pc + 1, at |-> "thread"]]
        BY <3>1 DEF StepsTo
      <4>2. req[r].pc + 1 \in Nat \ {0} /\ "thread" \in Places /\ req[r].h \in Served
        BY DEF TypeOK, Places
      <4> QED BY <4>1, <4>2, <3>1, <2>a DEF TypeOK, Size
    <3>3. /\ loop' \in Requests \union {Nobody}
          /\ \A s \in Requests : req'[s].at = "loop" <=> loop' = s
      BY <3>1, <2>a DEF StepsTo, YieldLoop, TypeOK
    <3> QED BY <3>1, <3>2, <3>3 DEF TypeOK
  <2>5. CASE Connect(r)
    BY <2>5, <2>a DEF Connect, Needs, TypeOK, Size
  <2>6. CASE PoolTimeout(r)
    <3>1. CASE Upcoming(r) = "probe"
      <4>1. /\ req[r].pc <= Size(r) /\ Advances(r) /\ says' = "down"
            /\ UNCHANGED <<loop, conns, lock>>
        BY <2>6, <3>1 DEF PoolTimeout, Needs, Does
      <4> QED BY <4>1, <2>a DEF Advances, TypeOK, Size
    <3>2. CASE Upcoming(r) # "probe"
      <4>1. Goes(r, "ending") /\ YieldLoop(r) /\ UNCHANGED <<conns, lock, says>>
        BY <2>6, <3>2 DEF PoolTimeout
      <4> QED BY <4>1, <2>a DEF Goes, YieldLoop, TypeOK, Places, Size
    <3> QED BY <3>1, <3>2
  <2>7. CASE Query(r)
    BY <2>7, <2>a DEF Query, Does, Runs, Advances, TypeOK, Size
  <2>8. CASE LockRow(r)
    BY <2>8, <2>a DEF LockRow, Does, Runs, Advances, TypeOK, Size
  <2>9. CASE Deadlock(r)
    BY <2>9, <2>a DEF Deadlock, Unlock, Goes, YieldLoop, TypeOK, Places, Size
  <2>10. CASE Commit(r)
    BY <2>10, <2>a DEF Commit, Does, Runs, Unlock, Advances, TypeOK, Size
  <2>11. CASE Http(r)
    BY <2>11, <2>a DEF Http, Does, Runs, Advances, TypeOK, Size
  <2>12. CASE Check(r)
    <3>1. CASE Advances(r) /\ UNCHANGED loop
      BY <2>12, <3>1, <2>a DEF Check, Does, Runs, Advances, TypeOK, Size
    <3>2. CASE Goes(r, "ending") /\ YieldLoop(r)
      BY <2>12, <3>2, <2>a DEF Check, Goes, YieldLoop, TypeOK, Places, Size
    <3> QED BY <2>12, <3>1, <3>2 DEF Check
  <2>13. CASE Return(r)
    BY <2>13, <2>a DEF Return, Goes, YieldLoop, TypeOK, Places, Size
  <2>14. CASE Answer(r)
    BY <2>14, <2>a DEF Answer, Goes, TypeOK, Places, Size
  <2>15. CASE Close(r)
    BY <2>15, <2>a DEF Close, Unlock, Goes, TypeOK, Places, Size
  <2> QED BY <1>2, <2>1, <2>2, <2>3, <2>4, <2>5, <2>6, <2>7, <2>8, <2>9, <2>10, <2>11,
             <2>12, <2>13, <2>14, <2>15 DEF Serve
<1> QED BY <1>0, <1>1, <1>2 DEF Next

\* The state is well typed: every place a request can be in, and one coroutine
\* on the loop at a time, for any programs.
THEOREM TypeCorrect == Spec => []TypeOK
<1>1. Init => TypeOK
  BY InitType DEF Inv
<1> QED BY <1>1, NextType, PTL DEF Spec

-----------------------------------------------------------------------------
LEMMA NextHeld == TypeOK /\ LocksAreHeld /\ [Next]_vars => LocksAreHeld'
<1> SUFFICES ASSUME TypeOK, LocksAreHeld, [Next]_vars PROVE LocksAreHeld'
  OBVIOUS
<1>a. Nobody \notin Requests
  BY LoopAssumption
<1>0. CASE UNCHANGED vars
  BY <1>0 DEF vars, LocksAreHeld
<1>1. ASSUME NEW r \in Requests, Begin(r) PROVE LocksAreHeld'
  BY <1>1 DEF Begin, LocksAreHeld
<1>2. ASSUME NEW r \in Requests, Serve(r) PROVE LocksAreHeld'
  <2>1. CASE UNCHANGED <<conns, lock>>
    BY <2>1 DEF LocksAreHeld
  <2>2. CASE Connect(r)
    BY <2>2 DEF Connect, LocksAreHeld
  <2>3. CASE LockRow(r)
    BY <2>3, <1>a DEF LockRow, LocksAreHeld, TypeOK
  <2>4. CASE Deadlock(r)
    BY <2>4, <1>a DEF Deadlock, Unlock, LocksAreHeld, TypeOK
  <2>5. CASE Commit(r)
    BY <2>5, <1>a DEF Commit, Unlock, LocksAreHeld, TypeOK
  <2>6. CASE Close(r)
    BY <2>6, <1>a DEF Close, Unlock, LocksAreHeld, TypeOK
  <2> QED BY <1>2, <2>1, <2>2, <2>3, <2>4, <2>5, <2>6
          DEF Serve, Turn, Await, Resume, Thread, PoolTimeout, Query, Http, Check,
              Return, Answer
<1> QED BY <1>0, <1>1, <1>2 DEF Next

\* No row stays locked when the session that locked it has given back its
\* connection, whatever the handlers do and wherever they end.
THEOREM NothingStaysLocked == Spec => []LocksAreHeld
<1>1. Init => TypeOK /\ LocksAreHeld
  BY InitType DEF Inv
<1>2. TypeOK /\ LocksAreHeld /\ [Next]_vars => (TypeOK /\ LocksAreHeld)'
  BY NextType, NextHeld
<1> QED BY <1>1, <1>2, PTL DEF Spec

-----------------------------------------------------------------------------
LEMMA NextIdle == TypeOK /\ IdleHasNone /\ [Next]_vars => IdleHasNone'
<1> SUFFICES ASSUME TypeOK, IdleHasNone, [Next]_vars PROVE IdleHasNone'
  OBVIOUS
<1>0. CASE UNCHANGED vars
  BY <1>0 DEF vars, IdleHasNone
<1>1. ASSUME NEW r \in Requests, Begin(r) PROVE IdleHasNone'
  BY <1>1 DEF Begin, IdleHasNone, TypeOK
<1>2. ASSUME NEW r \in Requests, Serve(r) PROVE IdleHasNone'
  <2>1. CASE Turn(r) \/ Resume(r) \/ Answer(r)
    BY <2>1 DEF Turn, Resume, Answer, Goes, IdleHasNone, TypeOK
  <2>2. CASE Await(r) \/ Thread(r)
    BY <2>2 DEF Await, Thread, StepsTo, IdleHasNone, TypeOK
  <2>3. CASE Connect(r)
    BY <2>3 DEF Connect, Needs, Does, Runs, IdleHasNone, TypeOK
  <2>4. CASE PoolTimeout(r) \/ Check(r)
    BY <2>4 DEF PoolTimeout, Check, Advances, Goes, IdleHasNone, TypeOK
  <2>5. CASE Query(r) \/ LockRow(r) \/ Http(r) \/ Commit(r)
    BY <2>5 DEF Query, LockRow, Http, Commit, Advances, IdleHasNone, TypeOK
  <2>6. CASE Deadlock(r) \/ Return(r)
    BY <2>6 DEF Deadlock, Return, Goes, IdleHasNone, TypeOK
  <2>7. CASE Close(r)
    BY <2>7 DEF Close, Goes, IdleHasNone, TypeOK
  <2> QED BY <1>2, <2>1, <2>2, <2>3, <2>4, <2>5, <2>6, <2>7 DEF Serve
<1> QED BY <1>0, <1>1, <1>2 DEF Next

-----------------------------------------------------------------------------
\* A careful handler has locked nothing where it lets the loop or the thread go.
LEMMA NothingHeld ==
  ASSUME Inv, NEW r \in Requests, Careful(req[r].h),
         \/ Does(r, {"await", "thread", "check"})
         \/ Finished(r)
         \/ ~Runs(r)
  PROVE  \A x \in Rows : lock[x] # r
<1> SUFFICES ASSUME NEW x \in Rows, lock[x] = r PROVE FALSE
  OBVIOUS
<1> DEFINE h == req[r].h
           i == req[r].pc
<1>1. Runs(r) /\ x \in Held(h, i)
  BY LoopAssumption DEF Inv, LocksAreSteps
<1>2. h \in Served /\ i \in 1 .. Len(Program[h]) + 1 /\ Len(Program[h]) \in Nat
  BY ProgramType DEF Inv, TypeOK, Size
<1>3. i = Len(Program[h]) + 1 \/ Program[h][i] \in {"await", "thread", "check"}
  BY <1>1, <1>2 DEF Does, Finished, Size, Upcoming
<1>4. Held(h, i) = {}
  BY <1>2, <1>3 DEF Careful
<1> QED BY <1>1, <1>4

LEMMA NextSteps == Inv /\ [Next]_vars => LocksAreSteps'
<1> SUFFICES ASSUME Inv, [Next]_vars PROVE LocksAreSteps'
  OBVIOUS
<1>a. Nobody \notin Requests /\ "commit" \notin Rows
  BY LoopAssumption DEF Rows
<1>0. CASE UNCHANGED vars
  BY <1>0 DEF vars, Inv, LocksAreSteps, Runs
\* A request that has locked nothing may go anywhere.
<1>b. ASSUME NEW r \in Requests, \A x \in Rows : lock'[x] # r,
             \A x \in Rows : lock'[x] \in {lock[x], Nobody},
             \A s \in Requests \ {r} : req'[s] = req[s]
      PROVE  LocksAreSteps'
  BY <1>b DEF Inv, TypeOK, LocksAreSteps, Runs
<1>1. ASSUME NEW r \in Requests, Begin(r) PROVE LocksAreSteps'
  <2>1. \A x \in Rows : lock[x] # r
    BY <1>1, <1>a DEF Begin, Inv, LocksAreHeld, IdleHasNone
  <2> QED BY <1>1, <2>1, <1>b DEF Begin, Inv, TypeOK
\* Of a handler that is not careful nothing is said.
<1>2. ASSUME NEW r \in Requests, Serve(r), ~Careful(req[r].h) PROVE LocksAreSteps'
  <2>1. /\ req'[r].h = req[r].h
        /\ \A s \in Requests \ {r} : req'[s] = req[s]
    BY <1>2 DEF Serve, Turn, Await, Resume, Thread, Connect, PoolTimeout, Query, LockRow,
                Deadlock, Commit, Http, Check, Return, Answer, Close,
                Goes, StepsTo, Advances, Inv, TypeOK
  <2>2. \A x \in Rows : lock'[x] \in {lock[x], Nobody, r}
    BY <1>2 DEF Serve, Turn, Await, Resume, Thread, Connect, PoolTimeout, Query, LockRow,
                Deadlock, Commit, Http, Check, Return, Answer, Close, Unlock, Inv, TypeOK
  <2> QED BY <1>2, <2>1, <2>2, <1>a DEF Inv, TypeOK, LocksAreSteps, Runs
<1>3. ASSUME NEW r \in Requests, Serve(r), Careful(req[r].h) PROVE LocksAreSteps'
  <2>a. /\ req[r].h \in Served /\ req[r].pc \in Nat \ {0}
        /\ req[r].pc <= Size(r) => Upcoming(r) \in Steps
    BY ProgramType DEF Inv, TypeOK, Size, Upcoming
  <2>1. CASE Turn(r) \/ Resume(r) \/ Answer(r)
    <3>1. \A x \in Rows : lock[x] # r
      BY <2>1, <1>3, NothingHeld DEF Turn, Resume, Answer, Runs
    <3> QED BY <2>1, <3>1, <1>b DEF Turn, Resume, Answer, Goes, Inv, TypeOK
  <2>2. CASE Await(r) \/ Thread(r)
    <3>1. Does(r, {"await", "thread", "check"})
      BY <2>2 DEF Await, Thread, Does
    <3>2. \A x \in Rows : lock[x] # r
      BY <3>1, <1>3, NothingHeld
    <3> QED BY <2>2, <3>2, <1>b DEF Await, Thread, StepsTo, Inv, TypeOK
  <2>3. CASE Check(r)
    <3>1. Does(r, {"await", "thread", "check"})
      BY <2>3 DEF Check, Does
    <3>2. \A x \in Rows : lock[x] # r
      BY <3>1, <1>3, NothingHeld
    <3> QED BY <2>3, <3>2, <1>b DEF Check, Advances, Goes, Inv, TypeOK
  <2>4. CASE Return(r)
    <3>1. \A x \in Rows : lock[x] # r
      BY <2>4, <1>3, NothingHeld DEF Return
    <3> QED BY <2>4, <3>1, <1>b DEF Return, Goes, Inv, TypeOK
  <2>5. CASE Connect(r)
    BY <2>5 DEF Connect, Inv, LocksAreSteps, Runs
  <2>6. CASE PoolTimeout(r)
    <3>1. \A x \in Rows : lock[x] # r
      BY <2>6, <1>a DEF PoolTimeout, Needs, Inv, LocksAreHeld
    <3> QED BY <2>6, <3>1, <1>b DEF PoolTimeout, Advances, Goes, Inv, TypeOK
  <2>7. CASE Query(r) \/ Http(r)
    <3>1. Does(r, {"query", "probe", "http"}) /\ Advances(r) /\ UNCHANGED lock
      BY <2>7 DEF Query, Http, Does
    <3>2. Held(req[r].h, req[r].pc) \subseteq Held(req[r].h, req[r].pc + 1)
      BY <3>1, <2>a, HeldGrows DEF Does, Upcoming, Size
    <3> QED BY <3>1, <3>2 DEF Advances, Does, Inv, TypeOK, LocksAreSteps, Runs
  <2>8. CASE LockRow(r)
    <3>1. Does(r, Rows) /\ Advances(r) /\ lock' = [lock EXCEPT ![Upcoming(r)] = r]
      BY <2>8 DEF LockRow
    <3>2. /\ Held(req[r].h, req[r].pc) \subseteq Held(req[r].h, req[r].pc + 1)
          /\ Upcoming(r) \in Held(req[r].h, req[r].pc + 1)
      BY <3>1, <2>a, <1>a, HeldGrows DEF Does, Upcoming, Size
    <3> QED BY <3>1, <3>2 DEF Advances, Does, Inv, TypeOK, LocksAreSteps, Runs
  <2>9. CASE Deadlock(r) \/ Commit(r) \/ Close(r)
    <3>1. Unlock(r) /\ \A s \in Requests \ {r} : req'[s] = req[s]
      BY <2>9 DEF Deadlock, Commit, Close, Goes, Advances, Inv, TypeOK
    <3> QED BY <3>1, <1>b, <1>a DEF Unlock
  <2> QED BY <1>3, <2>1, <2>2, <2>3, <2>4, <2>5, <2>6, <2>7, <2>8, <2>9 DEF Serve
<1> QED BY <1>0, <1>1, <1>2, <1>3 DEF Next

LEMMA InvHolds == Spec => []Inv
<1>1. Init => Inv
  BY InitType
<1>2. Inv /\ [Next]_vars => Inv'
  BY NextType, NextHeld, NextIdle, NextSteps DEF Inv
<1> QED BY <1>1, <1>2, PTL DEF Spec

\* Whoever has locked a row and follows a careful handler does not need the
\* loop before the row is free again, whatever the others do.
THEOREM CarefulHandlersDoNotHang == Spec => []LocksNeedNoLoop
<1>1. Inv => LocksNeedNoLoop
  BY DEF Inv, LocksAreSteps, LocksNeedNoLoop, Runs
<1> QED BY <1>1, InvHolds, PTL

-----------------------------------------------------------------------------
(***************************************************************************)
(* What stops the server.  If nobody goes on, everybody who is not kept    *)
(* from the loop waits for somebody else's row; requests are finitely      *)
(* many, so some of them wait in a cycle, and Postgres breaks cycles.      *)
(***************************************************************************)

\* Whoever is waited for has a transaction and is in flight.
LEMMA HolderInFlight ==
  ASSUME Inv, NEW r \in Requests, NEW s \in Requests, Waits(r, s)
  PROVE  req[s].at # "idle"
<1>1. Does(r, Rows) /\ lock[Upcoming(r)] = s
  BY DEF Waits
<1>2. Upcoming(r) \in Rows /\ s # Nobody
  BY <1>1, LoopAssumption DEF Does
<1> QED BY <1>1, <1>2 DEF Inv, LocksAreHeld, IdleHasNone

\* Among finitely many requests that all wait for one of them there is a cycle.
\* A smallest set of that kind is one: without a request that nobody in it
\* waits for it would be smaller.
LEMMA WaitsInCycle ==
  ASSUME NEW U \in SUBSET Requests, U # {},
         \A r \in U : \E s \in U : Waits(r, s)
  PROVE  \E S \in SUBSET U : S # {} /\ Cycle(S)
<1> DEFINE Closed == {T \in SUBSET U : T # {} /\ \A r \in T : \E s \in T : Waits(r, s)}
<1>1. IsFiniteSet(U) /\ FiniteSubsetsOf(U) = SUBSET U
  BY LoopAssumption, FS_Subset, FS_FiniteSubsetsOfFinite
<1>2. IsWellFoundedOn(StrictSubsetOrdering(U), SUBSET U)
  BY <1>1, FS_StrictSubsetOrderingWellFounded
<1>3. Closed \subseteq SUBSET U /\ U \in Closed
  OBVIOUS
<1>4. PICK S \in Closed : \A T \in Closed : <<T, S>> \notin StrictSubsetOrdering(U)
  <2> HIDE DEF Closed
  <2> QED BY <1>2, <1>3, WFMin
<1>5. ASSUME NEW s \in S, \A t \in S : ~Waits(t, s) PROVE FALSE
  <2> DEFINE T == S \ {s}
  <2>1. PICK t \in S : Waits(s, t)
    OBVIOUS
  <2>2. t # s
    BY <2>1 DEF Waits
  <2>3. T \in Closed
    BY <1>5, <2>2
  <2>4. <<T, S>> \in StrictSubsetOrdering(U)
    BY DEF StrictSubsetOrdering
  <2> QED BY <1>4, <2>3, <2>4
<1> QED BY <1>5 DEF Cycle

\* So a set of requests that all wait for one of them holds one that goes on.
LEMMA CycleGoesOn ==
  ASSUME NEW U \in SUBSET Requests, U # {},
         \A r \in U : req[r].at \notin {"idle", "ready", "ending"},
         \A r \in U : \E s \in U : Waits(r, s)
  PROVE  \E r \in Requests : GoesOn(r)
<1>1. PICK S \in SUBSET U : S # {} /\ Cycle(S)
  BY WaitsInCycle
<1>2. PICK r \in S : TRUE
  BY <1>1
<1>3. r \in Requests /\ S \in SUBSET Requests
  OBVIOUS
<1> QED BY <1>1, <1>3 DEF GoesOn

\* A request that runs and does not go on waits for a row.
LEMMA StuckInRow ==
  ASSUME Inv, NEW r \in Requests, ~GoesOn(r),
         \/ Runs(r)
         \/ req[r].at # "idle" /\ loop = Nobody
  PROVE  Runs(r) /\ \E s \in Requests : Waits(r, s)
BY DEF GoesOn, Runs, Waits, Does

\* The server stops only when a coroutine on the loop waits for a row: neither
\* the connection pool nor a cycle of row locks brings it to a stop, for any
\* programs and any number of requests and connections.
THEOREM RowsAloneStop == Spec => []OnlyRowsStop
<1>1. ASSUME Inv PROVE OnlyRowsStop
  <2> SUFFICES ASSUME NEW r0 \in Requests, req[r0].at # "idle",
                      \A r \in Requests : ~GoesOn(r),
                      \A r, s \in Requests : ~(loop = r /\ Waits(r, s))
               PROVE  FALSE
    BY DEF OnlyRowsStop
  <2> DEFINE U == {r \in Requests : req[r].at # "idle"}
  <2>1. loop = Nobody
    <3> SUFFICES ASSUME NEW l \in Requests, loop = l PROVE FALSE
      BY <1>1 DEF Inv, TypeOK
    <3>1. Runs(l)
      BY <1>1 DEF Inv, TypeOK, Runs
    <3> QED BY <1>1, <3>1, StuckInRow
  <2>2. \A r \in U : Runs(r) /\ \E s \in Requests : Waits(r, s)
    BY <1>1, <2>1, StuckInRow
  <2>3. \A r \in U : \E s \in U : Waits(r, s)
    BY <1>1, <2>2, HolderInFlight
  <2>4. U # {} /\ U \in SUBSET Requests
        /\ \A r \in U : req[r].at \notin {"idle", "ready", "ending"}
    BY <2>2 DEF Runs
  <2> QED BY <2>3, <2>4, CycleGoesOn
<1> QED BY <1>1, InvHolds, PTL

\* When nobody goes on, whoever has a row runs, or is careless and needs the loop.
LEMMA HolderStuck ==
  ASSUME Inv, \A q \in Requests : ~GoesOn(q),
         NEW r \in Requests, NEW s \in Requests, Waits(r, s), ~Runs(s)
  PROVE  \E x \in Rows :
             lock[x] = s /\ ~Careful(req[s].h) /\ req[s].at \in {"ready", "ending"}
<1>1. Upcoming(r) \in Rows /\ lock[Upcoming(r)] = s /\ s # Nobody
  BY LoopAssumption DEF Waits, Does
<1>2. ~Careful(req[s].h)
  BY <1>1 DEF Inv, LocksAreSteps
<1>3. req[s].at # "idle" /\ req[s].at \notin {"awaiting", "closing"}
  <2>1. \A t \in Requests : ~Waits(s, t)
    BY DEF Waits, Does
  <2> QED BY <2>1, HolderInFlight DEF GoesOn
<1>4. req[s].at \in {"ready", "ending"}
  BY <1>3 DEF Inv, TypeOK, Places, Runs
<1> QED BY <1>1, <1>2, <1>4

\* When no request goes on, a handler that is not careful has a row and is kept
\* from the loop, for any programs and any number of requests and connections:
\* without such a holder all who run wait for one another, in a cycle.
THEOREM CarelessAloneStop == Spec => []OnlyCarelessStop
<1>1. ASSUME Inv PROVE OnlyCarelessStop
  <2> DEFINE Careless(s) ==
          \E x \in Rows :
              lock[x] = s /\ ~Careful(req[s].h) /\ req[s].at \in {"ready", "ending"}
  <2> SUFFICES ASSUME NEW r0 \in Requests, req[r0].at # "idle",
                      \A r \in Requests : ~GoesOn(r),
                      loop = Nobody \/ \A s \in Requests : ~Careless(s)
               PROVE  FALSE
    BY DEF OnlyCarelessStop
  <2> DEFINE U == {r \in Requests : Runs(r)}
  <2>1. \A r \in U : \E s \in Requests : Waits(r, s)
    BY <1>1, StuckInRow
  <2>2. \A r \in U : \E s \in U : Waits(r, s)
    <3>1. CASE loop = Nobody
      <4>1. \A r \in Requests : req[r].at # "idle" => Runs(r)
        BY <1>1, <3>1, StuckInRow
      <4> QED BY <1>1, <2>1, <4>1, HolderInFlight
    <3>2. CASE \A s \in Requests : ~Careless(s)
      BY <1>1, <2>1, <3>2, HolderStuck
    <3> QED BY <3>1, <3>2
  <2>3. U # {}
    <3>1. CASE loop = Nobody
      BY <1>1, <3>1, StuckInRow
    <3>2. CASE loop \in Requests
      BY <1>1, <3>2 DEF Inv, TypeOK, Runs
    <3> QED BY <1>1, <3>1, <3>2 DEF Inv, TypeOK
  <2>4. \A r \in U : req[r].at \notin {"idle", "ready", "ending"}
    BY DEF Runs
  <2> QED BY <2>2, <2>3, <2>4, CycleGoesOn
<1> QED BY <1>1, InvHolds, PTL
=============================================================================
