------------------------------ MODULE EventLoop ------------------------------
(***************************************************************************)
(* How the server runs its requests: one event loop, worker threads, a     *)
(* pool of database connections and the row locks of Postgres.             *)
(*                                                                         *)
(* A coroutine has the event loop to itself until it awaits; a database    *)
(* call is synchronous, so while it waits the loop waits with it.  A "def" *)
(* handler runs in a worker thread and needs the loop before and after.    *)
(* A session takes a connection for its first statement and gives it back  *)
(* when it commits or is closed; get_db closes it in a worker thread, once *)
(* the loop has sent the answer.                                           *)
(*                                                                         *)
(* What a handler does is a sequence of steps.  The rows are those of one  *)
(* account, and exist: "user", and a pending_actions row per kind.         *)
(***************************************************************************)
EXTENDS Naturals, Sequences, FiniteSets

CONSTANTS
    Requests,   \* slots for requests in flight
    Nobody,     \* no request
    Served,     \* the handlers that are called
    Program,    \* the steps of each handler
    PoolSize    \* connections: pool_size and max_overflow of the engine

Rows == {"user", "jti", "code", "verification", "invite"}
Steps == Rows \union {"query", "probe", "commit", "await", "thread", "check", "http"}

ASSUME LoopAssumption ==
    /\ Nobody \notin Requests /\ IsFiniteSet(Requests)
    /\ Served \subseteq DOMAIN Program
    /\ \A h \in Served : Program[h] \in Seq(Steps)
    /\ PoolSize \in Nat \ {0}

VARIABLES
    req,    \* the requests: their handler, its next step, and where they are
    loop,   \* the request whose coroutine runs, or Nobody
    conns,  \* the requests whose session has a connection
    lock,   \* the request that has locked a row, or Nobody
    says    \* what the health check last said of the database

vars == <<req, loop, conns, lock, says>>

Places == {"idle", "ready", "loop", "awaiting", "thread", "ending", "closing"}

Init ==
    /\ \E h \in Served : req = [r \in Requests |-> [h |-> h, pc |-> 1, at |-> "idle"]]
    /\ loop = Nobody /\ conns = {}
    /\ lock = [x \in Rows |-> Nobody] /\ says = "nothing"

-----------------------------------------------------------------------------
Size(r) == Len(Program[req[r].h])
Runs(r) == req[r].at \in {"loop", "thread"}
Finished(r) == Runs(r) /\ req[r].pc > Size(r)
Upcoming(r) == Program[req[r].h][req[r].pc]
Does(r, steps) == Runs(r) /\ req[r].pc <= Size(r) /\ Upcoming(r) \in steps

Advances(r) == req' = [req EXCEPT ![r].pc = @ + 1]
StepsTo(r, at) == req' = [req EXCEPT ![r] = [h |-> @.h, pc |-> @.pc + 1, at |-> at]]
Goes(r, at) == req' = [req EXCEPT ![r].at = at]
YieldLoop(r) == loop' = IF loop = r THEN Nobody ELSE loop

\* The end of a transaction.
Unlock(r) == lock' = [x \in Rows |-> IF lock[x] = r THEN Nobody ELSE lock[x]]

-----------------------------------------------------------------------------
\* A request comes in.
Begin(r) ==
    /\ req[r].at = "idle"
    /\ \E h \in Served : req' = [req EXCEPT ![r] = [h |-> h, pc |-> 1, at |-> "ready"]]
    /\ UNCHANGED <<loop, conns, lock, says>>

\* A slip: a coroutine starts although another one has not yielded.
TurnAnyway(r) ==
    /\ req[r].at = "ready"
    /\ loop' = r /\ Goes(r, "loop")
    /\ UNCHANGED <<conns, lock, says>>

\* The loop turns to a coroutine that can go on.
Turn(r) ==
    /\ req[r].at = "ready" /\ loop = Nobody
    /\ loop' = r /\ Goes(r, "loop")
    /\ UNCHANGED <<conns, lock, says>>

\* await of Redis, or of a worker thread.
Await(r) ==
    /\ Does(r, {"await"})
    /\ StepsTo(r, "awaiting") /\ YieldLoop(r)
    /\ UNCHANGED <<conns, lock, says>>

\* A slip: Redis is asked without a timeout and does not answer.
ResumeSpins(r) == req[r].at = "awaiting" /\ UNCHANGED vars

\* The answer, or the end of its timeout.
Resume(r) ==
    /\ req[r].at = "awaiting" /\ Goes(r, "ready")
    /\ UNCHANGED <<loop, conns, lock, says>>

\* From here on a "def" handler runs in a worker thread.
Thread(r) ==
    /\ Does(r, {"thread"})
    /\ StepsTo(r, "thread") /\ YieldLoop(r)
    /\ UNCHANGED <<conns, lock, says>>

\* The statements of a session need a connection.
Needs(r) == r \notin conns /\ Does(r, Rows \union {"query", "probe"})
Exhausted == Cardinality(conns) >= PoolSize

Connect(r) ==
    /\ Needs(r) /\ ~Exhausted
    /\ conns' = conns \union {r}
    /\ UNCHANGED <<req, loop, lock, says>>

\* A slip: the pool is asked again and again.
PoolRetries(r) == Needs(r) /\ Exhausted /\ UNCHANGED vars

\* QueuePool gives up after its timeout; only the health check catches that.
PoolTimeout(r) ==
    /\ Needs(r) /\ Exhausted
    /\ IF Upcoming(r) = "probe"
       THEN Advances(r) /\ says' = "down" /\ UNCHANGED loop
       ELSE Goes(r, "ending") /\ YieldLoop(r) /\ UNCHANGED says
    /\ UNCHANGED <<conns, lock>>

\* A SELECT, which waits for nobody.
Query(r) ==
    /\ r \in conns /\ Does(r, {"query", "probe"})
    /\ says' = IF Upcoming(r) = "probe" THEN "up" ELSE says
    /\ Advances(r) /\ UNCHANGED <<loop, conns, lock>>

\* SELECT FOR UPDATE, UPDATE or DELETE of a row, which waits for its lock.
LockRow(r) ==
    /\ r \in conns /\ Does(r, Rows)
    /\ lock[Upcoming(r)] \in {r, Nobody}
    /\ lock' = [lock EXCEPT ![Upcoming(r)] = r]
    /\ Advances(r) /\ UNCHANGED <<loop, conns, says>>

\* r waits in the database for a lock that s has.
Waits(r, s) == r \in conns /\ Does(r, Rows) /\ s # r /\ lock[Upcoming(r)] = s

Cycle(S) == \A s \in S : (\E t \in S : Waits(s, t)) /\ (\E t \in S : Waits(t, s))

\* Postgres finds a cycle of them, and fails one: its transaction is aborted.
Deadlock(r) ==
    /\ Does(r, Rows)
    /\ \E S \in SUBSET Requests : r \in S /\ Cycle(S)
    /\ Unlock(r) /\ Goes(r, "ending") /\ YieldLoop(r)
    /\ UNCHANGED <<conns, says>>

\* A slip: the statements are flushed and not committed.
CommitFlushes(r) == Does(r, {"commit"}) /\ Advances(r) /\ UNCHANGED <<loop, conns, lock, says>>

\* commit: the locks are released, and the connection goes back to the pool.
Commit(r) ==
    /\ Does(r, {"commit"})
    /\ Unlock(r) /\ conns' = conns \ {r}
    /\ Advances(r) /\ UNCHANGED <<loop, says>>

\* requests.get and requests.post: whoever runs, waits.
Http(r) ==
    /\ Does(r, {"http"})
    /\ Advances(r) /\ UNCHANGED <<loop, conns, lock, says>>

\* The handler goes on, or answers here: not found, refused, failed.
Check(r) ==
    /\ Does(r, {"check"})
    /\ \/ Advances(r) /\ UNCHANGED loop
       \/ Goes(r, "ending") /\ YieldLoop(r)
    /\ UNCHANGED <<conns, lock, says>>

\* The handler has come to its end.
Return(r) ==
    /\ Finished(r)
    /\ Goes(r, "ending") /\ YieldLoop(r)
    /\ UNCHANGED <<conns, lock, says>>

\* The loop sends the answer and has the session closed, in a thread.
Answer(r) ==
    /\ req[r].at = "ending" /\ loop = Nobody
    /\ Goes(r, "closing")
    /\ UNCHANGED <<loop, conns, lock, says>>

\* A slip: the session is closed without a rollback.
CloseOnly(r) ==
    /\ req[r].at = "closing" /\ Goes(r, "idle")
    /\ conns' = conns \ {r}
    /\ UNCHANGED <<loop, lock, says>>

\* db.close: what is not committed is rolled back.
Close(r) ==
    /\ req[r].at = "closing" /\ Goes(r, "idle")
    /\ Unlock(r) /\ conns' = conns \ {r}
    /\ UNCHANGED <<loop, says>>

\* What a request in flight does next: one of these at a time.
Serve(r) ==
    \/ Turn(r) \/ Await(r) \/ Resume(r) \/ Thread(r)
    \/ Connect(r) \/ PoolTimeout(r)
    \/ Query(r) \/ LockRow(r) \/ Deadlock(r) \/ Commit(r) \/ Http(r)
    \/ Check(r) \/ Return(r) \/ Answer(r) \/ Close(r)

Next == \E r \in Requests : Begin(r) \/ Serve(r)

Spec == Init /\ [][Next]_vars

\* The ready queue of the loop and the lock queues of Postgres are served in
\* order, so no request that can often go on is passed over for ever.
Fairness == \A r \in Requests : SF_vars(Serve(r))

FairSpec == Spec /\ Fairness

-----------------------------------------------------------------------------
\* The rows that a handler has locked when it comes to its step i.
Held(h, i) ==
    {x \in Rows : \E j \in 1 .. i - 1 :
        Program[h][j] = x /\ \A k \in j .. i - 1 : Program[h][k] # "commit"}

\* A handler that has no row locked when it yields, changes to a thread or may
\* answer.
Careful(h) ==
    \A i \in 1 .. Len(Program[h]) + 1 :
        i = Len(Program[h]) + 1 \/ Program[h][i] \in {"await", "thread", "check"}
            => Held(h, i) = {}

\* The state is well typed, and one coroutine runs at a time.
TypeOK ==
    /\ req \in [Requests -> [h : Served, pc : Nat \ {0}, at : Places]]
    /\ \A r \in Requests : req[r].pc <= Size(r) + 1
    /\ loop \in Requests \union {Nobody}
    /\ \A r \in Requests : req[r].at = "loop" <=> loop = r
    /\ conns \subseteq Requests
    /\ lock \in [Rows -> Requests \union {Nobody}]
    /\ says \in {"nothing", "up", "down"}

\* A row is locked only by a session with an open transaction: nothing stays
\* locked when the request is over.
LocksAreHeld == \A x \in Rows : lock[x] # Nobody => lock[x] \in conns

\* A careful handler that has locked a row does not need the loop, which may
\* be waiting for that very row, before it lets the row go.
LocksNeedNoLoop ==
    \A x \in Rows : lock[x] # Nobody /\ Careful(req[lock[x]].h)
        => req[lock[x]].at \in {"loop", "thread", "closing"}

\* The loop waits for a row, and whoever has the row waits for the loop.
Hung ==
    \E r, s \in Requests :
        loop = r /\ Waits(r, s) /\ req[s].at \in {"ready", "awaiting", "ending"}

\* A request in flight that is neither kept from the loop nor from a row, unless
\* the row is part of a cycle that Postgres breaks.
GoesOn(r) ==
    /\ req[r].at # "idle"
    /\ req[r].at \in {"ready", "ending"} => loop = Nobody
    /\ (\E s \in Requests : Waits(r, s)) => \E S \in SUBSET Requests : r \in S /\ Cycle(S)

\* Only the loop and rows keep a request from its next step: neither the
\* connection pool nor Redis nor a cycle of row locks does it.
OnlyLoopAndRowsKeep == \A r \in Requests : GoesOn(r) <=> ENABLED <<Serve(r)>>_vars

\* The server stops only when a coroutine on the loop waits for a row: as long as
\* there is a request in flight and none such, one of them goes on.
OnlyRowsStop ==
    (\E r \in Requests : req[r].at # "idle")
        => \/ \E r \in Requests : GoesOn(r)
           \/ \E r, s \in Requests : loop = r /\ Waits(r, s)

\* When the loop is held up and no request goes on, a handler that is not careful
\* has a row locked and is kept from the loop: careful handlers, among whatever
\* others are served, never stop the server by their own locks.
OnlyCarelessStop ==
    (\E r \in Requests : req[r].at # "idle") /\ (\A r \in Requests : ~GoesOn(r))
        => /\ loop # Nobody
           /\ \E s \in Requests, x \in Rows :
                  lock[x] = s /\ ~Careful(req[s].h) /\ req[s].at \in {"ready", "ending"}

\* Every request is answered and its session closed, unless the server hangs.
AnsweredUnlessHung ==
    []~Hung => \A r \in Requests : req[r].at # "idle" ~> req[r].at = "idle"

-----------------------------------------------------------------------------
(* What the documents, messages and tests of the repository promise, and   *)
(* the code does not keep: README.md, "Divergences".                       *)

\* GET /health is not left waiting behind a loop that will not turn again
\* (README.md, "`/health` endpoint with per-dependency up/down status").
HealthAnswers == \A r \in Requests : req[r].h = "health" /\ req[r].at = "ready" => ~Hung

\* /health says of Postgres, which is up here, that it is up.
HealthIsTrue == says # "down"
=============================================================================
